------------------------------ MODULE Command ------------------------------
(***************************************************************************)
(* The commands the engine takes and the events it emits                   *)
(* (src/command.rs).  Identifiers are opaque; prices and quantities are    *)
(* unsigned integers.                                                      *)
(***************************************************************************)
EXTENDS Word

CONSTANTS
  OrderIds,   \* order ids, chosen by the clients
  UserIds,
  Prices,     \* prices a command may carry, of type u64
  Qtys        \* quantities a command may carry, of type u32

ASSUME CommandAssumption ==
  /\ OrderIds # {} /\ UserIds # {}
  /\ Prices \subseteq 0 .. U64_MAX
  /\ Qtys \subseteq U32

Sides == {"Bid", "Ask"}

Opposite(side) == IF side = "Bid" THEN "Ask" ELSE "Bid"

OrderTypes == {"Limit", "IOC", "FOK"}

PlaceOrder ==
  [order_id : OrderIds, user_id : UserIds, side : Sides, price : Prices,
   qty : Qtys, order_type : OrderTypes]

Command ==
  [kind : {"Place"}, order : PlaceOrder]
    \cup [kind : {"Cancel"}, order_id : OrderIds]
    \cup [kind : {"Modify"}, order_id : OrderIds, new_order_id : OrderIds,
          new_price : Prices, new_qty : Qtys]

-----------------------------------------------------------------------------

TradeEvent(price, qty, maker, taker) ==
  [kind |-> "Trade", price |-> price, qty |-> qty,
   maker_order_id |-> maker.order_id, taker_order_id |-> taker.order_id,
   maker_user_id |-> maker.user_id, taker_user_id |-> taker.user_id,
   taker_side |-> taker.side]

BookUpdate(side, price, depth) ==
  [kind |-> "BookDelta", side |-> side, price |-> price,
   new_qty |-> depth.qty, new_count |-> depth.count]

OrderAccepted(order, qty) ==
  [kind |-> "Accepted", order_id |-> order.order_id, price |-> order.price,
   qty |-> qty, side |-> order.side]

OrderCanceled(id, qty) ==
  [kind |-> "Canceled", order_id |-> id, canceled_qty |-> qty]

OrderRejected(id, reason) ==
  [kind |-> "Rejected", order_id |-> id, reason |-> reason]
=============================================================================
