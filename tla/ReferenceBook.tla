--------------------------- MODULE ReferenceBook ---------------------------
(***************************************************************************)
(* What the engine promises, without arena, linked lists, cached totals or *)
(* maps: the naive book that tests/fuzz.rs compares it with, at the grain  *)
(* of one trade per step and with the order types, cancels and             *)
(* replacements that the naive book of the test leaves out.                *)
(*                                                                         *)
(* A side of the book is, for each price, the queue of the orders there.   *)
(***************************************************************************)
EXTENDS Command, SequencesExt

CONSTANTS
  Capacity,   \* how many orders may rest
  NoOrder

VARIABLES
  book,       \* book[side][price], a sequence of [order_id, user_id, qty]
  incoming,   \* the order being matched, or NoOrder
  left,       \* what is left of it
  trades      \* the trades of the current command

vars == <<book, incoming, left, trades>>

Init ==
  /\ book = [side \in Sides |-> [p \in Prices |-> <<>>]]
  /\ incoming = NoOrder
  /\ left = 0
  /\ trades = <<>>

Resting(b, side) ==
  UNION {{b[side][p][k] : k \in DOMAIN b[side][p]} : p \in Prices}

IdsIn(b) ==
  {r.order_id : r \in UNION {Resting(b, side) : side \in Sides}}

\* A queue when the order of that id has left it, if it was there.
Skip(queue, id) ==
  IF \E k \in DOMAIN queue : queue[k].order_id = id
  THEN RemoveAt(queue, CHOOSE k \in DOMAIN queue : queue[k].order_id = id)
  ELSE queue

Without(b, id) ==
  [side \in Sides |-> [p \in Prices |-> Skip(b[side][p], id)]]

InReach(order, p) ==
  IF order.side = "Bid" THEN order.price >= p ELSE order.price <= p

Before(side, p, q) == IF side = "Ask" THEN p < q ELSE p > q

-----------------------------------------------------------------------------

\* An order starts to match if it asks for something, under a fresh id.
Begin(b, order) ==
  /\ order.qty > 0
  /\ order.order_id \notin IdsIn(b)
  /\ book' = b
  /\ incoming' = order
  /\ left' = order.qty
  /\ trades' = <<>>

\* A command that ends at once, with or without removing an order.
EndAtOnce(b) ==
  /\ book' = b
  /\ trades' = <<>>
  /\ UNCHANGED <<incoming, left>>

Place(order) == Begin(book, order)

Cancel(id) == EndAtOnce(Without(book, id))

\* A replacement keeps side and user of the order it replaces, and is a limit
\* order; when it is refused, the original is gone all the same.
Replace(id, new) ==
  /\ \E r \in Resting(book, new.side) :
       r.order_id = id /\ r.user_id = new.user_id
  /\ new.order_type = "Limit"
  /\ Begin(Without(book, id), new)

Against == Opposite(incoming.side)

\* p is the price at which the incoming order trades next.
TradesAt(p) ==
  /\ InReach(incoming, p)
  /\ book[Against][p] # <<>>
  /\ \A q \in Prices :
       Before(Against, q, p) => book[Against][q] = <<>>

\* Price-time priority: the oldest order at the best price, in full or for
\* what is left.
Trade(p) ==
  LET queue == book[Against][p]
      maker == Head(queue)
      qty == Lesser(left, maker.qty)
      rest == IF qty = maker.qty
              THEN Tail(queue)
              ELSE [queue EXCEPT ![1].qty = @ - qty]
  IN  /\ left > 0 /\ TradesAt(p)
      /\ book' = [book EXCEPT ![Against][p] = rest]
      /\ left' = left - qty
      /\ trades' = Append(trades, TradeEvent(p, qty, maker, incoming))
      /\ UNCHANGED incoming

End == incoming' = NoOrder /\ left' = 0 /\ UNCHANGED trades

Exhausted == left = 0 \/ \A p \in Prices : ~TradesAt(p)

Full == Cardinality(IdsIn(book)) = Capacity

Rest ==
  /\ left > 0 /\ Exhausted /\ ~Full
  /\ incoming.order_type = "Limit"
  /\ book' = [book EXCEPT ![incoming.side][incoming.price] =
                Append(@, [order_id |-> incoming.order_id,
                           user_id |-> incoming.user_id, qty |-> left])]
  /\ End

\* A remainder may be dropped if the order asked for that (IOC) or if there
\* is no room; a fill-or-kill order never leaves one.
Drop ==
  /\ Exhausted
  /\ \/ left = 0
     \/ incoming.order_type = "IOC"
     \/ incoming.order_type = "Limit" /\ Full
  /\ UNCHANGED book
  /\ End

Next ==
  \/ /\ incoming = NoOrder
     /\ \/ EndAtOnce(book)
        \/ \E id \in OrderIds : Cancel(id)
        \/ \E order \in PlaceOrder : Place(order)
        \/ \E id \in OrderIds, new \in PlaceOrder : Replace(id, new)
  \/ /\ incoming # NoOrder
     /\ (\E p \in Prices : Trade(p)) \/ Rest \/ Drop

Spec == Init /\ [][Next]_vars
=============================================================================
