------------------------------ MODULE Matching ------------------------------
(***************************************************************************)
(* Price-time-priority matching (src/matching.rs).  Placing an order       *)
(* validates it, then trades with one maker per step, from the best        *)
(* opposite price and in queue order, until nothing is left of it or       *)
(* nothing crosses, and then rests, drops or rejects what remains.         *)
(***************************************************************************)
EXTENDS OrderBook, Sequences

CONSTANT NoOrder    \* in place of an order when none is being placed

ASSUME NoOrderAssumption == NoOrder \notin PlaceOrder

VARIABLES
  matcher,        \* arena, price levels and order map
  event_buffer,   \* events of the command being processed, or last processed
  pc,             \* "idle", "cross" (in cross_order) or "panicked"
  taker,          \* the order being placed
  remaining_qty   \* what is left of it

place == <<pc, taker, remaining_qty>>

\* Mutant of Crosses: a bid does not trade at its own price.
CrossesStrictly(order, p) ==
  IF order.side = "Bid" THEN order.price > p ELSE order.price <= p

Crosses(order, p) ==
  IF order.side = "Bid" THEN order.price >= p ELSE order.price <= p

\* Mutant of AvailableQty: the price of the order is not looked at.
AvailableAnywhere(m, order) ==
  LET book == m.levels[Opposite(order.side)]
  IN  SaturatingU32(SumFunction([p \in DOMAIN book |-> AsU32(book[p].total_qty)]))

\* Sum over the crossing levels, each cut to 32 bits and added with
\* saturation.  The loop returns early once the sum covers the order; whether
\* the result is below order.qty, all that is asked of it, is the same.
AvailableQty(m, order) ==
  LET book == m.levels[Opposite(order.side)]
      crossing == {p \in DOMAIN book : Crosses(order, p)}
  IN  SaturatingU32(SumFunctionOnSet(
          [p \in DOMAIN book |-> AsU32(book[p].total_qty)], crossing))

Rejection(m, order) ==
  IF order.qty = 0 THEN "InvalidQuantity"
  ELSE IF order.order_id \in DOMAIN m.order_map THEN "DuplicateOrderId"
  ELSE IF order.order_type = "FOK" /\ AvailableQty(m, order) < order.qty
  THEN "InsufficientLiquidity"
  ELSE "none"

\* Mutant of ProcessPlace: the order is checked against the book as it was
\* before the cancel that a replacement begins with.
ProcessPlaceStale(m, order, events) ==
  /\ matcher' = m
  /\ \/ /\ Rejection(matcher, order) # "none"
        /\ event_buffer' = Append(events, OrderRejected(order.order_id,
                                                        Rejection(matcher, order)))
        /\ UNCHANGED place
     \/ /\ Rejection(matcher, order) = "none"
        /\ event_buffer' = events
        /\ pc' = "cross"
        /\ taker' = order
        /\ remaining_qty' = order.qty

\* process_place on matcher m, up to the first trade.
ProcessPlace(m, order, events) ==
  /\ matcher' = m
  /\ \/ /\ Rejection(m, order) # "none"
        /\ event_buffer' = Append(events, OrderRejected(order.order_id,
                                                        Rejection(m, order)))
        /\ UNCHANGED place
     \/ /\ Rejection(m, order) = "none"
        /\ event_buffer' = events
        /\ pc' = "cross"
        /\ taker' = order
        /\ remaining_qty' = order.qty

-----------------------------------------------------------------------------

\* Mutant of FillMaker: the node is not freed.
FillMakerLeaks(m, side, p) ==
  LET level == m.levels[side][p]
      maker == m.arena.nodes[level.head]
      popped == PopFront(level, m.arena.nodes)
  IN  [arena |-> [m.arena EXCEPT !.nodes = popped.nodes],
       levels |-> PutLevel(m, side, p, popped.level),
       order_map |-> Delete(m.order_map, maker.order_id)]

\* The oldest order of a level is filled: it leaves queue, map and arena.
FillMaker(m, side, p) ==
  LET level == m.levels[side][p]
      maker == m.arena.nodes[level.head]
      popped == PopFront(level, m.arena.nodes)
  IN  [arena |-> Free([m.arena EXCEPT !.nodes = popped.nodes], level.head),
       levels |-> PutLevel(m, side, p, popped.level),
       order_map |-> Delete(m.order_map, maker.order_id)]

\* Mutant of ReduceMaker: a partial fill costs the maker its place.
RequeueMaker(m, side, p, qty) ==
  LET level == m.levels[side][p]
      reduced == [m.arena.nodes EXCEPT ![level.head].qty = @ - qty]
      popped == PopFront(level, reduced)
      pushed == PushBack(popped.level, popped.nodes, level.head)
  IN  [arena |-> [m.arena EXCEPT !.nodes = pushed.nodes],
       levels |-> [m.levels EXCEPT ![side][p] = SubtractQty(pushed.level, qty)],
       order_map |-> m.order_map]

\* The oldest order of a level is filled in part: it keeps its place.
ReduceMaker(m, side, p, qty) ==
  LET level == m.levels[side][p]
      reduced == [m.arena.nodes EXCEPT ![level.head].qty = @ - qty]
  IN  [arena |-> [m.arena EXCEPT !.nodes = reduced],
       levels |-> [m.levels EXCEPT ![side][p] = SubtractQty(level, qty)],
       order_map |-> m.order_map]

MakerSide == Opposite(taker.side)

\* The best opposite price, when it crosses.
Matchable(p) == IsBest(matcher, MakerSide, p) /\ Crosses(taker, p)

\* Mutant of TradeWithHead: the depth is told before the trade too.
TradeToldTwice(p) ==
  LET level == matcher.levels[MakerSide][p]
      maker == matcher.arena.nodes[level.head]
      trade_qty == Lesser(remaining_qty, maker.qty)
      after == IF maker.qty = trade_qty
               THEN FillMaker(matcher, MakerSide, p)
               ELSE ReduceMaker(matcher, MakerSide, p, trade_qty)
  IN  /\ matcher' = after
      /\ remaining_qty' = remaining_qty - trade_qty
      /\ event_buffer' = event_buffer \o
           <<BookUpdate(MakerSide, p, DepthAt(matcher, MakerSide, p)),
             TradeEvent(p, trade_qty, maker, taker),
             BookUpdate(MakerSide, p, DepthAt(after, MakerSide, p))>>
      /\ UNCHANGED <<pc, taker>>

\* One turn of the loop in match_at_level: a trade with the oldest order.
TradeWithHead(p) ==
  LET level == matcher.levels[MakerSide][p]
      maker == matcher.arena.nodes[level.head]
      trade_qty == Lesser(remaining_qty, maker.qty)
      after == IF maker.qty = trade_qty
               THEN FillMaker(matcher, MakerSide, p)
               ELSE ReduceMaker(matcher, MakerSide, p, trade_qty)
  IN  /\ matcher' = after
      /\ remaining_qty' = remaining_qty - trade_qty
      /\ event_buffer' = event_buffer \o
           <<TradeEvent(p, trade_qty, maker, taker),
             BookUpdate(MakerSide, p, DepthAt(after, MakerSide, p))>>
      /\ UNCHANGED <<pc, taker>>

\* match_at_level does nothing at a level without orders, and cross_order
\* comes straight back to it: the engine spins.
Match(p) ==
  LET level == matcher.levels[MakerSide][p]
  IN  /\ pc = "cross"
      /\ remaining_qty > 0
      /\ Matchable(p)
      /\ IF IsEmpty(level) \/ level.head = NULL_INDEX
         THEN UNCHANGED <<matcher, event_buffer, pc, taker, remaining_qty>>
         ELSE TradeWithHead(p)

-----------------------------------------------------------------------------

\* cross_order is over: the taker is filled, or nothing crosses it.
Crossed ==
  /\ pc = "cross"
  /\ \/ remaining_qty = 0
     \/ ~ \E p \in DOMAIN matcher.levels[MakerSide] : Matchable(p)

Finish ==
  /\ pc' = "idle"
  /\ taker' = NoOrder
  /\ remaining_qty' = 0

\* rest_order into a node that alloc provides.
RestOrder(m, order, qty) ==
  LET i == m.arena.free_head
      a == Alloc(m.arena)
      node == [a.nodes[i] EXCEPT !.order_id = order.order_id,
                                 !.user_id = order.user_id,
                                 !.price = order.price, !.qty = qty]
  IN  AddOrder([m EXCEPT !.arena = [a EXCEPT !.nodes[i] = node]], order, i)

\* Mutant of RestRemainder: what is accepted is the order as it came.
RestAcceptsAll ==
  LET after == RestOrder(matcher, taker, remaining_qty)
  IN  /\ Crossed /\ remaining_qty > 0
      /\ taker.order_type = "Limit"
      /\ ~IsFull(matcher.arena)
      /\ matcher' = after
      /\ event_buffer' = event_buffer \o
           <<OrderAccepted(taker, taker.qty),
             BookUpdate(taker.side, taker.price,
                        DepthAt(after, taker.side, taker.price))>>
      /\ Finish

RestRemainder ==
  LET after == RestOrder(matcher, taker, remaining_qty)
  IN  /\ Crossed /\ remaining_qty > 0
      /\ taker.order_type = "Limit"
      /\ ~IsFull(matcher.arena)
      /\ matcher' = after
      /\ event_buffer' = event_buffer \o
           <<OrderAccepted(taker, remaining_qty),
             BookUpdate(taker.side, taker.price,
                        DepthAt(after, taker.side, taker.price))>>
      /\ Finish

RejectRemainder ==
  /\ Crossed /\ remaining_qty > 0
  /\ taker.order_type = "Limit"
  /\ IsFull(matcher.arena)
  /\ event_buffer' = Append(event_buffer,
                            OrderRejected(taker.order_id, "ArenaFull"))
  /\ Finish
  /\ UNCHANGED matcher

\* Nothing left, or an order that never rests: what is left of an IOC order
\* is dropped without an event; for a FOK order that is unreachable!().
CompletePlace ==
  /\ Crossed
  /\ remaining_qty = 0 \/ taker.order_type # "Limit"
  /\ IF remaining_qty > 0 /\ taker.order_type = "FOK"
     THEN pc' = "panicked" /\ UNCHANGED <<taker, remaining_qty>>
     ELSE Finish
  /\ UNCHANGED <<matcher, event_buffer>>

-----------------------------------------------------------------------------

\* process_cancel of an order in the book: the matcher and the events.
CancelOrder(m, id) ==
  LET info == m.order_map[id]
      removed == RemoveOrder(m, id)
  IN  [removed EXCEPT !.arena = Free(removed.arena, info.arena_index)]

\* Mutant of CancelEvents: the depth is read before the order is removed.
CancelEventsEarly(m, id) ==
  LET info == m.order_map[id]
  IN  <<OrderCanceled(id, m.arena.nodes[info.arena_index].qty),
        BookUpdate(info.side, info.price, DepthAt(m, info.side, info.price))>>

CancelEvents(m, id) ==
  LET info == m.order_map[id]
  IN  <<OrderCanceled(id, m.arena.nodes[info.arena_index].qty),
        BookUpdate(info.side, info.price,
                   DepthAt(CancelOrder(m, id), info.side, info.price))>>

\* state_hash, as what is fed to the hasher: equal hashes stand for equal
\* records.
StateHash(m) ==
  [best |-> [side \in Sides |-> BestPrice(m, side)],
   orders |-> OrderCount(m),
   allocated |-> m.arena.allocated_count,
   depth |-> [side \in Sides |->
                [p \in DOMAIN m.levels[side] |-> DepthAt(m, side, p)]]]

NotFoundEvents(id) == <<OrderRejected(id, "OrderNotFound")>>
=============================================================================
