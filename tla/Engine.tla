------------------------------- MODULE Engine -------------------------------
(***************************************************************************)
(* The engine's command dispatch (src/engine.rs) over the matching engine. *)
(* Commands arrive one at a time; process_command clears the event buffer, *)
(* runs the command to its end, and leaves its events in the buffer.       *)
(***************************************************************************)
EXTENDS Matching

vars == <<matcher, event_buffer, pc, taker, remaining_qty>>

Init ==
  /\ matcher = NewMatcher
  /\ event_buffer = <<>>
  /\ pc = "idle"
  /\ taker = NoOrder
  /\ remaining_qty = 0

Place(order) ==
  /\ pc = "idle"
  /\ ProcessPlace(matcher, order, <<>>)

Cancel(id) ==
  /\ pc = "idle"
  /\ \/ /\ id \in DOMAIN matcher.order_map
        /\ matcher' = CancelOrder(matcher, id)
        /\ event_buffer' = CancelEvents(matcher, id)
     \/ /\ id \notin DOMAIN matcher.order_map
        /\ event_buffer' = NotFoundEvents(id)
        /\ UNCHANGED matcher
  /\ UNCHANGED place

\* Cancel, then place what replaces the order: on its side, for its user,
\* and always as a limit order.
Replacement(info, modify) ==
  [order_id |-> modify.new_order_id, user_id |-> info.user_id,
   side |-> info.side, price |-> modify.new_price, qty |-> modify.new_qty,
   order_type |-> "Limit"]

Modify(modify) ==
  LET id == modify.order_id
  IN  /\ pc = "idle"
      /\ \/ /\ id \in DOMAIN matcher.order_map
            /\ ProcessPlace(CancelOrder(matcher, id),
                            Replacement(matcher.order_map[id], modify),
                            CancelEvents(matcher, id))
         \/ /\ id \notin DOMAIN matcher.order_map
            /\ event_buffer' = NotFoundEvents(id)
            /\ UNCHANGED <<matcher, place>>

ProcessCommand(cmd) ==
  \/ cmd.kind = "Place" /\ Place(cmd.order)
  \/ cmd.kind = "Cancel" /\ Cancel(cmd.order_id)
  \/ cmd.kind = "Modify" /\ Modify(cmd)

\* The steps a command takes on its own once process_command has begun it.
Continue ==
  \/ \E p \in DOMAIN matcher.levels[MakerSide] : Match(p)
  \/ RestRemainder
  \/ RejectRemainder
  \/ CompletePlace

Next ==
  \/ \E cmd \in Command : ProcessCommand(cmd)
  \/ pc = "cross" /\ Continue

\* process_command does not return before the command is done.
Spec == Init /\ [][Next]_vars /\ WF_vars(pc = "cross" /\ Continue)

-----------------------------------------------------------------------------

Event ==
  [kind : {"Trade"}, price : Prices, qty : U32,
   maker_order_id : OrderIds \cup {0}, taker_order_id : OrderIds,
   maker_user_id : UserIds \cup {0}, taker_user_id : UserIds,
   taker_side : Sides]
    \cup [kind : {"BookDelta"}, side : Sides, price : Prices,
          new_qty : Int, new_count : Int]
    \cup [kind : {"Accepted"}, order_id : OrderIds, price : Prices, qty : U32,
          side : Sides]
    \cup [kind : {"Canceled"}, order_id : OrderIds, canceled_qty : U32]
    \cup [kind : {"Rejected"}, order_id : OrderIds,
          reason : {"DuplicateOrderId", "OrderNotFound", "ArenaFull",
                    "InvalidQuantity", "InsufficientLiquidity"}]

\* Types.  Quantities of nodes, of the taker and of events stay within u32:
\* no subtraction of a trade underflows.
TypeOK ==
  /\ MatcherType(matcher)
  /\ event_buffer \in Seq(Event)
  /\ pc \in {"idle", "cross", "panicked"}
  /\ IF pc = "idle" THEN taker = NoOrder ELSE taker \in PlaceOrder
  /\ remaining_qty \in U32

\* The book is sound after every step: each level a doubly linked list with
\* exact cached count and total, the order map pointing at exactly the queued
\* nodes, the free list holding exactly the others, the counters in their
\* widths; no node is leaked, used twice or freed twice, and no empty level
\* stays behind.
BookConsistent == Consistent(matcher)

\* No resting bid is at or above a resting ask, during a command included.
NotCrossed ==
  \A bid \in DOMAIN matcher.levels["Bid"], ask \in DOMAIN matcher.levels["Ask"] :
    bid < ask

\* matching.rs:116 is unreachable, as it says: an order that passed the
\* fill-or-kill check is filled by the matching that follows.
NoPanic == pc # "panicked"

\* An order refused because the arena is full is refused whole: it has not
\* traded, and no order was cancelled to make room for it.
ArenaFullIsClean ==
  \A k \in DOMAIN event_buffer :
    event_buffer[k].kind = "Rejected" /\ event_buffer[k].reason = "ArenaFull"
      => Len(event_buffer) = 1

\* The events of a command fit two for each slot of the arena, and two more: a
\* resting order costs at most a trade and a delta, or a cancel and a delta,
\* once, and the command itself an accept and a delta.  How far the buffer of
\* engine.rs may have to grow is known when the arena is built.
EventsBounded == Len(event_buffer) <= 2 * Capacity + 2

\* The exact liquidity a fill-or-kill order could take.
Liquidity(order) ==
  LET book == matcher.levels[Opposite(order.side)]
      crossing == {p \in DOMAIN book : Crosses(order, p)}
  IN  SumFunctionOnSet([p \in DOMAIN book |-> book[p].total_qty], crossing)

\* command.rs:40, "all-or-nothing execution, reject if can't fully fill": a
\* fill-or-kill order is refused for lack of liquidity only if it is lacking.
FokRejectedOnlyIfShort ==
  \A order \in PlaceOrder :
    pc = "idle" /\ Rejection(matcher, order) = "InsufficientLiquidity"
      => Liquidity(order) < order.qty

\* The events that a step adds.
NewEvents ==
  IF pc = "idle" THEN event_buffer'
  ELSE SubSeq(event_buffer', Len(event_buffer) + 1, Len(event_buffer'))

\* The depth of every price of n is what the last of the deltas for it says,
\* or what it is in m.
DepthTold(events, m, n) ==
  \A side \in Sides, p \in Prices :
    LET here == {k \in DOMAIN events : /\ events[k].kind = "BookDelta"
                                       /\ events[k].side = side
                                       /\ events[k].price = p}
        last == events[Max(here)]
    IN  DepthAt(n, side, p) =
          IF here = {} THEN DepthAt(m, side, p)
          ELSE [qty |-> last.new_qty, count |-> last.new_count]

\* Book deltas tell the whole story: after a step, the depth at a price is
\* what the last delta the step emitted for it says, or what it was before.
DeltasExact == [][DepthTold(NewEvents, matcher, matcher')]_vars

\* What is open of an order that is in the book.
OpenQty(m, id) ==
  IF id \in DOMAIN m.order_map
  THEN m.arena.nodes[m.order_map[id].arena_index].qty ELSE 0

\* What an event tells the owner of an order of the quantity that is open.
Told(id, event) ==
  IF event.kind = "Accepted" /\ event.order_id = id THEN event.qty
  ELSE IF event.kind = "Trade" /\ event.maker_order_id = id THEN 0 - event.qty
  ELSE IF event.kind = "Canceled" /\ event.order_id = id
  THEN 0 - event.canceled_qty
  ELSE 0

AllTold(events, m, n) ==
  \A id \in OrderIds :
    OpenQty(n, id) =
      OpenQty(m, id) + SumFunction([k \in DOMAIN events |-> Told(id, events[k])])

\* Owners are told everything: from accepts, trades and cancels alone, the
\* quantity open of every order is known exactly after every step.
EventsTellOrders == [][AllTold(NewEvents, matcher, matcher')]_vars

CanceledIn(events) ==
  {events[k].order_id : k \in {j \in DOMAIN events : events[j].kind = "Canceled"}}

\* What a refusal says is so in the book that it leaves, n, and n is the book m
\* before it without the orders that were reported cancelled.
RefusalsOf(events, m, n) ==
  \A k \in DOMAIN events :
    LET refused == events[k]
    IN  refused.kind = "Rejected" =>
          /\ refused.reason = "DuplicateOrderId"
               => refused.order_id \in DOMAIN n.order_map
          /\ refused.reason = "OrderNotFound"
               => refused.order_id \notin DOMAIN n.order_map
          /\ refused.reason = "ArenaFull" => OrderCount(n) = Capacity
          /\ DOMAIN n.order_map = DOMAIN m.order_map \ CanceledIn(events)
          /\ \A id \in DOMAIN n.order_map : OpenQty(n, id) = OpenQty(m, id)

\* Refusals are true, and all that happens: the step that refuses an order, for
\* its id or for room, leaves a book of which the reason holds, so that a
\* replacement may take the id of the order it replaces (engine.rs:94); and it
\* has changed nothing but what it reports as cancelled.
RefusalsTrue == [][RefusalsOf(NewEvents, matcher, matcher')]_vars

\* Every command comes to its end: matching never spins on a level that has
\* nothing to trade.
CommandCompletes == (pc = "cross") ~> (pc = "idle")

-----------------------------------------------------------------------------

\* The getters and the hash depend on the resting orders only, not on how they
\* came to be where they are in the arena: engines with the same queues have
\* the same hash, and the spread is known when both sides have orders.
GettersExact ==
  LET queues == Queues(matcher)
      prices(side) == {p \in Prices : queues[side][p] # <<>>}
      best(side) == {p \in prices(side) : \A q \in prices(side) : ~Better(side, q, p)}
      depth(q) == [qty |-> SumFunction([k \in DOMAIN q |-> q[k].qty]),
                   count |-> Len(q)]
      seats == UNION {UNION {{<<side, p, k>> : k \in DOMAIN queues[side][p]} :
                               p \in Prices} : side \in Sides}
  IN  /\ StateHash(matcher) =
           [best |-> [side \in Sides |-> best(side)],
            orders |-> Cardinality(seats),
            allocated |-> Cardinality(seats),
            depth |-> [side \in Sides |->
                         [p \in prices(side) |-> depth(queues[side][p])]]]
      /\ \A bid \in best("Bid"), ask \in best("Ask") : Spread(matcher) = {ask - bid}

\* The trades among events, in order.
TradesOf(events) ==
  LET upto[k \in 0 .. Len(events)] ==
        IF k = 0 THEN <<>>
        ELSE IF events[k].kind = "Trade" THEN Append(upto[k - 1], events[k])
        ELSE upto[k - 1]
  IN  upto[Len(events)]

Trades == TradesOf(event_buffer)

Reference == INSTANCE ReferenceBook WITH
  book <- Queues(matcher), incoming <- taker, left <- remaining_qty,
  trades <- Trades

\* Every step of the engine is a step of the naive book, or none: same queues,
\* same trades in the same order.
ImplementsReference == Reference!Spec
=============================================================================
