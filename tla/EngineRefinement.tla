-------------------------- MODULE EngineRefinement --------------------------
(***************************************************************************)
(* Theorems about the steps of Engine: what its events tell subscribers    *)
(* and owners is exact, it implements the naive book of ReferenceBook, and *)
(* in its thread (EngineThread) it implements the loop of EngineLoop.      *)
(* The refinement mapping reads the queues of the book off the linked      *)
(* lists of the arena (Queues); the lemmas say what each operator of the   *)
(* matching engine does to these queues, then that each action of the      *)
(* engine is an action of the naive book.                                  *)
(***************************************************************************)
EXTENDS EngineProofs, EngineThread, FunctionTheorems

-----------------------------------------------------------------------------
(* Book deltas.  A step changes the depth at one price at most, and its    *)
(* events hold one delta, for that price, and no other.                    *)

NoDeltaBut(events, k0) ==
  \A k \in DOMAIN events : k # k0 => events[k].kind # "BookDelta"

LEMMA NoDelta ==
  ASSUME NEW events, NEW m, \A k \in DOMAIN events : events[k].kind # "BookDelta"
  PROVE  DepthTold(events, m, m)
  BY DEF DepthTold

LEMMA DepthRecord ==
  ASSUME NEW m, NEW side, NEW p
  PROVE  DepthAt(m, side, p) = [qty |-> DepthAt(m, side, p).qty,
                                count |-> DepthAt(m, side, p).count]
  BY DEF DepthAt

LEMMA OneDelta ==
  ASSUME NEW events, NEW m, NEW n, NEW side0 \in Sides, NEW p0,
         NEW k0 \in DOMAIN events, k0 \in Int, NoDeltaBut(events, k0),
         events[k0] = BookUpdate(side0, p0, DepthAt(n, side0, p0)),
         Elsewhere(n.levels, m.levels, side0, p0)
  PROVE  DepthTold(events, m, n)
  <1> SUFFICES ASSUME NEW side \in Sides, NEW p \in Prices
               PROVE  LET here == {k \in DOMAIN events :
                                     /\ events[k].kind = "BookDelta"
                                     /\ events[k].side = side
                                     /\ events[k].price = p}
                          last == events[Max(here)]
                      IN  DepthAt(n, side, p) =
                            IF here = {} THEN DepthAt(m, side, p)
                            ELSE [qty |-> last.new_qty, count |-> last.new_count]
    BY DEF DepthTold
  <1> DEFINE here == {k \in DOMAIN events : /\ events[k].kind = "BookDelta"
                                            /\ events[k].side = side
                                            /\ events[k].price = p}
             d == DepthAt(n, side0, p0)
  <1>1. /\ events[k0].kind = "BookDelta"
        /\ events[k0].side = side0 /\ events[k0].price = p0
        /\ events[k0].new_qty = d.qty /\ events[k0].new_count = d.count
    <2> HIDE DEF d
    <2> QED BY DEF BookUpdate, d
  <1>2. CASE side = side0 /\ p = p0
    <2>1. here = {k0}
      BY <1>1, <1>2 DEF NoDeltaBut
    <2>2. Max({k0}) = k0
      BY DEF Max
    <2>3. [qty |-> events[k0].new_qty, count |-> events[k0].new_count] = d
      <3>1. d = [qty |-> d.qty, count |-> d.count]
        BY DepthRecord
      <3> HIDE DEF d
      <3> QED BY <1>1, <3>1
    <2> HIDE DEF here
    <2>4. here # {} /\ Max(here) = k0
      BY <2>1, <2>2
    <2>5. DepthAt(n, side, p) = d
      BY <1>2
    <2> HIDE DEF d
    <2> QED BY <2>3, <2>4, <2>5 DEF here
  <1>3. CASE side # side0 \/ p # p0
    <2>1. here = {}
      BY <1>1, <1>3 DEF NoDeltaBut
    <2>2. DepthAt(n, side, p) = DepthAt(m, side, p)
      BY <1>3 DEF Elsewhere, DepthAt
    <2> HIDE DEF here
    <2> QED BY <2>1, <2>2 DEF here
  <1> QED BY <1>2, <1>3

\* What is added to a sequence is what was appended to it.
LEMMA AddedNone ==
  ASSUME NEW S, NEW s \in Seq(S)
  PROVE  SubSeq(s, Len(s) + 1, Len(s)) = <<>>
  OBVIOUS

LEMMA AddedOne ==
  ASSUME NEW S, NEW s \in Seq(S), NEW a \in S
  PROVE  LET t == Append(s, a)
         IN  SubSeq(t, Len(s) + 1, Len(t)) = <<a>>
  <1> DEFINE t == Append(s, a)
             u == SubSeq(t, Len(s) + 1, Len(t))
  <1>1. t \in Seq(S) /\ Len(t) = Len(s) + 1 /\ t[Len(s) + 1] = a
    OBVIOUS
  <1> HIDE DEF t
  <1>2. Len(s) \in Nat
    OBVIOUS
  <1>3. u \in Seq(S) /\ Len(u) = 1 /\ u[1] = t[Len(s) + 1]
    BY <1>1, <1>2
  <1> HIDE DEF u
  <1>4. u = <<a>>
    BY <1>1, <1>3
  <1> QED BY <1>4 DEF t, u

LEMMA AddedTwo ==
  ASSUME NEW S, NEW s \in Seq(S), NEW a \in S, NEW b \in S
  PROVE  LET t == s \o <<a, b>>
         IN  SubSeq(t, Len(s) + 1, Len(t)) = <<a, b>>
  <1> DEFINE t == s \o <<a, b>>
             u == SubSeq(t, Len(s) + 1, Len(t))
  <1>1. t \in Seq(S) /\ Len(t) = Len(s) + 2
        /\ t[Len(s) + 1] = a /\ t[Len(s) + 2] = b
    OBVIOUS
  <1> HIDE DEF t
  <1>2. Len(s) \in Nat
    OBVIOUS
  <1>3. u \in Seq(S) /\ Len(u) = 2 /\ u[1] = t[Len(s) + 1] /\ u[2] = t[Len(s) + 2]
    BY <1>1, <1>2
  <1> HIDE DEF u
  <1>4. u = <<a, b>>
    BY <1>1, <1>3
  <1> QED BY <1>4 DEF t, u

LEMMA RejectedNoDelta ==
  ASSUME NEW id, NEW reason
  PROVE  OrderRejected(id, reason).kind = "Rejected"
  BY DEF OrderRejected

\* What a cancel says of the book.
LEMMA CancelDeltas ==
  ASSUME NEW m, MatcherType(m), Orderly(m), NEW id \in DOMAIN m.order_map,
         NEW events, NEW rest \in Seq(Event),
         events = CancelEvents(m, id) \o rest,
         \A k \in DOMAIN rest : rest[k].kind # "BookDelta"
  PROVE  DepthTold(events, m, CancelOrder(m, id))
  <1> DEFINE info == m.order_map[id]
             n == CancelOrder(m, id)
             c == OrderCanceled(id, m.arena.nodes[info.arena_index].qty)
             u == BookUpdate(info.side, info.price,
                             DepthAt(n, info.side, info.price))
  <1>1. CancelEvents(m, id) = <<c, u>>
    BY DEF CancelEvents
  <1>2. c.kind = "Canceled" /\ info.side \in Sides
    BY MapFields, Zenon DEF OrderCanceled
  <1>3. Elsewhere(n.levels, m.levels, info.side, info.price)
    BY CancelEffect
  <1> HIDE DEF c, u, n, info
  <1>4. events \in Seq(Event \cup {c, u}) /\ Len(events) = Len(rest) + 2
        /\ events[1] = c /\ events[2] = u
        /\ \A k \in 3 .. Len(events) : events[k] = rest[k - 2]
    <2>1. <<c, u>> \in Seq(Event \cup {c, u}) /\ rest \in Seq(Event \cup {c, u})
      OBVIOUS
    <2>2. events = <<c, u>> \o rest
      BY <1>1
    <2> QED BY <2>1, <2>2
  <1>5. DOMAIN events = 1 .. Len(rest) + 2 /\ Len(rest) \in Nat
        /\ DOMAIN rest = 1 .. Len(rest)
    BY <1>4
  <1>6. NoDeltaBut(events, 2)
    <2> SUFFICES ASSUME NEW k \in DOMAIN events, k # 2
                 PROVE  events[k].kind # "BookDelta"
      BY DEF NoDeltaBut
    <2>1. CASE k = 1
      BY <1>2, <1>4, <2>1
    <2>2. CASE k # 1
      <3>1. k \in 3 .. Len(events) /\ k - 2 \in DOMAIN rest
        BY <1>4, <1>5, <2>2
      <3> QED BY <1>4, <3>1
    <2> QED BY <2>1, <2>2
  <1>7. DepthTold(events, m, n)
    <2>1. 2 \in DOMAIN events
      BY <1>5
    <2> DEFINE side == info.side
               p == info.price
    <2>2. events[2] = BookUpdate(side, p, DepthAt(n, side, p))
      BY <1>4 DEF u
    <2>3. side \in Sides /\ Elsewhere(n.levels, m.levels, side, p) /\ 2 \in Int
      BY <1>2, <1>3
    <2> HIDE DEF side, p
    <2> QED BY <1>6, <2>1, <2>2, <2>3, OneDelta, Zenon
  <1> QED BY <1>7 DEF n

\* Two events, the second of them the delta.
LEMMA TwoDeltas ==
  ASSUME NEW a, a.kind # "BookDelta", NEW m, NEW n,
         NEW side \in Sides, NEW p, Elsewhere(n.levels, m.levels, side, p)
  PROVE  DepthTold(<<a, BookUpdate(side, p, DepthAt(n, side, p))>>, m, n)
  <1> DEFINE u == BookUpdate(side, p, DepthAt(n, side, p))
             s == <<a, u>>
  <1>1. DOMAIN s = {1, 2} /\ s[1] = a /\ s[2] = u
    <2> HIDE DEF u
    <2> QED OBVIOUS
  <1> HIDE DEF s
  <1>2. NoDeltaBut(s, 2)
    BY <1>1 DEF NoDeltaBut
  <1>3. DepthTold(s, m, n)
    BY <1>1, <1>2, OneDelta
  <1> QED BY <1>3 DEF s

\* A command that is refused, or only begins to match, changes no depth but by
\* the order that it replaces.
LEMMA ProcessPlaceEvents ==
  ASSUME NEW m, NEW order \in PlaceOrder, NEW events \in Seq(Event),
         ProcessPlace(m, order, events)
  PROVE  \E rest \in Seq(Event) :
           /\ \A k \in DOMAIN rest : rest[k].kind = "Rejected"
           /\ event_buffer' = events \o rest
  <1>1. CASE Rejection(m, order) # "none"
    <2> DEFINE e == OrderRejected(order.order_id, Rejection(m, order))
    <2>1. Rejection(m, order) \in
            {"DuplicateOrderId", "InvalidQuantity", "InsufficientLiquidity"}
      BY <1>1 DEF Rejection
    <2>2. order.order_id \in OrderIds
      BY DEF PlaceOrder
    <2>3. e \in Event /\ e.kind = "Rejected"
      BY <2>1, <2>2, RejectedType
    <2>4. event_buffer' = Append(events, e)
      BY <1>1 DEF ProcessPlace
    <2> HIDE DEF e
    <2>5. event_buffer' = events \o <<e>> /\ <<e>> \in Seq(Event)
      BY <2>3, <2>4
    <2>6. \A k \in DOMAIN <<e>> : <<e>>[k].kind = "Rejected"
      BY <2>3
    <2> QED BY <2>5, <2>6, Zenon
  <1>2. CASE Rejection(m, order) = "none"
    <2>1. event_buffer' = events
      BY <1>2 DEF ProcessPlace
    <2>2. event_buffer' = events \o <<>> /\ <<>> \in Seq(Event)
      BY <2>1
    <2>3. \A k \in DOMAIN <<>> : <<>>[k].kind = "Rejected"
      OBVIOUS
    <2> QED BY <2>2, <2>3, Zenon
  <1> QED BY <1>1, <1>2, Zenon

LEMMA PlaceDeltas ==
  ASSUME NEW order \in PlaceOrder, Place(order)
  PROVE  DepthTold(NewEvents, matcher, matcher')
  <1>1. <<>> \in Seq(Event) /\ ProcessPlace(matcher, order, <<>>)
    BY DEF Place
  <1>2. PICK rest \in Seq(Event) :
           /\ \A k \in DOMAIN rest : rest[k].kind # "BookDelta"
           /\ event_buffer' = <<>> \o rest
    BY <1>1, ProcessPlaceEvents, Zenon
  <1>3. NewEvents = rest
    BY <1>2 DEF NewEvents, Place
  <1>4. matcher' = matcher
    BY DEF Place, ProcessPlace
  <1> QED BY <1>2, <1>3, <1>4, NoDelta

LEMMA NotFoundDeltas ==
  ASSUME NEW id, pc = "idle", event_buffer' = NotFoundEvents(id),
         UNCHANGED matcher
  PROVE  DepthTold(NewEvents, matcher, matcher')
  <1> DEFINE e == OrderRejected(id, "OrderNotFound")
  <1>1. e.kind # "BookDelta"
    BY RejectedNoDelta
  <1>2. NewEvents = <<e>>
    BY DEF NewEvents, NotFoundEvents
  <1> HIDE DEF e
  <1>3. \A k \in DOMAIN <<e>> : <<e>>[k].kind # "BookDelta"
    BY <1>1
  <1> QED BY <1>2, <1>3, NoDelta

LEMMA CancelStepDeltas ==
  ASSUME IInv, BookInv, NEW id, Cancel(id)
  PROVE  DepthTold(NewEvents, matcher, matcher')
  <1>1. CASE id \notin DOMAIN matcher.order_map
    BY <1>1, NotFoundDeltas DEF Cancel
  <1>2. CASE id \in DOMAIN matcher.order_map
    <2>1. pc = "idle" /\ matcher' = CancelOrder(matcher, id)
          /\ event_buffer' = CancelEvents(matcher, id)
      BY <1>2 DEF Cancel
    <2>2. MatcherType(matcher) /\ Orderly(matcher)
      BY DEF IInv, TypeOK, BookInv
    <2> DEFINE events == event_buffer'
    <2>3. events = CancelEvents(matcher, id) \o <<>> /\ <<>> \in Seq(Event)
      BY <1>2, <2>1, <2>2, CancelEventsType
    <2>4. \A k \in DOMAIN <<>> : <<>>[k].kind # "BookDelta"
      OBVIOUS
    <2> HIDE DEF events
    <2>5. DepthTold(events, matcher, CancelOrder(matcher, id))
      BY <1>2, <2>2, <2>3, <2>4, CancelDeltas, Zenon
    <2>6. NewEvents = events
      BY <2>1 DEF NewEvents, events
    <2> QED BY <2>1, <2>5, <2>6
  <1> QED BY <1>1, <1>2

LEMMA ModifyDeltas ==
  ASSUME IInv, BookInv,
         NEW modify \in [kind : {"Modify"}, order_id : OrderIds,
                         new_order_id : OrderIds, new_price : Prices,
                         new_qty : Qtys],
         Modify(modify)
  PROVE  DepthTold(NewEvents, matcher, matcher')
  <1> DEFINE id == modify.order_id
             m == CancelOrder(matcher, id)
             order == Replacement(matcher.order_map[id], modify)
             events == CancelEvents(matcher, id)
  <1>1. CASE id \notin DOMAIN matcher.order_map
    BY <1>1, NotFoundDeltas DEF Modify
  <1>2. CASE id \in DOMAIN matcher.order_map
    <2>1. pc = "idle" /\ ProcessPlace(m, order, events)
      BY <1>2 DEF Modify
    <2>2. MatcherType(matcher) /\ Orderly(matcher)
      BY DEF IInv, TypeOK, BookInv
    <2>3. order \in PlaceOrder
      BY <1>2, <2>2, ReplacementType
    <2>4. events \in Seq(Event)
      BY <1>2, <2>2, CancelEventsType
    <2> HIDE DEF order, events, m, id
    <2>5. PICK rest \in Seq(Event) :
             /\ \A k \in DOMAIN rest : rest[k].kind # "BookDelta"
             /\ event_buffer' = events \o rest
      BY <2>1, <2>3, <2>4, ProcessPlaceEvents, Zenon
    <2> DEFINE es == event_buffer'
    <2>6. es = CancelEvents(matcher, id) \o rest
      BY <2>5 DEF events
    <2> HIDE DEF es
    <2>7. DepthTold(es, matcher, CancelOrder(matcher, id))
      BY <1>2, <2>2, <2>5, <2>6, CancelDeltas, Zenon
    <2>8. NewEvents = es /\ matcher' = CancelOrder(matcher, id)
      BY <2>1 DEF NewEvents, es, ProcessPlace, m
    <2> QED BY <2>7, <2>8
  <1> QED BY <1>1, <1>2

LEMMA TradeDeltas ==
  ASSUME IInv, BookInv, pc = "cross",
         NEW p \in DOMAIN matcher.levels[MakerSide], TradeWithHead(p)
  PROVE  DepthTold(NewEvents, matcher, matcher')
  <1> DEFINE maker == matcher.arena.nodes[matcher.levels[MakerSide][p].head]
             t == TradeEvent(p, Lesser(remaining_qty, maker.qty), maker, taker)
             u == BookUpdate(MakerSide, p, DepthAt(matcher', MakerSide, p))
  <1>1. event_buffer' = event_buffer \o <<t, u>>
    BY Zenon DEF TradeWithHead
  <1>2. t.kind # "BookDelta"
    BY DEF TradeEvent
  <1>3. Elsewhere(matcher'.levels, matcher.levels, MakerSide, p)
    BY TradeEffect
  <1>4. MakerSide \in Sides /\ event_buffer \in Seq(Event)
    BY TakerType
  <1> HIDE DEF t
  <1>5. NewEvents = <<t, u>>
    <2> HIDE DEF u
    <2> DEFINE S == Event \cup {t, u}
    <2>1. event_buffer \in Seq(S) /\ t \in S /\ u \in S
      BY <1>4
    <2> HIDE DEF S
    <2>2. SubSeq(event_buffer \o <<t, u>>, Len(event_buffer) + 1,
                 Len(event_buffer \o <<t, u>>)) = <<t, u>>
      BY <2>1, AddedTwo
    <2> QED BY <1>1, <2>2 DEF NewEvents
  <1> QED BY <1>2, <1>3, <1>4, <1>5, TwoDeltas

LEMMA RestDeltas ==
  ASSUME IInv, BookInv, RestRemainder
  PROVE  DepthTold(NewEvents, matcher, matcher')
  <1> DEFINE a == OrderAccepted(taker, remaining_qty)
             u == BookUpdate(taker.side, taker.price,
                             DepthAt(matcher', taker.side, taker.price))
  <1>1. /\ pc = "cross" /\ remaining_qty > 0 /\ ~IsFull(matcher.arena)
        /\ matcher' = RestOrder(matcher, taker, remaining_qty)
        /\ event_buffer' = event_buffer \o <<a, u>>
    BY DEF RestRemainder, Crossed
  <1>2. MatcherType(matcher) /\ taker \in PlaceOrder /\ remaining_qty \in U32
        /\ taker.side \in Sides /\ event_buffer \in Seq(Event)
    BY <1>1, TakerType
  <1>3. a.kind # "BookDelta"
    BY DEF OrderAccepted
  <1>4. Elsewhere(matcher'.levels, matcher.levels, taker.side, taker.price)
    <2>1. Rested(matcher', matcher, taker, remaining_qty)
      BY <1>1, <1>2, RestEffect DEF BookInv
    <2> QED BY <2>1, Zenon DEF Rested
  <1> HIDE DEF a
  <1>5. NewEvents = <<a, u>>
    <2> HIDE DEF u
    <2> DEFINE S == Event \cup {a, u}
    <2>1. event_buffer \in Seq(S) /\ a \in S /\ u \in S
      BY <1>2
    <2> HIDE DEF S
    <2>2. SubSeq(event_buffer \o <<a, u>>, Len(event_buffer) + 1,
                 Len(event_buffer \o <<a, u>>)) = <<a, u>>
      BY <2>1, AddedTwo
    <2> QED BY <1>1, <2>2 DEF NewEvents
  <1> QED BY <1>2, <1>3, <1>4, <1>5, TwoDeltas

LEMMA RejectDeltas ==
  ASSUME IInv, RejectRemainder
  PROVE  DepthTold(NewEvents, matcher, matcher')
  <1> DEFINE e == OrderRejected(taker.order_id, "ArenaFull")
  <1>1. pc = "cross" /\ event_buffer' = Append(event_buffer, e)
        /\ UNCHANGED matcher
    BY DEF RejectRemainder, Crossed
  <1>2. event_buffer \in Seq(Event) /\ e \in Event /\ e.kind = "Rejected"
    BY <1>1, TakerType, RejectedType
  <1> HIDE DEF e
  <1>3. SubSeq(Append(event_buffer, e), Len(event_buffer) + 1,
               Len(Append(event_buffer, e))) = <<e>>
    BY <1>2, AddedOne
  <1>4. NewEvents = <<e>>
    BY <1>1, <1>3 DEF NewEvents
  <1>5. \A k \in DOMAIN <<e>> : <<e>>[k].kind # "BookDelta"
    BY <1>2
  <1> QED BY <1>1, <1>4, <1>5, NoDelta

LEMMA CompleteDeltas ==
  ASSUME IInv, CompletePlace
  PROVE  DepthTold(NewEvents, matcher, matcher')
  <1>1. pc = "cross" /\ UNCHANGED <<matcher, event_buffer>>
    BY DEF CompletePlace, Crossed
  <1>2. event_buffer \in Seq(Event)
    BY <1>1, TakerType
  <1>3. NewEvents = <<>>
    BY <1>1, <1>2, AddedNone DEF NewEvents
  <1>4. \A k \in DOMAIN <<>> : <<>>[k].kind # "BookDelta"
    OBVIOUS
  <1> QED BY <1>1, <1>3, <1>4, NoDelta

LEMMA CommandDeltas ==
  ASSUME IInv, BookInv, NEW cmd \in Command, ProcessCommand(cmd)
  PROVE  DepthTold(NewEvents, matcher, matcher')
  <1>1. CASE cmd.kind = "Place" /\ Place(cmd.order)
    <2>1. cmd.order \in PlaceOrder
      BY <1>1 DEF Command
    <2> QED BY <1>1, <2>1, PlaceDeltas
  <1>2. CASE cmd.kind = "Cancel" /\ Cancel(cmd.order_id)
    BY <1>2, CancelStepDeltas
  <1>3. CASE cmd.kind = "Modify" /\ Modify(cmd)
    <2>1. cmd \in [kind : {"Modify"}, order_id : OrderIds,
                   new_order_id : OrderIds, new_price : Prices,
                   new_qty : Qtys]
      BY <1>3 DEF Command
    <2> QED BY <1>3, <2>1, ModifyDeltas
  <1> QED BY <1>1, <1>2, <1>3 DEF ProcessCommand

LEMMA StepDeltas ==
  IInv /\ BookInv /\ [Next]_vars
    => [DepthTold(NewEvents, matcher, matcher')]_vars
  <1> SUFFICES ASSUME IInv, BookInv, Next, ~UNCHANGED vars
               PROVE  DepthTold(NewEvents, matcher, matcher')
    OBVIOUS
  <1>1. ASSUME NEW cmd \in Command, ProcessCommand(cmd)
        PROVE  DepthTold(NewEvents, matcher, matcher')
    BY <1>1, CommandDeltas
  <1>2. ASSUME pc = "cross", Continue
        PROVE  DepthTold(NewEvents, matcher, matcher')
    <2>1. ASSUME NEW p \in DOMAIN matcher.levels[MakerSide], Match(p)
          PROVE  DepthTold(NewEvents, matcher, matcher')
      <3>1. TradeWithHead(p)
        BY <2>1 DEF Match, vars
      <3> QED BY <1>2, <3>1, TradeDeltas
    <2> QED BY <1>2, <2>1, RestDeltas, RejectDeltas, CompleteDeltas DEF Continue
  <1> QED BY <1>1, <1>2 DEF Next

-----------------------------------------------------------------------------
(* What owners are told.                                                   *)

LEMMA SumZero ==
  ASSUME NEW f, NEW S, IsFiniteSet(S), \A x \in S : f[x] = 0
  PROVE  SumFunctionOnSet(f, S) = 0
  <1> DEFINE c == Cardinality(S)
  <1>1. c \in Nat
    BY FS_CardinalityType
  <1>2. \A x \in S : f[x] \in 0 .. 0
    OBVIOUS
  <1>3. SumFunctionOnSet(f, S) \in 0 .. c * 0
    BY <1>2, SumBounds
  <1> HIDE DEF c
  <1>4. c * 0 = 0
    BY <1>1
  <1> QED BY <1>3, <1>4

\* Events that tell owners nothing.
Silent(event) == event.kind \in {"BookDelta", "Rejected"}
SilentBut(events, k0) == \A k \in DOMAIN events : k # k0 => Silent(events[k])

\* An event for the owner of id0 alone, and a change to that order alone.
TellsOnly(event, id0) ==
  /\ Told(id0, event) \in Int
  /\ \A id \in OrderIds : id # id0 => Told(id, event) = 0
OpenBut(n, m, id0) ==
  \A id \in OrderIds : id # id0 => OpenQty(n, id) = OpenQty(m, id)

LEMMA SilentTold ==
  ASSUME NEW event, Silent(event), NEW id
  PROVE  Told(id, event) = 0
  BY DEF Silent, Told

LEMMA OpenInt ==
  ASSUME NEW m, MatcherType(m), NEW id
  PROVE  OpenQty(m, id) \in Int
  <1>1. CASE id \in DOMAIN m.order_map
    <2> DEFINE i == m.order_map[id].arena_index
    <2>1. i \in Index
      BY <1>1, MapFields, Zenon
    <2>2. m.arena.nodes[i] \in BookNode
      BY <2>1, BookBlock DEF Nodes
    <2>3. m.arena.nodes[i].qty \in U32 /\ U32 \subseteq Int
      BY <2>2, NodeFields, WordAssumption DEF U32
    <2> QED BY <1>1, <2>3, Zenon DEF OpenQty
  <1>2. CASE id \notin DOMAIN m.order_map
    BY <1>2 DEF OpenQty
  <1> QED BY <1>1, <1>2

\* A book that does not change, and events that tell nothing.
LEMMA NothingTold ==
  ASSUME NEW m, MatcherType(m), NEW events, NEW l \in Nat,
         DOMAIN events = 1 .. l, \A k \in DOMAIN events : Silent(events[k])
  PROVE  AllTold(events, m, m)
  <1> SUFFICES ASSUME NEW id \in OrderIds
               PROVE  OpenQty(m, id) = OpenQty(m, id)
                        + SumFunction([k \in DOMAIN events |-> Told(id, events[k])])
    BY DEF AllTold
  <1> DEFINE f == [k \in DOMAIN events |-> Told(id, events[k])]
  <1>1. DOMAIN f = 1 .. l /\ \A k \in DOMAIN f : f[k] = 0
    BY SilentTold
  <1>2. IsFiniteSet(DOMAIN f)
    BY <1>1, FS_Interval
  <1>3. SumFunction(f) = 0
    BY <1>1, <1>2, SumZero DEF SumFunction
  <1>4. OpenQty(m, id) \in Int
    BY OpenInt
  <1> HIDE DEF f
  <1> QED BY <1>3, <1>4 DEF f

\* One event that tells of the order that changes.
LEMMA OneTold ==
  ASSUME NEW m, MatcherType(m), NEW n, NEW events, NEW l \in Nat,
         DOMAIN events = 1 .. l, NEW k0 \in DOMAIN events,
         SilentBut(events, k0), NEW id0, TellsOnly(events[k0], id0),
         OpenBut(n, m, id0),
         OpenQty(n, id0) = OpenQty(m, id0) + Told(id0, events[k0])
  PROVE  AllTold(events, m, n)
  <1> SUFFICES ASSUME NEW id \in OrderIds
               PROVE  OpenQty(n, id) = OpenQty(m, id)
                        + SumFunction([k \in DOMAIN events |-> Told(id, events[k])])
    BY DEF AllTold
  <1> DEFINE f == [k \in DOMAIN events |-> Told(id, events[k])]
             D == DOMAIN f
  <1>1. D = 1 .. l /\ k0 \in D /\ \A k \in D : k # k0 => f[k] = 0
    BY SilentTold DEF SilentBut
  <1>2. f[k0] = Told(id, events[k0])
    OBVIOUS
  <1>3. IsFiniteSet(D) /\ IsFiniteSet(D \ {k0})
    <2> HIDE DEF D
    <2>1. IsFiniteSet(D)
      BY <1>1, FS_Interval
    <2> QED BY <2>1, FS_RemoveElement, Zenon
  <1>4. f[k0] \in Int
    BY <1>2 DEF TellsOnly
  <1>5. OpenQty(m, id) \in Int
    BY OpenInt
  <1>6. OpenQty(n, id) = OpenQty(m, id) + f[k0]
    <2>1. CASE id = id0
      BY <1>2, <2>1
    <2>2. CASE id # id0
      <3>1. f[k0] = 0 /\ OpenQty(n, id) = OpenQty(m, id)
        BY <1>2, <2>2 DEF TellsOnly, OpenBut
      <3> HIDE DEF f
      <3> QED BY <1>5, <3>1
    <2> QED BY <2>1, <2>2
  <1> HIDE DEF f
  <1>7. SumFunctionOnSet(f, D) = f[k0] + SumFunctionOnSet(f, D \ {k0})
    <2>1. \A k \in D : f[k] \in Int
      BY <1>1, <1>4
    <2> HIDE DEF D
    <2> QED BY <1>1, <1>3, <2>1, SumRemove
  <1>8. SumFunctionOnSet(f, D \ {k0}) = 0
    <2>1. \A k \in D \ {k0} : f[k] = 0
      BY <1>1
    <2> HIDE DEF D
    <2> QED BY <1>3, <2>1, SumZero
  <1>9. SumFunction(f) = f[k0]
    BY <1>4, <1>7, <1>8 DEF SumFunction, D
  <1> QED BY <1>6, <1>9 DEF f

-----------------------------------------------------------------------------

\* A cancelled order is open no more, and no other order changes.
LEMMA CancelOpen ==
  ASSUME NEW m, MatcherType(m), Orderly(m), NEW id0 \in DOMAIN m.order_map
  PROVE  /\ OpenQty(CancelOrder(m, id0), id0) = 0
         /\ OpenQty(m, id0) = m.arena.nodes[m.order_map[id0].arena_index].qty
         /\ OpenBut(CancelOrder(m, id0), m, id0)
  <1> DEFINE n == CancelOrder(m, id0)
             i == m.order_map[id0].arena_index
  <1>1. /\ DOMAIN n.order_map = DOMAIN m.order_map \ {id0}
        /\ \A x \in DOMAIN m.order_map \ {id0} : n.order_map[x] = m.order_map[x]
        /\ \A j \in Index \ {i} : Data(n.arena.nodes[j]) = Data(m.arena.nodes[j])
    BY CancelEffect
  <1> HIDE DEF n
  <1>2. OpenQty(n, id0) = 0
    BY <1>1 DEF OpenQty
  <1>3. OpenQty(m, id0) = m.arena.nodes[i].qty
    BY DEF OpenQty
  <1>4. OpenBut(n, m, id0)
    <2> SUFFICES ASSUME NEW id \in OrderIds, id # id0
                 PROVE  OpenQty(n, id) = OpenQty(m, id)
      BY DEF OpenBut
    <2>1. CASE id \in DOMAIN m.order_map
      <3> DEFINE j == m.order_map[id].arena_index
      <3>1. j \in Index /\ j # i
        BY <2>1, MapFields, OrderlyMap, Zenon
      <3>2. n.order_map[id].arena_index = j /\ id \in DOMAIN n.order_map
        BY <1>1, <2>1
      <3>3. n.arena.nodes[j].qty = m.arena.nodes[j].qty
        BY <1>1, <3>1, Zenon DEF Data
      <3> QED BY <2>1, <3>2, <3>3 DEF OpenQty
    <2>2. CASE id \notin DOMAIN m.order_map
      BY <1>1, <2>2 DEF OpenQty
    <2> QED BY <2>1, <2>2
  <1> QED BY <1>2, <1>3, <1>4 DEF n

\* A maker that is filled in part has less open, and no other order changes.
LEMMA ReduceOpen ==
  ASSUME NEW m, MatcherType(m), Orderly(m), NEW side \in Sides,
         NEW p \in DOMAIN m.levels[side], NEW qty \in Int
  PROVE  LET n == ReduceMaker(m, side, p, qty)
             maker == m.arena.nodes[m.levels[side][p].head]
         IN  /\ OpenQty(n, maker.order_id) = OpenQty(m, maker.order_id) - qty
             /\ OpenBut(n, m, maker.order_id)
  <1> DEFINE n == ReduceMaker(m, side, p, qty)
             i == m.levels[side][p].head
             id0 == m.arena.nodes[i].order_id
  <1>1. Reduced(n, m, side, p, qty)
    BY ReduceEffect
  <1> HIDE DEF n
  <1>2. /\ n.order_map = m.order_map
        /\ n.arena.nodes[i] = [m.arena.nodes[i] EXCEPT !.qty = m.arena.nodes[i].qty - qty]
        /\ \A j \in Index \ {i} : n.arena.nodes[j] = m.arena.nodes[j]
    BY <1>1, Zenon DEF Reduced
  <1>3. /\ id0 \in DOMAIN m.order_map /\ m.order_map[id0].arena_index = i
    <2>1. \E id \in DOMAIN m.order_map :
            m.order_map[id].arena_index = i /\ id = id0
      BY FillIsCancel
    <2> HIDE DEF i, id0
    <2> QED BY <2>1
  <1>4. i \in Index
    BY <1>3, MapFields, Zenon
  <1>5. n.arena.nodes[i].qty = m.arena.nodes[i].qty - qty
    <2>1. m.arena.nodes[i] \in BookNode
      BY <1>4, BookBlock DEF Nodes
    <2> QED BY <1>2, <2>1, Zenon DEF BookNode, NodeType
  <1>6. OpenQty(n, id0) = OpenQty(m, id0) - qty
    BY <1>2, <1>3, <1>5, Zenon DEF OpenQty
  <1>7. OpenBut(n, m, id0)
    <2> SUFFICES ASSUME NEW id \in OrderIds, id # id0
                 PROVE  OpenQty(n, id) = OpenQty(m, id)
      BY DEF OpenBut
    <2> HIDE DEF id0, i
    <2>1. CASE id \in DOMAIN m.order_map
      <3> DEFINE j == m.order_map[id].arena_index
      <3>1. j \in Index /\ j # i
        BY <1>3, <2>1, MapFields, OrderlyMap, Zenon
      <3>2. n.arena.nodes[j] = m.arena.nodes[j]
        BY <1>2, <3>1
      <3> QED BY <1>2, <2>1, <3>2 DEF OpenQty
    <2>2. CASE id \notin DOMAIN m.order_map
      BY <1>2, <2>2 DEF OpenQty
    <2> QED BY <2>1, <2>2, SMTT(30)
  <1> QED BY <1>6, <1>7, Zenon DEF n

\* An order that rests is open with what is left of it.
LEMMA RestOpen ==
  ASSUME NEW m, MatcherType(m), Orderly(m), NEW order \in PlaceOrder,
         NEW qty \in U32, ~IsFull(m.arena),
         order.order_id \notin DOMAIN m.order_map
  PROVE  LET n == RestOrder(m, order, qty)
         IN  /\ OpenQty(n, order.order_id) = qty
             /\ OpenQty(m, order.order_id) = 0
             /\ OpenBut(n, m, order.order_id)
  <1> DEFINE n == RestOrder(m, order, qty)
             i == m.arena.free_head
             id0 == order.order_id
  <1>1. Rested(n, m, order, qty)
    BY RestEffect
  <1> HIDE DEF n
  <1>2. i \in Index /\ \A id \in DOMAIN m.order_map : m.order_map[id].arena_index # i
    BY FreeNotPlaced DEF InUse
  <1>3. /\ DOMAIN n.order_map = DOMAIN m.order_map \cup {id0}
        /\ \A x \in DOMAIN m.order_map \ {id0} : n.order_map[x] = m.order_map[x]
        /\ n.order_map[id0].arena_index = i
        /\ \A j \in Index \ {i} : Data(n.arena.nodes[j]) = Data(m.arena.nodes[j])
        /\ n.arena.nodes[i].qty = qty
    <2>1. /\ DOMAIN n.order_map = DOMAIN m.order_map \cup {id0}
          /\ \A x \in DOMAIN m.order_map \ {id0} : n.order_map[x] = m.order_map[x]
          /\ n.order_map[id0] = [arena_index |-> i, side |-> order.side,
                                 price |-> order.price, user_id |-> order.user_id]
          /\ \A j \in Index \ {i} : Data(n.arena.nodes[j]) = Data(m.arena.nodes[j])
          /\ Data(n.arena.nodes[i])
               = <<order.price, qty, order.order_id, order.user_id>>
      BY <1>1 DEF Rested
    <2> HIDE DEF id0, i
    <2>2. n.order_map[id0].arena_index = i
      BY <2>1
    <2>3. n.arena.nodes[i].qty = qty
      BY <2>1 DEF Data
    <2> QED BY <2>1, <2>2, <2>3, SMTT(30)
  <1>4. OpenQty(n, id0) = qty /\ OpenQty(m, id0) = 0
    BY <1>3 DEF OpenQty
  <1>5. OpenBut(n, m, id0)
    <2> SUFFICES ASSUME NEW id \in OrderIds, id # id0
                 PROVE  OpenQty(n, id) = OpenQty(m, id)
      BY DEF OpenBut
    <2> HIDE DEF id0, i
    <2>1. CASE id \in DOMAIN m.order_map
      <3> DEFINE j == m.order_map[id].arena_index
      <3>1. j \in Index /\ j # i
        BY <1>2, <2>1, MapFields, Zenon
      <3>2. n.order_map[id].arena_index = j /\ id \in DOMAIN n.order_map
        BY <1>3, <2>1
      <3>3. n.arena.nodes[j].qty = m.arena.nodes[j].qty
        BY <1>3, <3>1, Zenon DEF Data
      <3> QED BY <2>1, <3>2, <3>3 DEF OpenQty
    <2>2. CASE id \notin DOMAIN m.order_map
      BY <1>3, <2>2 DEF OpenQty
    <2> QED BY <2>1, <2>2
  <1> QED BY <1>4, <1>5 DEF n

-----------------------------------------------------------------------------

\* The events a trade or a rest adds.
LEMMA AddsTwo ==
  ASSUME pc # "idle", event_buffer \in Seq(Event), NEW a, NEW b,
         event_buffer' = event_buffer \o <<a, b>>
  PROVE  NewEvents = <<a, b>>
  <1> DEFINE S == Event \cup {a, b}
  <1>1. event_buffer \in Seq(S) /\ a \in S /\ b \in S
    BY SeqMonotonic
  <1> HIDE DEF S
  <1>2. SubSeq(event_buffer \o <<a, b>>, Len(event_buffer) + 1,
               Len(event_buffer \o <<a, b>>)) = <<a, b>>
    BY <1>1, AddedTwo
  <1> QED BY <1>2 DEF NewEvents

\* The event added by a step that appends one.
LEMMA AddsOne ==
  ASSUME pc # "idle", event_buffer \in Seq(Event), NEW x,
         event_buffer' = Append(event_buffer, x)
  PROVE  NewEvents = <<x>>
  <1> DEFINE S == Event \cup {x}
  <1>1. event_buffer \in Seq(S) /\ x \in S
    BY SeqMonotonic
  <1> HIDE DEF S
  <1>2. SubSeq(Append(event_buffer, x), Len(event_buffer) + 1,
               Len(Append(event_buffer, x))) = <<x>>
    BY <1>1, AddedOne
  <1> QED BY <1>2 DEF NewEvents

\* Two events, the first for the owner of an order and the other silent.
LEMMA TwoTold ==
  ASSUME NEW m, MatcherType(m), NEW n, NEW a, NEW b, Silent(b),
         NEW id0, TellsOnly(a, id0), OpenBut(n, m, id0),
         OpenQty(n, id0) = OpenQty(m, id0) + Told(id0, a)
  PROVE  AllTold(<<a, b>>, m, n)
  <1> DEFINE es == <<a, b>>
  <1>1. DOMAIN es = 1 .. 2 /\ es[1] = a /\ es[2] = b /\ 1 \in DOMAIN es
    OBVIOUS
  <1> HIDE DEF es
  <1>2. SilentBut(es, 1)
    BY <1>1 DEF SilentBut
  <1>3. TellsOnly(es[1], id0) /\ OpenQty(n, id0) = OpenQty(m, id0) + Told(id0, es[1])
    BY <1>1
  <1>4. AllTold(es, m, n)
    BY <1>1, <1>2, <1>3, OneTold, Zenon
  <1> QED BY <1>4 DEF es

LEMMA PlaceTold ==
  ASSUME IInv, NEW order \in PlaceOrder, Place(order)
  PROVE  AllTold(NewEvents, matcher, matcher')
  <1>1. <<>> \in Seq(Event) /\ ProcessPlace(matcher, order, <<>>)
    BY DEF Place
  <1>2. PICK rest \in Seq(Event) :
           /\ \A k \in DOMAIN rest : rest[k].kind = "Rejected"
           /\ event_buffer' = <<>> \o rest
    BY <1>1, ProcessPlaceEvents, Zenon
  <1>3. NewEvents = rest /\ matcher' = matcher
    BY <1>2 DEF NewEvents, Place, ProcessPlace
  <1>4. \A k \in DOMAIN rest : Silent(rest[k])
    BY <1>2 DEF Silent
  <1>5. Len(rest) \in Nat /\ DOMAIN rest = 1 .. Len(rest)
    OBVIOUS
  <1>6. MatcherType(matcher)
    BY DEF IInv, TypeOK
  <1>7. AllTold(rest, matcher, matcher)
    BY <1>4, <1>5, <1>6, NothingTold
  <1> QED BY <1>3, <1>7

\* One event, and it is silent.
LEMMA OneSilent ==
  ASSUME NEW m, MatcherType(m), NEW x, Silent(x)
  PROVE  AllTold(<<x>>, m, m)
  <1> DEFINE es == <<x>>
  <1>1. DOMAIN es = 1 .. 1 /\ \A k \in DOMAIN es : Silent(es[k])
    OBVIOUS
  <1> HIDE DEF es
  <1>2. AllTold(es, m, m)
    BY <1>1, NothingTold, Zenon
  <1> QED BY <1>2 DEF es

LEMMA NotFoundTold ==
  ASSUME IInv, NEW id, pc = "idle", event_buffer' = NotFoundEvents(id),
         UNCHANGED matcher
  PROVE  AllTold(NewEvents, matcher, matcher')
  <1> DEFINE x == OrderRejected(id, "OrderNotFound")
  <1>1. NewEvents = <<x>>
    BY DEF NewEvents, NotFoundEvents
  <1>2. Silent(x)
    BY DEF Silent, OrderRejected
  <1>3. MatcherType(matcher)
    BY DEF IInv, TypeOK
  <1> HIDE DEF x
  <1>4. AllTold(<<x>>, matcher, matcher)
    BY <1>2, <1>3, OneSilent
  <1> QED BY <1>1, <1>4

\* A cancel tells the owner of what was open; what follows it is silent.
LEMMA CancelTold ==
  ASSUME NEW m, MatcherType(m), Orderly(m), NEW id \in DOMAIN m.order_map,
         NEW events, NEW rest \in Seq(Event),
         events = CancelEvents(m, id) \o rest,
         \A k \in DOMAIN rest : Silent(rest[k])
  PROVE  AllTold(events, m, CancelOrder(m, id))
  <1> DEFINE info == m.order_map[id]
             n == CancelOrder(m, id)
             qty == m.arena.nodes[info.arena_index].qty
             c == OrderCanceled(id, qty)
             u == BookUpdate(info.side, info.price,
                             DepthAt(n, info.side, info.price))
  <1>1. CancelEvents(m, id) = <<c, u>>
    BY DEF CancelEvents
  <1>2. Silent(u)
    BY DEF Silent, BookUpdate
  <1>3. /\ OpenQty(n, id) = 0 /\ OpenQty(m, id) = qty /\ OpenBut(n, m, id)
        /\ OpenQty(m, id) \in Int
    BY CancelOpen, OpenInt
  <1> HIDE DEF qty
  <1>4. Told(id, c) = 0 - qty /\ \A x : x # id => Told(x, c) = 0
    BY DEF Told, OrderCanceled
  <1> HIDE DEF c, u, n, info
  <1>5. TellsOnly(c, id) /\ OpenQty(n, id) = OpenQty(m, id) + Told(id, c)
    BY <1>3, <1>4 DEF TellsOnly
  <1>6. events \in Seq(Event \cup {c, u}) /\ Len(events) = Len(rest) + 2
        /\ events[1] = c /\ events[2] = u
        /\ \A k \in 3 .. Len(events) : events[k] = rest[k - 2]
    <2>1. <<c, u>> \in Seq(Event \cup {c, u}) /\ rest \in Seq(Event \cup {c, u})
      OBVIOUS
    <2>2. events = <<c, u>> \o rest
      BY <1>1
    <2> QED BY <2>1, <2>2
  <1>7. DOMAIN events = 1 .. Len(rest) + 2 /\ Len(rest) \in Nat
        /\ DOMAIN rest = 1 .. Len(rest)
    BY <1>6
  <1>8. SilentBut(events, 1)
    <2> SUFFICES ASSUME NEW k \in DOMAIN events, k # 1
                 PROVE  Silent(events[k])
      BY DEF SilentBut
    <2>1. CASE k = 2
      BY <1>2, <1>6, <2>1
    <2>2. CASE k # 2
      <3>1. k \in 3 .. Len(events) /\ k - 2 \in DOMAIN rest
        BY <1>6, <1>7, <2>2
      <3> QED BY <1>6, <3>1
    <2> QED BY <2>1, <2>2
  <1>9. AllTold(events, m, n)
    <2>1. /\ 1 \in DOMAIN events /\ Len(rest) + 2 \in Nat
          /\ TellsOnly(events[1], id)
          /\ OpenQty(n, id) = OpenQty(m, id) + Told(id, events[1])
      BY <1>5, <1>6, <1>7
    <2> QED BY <1>3, <1>7, <1>8, <2>1, OneTold, Zenon
  <1> QED BY <1>9 DEF n

LEMMA CancelStepTold ==
  ASSUME IInv, BookInv, NEW id, Cancel(id)
  PROVE  AllTold(NewEvents, matcher, matcher')
  <1>1. CASE id \notin DOMAIN matcher.order_map
    BY <1>1, NotFoundTold DEF Cancel
  <1>2. CASE id \in DOMAIN matcher.order_map
    <2>1. pc = "idle" /\ matcher' = CancelOrder(matcher, id)
          /\ event_buffer' = CancelEvents(matcher, id)
      BY <1>2 DEF Cancel
    <2>2. MatcherType(matcher) /\ Orderly(matcher)
      BY DEF IInv, TypeOK, BookInv
    <2> DEFINE events == event_buffer'
               rest == <<>>
    <2>3. events = CancelEvents(matcher, id) \o rest /\ rest \in Seq(Event)
          /\ \A k \in DOMAIN rest : Silent(rest[k])
      BY <1>2, <2>1, <2>2, CancelEventsType
    <2>4. NewEvents = events
      BY <2>1 DEF NewEvents
    <2> HIDE DEF events, rest
    <2>5. AllTold(events, matcher, CancelOrder(matcher, id))
      BY <1>2, <2>2, <2>3, CancelTold, Zenon
    <2> QED BY <2>1, <2>4, <2>5
  <1> QED BY <1>1, <1>2

LEMMA ModifyTold ==
  ASSUME IInv, BookInv,
         NEW modify \in [kind : {"Modify"}, order_id : OrderIds,
                         new_order_id : OrderIds, new_price : Prices,
                         new_qty : Qtys],
         Modify(modify)
  PROVE  AllTold(NewEvents, matcher, matcher')
  <1> DEFINE id == modify.order_id
             m == CancelOrder(matcher, id)
             order == Replacement(matcher.order_map[id], modify)
             events == CancelEvents(matcher, id)
  <1>1. CASE id \notin DOMAIN matcher.order_map
    BY <1>1, NotFoundTold DEF Modify
  <1>2. CASE id \in DOMAIN matcher.order_map
    <2>1. pc = "idle" /\ ProcessPlace(m, order, events)
      BY <1>2 DEF Modify
    <2>2. MatcherType(matcher) /\ Orderly(matcher)
      BY DEF IInv, TypeOK, BookInv
    <2>3. order \in PlaceOrder
      BY <1>2, <2>2, ReplacementType
    <2>4. events \in Seq(Event)
      BY <1>2, <2>2, CancelEventsType
    <2> HIDE DEF order, events, m, id
    <2>5. PICK rest \in Seq(Event) :
             /\ \A k \in DOMAIN rest : rest[k].kind = "Rejected"
             /\ event_buffer' = events \o rest
      BY <2>1, <2>3, <2>4, ProcessPlaceEvents, Zenon
    <2> DEFINE es == event_buffer'
    <2>6. es = CancelEvents(matcher, id) \o rest
      BY <2>5 DEF events
    <2>7. \A k \in DOMAIN rest : Silent(rest[k])
      BY <2>5 DEF Silent
    <2> HIDE DEF es
    <2>8. AllTold(es, matcher, CancelOrder(matcher, id))
      BY <1>2, <2>2, <2>6, <2>7, CancelTold, Zenon
    <2>9. NewEvents = es /\ matcher' = CancelOrder(matcher, id)
      BY <2>1 DEF NewEvents, es, ProcessPlace, m
    <2> QED BY <2>8, <2>9
  <1> QED BY <1>1, <1>2

\* A trade tells the maker's owner of what is taken.
LEMMA TradeTold ==
  ASSUME IInv, BookInv, pc = "cross",
         NEW p \in DOMAIN matcher.levels[MakerSide], TradeWithHead(p)
  PROVE  AllTold(NewEvents, matcher, matcher')
  <1> DEFINE S == MakerSide
             maker == matcher.arena.nodes[matcher.levels[S][p].head]
             id0 == maker.order_id
             qty == Lesser(remaining_qty, maker.qty)
             t == TradeEvent(p, qty, maker, taker)
             u == BookUpdate(S, p, DepthAt(matcher', S, p))
  <1>1. /\ MatcherType(matcher) /\ Orderly(matcher) /\ S \in Sides
        /\ p \in DOMAIN matcher.levels[S] /\ event_buffer \in Seq(Event)
    BY TakerType DEF BookInv
  <1>2. NewEvents = <<t, u>>
    <2>1. event_buffer' = event_buffer \o <<t, u>>
      BY Zenon DEF TradeWithHead
    <2> HIDE DEF t, u
    <2> QED BY <1>1, <2>1, AddsTwo
  <1>3. Silent(u)
    BY DEF Silent, BookUpdate
  <1>4. maker.qty \in Int /\ remaining_qty \in Int
    <2>1. matcher.levels[S][p].head \in Index
      BY <1>1, HeadPlaced
    <2>2. maker \in BookNode
      BY <1>1, <2>1, BookBlock DEF Nodes
    <2>3. U32 \subseteq Int /\ remaining_qty \in U32
      BY TakerType, WordAssumption DEF U32
    <2> QED BY <2>2, <2>3, NodeFields
  <1>5. qty \in Int
    <2> HIDE DEF maker
    <2> QED BY <1>4, SMTT(30) DEF Lesser
  <1>6. Told(id0, t) = 0 - qty /\ \A x : x # id0 => Told(x, t) = 0
    <2> HIDE DEF qty
    <2> QED BY DEF Told, TradeEvent
  <1>7. /\ OpenBut(matcher', matcher, id0)
        /\ OpenQty(matcher', id0) = OpenQty(matcher, id0) - qty
    <2>1. CASE maker.qty = qty
      <3>1. matcher' = FillMaker(matcher, S, p)
        BY <2>1, Zenon DEF TradeWithHead
      <3>2. /\ id0 \in DOMAIN matcher.order_map
            /\ matcher.order_map[id0].arena_index = matcher.levels[S][p].head
            /\ FillMaker(matcher, S, p) = CancelOrder(matcher, id0)
        <4>1. \E id \in DOMAIN matcher.order_map :
                /\ matcher.order_map[id].arena_index = matcher.levels[S][p].head
                /\ id = id0 /\ FillMaker(matcher, S, p) = CancelOrder(matcher, id)
          BY <1>1, FillIsCancel
        <4> HIDE DEF id0
        <4> QED BY <4>1
      <3>3. /\ OpenQty(CancelOrder(matcher, id0), id0) = 0
            /\ OpenQty(matcher, id0) = maker.qty
            /\ OpenBut(CancelOrder(matcher, id0), matcher, id0)
        <4> HIDE DEF id0
        <4> QED BY <1>1, <3>2, CancelOpen
      <3> HIDE DEF id0, maker, qty, S
      <3> QED BY <1>4, <2>1, <3>1, <3>2, <3>3
    <2>2. CASE maker.qty # qty
      <3>1. matcher' = ReduceMaker(matcher, S, p, qty)
        BY <2>2, Zenon DEF TradeWithHead
      <3> HIDE DEF qty
      <3>2. /\ OpenQty(ReduceMaker(matcher, S, p, qty), id0)
                 = OpenQty(matcher, id0) - qty
            /\ OpenBut(ReduceMaker(matcher, S, p, qty), matcher, id0)
        BY <1>1, <1>5, ReduceOpen
      <3> QED BY <3>1, <3>2, Zenon
    <2> QED BY <2>1, <2>2, Zenon
  <1>8. OpenQty(matcher, id0) \in Int
    BY <1>1, OpenInt
  <1> HIDE DEF t, u, qty, id0
  <1>9. TellsOnly(t, id0) /\ OpenQty(matcher', id0) = OpenQty(matcher, id0) + Told(id0, t)
    BY <1>5, <1>6, <1>7, <1>8 DEF TellsOnly
  <1>10. AllTold(<<t, u>>, matcher, matcher')
    BY <1>1, <1>3, <1>7, <1>9, TwoTold
  <1> QED BY <1>2, <1>10

\* An accept tells the taker's owner of what rests.
LEMMA RestTold ==
  ASSUME IInv, BookInv, RestRemainder
  PROVE  AllTold(NewEvents, matcher, matcher')
  <1> DEFINE a == OrderAccepted(taker, remaining_qty)
             u == BookUpdate(taker.side, taker.price,
                             DepthAt(matcher', taker.side, taker.price))
             n == RestOrder(matcher, taker, remaining_qty)
             id0 == taker.order_id
  <1>1. /\ pc = "cross" /\ ~IsFull(matcher.arena) /\ matcher' = n
        /\ event_buffer' = event_buffer \o <<a, u>>
    BY DEF RestRemainder, Crossed
  <1>2. /\ MatcherType(matcher) /\ taker \in PlaceOrder /\ remaining_qty \in U32
        /\ event_buffer \in Seq(Event) /\ Orderly(matcher)
        /\ id0 \notin DOMAIN matcher.order_map
    BY <1>1, TakerType DEF BookInv
  <1>3. NewEvents = <<a, u>>
    <2> HIDE DEF a, u
    <2> QED BY <1>1, <1>2, AddsTwo, Zenon
  <1>4. Silent(u)
    BY DEF Silent, BookUpdate
  <1>5. Told(id0, a) = remaining_qty /\ \A x : x # id0 => Told(x, a) = 0
    BY DEF Told, OrderAccepted
  <1>6. /\ OpenQty(n, id0) = remaining_qty
        /\ OpenQty(matcher, id0) = 0
        /\ OpenBut(n, matcher, id0)
    BY <1>1, <1>2, RestOpen
  <1>7. remaining_qty \in Int
    BY <1>2, WordAssumption DEF U32
  <1> HIDE DEF a, u, n, id0
  <1>8. TellsOnly(a, id0) /\ OpenQty(n, id0) = OpenQty(matcher, id0) + Told(id0, a)
    BY <1>5, <1>6, <1>7 DEF TellsOnly
  <1>9. AllTold(<<a, u>>, matcher, n)
    BY <1>2, <1>4, <1>6, <1>8, TwoTold
  <1> QED BY <1>1, <1>3, <1>9

LEMMA RejectTold ==
  ASSUME IInv, RejectRemainder
  PROVE  AllTold(NewEvents, matcher, matcher')
  <1> DEFINE x == OrderRejected(taker.order_id, "ArenaFull")
  <1>1. /\ pc = "cross" /\ matcher' = matcher
        /\ event_buffer' = Append(event_buffer, x)
    BY DEF RejectRemainder, Crossed
  <1>2. event_buffer \in Seq(Event) /\ MatcherType(matcher)
    BY <1>1, TakerType
  <1>3. Silent(x)
    BY DEF Silent, OrderRejected
  <1> HIDE DEF x
  <1>4. NewEvents = <<x>>
    BY <1>1, <1>2, AddsOne
  <1>5. AllTold(<<x>>, matcher, matcher)
    BY <1>2, <1>3, OneSilent
  <1> QED BY <1>1, <1>4, <1>5

LEMMA CompleteTold ==
  ASSUME IInv, CompletePlace
  PROVE  AllTold(NewEvents, matcher, matcher')
  <1> DEFINE es == <<>>
  <1>1. /\ pc = "cross" /\ matcher' = matcher /\ event_buffer' = event_buffer
    BY DEF CompletePlace, Crossed
  <1>2. event_buffer \in Seq(Event) /\ MatcherType(matcher)
    BY <1>1, TakerType
  <1>3. NewEvents = es
    BY <1>1, <1>2, AddedNone DEF NewEvents
  <1>4. DOMAIN es = 1 .. 0 /\ \A k \in DOMAIN es : Silent(es[k])
    OBVIOUS
  <1> HIDE DEF es
  <1>5. AllTold(es, matcher, matcher)
    BY <1>2, <1>4, NothingTold
  <1> QED BY <1>1, <1>3, <1>5

LEMMA StepTold ==
  IInv /\ BookInv /\ [Next]_vars
    => [AllTold(NewEvents, matcher, matcher')]_vars
  <1> SUFFICES ASSUME IInv, BookInv, Next
               PROVE  AllTold(NewEvents, matcher, matcher')
    OBVIOUS
  <1>1. ASSUME NEW cmd \in Command, ProcessCommand(cmd)
        PROVE  AllTold(NewEvents, matcher, matcher')
    <2>1. CASE cmd.kind = "Place" /\ Place(cmd.order)
      BY <2>1, PlaceTold DEF Command
    <2>2. CASE cmd.kind = "Cancel" /\ Cancel(cmd.order_id)
      BY <2>2, CancelStepTold
    <2>3. CASE cmd.kind = "Modify" /\ Modify(cmd)
      BY <2>3, ModifyTold DEF Command
    <2> QED BY <1>1, <2>1, <2>2, <2>3 DEF ProcessCommand
  <1>2. ASSUME pc = "cross", NEW p \in DOMAIN matcher.levels[MakerSide], Match(p)
        PROVE  AllTold(NewEvents, matcher, matcher')
    <2>1. MatcherType(matcher) /\ Orderly(matcher) /\ MakerSide \in Sides
      BY <1>2, TakerType DEF BookInv
    <2>2. /\ ~IsEmpty(matcher.levels[MakerSide][p])
          /\ matcher.levels[MakerSide][p].head # NULL_INDEX
      BY <1>2, <2>1, HeadPlaced
    <2>3. TradeWithHead(p)
      BY <1>2, <2>2 DEF Match
    <2> QED BY <1>2, <2>3, TradeTold
  <1>3. CASE pc = "cross" /\ Continue
    BY <1>2, <1>3, RestTold, RejectTold, CompleteTold DEF Continue
  <1> QED BY <1>1, <1>3 DEF Next

-----------------------------------------------------------------------------
(* The queues of the book.                                                 *)

\* The orders of a level, in the order of its queue.
Entries(ns, q) == [k \in DOMAIN q |-> Entry(ns[q[k]])]

IsBook(b) == b = [side \in Sides |-> [p \in Prices |-> b[side][p]]]

LEMMA QueuesAt ==
  ASSUME NEW m, NEW side \in Sides, NEW p \in Prices
  PROVE  Queues(m)[side][p] =
           IF p \notin DOMAIN m.levels[side] THEN <<>>
           ELSE Entries(m.arena.nodes, QueueOf(m.levels[side][p], m.arena.nodes))
  BY DEF Queues, Entries

LEMMA QueuesBook == ASSUME NEW m PROVE IsBook(Queues(m))
  BY DEF Queues, IsBook

\* Books are equal when their queues are.
LEMMA EqualBooks ==
  ASSUME NEW b, IsBook(b), NEW c, IsBook(c),
         \A s \in Sides, x \in Prices : c[s][x] = b[s][x]
  PROVE  c = b
  <1>1. [s \in Sides |-> [x \in Prices |-> c[s][x]]]
          = [s \in Sides |-> [x \in Prices |-> b[s][x]]]
    OBVIOUS
  <1> QED BY <1>1 DEF IsBook

LEMMA BookBut ==
  ASSUME NEW b, IsBook(b), NEW c, IsBook(c), NEW side \in Sides, NEW p \in Prices,
         \A s \in Sides, x \in Prices : s # side \/ x # p => c[s][x] = b[s][x]
  PROVE  c = [b EXCEPT ![side][p] = c[side][p]]
  <1> DEFINE d == [b EXCEPT ![side][p] = c[side][p]]
  <1>1. DOMAIN b = Sides /\ \A s \in Sides : b[s] = [x \in Prices |-> b[s][x]]
    BY DEF IsBook
  <1>2. d[side] = [b[side] EXCEPT ![p] = c[side][p]]
        /\ \A s \in Sides \ {side} : d[s] = b[s]
    BY <1>1
  <1>3. d[side][p] = c[side][p] /\ \A x \in Prices \ {p} : d[side][x] = b[side][x]
    BY <1>1, <1>2
  <1>4. d = [s \in Sides |-> d[s]]
    BY <1>1, Zenon
  <1>5. \A s \in Sides : d[s] = [x \in Prices |-> d[s][x]]
    BY <1>1, <1>2
  <1> HIDE DEF d
  <1>6. IsBook(d)
    <2>1. d = [s \in Sides |-> [x \in Prices |-> d[s][x]]]
      BY <1>4, <1>5, Zenon
    <2> QED BY <2>1 DEF IsBook
  <1>7. ASSUME NEW s \in Sides, NEW x \in Prices PROVE c[s][x] = d[s][x]
    <2>1. CASE s = side /\ x = p
      BY <1>3, <2>1
    <2>2. CASE s # side \/ x # p
      <3>1. c[s][x] = b[s][x]
        BY <2>2
      <3>2. d[s][x] = b[s][x]
        BY <1>2, <1>3, <2>2, Zenon
      <3> QED BY <3>1, <3>2
    <2> QED BY <2>1, <2>2
  <1>8. c = d
    BY <1>6, <1>7, EqualBooks
  <1> QED BY <1>8 DEF d

OrderEntry == [order_id : OrderIds, user_id : UserIds, qty : U32]

\* The queue of a level, and the orders in it.
LevelQueue(m, side, p, q, e) ==
  /\ q \in Seq(Index) /\ Len(q) \in Nat /\ Len(q) > 0 /\ DOMAIN q = 1 .. Len(q)
  /\ e = Entries(m.arena.nodes, q)
  /\ e \in Seq(OrderEntry) /\ Len(e) = Len(q) /\ DOMAIN e = 1 .. Len(q)
  /\ q[1] = m.levels[side][p].head
  /\ \A k \in 1 .. Len(q) :
       /\ q[k] \in Placed(m, side, p)
       /\ e[k] = Entry(m.arena.nodes[q[k]])
       /\ e[k].qty > 0
       /\ e[k].order_id \in DOMAIN m.order_map
       /\ m.order_map[e[k].order_id].arena_index = q[k]
       /\ m.order_map[e[k].order_id].side = side
       /\ m.order_map[e[k].order_id].price = p
       /\ m.order_map[e[k].order_id].user_id = e[k].user_id
  /\ \A j, k \in 1 .. Len(q) : e[j].order_id = e[k].order_id => j = k

LEMMA LevelQueueIs ==
  ASSUME NEW m, MatcherType(m), Orderly(m), NEW side \in Sides,
         NEW p \in DOMAIN m.levels[side]
  PROVE  LevelQueue(m, side, p,
                    QueueOf(m.levels[side][p], m.arena.nodes), Queues(m)[side][p])
  <1> DEFINE l == m.levels[side][p]
             ns == m.arena.nodes
             S == Placed(m, side, p)
             q == QueueOf(l, ns)
             e == Queues(m)[side][p]
  <1>1. /\ l \in Level /\ IsBlock(ns) /\ ns \in Nodes /\ QueueOn(l, ns, S)
        /\ p \in Prices
    BY BookBlock DEF Orderly
  <1>2. e = Entries(ns, q)
    BY <1>1, QueuesAt
  <1> HIDE DEF e
  <1>3. /\ q \in Seq(Index) /\ Len(q) \in Nat /\ Len(q) > 0
        /\ DOMAIN q = 1 .. Len(q)
        /\ q[1] = l.head
        /\ \A k \in 1 .. Len(q) : q[k] \in S
        /\ \A j, k \in 1 .. Len(q) : q[j] = q[k] => j = k
    <2> HIDE DEF l, S
    <2> QED BY <1>1, QueueFacts, Zenon
  <1> HIDE DEF q, S
  <1>4. DOMAIN e = 1 .. Len(q) /\ \A k \in 1 .. Len(q) : e[k] = Entry(ns[q[k]])
    BY <1>2, <1>3, SMTT(30) DEF Entries
  <1>5. ASSUME NEW k \in 1 .. Len(q)
        PROVE  /\ e[k] \in OrderEntry /\ e[k].qty > 0
               /\ e[k].order_id \in DOMAIN m.order_map
               /\ m.order_map[e[k].order_id].arena_index = q[k]
               /\ m.order_map[e[k].order_id].side = side
               /\ m.order_map[e[k].order_id].price = p
               /\ m.order_map[e[k].order_id].user_id = e[k].user_id
    <2> DEFINE i == q[k]
    <2>1. i \in Placed(m, side, p)
      BY <1>3 DEF S
    <2> HIDE DEF i
    <2>2. /\ i \in Index
          /\ ns[i].order_id \in DOMAIN m.order_map
          /\ m.order_map[ns[i].order_id] =
               [arena_index |-> i, side |-> side, price |-> p,
                user_id |-> ns[i].user_id]
          /\ ns[i].qty > 0
      BY <2>1, PlacedFacts
    <2>3. ns[i].qty \in U32
      BY <1>1, <2>2, NodeFields DEF Nodes
    <2>4. ns[i].order_id \in OrderIds /\ ns[i].user_id \in UserIds
      <3> DEFINE id == ns[i].order_id
      <3>1. m.order_map[id].user_id = ns[i].user_id
        BY <2>2
      <3>2. id \in OrderIds /\ m.order_map[id].user_id \in UserIds
        <4>1. id \in DOMAIN m.order_map
          BY <2>2
        <4> HIDE DEF id
        <4> QED BY <4>1, MapFields, Zenon
      <3> QED BY <3>1, <3>2
    <2>5. e[k] = [order_id |-> ns[i].order_id, user_id |-> ns[i].user_id,
                  qty |-> ns[i].qty]
      BY <1>4 DEF i, Entry
    <2>6. e[k] \in OrderEntry
      BY <2>3, <2>4, <2>5 DEF OrderEntry
    <2> QED BY <2>2, <2>5, <2>6 DEF i
  <1>6. e \in Seq(OrderEntry) /\ Len(e) = Len(q)
    <2>1. e \in [1 .. Len(q) -> OrderEntry]
      BY <1>2, <1>3, <1>4, <1>5, Zenon DEF Entries
    <2> QED BY <1>3, <2>1
  <1>7. \A j, k \in 1 .. Len(q) : e[j].order_id = e[k].order_id => j = k
    <2> SUFFICES ASSUME NEW j \in 1 .. Len(q), NEW k \in 1 .. Len(q),
                        e[j].order_id = e[k].order_id
                 PROVE  j = k
      OBVIOUS
    <2>1. m.order_map[e[j].order_id].arena_index = q[j]
          /\ m.order_map[e[k].order_id].arena_index = q[k]
      BY <1>5
    <2> QED BY <1>3, <2>1
  <1>8. \A k \in 1 .. Len(q) : q[k] \in Placed(m, side, p)
    BY <1>3 DEF S
  <1>9. LevelQueue(m, side, p, q, e)
    <2> HIDE DEF l
    <2> QED BY <1>2, <1>3, <1>4, <1>5, <1>6, <1>7, <1>8, Zenon DEF LevelQueue, l
  <1> QED BY <1>9 DEF q, e

\* Every order of the map has its seat in a queue.
LEMMA SeatOf ==
  ASSUME NEW m, MatcherType(m), Orderly(m), NEW id \in DOMAIN m.order_map
  PROVE  LET info == m.order_map[id]
             q == QueueOf(m.levels[info.side][info.price], m.arena.nodes)
             e == Queues(m)[info.side][info.price]
         IN  /\ info.side \in Sides /\ info.price \in DOMAIN m.levels[info.side]
             /\ info.price \in Prices
             /\ LevelQueue(m, info.side, info.price, q, e)
             /\ \E k \in 1 .. Len(q) : q[k] = info.arena_index /\ e[k].order_id = id
  <1> DEFINE info == m.order_map[id]
             side == info.side
             p == info.price
             q == QueueOf(m.levels[side][p], m.arena.nodes)
             e == Queues(m)[side][p]
  <1>1. side \in Sides /\ p \in Prices /\ info.arena_index \in Placed(m, side, p)
    BY MapFields, InUsePlaced, Zenon
  <1>2. p \in DOMAIN m.levels[side]
    BY DEF Orderly, OrderPlaced
  <1>3. LevelQueue(m, side, p, q, e)
    <2> HIDE DEF side, p
    <2> QED BY <1>1, <1>2, LevelQueueIs
  <1>4. Range(q) = Placed(m, side, p)
    BY <1>1, <1>2 DEF Orderly, QueueOn
  <1> HIDE DEF q, e
  <1>5. PICK k \in 1 .. Len(q) : q[k] = info.arena_index
    <2>1. DOMAIN q = 1 .. Len(q)
      BY <1>3, Zenon DEF LevelQueue
    <2>2. info.arena_index \in Range(q)
      BY <1>1, <1>4
    <2> QED BY <2>1, <2>2 DEF Range
  <1>6. m.order_map[e[k].order_id].arena_index = info.arena_index
        /\ e[k].order_id \in DOMAIN m.order_map
    <2>1. m.order_map[e[k].order_id].arena_index = q[k]
          /\ e[k].order_id \in DOMAIN m.order_map
      BY <1>3, <1>5, Zenon DEF LevelQueue
    <2> QED BY <1>5, <2>1
  <1>7. e[k].order_id = id
    BY <1>6, OrderlyMap
  <1> QED BY <1>1, <1>2, <1>3, <1>5, <1>7, Zenon DEF q, e

LEMMA DataEntry == \A x, y : Data(x) = Data(y) => Entry(x) = Entry(y)
  BY DEF Data, Entry

LEMMA RemoveAtIs ==
  ASSUME NEW S, NEW s \in Seq(S), NEW k \in 1 .. Len(s)
  PROVE  Reference!RemoveAt(s, k) = Without(s, k)
  <1> DEFINE f == SubSeq(s, 1, k - 1)
             g == SubSeq(s, k + 1, Len(s))
             w == Without(s, k)
  <1>1. Len(s) \in Nat /\ k \in Int
    BY LenProperties
  <1>2. f \in Seq(S) /\ Len(f) = k - 1 /\ \A j \in 1 .. k - 1 : f[j] = s[j]
    BY <1>1, SubSeqProperties
  <1>3. g \in Seq(S) /\ Len(g) = Len(s) - k
        /\ \A j \in 1 .. Len(s) - k : g[j] = s[k + j]
    BY <1>1, SubSeqProperties
  <1>4. w \in Seq(S) /\ Len(w) = Len(s) - 1
        /\ \A j \in 1 .. Len(s) - 1 : w[j] = IF j < k THEN s[j] ELSE s[j + 1]
    BY WithoutElements
  <1>5. Reference!RemoveAt(s, k) = f \o g
    BY DEF Reference!RemoveAt
  <1> HIDE DEF f, g, w
  <1>6. f \o g \in Seq(S) /\ Len(f \o g) = Len(s) - 1
        /\ \A j \in 1 .. Len(s) - 1 :
             (f \o g)[j] = IF j < k THEN f[j] ELSE g[j - (k - 1)]
    <2>1. /\ f \o g \in Seq(S) /\ Len(f \o g) = Len(f) + Len(g)
          /\ \A j \in 1 .. Len(f) + Len(g) :
               (f \o g)[j] = IF j <= Len(f) THEN f[j] ELSE g[j - Len(f)]
      BY <1>2, <1>3, ConcatProperties, Zenon
    <2>2. Len(f) + Len(g) = Len(s) - 1
      BY <1>1, <1>2, <1>3
    <2>3. \A j \in 1 .. Len(s) - 1 : j <= k - 1 <=> j < k
      BY <1>1
    <2> QED BY <1>2, <2>1, <2>2, <2>3, Zenon
  <1>7. ASSUME NEW j \in 1 .. Len(s) - 1 PROVE (f \o g)[j] = w[j]
    <2>1. CASE j < k
      BY <1>1, <1>2, <1>4, <1>6, <2>1
    <2>2. CASE ~(j < k)
      <3>1. j - (k - 1) \in 1 .. Len(s) - k /\ k + (j - (k - 1)) = j + 1
        BY <1>1, <2>2
      <3>2. g[j - (k - 1)] = s[j + 1]
        BY <1>3, <3>1
      <3> QED BY <1>4, <1>6, <2>2, <3>2, Zenon
    <2> QED BY <2>1, <2>2, Zenon
  <1>8. f \o g = w
    BY <1>4, <1>6, <1>7, SeqEqual, Zenon
  <1> QED BY <1>5, <1>8 DEF w

LEMMA TailIs ==
  ASSUME NEW S, NEW s \in Seq(S), Len(s) > 0
  PROVE  Tail(s) = Without(s, 1) /\ Head(s) = s[1]
  <1>1. Len(s) \in Nat /\ s # <<>> /\ 1 \in 1 .. Len(s)
    BY LenProperties
  <1>2. Tail(s) \in Seq(S) /\ Len(Tail(s)) = Len(s) - 1
        /\ \A j \in 1 .. Len(s) - 1 : Tail(s)[j] = s[j + 1]
    BY <1>1, HeadTailProperties
  <1> DEFINE w == Without(s, 1)
  <1>3. w \in Seq(S) /\ Len(w) = Len(s) - 1
        /\ \A j \in 1 .. Len(s) - 1 : w[j] = IF j < 1 THEN s[j] ELSE s[j + 1]
    BY <1>1, WithoutElements
  <1> HIDE DEF w
  <1>4. \A j \in 1 .. Len(s) - 1 : Tail(s)[j] = w[j]
    BY <1>1, <1>2, <1>3
  <1>5. Tail(s) = w
    BY <1>2, <1>3, <1>4, SeqEqual
  <1> QED BY <1>1, <1>5, HeadTailProperties DEF w

LEMMA EntriesWithout ==
  ASSUME NEW ns, NEW us, NEW q \in Seq(Index), NEW k \in 1 .. Len(q),
         \A j \in 1 .. Len(q) : j # k => Data(us[q[j]]) = Data(ns[q[j]])
  PROVE  Entries(us, Without(q, k)) = Without(Entries(ns, q), k)
  <1> DEFINE e == Entries(ns, q)
             w == Without(q, k)
             n == Len(q)
  <1>1. n \in Nat /\ DOMAIN q = 1 .. n
    BY RangeOfQueue
  <1>2. w \in Seq(Index) /\ Len(w) = n - 1 /\ DOMAIN w = 1 .. n - 1
        /\ \A j \in 1 .. n - 1 : w[j] = IF j < k THEN q[j] ELSE q[j + 1]
    BY WithoutElements, RangeOfQueue
  <1>3. e = [j \in 1 .. n |-> Entry(ns[q[j]])] /\ Len(e) = n
    BY <1>1 DEF Entries
  <1>4. Entries(us, w) = [j \in 1 .. n - 1 |-> Entry(us[w[j]])]
    BY <1>2 DEF Entries
  <1>5. Without(e, k) = [j \in 1 .. n - 1 |-> IF j < k THEN e[j] ELSE e[j + 1]]
    BY <1>3 DEF Without
  <1> HIDE DEF e, w
  <1>6. ASSUME NEW j \in 1 .. n - 1
        PROVE  Entry(us[w[j]]) = IF j < k THEN e[j] ELSE e[j + 1]
    <2>1. CASE j < k
      <3>1. j \in 1 .. n /\ j # k
        BY <1>1, <2>1
      <3>2. Data(us[q[j]]) = Data(ns[q[j]])
        BY <3>1
      <3>3. w[j] = q[j] /\ e[j] = Entry(ns[q[j]])
        BY <1>2, <1>3, <2>1, <3>1
      <3> QED BY <2>1, <3>2, <3>3, DataEntry
    <2>2. CASE ~(j < k)
      <3>1. j + 1 \in 1 .. n /\ j + 1 # k
        BY <1>1, <2>2
      <3>2. Data(us[q[j + 1]]) = Data(ns[q[j + 1]])
        BY <3>1
      <3>3. w[j] = q[j + 1] /\ e[j + 1] = Entry(ns[q[j + 1]])
        BY <1>2, <1>3, <2>2, <3>1
      <3> QED BY <2>2, <3>2, <3>3, DataEntry
    <2> QED BY <2>1, <2>2
  <1>7. Entries(us, w) = Without(e, k)
    BY <1>4, <1>5, <1>6, Zenon
  <1> QED BY <1>7 DEF e, w

\* From m to n, nothing of what makes a queue has changed.
Untouched(n, m, s, x) ==
  /\ x \in DOMAIN n.levels[s] <=> x \in DOMAIN m.levels[s]
  /\ x \in DOMAIN m.levels[s] => n.levels[s][x] = m.levels[s][x]
  /\ \A j \in Placed(m, s, x) : n.arena.nodes[j] = m.arena.nodes[j]

SameQueue(n, m, s, x) == Queues(n)[s][x] = Queues(m)[s][x]

LEMMA OtherQueue ==
  ASSUME NEW m, MatcherType(m), Orderly(m), NEW n,
         NEW s \in Sides, NEW x \in Prices, Untouched(n, m, s, x)
  PROVE  SameQueue(n, m, s, x)
  <1> DEFINE ns == m.arena.nodes
             us == n.arena.nodes
             l == m.levels[s][x]
             q == QueueOf(l, ns)
  <1>1. /\ x \in DOMAIN n.levels[s] <=> x \in DOMAIN m.levels[s]
        /\ x \in DOMAIN m.levels[s] => n.levels[s][x] = l
    BY DEF Untouched
  <1>2. CASE x \notin DOMAIN m.levels[s]
    BY <1>1, <1>2, QueuesAt DEF SameQueue
  <1>3. CASE x \in DOMAIN m.levels[s]
    <2>1. l \in Level /\ IsBlock(ns) /\ QueueOn(l, ns, Placed(m, s, x))
      BY <1>3, BookBlock DEF Orderly
    <2>2. QueueOf(l, us) = q
      <3>1. \A j \in Placed(m, s, x) : us[j] = ns[j]
        BY DEF Untouched
      <3> HIDE DEF l, us, ns
      <3> QED BY <2>1, <3>1, QueueWrite
    <2>3. DOMAIN q = 1 .. Len(q) /\ \A k \in 1 .. Len(q) : q[k] \in Placed(m, s, x)
      <3> HIDE DEF l
      <3> QED BY <2>1, QueueFacts
    <2> HIDE DEF q
    <2>4. Entries(us, q) = Entries(ns, q)
      BY <2>3 DEF Entries, Untouched
    <2>5. Queues(m)[s][x] = Entries(ns, q)
      BY <1>3, QueuesAt DEF q
    <2>6. Queues(n)[s][x] = Entries(us, QueueOf(l, us))
      BY <1>1, <1>3, QueuesAt
    <2> QED BY <2>2, <2>4, <2>5, <2>6 DEF SameQueue
  <1> QED BY <1>2, <1>3

\* The level that a cancelled order leaves, when others stay in it.
LeftBehind(m, id) ==
  LET info == m.order_map[id]
      i == info.arena_index
      r == Remove(m.levels[info.side][info.price], m.arena.nodes, i)
      n == CancelOrder(m, id)
  IN  /\ info.price \in DOMAIN n.levels[info.side]
           <=> Placed(m, info.side, info.price) # {i}
      /\ info.price \in DOMAIN n.levels[info.side]
           => n.levels[info.side][info.price] = r.level
      /\ \A j \in Index \ {i} : n.arena.nodes[j] = r.nodes[j]

LEMMA CancelLevel ==
  ASSUME NEW m, MatcherType(m), Orderly(m), NEW id \in DOMAIN m.order_map
  PROVE  LeftBehind(m, id)
  <1> DEFINE info == m.order_map[id]
             i == info.arena_index
             s0 == info.side
             p0 == info.price
             r == Remove(m.levels[s0][p0], m.arena.nodes, i)
             a == [m.arena EXCEPT !.nodes = r.nodes]
             S == Placed(m, s0, p0)
             n == CancelOrder(m, id)
  <1>1. /\ s0 \in Sides /\ p0 \in DOMAIN m.levels[s0]
        /\ r.level \in Level
        /\ IsEmpty(r.level) <=> S = {i}
        /\ n.arena = Free(a, i)
        /\ n.levels = PutLevel(m, s0, p0, r.level)
    BY CancelParts, Zenon
  <1>2. i \in Index /\ LevelsType(m.levels) /\ m.arena \in BookArena
    BY MapFields, Zenon DEF MatcherType
  <1>3. /\ p0 \in DOMAIN n.levels[s0] <=> ~IsEmpty(r.level)
        /\ ~IsEmpty(r.level) => n.levels[s0][p0] = r.level
    <2> HIDE DEF s0, p0, r, n
    <2> QED BY <1>1, <1>2, PutLevelAt
  <1>4. r.nodes \in Nodes
    <2>1. m.arena.nodes \in Nodes /\ m.levels[s0][p0] \in Level
      BY <1>1, BookBlock, Zenon
    <2> HIDE DEF i, s0, p0
    <2> QED BY <1>2, <2>1, RemoveType
  <1>5. a \in BookArena /\ a.nodes = r.nodes
    <2> HIDE DEF r
    <2> QED BY <1>2, <1>4, BookArenaFields, Zenon DEF BookArena, ArenaType
  <1>6. \A j \in Index \ {i} : n.arena.nodes[j] = r.nodes[j]
    <2> HIDE DEF a, i, n, r
    <2>1. \A j \in Index \ {i} : Free(a, i).nodes[j] = a.nodes[j]
      BY <1>2, <1>5, FreeType, ZeroInTypes DEF BookArena
    <2> QED BY <1>1, <1>5, <2>1
  <1> HIDE DEF r, n, S
  <1> QED BY <1>1, <1>3, <1>6, Zenon DEF LeftBehind, r, n, S

\* A cancelled order leaves its queue, and no other queue changes.
LEMMA CancelQueues ==
  ASSUME NEW m, MatcherType(m), Orderly(m), NEW id \in DOMAIN m.order_map
  PROVE  LET info == m.order_map[id]
             q == QueueOf(m.levels[info.side][info.price], m.arena.nodes)
             e == Queues(m)[info.side][info.price]
             n == CancelOrder(m, id)
         IN  /\ \E k \in 1 .. Len(q) :
                  /\ q[k] = info.arena_index /\ e[k].order_id = id
                  /\ Queues(n)[info.side][info.price] = Without(e, k)
             /\ \A s \in Sides, x \in Prices : s # info.side \/ x # info.price =>
                  SameQueue(n, m, s, x)
  <1> DEFINE info == m.order_map[id]
             i == info.arena_index
             s0 == info.side
             p0 == info.price
             l == m.levels[s0][p0]
             ns == m.arena.nodes
             q == QueueOf(l, ns)
             e == Queues(m)[s0][p0]
             r == Remove(l, ns, i)
             S == Placed(m, s0, p0)
             n == CancelOrder(m, id)
             us == n.arena.nodes
  <1>1. /\ s0 \in Sides /\ p0 \in DOMAIN m.levels[s0] /\ p0 \in Prices
        /\ LevelQueue(m, s0, p0, q, e)
        /\ \E k \in 1 .. Len(q) : q[k] = i /\ e[k].order_id = id
    BY SeatOf, Zenon
  <1>2. PICK k \in 1 .. Len(q) : q[k] = i /\ e[k].order_id = id
    BY <1>1, Zenon
  <1>3. /\ r.level \in Level /\ IsBlock(r.nodes)
        /\ S # {i} => QueueOn(r.level, r.nodes, S \ {i})
    BY CancelParts, Zenon
  <1>4. /\ p0 \in DOMAIN n.levels[s0] <=> S # {i}
        /\ p0 \in DOMAIN n.levels[s0] => n.levels[s0][p0] = r.level
        /\ \A j \in Index \ {i} : us[j] = r.nodes[j]
    <2>1. LeftBehind(m, id)
      BY CancelLevel
    <2> QED BY <2>1, Zenon DEF LeftBehind
  <1>5. /\ \A j \in Index \ {i} : Data(us[j]) = Data(ns[j])
        /\ \A j \in Index \ S : us[j] = ns[j]
        /\ Elsewhere(n.levels, m.levels, s0, p0)
    BY CancelEffect
  <1>6. /\ l \in Level /\ IsBlock(ns) /\ QueueOn(l, ns, S)
    BY <1>1, BookBlock, Zenon DEF Orderly
  <1>7. /\ q \in Seq(Index) /\ Len(q) \in Nat /\ Range(q) = S
        /\ \A j \in 1 .. Len(q) : q[j] \in S
        /\ \A j, g \in 1 .. Len(q) : q[j] = q[g] => j = g
    <2> HIDE DEF l, S
    <2> QED BY <1>6, QueueFacts, Zenon
  <1>8. S \subseteq Index
    <2> HIDE DEF l, S
    <2> QED BY <1>6, QueueOnFacts
  <1>9. Range(Without(q, k)) = S \ {i}
    <2> HIDE DEF q, S
    <2> QED BY <1>2, <1>7, WithoutRange
  <1>10. e = Entries(ns, q)
    BY <1>1, Zenon DEF LevelQueue
  <1>11. Entries(us, Without(q, k)) = Without(e, k)
    <2>1. \A j \in 1 .. Len(q) : j # k => Data(us[q[j]]) = Data(ns[q[j]])
      BY <1>2, <1>5, <1>7, <1>8, Zenon
    <2> HIDE DEF q, us, ns, e
    <2> QED BY <1>7, <1>10, <2>1, EntriesWithout
  <1>12. Queues(n)[s0][p0] = Without(e, k)
    <2>1. CASE S # {i}
      <3>1. p0 \in DOMAIN n.levels[s0] /\ n.levels[s0][p0] = r.level
        BY <1>4, <2>1, Zenon
      <3>2. QueueOf(r.level, r.nodes) = Without(q, k)
        <4>1. r = Remove(l, ns, q[k])
          BY <1>2
        <4> HIDE DEF l, S, r
        <4> QED BY <1>6, <4>1, QueueRemove
      <3>3. QueueOf(r.level, us) = QueueOf(r.level, r.nodes)
        <4>1. \A j \in S \ {i} : us[j] = r.nodes[j]
          BY <1>4, <1>8, Zenon
        <4> HIDE DEF r, S, us, i
        <4> QED BY <1>3, <2>1, <4>1, QueueWrite
      <3>4. Queues(n)[s0][p0] = Entries(us, QueueOf(r.level, us))
        BY <1>1, <3>1, QueuesAt, Zenon
      <3> QED BY <1>11, <3>2, <3>3, <3>4, Zenon
    <2>2. CASE S = {i}
      <3>1. Queues(n)[s0][p0] = <<>>
        BY <1>1, <1>4, <2>2, QueuesAt, Zenon
      <3>2. Len(q) = 1
        <4>1. 1 \in 1 .. Len(q) /\ Len(q) \in 1 .. Len(q)
          <5> HIDE DEF q
          <5> QED BY <1>2, <1>7
        <4>2. q[1] = q[Len(q)]
          BY <1>7, <2>2, <4>1, Zenon
        <4> QED BY <1>7, <4>1, <4>2, Zenon
      <3>3. Len(e) = 1
        BY <1>1, <3>2, Zenon DEF LevelQueue
      <3>4. Without(e, k) = <<>>
        <4> HIDE DEF e
        <4>1. Without(e, k) = [j \in 1 .. 1 - 1 |-> IF j < k THEN e[j] ELSE e[j + 1]]
          BY <3>3 DEF Without
        <4> QED BY <4>1
      <3> QED BY <3>1, <3>4
    <2> QED BY <2>1, <2>2
  <1> HIDE DEF q, e, l, r, n, s0, p0, i, S
  <1>13. ASSUME NEW s \in Sides, NEW x \in Prices, s # s0 \/ x # p0
         PROVE  SameQueue(n, m, s, x)
    <2>1. \A j \in Placed(m, s, x) : j \in Index /\ j \notin S
      BY <1>13, PlacedApart DEF S
    <2>2. Untouched(n, m, s, x)
      BY <1>5, <1>13, <2>1 DEF Untouched, Elsewhere
    <2> QED BY <2>2, OtherQueue
  <1>14. \E g \in 1 .. Len(q) :
           q[g] = i /\ e[g].order_id = id /\ Queues(n)[s0][p0] = Without(e, g)
    BY <1>2, <1>12
  <1> QED BY <1>13, <1>14, Zenon DEF q, e, l, n, s0, p0, i

LEMMA FillQueues ==
  ASSUME NEW m, MatcherType(m), Orderly(m), NEW side \in Sides,
         NEW p \in DOMAIN m.levels[side]
  PROVE  LET n == FillMaker(m, side, p)
             e == Queues(m)[side][p]
         IN  Queues(n) = [Queues(m) EXCEPT ![side][p] = Tail(e)]
  <1> DEFINE n == FillMaker(m, side, p)
             e == Queues(m)[side][p]
             l == m.levels[side][p]
             q == QueueOf(l, m.arena.nodes)
  <1>1. PICK id \in DOMAIN m.order_map :
          /\ m.order_map[id].arena_index = l.head
          /\ m.order_map[id].side = side /\ m.order_map[id].price = p
          /\ n = CancelOrder(m, id)
    BY FillIsCancel
  <1>2. /\ \E k \in 1 .. Len(q) :
             /\ q[k] = l.head
             /\ Queues(n)[side][p] = Without(e, k)
        /\ \A s \in Sides, x \in Prices : s # side \/ x # p => SameQueue(n, m, s, x)
    <2> DEFINE s0 == m.order_map[id].side
               p0 == m.order_map[id].price
               q0 == QueueOf(m.levels[s0][p0], m.arena.nodes)
               e0 == Queues(m)[s0][p0]
    <2>1. /\ \E k \in 1 .. Len(q0) :
               /\ q0[k] = m.order_map[id].arena_index
               /\ Queues(CancelOrder(m, id))[s0][p0] = Without(e0, k)
          /\ \A s \in Sides, x \in Prices : s # s0 \/ x # p0 =>
               SameQueue(CancelOrder(m, id), m, s, x)
      BY CancelQueues
    <2>2. s0 = side /\ p0 = p /\ n = CancelOrder(m, id)
          /\ m.order_map[id].arena_index = l.head
      BY <1>1
    <2> HIDE DEF s0, p0, n
    <2> QED BY <2>1, <2>2, SMTT(30)
  <1>3. LevelQueue(m, side, p, q, e)
    BY LevelQueueIs, SMTT(30)
  <1> HIDE DEF q, e, n, l
  <1>4. Len(q) \in Nat /\ Len(q) > 0 /\ q[1] = l.head
        /\ e \in Seq(OrderEntry) /\ Len(e) = Len(q)
        /\ q \in Seq(Index)
    BY <1>3 DEF LevelQueue, l
  <1>5. PICK k \in 1 .. Len(q) : q[k] = l.head /\ Queues(n)[side][p] = Without(e, k)
    BY <1>2
  <1>6. k = 1
    <2>1. \A j, g \in 1 .. Len(q) : q[j] = q[g] => j = g
      <3>1. p \in Prices /\ m.levels[side][p] \in Level
            /\ QueueOn(m.levels[side][p], m.arena.nodes, Placed(m, side, p))
        BY BookBlock DEF Orderly
      <3> QED BY <3>1, QueueFacts DEF q, l
    <2>2. 1 \in 1 .. Len(q)
      BY <1>4
    <2> QED BY <1>4, <1>5, <2>1, <2>2
  <1>7. Queues(n)[side][p] = Tail(e)
    BY <1>4, <1>5, <1>6, TailIs
  <1>8. p \in Prices /\ IsBook(Queues(m)) /\ IsBook(Queues(n))
    BY BookBlock, QueuesBook
  <1>9. \A s \in Sides, x \in Prices : s # side \/ x # p =>
          Queues(n)[s][x] = Queues(m)[s][x]
    BY <1>2 DEF SameQueue
  <1>10. Queues(n) = [Queues(m) EXCEPT ![side][p] = Tail(e)]
    BY <1>7, <1>8, <1>9, BookBut
  <1> QED BY <1>10 DEF n, e

LEMMA ReduceQueues ==
  ASSUME NEW m, MatcherType(m), Orderly(m), NEW side \in Sides,
         NEW p \in DOMAIN m.levels[side], NEW qty \in Int
  PROVE  LET n == ReduceMaker(m, side, p, qty)
             e == Queues(m)[side][p]
         IN  Queues(n) = [Queues(m) EXCEPT ![side][p] =
                            [e EXCEPT ![1].qty = e[1].qty - qty]]
  <1> DEFINE n == ReduceMaker(m, side, p, qty)
             e == Queues(m)[side][p]
             l == m.levels[side][p]
             i == l.head
             ns == m.arena.nodes
             us == n.arena.nodes
             S == Placed(m, side, p)
             q == QueueOf(l, ns)
             f == [e EXCEPT ![1].qty = e[1].qty - qty]
  <1>1. Reduced(n, m, side, p, qty)
    BY ReduceEffect
  <1> HIDE DEF n
  <1>2. /\ us = [ns EXCEPT ![i].qty = ns[i].qty - qty]
        /\ us[i] = [ns[i] EXCEPT !.qty = ns[i].qty - qty]
        /\ \A j \in Index \ {i} : us[j] = ns[j]
        /\ Elsewhere(n.levels, m.levels, side, p)
        /\ p \in DOMAIN n.levels[side]
        /\ n.levels[side][p] = SubtractQty(l, qty)
    BY <1>1, Zenon DEF Reduced
  <1>3. /\ l \in Level /\ IsBlock(ns) /\ ns \in Nodes /\ QueueOn(l, ns, S)
        /\ p \in Prices
    BY BookBlock DEF Orderly
  <1>4. i \in S /\ i \in Index /\ S \subseteq Index
    BY HeadPlaced, PlacedFacts, Zenon
  <1>5. LevelQueue(m, side, p, q, e)
    BY LevelQueueIs
  <1>6. QueueOf(SubtractQty(l, qty), us) = q
    <2>1. i \in S
      BY <1>4
    <2> HIDE DEF l, i, ns, us, S
    <2>2. QueueOf(SubtractQty(l, qty), [ns EXCEPT ![i].qty = ns[i].qty - qty])
            = QueueOf(l, ns)
      BY <1>3, <2>1, QueueReduce
    <2>3. us = [ns EXCEPT ![i].qty = ns[i].qty - qty]
      BY <1>2
    <2> HIDE DEF q
    <2> QED BY <2>2, <2>3 DEF q
  <1>7. Queues(n)[side][p] = Entries(us, q)
    <2>1. Queues(n)[side][p] = Entries(us, QueueOf(n.levels[side][p], us))
      BY <1>2, <1>3, QueuesAt, ZenonT(40)
    <2> HIDE DEF us, q, l
    <2> QED BY <1>2, <1>6, <2>1
  <1> HIDE DEF q, e, l, i
  <1>8. /\ Len(q) \in Nat /\ Len(q) > 0 /\ DOMAIN q = 1 .. Len(q) /\ q[1] = i
        /\ e = Entries(ns, q) /\ DOMAIN e = 1 .. Len(q)
        /\ \A k \in 1 .. Len(q) : q[k] \in S
        /\ \A k \in 1 .. Len(q) : e[k] = Entry(ns[q[k]])
    BY <1>5, Zenon DEF LevelQueue, i, l
  <1>9. \A j, g \in 1 .. Len(q) : q[j] = q[g] => j = g
    <2> HIDE DEF ns, S
    <2> QED BY <1>3, QueueFacts DEF q
  <1>10. Entry(us[i]) = [e[1] EXCEPT !.qty = e[1].qty - qty]
    <2>1. e[1] = Entry(ns[i]) /\ 1 \in 1 .. Len(q)
      BY <1>8
    <2>2. ns[i] \in BookNode
      BY <1>3, <1>4 DEF Nodes
    <2>3. us[i].qty = ns[i].qty - qty /\ us[i].order_id = ns[i].order_id
          /\ us[i].user_id = ns[i].user_id
      BY <1>2, <2>2 DEF BookNode, NodeType
    <2> HIDE DEF us, ns
    <2> QED BY <2>1, <2>3 DEF Entry
  <1>11. Entries(us, q) = f
    <2>1. f = [k \in 1 .. Len(q) |->
                 IF k = 1 THEN [e[1] EXCEPT !.qty = e[1].qty - qty] ELSE e[k]]
      BY <1>8, Zenon
    <2>2. Entries(us, q) = [k \in 1 .. Len(q) |-> Entry(us[q[k]])]
      BY <1>8 DEF Entries
    <2>3. ASSUME NEW k \in 1 .. Len(q)
          PROVE  Entry(us[q[k]]) =
                   IF k = 1 THEN [e[1] EXCEPT !.qty = e[1].qty - qty] ELSE e[k]
      <3>1. CASE k = 1
        BY <1>8, <1>10, <3>1
      <3>2. CASE k # 1
        <4>1. q[k] \in Index /\ q[k] # i
          BY <1>4, <1>8, <1>9, <3>2
        <4>2. us[q[k]] = ns[q[k]]
          BY <1>2, <4>1
        <4> QED BY <1>8, <3>2, <4>2
      <3> QED BY <3>1, <3>2
    <2> HIDE DEF f, us
    <2> QED BY <2>1, <2>2, <2>3
  <1>12. ASSUME NEW s \in Sides, NEW x \in Prices, s # side \/ x # p
         PROVE  Queues(n)[s][x] = Queues(m)[s][x]
    <2>1. \A j \in Placed(m, s, x) : j \in Index /\ j \notin S
      BY <1>12, PlacedApart
    <2>2. \A j \in Placed(m, s, x) : us[j] = ns[j]
      BY <1>2, <1>4, <2>1
    <2>3. Untouched(n, m, s, x)
      BY <1>2, <1>12, <2>2 DEF Untouched, Elsewhere
    <2> QED BY <2>3, OtherQueue DEF SameQueue
  <1>13. IsBook(Queues(m)) /\ IsBook(Queues(n))
    BY QueuesBook
  <1>14. Queues(n)[side][p] = f
    BY <1>7, <1>11
  <1> HIDE DEF f
  <1>15. Queues(n) = [Queues(m) EXCEPT ![side][p] = f]
    BY <1>3, <1>12, <1>13, <1>14, BookBut
  <1> QED BY <1>15 DEF n, e, f

LEMMA RestQueues ==
  ASSUME NEW m, MatcherType(m), Orderly(m), NEW order \in PlaceOrder,
         NEW qty \in U32, ~IsFull(m.arena),
         order.order_id \notin DOMAIN m.order_map
  PROVE  LET n == RestOrder(m, order, qty)
             e == Queues(m)[order.side][order.price]
         IN  Queues(n) = [Queues(m) EXCEPT ![order.side][order.price] =
                Append(e, [order_id |-> order.order_id,
                           user_id |-> order.user_id, qty |-> qty])]
  <1> DEFINE n == RestOrder(m, order, qty)
             side == order.side
             p == order.price
             i == m.arena.free_head
             e == Queues(m)[side][p]
             ns == m.arena.nodes
             us == n.arena.nodes
             S == Placed(m, side, p)
             new == [order_id |-> order.order_id, user_id |-> order.user_id,
                     qty |-> qty]
             q == IF p \in DOMAIN m.levels[side]
                  THEN QueueOf(m.levels[side][p], ns) ELSE <<>>
  <1>1. Rested(n, m, order, qty)
    BY RestEffect
  <1> HIDE DEF n
  <1>2. /\ Elsewhere(n.levels, m.levels, side, p)
        /\ DOMAIN n.levels[side] = DOMAIN m.levels[side] \cup {p}
        /\ QueueOf(n.levels[side][p], us) = Append(q, i)
        /\ \A j \in Index \ (S \cup {i}) : us[j] = ns[j]
        /\ \A j \in Index \ {i} : Data(us[j]) = Data(ns[j])
        /\ Data(us[i]) = <<p, qty, order.order_id, order.user_id>>
    BY <1>1, Zenon DEF Rested
  <1>3. side \in Sides /\ p \in Prices
    BY DEF PlaceOrder
  <1>4. i \in Index /\ \A s, x : i \notin Placed(m, s, x)
    BY FreeNotPlaced
  <1>5. /\ q \in Seq(Index) /\ Len(q) \in Nat /\ DOMAIN q = 1 .. Len(q)
        /\ e = Entries(ns, q)
        /\ e \in Seq(OrderEntry) /\ Len(e) = Len(q)
        /\ \A k \in 1 .. Len(q) : q[k] \in S
    <2>1. CASE p \in DOMAIN m.levels[side]
      <3>1. LevelQueue(m, side, p, q, e)
        <4> HIDE DEF side, p
        <4> QED BY <1>3, <2>1, LevelQueueIs
      <3> HIDE DEF q, e
      <3> QED BY <3>1 DEF LevelQueue
    <2>2. CASE p \notin DOMAIN m.levels[side]
      <3>1. q = <<>> /\ e = <<>>
        BY <1>3, <2>2, QueuesAt
      <3> HIDE DEF q, e
      <3> QED BY <3>1 DEF Entries
    <2> QED BY <2>1, <2>2, SMTT(30)
  <1> HIDE DEF side, p, i, q, e, S
  <1>6. Queues(n)[side][p] = Entries(us, Append(q, i))
    <2>1. p \in DOMAIN n.levels[side]
      BY <1>2
    <2>2. Queues(n)[side][p] = Entries(us, QueueOf(n.levels[side][p], us))
      BY <1>3, <2>1, QueuesAt
    <2> QED BY <1>2, <2>2
  <1>7. Entry(us[i]) = new
    BY <1>2 DEF Data, Entry
  <1>8. Entries(us, Append(q, i)) = Append(e, new)
    <2> DEFINE g == Append(q, i)
               f == Append(e, new)
    <2>1. /\ Len(g) = Len(q) + 1 /\ DOMAIN g = 1 .. Len(q) + 1
          /\ g[Len(q) + 1] = i /\ \A k \in 1 .. Len(q) : g[k] = q[k]
      BY <1>4, <1>5, AppendProperties
    <2>2. f = [k \in 1 .. Len(q) + 1 |-> IF k = Len(q) + 1 THEN new ELSE e[k]]
      BY <1>5
    <2>3. Entries(us, g) = [k \in 1 .. Len(q) + 1 |-> Entry(us[g[k]])]
      BY <2>1 DEF Entries
    <2> HIDE DEF f, g, new
    <2>4. ASSUME NEW k \in 1 .. Len(q) + 1
          PROVE  Entry(us[g[k]]) = IF k = Len(q) + 1 THEN new ELSE e[k]
      <3>1. CASE k = Len(q) + 1
        BY <1>7, <2>1, <3>1
      <3>2. CASE k # Len(q) + 1
        <4>1. k \in 1 .. Len(q)
          BY <1>5, <3>2
        <4>2. q[k] \in Index /\ q[k] # i
          <5>1. q[k] \in S
            BY <1>5, <4>1
          <5> QED BY <1>4, <1>5, <4>1, <5>1, ElementOfSeq DEF S
        <4>3. Data(us[q[k]]) = Data(ns[q[k]])
          BY <1>2, <4>2
        <4>4. e[k] = Entry(ns[q[k]])
          BY <1>5, <4>1 DEF Entries
        <4> QED BY <2>1, <3>2, <4>1, <4>3, <4>4, DataEntry
      <3> QED BY <3>1, <3>2
    <2>5. Entries(us, g) = f
      BY <2>2, <2>3, <2>4
    <2> QED BY <2>5 DEF f, g
  <1>9. ASSUME NEW s \in Sides, NEW x \in Prices, s # side \/ x # p
        PROVE  Queues(n)[s][x] = Queues(m)[s][x]
    <2>1. \A j \in Placed(m, s, x) : j \in Index /\ j \notin S
      BY <1>9, PlacedApart, Zenon DEF S
    <2>2. \A j \in Placed(m, s, x) : us[j] = ns[j]
      BY <1>2, <1>4, <2>1
    <2>3. Untouched(n, m, s, x)
      BY <1>2, <1>9, <2>2 DEF Untouched, Elsewhere
    <2> QED BY <2>3, OtherQueue DEF SameQueue
  <1>10. IsBook(Queues(m)) /\ IsBook(Queues(n))
    BY QueuesBook
  <1>11. Queues(n)[side][p] = Append(e, new)
    BY <1>6, <1>8
  <1> HIDE DEF new
  <1>12. Queues(n) = [Queues(m) EXCEPT ![side][p] = Append(e, new)]
    BY <1>3, <1>9, <1>10, <1>11, BookBut
  <1> QED BY <1>12 DEF n, e, side, p, new

LEMMA NoQueues == Queues(NewMatcher) = [side \in Sides |-> [p \in Prices |-> <<>>]]
  <1>1. \A s \in Sides : DOMAIN NewMatcher.levels[s] = {}
    BY DEF NewMatcher
  <1> HIDE DEF NewMatcher
  <1> QED BY <1>1 DEF Queues

-----------------------------------------------------------------------------
(* The trades among events.                                                *)

\* What the k-th place of TradesOf's table is when g has those before it.
TradesTo(g, events, k) ==
  IF k = 0 THEN <<>>
  ELSE IF events[k].kind = "Trade" THEN Append(g[k - 1], events[k])
  ELSE g[k - 1]

TradesTable(g, events, n) == g = [k \in 0 .. n |-> TradesTo(g, events, k)]

LEMMA TradesTableIs ==
  ASSUME NEW events, Len(events) \in Nat
  PROVE  \E g : /\ TradesTable(g, events, Len(events))
                /\ TradesOf(events) = g[Len(events)]
  <1> DEFINE N == {n \in Nat : \E g : TradesTable(g, events, n)}
  <1>1. 0 \in N
    <2> DEFINE g == [k \in 0 .. 0 |-> <<>>]
    <2>1. \A k \in 0 .. 0 : TradesTo(g, events, k) = <<>>
      BY DEF TradesTo
    <2>2. TradesTable(g, events, 0)
      BY <2>1 DEF TradesTable
    <2> HIDE DEF g
    <2> QED BY <2>2
  <1>2. ASSUME NEW n \in Nat, n \in N PROVE n + 1 \in N
    <2>1. PICK g : TradesTable(g, events, n)
      BY <1>2
    <2> DEFINE h == [k \in 0 .. n + 1 |-> TradesTo(g, events, k)]
    <2>2. \A k \in 0 .. n : h[k] = g[k]
      BY <2>1 DEF TradesTable
    <2>3. \A k \in 0 .. n + 1 : TradesTo(h, events, k) = TradesTo(g, events, k)
      <3>1. \A k \in 0 .. n + 1 : k # 0 => k - 1 \in 0 .. n
        OBVIOUS
      <3> HIDE DEF h
      <3> QED BY <2>2, <3>1 DEF TradesTo
    <2>4. TradesTable(h, events, n + 1)
      <3>1. h = [k \in 0 .. n + 1 |-> TradesTo(g, events, k)]
        OBVIOUS
      <3> HIDE DEF h
      <3> QED BY <2>3, <3>1 DEF TradesTable
    <2> HIDE DEF h
    <2> QED BY <2>4
  <1>3. Len(events) \in N
    <2> HIDE DEF N
    <2> QED BY <1>1, <1>2, NatInduct
  <1> DEFINE at == CHOOSE g : TradesTable(g, events, Len(events))
  <1>4. TradesTable(at, events, Len(events))
    BY <1>3
  <1>5. TradesOf(events) = at[Len(events)]
    BY DEF TradesOf, TradesTable, TradesTo
  <1> HIDE DEF at
  <1> QED BY <1>4, <1>5

LEMMA TradesTablesAgree ==
  ASSUME NEW s, NEW t, NEW m \in Nat, NEW n \in Nat, m <= n,
         \A k \in 1 .. m : s[k] = t[k],
         NEW g, TradesTable(g, s, m), NEW h, TradesTable(h, t, n)
  PROVE  \A k \in 0 .. m : g[k] = h[k]
  <1> DEFINE N == {k \in Nat : k <= m => g[k] = h[k]}
  <1>1. \A k \in 0 .. m : g[k] = TradesTo(g, s, k)
    BY Zenon DEF TradesTable
  <1>2. \A k \in 0 .. m : h[k] = TradesTo(h, t, k)
    BY DEF TradesTable
  <1>3. 0 \in N
    BY <1>1, <1>2 DEF TradesTo
  <1>4. ASSUME NEW k \in Nat, k \in N PROVE k + 1 \in N
    <2> SUFFICES ASSUME k + 1 <= m PROVE g[k + 1] = h[k + 1]
      OBVIOUS
    <2>1. g[k] = h[k] /\ k + 1 \in 0 .. m /\ k + 1 # 0 /\ k + 1 - 1 = k
          /\ s[k + 1] = t[k + 1]
      BY <1>4
    <2>2. g[k + 1] = TradesTo(g, s, k + 1) /\ h[k + 1] = TradesTo(h, t, k + 1)
      BY <1>1, <1>2, <2>1
    <2> QED BY <2>1, <2>2 DEF TradesTo
  <1>5. \A k \in Nat : k \in N
    <2> HIDE DEF N
    <2> QED BY <1>3, <1>4, NatInduct
  <1> QED BY <1>5

LEMMA NoTrades == TradesOf(<<>>) = <<>>
  <1>1. Len(<<>>) = 0
    OBVIOUS
  <1>2. PICK g : TradesTable(g, <<>>, 0) /\ TradesOf(<<>>) = g[0]
    BY <1>1, TradesTableIs
  <1> QED BY <1>2 DEF TradesTable, TradesTo

LEMMA TradesAppend ==
  ASSUME NEW S, NEW s \in Seq(S), NEW x \in S
  PROVE  TradesOf(Append(s, x)) =
           IF x.kind = "Trade" THEN Append(TradesOf(s), x) ELSE TradesOf(s)
  <1> DEFINE t == Append(s, x)
             n == Len(s)
  <1>1. n \in Nat /\ Len(t) = n + 1 /\ t[n + 1] = x /\ \A k \in 1 .. n : s[k] = t[k]
    BY LenProperties, AppendProperties
  <1>2. PICK g : TradesTable(g, s, n) /\ TradesOf(s) = g[n]
    BY <1>1, TradesTableIs
  <1> HIDE DEF t, n
  <1>3. PICK h : TradesTable(h, t, n + 1) /\ TradesOf(t) = h[n + 1]
    BY <1>1, TradesTableIs
  <1>4. g[n] = h[n]
    BY <1>1, <1>2, <1>3, TradesTablesAgree
  <1>5. h[n + 1] = IF x.kind = "Trade" THEN Append(h[n], x) ELSE h[n]
    <2>1. n + 1 \in 0 .. n + 1 /\ n + 1 # 0 /\ n + 1 - 1 = n
      BY <1>1
    <2>2. h[n + 1] = TradesTo(h, t, n + 1)
      BY <1>3, <2>1 DEF TradesTable
    <2> QED BY <1>1, <2>1, <2>2 DEF TradesTo
  <1> QED BY <1>2, <1>3, <1>4, <1>5 DEF t

-----------------------------------------------------------------------------
(* Seats: the places of the queues of a book.                              *)

\* The k-th order of the queue at a price of a side.
Seat(m, side, p, k) == side \in Sides /\ p \in Prices /\ k \in DOMAIN Queues(m)[side][p]

LEMMA SeatIs ==
  ASSUME NEW m, MatcherType(m), Orderly(m), NEW side, NEW p, NEW k,
         Seat(m, side, p, k)
  PROVE  LET r == Queues(m)[side][p][k]
         IN  /\ p \in DOMAIN m.levels[side]
             /\ k \in 1 .. Len(Queues(m)[side][p])
             /\ r \in OrderEntry /\ r.qty > 0
             /\ r.order_id \in DOMAIN m.order_map
             /\ m.order_map[r.order_id].side = side
             /\ m.order_map[r.order_id].price = p
             /\ m.order_map[r.order_id].user_id = r.user_id
             /\ \A j \in DOMAIN Queues(m)[side][p] :
                  Queues(m)[side][p][j].order_id = r.order_id => j = k
  <1> DEFINE e == Queues(m)[side][p]
             q == QueueOf(m.levels[side][p], m.arena.nodes)
  <1>1. side \in Sides /\ p \in Prices /\ k \in DOMAIN e
    BY DEF Seat
  <1>2. p \in DOMAIN m.levels[side]
    <2>1. CASE p \notin DOMAIN m.levels[side]
      <3>1. e = <<>>
        BY <1>1, <2>1, QueuesAt
      <3> HIDE DEF e
      <3> QED BY <1>1, <3>1
    <2> QED BY <2>1
  <1>3. LevelQueue(m, side, p, q, e)
    BY <1>1, <1>2, LevelQueueIs
  <1> HIDE DEF q, e
  <1>4. /\ e \in Seq(OrderEntry) /\ Len(e) = Len(q) /\ DOMAIN e = 1 .. Len(q)
        /\ k \in 1 .. Len(q)
    BY <1>1, <1>3, SMTT(30) DEF LevelQueue
  <1>5. /\ e[k].qty > 0
        /\ e[k].order_id \in DOMAIN m.order_map
        /\ m.order_map[e[k].order_id].side = side
        /\ m.order_map[e[k].order_id].price = p
        /\ m.order_map[e[k].order_id].user_id = e[k].user_id
    BY <1>3, <1>4, SMTT(30) DEF LevelQueue
  <1>6. \A j \in DOMAIN e : e[j].order_id = e[k].order_id => j = k
    BY <1>3, <1>4 DEF LevelQueue
  <1>7. e[k] \in OrderEntry
    BY <1>4, ElementOfSeq
  <1> QED BY <1>2, <1>4, <1>5, <1>6, <1>7 DEF e

\* Every order that rests has a seat.
LEMMA HasSeat ==
  ASSUME NEW m, MatcherType(m), Orderly(m), NEW id \in DOMAIN m.order_map
  PROVE  \E k : /\ Seat(m, m.order_map[id].side, m.order_map[id].price, k)
                /\ Queues(m)[m.order_map[id].side][m.order_map[id].price][k].order_id
                     = id
  <1> DEFINE side == m.order_map[id].side
             p == m.order_map[id].price
             q == QueueOf(m.levels[side][p], m.arena.nodes)
             e == Queues(m)[side][p]
  <1>1. side \in Sides /\ p \in Prices /\ LevelQueue(m, side, p, q, e)
        /\ \E k \in 1 .. Len(q) : e[k].order_id = id
    BY SeatOf
  <1> HIDE DEF q, e, side, p
  <1>2. PICK k \in 1 .. Len(q) : e[k].order_id = id
    BY <1>1, SMTT(30)
  <1>3. k \in DOMAIN e
    BY <1>1 DEF LevelQueue
  <1>4. Seat(m, side, p, k)
    BY <1>1, <1>3 DEF Seat, e
  <1> QED BY <1>2, <1>4, SMTT(30) DEF e, side, p

LEMMA RestingIs ==
  ASSUME NEW m, NEW side \in Sides, NEW r
  PROVE  r \in Reference!Resting(Queues(m), side) <=>
           \E p, k : Seat(m, side, p, k) /\ r = Queues(m)[side][p][k]
  BY DEF Reference!Resting, Seat

\* The ids of the book are those of the map.
LEMMA IdsAre ==
  ASSUME NEW m, MatcherType(m), Orderly(m)
  PROVE  Reference!IdsIn(Queues(m)) = DOMAIN m.order_map
  <1> DEFINE b == Queues(m)
             I == Reference!IdsIn(b)
  <1>1. \A id : id \in I <=> \E side \in Sides : \E r \in Reference!Resting(b, side) :
                               r.order_id = id
    BY DEF Reference!IdsIn, Reference!Sides, Sides
  <1> HIDE DEF I
  <1>2. ASSUME NEW id \in I PROVE id \in DOMAIN m.order_map
    <2>0. PICK side \in Sides :
            \E r \in Reference!Resting(b, side) : r.order_id = id
      BY <1>1
    <2>1. PICK r \in Reference!Resting(b, side) : r.order_id = id
      BY <2>0
    <2>2. PICK p, k : Seat(m, side, p, k) /\ r = b[side][p][k]
      BY RestingIs
    <2> QED BY <2>1, <2>2, SeatIs
  <1>3. ASSUME NEW id \in DOMAIN m.order_map PROVE id \in I
    <2> DEFINE side == m.order_map[id].side
               p == m.order_map[id].price
    <2>1. PICK k : Seat(m, side, p, k) /\ b[side][p][k].order_id = id
      BY HasSeat
    <2>2. side \in Sides /\ b[side][p][k] \in Reference!Resting(b, side)
      <3> HIDE DEF side, p
      <3> QED BY <2>1, RestingIs DEF Seat
    <2> QED BY <1>1, <2>1, <2>2
  <1>4. I = DOMAIN m.order_map
    BY <1>2, <1>3
  <1> QED BY <1>4 DEF I

\* The arena is full when as many orders rest as there are nodes.
LEMMA FullIs ==
  ASSUME NEW m, MatcherType(m), Orderly(m)
  PROVE  IsFull(m.arena) <=> Cardinality(DOMAIN m.order_map) = Capacity
  <1> DEFINE D == DOMAIN m.order_map
             U == InUse(m)
             f == [x \in D |-> m.order_map[x].arena_index]
  <1>1. IsFull(m.arena) <=> Index \ U = {}
    <2>1. FreeListOf(m.arena, Index \ U) /\ Index \ U \subseteq Index
      BY DEF Orderly
    <2> HIDE DEF U
    <2> QED BY <2>1, FullIffNoneFree
  <1>2. U \subseteq Index
    BY InUseIndex
  <1>3. IsFiniteSet(D) /\ \A x, y \in D : f[x] = f[y] => x = y
    BY OrderlyMap
  <1>4. \A x \in D : f[x] \in U
    BY DEF InUse
  <1>5. \A i \in U : \E x \in D : f[x] = i
    BY DEF InUse
  <1> HIDE DEF D, U
  <1>6. f \in Bijection(D, U)
    <2> HIDE DEF f
    <2>1. f \in [D -> U]
      BY <1>4 DEF f
    <2> QED BY <1>3, <1>5, <2>1 DEF Bijection, Injection, Surjection, IsInjective
  <1>7. Cardinality(U) = Cardinality(D)
    BY <1>3, <1>6, FS_Bijection DEF ExistsBijection
  <1>8. IsFiniteSet(Index) /\ Cardinality(Index) = Capacity
    BY IndexFinite
  <1>9. Cardinality(U) = Capacity <=> U = Index
    BY <1>2, <1>8, FS_Subset
  <1> QED BY <1>1, <1>2, <1>7, <1>9, Zenon DEF D

\* The order with that id leaves its queue; what the naive book does.
LEMMA CancelIsWithout ==
  ASSUME NEW m, MatcherType(m), Orderly(m), NEW id \in DOMAIN m.order_map
  PROVE  Queues(CancelOrder(m, id)) = Reference!Without(Queues(m), id)
  <1> DEFINE n == CancelOrder(m, id)
             b == Queues(m)
             c == Queues(n)
             w == Reference!Without(b, id)
             s0 == m.order_map[id].side
             p0 == m.order_map[id].price
             q == QueueOf(m.levels[s0][p0], m.arena.nodes)
             e == b[s0][p0]
  <1>1. /\ \E k \in 1 .. Len(q) : e[k].order_id = id /\ c[s0][p0] = Without(e, k)
        /\ \A s \in Sides, x \in Prices : s # s0 \/ x # p0 => SameQueue(n, m, s, x)
    BY CancelQueues, SMTT(30)
  <1>2. s0 \in Sides /\ p0 \in Prices /\ LevelQueue(m, s0, p0, q, e)
    BY SeatOf
  <1>3. IsBook(c) /\ IsBook(w)
        /\ \A s \in Sides, x \in Prices : w[s][x] = Reference!Skip(b[s][x], id)
    BY QueuesBook DEF Reference!Without, Reference!Sides, Sides, IsBook
  <1> HIDE DEF n, c, w, q, e
  <1>4. PICK k \in 1 .. Len(q) : e[k].order_id = id /\ c[s0][p0] = Without(e, k)
    BY <1>1
  <1>5. e \in Seq(OrderEntry) /\ k \in 1 .. Len(e) /\ k \in DOMAIN e
    BY <1>2, Zenon DEF LevelQueue
  <1>6. Reference!Skip(e, id) = Without(e, k)
    <2> DEFINE g == CHOOSE j \in DOMAIN e : e[j].order_id = id
    <2>1. g \in DOMAIN e /\ e[g].order_id = id
      BY <1>4, <1>5
    <2> HIDE DEF g
    <2>2. g = k
      BY <1>2, <1>4, <1>5, <2>1, ZenonT(40) DEF LevelQueue
    <2>3. Reference!Skip(e, id) = Reference!RemoveAt(e, g)
      BY <1>4, <1>5 DEF Reference!Skip, g
    <2> QED BY <1>5, <2>2, <2>3, RemoveAtIs
  <1>7. ASSUME NEW s \in Sides, NEW x \in Prices PROVE w[s][x] = c[s][x]
    <2>1. CASE s = s0 /\ x = p0
      BY <1>3, <1>4, <1>6, <2>1 DEF e
    <2>2. CASE s # s0 \/ x # p0
      <3>1. c[s][x] = b[s][x]
        BY <1>1, <2>2 DEF SameQueue, c
      <3>2. ASSUME NEW j \in DOMAIN b[s][x] PROVE b[s][x][j].order_id # id
        <4>1. Seat(m, s, x, j)
          BY <3>2 DEF Seat
        <4> HIDE DEF b
        <4>2. /\ m.order_map[b[s][x][j].order_id].side = s
              /\ m.order_map[b[s][x][j].order_id].price = x
          BY <4>1, SeatIs DEF b
        <4> QED BY <2>2, <4>2
      <3>3. Reference!Skip(b[s][x], id) = b[s][x]
        <4> HIDE DEF b
        <4> QED BY <3>2 DEF Reference!Skip
      <3> QED BY <1>3, <3>1, <3>3
    <2> QED BY <2>1, <2>2
  <1> HIDE DEF b
  <1>8. w = c
    BY <1>3, <1>7, EqualBooks
  <1> QED BY <1>8, SMTT(30) DEF b, c, n, w

-----------------------------------------------------------------------------
(* The steps of the engine as steps of the naive book.                     *)

\* Both books speak of the same orders, sides and events.
LEMMA SameCommand ==
  /\ Reference!Sides = Sides /\ Reference!PlaceOrder = PlaceOrder
  /\ \A side : Reference!Opposite(side) = Opposite(side)
  /\ \A a, b : Reference!Lesser(a, b) = Lesser(a, b)
  /\ \A price, qty, a, b :
       Reference!TradeEvent(price, qty, a, b) = TradeEvent(price, qty, a, b)
  BY DEF Reference!Sides, Sides, Reference!PlaceOrder, PlaceOrder,
         Reference!OrderTypes, OrderTypes, Reference!Opposite, Opposite,
         Reference!Lesser, Lesser, Reference!TradeEvent, TradeEvent

LEMMA QueuesNext == Queues(matcher)' = Queues(matcher')
  BY DEF Queues

LEMMA TradesNext == Trades' = TradesOf(event_buffer')
  BY DEF Trades

LEMMA OneNoTrade ==
  ASSUME NEW x, x.kind # "Trade"
  PROVE  TradesOf(<<x>>) = <<>>
  <1>1. Append(<<>>, x) = <<x>> /\ <<>> \in Seq({x})
    OBVIOUS
  <1>2. TradesOf(Append(<<>>, x)) = TradesOf(<<>>)
    BY <1>1, TradesAppend, Zenon
  <1> QED BY <1>1, <1>2, NoTrades

\* Two events of which the second is no trade.
LEMMA TradesTwo ==
  ASSUME NEW S, NEW s \in Seq(S), NEW a \in S, NEW b \in S, b.kind # "Trade"
  PROVE  TradesOf(s \o <<a, b>>) =
           IF a.kind = "Trade" THEN Append(TradesOf(s), a) ELSE TradesOf(s)
  <1>1. s \o <<a, b>> = Append(Append(s, a), b)
    OBVIOUS
  <1>2. Append(s, a) \in Seq(S)
    OBVIOUS
  <1>3. TradesOf(Append(Append(s, a), b)) = TradesOf(Append(s, a))
    BY <1>2, TradesAppend, Zenon
  <1> QED BY <1>1, <1>3, TradesAppend, Zenon

LEMMA TwoNoTrades ==
  ASSUME NEW a, NEW b, a.kind # "Trade", b.kind # "Trade"
  PROVE  TradesOf(<<a, b>>) = <<>>
  <1> DEFINE s == <<>>
  <1>1. s \o <<a, b>> = <<a, b>> /\ s \in Seq({a, b})
    OBVIOUS
  <1>2. TradesOf(s) = <<>>
    BY NoTrades
  <1> HIDE DEF s
  <1>3. TradesOf(s \o <<a, b>>) = TradesOf(s)
    BY <1>1, TradesTwo
  <1> QED BY <1>1, <1>2, <1>3, Zenon

LEMMA CancelNoTrades ==
  ASSUME NEW m, NEW id
  PROVE  TradesOf(CancelEvents(m, id)) = <<>>
  <1> DEFINE info == m.order_map[id]
             a == OrderCanceled(id, m.arena.nodes[info.arena_index].qty)
             d == DepthAt(CancelOrder(m, id), info.side, info.price)
             b == BookUpdate(info.side, info.price, d)
  <1>1. CancelEvents(m, id) = <<a, b>>
    BY DEF CancelEvents
  <1>2. a.kind # "Trade"
    BY DEF OrderCanceled
  <1>3. b.kind # "Trade"
    BY DEF BookUpdate
  <1> HIDE DEF a, b
  <1> QED BY <1>1, <1>2, <1>3, TwoNoTrades

\* A command that begins with a book m, in which its order may be placed or
\* not.
LEMMA BeginSteps ==
  ASSUME NEW m, MatcherType(m), Orderly(m), NEW order \in PlaceOrder,
         NEW events \in Seq(Event), TradesOf(events) = <<>>,
         ProcessPlace(m, order, events)
  PROVE  Reference!Begin(Queues(m), order) \/ Reference!EndAtOnce(Queues(m))
  <1>1. Queues(matcher)' = Queues(m)
    BY QueuesNext DEF ProcessPlace
  <1>2. CASE Rejection(m, order) # "none"
    <2> DEFINE x == OrderRejected(order.order_id, Rejection(m, order))
    <2>1. event_buffer' = Append(events, x) /\ UNCHANGED place
      BY <1>2 DEF ProcessPlace
    <2>2. x \in Event /\ x.kind = "Rejected"
      <3>1. order.order_id \in OrderIds
        BY DEF PlaceOrder
      <3>2. Rejection(m, order) \in
              {"DuplicateOrderId", "OrderNotFound", "ArenaFull",
               "InvalidQuantity", "InsufficientLiquidity"}
        BY <1>2 DEF Rejection
      <3> QED BY <3>1, <3>2, RejectedType
    <2> HIDE DEF x
    <2>3. Trades' = <<>>
      BY <2>1, <2>2, TradesNext, TradesAppend
    <2> QED BY <1>1, <2>1, <2>3 DEF Reference!EndAtOnce, place
  <1>3. CASE Rejection(m, order) = "none"
    <2>1. event_buffer' = events /\ taker' = order /\ remaining_qty' = order.qty
      BY <1>3 DEF ProcessPlace
    <2>2. Trades' = <<>>
      BY <2>1, TradesNext
    <2>3. order.order_id \notin Reference!IdsIn(Queues(m))
      BY <1>3, IdsAre DEF Rejection
    <2>4. order.qty \in Nat /\ order.qty # 0
      <3>1. order.qty \in Qtys
        BY DEF PlaceOrder
      <3>2. order.qty \in Nat
        <4>1. U32 \subseteq Nat
          BY WordAssumption DEF U32
        <4>2. Qtys \subseteq U32
          BY CommandAssumption
        <4> QED BY <3>1, <4>1, <4>2, Zenon
      <3>3. order.qty # 0
        BY <1>3 DEF Rejection
      <3> QED BY <3>2, <3>3
    <2> QED BY <1>1, <2>1, <2>2, <2>3, <2>4 DEF Reference!Begin
  <1> QED BY <1>2, <1>3

LEMMA IdleTaker ==
  ASSUME IInv
  PROVE  pc = "idle" <=> taker = NoOrder
  BY NoOrderAssumption DEF IInv, TypeOK

LEMMA PlaceSteps ==
  ASSUME IInv, BookInv, NEW order \in PlaceOrder, Place(order)
  PROVE  Reference!Next
  <1>1. taker = NoOrder /\ MatcherType(matcher) /\ Orderly(matcher)
    BY IdleTaker DEF Place, IInv, TypeOK, BookInv
  <1>2. <<>> \in Seq(Event) /\ TradesOf(<<>>) = <<>>
    BY NoTrades
  <1>3. \/ Reference!Begin(Queues(matcher), order)
        \/ Reference!EndAtOnce(Queues(matcher))
    BY <1>1, <1>2, BeginSteps, Zenon DEF Place
  <1> QED BY <1>1, <1>3, SameCommand DEF Reference!Next, Reference!Place

LEMMA NotFoundSteps ==
  ASSUME IInv, NEW id, pc = "idle", event_buffer' = NotFoundEvents(id),
         UNCHANGED <<matcher, place>>
  PROVE  Reference!Next
  <1> DEFINE x == OrderRejected(id, "OrderNotFound")
  <1>1. x.kind # "Trade" /\ event_buffer' = <<x>>
    BY DEF NotFoundEvents, OrderRejected
  <1> HIDE DEF x
  <1>2. Trades' = <<>>
    BY <1>1, TradesNext, OneNoTrade
  <1>3. Queues(matcher)' = Queues(matcher)
    BY QueuesNext
  <1> QED BY <1>2, <1>3, IdleTaker DEF Reference!Next, Reference!EndAtOnce, place

LEMMA CancelSteps ==
  ASSUME IInv, BookInv, NEW id \in OrderIds, Cancel(id)
  PROVE  Reference!Next
  <1>1. pc = "idle" /\ taker = NoOrder /\ MatcherType(matcher) /\ Orderly(matcher)
    BY IdleTaker DEF Cancel, IInv, TypeOK, BookInv
  <1>2. CASE id \in DOMAIN matcher.order_map
    <2>1. /\ matcher' = CancelOrder(matcher, id)
          /\ event_buffer' = CancelEvents(matcher, id)
          /\ UNCHANGED place
      BY <1>2 DEF Cancel
    <2>2. Queues(matcher)' = Reference!Without(Queues(matcher), id)
      BY <1>1, <1>2, <2>1, QueuesNext, CancelIsWithout
    <2>3. Trades' = <<>>
      BY <2>1, TradesNext, CancelNoTrades
    <2>4. Reference!Cancel(id)
      BY <2>1, <2>2, <2>3 DEF Reference!Cancel, Reference!EndAtOnce, place
    <2> QED BY <1>1, <2>4 DEF Reference!Next
  <1>3. CASE id \notin DOMAIN matcher.order_map
    BY <1>1, <1>3, NotFoundSteps DEF Cancel
  <1> QED BY <1>2, <1>3

\* What takes the place of an order has its side and user.
LEMMA ReplacementOf ==
  ASSUME NEW m, MatcherType(m), Orderly(m), NEW id \in DOMAIN m.order_map,
         NEW new, new.side = m.order_map[id].side,
         new.user_id = m.order_map[id].user_id
  PROVE  \E r \in Reference!Resting(Queues(m), new.side) :
           r.order_id = id /\ r.user_id = new.user_id
  <1> DEFINE info == m.order_map[id]
  <1>1. PICK k : /\ Seat(m, info.side, info.price, k)
                 /\ Queues(m)[info.side][info.price][k].order_id = id
    BY HasSeat, SMTT(30)
  <1> DEFINE r == Queues(m)[info.side][info.price][k]
  <1>2. r.order_id = id /\ m.order_map[r.order_id].user_id = r.user_id
    BY <1>1, SeatIs
  <1>3. r \in Reference!Resting(Queues(m), info.side)
    BY <1>1, RestingIs DEF Seat
  <1> HIDE DEF r
  <1> QED BY <1>2, <1>3

LEMMA ModifySteps ==
  ASSUME IInv, BookInv,
         NEW modify \in [kind : {"Modify"}, order_id : OrderIds,
                         new_order_id : OrderIds, new_price : Prices,
                         new_qty : Qtys],
         Modify(modify)
  PROVE  Reference!Next
  <1> DEFINE id == modify.order_id
             new == Replacement(matcher.order_map[id], modify)
             m == CancelOrder(matcher, id)
             events == CancelEvents(matcher, id)
  <1>1. pc = "idle" /\ taker = NoOrder /\ MatcherType(matcher) /\ Orderly(matcher)
    BY IdleTaker DEF Modify, IInv, TypeOK, BookInv
  <1>2. id \in OrderIds
    OBVIOUS
  <1>3. CASE id \in DOMAIN matcher.order_map
    <2>1. ProcessPlace(m, new, events)
      BY <1>3 DEF Modify
    <2>2. /\ new \in PlaceOrder /\ new.order_type = "Limit"
          /\ new.side = matcher.order_map[id].side
          /\ new.user_id = matcher.order_map[id].user_id
      <3>1. new \in PlaceOrder
        BY <1>1, <1>3, ReplacementType
      <3> QED BY <3>1 DEF Replacement
    <2>3. MatcherType(m) /\ Orderly(m)
      BY <1>1, <1>3, CancelOrderType, CancelOrderly
    <2>4. events \in Seq(Event) /\ TradesOf(events) = <<>>
      BY <1>1, <1>3, CancelEventsType, CancelNoTrades
    <2>5. Queues(m) = Reference!Without(Queues(matcher), id)
      BY <1>1, <1>3, CancelIsWithout
    <2>6. \E r \in Reference!Resting(Queues(matcher), new.side) :
            r.order_id = id /\ r.user_id = new.user_id
      BY <1>1, <1>3, <2>2, ReplacementOf
    <2> HIDE DEF new, m, events, id
    <2>7. \/ Reference!Begin(Queues(m), new)
          \/ Reference!EndAtOnce(Queues(m))
      BY <2>1, <2>2, <2>3, <2>4, BeginSteps
    <2>8. CASE Reference!Begin(Queues(m), new)
      <3>1. Reference!Replace(id, new)
        BY <2>2, <2>5, <2>6, <2>8 DEF Reference!Replace
      <3> QED BY <1>1, <1>2, <2>2, <3>1, SameCommand DEF Reference!Next
    <2>9. CASE Reference!EndAtOnce(Queues(m))
      <3>1. Reference!Cancel(id)
        BY <2>5, <2>9 DEF Reference!Cancel
      <3> QED BY <1>1, <1>2, <3>1 DEF Reference!Next
    <2> QED BY <2>7, <2>8, <2>9
  <1>4. CASE id \notin DOMAIN matcher.order_map
    BY <1>1, <1>2, <1>4, NotFoundSteps, SMTT(30) DEF Modify
  <1> QED BY <1>3, <1>4

\* A queue of the book is not empty where there is a level, and begins with
\* the head of the level.
LEMMA LevelHead ==
  ASSUME NEW m, MatcherType(m), Orderly(m), NEW side \in Sides,
         NEW p \in DOMAIN m.levels[side]
  PROVE  LET e == Queues(m)[side][p]
         IN  /\ e # <<>> /\ Head(e) = e[1]
             /\ e[1] = Entry(m.arena.nodes[m.levels[side][p].head])
             /\ e[1] \in OrderEntry /\ e[1].qty > 0
  <1> DEFINE q == QueueOf(m.levels[side][p], m.arena.nodes)
             e == Queues(m)[side][p]
  <1>1. LevelQueue(m, side, p, q, e)
    BY LevelQueueIs, SMTT(30)
  <1> HIDE DEF q, e
  <1>2. /\ e \in Seq(OrderEntry) /\ Len(e) > 0 /\ Len(e) \in Nat
        /\ 1 \in 1 .. Len(q) /\ 1 \in 1 .. Len(e)
        /\ q[1] = m.levels[side][p].head
    BY <1>1, SMTT(30) DEF LevelQueue
  <1>3. e[1] = Entry(m.arena.nodes[q[1]]) /\ e[1].qty > 0
    BY <1>1, <1>2 DEF LevelQueue
  <1>4. Head(e) = e[1] /\ e # <<>>
    BY <1>2, TailIs
  <1>5. e[1] \in OrderEntry
    BY <1>2, ElementOfSeq
  <1> QED BY <1>2, <1>3, <1>4, <1>5 DEF e

LEMMA LevelThere ==
  ASSUME NEW m, MatcherType(m), Orderly(m), NEW side \in Sides, NEW p \in Prices
  PROVE  Queues(m)[side][p] = <<>> <=> p \notin DOMAIN m.levels[side]
  BY LevelHead, QueuesAt

\* The naive book's order of prices is the book's.
LEMMA SameOrder ==
  ASSUME NEW order
  PROVE  /\ \A p : Reference!InReach(order, p) <=> Crosses(order, p)
         /\ \A side \in Sides : \A p, q :
              Reference!Before(side, p, q) <=> Better(side, p, q)
  BY DEF Reference!InReach, Crosses, Reference!Before, Better, Sides

LEMMA TradesAtIs ==
  ASSUME IInv, BookInv, pc = "cross", NEW p \in Prices
  PROVE  Reference!TradesAt(p) <=> Matchable(p)
  <1>1. /\ MatcherType(matcher) /\ Orderly(matcher) /\ MakerSide \in Sides
        /\ Reference!Against = MakerSide
    BY TakerType, SameCommand DEF BookInv, Reference!Against, MakerSide
  <1>2. \A q \in Prices : Queues(matcher)[MakerSide][q] = <<>>
                            <=> q \notin DOMAIN matcher.levels[MakerSide]
    BY <1>1, LevelThere
  <1>3. DOMAIN matcher.levels[MakerSide] \subseteq Prices
    BY <1>1 DEF MatcherType, LevelsType
  <1> DEFINE S == MakerSide
             D == DOMAIN matcher.levels[S]
  <1>4. Reference!TradesAt(p) <=>
          /\ Crosses(taker, p) /\ p \in D
          /\ \A q \in Prices : Better(S, q, p) => q \notin D
    <2> HIDE DEF D
    <2> QED BY <1>1, <1>2, SameOrder DEF Reference!TradesAt, D
  <1>5. Matchable(p) <=>
          /\ Crosses(taker, p) /\ p \in D
          /\ \A q \in D : ~Better(S, q, p)
    BY DEF Matchable, IsBest
  <1> HIDE DEF S, D
  <1> QED BY <1>3, <1>4, <1>5 DEF D, S

LEMMA EntryIs ==
  ASSUME NEW node
  PROVE  /\ Entry(node).qty = node.qty /\ Entry(node).order_id = node.order_id
         /\ Entry(node).user_id = node.user_id
  BY DEF Entry

LEMMA TradeSteps ==
  ASSUME IInv, BookInv, pc = "cross", remaining_qty > 0,
         NEW p \in DOMAIN matcher.levels[MakerSide], Matchable(p),
         TradeWithHead(p)
  PROVE  Reference!Next
  <1> DEFINE S == MakerSide
             level == matcher.levels[S][p]
             maker == matcher.arena.nodes[level.head]
             qty == Lesser(remaining_qty, maker.qty)
             e == Queues(matcher)[S][p]
             rest == IF qty = e[1].qty THEN Tail(e)
                     ELSE [e EXCEPT ![1].qty = e[1].qty - qty]
             x == TradeEvent(p, qty, maker, taker)
  <1>1. /\ MatcherType(matcher) /\ Orderly(matcher) /\ S \in Sides
        /\ Reference!Against = S /\ p \in Prices /\ taker # NoOrder
        /\ event_buffer \in Seq(Event) /\ p \in DOMAIN matcher.levels[S]
    <2>1. /\ MatcherType(matcher) /\ Orderly(matcher) /\ S \in Sides
          /\ Reference!Against = S /\ event_buffer \in Seq(Event)
      BY TakerType, SameCommand DEF BookInv, Reference!Against, MakerSide
    <2>2. p \in Prices
      BY <2>1 DEF MatcherType, LevelsType
    <2>3. taker # NoOrder
      BY TakerType, NoOrderAssumption
    <2> QED BY <2>1, <2>2, <2>3
  <1>2. /\ e # <<>> /\ Head(e) = e[1] /\ e[1] = Entry(maker)
        /\ e[1] \in OrderEntry
    BY <1>1, LevelHead
  <1>3. /\ e[1].qty = maker.qty /\ e[1].order_id = maker.order_id
        /\ e[1].user_id = maker.user_id
    <2> HIDE DEF e, S, maker
    <2> QED BY <1>2, EntryIs
  <1>4. e[1].qty \in Int /\ remaining_qty \in Int
    <2>1. U32 \subseteq Int
      BY WordAssumption, SMTT(30) DEF U32
    <2>2. e[1].qty \in U32
      BY <1>2, SMTT(30) DEF OrderEntry
    <2> QED BY <2>1, <2>2, TakerType, Zenon
  <1>5. qty \in Int
    <2> HIDE DEF e
    <2> QED BY <1>3, <1>4 DEF Lesser
  <1>6. Queues(matcher)' = [Queues(matcher) EXCEPT ![S][p] = rest]
    <2>1. CASE maker.qty = qty
      <3>1. matcher' = FillMaker(matcher, S, p)
        BY <2>1, Zenon DEF TradeWithHead
      <3>2. rest = Tail(e)
        BY <1>3, <2>1, Zenon
      <3>3. Queues(FillMaker(matcher, S, p)) = [Queues(matcher) EXCEPT ![S][p] = Tail(e)]
        BY <1>1, FillQueues
      <3> HIDE DEF rest, e, qty, S
      <3> QED BY <3>1, <3>2, <3>3, QueuesNext
    <2>2. CASE maker.qty # qty
      <3>1. matcher' = ReduceMaker(matcher, S, p, qty)
        BY <2>2, Zenon DEF TradeWithHead
      <3>2. rest = [e EXCEPT ![1].qty = e[1].qty - qty]
        BY <1>3, <2>2, Zenon
      <3> HIDE DEF qty, S
      <3>3. Queues(ReduceMaker(matcher, S, p, qty)) =
              [Queues(matcher) EXCEPT ![S][p] = [e EXCEPT ![1].qty = e[1].qty - qty]]
        BY <1>1, <1>5, ReduceQueues
      <3> HIDE DEF rest, e
      <3> QED BY <3>1, <3>2, <3>3, QueuesNext
    <2> QED BY <2>1, <2>2, Zenon
  <1>7. Trades' = Append(Trades, x)
    <2> DEFINE b == BookUpdate(S, p, DepthAt(matcher', S, p))
    <2>1. event_buffer' = event_buffer \o <<x, b>>
      BY Zenon DEF TradeWithHead
    <2>2. x.kind = "Trade" /\ b.kind # "Trade"
      BY DEF TradeEvent, BookUpdate
    <2> DEFINE T == Event \cup {x, b}
    <2>3. event_buffer \in Seq(T) /\ x \in T /\ b \in T
      BY <1>1, SeqMonotonic, Zenon
    <2> HIDE DEF x, b, T
    <2>4. TradesOf(event_buffer \o <<x, b>>) = Append(TradesOf(event_buffer), x)
      BY <2>2, <2>3, TradesTwo
    <2> QED BY <2>1, <2>4, TradesNext, Zenon DEF Trades
  <1>8. x = TradeEvent(p, qty, e[1], taker)
    BY <1>3 DEF TradeEvent
  <1>9. /\ remaining_qty' = remaining_qty - qty /\ UNCHANGED <<pc, taker>>
    BY Zenon DEF TradeWithHead
  <1>10. Reference!TradesAt(p)
    BY <1>1, TradesAtIs
  <1>11. qty = Lesser(remaining_qty, e[1].qty)
    BY <1>3
  <1> HIDE DEF S, level, maker, qty, x
  <1>12. Reference!Trade(p)
    BY <1>1, <1>2, <1>6, <1>7, <1>8, <1>9, <1>10, <1>11, SameCommand, Zenon
       DEF Reference!Trade
  <1> QED BY <1>1, <1>12 DEF Reference!Next

LEMMA MatchSteps ==
  ASSUME IInv, BookInv, NEW p \in DOMAIN matcher.levels[MakerSide], Match(p)
  PROVE  Reference!Next
  <1>1. pc = "cross" /\ remaining_qty > 0 /\ Matchable(p)
    BY DEF Match
  <1>2. MatcherType(matcher) /\ Orderly(matcher) /\ MakerSide \in Sides
    BY <1>1, TakerType DEF BookInv
  <1>3. /\ ~IsEmpty(matcher.levels[MakerSide][p])
        /\ matcher.levels[MakerSide][p].head # NULL_INDEX
    BY <1>2, HeadPlaced
  <1>4. TradeWithHead(p)
    BY <1>3 DEF Match
  <1> QED BY <1>1, <1>4, TradeSteps

\* When matching is over and the order is not filled, nothing is left that the
\* naive book would trade with it.
LEMMA CrossedExhausted ==
  ASSUME IInv, BookInv, Crossed
  PROVE  Reference!Exhausted
  <1>1. pc = "cross"
    BY DEF Crossed
  <1>2. \A p \in Prices : Matchable(p) => p \in DOMAIN matcher.levels[MakerSide]
    BY DEF Matchable, IsBest
  <1>3. remaining_qty = 0 \/ \A p \in Prices : ~Matchable(p)
    BY <1>2 DEF Crossed
  <1> QED BY <1>1, <1>3, TradesAtIs DEF Reference!Exhausted

LEMMA SameCardinality == \A S : Reference!Cardinality(S) = Cardinality(S)
  BY DEF Reference!Cardinality, Cardinality

LEMMA CrossFacts ==
  ASSUME IInv, BookInv, pc = "cross"
  PROVE  /\ taker # NoOrder /\ taker \in PlaceOrder
         /\ MatcherType(matcher) /\ Orderly(matcher)
         /\ taker.order_id \notin DOMAIN matcher.order_map
         /\ Reference!Full <=> IsFull(matcher.arena)
  <1>1. /\ taker \in PlaceOrder /\ MatcherType(matcher) /\ Orderly(matcher)
        /\ taker.order_id \notin DOMAIN matcher.order_map
    BY TakerType DEF BookInv
  <1>2. Reference!Full <=> IsFull(matcher.arena)
    BY <1>1, IdsAre, FullIs, SameCardinality DEF Reference!Full
  <1> QED BY <1>1, <1>2, NoOrderAssumption

\* A step that ends a command with an event that is not a trade, or without.
LEMMA RestSteps ==
  ASSUME IInv, BookInv, RestRemainder
  PROVE  Reference!Next
  <1> DEFINE n == RestOrder(matcher, taker, remaining_qty)
             a == OrderAccepted(taker, remaining_qty)
             b == BookUpdate(taker.side, taker.price, DepthAt(n, taker.side, taker.price))
             side == taker.side
             p == taker.price
             e == Queues(matcher)[side][p]
             x == [order_id |-> taker.order_id, user_id |-> taker.user_id,
                   qty |-> remaining_qty]
  <1>1. /\ Crossed /\ pc = "cross" /\ remaining_qty > 0
        /\ taker.order_type = "Limit" /\ ~IsFull(matcher.arena)
        /\ matcher' = n /\ event_buffer' = event_buffer \o <<a, b>> /\ Finish
    BY DEF RestRemainder, Crossed
  <1>2. /\ taker # NoOrder /\ taker \in PlaceOrder
        /\ MatcherType(matcher) /\ Orderly(matcher)
        /\ taker.order_id \notin DOMAIN matcher.order_map
        /\ ~Reference!Full
    BY <1>1, CrossFacts
  <1>3. remaining_qty \in U32 /\ event_buffer \in Seq(Event)
    BY <1>1, TakerType
  <1>4. Queues(matcher)' = [Queues(matcher) EXCEPT ![side][p] = Append(e, x)]
    <2>1. Queues(n) = [Queues(matcher) EXCEPT ![side][p] = Append(e, x)]
      BY <1>1, <1>2, <1>3, RestQueues, ZenonT(40)
    <2> HIDE DEF n, e, x
    <2> QED BY <1>1, <2>1, QueuesNext
  <1>5. Trades' = Trades
    <2>1. a.kind # "Trade" /\ b.kind # "Trade"
      BY DEF OrderAccepted, BookUpdate
    <2> DEFINE T == Event \cup {a, b}
    <2>2. event_buffer \in Seq(T) /\ a \in T /\ b \in T
      BY <1>3, SeqMonotonic
    <2> HIDE DEF a, b, T
    <2>3. TradesOf(event_buffer \o <<a, b>>) = TradesOf(event_buffer)
      BY <2>1, <2>2, TradesTwo
    <2> QED BY <1>1, <2>3, TradesNext DEF Trades
  <1>6. Reference!Exhausted
    BY <1>1, CrossedExhausted
  <1>7. Reference!End
    BY <1>1, <1>5 DEF Finish, Reference!End
  <1> HIDE DEF n
  <1>8. Reference!Rest
    BY <1>1, <1>2, <1>4, <1>6, <1>7 DEF Reference!Rest
  <1> QED BY <1>2, <1>8 DEF Reference!Next

LEMMA RejectSteps ==
  ASSUME IInv, BookInv, RejectRemainder
  PROVE  Reference!Next
  <1> DEFINE x == OrderRejected(taker.order_id, "ArenaFull")
  <1>1. /\ Crossed /\ pc = "cross" /\ remaining_qty > 0
        /\ taker.order_type = "Limit" /\ IsFull(matcher.arena)
        /\ event_buffer' = Append(event_buffer, x)
        /\ Finish /\ UNCHANGED matcher
    BY DEF RejectRemainder, Crossed
  <1>2. taker # NoOrder /\ Reference!Full
    BY <1>1, CrossFacts
  <1>3. event_buffer \in Seq(Event) /\ taker.order_id \in OrderIds
    BY <1>1, TakerType
  <1>4. Trades' = Trades
    <2>1. x \in Event /\ x.kind = "Rejected"
      BY <1>3, RejectedType
    <2> HIDE DEF x
    <2>2. TradesOf(Append(event_buffer, x)) = TradesOf(event_buffer)
      BY <1>3, <2>1, TradesAppend
    <2> QED BY <1>1, <2>2, TradesNext DEF Trades
  <1>5. Queues(matcher)' = Queues(matcher)
    BY <1>1, QueuesNext
  <1>6. Reference!Drop
    BY <1>1, <1>2, <1>4, <1>5, CrossedExhausted
       DEF Reference!Drop, Reference!End, Finish
  <1> QED BY <1>2, <1>6 DEF Reference!Next

\* What is dropped without an event is of an IOC order: a fill-or-kill order
\* has nothing left.
LEMMA CompleteSteps ==
  ASSUME IInv, BookInv, BookInv', CompletePlace
  PROVE  Reference!Next
  <1>1. /\ Crossed /\ pc = "cross" /\ UNCHANGED <<matcher, event_buffer>>
        /\ remaining_qty = 0 \/ taker.order_type # "Limit"
    BY DEF CompletePlace, Crossed
  <1>2. ~(remaining_qty > 0 /\ taker.order_type = "FOK") /\ Finish
    BY DEF CompletePlace, BookInv, NoPanic
  <1>3. taker # NoOrder /\ taker.order_type \in OrderTypes
    BY <1>1, CrossFacts DEF PlaceOrder
  <1>4. remaining_qty \in Nat
    BY <1>1, TakerType, WordAssumption DEF U32
  <1>5. Queues(matcher)' = Queues(matcher) /\ Trades' = Trades
    BY <1>1, QueuesNext, TradesNext DEF Trades
  <1>6. remaining_qty = 0 \/ taker.order_type = "IOC"
    BY <1>1, <1>2, <1>3, <1>4 DEF OrderTypes
  <1>7. Reference!Drop
    BY <1>1, <1>2, <1>5, <1>6, CrossedExhausted
       DEF Reference!Drop, Reference!End, Finish
  <1> QED BY <1>3, <1>7 DEF Reference!Next

LEMMA InitReference == Init => Reference!Init
  <1> SUFFICES ASSUME Init PROVE Reference!Init
    OBVIOUS
  <1>1. Queues(matcher) = [side \in Sides |-> [p \in Prices |-> <<>>]]
    BY NoQueues DEF Init
  <1>2. Trades = <<>>
    BY NoTrades DEF Init, Trades
  <1> QED BY <1>1, <1>2, SameCommand DEF Init, Reference!Init

LEMMA StepReference ==
  IInv /\ BookInv /\ BookInv' /\ [Next]_vars => [Reference!Next]_(Reference!vars)
  <1> SUFFICES ASSUME IInv, BookInv, BookInv', [Next]_vars
               PROVE  [Reference!Next]_(Reference!vars)
    OBVIOUS
  <1>1. CASE UNCHANGED vars
    <2>1. Queues(matcher)' = Queues(matcher) /\ Trades' = Trades
      BY <1>1, QueuesNext, TradesNext DEF vars, Trades
    <2> QED BY <1>1, <2>1 DEF vars, Reference!vars
  <1>2. ASSUME NEW cmd \in Command, ProcessCommand(cmd)
        PROVE  Reference!Next
    <2>1. CASE cmd.kind = "Place" /\ Place(cmd.order)
      BY <2>1, PlaceSteps DEF Command
    <2>2. CASE cmd.kind = "Cancel" /\ Cancel(cmd.order_id)
      BY <2>2, CancelSteps DEF Command
    <2>3. CASE cmd.kind = "Modify" /\ Modify(cmd)
      BY <2>3, ModifySteps DEF Command
    <2> QED BY <1>2, <2>1, <2>2, <2>3 DEF ProcessCommand
  <1>3. CASE pc = "cross" /\ Continue
    BY <1>3, MatchSteps, RestSteps, RejectSteps, CompleteSteps DEF Continue
  <1> QED BY <1>1, <1>2, <1>3 DEF Next

-----------------------------------------------------------------------------
(* What the getters and the state hash see.                                *)

QueueDepth(q) ==
  [qty |-> SumFunction([k \in DOMAIN q |-> q[k].qty]), count |-> Len(q)]

\* The cached depth of a level is that of its queue.
LEMMA DepthIs ==
  ASSUME NEW m, MatcherType(m), Orderly(m), NEW side \in Sides,
         NEW p \in DOMAIN m.levels[side]
  PROVE  DepthAt(m, side, p) = QueueDepth(Queues(m)[side][p])
  <1> DEFINE l == m.levels[side][p]
             ns == m.arena.nodes
             S == Placed(m, side, p)
             q == QueueOf(l, ns)
             e == Queues(m)[side][p]
             f == [i \in Index |-> ns[i].qty]
             g == [k \in DOMAIN e |-> e[k].qty]
  <1>1. l \in Level /\ IsBlock(ns) /\ QueueOn(l, ns, S)
    BY BookBlock DEF Orderly
  <1>2. LevelQueue(m, side, p, q, e)
    BY LevelQueueIs
  <1>3. DepthAt(m, side, p) = [qty |-> l.total_qty, count |-> l.count]
    BY DEF DepthAt
  <1> HIDE DEF q, l, S, e
  <1>4. /\ q \in Seq(Index) /\ Len(q) \in Nat /\ DOMAIN q = 1 .. Len(q)
        /\ Range(q) = S
        /\ \A j, k \in 1 .. Len(q) : q[j] = q[k] => j = k
        /\ l.count = Len(q)
    BY <1>1, QueueFacts DEF q
  <1>5. l.total_qty = SumFunctionOnSet(f, S)
    BY <1>1, QueueOnFacts, SMTT(30) DEF TotalQty
  <1>6. /\ Len(e) = Len(q) /\ DOMAIN e = 1 .. Len(q)
        /\ \A k \in 1 .. Len(q) : e[k] = Entry(ns[q[k]])
    BY <1>2 DEF LevelQueue
  <1> DEFINE K == 1 .. Len(q)
  <1>7. DOMAIN g = K /\ \A k \in K : g[k] = f[q[k]] /\ f[q[k]] \in Int
    <2>1. DOMAIN g = K
      BY <1>6
    <2>2. ASSUME NEW k \in K PROVE g[k] = f[q[k]] /\ f[q[k]] \in Int
      <3>1. q[k] \in Index
        BY <1>4, ElementOfSeq
      <3>2. e[k].qty = ns[q[k]].qty
        BY <1>6 DEF Entry
      <3>3. f[q[k]] = ns[q[k]].qty /\ ns[q[k]].qty \in Int
        BY <1>1, <3>1, BlockFields
      <3>4. g[k] = e[k].qty
        BY <1>6
      <3> QED BY <3>2, <3>3, <3>4
    <2> QED BY <2>1, <2>2
  <1>8. S = {q[k] : k \in K} /\ IsFiniteSet(K)
    <2>1. S = {q[k] : k \in DOMAIN q}
      BY <1>4 DEF Range
    <2>2. IsFiniteSet(K)
      BY <1>4, FS_Interval
    <2> QED BY <1>4, <2>1, <2>2
  <1> HIDE DEF f, g
  <1>9. SumFunctionOnSet(g, K) = SumFunctionOnSet(f, {q[k] : k \in K})
    BY <1>4, <1>7, <1>8, SumByNumber
  <1>10. SumFunction(g) = l.total_qty
    BY <1>5, <1>7, <1>8, <1>9, Zenon DEF SumFunction
  <1> QED BY <1>3, <1>4, <1>6, <1>10 DEF QueueDepth, g, e

Seats(m) ==
  UNION {UNION {{<<side, p, k>> : k \in DOMAIN Queues(m)[side][p]} : p \in Prices} :
           side \in Sides}

\* The index of the book leads from an order to its seat.
LEMMA SeatOwner ==
  ASSUME NEW m, MatcherType(m), Orderly(m), NEW side, NEW p, NEW k,
         Seat(m, side, p, k)
  PROVE  /\ m.order_map[Queues(m)[side][p][k].order_id].side = side
         /\ m.order_map[Queues(m)[side][p][k].order_id].price = p
         /\ \A j \in DOMAIN Queues(m)[side][p] :
              Queues(m)[side][p][j].order_id = Queues(m)[side][p][k].order_id
                => j = k
  BY SeatIs

\* There are as many seats as orders.
LEMMA SeatsAre ==
  ASSUME NEW m, MatcherType(m), Orderly(m)
  PROVE  Cardinality(Seats(m)) = Cardinality(DOMAIN m.order_map)
  <1> DEFINE D == DOMAIN m.order_map
             T == Seats(m)
             f == [t \in T |-> Queues(m)[t[1]][t[2]][t[3]].order_id]
  <1>1. \A t \in T : Seat(m, t[1], t[2], t[3]) /\ t = <<t[1], t[2], t[3]>>
    BY DEF Seats, Seat
  <1>2. \A s, p, k : Seat(m, s, p, k) => <<s, p, k>> \in T
    BY DEF Seats, Seat
  <1>3. \A t \in T : f[t] \in D
    <2> SUFFICES ASSUME NEW t \in T PROVE f[t] \in D
      OBVIOUS
    <2> DEFINE s == t[1]
               p == t[2]
               k == t[3]
    <2>1. Seat(m, s, p, k)
      BY <1>1
    <2>2. f[t] = Queues(m)[s][p][k].order_id
      OBVIOUS
    <2> HIDE DEF s, p, k, f
    <2> QED BY <2>1, <2>2, SeatIs
  <1>4. ASSUME NEW t \in T, NEW u \in T, f[t] = f[u]
        PROVE  t = u
    <2>1. PICK s, p, k : t = <<s, p, k>> /\ Seat(m, s, p, k)
      BY <1>1
    <2>2. PICK a, b, c : u = <<a, b, c>> /\ Seat(m, a, b, c)
      BY <1>1
    <2> DEFINE r == Queues(m)[s][p][k].order_id
               x == Queues(m)[a][b][c].order_id
    <2>3. f[t] = r /\ f[u] = x
      BY <2>1, <2>2
    <2>4. r = x
      BY <1>4, <2>3, Zenon
    <2>5. /\ m.order_map[r].side = s /\ m.order_map[r].price = p
          /\ \A j \in DOMAIN Queues(m)[s][p] :
               Queues(m)[s][p][j].order_id = r => j = k
      BY <2>1, SeatOwner
    <2>6. m.order_map[x].side = a /\ m.order_map[x].price = b
      BY <2>2, SeatOwner
    <2>7. a = s /\ b = p
      BY <2>4, <2>5, <2>6, Zenon
    <2>8. c = k
      BY <2>2, <2>4, <2>5, <2>7, Zenon DEF Seat
    <2> QED BY <2>1, <2>2, <2>7, <2>8, Zenon
  <1>5. ASSUME NEW id \in D PROVE \E t \in T : f[t] = id
    <2> DEFINE s == m.order_map[id].side
               p == m.order_map[id].price
    <2>1. PICK k : Seat(m, s, p, k) /\ Queues(m)[s][p][k].order_id = id
      BY HasSeat
    <2>2. <<s, p, k>> \in T
      BY <1>2, <2>1
    <2> HIDE DEF s, p
    <2>3. f[<<s, p, k>>] = id
      BY <2>1, <2>2
    <2> QED BY <2>2, <2>3
  <1>6. f \in Bijection(T, D)
    <2>1. f \in [T -> D]
      BY <1>3
    <2> HIDE DEF f, T, D
    <2> QED BY <1>4, <1>5, <2>1 DEF Bijection, Injection, Surjection, IsInjective
  <1>7. IsFiniteSet(D)
    BY OrderlyMap
  <1> HIDE DEF f, T
  <1>8. ExistsBijection(D, T)
    BY <1>6, Fun_ExistsBijSymmetric DEF ExistsBijection
  <1> QED BY <1>7, <1>8, FS_Bijection DEF T

LEMMA PricesAre ==
  ASSUME NEW m, MatcherType(m), Orderly(m), NEW side \in Sides
  PROVE  {p \in Prices : Queues(m)[side][p] # <<>>} = DOMAIN m.levels[side]
  <1>1. DOMAIN m.levels[side] \subseteq Prices
    BY DEF MatcherType, LevelsType
  <1>2. \A p \in Prices : Queues(m)[side][p] # <<>> <=> p \in DOMAIN m.levels[side]
    BY LevelThere
  <1> QED BY <1>1, <1>2

LEMMA GettersStep == IInv /\ BookInv => GettersExact
  <1> SUFFICES ASSUME IInv, BookInv PROVE GettersExact
    OBVIOUS
  <1> DEFINE m == matcher
             queues == Queues(m)
             prices(side) == {p \in Prices : queues[side][p] # <<>>}
             best(side) == {p \in prices(side) :
                              \A q \in prices(side) : ~Better(side, q, p)}
  <1>1. MatcherType(m) /\ Orderly(m) /\ NotCrossed
    BY DEF IInv, TypeOK, BookInv
  <1>2. \A side \in Sides : prices(side) = DOMAIN m.levels[side]
    BY <1>1, PricesAre
  <1>3. \A side \in Sides : BestPrice(m, side) = best(side)
    <2> HIDE DEF m, prices
    <2> QED BY <1>2 DEF BestPrice, IsBest
  <1>4. OrderCount(m) = Cardinality(Seats(m))
        /\ m.arena.allocated_count = Cardinality(Seats(m))
    BY <1>1, SeatsAre DEF OrderCount, Orderly
  <1>5. \A side \in Sides :
          [p \in DOMAIN m.levels[side] |-> DepthAt(m, side, p)]
            = [p \in prices(side) |-> QueueDepth(queues[side][p])]
    <2> SUFFICES ASSUME NEW side \in Sides
                 PROVE  [p \in DOMAIN m.levels[side] |-> DepthAt(m, side, p)]
                          = [p \in prices(side) |-> QueueDepth(queues[side][p])]
      OBVIOUS
    <2>1. \A p \in DOMAIN m.levels[side] :
            DepthAt(m, side, p) = QueueDepth(queues[side][p])
      BY <1>1, DepthIs
    <2> HIDE DEF m, prices, queues
    <2> QED BY <1>2, <2>1
  <1>6. StateHash(m) =
          [best |-> [side \in Sides |-> best(side)],
           orders |-> Cardinality(Seats(m)),
           allocated |-> Cardinality(Seats(m)),
           depth |-> [side \in Sides |->
                        [p \in prices(side) |-> QueueDepth(queues[side][p])]]]
    <2>1. [side \in Sides |-> BestPrice(m, side)] = [side \in Sides |-> best(side)]
      <3> HIDE DEF m, best
      <3> QED BY <1>3
    <2>2. [side \in Sides |->
              [p \in DOMAIN m.levels[side] |-> DepthAt(m, side, p)]]
            = [side \in Sides |->
                 [p \in prices(side) |-> QueueDepth(queues[side][p])]]
      <3> HIDE DEF m, prices, queues
      <3> QED BY <1>5
    <2> HIDE DEF m, best, prices, queues
    <2> QED BY <1>4, <2>1, <2>2 DEF StateHash
  <1>7. ASSUME NEW bid \in best("Bid"), NEW ask \in best("Ask")
        PROVE  Spread(m) = {ask - bid}
    <2>1. "Bid" \in Sides /\ "Ask" \in Sides
      BY DEF Sides
    <2>2. /\ bid \in DOMAIN m.levels["Bid"] /\ ask \in DOMAIN m.levels["Ask"]
          /\ \A q \in DOMAIN m.levels["Bid"] : ~Better("Bid", q, bid)
          /\ \A q \in DOMAIN m.levels["Ask"] : ~Better("Ask", q, ask)
      <3> HIDE DEF m, prices
      <3> QED BY <1>2, <2>1, <1>7
    <2>3. /\ DOMAIN m.levels["Bid"] \subseteq Int
          /\ DOMAIN m.levels["Ask"] \subseteq Int
      <3>1. Prices \subseteq Int
        BY CommandAssumption
      <3> HIDE DEF m
      <3> QED BY <1>1, <2>1, <3>1 DEF MatcherType, LevelsType
    <2>4. BestPrice(m, "Bid") = {bid}
      <3> HIDE DEF m
      <3>1. \A q \in BestPrice(m, "Bid") : q = bid
        BY <2>2, <2>3 DEF BestPrice, IsBest, Better
      <3>2. bid \in BestPrice(m, "Bid")
        BY <2>2 DEF BestPrice, IsBest
      <3> QED BY <3>1, <3>2
    <2>5. BestPrice(m, "Ask") = {ask}
      <3> HIDE DEF m
      <3>1. \A q \in BestPrice(m, "Ask") : q = ask
        BY <2>2, <2>3 DEF BestPrice, IsBest, Better
      <3>2. ask \in BestPrice(m, "Ask")
        BY <2>2 DEF BestPrice, IsBest
      <3> QED BY <3>1, <3>2
    <2>6. bid < ask
      BY <1>1, <2>2 DEF NotCrossed
    <2>7. bid \in Int /\ ask \in Int
      BY <2>2, <2>3
    <2>8. Gaps({bid}, {ask}) = {ask - bid}
      <3> HIDE DEF best
      <3>1. {q \in {bid} \X {ask} : q[2] > q[1]} = {<<bid, ask>>}
        BY <2>6, <2>7
      <3> QED BY <3>1, Zenon DEF Gaps
    <2> HIDE DEF m
    <2> QED BY <2>4, <2>5, <2>8, Zenon DEF Spread
  <1> QED BY <1>6, <1>7 DEF GettersExact, Seats, QueueDepth

-----------------------------------------------------------------------------
(* Refusals.  A step that refuses an order changes nothing, or is a modify *)
(* that reports the one order it cancelled.                                *)

NoneRefused(events) == \A k \in DOMAIN events : events[k].kind # "Rejected"

LEMMA NoRefusals ==
  ASSUME NEW events, NoneRefused(events), NEW m, NEW n
  PROVE  RefusalsOf(events, m, n)
  BY DEF NoneRefused, RefusalsOf

\* What a refusal says is so in n.
RefusalTrue(refused, n) ==
  /\ refused.reason = "DuplicateOrderId" => refused.order_id \in DOMAIN n.order_map
  /\ refused.reason = "OrderNotFound" => refused.order_id \notin DOMAIN n.order_map
  /\ refused.reason = "ArenaFull" => OrderCount(n) = Capacity

\* A refusal alone.
LEMMA RefusedAlone ==
  ASSUME NEW m, NEW x, x.kind = "Rejected", RefusalTrue(x, m)
  PROVE  RefusalsOf(<<x>>, m, m)
  <1> DEFINE es == <<x>>
  <1>1. DOMAIN es = 1 .. 1 /\ \A k \in DOMAIN es : es[k] = x
    OBVIOUS
  <1> HIDE DEF es
  <1>2. \A k \in DOMAIN es : es[k].kind # "Canceled"
    BY <1>1
  <1>3. CanceledIn(es) = {}
    BY <1>2 DEF CanceledIn
  <1>4. RefusalsOf(es, m, m)
    BY <1>1, <1>3 DEF RefusalsOf, RefusalTrue
  <1> QED BY <1>4 DEF es

\* What validation refuses, and why: the book is m, whose order_map is asked.
LEMMA RejectionTrue ==
  ASSUME NEW m, NEW order, Rejection(m, order) # "none"
  PROVE  RefusalTrue(OrderRejected(order.order_id, Rejection(m, order)), m)
  <1> DEFINE x == OrderRejected(order.order_id, Rejection(m, order))
  <1>1. x.order_id = order.order_id /\ x.reason = Rejection(m, order)
    BY DEF OrderRejected
  <1>2. Rejection(m, order) \in
          {"DuplicateOrderId", "InvalidQuantity", "InsufficientLiquidity"}
    BY DEF Rejection
  <1>3. Rejection(m, order) = "DuplicateOrderId"
          => order.order_id \in DOMAIN m.order_map
    BY DEF Rejection
  <1> HIDE DEF x
  <1> QED BY <1>1, <1>2, <1>3 DEF RefusalTrue, x

LEMMA PlaceRefusals ==
  ASSUME NEW order, Place(order)
  PROVE  RefusalsOf(NewEvents, matcher, matcher')
  <1> DEFINE x == OrderRejected(order.order_id, Rejection(matcher, order))
  <1>1. pc = "idle" /\ matcher' = matcher /\ NewEvents = event_buffer'
    BY DEF Place, ProcessPlace, NewEvents
  <1>2. CASE Rejection(matcher, order) # "none"
    <2>1. event_buffer' = Append(<<>>, x)
      BY <1>2 DEF Place, ProcessPlace
    <2>2. x.kind = "Rejected" /\ RefusalTrue(x, matcher)
      BY <1>2, RejectionTrue DEF OrderRejected
    <2> HIDE DEF x
    <2>3. event_buffer' = <<x>>
      BY <2>1
    <2> QED BY <1>1, <2>2, <2>3, RefusedAlone
  <1>3. CASE Rejection(matcher, order) = "none"
    <2> DEFINE none == <<>>
    <2>1. event_buffer' = none
      BY <1>3 DEF Place, ProcessPlace
    <2>2. NoneRefused(none)
      BY DEF NoneRefused
    <2> HIDE DEF none
    <2> QED BY <1>1, <2>1, <2>2, NoRefusals
  <1> QED BY <1>2, <1>3

LEMMA NotFoundRefusals ==
  ASSUME NEW id, pc = "idle", id \notin DOMAIN matcher.order_map,
         event_buffer' = NotFoundEvents(id), UNCHANGED matcher
  PROVE  RefusalsOf(NewEvents, matcher, matcher')
  <1> DEFINE x == OrderRejected(id, "OrderNotFound")
  <1>1. NewEvents = <<x>>
    BY DEF NewEvents, NotFoundEvents
  <1>2. x.kind = "Rejected" /\ RefusalTrue(x, matcher)
    BY DEF OrderRejected, RefusalTrue
  <1> HIDE DEF x
  <1> QED BY <1>1, <1>2, RefusedAlone

\* Two events, neither of them a refusal.
LEMMA TwoNoRefusals ==
  ASSUME NEW a, NEW b, a.kind # "Rejected", b.kind # "Rejected", NEW m, NEW n
  PROVE  RefusalsOf(<<a, b>>, m, n)
  <1> DEFINE es == <<a, b>>
  <1>1. DOMAIN es = 1 .. 2 /\ es[1] = a /\ es[2] = b
    OBVIOUS
  <1> HIDE DEF es
  <1>2. NoneRefused(es)
    BY <1>1 DEF NoneRefused
  <1>3. RefusalsOf(es, m, n)
    BY <1>2, NoRefusals
  <1> QED BY <1>3 DEF es

LEMMA AppendThird ==
  ASSUME NEW S, NEW a \in S, NEW b \in S, NEW c \in S
  PROVE  Append(<<a, b>>, c) = <<a, b, c>>
  <1> DEFINE s == <<a, b>>
             t == Append(s, c)
  <1>1. s \in Seq(S)
    OBVIOUS
  <1>2. Len(s) = 2 /\ s[1] = a /\ s[2] = b
    OBVIOUS
  <1> HIDE DEF s
  <1>3. t \in Seq(S) /\ Len(t) = Len(s) + 1 /\ t[Len(s) + 1] = c
    BY <1>1
  <1>4. \A k \in 1 .. Len(s) : t[k] = s[k]
    BY <1>1
  <1> HIDE DEF t
  <1>5. t \in Seq(S) /\ Len(t) = 3 /\ t[1] = a /\ t[2] = b /\ t[3] = c
    BY <1>2, <1>3, <1>4
  <1>6. t = <<a, b, c>>
    BY <1>5
  <1> QED BY <1>6 DEF t, s

\* A replacement that is refused: one cancel, one delta, one refusal.
LEMMA RefusedAfterCancel ==
  ASSUME NEW m, MatcherType(m), Orderly(m), NEW id \in DOMAIN m.order_map,
         NEW c, c.kind = "Canceled", c.order_id = id,
         NEW u, u.kind = "BookDelta",
         NEW x, x.kind = "Rejected", RefusalTrue(x, CancelOrder(m, id))
  PROVE  RefusalsOf(<<c, u, x>>, m, CancelOrder(m, id))
  <1> DEFINE n == CancelOrder(m, id)
             es == <<c, u, x>>
  <1>1. DOMAIN n.order_map = DOMAIN m.order_map \ {id}
    BY CancelEffect
  <1>2. OpenBut(n, m, id)
    BY CancelOpen
  <1>3. DOMAIN m.order_map \subseteq OrderIds
    BY OrderlyMap, MapFields
  <1>4. DOMAIN es = 1 .. 3 /\ es[1] = c /\ es[2] = u /\ es[3] = x
    OBVIOUS
  <1>5. RefusalTrue(x, n)
    OBVIOUS
  <1> HIDE DEF es, n
  <1>6. {j \in DOMAIN es : es[j].kind = "Canceled"} = {1}
    BY <1>4
  <1>7. CanceledIn(es) = {id}
    BY <1>4, <1>6 DEF CanceledIn
  <1>8. \A y \in DOMAIN n.order_map : OpenQty(n, y) = OpenQty(m, y)
    BY <1>1, <1>2, <1>3 DEF OpenBut
  <1>9. \A k \in DOMAIN es : es[k].kind = "Rejected" => es[k] = x
    BY <1>4
  <1>10. RefusalsOf(es, m, n)
    BY <1>1, <1>5, <1>7, <1>8, <1>9 DEF RefusalsOf, RefusalTrue
  <1> QED BY <1>10 DEF es, n

LEMMA CancelRefusals ==
  ASSUME NEW id, Cancel(id)
  PROVE  RefusalsOf(NewEvents, matcher, matcher')
  <1>1. CASE id \notin DOMAIN matcher.order_map
    BY <1>1, NotFoundRefusals DEF Cancel
  <1>2. CASE id \in DOMAIN matcher.order_map
    <2>1. NewEvents = CancelEvents(matcher, id)
      BY <1>2 DEF Cancel, NewEvents
    <2> QED BY <2>1, TwoNoRefusals DEF CancelEvents, OrderCanceled, BookUpdate
  <1> QED BY <1>1, <1>2

LEMMA ModifyRefusals ==
  ASSUME IInv, BookInv, NEW modify, Modify(modify)
  PROVE  RefusalsOf(NewEvents, matcher, matcher')
  <1> DEFINE id == modify.order_id
             info == matcher.order_map[id]
             m == CancelOrder(matcher, id)
             order == Replacement(info, modify)
             c == OrderCanceled(id, matcher.arena.nodes[info.arena_index].qty)
             u == BookUpdate(info.side, info.price,
                             DepthAt(m, info.side, info.price))
             x == OrderRejected(order.order_id, Rejection(m, order))
  <1>1. CASE id \notin DOMAIN matcher.order_map
    BY <1>1, NotFoundRefusals DEF Modify
  <1>2. CASE id \in DOMAIN matcher.order_map
    <2>1. /\ pc = "idle" /\ ProcessPlace(m, order, CancelEvents(matcher, id))
          /\ MatcherType(matcher) /\ Orderly(matcher)
      BY <1>2 DEF Modify, IInv, TypeOK, BookInv
    <2>2. CancelEvents(matcher, id) = <<c, u>>
      BY DEF CancelEvents
    <2>3. /\ c.kind = "Canceled" /\ c.order_id = id /\ u.kind = "BookDelta"
          /\ x.kind = "Rejected"
      BY DEF OrderCanceled, BookUpdate, OrderRejected
    <2>4. Rejection(m, order) # "none" => RefusalTrue(x, m)
      BY RejectionTrue
    <2>5. NewEvents = event_buffer' /\ matcher' = m
      BY <2>1 DEF NewEvents, ProcessPlace
    <2>6. CASE Rejection(m, order) # "none"
      <3>1. event_buffer' = Append(CancelEvents(matcher, id), x)
        BY <2>1, <2>6 DEF ProcessPlace
      <3>2. RefusalTrue(x, CancelOrder(matcher, id)) /\ id \in DOMAIN matcher.order_map
        BY <1>2, <2>4, <2>6
      <3>3. event_buffer' = Append(<<c, u>>, x)
        BY <2>2, <3>1, Zenon
      <3> HIDE DEF c, u, x, id, order
      <3>4. event_buffer' = <<c, u, x>>
        <4> DEFINE S == {c, u, x}
        <4>1. c \in S /\ u \in S /\ x \in S
          OBVIOUS
        <4> HIDE DEF S
        <4> QED BY <3>3, <4>1, AppendThird
      <3>5. RefusalsOf(<<c, u, x>>, matcher, CancelOrder(matcher, id))
        BY <2>1, <2>3, <3>2, RefusedAfterCancel
      <3> QED BY <2>5, <3>4, <3>5
    <2>7. CASE Rejection(m, order) = "none"
      <3>1. event_buffer' = <<c, u>>
        BY <2>1, <2>2, <2>7 DEF ProcessPlace
      <3> HIDE DEF c, u, m
      <3> QED BY <2>3, <2>5, <3>1, TwoNoRefusals
    <2> QED BY <2>6, <2>7
  <1> QED BY <1>1, <1>2

\* Trades and rests refuse nothing.
LEMMA TradeRefusals ==
  ASSUME IInv, pc = "cross", NEW p, TradeWithHead(p)
  PROVE  RefusalsOf(NewEvents, matcher, matcher')
  <1> DEFINE maker == matcher.arena.nodes[matcher.levels[MakerSide][p].head]
             t == TradeEvent(p, Lesser(remaining_qty, maker.qty), maker, taker)
             u == BookUpdate(MakerSide, p, DepthAt(matcher', MakerSide, p))
  <1>1. event_buffer' = event_buffer \o <<t, u>>
    BY Zenon DEF TradeWithHead
  <1>2. t.kind = "Trade" /\ u.kind = "BookDelta"
    BY DEF TradeEvent, BookUpdate
  <1> HIDE DEF t, u
  <1>3. NewEvents = <<t, u>>
    BY <1>1, AddsTwo DEF IInv, TypeOK
  <1> QED BY <1>2, <1>3, TwoNoRefusals

LEMMA RestRefusals ==
  ASSUME IInv, RestRemainder
  PROVE  RefusalsOf(NewEvents, matcher, matcher')
  <1> DEFINE a == OrderAccepted(taker, remaining_qty)
             u == BookUpdate(taker.side, taker.price,
                             DepthAt(matcher', taker.side, taker.price))
  <1>1. pc = "cross" /\ event_buffer' = event_buffer \o <<a, u>>
    BY DEF RestRemainder, Crossed
  <1>2. a.kind = "Accepted" /\ u.kind = "BookDelta"
    BY DEF OrderAccepted, BookUpdate
  <1> HIDE DEF a, u
  <1>3. NewEvents = <<a, u>>
    BY <1>1, AddsTwo DEF IInv, TypeOK
  <1> QED BY <1>2, <1>3, TwoNoRefusals

\* The arena is full when as many orders rest as it has nodes.
LEMMA RejectRefusals ==
  ASSUME IInv, BookInv, RejectRemainder
  PROVE  RefusalsOf(NewEvents, matcher, matcher')
  <1> DEFINE x == OrderRejected(taker.order_id, "ArenaFull")
  <1>1. /\ pc = "cross" /\ matcher' = matcher /\ IsFull(matcher.arena)
        /\ event_buffer' = Append(event_buffer, x)
    BY DEF RejectRemainder, Crossed
  <1>2. event_buffer \in Seq(Event) /\ MatcherType(matcher) /\ Orderly(matcher)
    BY DEF IInv, TypeOK, BookInv
  <1>3. OrderCount(matcher) = Capacity
    BY <1>1, <1>2, FullIs DEF OrderCount
  <1>4. x.kind = "Rejected" /\ RefusalTrue(x, matcher)
    BY <1>3 DEF OrderRejected, RefusalTrue
  <1> HIDE DEF x
  <1>5. NewEvents = <<x>>
    BY <1>1, <1>2, AddsOne
  <1> QED BY <1>1, <1>4, <1>5, RefusedAlone

LEMMA CompleteRefusals ==
  ASSUME IInv, CompletePlace
  PROVE  RefusalsOf(NewEvents, matcher, matcher')
  <1> DEFINE es == <<>>
  <1>1. /\ pc = "cross" /\ event_buffer' = event_buffer
        /\ event_buffer \in Seq(Event)
    BY DEF CompletePlace, Crossed, IInv, TypeOK
  <1>2. NewEvents = es
    BY <1>1, AddedNone DEF NewEvents
  <1>3. NoneRefused(es)
    BY DEF NoneRefused
  <1> HIDE DEF es
  <1> QED BY <1>2, <1>3, NoRefusals

LEMMA StepRefusals ==
  IInv /\ BookInv /\ [Next]_vars
    => [RefusalsOf(NewEvents, matcher, matcher')]_vars
  <1> SUFFICES ASSUME IInv, BookInv, Next
               PROVE  RefusalsOf(NewEvents, matcher, matcher')
    OBVIOUS
  <1>1. ASSUME NEW cmd \in Command, ProcessCommand(cmd)
        PROVE  RefusalsOf(NewEvents, matcher, matcher')
    BY <1>1, PlaceRefusals, CancelRefusals, ModifyRefusals DEF ProcessCommand
  <1>2. ASSUME pc = "cross", NEW p \in DOMAIN matcher.levels[MakerSide], Match(p)
        PROVE  RefusalsOf(NewEvents, matcher, matcher')
    <2>1. MatcherType(matcher) /\ Orderly(matcher) /\ MakerSide \in Sides
      BY <1>2, TakerType DEF BookInv
    <2>2. /\ ~IsEmpty(matcher.levels[MakerSide][p])
          /\ matcher.levels[MakerSide][p].head # NULL_INDEX
      BY <1>2, <2>1, HeadPlaced
    <2>3. TradeWithHead(p)
      BY <1>2, <2>2 DEF Match
    <2> QED BY <1>2, <2>3, TradeRefusals
  <1>3. CASE pc = "cross" /\ Continue
    BY <1>2, <1>3, RestRefusals, RejectRefusals, CompleteRefusals DEF Continue
  <1> QED BY <1>1, <1>3 DEF Next

-----------------------------------------------------------------------------

\* Subscribers who apply the deltas know the depth of every price exactly.
THEOREM EngineDeltasExact == Spec => DeltasExact
  <1>1. IInv /\ BookInv /\ [Next]_vars
          => [DepthTold(NewEvents, matcher, matcher')]_vars
    BY StepDeltas
  <1> QED BY <1>1, BookInvAlways, PTL DEF Spec, DeltasExact

\* Owners are told everything (accepts, trades and cancels of command.rs, as
\* matching.rs emits them): from these events alone, the quantity open of
\* every order is known exactly after every step, whatever the commands.
THEOREM EngineEventsTellOrders == Spec => EventsTellOrders
  <1>1. IInv /\ BookInv /\ [Next]_vars
          => [AllTold(NewEvents, matcher, matcher')]_vars
    BY StepTold
  <1>2. Spec => [](IInv /\ BookInv)
    BY BookInvAlways
  <1> QED BY <1>1, <1>2, PTL DEF Spec, EventsTellOrders

\* Refusals (matching.rs:60-86, :97-106 and :378, engine.rs:94) are true of the
\* book they leave, and nothing else has changed but the one order that a
\* replacement reports as cancelled, for any capacity and commands.
THEOREM EngineRefusalsTrue == Spec => RefusalsTrue
  <1>1. IInv /\ BookInv /\ [Next]_vars
          => [RefusalsOf(NewEvents, matcher, matcher')]_vars
    BY StepRefusals
  <1> QED BY <1>1, BookInvAlways, PTL DEF Spec, RefusalsTrue

\* Every step of the engine (process_command of engine.rs, with process_place,
\* match_at_level, rest_order and process_cancel of matching.rs) does to the
\* queues, and reports as trades, what the naive book of tests/fuzz.rs does:
\* price-time priority, for any capacity, prices, quantities and commands.
THEOREM EngineImplementsReference == Spec => ImplementsReference
  <1>1. Init => Reference!Init
    BY InitReference
  <1>2. IInv /\ BookInv /\ BookInv' /\ [Next]_vars
          => [Reference!Next]_(Reference!vars)
    BY StepReference
  <1>3. Spec => [](IInv /\ BookInv)
    BY BookInvAlways
  <1> QED BY <1>1, <1>2, <1>3, PTL DEF Spec, ImplementsReference, Reference!Spec

\* The getters and the state hash (order_count, spread, state_hash and the
\* depth of order_book.rs) are functions of the queues alone: books with the
\* same orders in the same order have the same hash, wherever in the arena
\* the orders lie.
THEOREM EngineGettersExact == Spec => []GettersExact
  <1>1. IInv /\ BookInv => GettersExact
    BY GettersStep
  <1>2. Spec => [](IInv /\ BookInv)
    BY BookInvAlways
  <1> QED BY <1>1, <1>2, PTL

-----------------------------------------------------------------------------
(* The engine in its thread (EngineThread) against the loop of EngineLoop, *)
(* where process_command is any sequence of events.                        *)

\* The theorems about EngineLoop, at the cells and depths of the book.
LoopProofs == INSTANCE EngineLoopProofs WITH
  Cells <- Sides \X Prices, NoCell <- <<>>,
  Depths <- [qty : Int, count : Int], NoDepth <- [qty |-> 0, count |-> 0],
  MaxEvents <- 2 * Capacity + 2,
  depth <- DepthOf(matcher), event_buffer <- Emitted

\* The events of the loop, and a buffer as the loop reads it.
LoopEvent == Loop!Delta \cup {Loop!Other}
AsDeltas(events) == [k \in DOMAIN events |-> AsDelta(events[k])]

LEMMA LoopConstants ==
  /\ /\ [qty |-> 0, count |-> 0] \in [qty : Int, count : Int]
     /\ <<>> \notin Sides \X Prices
  /\ 2 * Capacity + 2 \in Nat
  /\ InputSize \in Nat \ {0} /\ OutputSize \in Nat \ {0}
  BY CapacityAssumption, ThreadAssumption

LEMMA AsDeltaType ==
  ASSUME NEW e \in Event
  PROVE  AsDelta(e) \in LoopEvent
  <1>1. CASE e.kind = "BookDelta"
    <2>1. e.side \in Sides /\ e.price \in Prices
          /\ e.new_qty \in Int /\ e.new_count \in Int
      BY <1>1 DEF Event
    <2> QED BY <1>1, <2>1 DEF AsDelta, LoopEvent, Loop!Delta
  <1>2. CASE e.kind # "BookDelta"
    BY <1>2 DEF AsDelta, LoopEvent, Loop!Other
  <1> QED BY <1>1, <1>2

LEMMA AsDeltasType ==
  ASSUME NEW s \in Seq(Event)
  PROVE  /\ AsDeltas(s) \in Seq(LoopEvent) /\ Len(AsDeltas(s)) = Len(s)
         /\ DOMAIN AsDeltas(s) = DOMAIN s
         /\ DOMAIN s = 1 .. Len(s) /\ Len(s) \in Nat
         /\ \A k \in 1 .. Len(s) : AsDeltas(s)[k] = AsDelta(s[k])
  <1>1. DOMAIN s = 1 .. Len(s) /\ Len(s) \in Nat
        /\ \A k \in 1 .. Len(s) : s[k] \in Event
    BY LenProperties, ElementOfSeq
  <1>2. AsDeltas(s) = [k \in 1 .. Len(s) |-> AsDelta(s[k])]
    BY <1>1 DEF AsDeltas
  <1>3. \A k \in 1 .. Len(s) : AsDelta(s[k]) \in LoopEvent
    BY <1>1, AsDeltaType
  <1>4. AsDeltas(s) \in [1 .. Len(s) -> LoopEvent]
    BY <1>2, <1>3
  <1>5. AsDeltas(s) \in Seq(LoopEvent)
    BY <1>1, <1>4, SeqDef, Zenon
  <1>6. Len(AsDeltas(s)) = Len(s)
    BY <1>1, <1>4, <1>5
  <1> QED BY <1>1, <1>2, <1>5, <1>6

LEMMA AsDeltasConcat ==
  ASSUME NEW s \in Seq(Event), NEW t \in Seq(Event)
  PROVE  AsDeltas(s \o t) = AsDeltas(s) \o AsDeltas(t)
  <1> DEFINE x == AsDeltas(s)
             y == AsDeltas(t)
             z == AsDeltas(s \o t)
  <1>1. /\ s \o t \in Seq(Event) /\ Len(s \o t) = Len(s) + Len(t)
        /\ \A i \in 1 .. Len(s) + Len(t) :
             (s \o t)[i] = IF i <= Len(s) THEN s[i] ELSE t[i - Len(s)]
    BY ConcatProperties
  <1>2. /\ x \in Seq(LoopEvent) /\ Len(x) = Len(s) /\ Len(s) \in Nat
        /\ \A k \in 1 .. Len(s) : x[k] = AsDelta(s[k])
    BY AsDeltasType
  <1>3. /\ y \in Seq(LoopEvent) /\ Len(y) = Len(t) /\ Len(t) \in Nat
        /\ \A k \in 1 .. Len(t) : y[k] = AsDelta(t[k])
    BY AsDeltasType
  <1>4. /\ z \in Seq(LoopEvent) /\ Len(z) = Len(s \o t)
        /\ \A k \in 1 .. Len(s \o t) : z[k] = AsDelta((s \o t)[k])
    BY <1>1, AsDeltasType
  <1> HIDE DEF x, y, z
  <1>5. /\ x \o y \in Seq(LoopEvent) /\ Len(x \o y) = Len(x) + Len(y)
        /\ \A i \in 1 .. Len(x) + Len(y) :
             (x \o y)[i] = IF i <= Len(x) THEN x[i] ELSE y[i - Len(x)]
    <2>1. x \in Seq(LoopEvent) /\ y \in Seq(LoopEvent)
      BY <1>2, <1>3
    <2> QED BY <2>1, ConcatProperties
  <1>6. ASSUME NEW i \in 1 .. Len(z) PROVE z[i] = (x \o y)[i]
    <2>1. CASE i <= Len(s)
      BY <1>1, <1>2, <1>3, <1>4, <1>5, <2>1
    <2>2. CASE i > Len(s)
      <3>1. i - Len(s) \in 1 .. Len(t) /\ i \in 1 .. Len(s) + Len(t)
        BY <1>1, <1>2, <1>3, <1>4, <2>2
      <3>2. (s \o t)[i] = t[i - Len(s)] /\ (x \o y)[i] = y[i - Len(s)]
        BY <1>1, <1>2, <1>3, <1>5, <2>2, <3>1
      <3> QED BY <1>1, <1>3, <1>4, <3>1, <3>2
    <2> QED BY <1>2, <1>4, <1>1, <1>3, <2>1, <2>2
  <1>7. z = x \o y
    BY <1>1, <1>2, <1>3, <1>4, <1>5, <1>6, SeqEqual
  <1> QED BY <1>7 DEF x, y, z

\* What the deltas among events tell of a level is what follows from them.
LEMMA FollowsTold ==
  ASSUME NEW events \in Seq(Event), NEW m, NEW n, DepthTold(events, m, n),
         NEW side \in Sides, NEW p \in Prices
  PROVE  LoopProofs!Follows(AsDeltas(events), <<side, p>>, DepthAt(m, side, p))
           = DepthAt(n, side, p)
  <1> DEFINE s == AsDeltas(events)
             c == <<side, p>>
             here == {k \in DOMAIN events : /\ events[k].kind = "BookDelta"
                                            /\ events[k].side = side
                                            /\ events[k].price = p}
             last == events[Max(here)]
  <1>1. DepthAt(n, side, p) =
          IF here = {} THEN DepthAt(m, side, p)
          ELSE [qty |-> last.new_qty, count |-> last.new_count]
    BY DEF DepthTold
  <1>2. /\ DOMAIN s = DOMAIN events /\ DOMAIN events = 1 .. Len(events)
        /\ Len(events) \in Nat
        /\ \A k \in DOMAIN events : s[k] = AsDelta(events[k])
    BY AsDeltasType
  <1>3. LoopProofs!AboutIn(s, c) = here
    <2>1. ASSUME NEW k \in DOMAIN events
          PROVE  c \in LoopProofs!About(s[k]) <=> k \in here
      <3>1. CASE events[k].kind = "BookDelta"
        <4>1. s[k].cell = <<events[k].side, events[k].price>>
          BY <1>2, <3>1 DEF AsDelta
        <4> HIDE DEF s
        <4> QED BY <3>1, <4>1 DEF LoopProofs!About
      <3>2. CASE events[k].kind # "BookDelta"
        <4>1. s[k].cell = <<>>
          BY <1>2, <3>2 DEF AsDelta
        <4> HIDE DEF s
        <4> QED BY <3>2, <4>1 DEF LoopProofs!About
      <3> QED BY <3>1, <3>2
    <2> HIDE DEF s, c
    <2> QED BY <1>2, <2>1 DEF LoopProofs!AboutIn
  <1> HIDE DEF s, c
  <1>4. CASE here = {}
    <2>1. LoopProofs!Follows(s, c, DepthAt(m, side, p)) = DepthAt(m, side, p)
      <3>1. LoopProofs!AboutIn(s, c) = {}
        BY <1>3, <1>4, Zenon
      <3> QED BY <3>1, LoopConstants, LoopProofs!FollowsIs, Zenon
    <2> QED BY <1>1, <1>4, <2>1, Zenon DEF s, c
  <1>5. CASE here # {}
    <2>1. PICK k \in here : LoopProofs!IsLast(k, here)
      BY <1>2, <1>5, LoopConstants, LoopProofs!LastExists
    <2>2. LoopProofs!Follows(s, c, DepthAt(m, side, p)) = s[k].depth
      <3>1. DOMAIN s \subseteq Int
        BY <1>2
      <3>2. LoopProofs!IsLast(k, LoopProofs!AboutIn(s, c))
        BY <1>3, <2>1, Zenon
      <3> QED BY <3>1, <3>2, LoopConstants, LoopProofs!FollowsLast, Zenon
    <2>3. Max(here) = k
      <3>1. here \subseteq Int
        BY <1>2
      <3> HIDE DEF here
      <3>2. k \in Int /\ \A j \in here : k >= j
        BY <2>1, <3>1 DEF LoopProofs!IsLast
      <3>3. ASSUME NEW x \in here, \A j \in here : x >= j PROVE x = k
        BY <2>1, <3>1, <3>2, <3>3
      <3> QED BY <2>1, <3>2, <3>3, Zenon DEF Max
    <2>4. s[k].depth = [qty |-> events[k].new_qty, count |-> events[k].new_count]
      BY <1>2 DEF AsDelta
    <2> QED BY <1>1, <1>5, <2>2, <2>3, <2>4, Zenon DEF s, c
  <1> QED BY <1>4, <1>5 DEF s, c

\* A step that adds events which tell of the change it makes to the depth.
LEMMA EmitsToLoop ==
  ASSUME busy, UNCHANGED <<input, busy, sent, output, view, stale>>,
         NEW new \in Seq(Event), DepthTold(new, matcher, matcher'),
         Emitted \in Seq(LoopEvent), Emitted' = Emitted \o AsDeltas(new),
         Len(Emitted) + Len(new) <= 2 * Capacity + 2
  PROVE  [Loop!Next]_(Loop!vars)
  <1> DEFINE s == AsDeltas(new)
  <1>1. s \in Seq(LoopEvent) /\ Len(s) = Len(new) /\ Len(new) \in Nat
    BY AsDeltasType
  <1>2. DepthOf(matcher)' = Loop!Apply(DepthOf(matcher), s)
    <2>1. ASSUME NEW c \in Sides \X Prices
          PROVE  Loop!Follows(s, c, DepthOf(matcher)[c]) = DepthOf(matcher')[c]
      <3>1. PICK side \in Sides, p \in Prices : c = <<side, p>>
        OBVIOUS
      <3>2. DepthOf(matcher)[c] = DepthAt(matcher, side, p)
            /\ DepthOf(matcher')[c] = DepthAt(matcher', side, p)
        BY <3>1 DEF DepthOf
      <3>3. LoopProofs!Follows(s, c, DepthAt(matcher, side, p))
              = DepthAt(matcher', side, p)
        BY <3>1, FollowsTold
      <3>4. LoopProofs!Follows(s, c, DepthAt(matcher, side, p))
              = Loop!Follows(s, c, DepthAt(matcher, side, p))
        BY DEF LoopProofs!Follows, Loop!Follows, LoopProofs!About, Loop!About
      <3> QED BY <3>2, <3>3, <3>4
    <2>2. DepthOf(matcher') = [c \in Sides \X Prices |-> DepthOf(matcher')[c]]
      BY DEF DepthOf
    <2>3. Loop!Apply(DepthOf(matcher), s)
            = [c \in Sides \X Prices |->
                 Loop!Follows(s, c, DepthOf(matcher)[c])]
      BY DEF Loop!Apply
    <2> HIDE DEF s
    <2> QED BY <2>1, <2>2, <2>3
  <1> HIDE DEF s
  <1>3. CASE Len(new) = 0
    <2>1. s = <<>> /\ new = <<>>
      BY <1>1, <1>3, EmptySeq
    <2>2. Emitted' = Emitted
      BY <2>1 DEF s
    <2>3. DepthOf(matcher)' = DepthOf(matcher)
      <3>1. \A side \in Sides, p \in Prices :
              DepthAt(matcher', side, p) = DepthAt(matcher, side, p)
        BY <2>1 DEF DepthTold
      <3> QED BY <3>1 DEF DepthOf
    <2> QED BY <2>2, <2>3 DEF Loop!vars
  <1>4. CASE Len(new) # 0
    <2>1. s \in Loop!Bursts
      <3>1. s \in [1 .. Len(new) -> LoopEvent]
        BY <1>1
      <3>2. Len(new) \in 1 .. 2 * Capacity + 2
        BY <1>1, <1>4, EmptySeq, LoopConstants
      <3> QED BY <3>1, <3>2, Zenon DEF Loop!Bursts, LoopEvent
    <2>2. Loop!EmitEvents(s)
      BY <1>1, <1>2 DEF Loop!EmitEvents, s
    <2> QED BY <2>1, <2>2, Zenon DEF Loop!Next, Loop!EngineStep
  <1> QED BY <1>3, <1>4

LEMMA EmittedIs ==
  /\ ~(busy /\ ~begun) => Emitted = AsDeltas(event_buffer)
  /\ busy /\ ~begun => Emitted = <<>>
  BY DEF Emitted, AsDeltas

LEMMA EmittedNext ==
  /\ ~(busy /\ ~begun)' => Emitted' = AsDeltas(event_buffer')
  /\ (busy /\ ~begun)' => Emitted' = <<>>
  BY DEF Emitted, AsDeltas

LEMMA BothInSeq ==
  ASSUME NEW S, NEW s \in Seq(S), NEW a, NEW b, s \o <<a, b>> \in Seq(S)
  PROVE  <<a, b>> \in Seq(S)
  <1> DEFINE u == s \o <<a, b>>
             T == S \cup {a, b}
  <1>1. s \in Seq(T) /\ <<a, b>> \in Seq(T) /\ Len(<<a, b>>) = 2
        /\ Len(s) \in Nat
    BY SeqMonotonic
  <1>2. /\ Len(u) = Len(s) + 2
        /\ u[Len(s) + 1] = a /\ u[Len(s) + 2] = b
    BY <1>1, ConcatProperties
  <1> HIDE DEF u
  <1>3. u[Len(s) + 1] \in S /\ u[Len(s) + 2] \in S
    BY <1>1, <1>2, ElementOfSeq DEF u
  <1> QED BY <1>2, <1>3

LEMMA TwoAdded ==
  ASSUME pc # "idle", event_buffer \in Seq(Event), event_buffer' \in Seq(Event),
         NEW a, NEW b, event_buffer' = event_buffer \o <<a, b>>
  PROVE  NewEvents \in Seq(Event) /\ event_buffer' = event_buffer \o NewEvents
  <1>1. NewEvents = <<a, b>>
    BY AddsTwo
  <1>2. <<a, b>> \in Seq(Event)
    BY BothInSeq
  <1> QED BY <1>1, <1>2

\* While a command runs its steps add to the buffer.
LEMMA ContinueAdds ==
  ASSUME IInv, IInv', pc = "cross", Continue, ~UNCHANGED vars
  PROVE  NewEvents \in Seq(Event) /\ event_buffer' = event_buffer \o NewEvents
  <1>1. event_buffer \in Seq(Event) /\ event_buffer' \in Seq(Event) /\ pc # "idle"
    BY DEF IInv, TypeOK
  <1>2. ASSUME NEW p \in DOMAIN matcher.levels[MakerSide], Match(p)
        PROVE  NewEvents \in Seq(Event) /\ event_buffer' = event_buffer \o NewEvents
    <2>1. TradeWithHead(p)
      BY <1>2 DEF Match, vars
    <2>2. PICK a, b : event_buffer' = event_buffer \o <<a, b>>
      BY <2>1, Zenon DEF TradeWithHead
    <2> QED BY <1>1, <2>2, TwoAdded
  <1>3. CASE RestRemainder
    <2>1. PICK a, b : event_buffer' = event_buffer \o <<a, b>>
      BY <1>3, Zenon DEF RestRemainder
    <2> QED BY <1>1, <2>1, TwoAdded
  <1>4. CASE RejectRemainder
    <2> DEFINE e == OrderRejected(taker.order_id, "ArenaFull")
    <2>1. e \in Event /\ event_buffer' = Append(event_buffer, e)
      BY <1>4, TakerType, RejectedType DEF RejectRemainder
    <2> HIDE DEF e
    <2>2. NewEvents = <<e>>
      BY <1>1, <2>1, AddedOne DEF NewEvents
    <2> QED BY <1>1, <2>1, <2>2
  <1>5. CASE CompletePlace
    <2>1. UNCHANGED event_buffer
      BY <1>5 DEF CompletePlace
    <2>2. NewEvents = <<>>
      BY <1>1, <2>1, AddedNone DEF NewEvents
    <2> QED BY <1>1, <2>1, <2>2, ConcatEmptySeq
  <1> QED BY <1>2, <1>3, <1>4, <1>5 DEF Continue

\* The engine's own steps, while the loop waits for process_command.
LEMMA BeginImplementsLoop ==
  ASSUME IInv, BookInv, IInv', EventsPaid', BeginCommand
  PROVE  [Loop!Next]_(Loop!vars)
  <1>1. /\ busy /\ ~begun /\ busy' /\ begun'
        /\ UNCHANGED <<input, busy, sent, output, view, stale>>
        /\ \E cmd \in Command : ProcessCommand(cmd)
    BY DEF BeginCommand, ring
  <1>2. Emitted = <<>> /\ Emitted' = AsDeltas(event_buffer')
    BY <1>1, EmittedIs, EmittedNext
  <1>3. pc = "idle" /\ event_buffer' \in Seq(Event)
    BY <1>1 DEF ProcessCommand, Place, Cancel, Modify, IInv, TypeOK
  <1>4. NewEvents = event_buffer'
    BY <1>3 DEF NewEvents
  <1>5. DepthTold(event_buffer', matcher, matcher')
    BY <1>1, <1>4, CommandDeltas
  <1>6. Len(event_buffer') <= 2 * Capacity + 2
    BY DEF EventsPaid, EventsBounded
  <1>7. AsDeltas(event_buffer') \in Seq(LoopEvent)
    BY <1>3, AsDeltasType
  <1>8. /\ Emitted \in Seq(LoopEvent) /\ Len(Emitted) = 0
        /\ Emitted' = Emitted \o AsDeltas(event_buffer')
    BY <1>2, <1>7, ConcatEmptySeq, EmptySeq
  <1>9. Len(Emitted) + Len(event_buffer') <= 2 * Capacity + 2
    BY <1>3, <1>6, <1>8
  <1> QED BY <1>1, <1>3, <1>5, <1>8, <1>9, EmitsToLoop

LEMMA ContinueImplementsLoop ==
  ASSUME IInv, BookInv, IInv', EventsPaid', ContinueCommand
  PROVE  [Loop!Next]_(Loop!vars)
  <1>1. /\ busy /\ begun /\ busy' /\ begun'
        /\ UNCHANGED <<input, busy, sent, output, view, stale>>
        /\ pc = "cross" /\ Continue
    BY DEF ContinueCommand, ring
  <1>2. Emitted = AsDeltas(event_buffer) /\ Emitted' = AsDeltas(event_buffer')
    BY <1>1, EmittedIs, EmittedNext
  <1>3. CASE UNCHANGED vars
    <2>1. Emitted' = Emitted /\ DepthOf(matcher)' = DepthOf(matcher)
      BY <1>2, <1>3 DEF vars
    <2> QED BY <1>1, <2>1 DEF Loop!vars
  <1>4. CASE ~UNCHANGED vars
    <2>1. NewEvents \in Seq(Event) /\ event_buffer' = event_buffer \o NewEvents
      BY <1>1, <1>4, ContinueAdds
    <2>2. DepthTold(NewEvents, matcher, matcher')
      BY <1>1, <1>4, StepDeltas DEF Next
    <2>3. event_buffer \in Seq(Event)
      BY DEF IInv, TypeOK
    <2> DEFINE new == NewEvents
    <2> HIDE DEF new
    <2>4. new \in Seq(Event) /\ event_buffer' = event_buffer \o new
          /\ DepthTold(new, matcher, matcher')
      BY <2>1, <2>2 DEF new
    <2>5. Emitted' = Emitted \o AsDeltas(new)
      BY <1>2, <2>3, <2>4, AsDeltasConcat
    <2>6. Emitted \in Seq(LoopEvent) /\ Len(Emitted) = Len(event_buffer)
      BY <1>2, <2>3, AsDeltasType
    <2>7. Len(event_buffer') = Len(event_buffer) + Len(new)
      BY <2>3, <2>4, ConcatProperties
    <2>8. Len(Emitted) + Len(new) <= 2 * Capacity + 2
      BY <2>6, <2>7 DEF EventsPaid, EventsBounded
    <2> QED BY <1>1, <2>4, <2>5, <2>6, <2>8, EmitsToLoop
  <1> QED BY <1>3, <1>4

\* The steps of the loop itself.
LEMMA RunImplementsLoop ==
  ASSUME TakeCommand \/ ReturnEvents \/ PushEvent \/ PushCommand \/ PopEvent
  PROVE  Loop!Next
  <1>1. CASE TakeCommand
    <2>1. Loop!PopCommand
      BY <1>1 DEF TakeCommand
    <2> QED BY <2>1 DEF Loop!Next, Loop!EngineStep
  <1>2. CASE ReturnEvents
    <2>1. busy /\ ~busy' /\ begun /\ begun'
          /\ UNCHANGED <<vars, ring>>
      BY <1>2 DEF ReturnEvents
    <2>2. Emitted' = Emitted
      BY <2>1, EmittedIs, EmittedNext DEF vars
    <2>3. DepthOf(matcher)' = DepthOf(matcher)
      BY <2>1 DEF vars
    <2>4. Loop!CommandDone
      BY <1>2, <2>1, <2>2, <2>3 DEF Loop!CommandDone, ReturnEvents, ring
    <2> QED BY <2>4 DEF Loop!Next, Loop!EngineStep
  <1>3. CASE PushEvent
    BY <1>3 DEF PushEvent, Loop!Next, Loop!EngineStep
  <1>4. CASE PushCommand
    BY <1>4 DEF PushCommand, Loop!Next
  <1>5. CASE PopEvent
    BY <1>5 DEF PopEvent, Loop!Next
  <1> QED BY <1>1, <1>2, <1>3, <1>4, <1>5

LEMMA InitImplementsLoop == ThreadInit => Loop!Init
  <1> SUFFICES ASSUME ThreadInit PROVE Loop!Init
    OBVIOUS
  <1>1. Emitted = <<>>
    <2>1. busy = FALSE /\ event_buffer = <<>>
      BY DEF ThreadInit, Init
    <2>2. Emitted = AsDeltas(event_buffer)
      BY <2>1, EmittedIs
    <2>3. AsDeltas(<<>>) = <<>>
      BY DEF AsDeltas
    <2> QED BY <2>1, <2>2, <2>3
  <1>2. DepthOf(matcher) = [c \in Sides \X Prices |-> [qty |-> 0, count |-> 0]]
    <2>1. ASSUME NEW side \in Sides, NEW p \in Prices
          PROVE  DepthAt(matcher, side, p) = [qty |-> 0, count |-> 0]
      BY DEF ThreadInit, Init, NewMatcher, DepthAt
    <2> QED BY <2>1 DEF DepthOf
  <1> QED BY <1>1, <1>2 DEF ThreadInit, Loop!Init

\* A step of the thread is a step of its engine, or none.
LEMMA ThreadStep == [ThreadNext]_threadVars => [Next]_vars
  <1> SUFFICES ASSUME [ThreadNext]_threadVars PROVE [Next]_vars
    OBVIOUS
  <1>1. CASE BeginCommand \/ ContinueCommand
    BY <1>1 DEF BeginCommand, ContinueCommand, Next
  <1>2. CASE ~(BeginCommand \/ ContinueCommand)
    BY <1>2 DEF ThreadNext, RunStep, TakeCommand, ReturnEvents, PushEvent,
                PushCommand, PopEvent, threadVars
  <1> QED BY <1>1, <1>2

\* In its thread the engine is the Engine of the other theorems: the rings and
\* the subscriber add no step to it.
THEOREM ThreadImplementsEngine == ThreadSpec => Init /\ [][Next]_vars
  <1>1. ThreadInit => Init
    BY DEF ThreadInit
  <1> QED BY <1>1, ThreadStep, PTL DEF ThreadSpec

LEMMA ThreadInvAlways == ThreadSpec => [](IInv /\ BookInv /\ EventsPaid)
  <1>1. ThreadInit => IInv /\ BookInv /\ EventsPaid
    BY InitIInv, InitBookInv, InitEventsPaid DEF ThreadInit
  <1>2. (IInv /\ BookInv /\ EventsPaid) /\ [ThreadNext]_threadVars
          => (IInv /\ BookInv /\ EventsPaid)'
    BY ThreadStep, StepIInv, StepBookInv, StepEventsPaid
  <1> QED BY <1>1, <1>2, PTL DEF ThreadSpec

LEMMA StepImplementsLoop ==
  ASSUME IInv, BookInv, IInv', EventsPaid', [ThreadNext]_threadVars
  PROVE  [Loop!Next]_(Loop!vars)
  <1>1. CASE UNCHANGED threadVars
    <2>1. Emitted' = Emitted /\ DepthOf(matcher)' = DepthOf(matcher)
      BY <1>1 DEF threadVars, vars, Emitted
    <2> QED BY <1>1, <2>1 DEF threadVars, ring, Loop!vars
  <1> QED BY <1>1, BeginImplementsLoop, ContinueImplementsLoop,
             RunImplementsLoop DEF ThreadNext, RunStep

\* The loop with the engine in it is the loop of EngineLoop: what the engine
\* emits in a step is one of its bursts, and the buffer keeps to MaxEvents.
THEOREM ThreadImplementsLoop ==
  ThreadSpec => Loop!Init /\ [][Loop!Next]_(Loop!vars)
  <1>1. (IInv /\ BookInv /\ EventsPaid) /\ (IInv /\ BookInv /\ EventsPaid)'
          /\ [ThreadNext]_threadVars => [Loop!Next]_(Loop!vars)
    BY StepImplementsLoop
  <1> QED BY <1>1, InitImplementsLoop, ThreadInvAlways, PTL DEF ThreadSpec

LEMMA SameNext == [Loop!Next]_(Loop!vars) => [LoopProofs!Next]_(LoopProofs!vars)
  BY Zenon DEF Loop!Next, LoopProofs!Next, Loop!vars, LoopProofs!vars,
     Loop!SendCommand, LoopProofs!SendCommand,
     Loop!EngineStep, LoopProofs!EngineStep,
     Loop!PopCommand, LoopProofs!PopCommand,
     Loop!EmitEvents, LoopProofs!EmitEvents,
     Loop!CommandDone, LoopProofs!CommandDone,
     Loop!PublishEvent, LoopProofs!PublishEvent,
     Loop!ReceiveEvent, LoopProofs!ReceiveEvent,
     Loop!Published, LoopProofs!Published,
     Loop!Apply, LoopProofs!Apply, Loop!Follows, LoopProofs!Follows,
     Loop!About, LoopProofs!About, Loop!Bursts, LoopProofs!Bursts,
     Loop!Delta, LoopProofs!Delta, Loop!Other, LoopProofs!Other

LEMMA SameInit == Loop!Init => LoopProofs!Init
  BY DEF Loop!Init, LoopProofs!Init

\* A subscriber of the engine thread has the depth of the engine's book,
\* whatever it missed, once it has read what is on its way.
THEOREM ThreadSubscriberFollowsBook == ThreadSpec => []SubscriberFollowsBook
  <1>1. Loop!Init => LoopProofs!IInv
    BY SameInit, LoopConstants, LoopProofs!InitIInv
  <1>2. LoopProofs!IInv /\ [Loop!Next]_(Loop!vars) => LoopProofs!IInv'
    BY SameNext, LoopConstants, LoopProofs!NextIInv
  <1>3. LoopProofs!IInv => SubscriberFollowsBook
    BY Zenon
       DEF LoopProofs!IInv, LoopProofs!ViewFollowsBook, SubscriberFollowsBook,
           Loop!ViewFollowsBook, LoopProofs!Pending, Loop!Pending,
           LoopProofs!Follows, Loop!Follows, LoopProofs!About, Loop!About
  <1> QED BY <1>1, <1>2, <1>3, ThreadImplementsLoop, PTL
=============================================================================
