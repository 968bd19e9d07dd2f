---------------------------- MODULE ReplayProofs ----------------------------
(***************************************************************************)
(* Theorems about Replay, for every feed, limit and hash, collisions and   *)
(* decimals that do not fit included, and every engine.                    *)
(***************************************************************************)
EXTENDS Replay, EngineRefinement

(* Conversions.                                                            *)

LEMMA UnsignedIs ==
  ASSUME NEW d, NEW max
  PROVE  LET fits == {x \div DIGITS : x \in d} \cap 0 .. max
         IN  ToUnsigned(d, max) \in IF fits = {} THEN {0} ELSE fits
  BY DEF ToUnsigned

\* The order that a received row becomes.
OrderOf(r) ==
  [order_id |-> Hash[r.order_id], user_id |-> 1, side |-> ToSide(r.side),
   price |-> ToPrice(r.price), qty |-> ToQty(r.amount), order_type |-> "Limit"]

LEMMA RowFields ==
  ASSUME NEW r \in OrderRow
  PROVE  /\ r.type = "received" /\ r.order_id \in RawIds
         /\ r.price \in RawPrices /\ r.amount \in RawAmounts
  BY DEF OrderRow, Row

LEMMA OrderOfType ==
  ASSUME NEW r \in OrderRow
  PROVE  OrderOf(r) \in PlaceOrder
  <1>1. Hash[r.order_id] \in OrderIds /\ ToPrice(r.price) \in Prices
        /\ ToQty(r.amount) \in Qtys
    BY RowFields, FeedAssumption
  <1>2. ToSide(r.side) \in Sides
    BY DEF ToSide, Sides
  <1>3. 1 \in UserIds
    BY ReplayAssumption
  <1> QED BY <1>1, <1>2, <1>3 DEF OrderOf, PlaceOrder, OrderTypes

LEMMA ReceivedPlaces ==
  ASSUME NEW r \in OrderRow, Received(r)
  PROVE  Place(OrderOf(r))
  <1>1. PICK msg \in ToMessage(r) : Place(ToPlace(msg))
    BY DEF Received
  <1>2. msg = [kind |-> "Received", order_id |-> Hash[r.order_id],
               side |-> ToSide(r.side), price |-> ToPrice(r.price),
               qty |-> ToQty(r.amount)]
    BY <1>1, RowFields DEF ToMessage
  <1>3. ToPlace(msg) = OrderOf(r)
    BY <1>2 DEF ToPlace, OrderOf
  <1> QED BY <1>1, <1>3

\* A done row cancels the id of its hash.
LEMMA DoneCancels ==
  ASSUME NEW r \in PlainRow("done"), Done(r)
  PROVE  Cancel(Hash[r.order_id]) /\ r.order_id \in RawIds
  <1>1. r.type = "done" /\ r.order_id \in RawIds
    BY DEF PlainRow, Row
  <1>2. PICK msg \in ToMessage(r) :
          IF msg.reason = "Canceled" THEN Cancel(msg.order_id) ELSE UNCHANGED vars
    BY DEF Done
  <1>3. msg = [kind |-> "Done", order_id |-> Hash[r.order_id],
               side |-> ToSide(r.side), reason |-> "Canceled"]
    BY <1>1, <1>2 DEF ToMessage, ToDone
  <1> QED BY <1>1, <1>2, <1>3

-----------------------------------------------------------------------------
(* The program is a client of the engine: its steps are commands, steps of  *)
(* a command, or nothing to the engine.                                     *)

LEMMA StepOfEngine == [ReplayNext]_allvars => [Next]_vars
  <1> SUFFICES ASSUME [ReplayNext]_allvars PROVE [Next]_vars
    OBVIOUS
  <1>1. ASSUME NEW r \in OrderRow, Received(r) PROVE Next
    <2> DEFINE cmd == [kind |-> "Place", order |-> OrderOf(r)]
    <2>1. Place(OrderOf(r)) /\ OrderOf(r) \in PlaceOrder
      BY <1>1, ReceivedPlaces, OrderOfType
    <2>2. cmd \in Command
      BY <2>1 DEF Command
    <2>3. cmd.kind = "Place" /\ cmd.order = OrderOf(r)
      OBVIOUS
    <2> HIDE DEF cmd
    <2> QED BY <2>1, <2>2, <2>3 DEF Next, ProcessCommand
  <1>2. ASSUME NEW r \in PlainRow("done"), Done(r) PROVE Next
    <2> DEFINE cmd == [kind |-> "Cancel", order_id |-> Hash[r.order_id]]
    <2>1. Cancel(Hash[r.order_id]) /\ Hash[r.order_id] \in OrderIds
      BY <1>2, DoneCancels, FeedAssumption
    <2>2. cmd \in Command
      BY <2>1 DEF Command
    <2>3. cmd.kind = "Cancel" /\ cmd.order_id = Hash[r.order_id]
      OBVIOUS
    <2> HIDE DEF cmd
    <2> QED BY <2>1, <2>2, <2>3 DEF Next, ProcessCommand
  <1>3. CASE Placing
    BY <1>3 DEF Placing, Next
  <1>4. CASE CountTrades \/ End \/ UNCHANGED allvars
    BY <1>4 DEF CountTrades, End, allvars
  <1>5. ASSUME NEW r, Matched(r) \/ Ignored(r) PROVE UNCHANGED vars
    BY <1>5 DEF Matched, Ignored
  <1> QED BY <1>1, <1>2, <1>3, <1>4, <1>5 DEF ReplayNext

EInv == IInv /\ BookInv

LEMMA InitEInv == ReplayInit => EInv
  BY InitIInv, InitBookInv DEF ReplayInit, EInv

LEMMA StepEInv == EInv /\ [ReplayNext]_allvars => EInv'
  BY StepOfEngine, StepIInv, StepBookInv DEF EInv

-----------------------------------------------------------------------------
(* The book and the feed.                                                   *)

LEMMA TimesMonotone ==
  ASSUME NEW x \in Int, NEW y \in Int, x <= y, NEW d \in Nat
  PROVE  x * d <= y * d
  <1>1. (y - x) \in Nat /\ y * d = x * d + (y - x) * d
    OBVIOUS
  <1>2. \A e \in Nat : e * d \in Nat
    OBVIOUS
  <1> HIDE DEF TimesMonotone
  <1>3. (y - x) * d \in Nat
    BY <1>1, <1>2
  <1>4. x * d \in Int
    OBVIOUS
  <1> QED BY <1>1, <1>3, <1>4

LEMMA QuotientBelow ==
  ASSUME NEW a \in Int, NEW d \in Nat \ {0}
  PROVE  a \div d \in Int /\ (a \div d) * d <= a
  OBVIOUS

PriceFrom(price, d) ==
  LET prices == {x \div DIGITS : x \in d} \cap 0 .. U64_MAX
  IN  price \in IF prices = {} THEN {0} ELSE prices

\* Order id of m is one of row r.
FromRow(m, id, raw, r) ==
  /\ Hash[raw] = id
  /\ m.order_map[id].side = ToSide(r.side)
  /\ PriceFrom(m.order_map[id].price, r.price)
  /\ \E a \in r.amount : OpenQty(m, id) * DIGITS <= a

RowOf(m, id, o) == \E raw \in RawIds : \E r \in o[raw] : FromRow(m, id, raw, r)

FromFeed(m, o) == \A id \in DOMAIN m.order_map : RowOf(m, id, o)

LEMMA BookFromFeedIs == BookFromFeed <=> FromFeed(matcher, open)
  BY Zenon DEF BookFromFeed, FromFeed, RowOf, FromRow, PriceFrom

\* The orders of n are orders of m, of which no more is open.
NoMoreOpen(n, m) ==
  \A id \in DOMAIN n.order_map :
    /\ id \in DOMAIN m.order_map
    /\ n.order_map[id].side = m.order_map[id].side
    /\ n.order_map[id].price = m.order_map[id].price
    /\ OpenQty(n, id) <= OpenQty(m, id)

OpenRows(o) ==
  o = [raw \in RawIds |-> o[raw]] /\ \A raw \in RawIds : o[raw] \subseteq OrderRow

LEMMA RowAmount ==
  ASSUME NEW r \in OrderRow
  PROVE  r.amount \subseteq Int
  BY RowFields, FeedAssumption

LEMMA LessOpenFromRow ==
  ASSUME NEW m, MatcherType(m), NEW n, MatcherType(n), NoMoreOpen(n, m),
         NEW id \in DOMAIN n.order_map, NEW raw, NEW r \in OrderRow,
         FromRow(m, id, raw, r)
  PROVE  FromRow(n, id, raw, r)
  <1>1. PICK a \in r.amount : OpenQty(m, id) * DIGITS <= a
    BY DEF FromRow
  <1>2. a \in Int /\ DIGITS \in Nat
    BY RowAmount, FeedAssumption
  <1>3. OpenQty(n, id) \in Int /\ OpenQty(m, id) \in Int
        /\ OpenQty(n, id) <= OpenQty(m, id)
    BY OpenInt DEF NoMoreOpen
  <1>4. OpenQty(n, id) * DIGITS <= OpenQty(m, id) * DIGITS
    BY <1>2, <1>3, TimesMonotone
  <1>5. OpenQty(n, id) * DIGITS <= a
    <2> DEFINE x == OpenQty(n, id) * DIGITS
               y == OpenQty(m, id) * DIGITS
    <2>1. x \in Int /\ y \in Int
      BY <1>2, <1>3
    <2>2. x <= y /\ y <= a
      BY <1>1, <1>4
    <2> HIDE DEF x, y
    <2>3. x <= a
      BY <1>2, <2>1, <2>2
    <2> QED BY <2>3 DEF x
  <1> QED BY <1>1, <1>5, Zenon DEF FromRow, NoMoreOpen

LEMMA LessOpenFromFeed ==
  ASSUME NEW m, MatcherType(m), NEW n, MatcherType(n), NoMoreOpen(n, m),
         NEW o, OpenRows(o), FromFeed(m, o)
  PROVE  FromFeed(n, o)
  <1> SUFFICES ASSUME NEW id \in DOMAIN n.order_map PROVE RowOf(n, id, o)
    BY Zenon DEF FromFeed
  <1>1. id \in DOMAIN m.order_map
    BY Zenon DEF NoMoreOpen
  <1>2. PICK raw \in RawIds : \E r \in o[raw] : FromRow(m, id, raw, r)
    BY <1>1, Zenon DEF FromFeed, RowOf
  <1>3. PICK r \in o[raw] : FromRow(m, id, raw, r)
    BY <1>2
  <1>4. r \in OrderRow
    BY <1>3, Zenon DEF OpenRows
  <1>5. FromRow(n, id, raw, r)
    BY <1>3, <1>4, LessOpenFromRow
  <1> QED BY <1>3, <1>5, Zenon DEF RowOf

\* Cancels and trades leave no more open than there was.
LEMMA CancelNoMore ==
  ASSUME NEW m, MatcherType(m), Orderly(m), NEW id \in DOMAIN m.order_map
  PROVE  NoMoreOpen(CancelOrder(m, id), m)
  <1> DEFINE n == CancelOrder(m, id)
  <1>1. /\ DOMAIN n.order_map = DOMAIN m.order_map \ {id}
        /\ \A x \in DOMAIN m.order_map \ {id} : n.order_map[x] = m.order_map[x]
    BY CancelEffect
  <1>2. OpenBut(n, m, id)
    BY CancelOpen
  <1>3. DOMAIN m.order_map \subseteq OrderIds
    BY DEF MatcherType, MapType
  <1>4. \A x : OpenQty(m, x) \in Int
    BY OpenInt
  <1> HIDE DEF n
  <1> SUFFICES ASSUME NEW x \in DOMAIN n.order_map
               PROVE  /\ x \in DOMAIN m.order_map
                      /\ n.order_map[x].side = m.order_map[x].side
                      /\ n.order_map[x].price = m.order_map[x].price
                      /\ OpenQty(n, x) <= OpenQty(m, x)
    BY Zenon DEF NoMoreOpen, n
  <1>5. OpenQty(n, x) = OpenQty(m, x)
    BY <1>1, <1>2, <1>3 DEF OpenBut
  <1> QED BY <1>1, <1>4, <1>5

LEMMA ReduceNoMore ==
  ASSUME NEW m, MatcherType(m), Orderly(m), NEW side \in Sides,
         NEW p \in DOMAIN m.levels[side], NEW qty \in Nat
  PROVE  NoMoreOpen(ReduceMaker(m, side, p, qty), m)
  <1> DEFINE n == ReduceMaker(m, side, p, qty)
             id == m.arena.nodes[m.levels[side][p].head].order_id
  <1>1. n.order_map = m.order_map
    <2>1. Reduced(n, m, side, p, qty)
      BY ReduceEffect, SMTT(30)
    <2> HIDE DEF n
    <2> QED BY <2>1, Zenon DEF Reduced
  <1>2. OpenBut(n, m, id) /\ OpenQty(n, id) = OpenQty(m, id) - qty
    BY ReduceOpen
  <1>3. DOMAIN m.order_map \subseteq OrderIds
    BY DEF MatcherType, MapType
  <1>4. \A x : OpenQty(m, x) \in Int
    BY OpenInt
  <1> HIDE DEF n, id
  <1> SUFFICES ASSUME NEW x \in DOMAIN m.order_map
               PROVE  OpenQty(n, x) <= OpenQty(m, x)
    BY <1>1, Zenon DEF NoMoreOpen, n
  <1>5. OpenQty(n, x) = OpenQty(m, x) \/ OpenQty(n, x) = OpenQty(m, x) - qty
    BY <1>2, <1>3 DEF OpenBut
  <1> QED BY <1>4, <1>5

LEMMA SameNoMore ==
  ASSUME NEW m, MatcherType(m)
  PROVE  NoMoreOpen(m, m)
  <1>1. \A x : OpenQty(m, x) \in Int
    BY OpenInt
  <1>2. \A x : OpenQty(m, x) <= OpenQty(m, x)
    BY <1>1
  <1> QED BY <1>2, Zenon DEF NoMoreOpen

\* What a trade takes from the taker, and leaves of the book.
LEMMA TradeNoMore ==
  ASSUME IInv, BookInv, pc = "cross",
         NEW p \in DOMAIN matcher.levels[MakerSide], TradeWithHead(p)
  PROVE  NoMoreOpen(matcher', matcher)
  <1> DEFINE S == MakerSide
             maker == matcher.arena.nodes[matcher.levels[S][p].head]
             qty == Lesser(remaining_qty, maker.qty)
  <1>1. MatcherType(matcher) /\ Orderly(matcher) /\ S \in Sides
        /\ p \in DOMAIN matcher.levels[S]
    BY TakerType DEF BookInv
  <1>2. CASE maker.qty = qty
    <2>1. matcher' = FillMaker(matcher, S, p)
      BY <1>2, Zenon DEF TradeWithHead
    <2>2. PICK id \in DOMAIN matcher.order_map :
            FillMaker(matcher, S, p) = CancelOrder(matcher, id)
      BY <1>1, FillIsCancel
    <2> QED BY <1>1, <2>1, <2>2, CancelNoMore
  <1>3. CASE maker.qty # qty
    <2>1. matcher' = ReduceMaker(matcher, S, p, qty)
      BY <1>3, Zenon DEF TradeWithHead
    <2>2. qty \in Nat
      <3>1. matcher.levels[S][p].head \in Index
        BY <1>1, HeadPlaced
      <3>2. maker \in BookNode
        BY <1>1, <3>1, BookBlock DEF Nodes
      <3>3. maker.qty \in U32 /\ remaining_qty \in U32
        BY <3>2, NodeFields, TakerType
      <3> HIDE DEF maker
      <3> QED BY <3>3, WordAssumption DEF Lesser, U32
    <2> HIDE DEF qty, S
    <2> QED BY <1>1, <2>1, <2>2, ReduceNoMore
  <1> QED BY <1>2, <1>3

LEMMA MatchNoMore ==
  ASSUME IInv, BookInv, NEW p \in DOMAIN matcher.levels[MakerSide], Match(p)
  PROVE  NoMoreOpen(matcher', matcher)
  <1>1. CASE matcher' = matcher
    BY <1>1, SameNoMore DEF IInv, TypeOK
  <1>2. CASE TradeWithHead(p)
    BY <1>2, TradeNoMore DEF Match
  <1> QED BY <1>1, <1>2, Zenon DEF Match

\* A row that is added changes nothing for the orders in the book.
LEMMA MoreRows ==
  ASSUME NEW m, NEW o, NEW q, FromFeed(m, o),
         \A raw \in RawIds : o[raw] \subseteq q[raw]
  PROVE  FromFeed(m, q)
  BY Zenon DEF FromFeed, RowOf

LEMMA OpenRowsAdd ==
  ASSUME NEW o, OpenRows(o), NEW r \in OrderRow
  PROVE  LET q == [o EXCEPT ![r.order_id] = @ \cup {r}]
         IN  /\ OpenRows(q) /\ r \in q[r.order_id]
             /\ \A raw \in RawIds : o[raw] \subseteq q[raw]
  <1>1. r.order_id \in RawIds
    BY RowFields
  <1> QED BY <1>1 DEF OpenRows

LEMMA OpenRowsDone ==
  ASSUME NEW o, OpenRows(o), NEW id \in RawIds
  PROVE  LET q == [o EXCEPT ![id] = {}]
         IN  OpenRows(q) /\ \A raw \in RawIds \ {id} : q[raw] = o[raw]
  BY DEF OpenRows

\* Once the order of a done row is not in the book, its rows are not needed.
LEMMA FewerRows ==
  ASSUME NEW m, NEW o, NEW q, NEW id \in RawIds, FromFeed(m, o),
         Hash[id] \notin DOMAIN m.order_map,
         \A raw \in RawIds \ {id} : q[raw] = o[raw]
  PROVE  FromFeed(m, q)
  <1> SUFFICES ASSUME NEW x \in DOMAIN m.order_map PROVE RowOf(m, x, q)
    BY Zenon DEF FromFeed
  <1>1. PICK raw \in RawIds : \E r \in o[raw] : FromRow(m, x, raw, r)
    BY Zenon DEF FromFeed, RowOf
  <1>2. Hash[raw] = x
    BY <1>1, Zenon DEF FromRow
  <1>3. q[raw] = o[raw]
    BY <1>2
  <1> QED BY <1>1, <1>3, Zenon DEF RowOf

\* What the conversions of a row make of it.
LEMMA PriceIsFrom ==
  ASSUME NEW d
  PROVE  PriceFrom(ToPrice(d), d)
  BY UnsignedIs, Zenon DEF PriceFrom, ToPrice

LEMMA QtyIsFrom ==
  ASSUME NEW r \in OrderRow, ToQty(r.amount) # 0
  PROVE  \E a \in r.amount : ToQty(r.amount) = a \div DIGITS
  <1>1. ToUnsigned(r.amount, U32_MAX)
          \in IF {x \div DIGITS : x \in r.amount} \cap 0 .. U32_MAX = {} THEN {0}
              ELSE {x \div DIGITS : x \in r.amount} \cap 0 .. U32_MAX
    BY UnsignedIs, Zenon
  <1> QED BY <1>1 DEF ToQty

\* What rests of an order is open of one that is from its row.
LEMMA RestedFromRow ==
  ASSUME NEW m, MatcherType(m), Orderly(m), NEW r \in OrderRow,
         NEW qty \in U32, ~IsFull(m.arena),
         Hash[r.order_id] \notin DOMAIN m.order_map,
         qty <= ToQty(r.amount), ToQty(r.amount) # 0
  PROVE  FromRow(RestOrder(m, OrderOf(r), qty), Hash[r.order_id], r.order_id, r)
  <1> DEFINE order == OrderOf(r)
             id == order.order_id
             n == RestOrder(m, order, qty)
  <1>1. /\ order \in PlaceOrder /\ id = Hash[r.order_id]
        /\ order.side = ToSide(r.side) /\ order.price = ToPrice(r.price)
    BY OrderOfType DEF OrderOf
  <1> HIDE DEF order
  <1>2. id \notin DOMAIN m.order_map
    BY <1>1
  <1>3. Rested(n, m, order, qty) /\ OpenQty(n, id) = qty
    BY <1>1, <1>2, RestEffect, RestOpen
  <1> HIDE DEF n
  <1>4. n.order_map[id] = [arena_index |-> m.arena.free_head, side |-> order.side,
                           price |-> order.price, user_id |-> order.user_id]
    BY <1>3, Zenon DEF Rested
  <1>5. PICK a \in r.amount : ToQty(r.amount) = a \div DIGITS
    BY QtyIsFrom
  <1>6. a \in Int /\ DIGITS \in Nat \ {0} /\ qty \in Int
    BY RowAmount, FeedAssumption, WordAssumption DEF U32
  <1>7. qty * DIGITS <= a
    <2> DEFINE b == a \div DIGITS
    <2>1. b \in Int /\ b * DIGITS <= a
      BY <1>6, QuotientBelow
    <2>2. qty <= b
      BY <1>5
    <2> HIDE DEF b
    <2>3. qty * DIGITS <= b * DIGITS
      BY <1>6, <2>1, <2>2, TimesMonotone
    <2> DEFINE x == qty * DIGITS
               y == b * DIGITS
    <2>4. x \in Int /\ y \in Int /\ x <= y /\ y <= a
      BY <1>6, <2>1, <2>3
    <2> HIDE DEF x, y
    <2>5. x <= a
      BY <1>6, <2>4
    <2> QED BY <2>5 DEF x
  <1>8. \E b \in r.amount : OpenQty(n, id) * DIGITS <= b
    BY <1>3, <1>5, <1>7
  <1>9. n.order_map[id].side = ToSide(r.side)
        /\ PriceFrom(n.order_map[id].price, r.price)
    BY <1>1, <1>4, PriceIsFrom
  <1>10. FromRow(n, id, r.order_id, r)
    BY <1>1, <1>8, <1>9, Zenon DEF FromRow
  <1> QED BY <1>1, <1>10 DEF n, order

LEMMA RestFromFeed ==
  ASSUME NEW m, MatcherType(m), Orderly(m), NEW r \in OrderRow,
         NEW qty \in U32, ~IsFull(m.arena),
         Hash[r.order_id] \notin DOMAIN m.order_map,
         qty <= ToQty(r.amount), ToQty(r.amount) # 0,
         NEW o, OpenRows(o), FromFeed(m, o), r \in o[r.order_id]
  PROVE  FromFeed(RestOrder(m, OrderOf(r), qty), o)
  <1> DEFINE order == OrderOf(r)
             id == order.order_id
             n == RestOrder(m, order, qty)
  <1>1. order \in PlaceOrder /\ id = Hash[r.order_id] /\ r.order_id \in RawIds
    BY OrderOfType, RowFields DEF OrderOf
  <1> HIDE DEF order
  <1>2. Rested(n, m, order, qty) /\ OpenBut(n, m, id)
    BY <1>1, RestEffect, RestOpen
  <1>3. /\ DOMAIN n.order_map = DOMAIN m.order_map \cup {id}
        /\ \A x \in DOMAIN m.order_map \ {id} : n.order_map[x] = m.order_map[x]
    BY <1>2, Zenon DEF Rested
  <1>4. FromRow(n, id, r.order_id, r)
    BY <1>1, RestedFromRow DEF order
  <1> HIDE DEF n
  <1> SUFFICES ASSUME NEW x \in DOMAIN n.order_map PROVE RowOf(n, x, o)
    BY Zenon DEF FromFeed, n, order
  <1>5. CASE x = id
    BY <1>1, <1>4, <1>5, Zenon DEF RowOf
  <1>6. CASE x # id
    <2>1. x \in DOMAIN m.order_map /\ n.order_map[x] = m.order_map[x]
      BY <1>3, <1>6
    <2>2. x \in OrderIds
      BY <2>1 DEF MatcherType, MapType
    <2>3. OpenQty(n, x) = OpenQty(m, x)
      BY <1>2, <1>6, <2>2, Zenon DEF OpenBut
    <2>4. PICK raw \in RawIds : \E s \in o[raw] : FromRow(m, x, raw, s)
      BY <2>1, Zenon DEF FromFeed, RowOf
    <2>5. \A s : FromRow(m, x, raw, s) => FromRow(n, x, raw, s)
      BY <2>1, <2>3, Zenon DEF FromRow
    <2> QED BY <2>4, <2>5, Zenon DEF RowOf
  <1> QED BY <1>5, <1>6

-----------------------------------------------------------------------------
(* What the events of a step add.                                           *)

SumPlaced(events) == SumFunction([k \in DOMAIN events |-> PlacedQty(events[k])])

LEMMA PlacedInt ==
  ASSUME NEW event \in Event
  PROVE  PlacedQty(event) \in Int
  BY WordAssumption DEF Event, PlacedQty, U32

LEMMA NothingPlaced == SumPlaced(<<>>) = 0
  <1> DEFINE f == [k \in DOMAIN <<>> |-> PlacedQty((<<>>)[k])]
  <1>1. DOMAIN f = {}
    OBVIOUS
  <1> HIDE DEF f
  <1>2. SumFunctionOnSet(f, DOMAIN f) = 0
    BY <1>1, SumEmpty
  <1> QED BY <1>2 DEF SumPlaced, SumFunction, f

LEMMA PlacedAppend ==
  ASSUME NEW s \in Seq(Event), NEW x, PlacedQty(x) \in Int
  PROVE  SumPlaced(Append(s, x)) = SumPlaced(s) + PlacedQty(x)
  <1> DEFINE t == Append(s, x)
             f == [k \in DOMAIN s |-> PlacedQty(s[k])]
             g == [k \in DOMAIN t |-> PlacedQty(t[k])]
             l == Len(s)
  <1>1. l \in Nat /\ DOMAIN f = 1 .. l /\ DOMAIN g = 1 .. l + 1
    OBVIOUS
  <1>2. \A k \in 1 .. l : f[k] \in Int /\ g[k] = f[k]
    <2> SUFFICES ASSUME NEW k \in 1 .. l PROVE f[k] \in Int /\ g[k] = f[k]
      OBVIOUS
    <2>1. s[k] \in Event /\ t[k] = s[k] /\ k \in DOMAIN s /\ k \in DOMAIN t
      OBVIOUS
    <2> HIDE DEF t
    <2> QED BY <2>1, PlacedInt
  <1>3. g[l + 1] = PlacedQty(x)
    <2>1. t[l + 1] = x /\ l + 1 \in DOMAIN t
      OBVIOUS
    <2> HIDE DEF t
    <2> QED BY <2>1
  <1>4. 1 .. l + 1 = (1 .. l) \cup {l + 1} /\ l + 1 \notin 1 .. l
    BY <1>1
  <1> HIDE DEF f, g, l
  <1>5. IsFiniteSet(1 .. l)
    BY <1>1, FS_Interval
  <1>6. \A k \in (1 .. l) \cup {l + 1} : g[k] \in Int
    BY <1>2, <1>3
  <1>7. SumFunctionOnSet(g, (1 .. l) \cup {l + 1})
          = g[l + 1] + SumFunctionOnSet(g, 1 .. l)
    BY <1>4, <1>5, <1>6, SumAdd
  <1>8. SumFunctionOnSet(g, 1 .. l) = SumFunctionOnSet(f, 1 .. l)
    BY <1>2, <1>5, SumSame
  <1>9. SumFunctionOnSet(f, 1 .. l) \in Int
    BY <1>2, <1>5, SumInt
  <1>10. SumFunctionOnSet(g, 1 .. l + 1) = SumFunctionOnSet(f, 1 .. l) + PlacedQty(x)
    <2> DEFINE x1 == SumFunctionOnSet(g, 1 .. l)
               x2 == SumFunctionOnSet(f, 1 .. l)
               x3 == SumFunctionOnSet(g, (1 .. l) \cup {l + 1})
    <2>1. x3 = PlacedQty(x) + x1 /\ x1 = x2 /\ x2 \in Int
      BY <1>3, <1>7, <1>8, <1>9
    <2>2. SumFunctionOnSet(g, 1 .. l + 1) = x3
      BY <1>4, Zenon
    <2> HIDE DEF x1, x2, x3
    <2>3. x3 = x2 + PlacedQty(x)
      BY <2>1
    <2> QED BY <2>2, <2>3 DEF x2
  <1>11. SumPlaced(t) = SumFunctionOnSet(g, DOMAIN g)
         /\ SumPlaced(s) = SumFunctionOnSet(f, DOMAIN f)
    BY DEF SumPlaced, SumFunction, f, g
  <1> QED BY <1>1, <1>10, <1>11

LEMMA SumPlacedInt ==
  ASSUME NEW s \in Seq(Event)
  PROVE  SumPlaced(s) \in Int
  <1> DEFINE f == [k \in DOMAIN s |-> PlacedQty(s[k])]
  <1>1. DOMAIN f = 1 .. Len(s) /\ Len(s) \in Nat
    OBVIOUS
  <1>2. \A k \in DOMAIN f : f[k] \in Int
    <2>1. \A k \in DOMAIN s : s[k] \in Event
      OBVIOUS
    <2> QED BY <2>1, PlacedInt
  <1>3. SumPlaced(s) = SumFunctionOnSet(f, DOMAIN f)
    BY DEF SumPlaced, SumFunction
  <1> HIDE DEF f
  <1>4. IsFiniteSet(DOMAIN f)
    BY <1>1, FS_Interval
  <1> QED BY <1>2, <1>3, <1>4, SumInt

LEMMA PlacedTwo ==
  ASSUME NEW s \in Seq(Event), NEW a \in Event, NEW b, PlacedQty(b) = 0
  PROVE  SumPlaced(s \o <<a, b>>) = SumPlaced(s) + PlacedQty(a)
  <1> DEFINE t == Append(s, a)
  <1>1. s \o <<a, b>> = Append(t, b) /\ t \in Seq(Event)
    OBVIOUS
  <1>2. SumPlaced(t) = SumPlaced(s) + PlacedQty(a)
    BY PlacedInt, PlacedAppend
  <1>3. SumPlaced(Append(t, b)) = SumPlaced(t) + 0
    <2> HIDE DEF t
    <2> QED BY <1>1, PlacedAppend
  <1>4. SumPlaced(t) \in Int
    BY <1>1, SumPlacedInt
  <1>5. SumPlaced(Append(t, b)) = SumPlaced(t)
    <2> DEFINE y == SumPlaced(t)
               z == SumPlaced(Append(t, b))
    <2>1. z = y + 0 /\ y \in Int
      BY <1>3, <1>4
    <2> HIDE DEF y, z
    <2>2. z = y
      BY <2>1
    <2> QED BY <2>2 DEF y, z
  <1> HIDE DEF t
  <1> QED BY <1>1, <1>2, <1>5, Zenon

\* The trades that a step adds are counted with those before.
TradesAdd ==
  /\ TradesOf(NewEvents) \in Seq(Event)
  /\ TradesOf(event_buffer) \in Seq(Event) =>
       /\ TradesOf(event_buffer') \in Seq(Event)
       /\ Len(TradesOf(event_buffer'))
            = Len(TradesOf(event_buffer)) + Len(TradesOf(NewEvents))

LEMMA AddNone ==
  ASSUME pc # "idle", event_buffer \in Seq(Event), event_buffer' = event_buffer
  PROVE  TradesAdd
  <1>1. NewEvents = <<>>
    BY AddedNone DEF NewEvents
  <1>2. TradesOf(NewEvents) = <<>>
    BY <1>1, NoTrades
  <1> QED BY <1>2 DEF TradesAdd

LEMMA AddOne ==
  ASSUME pc # "idle", event_buffer \in Seq(Event),
         NEW x \in Event, x.kind = "Rejected",
         event_buffer' = Append(event_buffer, x)
  PROVE  TradesAdd
  <1>1. NewEvents = <<x>>
    BY AddedOne DEF NewEvents
  <1>2. TradesOf(NewEvents) = <<>>
    BY <1>1, OneNoTrade
  <1>3. TradesOf(event_buffer') = TradesOf(event_buffer)
    BY TradesAppend
  <1> QED BY <1>2, <1>3 DEF TradesAdd

\* The events of event_buffer', one by one.
LEMMA AddedAreEvents ==
  ASSUME NEW s \in Seq(Event), NEW a, NEW b, s \o <<a, b>> \in Seq(Event)
  PROVE  a \in Event /\ b \in Event
  <1> DEFINE t == s \o <<a, b>>
  <1>1. t[Len(s) + 1] = a /\ t[Len(s) + 2] = b /\ Len(t) = Len(s) + 2
    OBVIOUS
  <1>2. Len(s) \in Nat /\ t \in Seq(Event)
    OBVIOUS
  <1> HIDE DEF t
  <1>3. \A k \in 1 .. Len(t) : t[k] \in Event
    BY <1>2
  <1> QED BY <1>1, <1>2, <1>3

LEMMA AddTwo ==
  ASSUME pc # "idle", event_buffer \in Seq(Event), NEW a \in Event, NEW b \in Event,
         b.kind = "BookDelta", event_buffer' = event_buffer \o <<a, b>>
  PROVE  /\ TradesAdd
         /\ SumPlaced(event_buffer') = SumPlaced(event_buffer) + PlacedQty(a)
  <1>1. NewEvents = <<a, b>>
    BY AddsTwo
  <1>2. TradesOf(event_buffer') =
          IF a.kind = "Trade" THEN Append(TradesOf(event_buffer), a)
          ELSE TradesOf(event_buffer)
    BY TradesTwo
  <1>3. TradesOf(NewEvents) = IF a.kind = "Trade" THEN <<a>> ELSE <<>>
    <2>1. <<a, b>> = <<>> \o <<a, b>> /\ <<>> \in Seq(Event) /\ <<a>> = Append(<<>>, a)
      OBVIOUS
    <2>2. TradesOf(<<>> \o <<a, b>>) =
            IF a.kind = "Trade" THEN Append(TradesOf(<<>>), a) ELSE TradesOf(<<>>)
      BY <2>1, TradesTwo
    <2> QED BY <1>1, <2>1, <2>2, NoTrades
  <1>4. TradesAdd
    <2> DEFINE u == TradesOf(event_buffer)
               v == TradesOf(event_buffer')
               w == TradesOf(NewEvents)
    <2>1. w \in Seq(Event) /\ Len(w) = IF a.kind = "Trade" THEN 1 ELSE 0
      BY <1>3
    <2>2. v = IF a.kind = "Trade" THEN Append(u, a) ELSE u
      BY <1>2
    <2> HIDE DEF u, v, w
    <2>3. u \in Seq(Event) => v \in Seq(Event) /\ Len(v) = Len(u) + Len(w)
      BY <2>1, <2>2
    <2> QED BY <2>1, <2>3 DEF TradesAdd, u, v, w
  <1>5. PlacedQty(b) = 0
    BY DEF PlacedQty
  <1> QED BY <1>4, <1>5, PlacedTwo

-----------------------------------------------------------------------------
(* The invariant.  While an order is placed, what its events say has been   *)
(* traded, with what is left of it, is the size of its row, and the trades  *)
(* in the buffer are those not counted yet.                                 *)

Counts ==
  /\ phase \in {"read", "placing"}
  /\ messages_processed \in 0 .. Limit
  /\ phase = "placing" => messages_processed < Limit
  /\ pending_trades \in Nat /\ matches_validated \in Nat /\ matches_missed \in Nat
  /\ traded \in Seq(Event)
  /\ phase = "read" => pending_trades + matches_validated = Len(traded)
  /\ phase = "placing" =>
       /\ Trades \in Seq(Event)
       /\ pending_trades + matches_validated + Len(Trades) = Len(traded)
  /\ OpenRows(open)

Refused(events) == \E k \in DOMAIN events : events[k].kind = "Rejected"

AllPlaced(events, r) == \E a \in r.amount : SumPlaced(events) = a \div DIGITS

\* How far the order of row r is.
Progress(r, events, status, order, left) ==
  /\ status = "cross" =>
       /\ order = OrderOf(r)
       /\ ToQty(r.amount) # 0
       /\ left <= ToQty(r.amount)
       /\ SumPlaced(events) + left = ToQty(r.amount)
  /\ status = "idle" => Refused(events) \/ AllPlaced(events, r)

PlacingOrder ==
  phase = "placing" =>
    /\ row \in OrderRow /\ row \in open[row.order_id]
    /\ Progress(row, event_buffer, pc, taker, remaining_qty)

RInv == EInv /\ Counts /\ PlacingOrder /\ FromFeed(matcher, open)

LEMMA ToQtyInt ==
  ASSUME NEW r \in OrderRow
  PROVE  ToQty(r.amount) \in Nat
  <1>1. ToQty(r.amount) \in Qtys
    BY RowFields, FeedAssumption
  <1>2. U32 \subseteq Nat
    BY WordAssumption DEF U32
  <1> QED BY <1>1, <1>2, CommandAssumption, Zenon

LEMMA ReceivedRInv ==
  ASSUME RInv, NEW r \in OrderRow, Received(r)
  PROVE  Counts' /\ PlacingOrder' /\ FromFeed(matcher, open)'
  <1> DEFINE order == OrderOf(r)
  <1>1. /\ phase = "read" /\ messages_processed < Limit
        /\ row' = r /\ phase' = "placing"
        /\ open' = [open EXCEPT ![r.order_id] = @ \cup {r}]
        /\ UNCHANGED <<messages_processed, pending_trades, matches_validated,
                       matches_missed, traded>>
    BY DEF Received, Reading, counters
  <1>2. pc = "idle" /\ ProcessPlace(matcher, order, <<>>)
    BY ReceivedPlaces DEF Place
  <1>3. OpenRows(open)
    BY DEF RInv, Counts
  <1>4. /\ OpenRows(open') /\ r \in open'[r.order_id]
        /\ \A raw \in RawIds : open[raw] \subseteq open'[raw]
    <2> HIDE DEF order
    <2> QED BY <1>1, <1>3, OpenRowsAdd
  <1>5. FromFeed(matcher, open)'
    <2>1. FromFeed(matcher, open')
      BY <1>4, MoreRows DEF RInv
    <2>2. matcher' = matcher
      BY <1>2 DEF ProcessPlace
    <2> QED BY <2>1, <2>2, Zenon DEF FromFeed, RowOf, FromRow, PriceFrom, OpenQty
  <1> DEFINE x == OrderRejected(order.order_id, Rejection(matcher, order))
  <1>6. /\ TradesOf(event_buffer') = <<>>
        /\ Progress(r, event_buffer', pc', taker', remaining_qty')
    <2>1. CASE Rejection(matcher, order) # "none"
      <3>1. event_buffer' = <<x>> /\ pc' = "idle"
        BY <1>2, <2>1 DEF ProcessPlace, place
      <3>2. x.kind = "Rejected"
        BY DEF OrderRejected
      <3> HIDE DEF x, order
      <3>3. TradesOf(event_buffer') = <<>>
        BY <3>1, <3>2, OneNoTrade
      <3>4. Refused(event_buffer')
        BY <3>1, <3>2 DEF Refused
      <3> QED BY <3>1, <3>3, <3>4 DEF Progress
    <2>2. CASE Rejection(matcher, order) = "none"
      <3>1. /\ event_buffer' = <<>> /\ pc' = "cross" /\ taker' = order
            /\ remaining_qty' = order.qty
        BY <1>2, <2>2 DEF ProcessPlace
      <3>2. order.qty = ToQty(r.amount) /\ order.qty # 0
        BY <2>2 DEF Rejection, OrderOf
      <3>3. ToQty(r.amount) \in Int
        BY ToQtyInt
      <3> HIDE DEF order
      <3>4. /\ remaining_qty' <= ToQty(r.amount)
            /\ SumPlaced(event_buffer') + remaining_qty' = ToQty(r.amount)
        BY <3>1, <3>2, <3>3, NothingPlaced
      <3> QED BY <3>1, <3>2, <3>4, NoTrades DEF Progress, order
    <2> QED BY <2>1, <2>2
  <1> HIDE DEF x, order
  <1>7. PlacingOrder'
    BY <1>1, <1>4, <1>6, Zenon DEF PlacingOrder
  <1>8. Counts'
    <2>1. TradesOf(event_buffer') \in Seq(Event) /\ Len(TradesOf(event_buffer')) = 0
      BY <1>6
    <2>2. Trades' \in Seq(Event) /\ Len(Trades') = 0
      BY <2>1, TradesNext
    <2>3. /\ messages_processed \in 0 .. Limit /\ pending_trades \in Nat
          /\ matches_validated \in Nat /\ matches_missed \in Nat
          /\ traded \in Seq(Event)
          /\ pending_trades + matches_validated = Len(traded)
      BY <1>1 DEF RInv, Counts
    <2>4. pending_trades' + matches_validated' + Len(Trades') = Len(traded')
      <3>1. pending_trades + matches_validated + 0 = pending_trades + matches_validated
        BY <2>3
      <3> QED BY <1>1, <2>2, <2>3, <3>1
    <2> QED BY <1>1, <1>4, <2>2, <2>3, <2>4 DEF Counts
  <1> QED BY <1>5, <1>7, <1>8

\* A step of process_command, as an order of row r goes on.
Goes(r) ==
  /\ TradesAdd
  /\ FromFeed(matcher', open)
  /\ Progress(r, event_buffer', pc', taker', remaining_qty')

LEMMA TradeGoes ==
  ASSUME EInv, EInv', pc = "cross", FromFeed(matcher, open), OpenRows(open),
         NEW r \in OrderRow,
         Progress(r, event_buffer, pc, taker, remaining_qty),
         NEW p \in DOMAIN matcher.levels[MakerSide], Match(p), TradeWithHead(p)
  PROVE  Goes(r)
  <1> DEFINE S == MakerSide
             maker == matcher.arena.nodes[matcher.levels[S][p].head]
             qty == Lesser(remaining_qty, maker.qty)
             t == TradeEvent(p, qty, maker, taker)
             u == BookUpdate(S, p, DepthAt(matcher', S, p))
  <1>1. /\ IInv /\ BookInv /\ MatcherType(matcher) /\ Orderly(matcher)
        /\ S \in Sides /\ p \in DOMAIN matcher.levels[S]
        /\ event_buffer \in Seq(Event) /\ remaining_qty \in U32
        /\ MatcherType(matcher') /\ event_buffer' \in Seq(Event)
    BY TakerType DEF EInv, BookInv, IInv, TypeOK
  <1>2. /\ event_buffer' = event_buffer \o <<t, u>>
        /\ remaining_qty' = remaining_qty - qty /\ pc' = pc /\ taker' = taker
    BY Zenon DEF TradeWithHead
  <1>3. t \in Event /\ u \in Event
    <2> HIDE DEF t, u
    <2> QED BY <1>1, <1>2, AddedAreEvents, Zenon
  <1>4. u.kind = "BookDelta" /\ PlacedQty(t) = qty
    <2> HIDE DEF qty, maker, S
    <2> QED BY DEF BookUpdate, TradeEvent, PlacedQty
  <1>5. TradesAdd /\ SumPlaced(event_buffer') = SumPlaced(event_buffer) + qty
    <2> HIDE DEF t, u, qty
    <2> QED BY <1>1, <1>2, <1>3, <1>4, AddTwo
  <1>6. FromFeed(matcher', open)
    <2>1. NoMoreOpen(matcher', matcher)
      BY <1>1, MatchNoMore
    <2> QED BY <1>1, <2>1, LessOpenFromFeed
  <1>7. qty \in Nat /\ remaining_qty \in Int
    <2>1. maker \in BookNode
      BY <1>1, HeadPlaced, BookBlock DEF Nodes
    <2>2. maker.qty \in U32
      BY <2>1, NodeFields
    <2> HIDE DEF maker
    <2> QED BY <1>1, <2>2, WordAssumption DEF Lesser, U32
  <1>8. SumPlaced(event_buffer) \in Int /\ ToQty(r.amount) \in Int
    BY <1>1, SumPlacedInt, ToQtyInt
  <1>9. /\ taker = OrderOf(r) /\ ToQty(r.amount) # 0
        /\ remaining_qty <= ToQty(r.amount)
        /\ SumPlaced(event_buffer) + remaining_qty = ToQty(r.amount)
    BY DEF Progress
  <1>10. /\ remaining_qty' <= ToQty(r.amount)
         /\ SumPlaced(event_buffer') + remaining_qty' = ToQty(r.amount)
    <2> DEFINE a == SumPlaced(event_buffer)
               b == SumPlaced(event_buffer')
               c == ToQty(r.amount)
    <2>1. a \in Int /\ c \in Int /\ b = a + qty /\ a + remaining_qty = c
          /\ remaining_qty <= c
      BY <1>5, <1>8, <1>9
    <2> HIDE DEF a, b, c, qty
    <2>2. remaining_qty' <= c /\ b + remaining_qty' = c
      BY <1>2, <1>7, <2>1, SMTT(30)
    <2> QED BY <2>2 DEF b, c
  <1>11. Progress(r, event_buffer', pc', taker', remaining_qty')
    BY <1>2, <1>9, <1>10 DEF Progress
  <1> QED BY <1>5, <1>6, <1>11 DEF Goes

LEMMA MatchGoes ==
  ASSUME EInv, EInv', FromFeed(matcher, open), OpenRows(open),
         NEW r \in OrderRow,
         Progress(r, event_buffer, pc, taker, remaining_qty),
         NEW p \in DOMAIN matcher.levels[MakerSide], Match(p)
  PROVE  Goes(r)
  <1>1. pc = "cross"
    BY DEF Match
  <1>2. CASE UNCHANGED <<matcher, event_buffer, pc, taker, remaining_qty>>
    <2>1. event_buffer \in Seq(Event)
      BY DEF EInv, IInv, TypeOK
    <2>2. TradesAdd
      BY <1>1, <1>2, <2>1, AddNone
    <2> QED BY <1>2, <2>2 DEF Goes
  <1>3. CASE TradeWithHead(p)
    BY <1>1, <1>3, TradeGoes
  <1> QED BY <1>2, <1>3, Zenon DEF Match

LEMMA RestGoes ==
  ASSUME EInv, EInv', FromFeed(matcher, open), OpenRows(open),
         NEW r \in OrderRow, r \in open[r.order_id],
         Progress(r, event_buffer, pc, taker, remaining_qty), RestRemainder
  PROVE  Goes(r)
  <1> DEFINE a == OrderAccepted(taker, remaining_qty)
             u == BookUpdate(taker.side, taker.price,
                             DepthAt(matcher', taker.side, taker.price))
             n == RestOrder(matcher, taker, remaining_qty)
  <1>1. /\ pc = "cross" /\ ~IsFull(matcher.arena) /\ matcher' = n
        /\ event_buffer' = event_buffer \o <<a, u>>
        /\ pc' = "idle"
    BY DEF RestRemainder, Crossed, Finish
  <1>2. /\ MatcherType(matcher) /\ remaining_qty \in U32
        /\ event_buffer \in Seq(Event) /\ event_buffer' \in Seq(Event)
        /\ Orderly(matcher) /\ taker.order_id \notin DOMAIN matcher.order_map
    BY <1>1, TakerType DEF EInv, BookInv, IInv, TypeOK
  <1>3. a \in Event /\ u \in Event
    <2> HIDE DEF a, u
    <2> QED BY <1>1, <1>2, AddedAreEvents, Zenon
  <1>4. u.kind = "BookDelta" /\ PlacedQty(a) = remaining_qty
    BY DEF BookUpdate, OrderAccepted, PlacedQty
  <1>5. TradesAdd /\ SumPlaced(event_buffer') = SumPlaced(event_buffer) + remaining_qty
    <2> HIDE DEF a, u
    <2> QED BY <1>1, <1>2, <1>3, <1>4, AddTwo
  <1>6. /\ taker = OrderOf(r) /\ ToQty(r.amount) # 0
        /\ remaining_qty <= ToQty(r.amount)
        /\ SumPlaced(event_buffer) + remaining_qty = ToQty(r.amount)
    BY <1>1 DEF Progress
  <1>7. FromFeed(matcher', open)
    <2>1. Hash[r.order_id] \notin DOMAIN matcher.order_map
      BY <1>2, <1>6 DEF OrderOf
    <2> HIDE DEF n
    <2>2. FromFeed(RestOrder(matcher, OrderOf(r), remaining_qty), open)
      BY <1>1, <1>2, <1>6, <2>1, RestFromFeed
    <2> QED BY <1>1, <1>6, <2>2 DEF n
  <1>8. PICK x \in r.amount : ToQty(r.amount) = x \div DIGITS
    BY <1>6, QtyIsFrom
  <1>9. Progress(r, event_buffer', pc', taker', remaining_qty')
    <2>1. SumPlaced(event_buffer') = x \div DIGITS
      BY <1>5, <1>6, <1>8
    <2> QED BY <1>1, <2>1 DEF Progress, AllPlaced
  <1> QED BY <1>5, <1>7, <1>9 DEF Goes

LEMMA RejectGoes ==
  ASSUME EInv, EInv', FromFeed(matcher, open), NEW r, RejectRemainder
  PROVE  Goes(r)
  <1> DEFINE x == OrderRejected(taker.order_id, "ArenaFull")
  <1>1. /\ pc = "cross" /\ matcher' = matcher /\ pc' = "idle"
        /\ event_buffer' = Append(event_buffer, x)
    BY DEF RejectRemainder, Crossed, Finish
  <1>2. event_buffer \in Seq(Event) /\ taker.order_id \in OrderIds
    BY <1>1, TakerType DEF EInv
  <1>3. x \in Event /\ x.kind = "Rejected"
    BY <1>2, RejectedType
  <1> HIDE DEF x
  <1>4. TradesAdd
    BY <1>1, <1>2, <1>3, AddOne
  <1>5. Refused(event_buffer')
    <2>1. /\ Len(event_buffer) + 1 \in DOMAIN Append(event_buffer, x)
          /\ Append(event_buffer, x)[Len(event_buffer) + 1] = x
      BY <1>2
    <2> QED BY <1>1, <1>3, <2>1 DEF Refused
  <1> QED BY <1>1, <1>4, <1>5 DEF Goes, Progress

LEMMA CompleteGoes ==
  ASSUME EInv, EInv', FromFeed(matcher, open), NEW r \in OrderRow,
         Progress(r, event_buffer, pc, taker, remaining_qty), CompletePlace
  PROVE  Goes(r)
  <1>1. /\ pc = "cross" /\ UNCHANGED <<matcher, event_buffer>>
        /\ remaining_qty = 0 \/ taker.order_type # "Limit"
        /\ pc' = "panicked" \/ pc' = "idle"
    BY DEF CompletePlace, Crossed, Finish
  <1>2. /\ taker = OrderOf(r) /\ ToQty(r.amount) # 0
        /\ SumPlaced(event_buffer) + remaining_qty = ToQty(r.amount)
    BY <1>1 DEF Progress
  <1>3. taker.order_type = "Limit"
    BY <1>2 DEF OrderOf
  <1>4. event_buffer \in Seq(Event)
    BY DEF EInv, IInv, TypeOK
  <1>5. TradesAdd
    BY <1>1, <1>4, AddNone
  <1>6. SumPlaced(event_buffer) = ToQty(r.amount)
    <2> DEFINE a == SumPlaced(event_buffer)
               b == ToQty(r.amount)
    <2>1. a \in Int /\ a + 0 = b
      BY <1>1, <1>2, <1>3, <1>4, SumPlacedInt
    <2> HIDE DEF a, b
    <2>2. a = b
      BY <2>1
    <2> QED BY <2>2 DEF a, b
  <1>7. PICK x \in r.amount : ToQty(r.amount) = x \div DIGITS
    BY <1>2, QtyIsFrom
  <1>8. AllPlaced(event_buffer', r)
    BY <1>1, <1>6, <1>7 DEF AllPlaced
  <1> QED BY <1>1, <1>5, <1>8 DEF Goes, Progress

LEMMA ContinueGoes ==
  ASSUME EInv, EInv', FromFeed(matcher, open), OpenRows(open),
         NEW r \in OrderRow, r \in open[r.order_id],
         Progress(r, event_buffer, pc, taker, remaining_qty), Continue
  PROVE  Goes(r)
  <1>1. CASE \E p \in DOMAIN matcher.levels[MakerSide] : Match(p)
    BY <1>1, MatchGoes
  <1>2. CASE RestRemainder
    BY <1>2, RestGoes
  <1>3. CASE RejectRemainder
    BY <1>3, RejectGoes
  <1>4. CASE CompletePlace
    BY <1>4, CompleteGoes
  <1> QED BY <1>1, <1>2, <1>3, <1>4, Zenon DEF Continue

LEMMA FromFeedNext == FromFeed(matcher, open)' = FromFeed(matcher', open')
  BY DEF FromFeed, RowOf, FromRow, PriceFrom, OpenQty

LEMMA PlacingRInv ==
  ASSUME RInv, EInv', Placing
  PROVE  Counts' /\ PlacingOrder' /\ FromFeed(matcher, open)'
  <1>1. /\ phase = "placing" /\ pc = "cross" /\ Continue
        /\ traded' = traded \o TradesOf(NewEvents)
        /\ UNCHANGED <<phase, row, open, messages_processed, pending_trades,
                       matches_validated, matches_missed>>
    BY DEF Placing, counters
  <1>2. /\ row \in OrderRow /\ row \in open[row.order_id]
        /\ Progress(row, event_buffer, pc, taker, remaining_qty)
    BY <1>1 DEF RInv, PlacingOrder
  <1>3. EInv /\ FromFeed(matcher, open) /\ OpenRows(open)
    BY DEF RInv, Counts
  <1>4. Goes(row)
    BY <1>1, <1>2, <1>3, ContinueGoes
  <1>5. PlacingOrder'
    BY <1>1, <1>2, <1>4, Zenon DEF PlacingOrder, Goes
  <1>6. FromFeed(matcher, open)'
    <2>1. FromFeed(matcher', open')
      BY <1>1, <1>4 DEF Goes
    <2> QED BY <2>1, FromFeedNext
  <1>7. Counts'
    <2> DEFINE u == TradesOf(event_buffer)
               v == TradesOf(event_buffer')
               w == TradesOf(NewEvents)
    <2>1. /\ messages_processed \in 0 .. Limit /\ messages_processed < Limit
          /\ pending_trades \in Nat /\ matches_validated \in Nat
          /\ matches_missed \in Nat /\ traded \in Seq(Event)
          /\ u \in Seq(Event)
          /\ pending_trades + matches_validated + Len(u) = Len(traded)
      BY <1>1 DEF RInv, Counts, Trades
    <2>2. w \in Seq(Event) /\ v \in Seq(Event) /\ Len(v) = Len(u) + Len(w)
      BY <1>4, <2>1, Zenon DEF Goes, TradesAdd
    <2>3. traded' = traded \o w
      BY <1>1
    <2>4. Trades' = v
      BY TradesNext
    <2> HIDE DEF u, v, w
    <2>5. traded' \in Seq(Event) /\ Len(traded') = Len(traded) + Len(w)
      BY <2>1, <2>2, <2>3
    <2>6. pending_trades + matches_validated + Len(v) = Len(traded')
      <3> DEFINE a == Len(u)
                 b == Len(w)
                 c == Len(traded)
      <3>1. /\ a \in Nat /\ b \in Nat
            /\ Len(v) = a + b /\ Len(traded') = c + b
            /\ pending_trades + matches_validated + a = c
        BY <2>1, <2>2, <2>5
      <3>2. pending_trades \in Nat /\ matches_validated \in Nat
        BY <2>1
      <3> HIDE DEF a, b, c
      <3> QED BY <3>1, <3>2
    <2> QED BY <1>1, <1>3, <2>1, <2>2, <2>4, <2>5, <2>6 DEF Counts
  <1> QED BY <1>5, <1>6, <1>7

LEMMA CountTradesRInv ==
  ASSUME RInv, CountTrades
  PROVE  Counts' /\ PlacingOrder' /\ FromFeed(matcher, open)'
  <1>1. /\ phase = "placing" /\ phase' = "read"
        /\ pending_trades' = pending_trades + Len(Trades)
        /\ messages_processed' = messages_processed + 1
        /\ UNCHANGED <<matcher, matches_validated, matches_missed, traded, open>>
    BY DEF CountTrades, vars
  <1>2. FromFeed(matcher, open)'
    BY <1>1, FromFeedNext DEF RInv
  <1>3. PlacingOrder'
    BY <1>1 DEF PlacingOrder
  <1>4. Counts'
    <2>1. /\ messages_processed \in 0 .. Limit /\ messages_processed < Limit
          /\ pending_trades \in Nat /\ matches_validated \in Nat
          /\ matches_missed \in Nat /\ traded \in Seq(Event)
          /\ Trades \in Seq(Event)
          /\ pending_trades + matches_validated + Len(Trades) = Len(traded)
          /\ OpenRows(open)
      BY <1>1 DEF RInv, Counts
    <2>2. Len(Trades) \in Nat
      BY <2>1
    <2>3. /\ messages_processed' \in 0 .. Limit /\ pending_trades' \in Nat
          /\ pending_trades' + matches_validated' = Len(traded')
      <3> HIDE DEF Trades
      <3> QED BY <1>1, <2>1, <2>2, ReplayAssumption
    <2> QED BY <1>1, <2>1, <2>3 DEF Counts
  <1> QED BY <1>2, <1>3, <1>4

LEMMA DoneRInv ==
  ASSUME RInv, NEW r \in PlainRow("done"), Done(r)
  PROVE  Counts' /\ PlacingOrder' /\ FromFeed(matcher, open)'
  <1> DEFINE id == Hash[r.order_id]
  <1>1. /\ phase = "read" /\ messages_processed < Limit /\ phase' = "read"
        /\ open' = [open EXCEPT ![r.order_id] = {}]
        /\ messages_processed' = messages_processed + 1
        /\ UNCHANGED <<pending_trades, matches_validated, matches_missed, traded>>
    BY DEF Done, Reading
  <1>2. Cancel(id) /\ r.order_id \in RawIds
    BY DoneCancels
  <1>3. /\ MatcherType(matcher) /\ Orderly(matcher) /\ OpenRows(open)
        /\ FromFeed(matcher, open)
    BY DEF RInv, EInv, IInv, TypeOK, BookInv, Counts
  <1>4. /\ OpenRows(open')
        /\ \A raw \in RawIds \ {r.order_id} : open'[raw] = open[raw]
    BY <1>1, <1>2, <1>3, OpenRowsDone
  <1>5. FromFeed(matcher', open) /\ id \notin DOMAIN matcher'.order_map
    <2>1. CASE id \in DOMAIN matcher.order_map
      <3>1. matcher' = CancelOrder(matcher, id)
        BY <1>2, <2>1 DEF Cancel
      <3> DEFINE n == CancelOrder(matcher, id)
      <3>2. MatcherType(n) /\ NoMoreOpen(n, matcher)
            /\ DOMAIN n.order_map = DOMAIN matcher.order_map \ {id}
        BY <1>3, <2>1, CancelOrderType, CancelNoMore, CancelEffect
      <3> HIDE DEF n
      <3>3. FromFeed(n, open)
        BY <1>3, <3>2, LessOpenFromFeed
      <3> QED BY <3>1, <3>2, <3>3 DEF n
    <2>2. CASE id \notin DOMAIN matcher.order_map
      <3>1. matcher' = matcher
        BY <1>2, <2>2 DEF Cancel
      <3> QED BY <1>3, <2>2, <3>1
    <2> QED BY <2>1, <2>2
  <1>6. FromFeed(matcher', open')
    BY <1>2, <1>4, <1>5, FewerRows
  <1>7. PlacingOrder'
    BY <1>1 DEF PlacingOrder
  <1>8. Counts'
    <2>1. /\ messages_processed \in 0 .. Limit /\ pending_trades \in Nat
          /\ matches_validated \in Nat /\ matches_missed \in Nat
          /\ traded \in Seq(Event)
          /\ pending_trades + matches_validated = Len(traded)
      BY <1>1 DEF RInv, Counts
    <2>2. messages_processed' \in 0 .. Limit
      BY <1>1, <2>1, ReplayAssumption
    <2> QED BY <1>1, <1>4, <2>1, <2>2 DEF Counts
  <1> QED BY <1>6, <1>7, <1>8, FromFeedNext

\* The messages of a row are none or one.
LEMMA OneMessage ==
  ASSUME NEW r
  PROVE  Cardinality(ToMessage(r)) \in {0, 1}
  <1>1. ToMessage(r) = {} \/ \E x : ToMessage(r) = {x}
    <2>1. CASE r.type \in {"received", "open", "done", "match", "change"}
      BY <2>1, Zenon DEF ToMessage
    <2>2. CASE r.type \notin {"received", "open", "done", "match", "change"}
      BY <2>2 DEF ToMessage
    <2> QED BY <2>1, <2>2
  <1> QED BY <1>1, FS_EmptySet, FS_Singleton

\* Rows that leave the engine alone.
LEMMA QuietRInv ==
  ASSUME RInv, UNCHANGED <<vars, phase, traded, open>>, phase = "read",
         messages_processed' \in 0 .. Limit, pending_trades' \in Nat,
         matches_validated' \in Nat, matches_missed' \in Nat,
         pending_trades' + matches_validated' = pending_trades + matches_validated
  PROVE  Counts' /\ PlacingOrder' /\ FromFeed(matcher, open)'
  <1>1. matcher' = matcher
    BY DEF vars
  <1>2. FromFeed(matcher, open)'
    BY <1>1, FromFeedNext DEF RInv
  <1>3. PlacingOrder'
    BY DEF PlacingOrder
  <1>4. /\ traded \in Seq(Event) /\ OpenRows(open)
        /\ pending_trades + matches_validated = Len(traded)
    BY DEF RInv, Counts
  <1>5. Counts'
    BY <1>4 DEF Counts
  <1> QED BY <1>2, <1>3, <1>5

LEMMA MatchedRInv ==
  ASSUME RInv, NEW r, Matched(r)
  PROVE  Counts' /\ PlacingOrder' /\ FromFeed(matcher, open)'
  <1>1. /\ phase = "read" /\ messages_processed < Limit
        /\ messages_processed' = messages_processed + 1
        /\ UNCHANGED <<vars, phase, traded, open>>
        /\ \/ /\ pending_trades > 0 /\ pending_trades' = pending_trades - 1
              /\ matches_validated' = matches_validated + 1
              /\ matches_missed' = matches_missed
           \/ /\ matches_missed' = matches_missed + 1
              /\ UNCHANGED <<matches_validated, pending_trades>>
    BY DEF Matched, Reading
  <1>2. /\ messages_processed \in 0 .. Limit /\ pending_trades \in Nat
        /\ matches_validated \in Nat /\ matches_missed \in Nat
    BY DEF RInv, Counts
  <1>3. /\ messages_processed' \in 0 .. Limit /\ pending_trades' \in Nat
        /\ matches_validated' \in Nat /\ matches_missed' \in Nat
        /\ pending_trades' + matches_validated' = pending_trades + matches_validated
    BY <1>1, <1>2, ReplayAssumption
  <1> QED BY <1>1, <1>3, QuietRInv

LEMMA IgnoredRInv ==
  ASSUME RInv, NEW r, Ignored(r)
  PROVE  Counts' /\ PlacingOrder' /\ FromFeed(matcher, open)'
  <1> DEFINE c == Cardinality(ToMessage(r))
  <1>1. /\ phase = "read" /\ messages_processed < Limit
        /\ messages_processed' = messages_processed + c
        /\ UNCHANGED <<vars, phase, traded, open, pending_trades,
                       matches_validated, matches_missed>>
    BY DEF Ignored, Reading
  <1>2. c \in {0, 1}
    BY OneMessage
  <1>3. /\ messages_processed \in 0 .. Limit /\ pending_trades \in Nat
        /\ matches_validated \in Nat /\ matches_missed \in Nat
    BY DEF RInv, Counts
  <1> HIDE DEF c
  <1>4. messages_processed' \in 0 .. Limit
    BY <1>1, <1>2, <1>3, ReplayAssumption
  <1> QED BY <1>1, <1>3, <1>4, QuietRInv

LEMMA SameRInv ==
  ASSUME RInv, UNCHANGED allvars
  PROVE  Counts' /\ PlacingOrder' /\ FromFeed(matcher, open)'
  <1>1. /\ UNCHANGED <<vars, phase, row, traded, open>>
        /\ UNCHANGED <<messages_processed, pending_trades, matches_validated,
                       matches_missed>>
    BY DEF allvars, counters
  <1>2. /\ matcher' = matcher /\ event_buffer' = event_buffer /\ pc' = pc
        /\ taker' = taker /\ remaining_qty' = remaining_qty
    BY <1>1 DEF vars
  <1>3. FromFeed(matcher, open)'
    BY <1>1, <1>2, FromFeedNext DEF RInv
  <1>4. PlacingOrder'
    BY <1>1, <1>2 DEF RInv, PlacingOrder
  <1>5. Trades' = Trades
    BY <1>2, TradesNext DEF Trades
  <1>6. Counts'
    BY <1>1, <1>5 DEF RInv, Counts
  <1> QED BY <1>3, <1>4, <1>6

LEMMA InitRInv == ReplayInit => RInv
  <1> SUFFICES ASSUME ReplayInit PROVE RInv
    OBVIOUS
  <1>1. EInv
    BY InitEInv
  <1>2. FromFeed(matcher, open)
    <2>1. DOMAIN matcher.order_map = {}
      BY DEF ReplayInit, Init, NewMatcher
    <2> QED BY <2>1 DEF FromFeed
  <1>3. PlacingOrder
    BY DEF ReplayInit, PlacingOrder
  <1>4. Counts
    BY ReplayAssumption DEF ReplayInit, Counts, OpenRows
  <1> QED BY <1>1, <1>2, <1>3, <1>4 DEF RInv

LEMMA StepRInv == RInv /\ [ReplayNext]_allvars => RInv'
  <1> SUFFICES ASSUME RInv, [ReplayNext]_allvars PROVE RInv'
    OBVIOUS
  <1>1. EInv'
    BY StepEInv DEF RInv
  <1> SUFFICES Counts' /\ PlacingOrder' /\ FromFeed(matcher, open)'
    BY <1>1 DEF RInv
  <1>2. ASSUME NEW r \in OrderRow, Received(r)
        PROVE  Counts' /\ PlacingOrder' /\ FromFeed(matcher, open)'
    BY <1>2, ReceivedRInv
  <1>3. CASE Placing
    BY <1>1, <1>3, PlacingRInv
  <1>4. CASE CountTrades
    BY <1>4, CountTradesRInv
  <1>5. ASSUME NEW r \in PlainRow("done"), Done(r)
        PROVE  Counts' /\ PlacingOrder' /\ FromFeed(matcher, open)'
    BY <1>5, DoneRInv
  <1>6. ASSUME NEW r, Matched(r) \/ Ignored(r)
        PROVE  Counts' /\ PlacingOrder' /\ FromFeed(matcher, open)'
    BY <1>6, MatchedRInv, IgnoredRInv
  <1>7. CASE End \/ UNCHANGED allvars
    BY <1>7, SameRInv DEF End
  <1> QED BY <1>2, <1>3, <1>4, <1>5, <1>6, <1>7, Zenon DEF ReplayNext

LEMMA RInvAlways == ReplaySpec => []RInv
  BY InitRInv, StepRInv, PTL DEF ReplaySpec

-----------------------------------------------------------------------------
(* What the invariant says of the program.                                  *)

\* Types: the counters of replay.rs, which are unsigned, never underflow, and
\* no more messages are processed than the limit.
THEOREM ReplayTypes == ReplaySpec => []ReplayTypeOK
  <1>1. RInv => ReplayTypeOK
    BY DEF RInv, EInv, IInv, Counts, OpenRows, ReplayTypeOK
  <1> QED BY <1>1, RInvAlways, PTL

\* Between rows every trade that process_command made has been counted once by
\* replay.rs: it is pending, or a match row has been held against it.
THEOREM ReplayTradesCounted == ReplaySpec => []TradesCounted
  <1>1. RInv => TradesCounted
    BY DEF RInv, Counts, TradesCounted
  <1> QED BY <1>1, RInvAlways, PTL

\* Every order in the book is that of a row received and not done since
\* (to_message of coinbase.rs and the loop of replay.rs), on its side, at its
\* price rounded down, of no more than its size, whatever ids collide.
THEOREM ReplayBookFromFeed == ReplaySpec => []BookFromFeed
  <1>1. RInv => BookFromFeed
    BY BookFromFeedIs DEF RInv
  <1> QED BY <1>1, RInvAlways, PTL

\* A received order is refused, or all of its size (to_message of
\* coinbase.rs) is traded or in the book when process_command returns.
THEOREM ReplayPlacedInFull == ReplaySpec => []PlacedInFull
  <1>1. RInv => PlacedInFull
    <2> SUFFICES ASSUME RInv, phase = "placing", pc = "idle"
                 PROVE  \/ \E k \in DOMAIN event_buffer :
                             event_buffer[k].kind = "Rejected"
                        \/ \E a \in row.amount :
                             SumFunction([k \in DOMAIN event_buffer |->
                                            PlacedQty(event_buffer[k])])
                               = a \div DIGITS
      BY Zenon DEF PlacedInFull
    <2>1. Refused(event_buffer) \/ AllPlaced(event_buffer, row)
      BY DEF RInv, PlacingOrder, Progress
    <2> QED BY <2>1, Zenon DEF Refused, AllPlaced, SumPlaced
  <1> QED BY <1>1, RInvAlways, PTL
=============================================================================
