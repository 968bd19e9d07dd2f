---------------------------- MODULE EngineProofs ----------------------------
(***************************************************************************)
(* Theorems about the states of Engine, for every capacity, word size, and *)
(* set of ids, users, prices and quantities.  First what each operation on *)
(* levels, book and matcher leaves behind: types, prices, a book in order. *)
(* Then the two inductive invariants, and what follows from them.          *)
(***************************************************************************)
EXTENDS Engine, LevelLemmas

BookNode == NodeType(Prices \cup {0}, U32, OrderIds \cup {0}, UserIds \cup {0})

Nodes == [Index -> BookNode]

\* The fields of a typed arena, and how to put one together.
LEMMA BookArenaFields ==
  /\ \A a \in BookArena : a.nodes \in Nodes /\ a.free_head \in Link
                          /\ a.allocated_count \in Int
  /\ \A a \in BookArena, n \in Nodes : [a EXCEPT !.nodes = n] \in BookArena
  BY Zenon DEF BookArena, ArenaType, Nodes, BookNode

LEMMA ZeroInTypes ==
  0 \in Prices \cup {0} /\ 0 \in U32 /\ 0 \in OrderIds \cup {0} /\ 0 \in UserIds \cup {0}
  BY WordAssumption DEF U32

LEMMA LinkIndex == \A x \in Link : x # NULL_INDEX => x \in Index
  BY DEF Link

LEMMA NodeFields ==
  ASSUME NEW n \in BookNode
  PROVE  /\ n.qty \in U32 /\ n.qty \in Int
         /\ n.order_id \in OrderIds \cup {0}
         /\ n.user_id \in UserIds \cup {0}
         /\ n.next \in Link /\ n.prev \in Link
  <1>1. n.qty \in U32 /\ n.next \in Link /\ n.prev \in Link
        /\ n.order_id \in OrderIds \cup {0} /\ n.user_id \in UserIds \cup {0}
    BY DEF BookNode, NodeType
  <1>2. U32 \subseteq Int
    BY WordAssumption DEF U32
  <1> QED BY <1>1, <1>2, Zenon

\* Writing the fields of a node.
LEMMA NodeUpdates ==
  ASSUME NEW n \in BookNode, NEW x \in Link, NEW y \in Link, NEW q \in U32
  PROVE  /\ [n EXCEPT !.next = x, !.prev = y] \in BookNode
         /\ [n EXCEPT !.prev = y, !.next = x] \in BookNode
         /\ [n EXCEPT !.next = x] \in BookNode
         /\ [n EXCEPT !.qty = q] \in BookNode
  <1>1. [n EXCEPT !.next = x, !.prev = y] \in BookNode
    BY Zenon DEF BookNode, NodeType
  <1>2. [n EXCEPT !.prev = y, !.next = x] \in BookNode
    BY Zenon DEF BookNode, NodeType
  <1>3. [n EXCEPT !.next = x] \in BookNode
    BY DEF BookNode, NodeType
  <1>4. [n EXCEPT !.qty = q] \in BookNode
    BY DEF BookNode, NodeType
  <1> QED BY <1>1, <1>2, <1>3, <1>4

-----------------------------------------------------------------------------
(* Functions with a key more or less.                                      *)

LEMMA InsertType ==
  ASSUME NEW D, NEW R, NEW f, DOMAIN f \subseteq D, f \in [DOMAIN f -> R],
         NEW k \in D, NEW v \in R
  PROVE  /\ DOMAIN Insert(f, k, v) = DOMAIN f \cup {k}
         /\ DOMAIN Insert(f, k, v) \subseteq D
         /\ Insert(f, k, v) \in [DOMAIN Insert(f, k, v) -> R]
  BY DEF Insert

LEMMA DeleteType ==
  ASSUME NEW D, NEW R, NEW f, DOMAIN f \subseteq D, f \in [DOMAIN f -> R],
         NEW k
  PROVE  /\ DOMAIN Delete(f, k) = DOMAIN f \ {k}
         /\ DOMAIN Delete(f, k) \subseteq D
         /\ Delete(f, k) \in [DOMAIN Delete(f, k) -> R]
  BY DEF Delete, Restrict

-----------------------------------------------------------------------------
(* The levels' queues.                                                     *)

LEMMA NewLevelType == NewLevel \in Level
  BY DEF NewLevel, Level, Link

LEMMA PushBackType ==
  ASSUME NEW l \in Level, NEW nodes \in Nodes, NEW i \in Index
  PROVE  /\ PushBack(l, nodes, i).level \in Level
         /\ PushBack(l, nodes, i).nodes \in Nodes
  <1>1. l.head \in Link /\ l.tail \in Link /\ i \in Link /\ NULL_INDEX \in Link
    BY DEF Level, Link
  <1>2. \A j \in Index : nodes[j] \in BookNode
    BY DEF Nodes
  <1>3. nodes[i].qty \in Int
    BY <1>2, NodeFields
  <1>4. PushBack(l, nodes, i).level \in Level
    BY <1>1, <1>3 DEF PushBack, Level
  <1>5. ASSUME NEW j \in Index
        PROVE  (IF j = i
                THEN [nodes[i] EXCEPT !.prev = l.tail, !.next = NULL_INDEX]
                ELSE IF j = l.tail
                     THEN [nodes[j] EXCEPT !.next = i]
                     ELSE nodes[j]) \in BookNode
    BY <1>1, <1>2, Zenon DEF BookNode, NodeType
  <1>6. DOMAIN nodes = Index
    BY DEF Nodes
  <1> QED BY <1>4, <1>5, <1>6 DEF PushBack, Nodes

LEMMA UnlinkType ==
  ASSUME NEW nodes \in Nodes, NEW i \in Index, NEW p \in Link, NEW n \in Link
  PROVE  Unlink(nodes, i, p, n) \in Nodes
  <1>1. \A j \in Index : nodes[j] \in BookNode
    BY DEF Nodes
  <1>2. NULL_INDEX \in Link
    BY DEF Link
  <1>3. ASSUME NEW j \in Index
        PROVE  (IF j = i
                THEN [nodes[i] EXCEPT !.prev = NULL_INDEX, !.next = NULL_INDEX]
                ELSE [nodes[j] EXCEPT !.next = IF j = p THEN n ELSE @,
                                      !.prev = IF j = n THEN p ELSE @])
                \in BookNode
    <2>1. nodes[j] \in BookNode /\ nodes[i] \in BookNode
      BY <1>1
    <2>2. (IF j = p THEN n ELSE nodes[j].next) \in Link
      BY <2>1, NodeFields
    <2>3. (IF j = n THEN p ELSE nodes[j].prev) \in Link
      BY <2>1, NodeFields
    <2> QED BY <1>2, <2>1, <2>2, <2>3, Zenon DEF BookNode, NodeType
  <1>4. DOMAIN nodes = Index
    BY DEF Nodes
  <1> QED BY <1>3, <1>4, Zenon DEF Unlink, Nodes

LEMMA PopFrontType ==
  ASSUME NEW l \in Level, NEW nodes \in Nodes, l.head # NULL_INDEX
  PROVE  /\ PopFront(l, nodes).level \in Level
         /\ PopFront(l, nodes).nodes \in Nodes
  <1>1. l.head \in Index /\ l.tail \in Link /\ NULL_INDEX \in Link
    BY LinkIndex DEF Level, Link
  <1>2. nodes[l.head] \in BookNode
    BY <1>1 DEF Nodes
  <1>3. nodes[l.head].next \in Link /\ nodes[l.head].qty \in Int
    BY <1>2, NodeFields
  <1>4. PopFront(l, nodes).level \in Level
    BY <1>1, <1>3 DEF PopFront, Level
  <1> QED BY <1>1, <1>3, <1>4, UnlinkType DEF PopFront

LEMMA RemoveType ==
  ASSUME NEW l \in Level, NEW nodes \in Nodes, NEW i \in Index
  PROVE  /\ Remove(l, nodes, i).level \in Level
         /\ Remove(l, nodes, i).nodes \in Nodes
  <1>1. l.head \in Link /\ l.tail \in Link
    BY DEF Level
  <1>2. nodes[i] \in BookNode
    BY DEF Nodes
  <1>3. nodes[i].next \in Link /\ nodes[i].prev \in Link /\ nodes[i].qty \in Int
    BY <1>2, NodeFields
  <1>4. Remove(l, nodes, i).level \in Level
    BY <1>1, <1>3 DEF Remove, Level
  <1> QED BY <1>3, <1>4, UnlinkType DEF Remove

-----------------------------------------------------------------------------
(* The book.                                                               *)

\* The levels of m after a change on one side.
LEMMA SideType ==
  ASSUME NEW levels, LevelsType(levels), NEW side \in Sides, NEW f,
         DOMAIN f \subseteq Prices, f \in [DOMAIN f -> Level]
  PROVE  /\ LevelsType([levels EXCEPT ![side] = f])
         /\ [levels EXCEPT ![side] = f][side] = f
         /\ \A s \in Sides \ {side} :
              [levels EXCEPT ![side] = f][s] = levels[s]
  BY DEF LevelsType

\* PutLevel never adds a price.
LEMMA PutLevelType ==
  ASSUME NEW m, LevelsType(m.levels), NEW side \in Sides,
         NEW p \in DOMAIN m.levels[side], NEW l \in Level
  PROVE  /\ LevelsType(PutLevel(m, side, p, l))
         /\ \A s \in Sides :
              DOMAIN PutLevel(m, side, p, l)[s] \subseteq DOMAIN m.levels[s]
  <1> DEFINE book == m.levels[side]
             f == IF IsEmpty(l) THEN Delete(book, p) ELSE [book EXCEPT ![p] = l]
  <1>1. DOMAIN book \subseteq Prices /\ book \in [DOMAIN book -> Level]
    BY DEF LevelsType
  <1>2. DOMAIN Delete(book, p) = DOMAIN book \ {p}
        /\ Delete(book, p) \in [DOMAIN Delete(book, p) -> Level]
    BY <1>1, DeleteType, ZenonT(40)
  <1>3. DOMAIN f \subseteq DOMAIN book /\ f \in [DOMAIN f -> Level]
    BY <1>1, <1>2
  <1>4. PutLevel(m, side, p, l) = [m.levels EXCEPT ![side] = f]
    BY DEF PutLevel, LevelsType
  <1> HIDE DEF f
  <1> QED BY <1>1, <1>3, <1>4, SideType

LEMMA AddOrderType ==
  ASSUME NEW m, MatcherType(m), NEW order \in PlaceOrder, NEW i \in Index
  PROVE  /\ MatcherType(AddOrder(m, order, i))
         /\ \A s \in Sides :
              DOMAIN AddOrder(m, order, i).levels[s]
                \subseteq DOMAIN m.levels[s]
                            \cup (IF s = order.side THEN {order.price} ELSE {})
  <1> DEFINE book == m.levels[order.side]
             level == IF order.price \in DOMAIN book
                      THEN book[order.price] ELSE NewLevel
             pushed == PushBack(level, m.arena.nodes, i)
             f == Insert(book, order.price, pushed.level)
             info == [arena_index |-> i, side |-> order.side,
                      price |-> order.price, user_id |-> order.user_id]
             map == Insert(m.order_map, order.order_id, info)
  <1>1. order.side \in Sides /\ order.price \in Prices
        /\ order.order_id \in OrderIds /\ order.user_id \in UserIds
    BY DEF PlaceOrder
  <1>2. m.arena \in BookArena /\ LevelsType(m.levels) /\ MapType(m.order_map)
    BY DEF MatcherType
  <1>3. DOMAIN book \subseteq Prices /\ book \in [DOMAIN book -> Level]
    BY <1>1, <1>2 DEF LevelsType
  <1>4. level \in Level
    BY <1>3, NewLevelType
  <1>5. pushed.level \in Level /\ pushed.nodes \in Nodes
    BY <1>2, <1>4, BookArenaFields, PushBackType
  <1>6. DOMAIN f = DOMAIN book \cup {order.price}
        /\ DOMAIN f \subseteq Prices /\ f \in [DOMAIN f -> Level]
    <2>1. ASSUME NEW l \in Level
          PROVE  LET g == Insert(book, order.price, l)
                 IN  /\ DOMAIN g = DOMAIN book \cup {order.price}
                     /\ DOMAIN g \subseteq Prices
                     /\ g \in [DOMAIN g -> Level]
      <3> HIDE DEF book
      <3> QED BY <1>1, <1>3, InsertType, Zenon
    <2> HIDE DEF book, pushed
    <2> QED BY <1>5, <2>1, Zenon
  <1>7. LevelsType([m.levels EXCEPT ![order.side] = f])
        /\ [m.levels EXCEPT ![order.side] = f][order.side] = f
        /\ \A s \in Sides \ {order.side} :
             [m.levels EXCEPT ![order.side] = f][s] = m.levels[s]
    <2> HIDE DEF f
    <2> QED BY <1>1, <1>2, <1>6, SideType
  <1>8. info \in OrderInfo
    BY <1>1 DEF OrderInfo
  <1>9. MapType(map)
    <2> HIDE DEF info
    <2> QED BY <1>1, <1>2, <1>8, InsertType, Zenon DEF MapType
  <1>10. [m.arena EXCEPT !.nodes = pushed.nodes] \in BookArena
    BY <1>2, <1>5, BookArenaFields
  <1>11. CASE order.order_id \in DOMAIN m.order_map
    BY <1>11 DEF AddOrder
  <1>12. CASE order.order_id \notin DOMAIN m.order_map
    <2>1. AddOrder(m, order, i) =
            [arena |-> [m.arena EXCEPT !.nodes = pushed.nodes],
             levels |-> [m.levels EXCEPT ![order.side] = f],
             order_map |-> map]
      BY <1>1, <1>2, <1>12 DEF AddOrder, LevelsType
    <2> HIDE DEF f, map, pushed
    <2>2. MatcherType(AddOrder(m, order, i))
      BY <2>1, <1>7, <1>9, <1>10 DEF MatcherType
    <2>3. ASSUME NEW s \in Sides
          PROVE  DOMAIN AddOrder(m, order, i).levels[s]
                   \subseteq DOMAIN m.levels[s]
                     \cup (IF s = order.side THEN {order.price} ELSE {})
      BY <2>1, <1>6, <1>7
    <2> QED BY <2>2, <2>3
  <1> QED BY <1>11, <1>12

LEMMA RemoveOrderType ==
  ASSUME NEW m, MatcherType(m), NEW id \in DOMAIN m.order_map
  PROVE  /\ MatcherType(RemoveOrder(m, id))
         /\ \A s \in Sides :
              DOMAIN RemoveOrder(m, id).levels[s] \subseteq DOMAIN m.levels[s]
  <1> DEFINE info == m.order_map[id]
             book == m.levels[info.side]
             removed == Remove(book[info.price], m.arena.nodes, info.arena_index)
  <1>1. m.arena \in BookArena /\ LevelsType(m.levels) /\ MapType(m.order_map)
    BY DEF MatcherType
  <1>2. info \in OrderInfo
    BY <1>1 DEF MapType
  <1>3. info.side \in Sides /\ info.arena_index \in Index
    BY <1>2 DEF OrderInfo
  <1>4. MapType(Delete(m.order_map, id))
    BY <1>1, DeleteType, Zenon DEF MapType
  <1>5. CASE info.price \in DOMAIN book
    <2>1. book[info.price] \in Level
      BY <1>1, <1>3, <1>5 DEF LevelsType
    <2>2. removed.level \in Level /\ removed.nodes \in Nodes
      BY <1>1, <1>3, <2>1, BookArenaFields, RemoveType, SMTT(30)
    <2>3. [m.arena EXCEPT !.nodes = removed.nodes] \in BookArena
      BY <1>1, <2>2, BookArenaFields
    <2> DEFINE levels == PutLevel(m, info.side, info.price, removed.level)
    <2>4. LevelsType(levels)
          /\ \A s \in Sides : DOMAIN levels[s] \subseteq DOMAIN m.levels[s]
      <3> HIDE DEF removed
      <3> QED BY <1>1, <1>3, <1>5, <2>2, PutLevelType
    <2>5. RemoveOrder(m, id) =
            [arena |-> [m.arena EXCEPT !.nodes = removed.nodes],
             levels |-> levels, order_map |-> Delete(m.order_map, id)]
      BY <1>5 DEF RemoveOrder
    <2> HIDE DEF levels, removed
    <2> QED BY <1>4, <2>3, <2>4, <2>5 DEF MatcherType
  <1>6. CASE info.price \notin DOMAIN book
    BY <1>1, <1>4, <1>6 DEF RemoveOrder, MatcherType
  <1> QED BY <1>5, <1>6

LEMMA NewMatcherType == MatcherType(NewMatcher)
  <1>1. NewArena \in BookArena
    BY ZeroInTypes, NewArenaFreeList DEF BookArena
  <1>2. LevelsType(NewMatcher.levels) /\ MapType(NewMatcher.order_map)
    BY DEF NewMatcher, LevelsType, MapType
  <1> QED BY <1>1, <1>2 DEF NewMatcher, MatcherType

-----------------------------------------------------------------------------
(* The prices of the book.                                                 *)

\* No level appears but perhaps at one price of one side.
Shrinks(m, n) ==
  \A s \in Sides : DOMAIN n.levels[s] \subseteq DOMAIN m.levels[s]

\* A set of prices that is not empty has a least and a greatest member.
LEMMA LeastPrice ==
  ASSUME NEW S, S \subseteq Prices, S # {}
  PROVE  \E p \in S : \A q \in S : p <= q
  <1>1. S \subseteq Nat
    BY CommandAssumption, WordAssumption DEF U64_MAX
  <1>2. PICK p \in S : \A q \in S : ~(<<q, p>> \in OpToRel(<, Nat))
    BY <1>1, NatLessThanWellFounded, WFMin, Zenon
  <1>3. \A q \in S : ~(q < p)
    BY <1>1, <1>2, Zenon DEF OpToRel
  <1> QED BY <1>1, <1>3

LEMMA GreatestPrice ==
  ASSUME NEW S, S \subseteq Prices, S # {}
  PROVE  \E p \in S : \A q \in S : p >= q
  <1>1. U64_MAX \in Nat
    BY WordAssumption DEF U64_MAX
  <1>2. \A p \in S : p \in Nat /\ p <= U64_MAX
    BY <1>1, CommandAssumption
  <1> DEFINE T == {U64_MAX - p : p \in S}
  <1>3. T \subseteq Nat /\ T # {}
    BY <1>1, <1>2
  <1>4. PICK t \in T : \A u \in T : ~(<<u, t>> \in OpToRel(<, Nat))
    BY <1>3, NatLessThanWellFounded, WFMin, Zenon
  <1>5. \A u \in T : ~(u < t)
    BY <1>3, <1>4, Zenon DEF OpToRel
  <1>6. PICK p \in S : t = U64_MAX - p
    OBVIOUS
  <1>7. ASSUME NEW q \in S PROVE p >= q
    <2>1. ~(U64_MAX - q < U64_MAX - p)
      BY <1>5, <1>6
    <2> QED BY <1>1, <1>2, <2>1
  <1> QED BY <1>7

\* If any level of the opposite side crosses an order, so does the best one.
LEMMA BestCrosses ==
  ASSUME NEW m, LevelsType(m.levels), NEW order \in PlaceOrder,
         NEW p \in DOMAIN m.levels[Opposite(order.side)], Crosses(order, p)
  PROVE  \E q \in DOMAIN m.levels[Opposite(order.side)] :
           IsBest(m, Opposite(order.side), q) /\ Crosses(order, q)
  <1> DEFINE S == DOMAIN m.levels[Opposite(order.side)]
  <1>1. order.side \in Sides /\ order.price \in Prices
    BY DEF PlaceOrder
  <1>2. Opposite(order.side) \in Sides
    BY <1>1 DEF Opposite, Sides
  <1>3. S \subseteq Prices /\ S # {}
    BY <1>2 DEF LevelsType
  <1>4. Prices \subseteq Int
    BY CommandAssumption, WordAssumption DEF U64_MAX
  <1>5. CASE order.side = "Bid"
    <2>1. PICK q \in S : \A r \in S : q <= r
      BY <1>3, LeastPrice
    <2>2. \A r \in S : ~Better(Opposite(order.side), r, q)
      <3>1. Opposite(order.side) = "Ask"
        BY <1>5 DEF Opposite
      <3>2. ASSUME NEW r \in S PROVE ~Better(Opposite(order.side), r, q)
        <4>1. q \in Int /\ r \in Int
          BY <1>3, <1>4, Zenon
        <4> QED BY <2>1, <3>1, <4>1 DEF Better
      <3> QED BY <3>2
    <2>3. Crosses(order, q)
      <3>1. q \in Int /\ p \in Int /\ order.price \in Int /\ q <= p
        BY <1>1, <1>3, <1>4, <2>1
      <3> QED BY <1>5, <3>1 DEF Crosses
    <2> QED BY <2>2, <2>3 DEF IsBest
  <1>6. CASE order.side = "Ask"
    <2>1. PICK q \in S : \A r \in S : q >= r
      BY <1>3, GreatestPrice
    <2>2. \A r \in S : ~Better(Opposite(order.side), r, q)
      <3>1. Opposite(order.side) = "Bid"
        BY <1>6 DEF Opposite
      <3>2. ASSUME NEW r \in S PROVE ~Better(Opposite(order.side), r, q)
        <4>1. q \in Int /\ r \in Int
          BY <1>3, <1>4, Zenon
        <4> QED BY <2>1, <3>1, <4>1 DEF Better
      <3> QED BY <3>2
    <2>3. Crosses(order, q)
      <3>1. q \in Int /\ p \in Int /\ order.price \in Int /\ q >= p
        BY <1>1, <1>3, <1>4, <2>1, Zenon
      <3> QED BY <1>6, <3>1 DEF Crosses
    <2> QED BY <2>2, <2>3 DEF IsBest
  <1> QED BY <1>1, <1>5, <1>6 DEF Sides

-----------------------------------------------------------------------------
(* The operations of the matching engine.                                  *)

LEMMA FillMakerType ==
  ASSUME NEW m, MatcherType(m), NEW side \in Sides,
         NEW p \in DOMAIN m.levels[side],
         m.levels[side][p].head # NULL_INDEX
  PROVE  /\ MatcherType(FillMaker(m, side, p))
         /\ Shrinks(m, FillMaker(m, side, p))
         /\ ~IsFull(FillMaker(m, side, p).arena)
  <1> DEFINE level == m.levels[side][p]
             popped == PopFront(level, m.arena.nodes)
             arena1 == [m.arena EXCEPT !.nodes = popped.nodes]
             id == m.arena.nodes[level.head].order_id
  <1>1. m.arena \in BookArena /\ LevelsType(m.levels) /\ MapType(m.order_map)
    BY DEF MatcherType
  <1>2. level \in Level
    BY <1>1 DEF LevelsType
  <1>3. level.head \in Index
    BY <1>2, LinkIndex DEF Level
  <1>4. popped.level \in Level /\ popped.nodes \in Nodes
    BY <1>1, <1>2, BookArenaFields, PopFrontType
  <1>5. arena1 \in BookArena
    BY <1>1, <1>4, BookArenaFields
  <1>6. Free(arena1, level.head) \in BookArena
    <2> HIDE DEF arena1, level
    <2> QED BY <1>3, <1>5, ZeroInTypes, FreeType DEF BookArena
  <1>7. Free(arena1, level.head).free_head = level.head
    BY DEF Free
  <1>8. LevelsType(PutLevel(m, side, p, popped.level))
        /\ \A s \in Sides : DOMAIN PutLevel(m, side, p, popped.level)[s]
                              \subseteq DOMAIN m.levels[s]
    <2> HIDE DEF popped
    <2> QED BY <1>1, <1>4, PutLevelType
  <1>9. MapType(Delete(m.order_map, id))
    <2> HIDE DEF id
    <2> QED BY <1>1, DeleteType, Zenon DEF MapType
  <1>10. FillMaker(m, side, p) =
           [arena |-> Free(arena1, level.head),
            levels |-> PutLevel(m, side, p, popped.level),
            order_map |-> Delete(m.order_map, id)]
    BY DEF FillMaker
  <1> HIDE DEF level, popped, arena1, id
  <1>11. level.head # NULL_INDEX
    BY DEF level
  <1> QED BY <1>6, <1>7, <1>8, <1>9, <1>10, <1>11
          DEF MatcherType, Shrinks, IsFull

LEMMA ReduceMakerType ==
  ASSUME NEW m, MatcherType(m), NEW side \in Sides,
         NEW p \in DOMAIN m.levels[side],
         m.levels[side][p].head # NULL_INDEX,
         NEW qty \in Nat, qty <= m.arena.nodes[m.levels[side][p].head].qty
  PROVE  /\ MatcherType(ReduceMaker(m, side, p, qty))
         /\ Shrinks(m, ReduceMaker(m, side, p, qty))
         /\ ReduceMaker(m, side, p, qty).arena.free_head = m.arena.free_head
  <1> DEFINE level == m.levels[side][p]
             node == m.arena.nodes[level.head]
             node1 == [node EXCEPT !.qty = @ - qty]
             nodes1 == [m.arena.nodes EXCEPT ![level.head] = node1]
             arena1 == [m.arena EXCEPT !.nodes = nodes1]
             book1 == [m.levels[side] EXCEPT ![p] = SubtractQty(level, qty)]
             levels1 == [m.levels EXCEPT ![side] = book1]
  <1>1. m.arena \in BookArena /\ LevelsType(m.levels) /\ MapType(m.order_map)
    BY DEF MatcherType
  <1>2. level \in Level
    BY <1>1 DEF LevelsType
  <1>3. level.head \in Index /\ m.arena.nodes \in Nodes
    BY <1>1, <1>2, BookArenaFields, LinkIndex DEF Level
  <1>4. node \in BookNode
    BY <1>3, SMTT(30) DEF Nodes
  <1>5. node.qty - qty \in U32
    BY <1>4, NodeFields, WordAssumption DEF U32
  <1>6. node1 \in BookNode
    BY <1>4, <1>5, Zenon DEF BookNode, NodeType
  <1>7. nodes1 \in Nodes
    BY <1>3, <1>6, Zenon DEF Nodes
  <1>8. arena1 \in BookArena /\ arena1.free_head = m.arena.free_head
    BY <1>1, <1>7, BookArenaFields, Zenon DEF BookArena, ArenaType
  <1>9. SubtractQty(level, qty) \in Level
    BY <1>2 DEF SubtractQty, Level
  <1>10. DOMAIN book1 = DOMAIN m.levels[side]
         /\ DOMAIN book1 \subseteq Prices /\ book1 \in [DOMAIN book1 -> Level]
    BY <1>1, <1>9 DEF LevelsType
  <1>11. LevelsType(levels1) /\ levels1[side] = book1
         /\ \A s \in Sides \ {side} : levels1[s] = m.levels[s]
    <2> HIDE DEF book1
    <2> QED BY <1>1, <1>10, SideType
  <1>12. ReduceMaker(m, side, p, qty) =
           [arena |-> arena1, levels |-> levels1, order_map |-> m.order_map]
    <2>1. nodes1 = [m.arena.nodes EXCEPT ![level.head].qty = @ - qty]
      BY <1>3 DEF Nodes
    <2>2. levels1 = [m.levels EXCEPT ![side][p] = SubtractQty(level, qty)]
      BY <1>1 DEF LevelsType
    <2> QED BY <2>1, <2>2 DEF ReduceMaker
  <1> HIDE DEF arena1, levels1, book1
  <1>13. Shrinks(m, ReduceMaker(m, side, p, qty))
    BY <1>10, <1>11, <1>12 DEF Shrinks
  <1> QED BY <1>1, <1>8, <1>11, <1>12, <1>13 DEF MatcherType

LEMMA RestOrderType ==
  ASSUME NEW m, MatcherType(m), NEW order \in PlaceOrder, NEW qty \in U32,
         ~IsFull(m.arena)
  PROVE  /\ MatcherType(RestOrder(m, order, qty))
         /\ \A s \in Sides :
              DOMAIN RestOrder(m, order, qty).levels[s]
                \subseteq DOMAIN m.levels[s]
                            \cup (IF s = order.side THEN {order.price} ELSE {})
  <1> DEFINE i == m.arena.free_head
             a == Alloc(m.arena)
             node == [a.nodes[i] EXCEPT !.order_id = order.order_id,
                                        !.user_id = order.user_id,
                                        !.price = order.price, !.qty = qty]
             arena1 == [a EXCEPT !.nodes[i] = node]
             m1 == [m EXCEPT !.arena = arena1]
  <1>1. m.arena \in BookArena /\ LevelsType(m.levels) /\ MapType(m.order_map)
    BY DEF MatcherType
  <1>2. i \in Index
    BY <1>1, BookArenaFields, LinkIndex DEF IsFull
  <1>3. a \in BookArena
    BY <1>1, AllocType DEF BookArena
  <1>4. a.nodes \in Nodes /\ a.nodes[i] \in BookNode
    <2> HIDE DEF a, i
    <2> QED BY <1>2, <1>3, BookArenaFields DEF Nodes
  <1>5. order.order_id \in OrderIds /\ order.user_id \in UserIds
        /\ order.price \in Prices
    BY DEF PlaceOrder
  <1>6. node \in BookNode
    <2> HIDE DEF a, i
    <2> QED BY <1>4, <1>5, Zenon DEF BookNode, NodeType
  <1>7. arena1 \in BookArena
    <2> HIDE DEF a, i, node
    <2>1. [a.nodes EXCEPT ![i] = node] \in Nodes
      BY <1>2, <1>4, <1>6 DEF Nodes
    <2>2. arena1 = [a EXCEPT !.nodes = [a.nodes EXCEPT ![i] = node]]
      BY <1>3 DEF BookArena, ArenaType
    <2> QED BY <1>3, <2>1, <2>2, BookArenaFields
  <1>8. MatcherType(m1) /\ m1.levels = m.levels
    <2> HIDE DEF arena1
    <2> QED BY <1>1, <1>7 DEF MatcherType
  <1>9. RestOrder(m, order, qty) = AddOrder(m1, order, i)
    BY DEF RestOrder
  <1> HIDE DEF m1, i
  <1> QED BY <1>2, <1>8, <1>9, AddOrderType

LEMMA CancelOrderType ==
  ASSUME NEW m, MatcherType(m), NEW id \in DOMAIN m.order_map
  PROVE  /\ MatcherType(CancelOrder(m, id))
         /\ Shrinks(m, CancelOrder(m, id))
         /\ ~IsFull(CancelOrder(m, id).arena)
  <1> DEFINE info == m.order_map[id]
             removed == RemoveOrder(m, id)
             arena1 == Free(removed.arena, info.arena_index)
  <1>1. MatcherType(removed) /\ Shrinks(m, removed)
    BY RemoveOrderType DEF Shrinks
  <1>2. info.arena_index \in Index
    BY DEF MatcherType, MapType, OrderInfo
  <1>3. removed.arena \in BookArena
    BY <1>1 DEF MatcherType
  <1>4. arena1 \in BookArena
    <2> HIDE DEF removed, info
    <2> QED BY <1>2, <1>3, ZeroInTypes, FreeType DEF BookArena
  <1>5. arena1.free_head = info.arena_index
    BY DEF Free
  <1>6. CancelOrder(m, id) = [removed EXCEPT !.arena = arena1]
    BY DEF CancelOrder
  <1> HIDE DEF removed, arena1, info
  <1>7. CancelOrder(m, id).arena = arena1
        /\ CancelOrder(m, id).levels = removed.levels
        /\ MatcherType(CancelOrder(m, id))
    BY <1>1, <1>4, <1>6 DEF MatcherType
  <1> QED BY <1>1, <1>2, <1>5, <1>7, NullIndex DEF Shrinks, IsFull

-----------------------------------------------------------------------------
(* A book in order, told from its orders.  That of OrderBook, Consistent,  *)
(* follows, and every operation keeps it.                                  *)

\* The nodes of the orders that the map puts at one price of one side.
Placed(m, side, p) ==
  {m.order_map[id].arena_index :
     id \in {x \in DOMAIN m.order_map :
               m.order_map[x].side = side /\ m.order_map[x].price = p}}

\* The node of an order says of it what the map says, and there is a level.
OrderPlaced(m, id) ==
  LET info == m.order_map[id]
      node == m.arena.nodes[info.arena_index]
  IN  /\ info.price \in DOMAIN m.levels[info.side]
      /\ node.order_id = id
      /\ node.user_id = info.user_id
      /\ node.price = info.price
      /\ node.qty > 0

Orderly(m) ==
  /\ \A id \in DOMAIN m.order_map : OrderPlaced(m, id)
  /\ \A side \in Sides : \A p \in DOMAIN m.levels[side] :
       QueueOn(m.levels[side][p], m.arena.nodes, Placed(m, side, p))
  /\ FreeListOf(m.arena, Index \ InUse(m))
  /\ m.arena.allocated_count = Cardinality(DOMAIN m.order_map)

LEMMA PlacedIff ==
  ASSUME NEW m, NEW side, NEW p, NEW i
  PROVE  i \in Placed(m, side, p) <=>
           \E id \in DOMAIN m.order_map :
             /\ m.order_map[id].arena_index = i
             /\ m.order_map[id].side = side
             /\ m.order_map[id].price = p
  BY DEF Placed

LEMMA MapFields ==
  ASSUME NEW m, MatcherType(m), NEW id \in DOMAIN m.order_map
  PROVE  /\ id \in OrderIds
         /\ m.order_map[id].arena_index \in Index
         /\ m.order_map[id].side \in Sides
         /\ m.order_map[id].price \in Prices
         /\ m.order_map[id].user_id \in UserIds
         /\ m.order_map[id] =
              [arena_index |-> m.order_map[id].arena_index,
               side |-> m.order_map[id].side, price |-> m.order_map[id].price,
               user_id |-> m.order_map[id].user_id]
  <1>1. id \in OrderIds /\ m.order_map[id] \in OrderInfo
    BY DEF MatcherType, MapType
  <1> QED BY <1>1 DEF OrderInfo

LEMMA BookBlock ==
  ASSUME NEW m, MatcherType(m)
  PROVE  /\ m.arena.nodes \in Nodes /\ IsBlock(m.arena.nodes)
         /\ \A side \in Sides : \A p \in DOMAIN m.levels[side] :
              p \in Prices /\ m.levels[side][p] \in Level
  <1>1. m.arena.nodes \in Nodes
    BY BookArenaFields DEF MatcherType
  <1>2. IsBlock(m.arena.nodes)
    <2>1. U32 \subseteq Int
      BY WordAssumption DEF U32
    <2>2. m.arena.nodes \in [Index -> NodeType(Prices \cup {0}, Int,
                               OrderIds \cup {0}, UserIds \cup {0})]
      BY <1>1, <2>1, Zenon DEF Nodes, BookNode, NodeType
    <2> QED BY <2>2 DEF IsBlock
  <1> QED BY <1>1, <1>2 DEF MatcherType, LevelsType

\* The map sends no two orders to one node, so it is finite, and a node is
\* placed at one price at most.
LEMMA OrderlyMap ==
  ASSUME NEW m, MatcherType(m), Orderly(m)
  PROVE  /\ \A x, y \in DOMAIN m.order_map :
              m.order_map[x].arena_index = m.order_map[y].arena_index => x = y
         /\ IsFiniteSet(DOMAIN m.order_map)
         /\ Cardinality(DOMAIN m.order_map) \in Nat
         /\ Cardinality(DOMAIN m.order_map) <= Capacity
  <1> DEFINE f == [x \in DOMAIN m.order_map |-> m.order_map[x].arena_index]
             D == DOMAIN m.order_map
  <1>1. \A x \in D : m.arena.nodes[m.order_map[x].arena_index].order_id = x
    BY DEF Orderly, OrderPlaced
  <1>2. \A x, y \in D :
          m.order_map[x].arena_index = m.order_map[y].arena_index => x = y
    BY <1>1
  <1>3. \A x \in D : f[x] = m.order_map[x].arena_index /\ f[x] \in Index
    BY MapFields, Zenon
  <1>4. f \in Injection(D, Index)
    BY <1>2, <1>3, Zenon DEF Injection, IsInjective
  <1> HIDE DEF f, D
  <1>5. IsFiniteSet(D) /\ Cardinality(D) <= Cardinality(Index)
    BY <1>4, IndexFinite, FS_Injection
  <1>6. Cardinality(D) \in Nat
    BY <1>5, FS_CardinalityType
  <1> QED BY <1>2, <1>5, <1>6, IndexFinite DEF D

LEMMA PlacedFacts ==
  ASSUME NEW m, MatcherType(m), Orderly(m), NEW side, NEW p,
         NEW i \in Placed(m, side, p)
  PROVE  /\ i \in Index /\ i \in InUse(m)
         /\ m.arena.nodes[i].order_id \in DOMAIN m.order_map
         /\ m.order_map[m.arena.nodes[i].order_id] =
              [arena_index |-> i, side |-> side, price |-> p,
               user_id |-> m.arena.nodes[i].user_id]
         /\ m.arena.nodes[i].price = p
         /\ m.arena.nodes[i].qty > 0
         /\ side \in Sides /\ p \in DOMAIN m.levels[side]
         /\ \A s, x : i \in Placed(m, s, x) => s = side /\ x = p
  <1>1. PICK id \in DOMAIN m.order_map :
          /\ m.order_map[id].arena_index = i
          /\ m.order_map[id].side = side
          /\ m.order_map[id].price = p
    BY PlacedIff
  <1>2. OrderPlaced(m, id)
    BY DEF Orderly
  <1>3. /\ p \in DOMAIN m.levels[side]
        /\ m.arena.nodes[i].order_id = id
        /\ m.arena.nodes[i].user_id = m.order_map[id].user_id
        /\ m.arena.nodes[i].price = p
        /\ m.arena.nodes[i].qty > 0
    BY <1>1, <1>2 DEF OrderPlaced
  <1>4. /\ i \in Index /\ side \in Sides
        /\ m.order_map[id] = [arena_index |-> i, side |-> side, price |-> p,
                              user_id |-> m.order_map[id].user_id]
    BY <1>1, MapFields
  <1>5. i \in InUse(m)
    BY <1>1 DEF InUse
  <1>6. ASSUME NEW s, NEW x, i \in Placed(m, s, x) PROVE s = side /\ x = p
    <2>1. PICK y \in DOMAIN m.order_map :
            /\ m.order_map[y].arena_index = i
            /\ m.order_map[y].side = s
            /\ m.order_map[y].price = x
      BY <1>6, PlacedIff
    <2>2. y = id
      BY <1>1, <2>1, OrderlyMap
    <2> QED BY <1>1, <2>1, <2>2
  <1> QED BY <1>3, <1>4, <1>5, <1>6

\* The orders of two places have no node in common.
LEMMA PlacedApart ==
  ASSUME NEW m, MatcherType(m), Orderly(m), NEW side, NEW p, NEW s, NEW x,
         s # side \/ x # p
  PROVE  \A j \in Placed(m, s, x) : j \in Index /\ j \notin Placed(m, side, p)
  <1>1. ASSUME NEW j \in Placed(m, s, x)
        PROVE  j \in Index /\ j \notin Placed(m, side, p)
    <2>1. PICK y \in DOMAIN m.order_map :
            /\ m.order_map[y].arena_index = j
            /\ m.order_map[y].side = s /\ m.order_map[y].price = x
      BY PlacedIff
    <2>2. ASSUME j \in Placed(m, side, p) PROVE FALSE
      <3>1. PICK z \in DOMAIN m.order_map :
              /\ m.order_map[z].arena_index = j
              /\ m.order_map[z].side = side /\ m.order_map[z].price = p
        BY <2>2, PlacedIff
      <3>2. y = z
        BY <2>1, <3>1, OrderlyMap
      <3> QED BY <2>1, <3>1, <3>2
    <2> QED BY <2>1, <2>2, MapFields, Zenon
  <1> QED BY <1>1

LEMMA InUsePlaced ==
  ASSUME NEW m, MatcherType(m), NEW id \in DOMAIN m.order_map
  PROVE  m.order_map[id].arena_index
           \in Placed(m, m.order_map[id].side, m.order_map[id].price)
  BY DEF Placed

LEMMA InUseIndex ==
  ASSUME NEW m, MatcherType(m)
  PROVE  InUse(m) \subseteq Index
  BY MapFields, Zenon DEF InUse

\* The counters keep to their widths because no more orders can rest than
\* there are nodes, none of them with more than a u32 holds.
LEMMA TotalFits ==
  ASSUME NEW ns \in Nodes, NEW S, S \subseteq Index
  PROVE  TotalQty(ns, S) \in 0 .. U64_MAX
  <1> DEFINE f == [i \in Index |-> ns[i].qty]
             c == Cardinality(S)
  <1>1. IsFiniteSet(S) /\ c \in Nat /\ c <= Capacity
    BY SubsetOfIndex
  <1>2. U32_MAX \in Nat /\ Capacity < U32_MAX
    BY WordAssumption, CapacityAssumption
  <1>3. \A i \in S : f[i] \in 0 .. U32_MAX
    <2>1. \A i \in S : ns[i] \in BookNode /\ f[i] = ns[i].qty
      BY DEF Nodes
    <2> HIDE DEF f
    <2> QED BY <2>1, NodeFields DEF U32
  <1> HIDE DEF f, c
  <1>4. SumFunctionOnSet(f, S) \in 0 .. c * U32_MAX
    BY <1>1, <1>2, <1>3, SumBounds DEF c
  <1>5. c * U32_MAX <= U64_MAX /\ c * U32_MAX \in Nat
    <2> DEFINE u == U32_MAX
    <2>1. u \in Nat /\ c \in Nat /\ u - c \in Nat
      BY <1>1, <1>2, CapacityAssumption
    <2> HIDE DEF u
    <2>2. (u - c) * u \in Nat /\ c * u \in Nat /\ u * u \in Nat
      BY <2>1
    <2>3. u * u = c * u + (u - c) * u
      BY <2>1
    <2>4. (u + 1) * (u + 1) = u * u + u + u + 1
      BY <2>1
    <2>5. c * u <= (u + 1) * (u + 1) - 1
      BY <2>1, <2>2, <2>3, <2>4
    <2> QED BY <2>2, <2>5 DEF u, U64_MAX
  <1>6. U64_MAX \in Int
    BY <1>2 DEF U64_MAX
  <1>7. SumFunctionOnSet(f, S) \in 0 .. U64_MAX
    BY <1>4, <1>5, <1>6
  <1> QED BY <1>7 DEF TotalQty, f

LEMMA OrderlyConsistent ==
  ASSUME NEW m, MatcherType(m), Orderly(m)
  PROVE  Consistent(m)
  <1>1. /\ m.arena.nodes \in Nodes /\ IsBlock(m.arena.nodes)
        /\ \A side \in Sides : \A p \in DOMAIN m.levels[side] :
             m.levels[side][p] \in Level
    BY BookBlock
  <1>2. \A side \in Sides : \A p \in DOMAIN m.levels[side] :
          QueueOn(m.levels[side][p], m.arena.nodes, Placed(m, side, p))
    BY DEF Orderly
  <1>3. Capacity \in U32 /\ \A x \in Int : 0 <= x /\ x <= Capacity => x \in U32
    BY CapacityAssumption, WordAssumption DEF U32
  <1>4. m.arena.allocated_count \in U32
        /\ m.arena.allocated_count = Cardinality(DOMAIN m.order_map)
    BY <1>3, OrderlyMap, SMTT(30) DEF Orderly
  <1>5. ASSUME NEW side \in Sides, NEW p \in DOMAIN m.levels[side]
        PROVE  /\ m.levels[side][p].count \in U32
               /\ m.levels[side][p].total_qty \in 0 .. U64_MAX
    <2> DEFINE l == m.levels[side][p]
               S == Placed(m, side, p)
    <2>1. l \in Level /\ QueueOn(l, m.arena.nodes, S)
      BY <1>1, <1>2
    <2> HIDE DEF l, S
    <2>2. /\ l.count \in 1 .. Capacity /\ S \subseteq Index
          /\ l.total_qty = TotalQty(m.arena.nodes, S)
      BY <1>1, <2>1, QueueOnFacts
    <2>3. l.count \in U32
      BY <1>3, <2>2, CapacityAssumption
    <2>4. l.total_qty \in 0 .. U64_MAX
      BY <1>1, <2>2, TotalFits
    <2> QED BY <2>3, <2>4 DEF l
  <1>6. CountersFit(m)
    BY <1>4, <1>5 DEF CountersFit
  <1>7. ASSUME NEW side \in Sides, NEW p \in DOMAIN m.levels[side]
        PROVE  LevelSound(m.levels[side][p], m.arena.nodes) /\ LevelMapped(m, side, p)
    <2>1. /\ LevelSound(m.levels[side][p], m.arena.nodes)
          /\ Range(QueueOf(m.levels[side][p], m.arena.nodes)) = Placed(m, side, p)
      BY <1>2 DEF QueueOn
    <2>2. ASSUME NEW i \in Placed(m, side, p)
          PROVE  LET node == m.arena.nodes[i]
                 IN  /\ node.qty > 0
                     /\ node.price = p
                     /\ node.order_id \in DOMAIN m.order_map
                     /\ m.order_map[node.order_id] =
                          [arena_index |-> i, side |-> side, price |-> p,
                           user_id |-> node.user_id]
      BY PlacedFacts
    <2>3. LevelMapped(m, side, p)
      BY <2>1, <2>2 DEF LevelMapped
    <2> QED BY <2>1, <2>3
  <1>8. MapSound(m)
    <2> SUFFICES ASSUME NEW id \in DOMAIN m.order_map
                 PROVE  LET info == m.order_map[id]
                        IN  /\ info.price \in DOMAIN m.levels[info.side]
                            /\ info.arena_index
                                 \in Range(QueueOf(m.levels[info.side][info.price],
                                                   m.arena.nodes))
                            /\ m.arena.nodes[info.arena_index].order_id = id
      BY DEF MapSound
    <2> DEFINE info == m.order_map[id]
    <2>1. /\ info.price \in DOMAIN m.levels[info.side]
          /\ m.arena.nodes[info.arena_index].order_id = id
      BY DEF Orderly, OrderPlaced
    <2>2. info.arena_index \in Placed(m, info.side, info.price) /\ info.side \in Sides
      BY InUsePlaced, MapFields, Zenon
    <2> HIDE DEF info
    <2>3. Range(QueueOf(m.levels[info.side][info.price], m.arena.nodes))
            = Placed(m, info.side, info.price)
      BY <1>2, <2>1, <2>2 DEF QueueOn
    <2> QED BY <2>1, <2>2, <2>3 DEF info
  <1>9. FreeListOf(m.arena, Index \ InUse(m))
    BY DEF Orderly
  <1> QED BY <1>4, <1>6, <1>7, <1>8, <1>9 DEF Consistent

-----------------------------------------------------------------------------
(* The operations keep the book in order.                                  *)

\* The levels L are those of K but at price p of one side.
Elsewhere(L, K, side, p) ==
  \A s \in Sides, x \in Prices :
    s # side \/ x # p =>
      /\ x \in DOMAIN L[s] <=> x \in DOMAIN K[s]
      /\ x \in DOMAIN K[s] => L[s][x] = K[s][x]

LEMMA PutLevelAt ==
  ASSUME NEW m, LevelsType(m.levels), NEW side \in Sides,
         NEW p \in DOMAIN m.levels[side], NEW l
  PROVE  /\ Elsewhere(PutLevel(m, side, p, l), m.levels, side, p)
         /\ p \in DOMAIN PutLevel(m, side, p, l)[side] <=> ~IsEmpty(l)
         /\ ~IsEmpty(l) => PutLevel(m, side, p, l)[side][p] = l
  <1> DEFINE book == m.levels[side]
             L == PutLevel(m, side, p, l)
  <1>1. DOMAIN m.levels = Sides /\ book = [x \in DOMAIN book |-> book[x]]
    BY DEF LevelsType
  <1>2. L[side] = (IF IsEmpty(l) THEN Delete(book, p) ELSE [book EXCEPT ![p] = l])
        /\ \A s \in Sides \ {side} : L[s] = m.levels[s]
    BY <1>1 DEF PutLevel
  <1> HIDE DEF L
  <1>3. CASE IsEmpty(l)
    <2>1. L[side] = Delete(book, p)
      BY <1>2, <1>3
    <2>2. DOMAIN L[side] = DOMAIN book \ {p}
          /\ \A x \in DOMAIN book \ {p} : L[side][x] = book[x]
      BY <2>1 DEF Delete, Restrict
    <2>3. Elsewhere(L, m.levels, side, p)
      BY <1>2, <2>2 DEF Elsewhere
    <2> QED BY <1>3, <2>2, <2>3 DEF L
  <1>4. CASE ~IsEmpty(l)
    <2>1. L[side] = [book EXCEPT ![p] = l]
      BY <1>2, <1>4
    <2>2. DOMAIN L[side] = DOMAIN book /\ L[side][p] = l
          /\ \A x \in DOMAIN book \ {p} : L[side][x] = book[x]
      BY <1>1, <2>1
    <2>3. Elsewhere(L, m.levels, side, p)
      BY <1>2, <2>2 DEF Elsewhere
    <2> QED BY <1>4, <2>2, <2>3 DEF L
  <1> QED BY <1>3, <1>4

\* A level that an operation leaves alone, and the nodes of its orders too.
LEMMA OtherLevel ==
  ASSUME NEW m, MatcherType(m), Orderly(m), NEW n, MatcherType(n),
         NEW side, NEW p, Elsewhere(n.levels, m.levels, side, p),
         NEW s \in Sides, NEW x \in DOMAIN n.levels[s], s # side \/ x # p,
         Placed(n, s, x) = Placed(m, s, x),
         \A j \in Placed(m, s, x) : n.arena.nodes[j] = m.arena.nodes[j]
  PROVE  QueueOn(n.levels[s][x], n.arena.nodes, Placed(n, s, x))
  <1>1. x \in Prices
    BY BookBlock
  <1>2. x \in DOMAIN m.levels[s] /\ n.levels[s][x] = m.levels[s][x]
    BY <1>1 DEF Elsewhere
  <1>3. m.levels[s][x] \in Level /\ IsBlock(m.arena.nodes)
    BY <1>2, BookBlock
  <1>4. QueueOn(m.levels[s][x], m.arena.nodes, Placed(m, s, x))
    BY <1>2 DEF Orderly
  <1>5. QueueOn(m.levels[s][x], n.arena.nodes, Placed(m, s, x))
    BY <1>3, <1>4, QueueOnWrite
  <1> QED BY <1>2, <1>5

\* CancelOrder, taken apart.
LEMMA CancelParts ==
  ASSUME NEW m, MatcherType(m), Orderly(m), NEW id \in DOMAIN m.order_map
  PROVE  LET info == m.order_map[id]
             i == info.arena_index
             r == Remove(m.levels[info.side][info.price], m.arena.nodes, i)
             S == Placed(m, info.side, info.price)
             n == CancelOrder(m, id)
         IN  /\ i \in S /\ info.side \in Sides
             /\ info.price \in DOMAIN m.levels[info.side]
             /\ r.level \in Level /\ IsBlock(r.nodes)
             /\ IsEmpty(r.level) <=> S = {i}
             /\ S # {i} => QueueOn(r.level, r.nodes, S \ {i})
             /\ OnlyLinksOf(S, r.nodes, m.arena.nodes)
             /\ n.arena = Free([m.arena EXCEPT !.nodes = r.nodes], i)
             /\ n.levels = PutLevel(m, info.side, info.price, r.level)
             /\ n.order_map = Delete(m.order_map, id)
  <1> DEFINE info == m.order_map[id]
             i == info.arena_index
             s == info.side
             p == info.price
             l == m.levels[s][p]
             r == Remove(l, m.arena.nodes, i)
             S == Placed(m, s, p)
             n == CancelOrder(m, id)
  <1>1. i \in S /\ s \in Sides /\ i \in Index
    BY InUsePlaced, MapFields, Zenon
  <1>2. p \in DOMAIN m.levels[s]
    BY DEF Orderly, OrderPlaced
  <1>3. l \in Level /\ IsBlock(m.arena.nodes) /\ QueueOn(l, m.arena.nodes, S)
    BY <1>1, <1>2, BookBlock DEF Orderly
  <1>4. /\ r.level \in Level /\ IsBlock(r.nodes)
        /\ IsEmpty(r.level) <=> S = {i}
        /\ S # {i} => QueueOn(r.level, r.nodes, S \ {i})
        /\ OnlyLinksOf(S, r.nodes, m.arena.nodes)
    <2> DEFINE ns == m.arena.nodes
    <2>1. i \in S /\ l \in Level /\ IsBlock(ns) /\ QueueOn(l, ns, S)
      BY <1>1, <1>3
    <2> HIDE DEF l, S, i, ns
    <2>2. LET t == Remove(l, ns, i)
          IN  /\ IsBlock(t.nodes) /\ t.level \in Level
              /\ IsEmpty(t.level) <=> S = {i}
              /\ S # {i} => QueueOn(t.level, t.nodes, S \ {i})
              /\ OnlyLinksOf(S, t.nodes, ns)
      BY <2>1, QueueOnRemove, Zenon
    <2> QED BY <2>2, SMTT(30) DEF ns
  <1>5. /\ n.arena = Free([m.arena EXCEPT !.nodes = r.nodes], i)
        /\ n.levels = PutLevel(m, s, p, r.level)
        /\ n.order_map = Delete(m.order_map, id)
    <2>1. RemoveOrder(m, id) =
            [arena |-> [m.arena EXCEPT !.nodes = r.nodes],
             levels |-> PutLevel(m, s, p, r.level),
             order_map |-> Delete(m.order_map, id)]
      BY <1>2 DEF RemoveOrder
    <2>2. n = [RemoveOrder(m, id) EXCEPT !.arena = Free(RemoveOrder(m, id).arena, i)]
      BY DEF CancelOrder
    <2> HIDE DEF n, r, s, p, i
    <2> QED BY <2>1, <2>2
  <1> HIDE DEF r, n, S
  <1> QED BY <1>1, <1>2, <1>4, <1>5, Zenon DEF r, n, S

\* What CancelOrder does, seen from the orders.
LEMMA CancelEffect ==
  ASSUME NEW m, MatcherType(m), Orderly(m), NEW id \in DOMAIN m.order_map
  PROVE  LET info == m.order_map[id]
             i == info.arena_index
             n == CancelOrder(m, id)
         IN  /\ DOMAIN n.order_map = DOMAIN m.order_map \ {id}
             /\ \A x \in DOMAIN m.order_map \ {id} :
                  n.order_map[x] = m.order_map[x]
             /\ \A j \in Index \ {i} : Data(n.arena.nodes[j]) = Data(m.arena.nodes[j])
             /\ \A j \in Index \ Placed(m, info.side, info.price) :
                  n.arena.nodes[j] = m.arena.nodes[j]
             /\ Elsewhere(n.levels, m.levels, info.side, info.price)
             /\ \A s, x : Placed(n, s, x) = Placed(m, s, x) \ {i}
             /\ InUse(n) = InUse(m) \ {i}
  <1> DEFINE info == m.order_map[id]
             i == info.arena_index
             s0 == info.side
             p0 == info.price
             r == Remove(m.levels[s0][p0], m.arena.nodes, i)
             a == [m.arena EXCEPT !.nodes = r.nodes]
             S == Placed(m, s0, p0)
             n == CancelOrder(m, id)
  <1>1. /\ i \in S /\ s0 \in Sides /\ p0 \in DOMAIN m.levels[s0]
        /\ r.level \in Level
        /\ OnlyLinksOf(S, r.nodes, m.arena.nodes)
        /\ n.arena = Free(a, i)
        /\ n.levels = PutLevel(m, s0, p0, r.level)
        /\ n.order_map = Delete(m.order_map, id)
    BY CancelParts, Zenon
  <1>2. i \in Index
    BY MapFields, Zenon
  <1>3. DOMAIN n.order_map = DOMAIN m.order_map \ {id}
        /\ \A x \in DOMAIN m.order_map \ {id} : n.order_map[x] = m.order_map[x]
    <2> HIDE DEF n
    <2> QED BY <1>1, Zenon DEF Delete, Restrict
  <1>4. \A j \in Index \ {i} : n.arena.nodes[j] = r.nodes[j]
    <2>1. m.arena \in BookArena /\ r.nodes \in Nodes
      <3>1. LevelsType(m.levels) /\ m.arena \in BookArena
        BY DEF MatcherType
      <3>2. m.arena.nodes \in Nodes /\ m.levels[s0][p0] \in Level
        BY <1>1, BookBlock, Zenon
      <3> HIDE DEF i, s0, p0
      <3> QED BY <1>2, <3>1, <3>2, RemoveType
    <2>2. a \in BookArena /\ a.nodes = r.nodes
      <3> HIDE DEF r
      <3> QED BY <2>1, BookArenaFields, Zenon DEF BookArena, ArenaType
    <2> HIDE DEF a, i, n, r
    <2>3. \A j \in Index \ {i} : Free(a, i).nodes[j] = a.nodes[j]
      BY <1>2, <2>2, FreeType, ZeroInTypes DEF BookArena
    <2> QED BY <1>1, <2>2, <2>3
  <1>5. \A j \in Index \ {i} : Data(n.arena.nodes[j]) = Data(m.arena.nodes[j])
    BY <1>1, <1>4, Zenon DEF OnlyLinksOf
  <1>6. \A j \in Index \ S : n.arena.nodes[j] = m.arena.nodes[j]
    BY <1>1, <1>4, Zenon DEF OnlyLinksOf
  <1>7. Elsewhere(n.levels, m.levels, s0, p0)
    <2>1. LevelsType(m.levels)
      BY DEF MatcherType
    <2> HIDE DEF s0, p0, r, n
    <2>2. Elsewhere(PutLevel(m, s0, p0, r.level), m.levels, s0, p0)
      BY <1>1, <2>1, PutLevelAt
    <2> QED BY <1>1, <2>2
  <1> HIDE DEF n, S, r, a
  <1>8. \A x, y \in DOMAIN m.order_map :
          m.order_map[x].arena_index = m.order_map[y].arena_index => x = y
    BY OrderlyMap
  <1>9. ASSUME NEW s, NEW x PROVE Placed(n, s, x) = Placed(m, s, x) \ {i}
    <2>1. ASSUME NEW j \in Placed(n, s, x) PROVE j \in Placed(m, s, x) \ {i}
      <3>1. PICK y \in DOMAIN n.order_map :
              /\ n.order_map[y].arena_index = j
              /\ n.order_map[y].side = s /\ n.order_map[y].price = x
        BY <2>1, PlacedIff
      <3>2. y \in DOMAIN m.order_map /\ y # id /\ n.order_map[y] = m.order_map[y]
        BY <1>3, <3>1
      <3>3. j # i
        BY <1>8, <3>1, <3>2
      <3>4. j \in Placed(m, s, x)
        BY <3>1, <3>2, PlacedIff
      <3> QED BY <3>3, <3>4
    <2>2. ASSUME NEW j \in Placed(m, s, x) \ {i} PROVE j \in Placed(n, s, x)
      <3>1. PICK y \in DOMAIN m.order_map :
              /\ m.order_map[y].arena_index = j
              /\ m.order_map[y].side = s /\ m.order_map[y].price = x
        BY <2>2, PlacedIff
      <3>2. y # id
        BY <2>2, <3>1
      <3>3. y \in DOMAIN n.order_map /\ n.order_map[y] = m.order_map[y]
        BY <1>3, <3>1, <3>2
      <3> QED BY <3>1, <3>3, PlacedIff
    <2> QED BY <2>1, <2>2
  <1>10. InUse(n) = InUse(m) \ {i}
    <2>1. ASSUME NEW j \in InUse(n) PROVE j \in InUse(m) \ {i}
      <3>1. PICK y \in DOMAIN n.order_map : n.order_map[y].arena_index = j
        BY <2>1 DEF InUse
      <3>2. y \in DOMAIN m.order_map /\ y # id /\ n.order_map[y] = m.order_map[y]
        BY <1>3, <3>1
      <3> QED BY <1>8, <3>1, <3>2 DEF InUse
    <2>2. ASSUME NEW j \in InUse(m) \ {i} PROVE j \in InUse(n)
      <3>1. PICK y \in DOMAIN m.order_map : m.order_map[y].arena_index = j
        BY <2>2 DEF InUse
      <3>2. y # id
        BY <2>2, <3>1
      <3>3. y \in DOMAIN n.order_map /\ n.order_map[y] = m.order_map[y]
        BY <1>3, <3>1, <3>2
      <3> QED BY <3>1, <3>3 DEF InUse
    <2> QED BY <2>1, <2>2
  <1> QED BY <1>3, <1>5, <1>6, <1>7, <1>9, <1>10 DEF n, S

LEMMA CancelOrderly ==
  ASSUME NEW m, MatcherType(m), Orderly(m), NEW id \in DOMAIN m.order_map
  PROVE  Orderly(CancelOrder(m, id))
  <1> DEFINE info == m.order_map[id]
             i == info.arena_index
             s0 == info.side
             p0 == info.price
             r == Remove(m.levels[s0][p0], m.arena.nodes, i)
             a == [m.arena EXCEPT !.nodes = r.nodes]
             S == Placed(m, s0, p0)
             n == CancelOrder(m, id)
  <1>1. /\ i \in S /\ s0 \in Sides /\ p0 \in DOMAIN m.levels[s0]
        /\ r.level \in Level /\ IsBlock(r.nodes)
        /\ IsEmpty(r.level) <=> S = {i}
        /\ S # {i} => QueueOn(r.level, r.nodes, S \ {i})
        /\ OnlyLinksOf(S, r.nodes, m.arena.nodes)
        /\ n.arena = Free(a, i)
        /\ n.levels = PutLevel(m, s0, p0, r.level)
        /\ n.order_map = Delete(m.order_map, id)
    BY CancelParts, Zenon
  <1>2. /\ DOMAIN n.order_map = DOMAIN m.order_map \ {id}
        /\ \A x \in DOMAIN m.order_map \ {id} : n.order_map[x] = m.order_map[x]
        /\ \A j \in Index \ {i} : Data(n.arena.nodes[j]) = Data(m.arena.nodes[j])
        /\ \A j \in Index \ S : n.arena.nodes[j] = m.arena.nodes[j]
        /\ Elsewhere(n.levels, m.levels, s0, p0)
        /\ \A s, x : Placed(n, s, x) = Placed(m, s, x) \ {i}
        /\ InUse(n) = InUse(m) \ {i}
    BY CancelEffect
  <1>3. MatcherType(n)
    BY CancelOrderType
  <1>4. i \in Index /\ i \in InUse(m) /\ S \subseteq InUse(m) /\ p0 \in Prices
        /\ \A s, x : i \in Placed(m, s, x) => s = s0 /\ x = p0
    <2>1. i \in Index /\ p0 \in Prices
      BY MapFields, Zenon
    <2> HIDE DEF i, s0, p0, r, n
    <2>2. \A j \in S : j \in InUse(m)
      BY PlacedFacts, Zenon
    <2>3. i \in Placed(m, s0, p0)
      BY <1>1
    <2>4. \A s, x : i \in Placed(m, s, x) => s = s0 /\ x = p0
      BY <2>3, PlacedFacts, ZenonT(40)
    <2> HIDE DEF S
    <2> QED BY <1>1, <2>1, <2>2, <2>4
  <1>5. LevelsType(m.levels)
    BY DEF MatcherType
  <1>6. /\ p0 \in DOMAIN n.levels[s0] <=> ~IsEmpty(r.level)
        /\ ~IsEmpty(r.level) => n.levels[s0][p0] = r.level
    <2> HIDE DEF s0, p0, r, n
    <2> QED BY <1>1, <1>5, PutLevelAt
  <1>7. a.nodes = r.nodes /\ a.free_head = m.arena.free_head
        /\ a.allocated_count = m.arena.allocated_count /\ a \in BookArena
    <2>1. m.arena \in BookArena /\ m.arena.nodes \in Nodes
          /\ m.levels[s0][p0] \in Level
      BY <1>1, BookBlock, Zenon DEF MatcherType
    <2>2. r.nodes \in Nodes
      <3> HIDE DEF i, s0, p0
      <3> QED BY <1>4, <2>1, RemoveType
    <2> HIDE DEF r
    <2> QED BY <2>1, <2>2, BookArenaFields, Zenon DEF BookArena, ArenaType
  <1>8. \A j \in Index \ {i} : n.arena.nodes[j] = r.nodes[j]
    <2> HIDE DEF a, i, n, r
    <2>1. \A j \in Index \ {i} : Free(a, i).nodes[j] = a.nodes[j]
      BY <1>4, <1>7, FreeType, ZeroInTypes DEF BookArena
    <2> QED BY <1>1, <1>7, <2>1
  <1> HIDE DEF info, i, s0, p0, r, a, S, n
  <1>9. ASSUME NEW x \in DOMAIN n.order_map PROVE OrderPlaced(n, x)
    <2> DEFINE j == m.order_map[x].arena_index
               s == m.order_map[x].side
               p == m.order_map[x].price
    <2>1. x \in DOMAIN m.order_map /\ x # id /\ n.order_map[x] = m.order_map[x]
      BY <1>2
    <2>2. OrderPlaced(m, x)
      BY <2>1 DEF Orderly
    <2>3. j # i
      <3>1. \A y, z \in DOMAIN m.order_map :
              m.order_map[y].arena_index = m.order_map[z].arena_index => y = z
        BY OrderlyMap
      <3> QED BY <2>1, <3>1 DEF i, info
    <2>4. j \in Index /\ s \in Sides /\ p \in Prices /\ j \in Placed(m, s, p)
      BY <2>1, MapFields, InUsePlaced, Zenon
    <2>5. Data(n.arena.nodes[j]) = Data(m.arena.nodes[j])
      BY <1>2, <2>3, <2>4
    <2>6. p \in DOMAIN m.levels[s]
      BY <2>2 DEF OrderPlaced
    <2>7. p \in DOMAIN n.levels[s]
      <3>1. CASE s # s0 \/ p # p0
        BY <1>2, <2>4, <2>6, <3>1 DEF Elsewhere
      <3>2. CASE s = s0 /\ p = p0
        <4>1. j \in S
          BY <2>4, <3>2 DEF S
        <4> QED BY <1>1, <1>6, <2>3, <3>2, <4>1
      <3> QED BY <3>1, <3>2
    <2> QED BY <2>1, <2>2, <2>5, <2>7, DataQty DEF OrderPlaced
  <1>10. ASSUME NEW s \in Sides, NEW p \in DOMAIN n.levels[s]
         PROVE  QueueOn(n.levels[s][p], n.arena.nodes, Placed(n, s, p))
    <2>1. CASE s = s0 /\ p = p0
      <3>1. ~IsEmpty(r.level) /\ n.levels[s][p] = r.level /\ S # {i}
        BY <1>1, <1>6, <2>1
      <3>2. QueueOn(r.level, r.nodes, S \ {i})
        BY <1>1, <3>1
      <3>3. \A j \in S \ {i} : n.arena.nodes[j] = r.nodes[j]
        <4>1. S \subseteq Index
          BY <1>4, InUseIndex
        <4> QED BY <1>8, <4>1
      <3>4. QueueOn(r.level, n.arena.nodes, S \ {i})
        BY <1>1, <3>2, <3>3, QueueOnWrite
      <3> QED BY <1>2, <2>1, <3>1, <3>4 DEF S
    <2>2. CASE s # s0 \/ p # p0
      <3>1. Placed(n, s, p) = Placed(m, s, p)
        BY <1>2, <1>4, <2>2
      <3>2. ASSUME NEW j \in Placed(m, s, p)
            PROVE  n.arena.nodes[j] = m.arena.nodes[j]
        <4>1. j \in Index
          BY PlacedFacts, Zenon
        <4>2. \A t, x : j \in Placed(m, t, x) => t = s /\ x = p
          BY PlacedFacts, ZenonT(40)
        <4>3. j \notin S
          BY <2>2, <4>2 DEF S
        <4> QED BY <1>2, <4>1, <4>3
      <3>3. Elsewhere(n.levels, m.levels, s0, p0)
        BY <1>2
      <3> QED BY <1>3, <2>2, <3>1, <3>2, <3>3, OtherLevel, Zenon
    <2> QED BY <2>1, <2>2
  <1>11. FreeListOf(n.arena, Index \ InUse(n))
    <2>1. FreeListOf(m.arena, Index \ InUse(m))
      BY DEF Orderly
    <2>2. \A j \in Index \ InUse(m) : a.nodes[j].next = m.arena.nodes[j].next
      BY <1>1, <1>4, <1>7 DEF OnlyLinksOf
    <2>3. FreeListOf(a, Index \ InUse(m))
      BY <1>7, <2>1, <2>2, WriteFreeList
    <2>4. i \in Index \ (Index \ InUse(m)) /\ Index \ InUse(m) \subseteq Index
      BY <1>4
    <2>5. FreeListOf(Free(a, i), (Index \ InUse(m)) \cup {i})
      BY <1>7, <2>3, <2>4, FreeFreeList DEF BookArena
    <2>6. (Index \ InUse(m)) \cup {i} = Index \ InUse(n)
      BY <1>2, <1>4
    <2> QED BY <1>1, <2>5, <2>6
  <1>12. n.arena.allocated_count = Cardinality(DOMAIN n.order_map)
    <2>1. n.arena.allocated_count = m.arena.allocated_count - 1
      BY <1>1, <1>7 DEF Free
    <2>2. Cardinality(DOMAIN m.order_map \ {id}) = Cardinality(DOMAIN m.order_map) - 1
      BY OrderlyMap, FS_RemoveElement, Zenon
    <2> QED BY <1>2, <2>1, <2>2 DEF Orderly
  <1>13. Orderly(n)
    BY <1>9, <1>10, <1>11, <1>12 DEF Orderly
  <1> QED BY <1>13 DEF n

\* The head of a level is an order that is placed there.
LEMMA HeadPlaced ==
  ASSUME NEW m, MatcherType(m), Orderly(m), NEW side \in Sides,
         NEW p \in DOMAIN m.levels[side]
  PROVE  /\ m.levels[side][p].head \in Placed(m, side, p)
         /\ m.levels[side][p].head \in Index
         /\ m.levels[side][p].head # NULL_INDEX
         /\ ~IsEmpty(m.levels[side][p])
         /\ m.arena.nodes[m.levels[side][p].head].qty > 0
         /\ PopFront(m.levels[side][p], m.arena.nodes)
              = Remove(m.levels[side][p], m.arena.nodes, m.levels[side][p].head)
  <1> DEFINE l == m.levels[side][p]
             S == Placed(m, side, p)
  <1>1. l \in Level /\ IsBlock(m.arena.nodes) /\ QueueOn(l, m.arena.nodes, S)
    BY BookBlock DEF Orderly
  <1> HIDE DEF l
  <1>2. /\ l.head \in S /\ l.head # NULL_INDEX /\ ~IsEmpty(l)
        /\ PopFront(l, m.arena.nodes) = Remove(l, m.arena.nodes, l.head)
    <2> HIDE DEF S
    <2> QED BY <1>1, QueueOnFacts
  <1>3. l.head \in Index /\ m.arena.nodes[l.head].qty > 0
    BY <1>2, PlacedFacts, Zenon
  <1> QED BY <1>2, <1>3 DEF l

\* A maker that is filled leaves the book as if it had been cancelled.
LEMMA FillIsCancel ==
  ASSUME NEW m, MatcherType(m), Orderly(m), NEW side \in Sides,
         NEW p \in DOMAIN m.levels[side]
  PROVE  \E id \in DOMAIN m.order_map :
           /\ m.order_map[id].arena_index = m.levels[side][p].head
           /\ m.order_map[id].side = side /\ m.order_map[id].price = p
           /\ id = m.arena.nodes[m.levels[side][p].head].order_id
           /\ FillMaker(m, side, p) = CancelOrder(m, id)
  <1> DEFINE l == m.levels[side][p]
             i == l.head
             id == m.arena.nodes[i].order_id
             S == Placed(m, side, p)
             r == Remove(l, m.arena.nodes, i)
  <1>2. i \in S /\ PopFront(l, m.arena.nodes) = r
    BY HeadPlaced
  <1>3. /\ id \in DOMAIN m.order_map
        /\ m.order_map[id].arena_index = i
        /\ m.order_map[id].side = side /\ m.order_map[id].price = p
    <2>1. i \in Placed(m, side, p)
      BY <1>2
    <2> HIDE DEF i
    <2>2. id \in DOMAIN m.order_map
      BY <2>1, PlacedFacts, Zenon
    <2>3. m.order_map[id] = [arena_index |-> i, side |-> side, price |-> p,
                             user_id |-> m.arena.nodes[i].user_id]
      BY <2>1, PlacedFacts
    <2> HIDE DEF id
    <2> QED BY <2>2, <2>3
  <1>4. FillMaker(m, side, p) =
          [arena |-> Free([m.arena EXCEPT !.nodes = r.nodes], i),
           levels |-> PutLevel(m, side, p, r.level),
           order_map |-> Delete(m.order_map, id)]
    BY <1>2 DEF FillMaker
  <1>5. RemoveOrder(m, id) =
          [arena |-> [m.arena EXCEPT !.nodes = r.nodes],
           levels |-> PutLevel(m, side, p, r.level),
           order_map |-> Delete(m.order_map, id)]
    <2> HIDE DEF id
    <2> QED BY <1>3 DEF RemoveOrder
  <1>6. CancelOrder(m, id) =
          [RemoveOrder(m, id) EXCEPT !.arena = Free(RemoveOrder(m, id).arena, i)]
    <2> HIDE DEF id, i
    <2> QED BY <1>3 DEF CancelOrder
  <1>7. FillMaker(m, side, p) = CancelOrder(m, id)
    <2> HIDE DEF r, id, i
    <2> QED BY <1>4, <1>5, <1>6
  <1>8. id = m.arena.nodes[i].order_id
    OBVIOUS
  <1> HIDE DEF l, id, i
  <1> QED BY <1>3, <1>7, <1>8, Zenon DEF l, i

\* What ReduceMaker does, seen from the orders.
Reduced(n, m, side, p, qty) ==
  LET i == m.levels[side][p].head
  IN  /\ n.order_map = m.order_map
      /\ n.arena.free_head = m.arena.free_head
      /\ n.arena.allocated_count = m.arena.allocated_count
      /\ n.arena.nodes =
           [m.arena.nodes EXCEPT ![i].qty = m.arena.nodes[i].qty - qty]
      /\ n.arena.nodes[i] =
           [m.arena.nodes[i] EXCEPT !.qty = m.arena.nodes[i].qty - qty]
      /\ \A j \in Index \ {i} : n.arena.nodes[j] = m.arena.nodes[j]
      /\ Elsewhere(n.levels, m.levels, side, p)
      /\ p \in DOMAIN n.levels[side]
      /\ n.levels[side][p] = SubtractQty(m.levels[side][p], qty)
      /\ DOMAIN n.levels[side] = DOMAIN m.levels[side]

LEMMA ReduceEffect ==
  ASSUME NEW m, MatcherType(m), Orderly(m), NEW side \in Sides,
         NEW p \in DOMAIN m.levels[side], NEW qty \in Int
  PROVE  Reduced(ReduceMaker(m, side, p, qty), m, side, p, qty)
  <1> DEFINE l == m.levels[side][p]
             i == l.head
             n == ReduceMaker(m, side, p, qty)
             book == m.levels[side]
             ns == m.arena.nodes
             us == [ns EXCEPT ![i].qty = ns[i].qty - qty]
  <1>1. m.arena \in BookArena /\ LevelsType(m.levels) /\ ns \in Nodes
    BY BookBlock DEF MatcherType
  <1>2. i \in Index
    BY HeadPlaced
  <1>3. /\ n.order_map = m.order_map
        /\ n.arena = [m.arena EXCEPT !.nodes = us]
        /\ n.levels = [m.levels EXCEPT ![side][p] = SubtractQty(l, qty)]
    BY DEF ReduceMaker
  <1>4. us[i] = [ns[i] EXCEPT !.qty = ns[i].qty - qty]
        /\ \A j \in Index \ {i} : us[j] = ns[j]
    <2> HIDE DEF i, ns
    <2> QED BY <1>1, <1>2 DEF Nodes
  <1> HIDE DEF n, us
  <1>5. /\ n.arena.nodes = us
        /\ n.arena.free_head = m.arena.free_head
        /\ n.arena.allocated_count = m.arena.allocated_count
    BY <1>1, <1>3 DEF BookArena, ArenaType
  <1>6. DOMAIN m.levels = Sides /\ book = [x \in DOMAIN book |-> book[x]]
    BY <1>1 DEF LevelsType
  <1>7. /\ n.levels[side] = [book EXCEPT ![p] = SubtractQty(l, qty)]
        /\ \A s \in Sides \ {side} : n.levels[s] = m.levels[s]
    BY <1>3, <1>6
  <1> HIDE DEF l, i
  <1>8. /\ DOMAIN n.levels[side] = DOMAIN book
        /\ n.levels[side][p] = SubtractQty(l, qty)
        /\ \A x \in DOMAIN book \ {p} : n.levels[side][x] = book[x]
    BY <1>6, <1>7
  <1>9. Elsewhere(n.levels, m.levels, side, p)
    BY <1>7, <1>8 DEF Elsewhere
  <1>10. Reduced(n, m, side, p, qty)
    BY <1>3, <1>4, <1>5, <1>8, <1>9, Zenon DEF Reduced, us, l, i
  <1> QED BY <1>10 DEF n

\* A maker that is not filled keeps more than nothing.
LEMMA ReduceOrderly ==
  ASSUME NEW m, MatcherType(m), Orderly(m), NEW side \in Sides,
         NEW p \in DOMAIN m.levels[side],
         NEW qty \in Nat, qty < m.arena.nodes[m.levels[side][p].head].qty
  PROVE  Orderly(ReduceMaker(m, side, p, qty))
  <1> DEFINE l == m.levels[side][p]
             i == l.head
             ns == m.arena.nodes
             us == [ns EXCEPT ![i].qty = ns[i].qty - qty]
             n == ReduceMaker(m, side, p, qty)
             S == Placed(m, side, p)
  <1>1. /\ n.order_map = m.order_map
        /\ n.arena.free_head = m.arena.free_head
        /\ n.arena.allocated_count = m.arena.allocated_count
        /\ n.arena.nodes = us
        /\ n.arena.nodes[i] = [ns[i] EXCEPT !.qty = ns[i].qty - qty]
        /\ \A j \in Index \ {i} : n.arena.nodes[j] = ns[j]
        /\ Elsewhere(n.levels, m.levels, side, p)
        /\ p \in DOMAIN n.levels[side]
        /\ n.levels[side][p] = SubtractQty(l, qty)
        /\ DOMAIN n.levels[side] = DOMAIN m.levels[side]
    <2>1. qty \in Int
      OBVIOUS
    <2> HIDE DEF n
    <2>2. Reduced(n, m, side, p, qty)
      BY <2>1, ReduceEffect DEF n
    <2> QED BY <2>2, Zenon DEF Reduced
  <1>2. /\ i \in Index /\ i # NULL_INDEX /\ i \in S
    <2> HIDE DEF n, us, ns
    <2> QED BY HeadPlaced
  <1>3. ns \in Nodes /\ IsBlock(ns) /\ l \in Level /\ p \in Prices
    BY BookBlock
  <1>4. ns[i].qty \in Int /\ ns[i].qty - qty > 0 /\ qty < ns[i].qty
        /\ ns[i] \in BookNode
    <2>1. ns[i] \in BookNode /\ qty < ns[i].qty
      BY <1>2, <1>3 DEF Nodes
    <2> HIDE DEF i, ns
    <2>2. ns[i].qty \in Int
      BY <2>1, NodeFields
    <2> QED BY <2>1, <2>2
  <1>5. MatcherType(n)
    <2>1. l.head # NULL_INDEX /\ qty <= m.arena.nodes[m.levels[side][p].head].qty
      BY <1>2, <1>4
    <2> QED BY <2>1, ReduceMakerType, SMTT(30)
  <1>6. QueueOn(l, ns, S)
    BY DEF Orderly
  <1>7. QueueOn(SubtractQty(l, qty), us, S)
    <2>1. qty \in Int
      OBVIOUS
    <2> HIDE DEF l, i, ns, S
    <2> QED BY <1>2, <1>3, <1>6, <2>1, QueueOnReduce
  <1> HIDE DEF l, i, ns, us, n
  <1>8. \A s, x : Placed(n, s, x) = Placed(m, s, x)
    BY <1>1 DEF Placed
  <1>9. InUse(n) = InUse(m)
    BY <1>1 DEF InUse
  <1>10. /\ n.arena.nodes[i].order_id = ns[i].order_id
         /\ n.arena.nodes[i].user_id = ns[i].user_id
         /\ n.arena.nodes[i].price = ns[i].price
         /\ n.arena.nodes[i].qty > 0
    BY <1>1, <1>4 DEF BookNode, NodeType
  <1>11. ASSUME NEW x \in DOMAIN n.order_map PROVE OrderPlaced(n, x)
    <2> DEFINE j == m.order_map[x].arena_index
               s == m.order_map[x].side
               q == m.order_map[x].price
    <2>1. x \in DOMAIN m.order_map /\ n.order_map[x] = m.order_map[x]
      BY <1>1, SMTT(30)
    <2>2. /\ q \in DOMAIN m.levels[s]
          /\ ns[j].order_id = x /\ ns[j].user_id = m.order_map[x].user_id
          /\ ns[j].price = q /\ ns[j].qty > 0
      BY <2>1 DEF Orderly, OrderPlaced, ns
    <2>3. j \in Index /\ s \in Sides /\ q \in Prices
      BY <2>1, MapFields, Zenon
    <2>4. q \in DOMAIN n.levels[s]
      BY <1>1, <2>2, <2>3 DEF Elsewhere
    <2>5. /\ n.arena.nodes[j].order_id = x
          /\ n.arena.nodes[j].user_id = m.order_map[x].user_id
          /\ n.arena.nodes[j].price = q /\ n.arena.nodes[j].qty > 0
      <3> HIDE DEF j, s, q
      <3>1. CASE j = i
        BY <1>10, <2>2, <3>1
      <3>2. CASE j # i
        <4>1. n.arena.nodes[j] = ns[j]
          BY <1>1, <2>3, <3>2
        <4> QED BY <2>2, <4>1
      <3> QED BY <3>1, <3>2
    <2> QED BY <2>1, <2>4, <2>5 DEF OrderPlaced
  <1>12. ASSUME NEW s \in Sides, NEW x \in DOMAIN n.levels[s]
         PROVE  QueueOn(n.levels[s][x], n.arena.nodes, Placed(n, s, x))
    <2>1. CASE s = side /\ x = p
      BY <1>1, <1>7, <1>8, <2>1
    <2>2. CASE s # side \/ x # p
      <3>1. Placed(n, s, x) = Placed(m, s, x)
        BY <1>8
      <3>2. ASSUME NEW j \in Placed(m, s, x)
            PROVE  n.arena.nodes[j] = m.arena.nodes[j]
        <4>1. j \in Index
          BY PlacedFacts, Zenon
        <4>2. \A t, y : j \in Placed(m, t, y) => t = s /\ y = x
          BY PlacedFacts, ZenonT(40)
        <4>3. j # i
          BY <1>2, <2>2, <4>2
        <4> QED BY <1>1, <4>1, <4>3 DEF ns
      <3>3. Elsewhere(n.levels, m.levels, side, p)
        BY <1>1
      <3> HIDE DEF S
      <3> QED BY <1>5, <2>2, <3>1, <3>2, <3>3, OtherLevel, Zenon
    <2> QED BY <2>1, <2>2
  <1>13. FreeListOf(n.arena, Index \ InUse(n))
    <2>1. FreeListOf(m.arena, Index \ InUse(m))
      BY DEF Orderly
    <2>2. i \in InUse(m)
      BY <1>2, PlacedFacts, Zenon
    <2>3. \A j \in Index \ InUse(m) : n.arena.nodes[j].next = m.arena.nodes[j].next
      BY <1>1, <2>2 DEF ns
    <2>4. FreeListOf(n.arena, Index \ InUse(m))
      BY <1>1, <2>1, <2>3, WriteFreeList
    <2> QED BY <1>9, <2>4
  <1>14. n.arena.allocated_count = Cardinality(DOMAIN n.order_map)
    BY <1>1 DEF Orderly
  <1>15. Orderly(n)
    BY <1>11, <1>12, <1>13, <1>14 DEF Orderly
  <1> QED BY <1>15 DEF n

LEMMA NewMatcherOrderly == Orderly(NewMatcher)
  <1> DEFINE m == NewMatcher
  <1>1. m.arena = NewArena /\ DOMAIN m.order_map = {}
        /\ \A s \in Sides : DOMAIN m.levels[s] = {}
    BY DEF NewMatcher
  <1>2. InUse(m) = {}
    BY <1>1 DEF InUse
  <1>3. FreeListOf(m.arena, Index \ InUse(m))
    <2>1. Index \ InUse(m) = Index
      BY <1>2
    <2>2. FreeListOf(NewArena, Index)
      BY ZeroInTypes, NewArenaFreeList
    <2> QED BY <1>1, <2>1, <2>2
  <1>4. m.arena.allocated_count = Cardinality(DOMAIN m.order_map)
    BY <1>1, FS_EmptySet DEF NewArena
  <1> HIDE DEF m
  <1>5. Orderly(m)
    BY <1>1, <1>3, <1>4 DEF Orderly
  <1> QED BY <1>5 DEF m

\* What RestOrder does, seen from the orders.
Rested(n, m, order, qty) ==
  LET i == m.arena.free_head
      id == order.order_id
      S == Placed(m, order.side, order.price)
  IN  /\ DOMAIN n.order_map = DOMAIN m.order_map \cup {id}
      /\ \A x \in DOMAIN m.order_map \ {id} : n.order_map[x] = m.order_map[x]
      /\ n.order_map[id] = [arena_index |-> i, side |-> order.side,
                            price |-> order.price, user_id |-> order.user_id]
      /\ Elsewhere(n.levels, m.levels, order.side, order.price)
      /\ DOMAIN n.levels[order.side]
           = DOMAIN m.levels[order.side] \cup {order.price}
      /\ QueueOn(n.levels[order.side][order.price], n.arena.nodes, S \cup {i})
      /\ QueueOf(n.levels[order.side][order.price], n.arena.nodes) =
           Append(IF order.price \in DOMAIN m.levels[order.side]
                  THEN QueueOf(m.levels[order.side][order.price], m.arena.nodes)
                  ELSE <<>>, i)
      /\ n.arena.free_head = Alloc(m.arena).free_head
      /\ n.arena.allocated_count = m.arena.allocated_count + 1
      /\ \A j \in Index \ (S \cup {i}) : n.arena.nodes[j] = m.arena.nodes[j]
      /\ \A j \in Index \ {i} : Data(n.arena.nodes[j]) = Data(m.arena.nodes[j])
      /\ Data(n.arena.nodes[i])
           = <<order.price, qty, order.order_id, order.user_id>>

LEMMA FreeNotPlaced ==
  ASSUME NEW m, MatcherType(m), Orderly(m), ~IsFull(m.arena)
  PROVE  /\ m.arena.free_head \in Index
         /\ m.arena.free_head \notin InUse(m)
         /\ \A s, x : m.arena.free_head \notin Placed(m, s, x)
  <1>1. m.arena.free_head \in Index \ InUse(m)
    <2>1. FreeListOf(m.arena, Index \ InUse(m)) /\ Index \ InUse(m) \subseteq Index
      BY DEF Orderly
    <2> QED BY <2>1, FullIffNoneFree
  <1>2. \A s, x : \A j \in Placed(m, s, x) : j \in InUse(m)
    BY PlacedFacts, Zenon
  <1> QED BY <1>1, <1>2

\* The block once a free node is allocated and written.
LEMMA WrittenNode ==
  ASSUME NEW m, MatcherType(m), NEW order \in PlaceOrder, NEW qty \in U32,
         ~IsFull(m.arena)
  PROVE  LET i == m.arena.free_head
         IN  \E b \in BookArena :
               /\ RestOrder(m, order, qty) = AddOrder([m EXCEPT !.arena = b], order, i)
               /\ b.free_head = Alloc(m.arena).free_head
               /\ b.allocated_count = m.arena.allocated_count + 1
               /\ \A j \in Index \ {i} : b.nodes[j] = m.arena.nodes[j]
               /\ Data(b.nodes[i])
                    = <<order.price, qty, order.order_id, order.user_id>>
  <1> DEFINE i == m.arena.free_head
             a == Alloc(m.arena)
             node == [a.nodes[i] EXCEPT !.order_id = order.order_id,
                                        !.user_id = order.user_id,
                                        !.price = order.price, !.qty = qty]
             us == [a.nodes EXCEPT ![i] = node]
             b == [a EXCEPT !.nodes[i] = node]
  <1>0. RestOrder(m, order, qty) = AddOrder([m EXCEPT !.arena = b], order, i)
    BY DEF RestOrder
  <1>1. m.arena \in BookArena
    BY DEF MatcherType
  <1>2. i \in Index
    BY <1>1, BookArenaFields, LinkIndex DEF IsFull
  <1>3. a \in BookArena /\ \A j \in Index \ {i} : a.nodes[j] = m.arena.nodes[j]
    BY <1>1, AllocType DEF BookArena
  <1>4. a.allocated_count = m.arena.allocated_count + 1
    BY DEF Alloc
  <1> HIDE DEF a, i
  <1>5. a.nodes \in Nodes /\ a.nodes[i] \in BookNode
    BY <1>2, <1>3, BookArenaFields DEF Nodes
  <1>6. order.order_id \in OrderIds /\ order.user_id \in UserIds
        /\ order.price \in Prices
    BY DEF PlaceOrder
  <1>7. node \in BookNode
    BY <1>5, <1>6, Zenon DEF BookNode, NodeType
  <1>8. Data(node) = <<order.price, qty, order.order_id, order.user_id>>
    BY <1>5 DEF Data, BookNode, NodeType
  <1> HIDE DEF node
  <1>9. us \in Nodes /\ us[i] = node /\ \A j \in Index \ {i} : us[j] = a.nodes[j]
    BY <1>2, <1>5, <1>7 DEF Nodes
  <1>10. b = [a EXCEPT !.nodes = us]
    BY <1>3 DEF BookArena, ArenaType
  <1> HIDE DEF us, b
  <1>11. b \in BookArena
    BY <1>3, <1>9, <1>10, BookArenaFields
  <1>12. b.nodes = us /\ b.free_head = a.free_head
         /\ b.allocated_count = a.allocated_count
    BY <1>3, <1>10 DEF BookArena, ArenaType
  <1>13. \A j \in Index \ {i} : b.nodes[j] = m.arena.nodes[j]
    BY <1>3, <1>9, <1>12
  <1>14. Data(b.nodes[i]) = <<order.price, qty, order.order_id, order.user_id>>
    BY <1>8, <1>9, <1>12
  <1> QED BY <1>4, <1>11, <1>12, <1>13, <1>14, <1>0, Zenon DEF a, i

LEMMA RestEffect ==
  ASSUME NEW m, MatcherType(m), Orderly(m), NEW order \in PlaceOrder,
         NEW qty \in U32, ~IsFull(m.arena),
         order.order_id \notin DOMAIN m.order_map
  PROVE  Rested(RestOrder(m, order, qty), m, order, qty)
  <1> DEFINE i == m.arena.free_head
             id == order.order_id
             a == Alloc(m.arena)
             side == order.side
             p == order.price
             S == Placed(m, side, p)
             book == m.levels[side]
             l == IF p \in DOMAIN book THEN book[p] ELSE NewLevel
             q == IF p \in DOMAIN book THEN QueueOf(book[p], m.arena.nodes)
                  ELSE <<>>
             info == [arena_index |-> i, side |-> side, price |-> p,
                      user_id |-> order.user_id]
             n == RestOrder(m, order, qty)
  <1> HIDE DEF q
  <1>1. PICK b \in BookArena :
          /\ n = AddOrder([m EXCEPT !.arena = b], order, i)
          /\ b.free_head = a.free_head
          /\ b.allocated_count = m.arena.allocated_count + 1
          /\ \A j \in Index \ {i} : b.nodes[j] = m.arena.nodes[j]
          /\ Data(b.nodes[i]) = <<p, qty, id, order.user_id>>
    BY WrittenNode, Zenon
  <1> DEFINE m1 == [m EXCEPT !.arena = b]
             r == PushBack(l, b.nodes, i)
  <1>2. side \in Sides /\ p \in Prices /\ LevelsType(m.levels)
    BY DEF PlaceOrder, MatcherType
  <1>3. i \in Index /\ i \notin S
    BY FreeNotPlaced
  <1>4. m1.arena = b /\ m1.levels = m.levels /\ m1.order_map = m.order_map
    BY DEF MatcherType
  <1>5. n = AddOrder(m1, order, i)
    BY <1>1
  <1> HIDE DEF m1, i
  <1>6. n = [arena |-> [b EXCEPT !.nodes = r.nodes],
             levels |-> [m.levels EXCEPT ![side] = Insert(@, p, r.level)],
             order_map |-> Insert(m.order_map, id, info)]
    BY <1>4, <1>5 DEF AddOrder
  <1>7. b.nodes \in Nodes /\ IsBlock(b.nodes)
    <2>1. b.nodes \in Nodes
      BY <1>1, BookArenaFields
    <2>2. MatcherType(m1)
      BY <1>1, <1>4 DEF MatcherType, m1
    <2> QED BY <1>4, <2>1, <2>2, BookBlock
  <1>8. /\ l \in Level /\ (QueueOn(l, b.nodes, S) \/ (l = NewLevel /\ S = {}))
        /\ QueueOf(l, b.nodes) = q
    <2>1. CASE p \in DOMAIN book
      <3>1. l = book[p] /\ l \in Level /\ IsBlock(m.arena.nodes)
        BY <1>2, <2>1, BookBlock
      <3>2. QueueOn(l, m.arena.nodes, S)
        BY <1>2, <2>1, <3>1 DEF Orderly
      <3>3. \A j \in S : b.nodes[j] = m.arena.nodes[j]
        <4>1. \A j \in S : j \in Index
          BY PlacedFacts, Zenon
        <4> QED BY <1>1, <1>3, <4>1
      <3>4. q = QueueOf(book[p], m.arena.nodes)
        BY <2>1 DEF q
      <3> HIDE DEF l, S
      <3> QED BY <3>1, <3>2, <3>3, <3>4, QueueOnWrite, QueueWrite
    <2>2. CASE p \notin DOMAIN book
      <3>1. l = NewLevel
        BY <2>2
      <3>2. S = {}
        BY <2>2, PlacedFacts, Zenon
      <3>3. QueueOf(NewLevel, b.nodes) = <<>> /\ q = <<>>
        BY <2>2, NewLevelHolds, QueueIsHeld, Zenon DEF Holds, q
      <3> QED BY <3>1, <3>2, <3>3, NewLevelType
    <2> QED BY <2>1, <2>2
  <1>9. /\ QueueOn(r.level, r.nodes, S \cup {i})
        /\ OnlyLinksOf(S \cup {i}, r.nodes, b.nodes)
        /\ QueueOf(r.level, r.nodes) = Append(q, i)
    <2> HIDE DEF l, S
    <2> QED BY <1>3, <1>7, <1>8, QueueOnPush, QueuePush, ZenonT(40)
  <1> HIDE DEF l, r, n, info, S, a
  <1>10. /\ n.arena.nodes = r.nodes
         /\ n.arena.free_head = a.free_head
         /\ n.arena.allocated_count = m.arena.allocated_count + 1
    BY <1>1, <1>6 DEF BookArena, ArenaType
  <1>11. n.levels = [m.levels EXCEPT ![side] = Insert(@, p, r.level)]
         /\ n.order_map = Insert(m.order_map, id, info)
    BY <1>6
  <1>12. /\ Elsewhere(n.levels, m.levels, side, p)
         /\ DOMAIN n.levels[side] = DOMAIN m.levels[side] \cup {p}
         /\ n.levels[side][p] = r.level
    <2> HIDE DEF side, p
    <2>1. DOMAIN m.levels = Sides
      BY <1>2 DEF LevelsType
    <2>2. n.levels[side] = Insert(m.levels[side], p, r.level)
      BY <1>2, <1>11, <2>1
    <2>3. \A s \in Sides \ {side} : n.levels[s] = m.levels[s]
      BY <1>11, <2>1
    <2>4. /\ DOMAIN n.levels[side] = DOMAIN m.levels[side] \cup {p}
          /\ n.levels[side][p] = r.level
          /\ \A x \in DOMAIN m.levels[side] \ {p} :
               n.levels[side][x] = m.levels[side][x]
      BY <2>2 DEF Insert
    <2>5. Elsewhere(n.levels, m.levels, side, p)
      BY <2>3, <2>4 DEF Elsewhere
    <2> QED BY <2>4, <2>5
  <1>13. /\ DOMAIN n.order_map = DOMAIN m.order_map \cup {id}
         /\ \A x \in DOMAIN m.order_map \ {id} : n.order_map[x] = m.order_map[x]
         /\ n.order_map[id] = info
    BY <1>11 DEF Insert
  <1>14. \A j \in Index \ (S \cup {i}) : n.arena.nodes[j] = m.arena.nodes[j]
    BY <1>1, <1>9, <1>10 DEF OnlyLinksOf
  <1>15. \A j \in Index \ {i} : Data(n.arena.nodes[j]) = Data(m.arena.nodes[j])
    BY <1>1, <1>9, <1>10 DEF OnlyLinksOf
  <1>16. Data(n.arena.nodes[i]) = <<p, qty, id, order.user_id>>
    BY <1>1, <1>3, <1>9, <1>10 DEF OnlyLinksOf
  <1>17. /\ QueueOn(n.levels[side][p], n.arena.nodes, S \cup {i})
         /\ QueueOf(n.levels[side][p], n.arena.nodes) = Append(q, i)
    BY <1>9, <1>10, <1>12
  <1>18. Rested(n, m, order, qty)
    BY <1>10, <1>12, <1>13, <1>14, <1>15, <1>16, <1>17 DEF Rested, i, info, S, a, q
  <1> QED BY <1>18 DEF n

LEMMA RestOrderly ==
  ASSUME NEW m, MatcherType(m), Orderly(m), NEW order \in PlaceOrder,
         NEW qty \in U32, qty > 0, ~IsFull(m.arena),
         order.order_id \notin DOMAIN m.order_map
  PROVE  Orderly(RestOrder(m, order, qty))
  <1> DEFINE i == m.arena.free_head
             id == order.order_id
             side == order.side
             p == order.price
             S == Placed(m, side, p)
             n == RestOrder(m, order, qty)
  <1>1. Rested(n, m, order, qty)
    BY RestEffect
  <1>2. MatcherType(n)
    BY RestOrderType
  <1> HIDE DEF n
  <1>3. /\ DOMAIN n.order_map = DOMAIN m.order_map \cup {id}
        /\ \A x \in DOMAIN m.order_map \ {id} : n.order_map[x] = m.order_map[x]
        /\ n.order_map[id].arena_index = i /\ n.order_map[id].side = side
        /\ n.order_map[id].price = p /\ n.order_map[id].user_id = order.user_id
    <2>1. /\ DOMAIN n.order_map = DOMAIN m.order_map \cup {id}
          /\ \A x \in DOMAIN m.order_map \ {id} : n.order_map[x] = m.order_map[x]
          /\ n.order_map[id] = [arena_index |-> i, side |-> side,
                                price |-> p, user_id |-> order.user_id]
      BY <1>1, Zenon DEF Rested
    <2> QED BY <2>1
  <1>4. /\ Elsewhere(n.levels, m.levels, side, p)
        /\ DOMAIN n.levels[side] = DOMAIN m.levels[side] \cup {p}
        /\ QueueOn(n.levels[side][p], n.arena.nodes, S \cup {i})
    BY <1>1, Zenon DEF Rested
  <1>5. /\ n.arena.free_head = Alloc(m.arena).free_head
        /\ n.arena.allocated_count = m.arena.allocated_count + 1
        /\ \A j \in Index \ (S \cup {i}) : n.arena.nodes[j] = m.arena.nodes[j]
        /\ \A j \in Index \ {i} : Data(n.arena.nodes[j]) = Data(m.arena.nodes[j])
        /\ Data(n.arena.nodes[i]) = <<p, qty, id, order.user_id>>
    BY <1>1, Zenon DEF Rested
  <1>6. /\ i \in Index /\ i \notin InUse(m)
        /\ \A s, x : i \notin Placed(m, s, x)
    BY FreeNotPlaced
  <1>7. side \in Sides /\ p \in Prices /\ id \notin DOMAIN m.order_map
    BY DEF PlaceOrder
  <1> HIDE DEF i, id, side, p
  <1>8. Placed(n, side, p) = S \cup {i}
    <2>1. ASSUME NEW j \in Placed(n, side, p) PROVE j \in S \cup {i}
      <3>1. PICK y \in DOMAIN n.order_map :
              /\ n.order_map[y].arena_index = j
              /\ n.order_map[y].side = side /\ n.order_map[y].price = p
        BY <2>1, PlacedIff
      <3>2. CASE y = id
        BY <1>3, <3>1, <3>2
      <3>3. CASE y # id
        <4>1. y \in DOMAIN m.order_map /\ n.order_map[y] = m.order_map[y]
          BY <1>3, <3>1, <3>3
        <4> QED BY <3>1, <4>1, PlacedIff
      <3> QED BY <3>2, <3>3
    <2>2. i \in Placed(n, side, p)
      BY <1>3, PlacedIff
    <2>3. ASSUME NEW j \in S PROVE j \in Placed(n, side, p)
      <3>1. PICK y \in DOMAIN m.order_map :
              /\ m.order_map[y].arena_index = j
              /\ m.order_map[y].side = side /\ m.order_map[y].price = p
        BY <2>3, PlacedIff
      <3>2. y \in DOMAIN n.order_map /\ n.order_map[y] = m.order_map[y]
        BY <1>3, <1>7, <3>1
      <3> QED BY <3>1, <3>2, PlacedIff
    <2> QED BY <2>1, <2>2, <2>3
  <1>9. ASSUME NEW s, NEW x, s # side \/ x # p
        PROVE  Placed(n, s, x) = Placed(m, s, x)
    <2>1. ASSUME NEW j \in Placed(n, s, x) PROVE j \in Placed(m, s, x)
      <3>1. PICK y \in DOMAIN n.order_map :
              /\ n.order_map[y].arena_index = j
              /\ n.order_map[y].side = s /\ n.order_map[y].price = x
        BY <2>1, PlacedIff
      <3>2. y # id
        BY <1>3, <1>9, <3>1
      <3>3. y \in DOMAIN m.order_map /\ n.order_map[y] = m.order_map[y]
        BY <1>3, <3>1, <3>2
      <3> QED BY <3>1, <3>3, PlacedIff
    <2>2. ASSUME NEW j \in Placed(m, s, x) PROVE j \in Placed(n, s, x)
      <3>1. PICK y \in DOMAIN m.order_map :
              /\ m.order_map[y].arena_index = j
              /\ m.order_map[y].side = s /\ m.order_map[y].price = x
        BY <2>2, PlacedIff
      <3>2. y \in DOMAIN n.order_map /\ n.order_map[y] = m.order_map[y]
        BY <1>3, <1>7, <3>1
      <3> QED BY <3>1, <3>2, PlacedIff
    <2> QED BY <2>1, <2>2, Zenon
  <1>10. InUse(n) = InUse(m) \cup {i}
    <2>1. ASSUME NEW j \in InUse(n) PROVE j \in InUse(m) \cup {i}
      <3>1. PICK y \in DOMAIN n.order_map : n.order_map[y].arena_index = j
        BY <2>1 DEF InUse
      <3>2. CASE y = id
        BY <1>3, <3>1, <3>2
      <3>3. CASE y # id
        <4>1. y \in DOMAIN m.order_map /\ n.order_map[y] = m.order_map[y]
          BY <1>3, <3>1, <3>3
        <4> QED BY <3>1, <4>1 DEF InUse
      <3> QED BY <3>2, <3>3
    <2>2. i \in InUse(n)
      BY <1>3 DEF InUse
    <2>3. ASSUME NEW j \in InUse(m) PROVE j \in InUse(n)
      <3>1. PICK y \in DOMAIN m.order_map : m.order_map[y].arena_index = j
        BY <2>3 DEF InUse
      <3>2. y \in DOMAIN n.order_map /\ n.order_map[y] = m.order_map[y]
        BY <1>3, <1>7, <3>1
      <3> QED BY <3>1, <3>2 DEF InUse
    <2> QED BY <2>1, <2>2, <2>3
  <1>11. ASSUME NEW x \in DOMAIN n.order_map PROVE OrderPlaced(n, x)
    <2>1. CASE x = id
      <3>1. /\ n.arena.nodes[i].order_id = id
            /\ n.arena.nodes[i].user_id = order.user_id
            /\ n.arena.nodes[i].price = p /\ n.arena.nodes[i].qty = qty
        BY <1>5, SMTT(30) DEF Data
      <3> QED BY <1>3, <1>4, <2>1, <3>1 DEF OrderPlaced
    <2>2. CASE x # id
      <3> DEFINE j == m.order_map[x].arena_index
                 s == m.order_map[x].side
                 q == m.order_map[x].price
      <3>1. x \in DOMAIN m.order_map /\ n.order_map[x] = m.order_map[x]
        BY <1>3, <2>2
      <3>2. OrderPlaced(m, x)
        BY <3>1 DEF Orderly
      <3>3. j \in Index /\ s \in Sides /\ q \in Prices /\ j \in InUse(m)
        BY <3>1, MapFields, Zenon DEF InUse
      <3>4. Data(n.arena.nodes[j]) = Data(m.arena.nodes[j])
        BY <1>5, <1>6, <3>3
      <3>5. q \in DOMAIN n.levels[s]
        <4>1. q \in DOMAIN m.levels[s]
          BY <3>2 DEF OrderPlaced
        <4> HIDE DEF s, q
        <4> QED BY <1>4, <3>3, <4>1 DEF Elsewhere
      <3> QED BY <3>1, <3>2, <3>4, <3>5, DataQty DEF OrderPlaced
    <2> QED BY <2>1, <2>2
  <1>12. ASSUME NEW s \in Sides, NEW x \in DOMAIN n.levels[s]
         PROVE  QueueOn(n.levels[s][x], n.arena.nodes, Placed(n, s, x))
    <2>1. CASE s = side /\ x = p
      BY <1>4, <1>8, <2>1, Zenon
    <2>2. CASE s # side \/ x # p
      <3>1. Placed(n, s, x) = Placed(m, s, x)
        BY <1>9, <2>2
      <3>2. ASSUME NEW j \in Placed(m, s, x)
            PROVE  n.arena.nodes[j] = m.arena.nodes[j]
        <4>1. j \in Index /\ j \notin S
          BY <2>2, PlacedApart, Zenon
        <4>2. j # i
          BY <1>6
        <4> QED BY <1>5, <4>1, <4>2
      <3>3. Elsewhere(n.levels, m.levels, side, p)
        BY <1>4
      <3> HIDE DEF S
      <3> QED BY <1>2, <2>2, <3>1, <3>2, <3>3, OtherLevel, ZenonT(40)
    <2> QED BY <2>1, <2>2
  <1>13. FreeListOf(n.arena, Index \ InUse(n))
    <2> DEFINE F == Index \ InUse(m)
    <2>1. FreeListOf(m.arena, F) /\ F \subseteq Index /\ m.arena \in BookArena
      BY DEF Orderly, MatcherType
    <2>2. FreeListOf(Alloc(m.arena), F \ {i})
      <3> HIDE DEF F
      <3> QED BY <2>1, AllocFreeList DEF BookArena, i
    <2>3. \A j \in S : j \in InUse(m)
      BY PlacedFacts, Zenon
    <2>4. \A j \in F \ {i} : n.arena.nodes[j] = m.arena.nodes[j]
      BY <1>5, <2>3
    <2>5. \A j \in Index \ {i} : Alloc(m.arena).nodes[j] = m.arena.nodes[j]
      BY <2>1, AllocType DEF BookArena, i
    <2>6. \A j \in F \ {i} : n.arena.nodes[j].next = Alloc(m.arena).nodes[j].next
      BY <2>4, <2>5
    <2> HIDE DEF F
    <2>7. FreeListOf(n.arena, F \ {i})
      BY <1>5, <2>2, <2>6, WriteFreeList
    <2>8. F \ {i} = Index \ InUse(n)
      BY <1>10 DEF F
    <2> QED BY <2>7, <2>8
  <1>14. n.arena.allocated_count = Cardinality(DOMAIN n.order_map)
    <2>1. Cardinality(DOMAIN m.order_map \cup {id}) = Cardinality(DOMAIN m.order_map) + 1
      BY <1>7, OrderlyMap, FS_AddElement, Zenon
    <2> QED BY <1>3, <1>5, <2>1 DEF Orderly
  <1>15. Orderly(n)
    BY <1>11, <1>12, <1>13, <1>14 DEF Orderly
  <1> QED BY <1>15 DEF n

-----------------------------------------------------------------------------
(* What an order could trade with.                                         *)

CrossingQty(m, order) ==
  LET book == m.levels[Opposite(order.side)]
      crossing == {p \in DOMAIN book : Crosses(order, p)}
  IN  SumFunctionOnSet([p \in DOMAIN book |-> book[p].total_qty], crossing)

\* Every price of the book is that of an order, so there are finitely many.
LEMMA PricesFinite ==
  ASSUME NEW m, MatcherType(m), Orderly(m), NEW side \in Sides
  PROVE  IsFiniteSet(DOMAIN m.levels[side])
  <1> DEFINE D == DOMAIN m.order_map
             f == [id \in D |-> m.order_map[id].price]
  <1>1. IsFiniteSet(D)
    BY OrderlyMap
  <1> DEFINE T == {f[id] : id \in D}
  <1>2. IsFiniteSet(T)
    <2>1. f \in Surjection(D, T)
      BY DEF Surjection
    <2> HIDE DEF D, f, T
    <2> QED BY <1>1, <2>1, FS_Surjection
  <1>3. ASSUME NEW p \in DOMAIN m.levels[side] PROVE p \in T
    <2>1. m.levels[side][p].head \in Placed(m, side, p)
      BY HeadPlaced
    <2>2. PICK id \in D : m.order_map[id].price = p
      BY <2>1, PlacedIff
    <2> QED BY <2>2
  <1> QED BY <1>2, <1>3, FS_Subset

\* The total of a level that an operation may look at is a number.
LEMMA LevelTotals ==
  ASSUME NEW m, MatcherType(m), Orderly(m), NEW side \in Sides
  PROVE  \A p \in DOMAIN m.levels[side] : m.levels[side][p].total_qty \in Nat
  <1>1. ASSUME NEW p \in DOMAIN m.levels[side]
        PROVE  m.levels[side][p].total_qty \in Nat
    <2> DEFINE l == m.levels[side][p]
               S == Placed(m, side, p)
    <2>1. l \in Level /\ IsBlock(m.arena.nodes) /\ m.arena.nodes \in Nodes
          /\ QueueOn(l, m.arena.nodes, S)
      BY BookBlock DEF Orderly
    <2> HIDE DEF l, S
    <2>2. S \subseteq Index /\ l.total_qty = TotalQty(m.arena.nodes, S)
      BY <2>1, QueueOnFacts
    <2>3. U64_MAX \in Nat
      BY WordAssumption DEF U64_MAX
    <2>4. TotalQty(m.arena.nodes, S) \in 0 .. U64_MAX
      BY <2>1, <2>2, TotalFits
    <2> QED BY <2>2, <2>3, <2>4 DEF l
  <1> QED BY <1>1

\* The side an order trades with.
LEMMA OppositeSide ==
  ASSUME NEW order \in PlaceOrder
  PROVE  Opposite(order.side) \in Sides /\ order.side \in Sides
  BY DEF PlaceOrder, Opposite, Sides

\* The check of a fill-or-kill order never counts more than there is: what is
\* cut to 32 bits is no more than it was, and saturation is no more than the sum.
LEMMA AvailableAtMost ==
  ASSUME NEW m, MatcherType(m), Orderly(m), NEW order \in PlaceOrder
  PROVE  AvailableQty(m, order) <= CrossingQty(m, order)
         /\ AvailableQty(m, order) \in Int /\ CrossingQty(m, order) \in Int
  <1> DEFINE book == m.levels[Opposite(order.side)]
             C == {p \in DOMAIN book : Crosses(order, p)}
             f == [p \in DOMAIN book |-> book[p].total_qty]
             e == [p \in DOMAIN book |-> AsU32(book[p].total_qty)]
  <1>1. IsFiniteSet(C)
    <2>1. IsFiniteSet(DOMAIN book)
      BY OppositeSide, PricesFinite
    <2> QED BY <2>1, FS_Subset
  <1>2. ASSUME NEW p \in C
        PROVE  f[p] \in Int /\ e[p] \in Int /\ e[p] <= f[p]
    <2> DEFINE t == book[p].total_qty
               w == U32_MAX + 1
    <2>1. t \in Nat /\ w \in Nat /\ w > 0
      BY OppositeSide, LevelTotals, WordAssumption
    <2> HIDE DEF t, w
    <2>2. t % w \in Int /\ t % w <= t
      BY <2>1
    <2> QED BY <2>1, <2>2 DEF t, w, AsU32
  <1>3. AvailableQty(m, order) = SaturatingU32(SumFunctionOnSet(e, C))
        /\ CrossingQty(m, order) = SumFunctionOnSet(f, C)
    BY DEF AvailableQty, CrossingQty
  <1> HIDE DEF f, e, C
  <1>4. /\ SumFunctionOnSet(e, C) <= SumFunctionOnSet(f, C)
        /\ SumFunctionOnSet(e, C) \in Int /\ SumFunctionOnSet(f, C) \in Int
    BY <1>1, <1>2, SumAtMost, SumInt
  <1> QED BY <1>3, <1>4, WordAssumption DEF SaturatingU32

\* A trade at a price that crosses takes its quantity from what there is.
LEMMA CrossingLess ==
  ASSUME NEW m, MatcherType(m), Orderly(m), NEW n, MatcherType(n), Orderly(n),
         NEW order \in PlaceOrder,
         NEW p \in DOMAIN m.levels[Opposite(order.side)], Crosses(order, p),
         Elsewhere(n.levels, m.levels, Opposite(order.side), p),
         NEW q \in Int,
         DepthAt(n, Opposite(order.side), p).qty
           = DepthAt(m, Opposite(order.side), p).qty - q
  PROVE  CrossingQty(n, order) = CrossingQty(m, order) - q
  <1> DEFINE side == Opposite(order.side)
             B == m.levels[side]
             A == n.levels[side]
             f == [x \in DOMAIN B |-> B[x].total_qty]
             e == [x \in DOMAIN A |-> A[x].total_qty]
             C == {x \in DOMAIN B : Crosses(order, x)}
             E == {x \in DOMAIN A : Crosses(order, x)}
  <1>1. side \in Sides
    BY OppositeSide
  <1>2. IsFiniteSet(C) /\ IsFiniteSet(E)
    <2>1. IsFiniteSet(DOMAIN B) /\ IsFiniteSet(DOMAIN A)
      BY <1>1, PricesFinite
    <2> QED BY <2>1, FS_Subset
  <1>3. (\A x \in C : f[x] \in Int) /\ (\A x \in E : e[x] \in Int)
    BY <1>1, LevelTotals
  <1>4. \A x \in DOMAIN A \cup DOMAIN B : x \in Prices
    BY <1>1, BookBlock
  <1>5. \A x \in Prices \ {p} : /\ x \in DOMAIN A <=> x \in DOMAIN B
                                /\ x \in DOMAIN B => A[x] = B[x]
    BY <1>1 DEF Elsewhere
  <1>6. C \ {p} = E \ {p}
    BY <1>4, <1>5
  <1>7. \A x \in C \ {p} : e[x] = f[x]
    BY <1>4, <1>5
  <1>8. p \in C /\ f[p] = DepthAt(m, side, p).qty
    BY DEF DepthAt
  <1>9. IF p \in E THEN e[p] = DepthAt(n, side, p).qty
        ELSE DepthAt(n, side, p).qty = 0
    BY DEF DepthAt
  <1>10. CrossingQty(m, order) = SumFunctionOnSet(f, C)
         /\ CrossingQty(n, order) = SumFunctionOnSet(e, E)
    BY DEF CrossingQty
  <1>11. DepthAt(n, side, p).qty = DepthAt(m, side, p).qty - q
    OBVIOUS
  <1> HIDE DEF side, f, e, C, E
  <1> DEFINE r == SumFunctionOnSet(f, C \ {p})
  <1>12. SumFunctionOnSet(f, C) = f[p] + r /\ r \in Int /\ f[p] \in Int
    <2>1. IsFiniteSet(C \ {p})
      BY <1>2, FS_RemoveElement
    <2> QED BY <1>2, <1>3, <1>8, <2>1, SumRemove, SumInt
  <1>13. SumFunctionOnSet(e, C \ {p}) = r
    <2>1. IsFiniteSet(C \ {p})
      BY <1>2, FS_RemoveElement
    <2> QED BY <1>3, <1>7, <2>1, SumSame
  <1>14. SumFunctionOnSet(e, E) = DepthAt(n, side, p).qty + r
    <2>1. CASE p \in E
      <3>1. SumFunctionOnSet(e, E) = e[p] + SumFunctionOnSet(e, E \ {p})
        BY <1>2, <1>3, <2>1, SumRemove
      <3> QED BY <1>6, <1>9, <1>13, <2>1, <3>1, Zenon
    <2>2. CASE p \notin E
      <3>1. E = C \ {p} /\ DepthAt(n, side, p).qty = 0
        BY <1>6, <1>9, <2>2
      <3> QED BY <1>12, <1>13, <3>1
    <2> QED BY <2>1, <2>2
  <1> QED BY <1>8, <1>10, <1>11, <1>12, <1>14

\* Nothing crosses, nothing to trade with.
LEMMA CrossingNone ==
  ASSUME NEW m, NEW order,
         \A p \in DOMAIN m.levels[Opposite(order.side)] : ~Crosses(order, p)
  PROVE  CrossingQty(m, order) = 0
  <1>1. {p \in DOMAIN m.levels[Opposite(order.side)] : Crosses(order, p)} = {}
    OBVIOUS
  <1> QED BY <1>1, SumEmpty, Zenon DEF CrossingQty

\* The depth at the price of an order that leaves goes down by that order.
LEMMA CancelDepth ==
  ASSUME NEW m, MatcherType(m), Orderly(m), NEW id \in DOMAIN m.order_map
  PROVE  LET info == m.order_map[id]
             before == DepthAt(m, info.side, info.price)
             after == DepthAt(CancelOrder(m, id), info.side, info.price)
         IN  after.qty = before.qty - m.arena.nodes[info.arena_index].qty
             /\ after.count = before.count - 1
  <1> DEFINE info == m.order_map[id]
             i == info.arena_index
             s == info.side
             p == info.price
             l == m.levels[s][p]
             r == Remove(l, m.arena.nodes, i)
             S == Placed(m, s, p)
             n == CancelOrder(m, id)
  <1>1. /\ i \in S /\ s \in Sides /\ p \in DOMAIN m.levels[s]
        /\ r.level \in Level
        /\ IsEmpty(r.level) <=> S = {i}
        /\ n.levels = PutLevel(m, s, p, r.level)
    BY CancelParts, ZenonT(40)
  <1>2. r.level.total_qty = l.total_qty - m.arena.nodes[i].qty
        /\ r.level.count = l.count - 1
    BY Zenon DEF Remove
  <1>3. DepthAt(m, s, p) = [qty |-> l.total_qty, count |-> l.count]
    BY <1>1 DEF DepthAt
  <1>4. LevelsType(m.levels)
    BY DEF MatcherType
  <1>5. /\ p \in DOMAIN n.levels[s] <=> ~IsEmpty(r.level)
        /\ ~IsEmpty(r.level) => n.levels[s][p] = r.level
    <2> HIDE DEF s, p, r, n
    <2> QED BY <1>1, <1>4, PutLevelAt, SMTT(30)
  <1>6. l \in Level /\ IsBlock(m.arena.nodes) /\ QueueOn(l, m.arena.nodes, S)
    BY <1>1, BookBlock DEF Orderly
  <1> HIDE DEF n, r, l, S, i, s, p
  <1>7. CASE ~IsEmpty(r.level)
    <2>1. DepthAt(n, s, p) = [qty |-> r.level.total_qty, count |-> r.level.count]
      BY <1>5, <1>7 DEF DepthAt
    <2> QED BY <1>2, <1>3, <2>1 DEF n, s, p, i
  <1>8. CASE IsEmpty(r.level)
    <2>1. DepthAt(n, s, p) = [qty |-> 0, count |-> 0]
      BY <1>5, <1>8 DEF DepthAt
    <2>2. l.total_qty = m.arena.nodes[i].qty + TotalQty(m.arena.nodes, {})
      <3>1. S = {i} /\ S \subseteq Index /\ S \ {i} = {}
        BY <1>1, <1>6, <1>8, QueueOnFacts
      <3>2. TotalQty(m.arena.nodes, S)
              = m.arena.nodes[i].qty + TotalQty(m.arena.nodes, S \ {i})
        BY <1>1, <1>6, <3>1, TotalRemove
      <3>3. l.total_qty = TotalQty(m.arena.nodes, S)
        BY <1>6, QueueOnFacts
      <3> QED BY <3>1, <3>2, <3>3
    <2>3. TotalQty(m.arena.nodes, {}) = 0
      BY SumEmpty DEF TotalQty
    <2>4. l.total_qty \in Int /\ l.count \in Int
      BY <1>6 DEF Level
    <2>5. m.arena.nodes[i].qty \in Int
      <3>1. i \in Index
        BY MapFields, Zenon DEF i, info
      <3> QED BY <1>6, <3>1, BlockFields
    <2>6. l.total_qty = m.arena.nodes[i].qty
      BY <2>2, <2>3, <2>5
    <2>7. r.level.count = 0
      BY <1>8 DEF IsEmpty
    <2>8. DepthAt(n, s, p).qty = DepthAt(m, s, p).qty - m.arena.nodes[i].qty
          /\ DepthAt(n, s, p).count = DepthAt(m, s, p).count - 1
      BY <1>2, <1>3, <2>1, <2>4, <2>6, <2>7
    <2> QED BY <2>8 DEF n, s, p, i
  <1> QED BY <1>7, <1>8

LEMMA ReduceDepth ==
  ASSUME NEW m, MatcherType(m), Orderly(m), NEW side \in Sides,
         NEW p \in DOMAIN m.levels[side], NEW qty \in Int
  PROVE  LET n == ReduceMaker(m, side, p, qty)
         IN  /\ DepthAt(n, side, p).qty = DepthAt(m, side, p).qty - qty
             /\ DepthAt(n, side, p).count = DepthAt(m, side, p).count
             /\ Elsewhere(n.levels, m.levels, side, p)
  <1> DEFINE n == ReduceMaker(m, side, p, qty)
             l == m.levels[side][p]
  <1>1. Reduced(n, m, side, p, qty)
    BY ReduceEffect
  <1> HIDE DEF n
  <1>2. /\ Elsewhere(n.levels, m.levels, side, p)
        /\ p \in DOMAIN n.levels[side]
        /\ n.levels[side][p] = SubtractQty(l, qty)
    BY <1>1, Zenon DEF Reduced
  <1>3. l \in Level
    BY BookBlock
  <1>4. SubtractQty(l, qty).total_qty = l.total_qty - qty
        /\ SubtractQty(l, qty).count = l.count
    BY <1>3 DEF SubtractQty, Level
  <1>5. DepthAt(n, side, p).qty = DepthAt(m, side, p).qty - qty
        /\ DepthAt(n, side, p).count = DepthAt(m, side, p).count
    BY <1>2, <1>4 DEF DepthAt
  <1> QED BY <1>2, <1>5 DEF n

-----------------------------------------------------------------------------
(* Sequences of events.                                                    *)

LEMMA AppendTwo ==
  ASSUME NEW S, NEW s \in Seq(S), NEW a \in S, NEW b \in S
  PROVE  /\ s \o <<a, b>> \in Seq(S)
         /\ \A k \in DOMAIN (s \o <<a, b>>) :
              \/ k \in DOMAIN s /\ (s \o <<a, b>>)[k] = s[k]
              \/ (s \o <<a, b>>)[k] = a
              \/ (s \o <<a, b>>)[k] = b
  <1>1. s \o <<a, b>> \in Seq(S) /\ Len(s \o <<a, b>>) = Len(s) + 2
    OBVIOUS
  <1>2. ASSUME NEW k \in DOMAIN (s \o <<a, b>>)
        PROVE  \/ k \in DOMAIN s /\ (s \o <<a, b>>)[k] = s[k]
               \/ (s \o <<a, b>>)[k] = a
               \/ (s \o <<a, b>>)[k] = b
    <2>1. k \in 1 .. Len(s) + 2 /\ DOMAIN s = 1 .. Len(s) /\ Len(s) \in Nat
      BY <1>1
    <2>2. CASE k <= Len(s)
      BY <2>1, <2>2
    <2>3. CASE k > Len(s)
      <3>1. (s \o <<a, b>>)[k] = <<a, b>>[k - Len(s)]
        BY <2>1, <2>3
      <3>2. k - Len(s) = 1 \/ k - Len(s) = 2
        BY <2>1, <2>3
      <3> QED BY <3>1, <3>2
    <2> QED BY <2>1, <2>2, <2>3
  <1> QED BY <1>1, <1>2

LEMMA AppendOne ==
  ASSUME NEW S, NEW s \in Seq(S), NEW a \in S
  PROVE  /\ Append(s, a) \in Seq(S)
         /\ Len(Append(s, a)) = Len(s) + 1
         /\ \A k \in DOMAIN Append(s, a) :
              \/ k \in DOMAIN s /\ Append(s, a)[k] = s[k]
              \/ Append(s, a)[k] = a
  OBVIOUS

-----------------------------------------------------------------------------
(* Events.                                                                 *)

LEMMA DepthType ==
  ASSUME NEW m, MatcherType(m), NEW side \in Sides, NEW p
  PROVE  DepthAt(m, side, p).qty \in Int /\ DepthAt(m, side, p).count \in Int
  <1>1. CASE p \in DOMAIN m.levels[side]
    <2>1. m.levels[side][p] \in Level
      BY <1>1 DEF MatcherType, LevelsType
    <2> QED BY <1>1, <2>1 DEF DepthAt, Level
  <1>2. CASE p \notin DOMAIN m.levels[side]
    BY <1>2 DEF DepthAt
  <1> QED BY <1>1, <1>2

LEMMA BookUpdateType ==
  ASSUME NEW m, MatcherType(m), NEW side \in Sides, NEW p \in Prices
  PROVE  /\ BookUpdate(side, p, DepthAt(m, side, p)) \in Event
         /\ BookUpdate(side, p, DepthAt(m, side, p)).kind = "BookDelta"
  BY DepthType DEF BookUpdate, Event

LEMMA RejectedType ==
  ASSUME NEW id \in OrderIds,
         NEW reason \in {"DuplicateOrderId", "OrderNotFound", "ArenaFull",
                         "InvalidQuantity", "InsufficientLiquidity"}
  PROVE  /\ OrderRejected(id, reason) \in Event
         /\ OrderRejected(id, reason).kind = "Rejected"
         /\ OrderRejected(id, reason).reason = reason
  BY DEF OrderRejected, Event

\* Nothing was refused among these events.
NoRefusal(events) == \A k \in DOMAIN events : events[k].kind # "Rejected"

LEMMA CancelEventsType ==
  ASSUME NEW m, MatcherType(m), NEW id \in DOMAIN m.order_map
  PROVE  /\ CancelEvents(m, id) \in Seq(Event)
         /\ NoRefusal(CancelEvents(m, id))
  <1> DEFINE info == m.order_map[id]
             qty == m.arena.nodes[info.arena_index].qty
             c == OrderCanceled(id, qty)
             u == BookUpdate(info.side, info.price,
                             DepthAt(CancelOrder(m, id), info.side, info.price))
  <1>1. id \in OrderIds /\ info \in OrderInfo
    BY DEF MatcherType, MapType
  <1>2. info.side \in Sides /\ info.price \in Prices
        /\ info.arena_index \in Index
    BY <1>1 DEF OrderInfo
  <1>3. qty \in U32
    <2>1. m.arena.nodes \in Nodes
      BY BookArenaFields DEF MatcherType
    <2>2. m.arena.nodes[info.arena_index] \in BookNode
      BY <1>2, <2>1 DEF Nodes
    <2> QED BY <2>2, NodeFields
  <1>4. c \in Event /\ c.kind = "Canceled"
    <2> HIDE DEF qty
    <2> QED BY <1>1, <1>3 DEF OrderCanceled, Event
  <1>5. u \in Event /\ u.kind = "BookDelta"
    <2> HIDE DEF info
    <2> QED BY <1>2, CancelOrderType, BookUpdateType
  <1>6. CancelEvents(m, id) = <<c, u>>
    BY DEF CancelEvents
  <1> HIDE DEF c, u
  <1> QED BY <1>4, <1>5, <1>6 DEF NoRefusal

-----------------------------------------------------------------------------
(* The inductive invariant.  While an order is being matched, nothing was  *)
(* refused so far; and when it has traded, or replaces an order that was   *)
(* cancelled, and is not filled yet, a node has become free for it.        *)

Clean ==
  pc # "idle" =>
    /\ NoRefusal(event_buffer)
    /\ remaining_qty > 0 /\ event_buffer # <<>> /\ pc = "cross"
         => ~IsFull(matcher.arena)

IInv == TypeOK /\ NotCrossed /\ ArenaFullIsClean /\ Clean

LEMMA ShrinkNotCrossed ==
  ASSUME NotCrossed, Shrinks(matcher, matcher')
  PROVE  NotCrossed'
  BY DEF NotCrossed, Shrinks, Sides

LEMMA InitIInv == Init => IInv
  <1> SUFFICES ASSUME Init PROVE IInv
    OBVIOUS
  <1>1. TypeOK
    BY NewMatcherType, ZeroInTypes DEF Init, TypeOK
  <1>2. NotCrossed
    BY DEF Init, NewMatcher, NotCrossed, Sides
  <1>3. ArenaFullIsClean /\ Clean
    BY DEF Init, ArenaFullIsClean, Clean
  <1> QED BY <1>1, <1>2, <1>3 DEF IInv

LEMMA ProcessPlaceIInv ==
  ASSUME IInv, pc = "idle",
         NEW m, MatcherType(m), Shrinks(matcher, m),
         NEW order \in PlaceOrder,
         NEW events \in Seq(Event), NoRefusal(events),
         events # <<>> => ~IsFull(m.arena),
         ProcessPlace(m, order, events)
  PROVE  IInv'
  <1>1. NotCrossed'
    BY ShrinkNotCrossed DEF IInv, ProcessPlace
  <1>2. order.order_id \in OrderIds /\ order.qty \in U32
    BY CommandAssumption DEF PlaceOrder
  <1>3. CASE Rejection(m, order) # "none"
    <2> DEFINE e == OrderRejected(order.order_id, Rejection(m, order))
    <2>1. Rejection(m, order) \in
            {"DuplicateOrderId", "InvalidQuantity", "InsufficientLiquidity"}
      BY <1>3 DEF Rejection
    <2>2. e \in Event /\ e.kind = "Rejected" /\ e.reason # "ArenaFull"
      BY <1>2, <2>1, RejectedType
    <2>3. event_buffer' = Append(events, e) /\ UNCHANGED place /\ matcher' = m
      BY <1>3 DEF ProcessPlace
    <2> HIDE DEF e
    <2>4. /\ Append(events, e) \in Seq(Event)
          /\ \A k \in DOMAIN Append(events, e) :
               \/ k \in DOMAIN events /\ Append(events, e)[k] = events[k]
               \/ Append(events, e)[k] = e
      BY <2>2, AppendOne
    <2>5. TypeOK'
      BY <2>3, <2>4 DEF IInv, TypeOK, place
    <2>6. ArenaFullIsClean'
      BY <2>2, <2>3, <2>4 DEF ArenaFullIsClean, NoRefusal
    <2>7. Clean'
      BY <2>3 DEF Clean, place
    <2> QED BY <1>1, <2>5, <2>6, <2>7 DEF IInv
  <1>4. CASE Rejection(m, order) = "none"
    <2>1. /\ event_buffer' = events /\ matcher' = m
          /\ pc' = "cross" /\ taker' = order /\ remaining_qty' = order.qty
      BY <1>4 DEF ProcessPlace
    <2>2. TypeOK'
      BY <1>2, <2>1 DEF TypeOK
    <2>3. ArenaFullIsClean'
      BY <2>1 DEF ArenaFullIsClean, NoRefusal
    <2>4. Clean'
      BY <2>1 DEF Clean, NoRefusal
    <2> QED BY <1>1, <2>2, <2>3, <2>4 DEF IInv
  <1> QED BY <1>3, <1>4

LEMMA PlaceIInv ==
  ASSUME IInv, NEW order \in PlaceOrder, Place(order)
  PROVE  IInv'
  <1>1. MatcherType(matcher) /\ Shrinks(matcher, matcher)
    BY DEF IInv, TypeOK, Shrinks
  <1>2. <<>> \in Seq(Event) /\ NoRefusal(<<>>)
    BY DEF NoRefusal
  <1> QED BY <1>1, <1>2, ProcessPlaceIInv, Zenon DEF Place

\* A cancel or modify of an order that is not in the book.
LEMMA NotFoundIInv ==
  ASSUME IInv, NEW id \in OrderIds, pc = "idle",
         event_buffer' = NotFoundEvents(id), UNCHANGED <<matcher, place>>
  PROVE  IInv'
  <1> DEFINE e == OrderRejected(id, "OrderNotFound")
  <1>1. e \in Event /\ e.reason = "OrderNotFound"
    BY RejectedType
  <1>2. event_buffer' = <<e>>
    BY DEF NotFoundEvents
  <1> HIDE DEF e
  <1>3. TypeOK'
    BY <1>1, <1>2 DEF IInv, TypeOK, place
  <1>4. ArenaFullIsClean' /\ Clean'
    BY <1>1, <1>2 DEF ArenaFullIsClean, Clean, place
  <1>5. NotCrossed'
    BY DEF IInv, NotCrossed
  <1> QED BY <1>3, <1>4, <1>5 DEF IInv

LEMMA CancelIInv ==
  ASSUME IInv, NEW id \in OrderIds, Cancel(id)
  PROVE  IInv'
  <1>1. CASE id \notin DOMAIN matcher.order_map
    BY <1>1, NotFoundIInv DEF Cancel
  <1>2. CASE id \in DOMAIN matcher.order_map
    <2>1. /\ pc = "idle" /\ UNCHANGED place
          /\ matcher' = CancelOrder(matcher, id)
          /\ event_buffer' = CancelEvents(matcher, id)
      BY <1>2 DEF Cancel
    <2>2. MatcherType(matcher)
      BY DEF IInv, TypeOK
    <2>3. MatcherType(matcher') /\ NotCrossed'
      BY <1>2, <2>1, <2>2, CancelOrderType, ShrinkNotCrossed DEF IInv
    <2>4. event_buffer' \in Seq(Event) /\ NoRefusal(event_buffer')
      BY <1>2, <2>1, <2>2, CancelEventsType
    <2>5. TypeOK'
      BY <2>1, <2>3, <2>4 DEF IInv, TypeOK, place
    <2>6. ArenaFullIsClean' /\ Clean'
      BY <2>1, <2>4 DEF ArenaFullIsClean, Clean, NoRefusal, place
    <2> QED BY <2>3, <2>5, <2>6 DEF IInv
  <1> QED BY <1>1, <1>2

\* What replaces an order is an order.
LEMMA ReplacementType ==
  ASSUME NEW m, MatcherType(m),
         NEW modify \in [kind : {"Modify"}, order_id : OrderIds,
                         new_order_id : OrderIds, new_price : Prices,
                         new_qty : Qtys],
         modify.order_id \in DOMAIN m.order_map
  PROVE  Replacement(m.order_map[modify.order_id], modify) \in PlaceOrder
  <1>1. m.order_map[modify.order_id] \in OrderInfo
    BY DEF MatcherType, MapType
  <1> QED BY <1>1 DEF Replacement, OrderInfo, PlaceOrder, OrderTypes

LEMMA ModifyIInv ==
  ASSUME IInv,
         NEW modify \in [kind : {"Modify"}, order_id : OrderIds,
                         new_order_id : OrderIds, new_price : Prices,
                         new_qty : Qtys],
         Modify(modify)
  PROVE  IInv'
  <1> DEFINE id == modify.order_id
             m == CancelOrder(matcher, id)
             order == Replacement(matcher.order_map[id], modify)
             events == CancelEvents(matcher, id)
  <1>1. CASE id \notin DOMAIN matcher.order_map
    BY <1>1, NotFoundIInv DEF Modify
  <1>2. CASE id \in DOMAIN matcher.order_map
    <2>1. pc = "idle" /\ ProcessPlace(m, order, events)
      BY <1>2 DEF Modify
    <2>2. MatcherType(matcher)
      BY DEF IInv, TypeOK
    <2>3. MatcherType(m) /\ Shrinks(matcher, m) /\ ~IsFull(m.arena)
      BY <1>2, <2>2, CancelOrderType
    <2>4. events \in Seq(Event) /\ NoRefusal(events)
      BY <1>2, <2>2, CancelEventsType
    <2>5. order \in PlaceOrder
      BY <1>2, <2>2, ReplacementType
    <2> HIDE DEF m, order, events
    <2> QED BY <2>1, <2>3, <2>4, <2>5, ProcessPlaceIInv
  <1> QED BY <1>1, <1>2

\* The taker and what is typed about it while it is being matched.
LEMMA TakerType ==
  ASSUME IInv, pc = "cross"
  PROVE  /\ MatcherType(matcher)
         /\ taker \in PlaceOrder
         /\ taker.order_id \in OrderIds /\ taker.user_id \in UserIds
         /\ taker.side \in Sides /\ taker.price \in Prices
         /\ MakerSide \in Sides
         /\ remaining_qty \in U32
         /\ event_buffer \in Seq(Event) /\ NoRefusal(event_buffer)
  <1>1. taker \in PlaceOrder
    BY DEF IInv, TypeOK
  <1> QED BY <1>1 DEF IInv, TypeOK, Clean, PlaceOrder, MakerSide, Opposite, Sides

\* The match loop adds a trade and a book update, neither of them a refusal.
LEMMA TwoEvents ==
  ASSUME NEW s \in Seq(Event), NoRefusal(s),
         NEW a \in Event, a.kind # "Rejected",
         NEW b \in Event, b.kind # "Rejected"
  PROVE  s \o <<a, b>> \in Seq(Event) /\ NoRefusal(s \o <<a, b>>)
  BY AppendTwo DEF NoRefusal

LEMMA TradeIInv ==
  ASSUME IInv, pc = "cross",
         NEW p \in DOMAIN matcher.levels[MakerSide],
         matcher.levels[MakerSide][p].head # NULL_INDEX,
         TradeWithHead(p)
  PROVE  IInv'
  <1> DEFINE level == matcher.levels[MakerSide][p]
             maker == matcher.arena.nodes[level.head]
             trade_qty == Lesser(remaining_qty, maker.qty)
             t == TradeEvent(p, trade_qty, maker, taker)
             u == BookUpdate(MakerSide, p, DepthAt(matcher', MakerSide, p))
  <1>1. /\ MatcherType(matcher) /\ MakerSide \in Sides
        /\ remaining_qty \in U32
        /\ event_buffer \in Seq(Event) /\ NoRefusal(event_buffer)
    BY TakerType
  <1>2. p \in Prices /\ level \in Level
    BY <1>1 DEF MatcherType, LevelsType
  <1>3. maker \in BookNode
    <2>1. level.head \in Index
      BY <1>2, LinkIndex DEF Level
    <2>2. matcher.arena.nodes \in Nodes
      BY <1>1, BookArenaFields DEF MatcherType
    <2> QED BY <2>1, <2>2 DEF Nodes
  <1>4. maker.qty \in U32 /\ U32 \subseteq Nat
    BY <1>3, NodeFields, WordAssumption DEF U32
  <1>5. /\ trade_qty \in U32 /\ trade_qty \in Nat /\ trade_qty <= maker.qty
        /\ remaining_qty - trade_qty \in U32
        /\ remaining_qty - trade_qty > 0 => maker.qty = trade_qty
    <2> DEFINE q == maker.qty
    <2>1. q \in Nat /\ q <= U32_MAX /\ remaining_qty \in Nat
          /\ remaining_qty <= U32_MAX /\ U32_MAX \in Nat
      BY <1>1, <1>4, WordAssumption DEF U32
    <2> HIDE DEF q
    <2>2. /\ Lesser(remaining_qty, q) \in U32 /\ Lesser(remaining_qty, q) \in Nat
          /\ Lesser(remaining_qty, q) <= q
          /\ remaining_qty - Lesser(remaining_qty, q) \in U32
          /\ remaining_qty - Lesser(remaining_qty, q) > 0
               => q = Lesser(remaining_qty, q)
      BY <2>1, SMTT(30) DEF Lesser, U32
    <2> QED BY <2>2, ZenonT(40) DEF q
  <1>6. /\ MatcherType(matcher') /\ Shrinks(matcher, matcher')
        /\ maker.qty = trade_qty => ~IsFull(matcher'.arena)
    <2>1. CASE maker.qty = trade_qty
      <3>1. matcher' = FillMaker(matcher, MakerSide, p)
        BY <2>1, Zenon DEF TradeWithHead
      <3> QED BY <1>1, <3>1, FillMakerType
    <2>2. CASE maker.qty # trade_qty
      <3>1. matcher' = ReduceMaker(matcher, MakerSide, p, trade_qty)
        BY <2>2, Zenon DEF TradeWithHead
      <3> HIDE DEF trade_qty
      <3> QED BY <1>1, <1>5, <2>2, <3>1, ReduceMakerType, Zenon
    <2> QED BY <2>1, <2>2
  <1>7. t \in Event /\ t.kind = "Trade"
    <2>1. maker.order_id \in OrderIds \cup {0}
          /\ maker.user_id \in UserIds \cup {0}
      BY <1>3, NodeFields
    <2> HIDE DEF trade_qty, maker
    <2> QED BY <1>2, <1>5, <2>1, TakerType, SMTT(30) DEF TradeEvent, Event
  <1>8. u \in Event /\ u.kind = "BookDelta"
    BY <1>1, <1>2, <1>6, BookUpdateType
  <1>9. /\ remaining_qty' = remaining_qty - trade_qty
        /\ event_buffer' = event_buffer \o <<t, u>>
        /\ UNCHANGED <<pc, taker>>
    BY Zenon DEF TradeWithHead
  <1> HIDE DEF t, u, trade_qty, maker
  <1>10. event_buffer' \in Seq(Event) /\ NoRefusal(event_buffer')
    BY <1>1, <1>7, <1>8, <1>9, TwoEvents
  <1>11. TypeOK'
    BY <1>5, <1>6, <1>9, <1>10 DEF IInv, TypeOK
  <1>12. NotCrossed'
    BY <1>6, ShrinkNotCrossed DEF IInv
  <1>13. ArenaFullIsClean'
    BY <1>10 DEF ArenaFullIsClean, NoRefusal
  <1>14. Clean'
    BY <1>5, <1>6, <1>9, <1>10 DEF Clean
  <1> QED BY <1>11, <1>12, <1>13, <1>14 DEF IInv

LEMMA MatchIInv ==
  ASSUME IInv, NEW p \in DOMAIN matcher.levels[MakerSide], Match(p)
  PROVE  IInv'
  <1>1. CASE UNCHANGED vars
    BY <1>1 DEF IInv, TypeOK, NotCrossed, ArenaFullIsClean, Clean, vars
  <1>2. CASE ~UNCHANGED vars
    BY <1>2, TradeIInv DEF Match, vars
  <1> QED BY <1>1, <1>2

\* When nothing matches an order that is not filled, no level crosses it.
LEMMA NothingCrosses ==
  ASSUME IInv, Crossed, remaining_qty > 0
  PROVE  \A p \in DOMAIN matcher.levels[MakerSide] : ~Crosses(taker, p)
  <1>1. pc = "cross"
        /\ ~ \E p \in DOMAIN matcher.levels[MakerSide] : Matchable(p)
    BY DEF Crossed
  <1>2. LevelsType(matcher.levels) /\ taker \in PlaceOrder
    BY <1>1, TakerType DEF MatcherType
  <1> SUFFICES ASSUME NEW p \in DOMAIN matcher.levels[MakerSide],
                      Crosses(taker, p)
               PROVE  FALSE
    OBVIOUS
  <1>3. \E q \in DOMAIN matcher.levels[MakerSide] :
          IsBest(matcher, MakerSide, q) /\ Crosses(taker, q)
    BY <1>2, BestCrosses DEF MakerSide
  <1> QED BY <1>1, <1>3 DEF Matchable

LEMMA RestIInv ==
  ASSUME IInv, RestRemainder
  PROVE  IInv'
  <1> DEFINE a == OrderAccepted(taker, remaining_qty)
             u == BookUpdate(taker.side, taker.price,
                             DepthAt(matcher', taker.side, taker.price))
  <1>1. pc = "cross" /\ remaining_qty > 0 /\ Crossed
    BY DEF RestRemainder, Crossed
  <1>2. /\ MatcherType(matcher) /\ taker \in PlaceOrder
        /\ taker.order_id \in OrderIds
        /\ taker.side \in Sides /\ taker.price \in Prices
        /\ remaining_qty \in U32
        /\ event_buffer \in Seq(Event) /\ NoRefusal(event_buffer)
    BY <1>1, TakerType
  <1>3. /\ MatcherType(matcher')
        /\ \A s \in Sides :
             DOMAIN matcher'.levels[s] \subseteq
               DOMAIN matcher.levels[s]
                 \cup (IF s = taker.side THEN {taker.price} ELSE {})
    BY <1>2, RestOrderType DEF RestRemainder
  <1>4. a \in Event /\ a.kind = "Accepted"
    BY <1>2 DEF OrderAccepted, Event
  <1>5. u \in Event /\ u.kind = "BookDelta"
    BY <1>2, <1>3, BookUpdateType
  <1>6. event_buffer' = event_buffer \o <<a, u>>
    BY DEF RestRemainder
  <1> HIDE DEF a, u
  <1>7. event_buffer' \in Seq(Event) /\ NoRefusal(event_buffer')
    BY <1>2, <1>4, <1>5, <1>6, TwoEvents, Zenon
  <1>8. pc' = "idle" /\ taker' = NoOrder /\ remaining_qty' = 0
    BY DEF RestRemainder, Finish
  <1>9. TypeOK'
    BY <1>3, <1>7, <1>8, ZeroInTypes DEF TypeOK
  <1>10. ArenaFullIsClean' /\ Clean'
    BY <1>7, <1>8 DEF ArenaFullIsClean, Clean, NoRefusal
  <1>11. NotCrossed'
    <2>1. \A p \in DOMAIN matcher.levels[MakerSide] : ~Crosses(taker, p)
      BY <1>1, NothingCrosses
    <2>2. Prices \subseteq Int
      BY CommandAssumption, WordAssumption DEF U64_MAX
    <2>3. \A s \in Sides : DOMAIN matcher.levels[s] \subseteq Prices
      BY <1>2 DEF MatcherType, LevelsType
    <2>4. \A s \in Sides : \A p \in DOMAIN matcher'.levels[s] :
            p \in DOMAIN matcher.levels[s]
              \/ (s = taker.side /\ p = taker.price)
      BY <1>3
    <2> SUFFICES ASSUME NEW bid \in DOMAIN matcher'.levels["Bid"],
                        NEW ask \in DOMAIN matcher'.levels["Ask"]
                 PROVE  bid < ask
      BY DEF NotCrossed
    <2>5. CASE bid \in DOMAIN matcher.levels["Bid"]
               /\ ask \in DOMAIN matcher.levels["Ask"]
      BY <2>5 DEF IInv, NotCrossed
    <2>6. CASE taker.side = "Bid" /\ bid = taker.price
      <3>1. ask \in DOMAIN matcher.levels["Ask"]
        BY <2>4, <2>6 DEF Sides
      <3>2. ~(bid >= ask)
        BY <2>1, <2>6, <3>1 DEF Crosses, MakerSide, Opposite
      <3>3. bid \in Int /\ ask \in Int
        BY <1>2, <2>2, <2>3, <2>6, <3>1, Zenon DEF Sides
      <3> QED BY <3>2, <3>3
    <2>7. CASE taker.side = "Ask" /\ ask = taker.price
      <3>1. bid \in DOMAIN matcher.levels["Bid"]
        BY <2>4, <2>7 DEF Sides
      <3>2. ~(ask <= bid)
        BY <2>1, <2>7, <3>1 DEF Crosses, MakerSide, Opposite
      <3>3. bid \in Int /\ ask \in Int
        BY <1>2, <2>2, <2>3, <2>7, <3>1, Zenon DEF Sides
      <3> QED BY <3>2, <3>3
    <2> QED BY <2>4, <2>5, <2>6, <2>7 DEF Sides
  <1> QED BY <1>9, <1>10, <1>11 DEF IInv

\* Here Clean is needed: the arena is full, so the order has no events yet.
LEMMA RejectIInv ==
  ASSUME IInv, RejectRemainder
  PROVE  IInv'
  <1> DEFINE e == OrderRejected(taker.order_id, "ArenaFull")
  <1>1. pc = "cross" /\ remaining_qty > 0 /\ IsFull(matcher.arena)
    BY DEF RejectRemainder, Crossed
  <1>2. event_buffer = <<>>
    BY <1>1 DEF IInv, Clean
  <1>3. e \in Event
    BY <1>1, TakerType, RejectedType
  <1>4. event_buffer' = <<e>>
    BY <1>2 DEF RejectRemainder
  <1>5. /\ pc' = "idle" /\ taker' = NoOrder /\ remaining_qty' = 0
        /\ UNCHANGED matcher
    BY DEF RejectRemainder, Finish
  <1> HIDE DEF e
  <1>6. TypeOK'
    BY <1>3, <1>4, <1>5, ZeroInTypes DEF IInv, TypeOK
  <1>7. NotCrossed' /\ ArenaFullIsClean' /\ Clean'
    BY <1>4, <1>5 DEF IInv, NotCrossed, ArenaFullIsClean, Clean
  <1> QED BY <1>6, <1>7 DEF IInv

LEMMA CompleteIInv ==
  ASSUME IInv, CompletePlace
  PROVE  IInv'
  <1>1. pc = "cross" /\ UNCHANGED <<matcher, event_buffer>>
    BY DEF CompletePlace, Crossed
  <1>2. NoRefusal(event_buffer') /\ NotCrossed'
    BY <1>1, TakerType DEF IInv, NotCrossed
  <1>3. \/ pc' = "panicked" /\ UNCHANGED <<taker, remaining_qty>>
        \/ pc' = "idle" /\ taker' = NoOrder /\ remaining_qty' = 0
    BY DEF CompletePlace, Finish
  <1>4. TypeOK'
    BY <1>1, <1>3, ZeroInTypes DEF IInv, TypeOK
  <1>5. ArenaFullIsClean' /\ Clean'
    BY <1>2, <1>3 DEF ArenaFullIsClean, Clean, NoRefusal
  <1> QED BY <1>2, <1>4, <1>5 DEF IInv

LEMMA StepIInv == IInv /\ [Next]_vars => IInv'
  <1> SUFFICES ASSUME IInv, [Next]_vars PROVE IInv'
    OBVIOUS
  <1>1. ASSUME NEW cmd \in Command, ProcessCommand(cmd) PROVE IInv'
    <2>1. CASE cmd.kind = "Place" /\ Place(cmd.order)
      <3>1. cmd.order \in PlaceOrder
        BY <2>1 DEF Command
      <3> QED BY <2>1, <3>1, PlaceIInv
    <2>2. CASE cmd.kind = "Cancel" /\ Cancel(cmd.order_id)
      <3>1. cmd.order_id \in OrderIds
        BY <2>2 DEF Command
      <3> QED BY <2>2, <3>1, CancelIInv
    <2>3. CASE cmd.kind = "Modify" /\ Modify(cmd)
      <3>1. cmd \in [kind : {"Modify"}, order_id : OrderIds,
                     new_order_id : OrderIds, new_price : Prices,
                     new_qty : Qtys]
        BY <2>3 DEF Command
      <3> QED BY <2>3, <3>1, ModifyIInv
    <2> QED BY <1>1, <2>1, <2>2, <2>3 DEF ProcessCommand
  <1>2. ASSUME Continue PROVE IInv'
    BY <1>2, MatchIInv, RestIInv, RejectIInv, CompleteIInv DEF Continue
  <1>3. CASE UNCHANGED vars
    BY <1>3 DEF IInv, TypeOK, NotCrossed, ArenaFullIsClean, Clean, vars
  <1> QED BY <1>1, <1>2, <1>3 DEF Next

\* IInv holds throughout.
LEMMA IInvAlways == Spec => []IInv
  BY InitIInv, StepIInv, PTL DEF Spec

-----------------------------------------------------------------------------
(* The second inductive invariant, over the first: the book is in order,   *)
(* and what place_order checked before it began to match still holds.  The *)
(* id of the order is new, and what is left of a fill-or-kill order is     *)
(* there to be traded with.                                                *)

FillOrKillCovered ==
  pc = "cross" /\ taker.order_type = "FOK" => remaining_qty <= Liquidity(taker)

BookInv ==
  /\ Orderly(matcher)
  /\ pc = "cross" => taker.order_id \notin DOMAIN matcher.order_map
  /\ FillOrKillCovered
  /\ NoPanic

LEMMA LiquidityIs ==
  ASSUME NEW order
  PROVE  Liquidity(order) = CrossingQty(matcher, order)
  BY DEF Liquidity, CrossingQty

LEMMA LiquidityNext == Liquidity(taker)' = CrossingQty(matcher', taker')
  BY DEF Liquidity, CrossingQty

LEMMA InitBookInv == Init => BookInv
  <1> SUFFICES ASSUME Init PROVE BookInv
    OBVIOUS
  <1>1. Orderly(matcher)
    BY NewMatcherOrderly DEF Init
  <1>2. pc = "idle"
    BY DEF Init
  <1> QED BY <1>1, <1>2 DEF BookInv, FillOrKillCovered, NoPanic

LEMMA ProcessPlaceBookInv ==
  ASSUME pc = "idle", NEW m, MatcherType(m), Orderly(m),
         NEW order \in PlaceOrder, NEW events, ProcessPlace(m, order, events)
  PROVE  BookInv'
  <1>1. matcher' = m
    BY DEF ProcessPlace
  <1>2. CASE Rejection(m, order) # "none"
    <2>1. pc' = "idle"
      BY <1>2 DEF ProcessPlace, place
    <2> QED BY <1>1, <2>1 DEF BookInv, FillOrKillCovered, NoPanic
  <1>3. CASE Rejection(m, order) = "none"
    <2>1. pc' = "cross" /\ taker' = order /\ remaining_qty' = order.qty
      BY <1>3 DEF ProcessPlace
    <2>2. order.order_id \notin DOMAIN m.order_map
          /\ (order.order_type = "FOK" => ~(AvailableQty(m, order) < order.qty))
      BY <1>3 DEF Rejection
    <2>3. order.qty \in Int
      <3>1. order.qty \in U32
        BY CommandAssumption DEF PlaceOrder
      <3> QED BY <3>1, WordAssumption DEF U32
    <2>4. order.order_type = "FOK" => order.qty <= CrossingQty(m, order)
      <3>1. AvailableQty(m, order) <= CrossingQty(m, order)
            /\ AvailableQty(m, order) \in Int /\ CrossingQty(m, order) \in Int
        BY AvailableAtMost
      <3> QED BY <2>2, <2>3, <3>1
    <2>5. FillOrKillCovered'
      BY <1>1, <2>1, <2>4, LiquidityNext DEF FillOrKillCovered
    <2> QED BY <1>1, <2>1, <2>2, <2>5 DEF BookInv, NoPanic
  <1> QED BY <1>2, <1>3

LEMMA PlaceBookInv ==
  ASSUME IInv, BookInv, NEW order \in PlaceOrder, Place(order)
  PROVE  BookInv'
  BY ProcessPlaceBookInv DEF Place, IInv, TypeOK, BookInv

\* A step that leaves the book alone, and comes or stays to rest.
LEMMA SameBook ==
  ASSUME BookInv, pc' = "idle", UNCHANGED matcher
  PROVE  BookInv'
  BY DEF BookInv, FillOrKillCovered, NoPanic

LEMMA CancelBookInv ==
  ASSUME IInv, BookInv, NEW id \in OrderIds, Cancel(id)
  PROVE  BookInv'
  <1>1. pc' = "idle"
    BY DEF Cancel, place
  <1>2. CASE id \notin DOMAIN matcher.order_map
    BY <1>1, <1>2, SameBook DEF Cancel
  <1>3. CASE id \in DOMAIN matcher.order_map
    <2>1. matcher' = CancelOrder(matcher, id)
      BY <1>3 DEF Cancel
    <2>2. Orderly(matcher')
      BY <1>3, <2>1, CancelOrderly DEF IInv, TypeOK, BookInv
    <2> QED BY <1>1, <2>2 DEF BookInv, FillOrKillCovered, NoPanic
  <1> QED BY <1>2, <1>3

LEMMA ModifyBookInv ==
  ASSUME IInv, BookInv,
         NEW modify \in [kind : {"Modify"}, order_id : OrderIds,
                         new_order_id : OrderIds, new_price : Prices,
                         new_qty : Qtys],
         Modify(modify)
  PROVE  BookInv'
  <1> DEFINE id == modify.order_id
             m == CancelOrder(matcher, id)
             order == Replacement(matcher.order_map[id], modify)
             events == CancelEvents(matcher, id)
  <1>1. CASE id \notin DOMAIN matcher.order_map
    BY <1>1, SameBook DEF Modify, place
  <1>2. CASE id \in DOMAIN matcher.order_map
    <2>1. pc = "idle" /\ ProcessPlace(m, order, events)
      BY <1>2 DEF Modify
    <2>2. MatcherType(matcher) /\ Orderly(matcher)
      BY DEF IInv, TypeOK, BookInv
    <2>3. MatcherType(m) /\ Orderly(m)
      BY <1>2, <2>2, CancelOrderType, CancelOrderly
    <2>4. order \in PlaceOrder
      BY <1>2, <2>2, ReplacementType
    <2> HIDE DEF m, order, events
    <2> QED BY <2>1, <2>3, <2>4, ProcessPlaceBookInv
  <1> QED BY <1>1, <1>2

\* A trade leaves at the maker's price, on the maker's side, what was there
\* but for the quantity traded, and adds no order.
LEMMA TradeEffect ==
  ASSUME IInv, BookInv, pc = "cross",
         NEW p \in DOMAIN matcher.levels[MakerSide], TradeWithHead(p)
  PROVE  \E qty \in Nat :
           /\ remaining_qty' = remaining_qty - qty
           /\ Orderly(matcher')
           /\ DOMAIN matcher'.order_map \subseteq DOMAIN matcher.order_map
           /\ Elsewhere(matcher'.levels, matcher.levels, MakerSide, p)
           /\ DepthAt(matcher', MakerSide, p).qty
                = DepthAt(matcher, MakerSide, p).qty - qty
  <1> DEFINE level == matcher.levels[MakerSide][p]
             maker == matcher.arena.nodes[level.head]
             qty == Lesser(remaining_qty, maker.qty)
  <1>1. MatcherType(matcher) /\ Orderly(matcher) /\ MakerSide \in Sides
    BY TakerType DEF BookInv
  <1>2. remaining_qty \in Nat /\ maker.qty \in Nat
    <2>1. remaining_qty \in U32 /\ U32 \subseteq Nat
      BY TakerType, WordAssumption DEF U32
    <2>2. level.head \in Index
      BY <1>1, HeadPlaced
    <2>3. maker \in BookNode
      BY <1>1, <2>2, BookBlock DEF Nodes
    <2>4. maker.qty \in U32
      BY <2>3, NodeFields
    <2> QED BY <2>1, <2>4
  <1>3. qty \in Nat /\ qty <= maker.qty
    <2> HIDE DEF maker
    <2> QED BY <1>2 DEF Lesser
  <1>4. remaining_qty' = remaining_qty - qty
    BY Zenon DEF TradeWithHead
  <1>5. CASE maker.qty = qty
    <2> DEFINE i == level.head
    <2>1. matcher' = FillMaker(matcher, MakerSide, p)
      BY <1>5, Zenon DEF TradeWithHead
    <2>2. PICK id \in DOMAIN matcher.order_map :
            /\ matcher.order_map[id].arena_index = i
            /\ matcher.order_map[id].side = MakerSide
            /\ matcher.order_map[id].price = p
            /\ FillMaker(matcher, MakerSide, p) = CancelOrder(matcher, id)
      BY <1>1, FillIsCancel
    <2> HIDE DEF i
    <2>3. Orderly(CancelOrder(matcher, id))
      BY <1>1, <2>2, CancelOrderly
    <2>4. DOMAIN CancelOrder(matcher, id).order_map
            = DOMAIN matcher.order_map \ {id}
          /\ Elsewhere(CancelOrder(matcher, id).levels, matcher.levels,
                       matcher.order_map[id].side, matcher.order_map[id].price)
      BY <1>1, <2>2, CancelEffect
    <2>5. DepthAt(CancelOrder(matcher, id),
                  matcher.order_map[id].side, matcher.order_map[id].price).qty
            = DepthAt(matcher, matcher.order_map[id].side,
                      matcher.order_map[id].price).qty
                - matcher.arena.nodes[matcher.order_map[id].arena_index].qty
      BY <1>1, <2>2, CancelDepth
    <2>6. matcher.arena.nodes[i].qty = qty
      BY <1>5 DEF i
    <2> HIDE DEF qty, maker
    <2> QED BY <1>3, <1>4, <2>1, <2>2, <2>3, <2>4, <2>5, <2>6
  <1>6. CASE maker.qty # qty
    <2>1. matcher' = ReduceMaker(matcher, MakerSide, p, qty)
      BY <1>6, Zenon DEF TradeWithHead
    <2>2. qty < maker.qty
      <3> HIDE DEF qty, maker
      <3> QED BY <1>2, <1>3, <1>6
    <2>3. qty < matcher.arena.nodes[matcher.levels[MakerSide][p].head].qty
      BY <2>2
    <2> HIDE DEF qty, maker
    <2>4. Orderly(matcher')
      BY <1>1, <1>3, <2>1, <2>3, ReduceOrderly
    <2>5. matcher'.order_map = matcher.order_map
      BY <2>1, Zenon DEF ReduceMaker
    <2>6. Elsewhere(matcher'.levels, matcher.levels, MakerSide, p)
          /\ DepthAt(matcher', MakerSide, p).qty
               = DepthAt(matcher, MakerSide, p).qty - qty
      BY <1>1, <1>3, <2>1, ReduceDepth
    <2> QED BY <1>3, <1>4, <2>4, <2>5, <2>6
  <1> QED BY <1>5, <1>6

LEMMA TradeBookInv ==
  ASSUME IInv, BookInv, pc = "cross",
         NEW p \in DOMAIN matcher.levels[MakerSide],
         MatcherType(matcher'), Crosses(taker, p), TradeWithHead(p)
  PROVE  BookInv'
  <1>1. PICK qty \in Nat :
           /\ remaining_qty' = remaining_qty - qty
           /\ Orderly(matcher')
           /\ DOMAIN matcher'.order_map \subseteq DOMAIN matcher.order_map
           /\ Elsewhere(matcher'.levels, matcher.levels, MakerSide, p)
           /\ DepthAt(matcher', MakerSide, p).qty
                = DepthAt(matcher, MakerSide, p).qty - qty
    BY TradeEffect
  <1>2. MatcherType(matcher) /\ Orderly(matcher) /\ taker \in PlaceOrder
        /\ remaining_qty \in Int
    BY TakerType, WordAssumption DEF BookInv, U32
  <1>3. UNCHANGED <<pc, taker>>
    BY Zenon DEF TradeWithHead
  <1>4. CrossingQty(matcher', taker) = CrossingQty(matcher, taker) - qty
    <2>1. MakerSide = Opposite(taker.side)
      BY DEF MakerSide
    <2>2. qty \in Int
      OBVIOUS
    <2> QED BY <1>1, <1>2, <2>1, <2>2, CrossingLess
  <1>5. CrossingQty(matcher, taker) \in Int
    BY <1>2, AvailableAtMost
  <1>6. FillOrKillCovered'
    <2>1. taker.order_type = "FOK" => remaining_qty <= CrossingQty(matcher, taker)
      BY LiquidityIs DEF BookInv, FillOrKillCovered
    <2>2. taker.order_type = "FOK"
            => remaining_qty' <= CrossingQty(matcher', taker)
      BY <1>1, <1>2, <1>4, <1>5, <2>1
    <2> QED BY <1>3, <2>2, LiquidityNext DEF FillOrKillCovered
  <1> QED BY <1>1, <1>3, <1>6 DEF BookInv, NoPanic

LEMMA MatchBookInv ==
  ASSUME IInv, IInv', BookInv, NEW p \in DOMAIN matcher.levels[MakerSide], Match(p)
  PROVE  BookInv'
  <1>1. CASE UNCHANGED vars
    BY <1>1 DEF BookInv, FillOrKillCovered, NoPanic, Liquidity, vars
  <1>2. CASE ~UNCHANGED vars
    <2>1. pc = "cross" /\ Crosses(taker, p) /\ TradeWithHead(p)
      BY <1>2 DEF Match, Matchable, vars
    <2>2. MatcherType(matcher')
      BY DEF IInv, TypeOK
    <2> QED BY <2>1, <2>2, TradeBookInv
  <1> QED BY <1>1, <1>2

LEMMA RestBookInv ==
  ASSUME IInv, BookInv, RestRemainder
  PROVE  BookInv'
  <1>1. /\ pc = "cross" /\ remaining_qty > 0 /\ ~IsFull(matcher.arena)
        /\ matcher' = RestOrder(matcher, taker, remaining_qty)
        /\ pc' = "idle"
    BY DEF RestRemainder, Crossed, Finish
  <1>2. MatcherType(matcher) /\ taker \in PlaceOrder /\ remaining_qty \in U32
    BY <1>1, TakerType
  <1>3. Orderly(matcher')
    BY <1>1, <1>2, RestOrderly DEF BookInv
  <1> QED BY <1>1, <1>3 DEF BookInv, FillOrKillCovered, NoPanic

\* A fill-or-kill order of which something is left when nothing crosses it
\* any more would need more than nothing from no level at all.
LEMMA CompleteBookInv ==
  ASSUME IInv, BookInv, CompletePlace
  PROVE  BookInv'
  <1>1. pc = "cross" /\ Crossed /\ UNCHANGED matcher
    BY DEF CompletePlace, Crossed
  <1>2. remaining_qty \in Int
    BY <1>1, TakerType, WordAssumption DEF U32
  <1>3. ~(remaining_qty > 0 /\ taker.order_type = "FOK")
    <2> SUFFICES ASSUME remaining_qty > 0, taker.order_type = "FOK" PROVE FALSE
      OBVIOUS
    <2>1. \A p \in DOMAIN matcher.levels[MakerSide] : ~Crosses(taker, p)
      BY <1>1, NothingCrosses
    <2>2. CrossingQty(matcher, taker) = 0
      BY <2>1, CrossingNone DEF MakerSide
    <2>3. remaining_qty <= CrossingQty(matcher, taker)
      BY <1>1, LiquidityIs DEF BookInv, FillOrKillCovered
    <2> QED BY <1>2, <2>2, <2>3
  <1>4. pc' = "idle"
    BY <1>3 DEF CompletePlace, Finish
  <1> QED BY <1>1, <1>4, SameBook

LEMMA StepBookInv == IInv /\ IInv' /\ BookInv /\ [Next]_vars => BookInv'
  <1> SUFFICES ASSUME IInv, IInv', BookInv, [Next]_vars PROVE BookInv'
    OBVIOUS
  <1>1. ASSUME NEW cmd \in Command, ProcessCommand(cmd) PROVE BookInv'
    <2>1. CASE cmd.kind = "Place" /\ Place(cmd.order)
      <3>1. cmd.order \in PlaceOrder
        BY <2>1 DEF Command
      <3> QED BY <2>1, <3>1, PlaceBookInv
    <2>2. CASE cmd.kind = "Cancel" /\ Cancel(cmd.order_id)
      <3>1. cmd.order_id \in OrderIds
        BY <2>2 DEF Command
      <3> QED BY <2>2, <3>1, CancelBookInv
    <2>3. CASE cmd.kind = "Modify" /\ Modify(cmd)
      <3>1. cmd \in [kind : {"Modify"}, order_id : OrderIds,
                     new_order_id : OrderIds, new_price : Prices,
                     new_qty : Qtys]
        BY <2>3 DEF Command
      <3> QED BY <2>3, <3>1, ModifyBookInv
    <2> QED BY <1>1, <2>1, <2>2, <2>3 DEF ProcessCommand
  <1>2. ASSUME RejectRemainder PROVE BookInv'
    BY <1>2, SameBook DEF RejectRemainder, Finish
  <1>3. ASSUME Continue PROVE BookInv'
    BY <1>2, <1>3, MatchBookInv, RestBookInv, CompleteBookInv DEF Continue
  <1>4. CASE UNCHANGED vars
    BY <1>4 DEF BookInv, FillOrKillCovered, NoPanic, Liquidity, vars
  <1> QED BY <1>1, <1>3, <1>4 DEF Next

LEMMA BookInvAlways == Spec => [](IInv /\ BookInv)
  <1>1. Init => IInv /\ BookInv
    BY InitIInv, InitBookInv
  <1>2. (IInv /\ BookInv) /\ [Next]_vars => (IInv /\ BookInv)'
    BY StepIInv, StepBookInv
  <1> QED BY <1>1, <1>2, PTL DEF Spec

-----------------------------------------------------------------------------
(* The third inductive invariant, over the other two: two events are kept  *)
(* for every order that still rests.  A maker is filled but once, and the  *)
(* trade that only reduces one is the last.                                *)

EventsPaid ==
  /\ pc = "cross" =>
       Len(event_buffer) + 2 * OrderCount(matcher)
         <= 2 * Capacity + (IF remaining_qty = 0 THEN 2 ELSE 0)
  /\ EventsBounded

\* The order map holds at most one order for each node.
LEMMA CountBound ==
  ASSUME NEW m, MatcherType(m), Orderly(m)
  PROVE  /\ OrderCount(m) \in Nat /\ OrderCount(m) <= Capacity
         /\ Capacity \in Nat /\ Capacity >= 1
  BY OrderlyMap, CapacityAssumption DEF OrderCount

\* A cancelled order is one less.
LEMMA CancelCount ==
  ASSUME NEW m, MatcherType(m), Orderly(m), NEW id \in DOMAIN m.order_map
  PROVE  OrderCount(CancelOrder(m, id)) = OrderCount(m) - 1
  <1>1. DOMAIN CancelOrder(m, id).order_map = DOMAIN m.order_map \ {id}
    BY CancelEffect
  <1>2. IsFiniteSet(DOMAIN m.order_map)
    BY OrderlyMap
  <1>3. Cardinality(DOMAIN m.order_map \ {id})
          = Cardinality(DOMAIN m.order_map) - 1
    BY <1>2, FS_RemoveElement
  <1> QED BY <1>1, <1>3 DEF OrderCount

LEMMA TwoLonger ==
  ASSUME NEW s \in Seq(Event), NEW a, NEW b
  PROVE  Len(s \o <<a, b>>) = Len(s) + 2 /\ Len(s) \in Nat
  OBVIOUS

LEMMA OneLonger ==
  ASSUME NEW s \in Seq(Event), NEW a
  PROVE  Len(Append(s, a)) = Len(s) + 1
  OBVIOUS

LEMMA InitEventsPaid == Init => EventsPaid
  <1> SUFFICES ASSUME Init PROVE EventsPaid
    OBVIOUS
  <1>1. pc = "idle" /\ Len(event_buffer) = 0
    BY DEF Init
  <1> QED BY <1>1, CapacityAssumption DEF EventsPaid, EventsBounded

\* The events of a cancel are two, and those of a modify pay with the order
\* that it takes out of the book.
LEMMA ProcessPlacePaid ==
  ASSUME NEW m, MatcherType(m), Orderly(m),
         NEW order \in PlaceOrder,
         NEW events \in Seq(Event),
         Len(events) + 2 * OrderCount(m) <= 2 * Capacity,
         pc = "idle", ProcessPlace(m, order, events)
  PROVE  EventsPaid'
  <1>1. /\ OrderCount(m) \in Nat
        /\ Capacity \in Nat /\ Len(events) \in Nat
    BY CountBound
  <1>2. CASE Rejection(m, order) # "none"
    <2>1. PICK e : event_buffer' = Append(events, e)
      BY <1>2 DEF ProcessPlace
    <2>2. Len(event_buffer') = Len(events) + 1
      BY <2>1, OneLonger
    <2>3. UNCHANGED pc
      BY <1>2 DEF ProcessPlace, place
    <2> QED BY <1>1, <2>2, <2>3 DEF EventsPaid, EventsBounded
  <1>3. CASE Rejection(m, order) = "none"
    <2>1. event_buffer' = events /\ matcher' = m
      BY <1>3 DEF ProcessPlace
    <2>2. Len(event_buffer') = Len(events)
          /\ OrderCount(matcher)' = OrderCount(m)
      BY <2>1 DEF OrderCount
    <2> QED BY <1>1, <2>2 DEF EventsPaid, EventsBounded
  <1> QED BY <1>2, <1>3

LEMMA PlacePaid ==
  ASSUME IInv, BookInv, NEW order \in PlaceOrder, Place(order)
  PROVE  EventsPaid'
  <1>1. MatcherType(matcher) /\ Orderly(matcher)
    BY DEF IInv, TypeOK, BookInv
  <1>2. Len(<<>>) + 2 * OrderCount(matcher) <= 2 * Capacity
    BY <1>1, CountBound
  <1>3. <<>> \in Seq(Event)
    OBVIOUS
  <1> QED BY <1>1, <1>2, <1>3, ProcessPlacePaid, Zenon DEF Place

LEMMA NotFoundPaid ==
  ASSUME NEW id, pc' = "idle", event_buffer' = NotFoundEvents(id)
  PROVE  EventsPaid'
  BY CapacityAssumption DEF NotFoundEvents, EventsPaid, EventsBounded

LEMMA CancelPaid ==
  ASSUME IInv, BookInv, NEW id \in OrderIds, Cancel(id)
  PROVE  EventsPaid'
  <1>1. pc' = "idle"
    BY DEF Cancel, place
  <1>2. CASE id \notin DOMAIN matcher.order_map
    BY <1>1, <1>2, NotFoundPaid DEF Cancel
  <1>3. CASE id \in DOMAIN matcher.order_map
    <2>1. Len(event_buffer') = 2
      BY <1>3 DEF Cancel, CancelEvents
    <2> QED BY <1>1, <2>1, CapacityAssumption DEF EventsPaid, EventsBounded
  <1> QED BY <1>2, <1>3

LEMMA ModifyPaid ==
  ASSUME IInv, BookInv,
         NEW modify \in [kind : {"Modify"}, order_id : OrderIds,
                         new_order_id : OrderIds, new_price : Prices,
                         new_qty : Qtys],
         Modify(modify)
  PROVE  EventsPaid'
  <1> DEFINE id == modify.order_id
             m == CancelOrder(matcher, id)
             order == Replacement(matcher.order_map[id], modify)
             events == CancelEvents(matcher, id)
  <1>1. CASE id \notin DOMAIN matcher.order_map
    <2>1. pc' = "idle" /\ event_buffer' = NotFoundEvents(id)
      BY <1>1 DEF Modify, place
    <2> QED BY <2>1, NotFoundPaid
  <1>2. CASE id \in DOMAIN matcher.order_map
    <2>1. pc = "idle" /\ ProcessPlace(m, order, events)
      BY <1>2 DEF Modify
    <2>2. MatcherType(matcher) /\ Orderly(matcher)
      BY DEF IInv, TypeOK, BookInv
    <2>3. MatcherType(m) /\ Orderly(m)
      BY <1>2, <2>2, CancelOrderType, CancelOrderly
    <2>4. order \in PlaceOrder
      BY <1>2, <2>2, ReplacementType
    <2>5. events \in Seq(Event)
      BY <1>2, <2>2, CancelEventsType
    <2>6. Len(events) = 2
      BY DEF CancelEvents
    <2>7. OrderCount(m) = OrderCount(matcher) - 1
      BY <1>2, <2>2, CancelCount
    <2> HIDE DEF m, order, events
    <2>8. Len(events) + 2 * OrderCount(m) <= 2 * Capacity
      BY <2>2, <2>6, <2>7, CountBound, SMTT(30)
    <2> QED BY <2>1, <2>3, <2>4, <2>5, <2>8, ProcessPlacePaid
  <1> QED BY <1>1, <1>2

\* The two events of a trade are those kept for the maker, or the two that a
\* filled taker no longer needs for itself.
LEMMA TradePaid ==
  ASSUME IInv, BookInv, EventsPaid, pc = "cross", remaining_qty > 0,
         NEW p \in DOMAIN matcher.levels[MakerSide], TradeWithHead(p)
  PROVE  EventsPaid'
  <1> DEFINE maker == matcher.arena.nodes[matcher.levels[MakerSide][p].head]
             qty == Lesser(remaining_qty, maker.qty)
  <1>1. MatcherType(matcher) /\ Orderly(matcher) /\ MakerSide \in Sides
        /\ event_buffer \in Seq(Event) /\ remaining_qty \in Nat
    BY TakerType, WordAssumption DEF BookInv, U32
  <1>2. /\ OrderCount(matcher) \in Nat /\ Capacity \in Nat
        /\ Len(event_buffer) \in Nat
    BY <1>1, CountBound
  <1>3. Len(event_buffer) + 2 * OrderCount(matcher) <= 2 * Capacity
    BY <1>1, <1>2 DEF EventsPaid
  <1>4. remaining_qty' = remaining_qty - qty /\ pc' = "cross"
    BY Zenon DEF TradeWithHead
  <1>5. Len(event_buffer') = Len(event_buffer) + 2
    <2>1. PICK a, b : event_buffer' = event_buffer \o <<a, b>>
      BY Zenon DEF TradeWithHead
    <2> QED BY <1>1, <2>1, TwoLonger
  <1>6. CASE maker.qty = qty
    <2>1. matcher' = FillMaker(matcher, MakerSide, p)
      BY <1>6, Zenon DEF TradeWithHead
    <2>2. PICK id \in DOMAIN matcher.order_map :
            matcher' = CancelOrder(matcher, id)
      BY <1>1, <2>1, FillIsCancel
    <2>3. OrderCount(matcher)' = OrderCount(matcher) - 1
      <3>1. OrderCount(CancelOrder(matcher, id)) = OrderCount(matcher) - 1
        BY <1>1, CancelCount
      <3> QED BY <2>2, <3>1 DEF OrderCount
    <2> HIDE DEF qty, maker
    <2>4. Len(event_buffer') + 2 * OrderCount(matcher)' <= 2 * Capacity
          /\ Len(event_buffer') <= 2 * Capacity + 2
      BY <1>2, <1>3, <1>5, <2>3
    <2>5. EventsBounded'
      BY <2>4 DEF EventsBounded
    <2>6. OrderCount(matcher)' \in Int /\ Len(event_buffer') \in Int
      BY <1>2, <1>5, <2>3
    <2>7. CASE remaining_qty' = 0
      BY <1>2, <2>4, <2>5, <2>6, <2>7 DEF EventsPaid
    <2>8. CASE remaining_qty' # 0
      BY <1>2, <2>4, <2>5, <2>6, <2>8 DEF EventsPaid
    <2> QED BY <2>7, <2>8
  <1>7. CASE maker.qty # qty
    <2>1. matcher' = ReduceMaker(matcher, MakerSide, p, qty)
      BY <1>7, Zenon DEF TradeWithHead
    <2>2. OrderCount(matcher)' = OrderCount(matcher)
      BY <2>1, Zenon DEF ReduceMaker, OrderCount
    <2>3. qty = remaining_qty
      <3> HIDE DEF maker
      <3> QED BY <1>7 DEF Lesser
    <2>4. remaining_qty' = 0
      BY <1>1, <1>4, <2>3
    <2> HIDE DEF qty, maker
    <2> QED BY <1>2, <1>3, <1>5, <2>2, <2>4 DEF EventsPaid, EventsBounded
  <1> QED BY <1>6, <1>7

LEMMA ContinuePaid ==
  ASSUME IInv, BookInv, EventsPaid, Continue
  PROVE  EventsPaid' \/ UNCHANGED vars
  <1>1. CASE RestRemainder
    <2>1. pc = "cross" /\ remaining_qty > 0 /\ pc' = "idle"
      BY <1>1 DEF RestRemainder, Crossed, Finish
    <2>2. event_buffer \in Seq(Event) /\ remaining_qty \in Nat
          /\ MatcherType(matcher) /\ Orderly(matcher)
      BY <2>1, TakerType, WordAssumption DEF U32, BookInv
    <2>3. PICK a, b : event_buffer' = event_buffer \o <<a, b>>
      BY <1>1, Zenon DEF RestRemainder
    <2>4. Len(event_buffer') = Len(event_buffer) + 2
          /\ Len(event_buffer) \in Nat
      BY <2>2, <2>3, TwoLonger
    <2>5. OrderCount(matcher) \in Nat /\ Capacity \in Nat
      BY <2>2, CountBound
    <2>6. Len(event_buffer) + 2 * OrderCount(matcher) <= 2 * Capacity
      BY <2>1, <2>2, <2>5 DEF EventsPaid
    <2> QED BY <2>1, <2>4, <2>5, <2>6 DEF EventsPaid, EventsBounded
  <1>2. CASE RejectRemainder
    <2>1. pc = "cross" /\ remaining_qty > 0 /\ pc' = "idle"
          /\ IsFull(matcher.arena)
      BY <1>2 DEF RejectRemainder, Crossed, Finish
    <2>2. event_buffer = <<>>
      BY <2>1 DEF IInv, Clean
    <2>3. PICK e : event_buffer' = Append(event_buffer, e)
      BY <1>2, Zenon DEF RejectRemainder
    <2>4. Len(event_buffer') = 1
      BY <2>2, <2>3
    <2> QED BY <2>1, <2>4, CapacityAssumption DEF EventsPaid, EventsBounded
  <1>3. CASE CompletePlace
    <2>1. pc' # "cross" /\ UNCHANGED event_buffer
      BY <1>3 DEF CompletePlace, Finish
    <2> QED BY <2>1 DEF EventsPaid, EventsBounded
  <1>4. ASSUME NEW p \in DOMAIN matcher.levels[MakerSide], Match(p)
        PROVE  EventsPaid' \/ UNCHANGED vars
    BY <1>4, TradePaid DEF Match, vars
  <1> QED BY <1>1, <1>2, <1>3, <1>4 DEF Continue

LEMMA StepEventsPaid ==
  IInv /\ BookInv /\ EventsPaid /\ [Next]_vars => EventsPaid'
  <1> SUFFICES ASSUME IInv, BookInv, EventsPaid, [Next]_vars PROVE EventsPaid'
    OBVIOUS
  <1>1. ASSUME NEW cmd \in Command, ProcessCommand(cmd) PROVE EventsPaid'
    <2>1. CASE cmd.kind = "Place" /\ Place(cmd.order)
      <3>1. cmd.order \in PlaceOrder
        BY <2>1 DEF Command
      <3> QED BY <2>1, <3>1, PlacePaid
    <2>2. CASE cmd.kind = "Cancel" /\ Cancel(cmd.order_id)
      <3>1. cmd.order_id \in OrderIds
        BY <2>2 DEF Command
      <3> QED BY <2>2, <3>1, CancelPaid
    <2>3. CASE cmd.kind = "Modify" /\ Modify(cmd)
      <3>1. cmd \in [kind : {"Modify"}, order_id : OrderIds,
                     new_order_id : OrderIds, new_price : Prices,
                     new_qty : Qtys]
        BY <2>3 DEF Command
      <3> QED BY <2>3, <3>1, ModifyPaid
    <2> QED BY <1>1, <2>1, <2>2, <2>3 DEF ProcessCommand
  <1>2. CASE UNCHANGED vars
    BY <1>2 DEF EventsPaid, EventsBounded, OrderCount, vars
  <1> QED BY <1>1, <1>2, ContinuePaid DEF Next

LEMMA EventsPaidAlways == Spec => [](IInv /\ BookInv /\ EventsPaid)
  <1>1. Init => EventsPaid
    BY InitEventsPaid
  <1> QED BY <1>1, BookInvAlways, StepEventsPaid, PTL DEF Spec

-----------------------------------------------------------------------------
(* Why matching ends, short of the fairness that lets it go on: it always  *)
(* can go on, and every trade leaves the taker with less.                  *)

\* There is a trade to be made, or nothing crosses any more.
CanGoOn ==
  \/ Crossed
  \/ \E p \in DOMAIN matcher.levels[MakerSide] :
       /\ remaining_qty > 0 /\ Matchable(p)
       /\ ~IsEmpty(matcher.levels[MakerSide][p])
       /\ matcher.levels[MakerSide][p].head # NULL_INDEX

LEMMA AlwaysCanGoOn == IInv /\ BookInv => (pc = "cross" => CanGoOn)
  <1> SUFFICES ASSUME IInv, BookInv, pc = "cross", ~Crossed PROVE CanGoOn
    BY DEF CanGoOn
  <1>1. remaining_qty # 0 /\ remaining_qty \in Nat
    BY TakerType, WordAssumption DEF Crossed, U32
  <1>2. PICK p \in DOMAIN matcher.levels[MakerSide] : Matchable(p)
    BY DEF Crossed
  <1>3. ~IsEmpty(matcher.levels[MakerSide][p])
        /\ matcher.levels[MakerSide][p].head # NULL_INDEX
    BY TakerType, HeadPlaced DEF BookInv
  <1> QED BY <1>1, <1>2, <1>3 DEF CanGoOn

LEMMA TradesDecrease ==
  ASSUME IInv, BookInv, Next, pc = "cross", pc' = "cross", ~UNCHANGED vars
  PROVE  remaining_qty \in Nat /\ remaining_qty' \in Nat
         /\ remaining_qty' < remaining_qty
  <1>1. PICK p \in DOMAIN matcher.levels[MakerSide] : Match(p)
    <2>1. Continue
      BY DEF Next, ProcessCommand, Place, Cancel, Modify
    <2>2. ~RestRemainder /\ ~RejectRemainder /\ ~CompletePlace
      BY DEF RestRemainder, RejectRemainder, CompletePlace, Finish
    <2> QED BY <2>1, <2>2 DEF Continue
  <1> DEFINE maker == matcher.arena.nodes[matcher.levels[MakerSide][p].head]
             q == maker.qty
  <1>2. TradeWithHead(p) /\ remaining_qty > 0
    BY <1>1 DEF Match, vars
  <1>3. remaining_qty' = remaining_qty - Lesser(remaining_qty, q)
    BY <1>2, Zenon DEF TradeWithHead
  <1>4. MatcherType(matcher) /\ MakerSide \in Sides /\ remaining_qty \in Nat
    BY TakerType, WordAssumption DEF U32
  <1>5. matcher.levels[MakerSide][p].head \in Index /\ q > 0
    BY <1>4, HeadPlaced DEF BookInv
  <1>6. q \in Nat
    <2>1. maker \in BookNode
      BY <1>4, <1>5, BookBlock DEF Nodes
    <2> HIDE DEF maker
    <2>2. q \in U32
      BY <2>1, NodeFields
    <2> QED BY <2>2, WordAssumption DEF U32
  <1> HIDE DEF q
  <1> QED BY <1>2, <1>3, <1>4, <1>5, <1>6 DEF Lesser

-----------------------------------------------------------------------------

\* Links stay indices, quantities of orders and trades stay within u32, and
\* every event is well-formed: no trade subtracts more than there is.
THEOREM EngineTypes == Spec => []TypeOK
  <1>1. IInv => TypeOK
    BY DEF IInv
  <1> QED BY <1>1, IInvAlways, PTL

\* The book is never crossed, not even in the middle of a command.
THEOREM EngineNotCrossed == Spec => []NotCrossed
  <1>1. IInv => NotCrossed
    BY DEF IInv
  <1> QED BY <1>1, IInvAlways, PTL

\* ArenaFull is the answer to a whole command: the order it refuses has not
\* traded, and was not placed by a Modify that cancelled another one for it.
THEOREM EngineArenaFullIsClean == Spec => []ArenaFullIsClean
  <1>1. IInv => ArenaFullIsClean
    BY DEF IInv
  <1> QED BY <1>1, IInvAlways, PTL

\* Levels, order map and free list partition the arena and agree on it after
\* every step: cached counts and totals are exact and fit, no node is leaked,
\* used twice or freed twice, and no level is empty.
THEOREM EngineBookConsistent == Spec => []BookConsistent
  <1>1. IInv /\ BookInv => BookConsistent
    BY OrderlyConsistent DEF IInv, TypeOK, BookInv, BookConsistent
  <1> QED BY <1>1, BookInvAlways, PTL

\* A fill-or-kill order that passed the check is always filled: the
\* unreachable!() of process_place is never reached.
THEOREM EngineNoPanic == Spec => []NoPanic
  <1>1. IInv /\ BookInv => NoPanic
    BY DEF BookInv
  <1> QED BY <1>1, BookInvAlways, PTL

\* The events of one command never outgrow two for each slot of the arena, and
\* two more, however many orders it trades with.
THEOREM EngineEventsBounded == Spec => []EventsBounded
  <1>1. EventsPaid => EventsBounded
    BY DEF EventsPaid
  <1> QED BY <1>1, EventsPaidAlways, PTL

\* cross_order and match_at_level (matching.rs) are never stuck: while they run
\* there is a maker with something to trade at the best level, or they are
\* done, and each of their turns takes from what is left of the taker.  So they
\* turn at most as often as the order has units.
THEOREM EngineMatchingEnds ==
  Spec => /\ [](pc = "cross" => CanGoOn)
          /\ [][pc = "cross" /\ pc' = "cross" =>
                  /\ remaining_qty \in Nat /\ remaining_qty' \in Nat
                  /\ remaining_qty' < remaining_qty]_vars
  <1>1. IInv /\ BookInv => (pc = "cross" => CanGoOn)
    BY AlwaysCanGoOn
  <1>2. IInv /\ BookInv /\ [Next]_vars
          => [pc = "cross" /\ pc' = "cross" =>
                /\ remaining_qty \in Nat /\ remaining_qty' \in Nat
                /\ remaining_qty' < remaining_qty]_vars
    BY TradesDecrease
  <1> QED BY <1>1, <1>2, BookInvAlways, PTL DEF Spec
=============================================================================
