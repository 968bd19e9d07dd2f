----------------------------- MODULE OrderBook -----------------------------
(***************************************************************************)
(* The limit order book (src/order_book.rs) together with the arena its    *)
(* orders live in, as the matching engine holds them.  A matcher is a      *)
(* record                                                                  *)
(*     arena       the slab of order nodes                                 *)
(*     levels      for each side, its non-empty price levels by price      *)
(*     order_map   for each resting order id, where the order is           *)
(* bids and asks of the code are levels["Bid"] and levels["Ask"].  The     *)
(* operators give the matcher a call leaves behind.                        *)
(***************************************************************************)
EXTENDS PriceLevel, Command, FiniteSetsExt

NewMatcher ==
  [arena |-> NewArena, levels |-> [side \in Sides |-> <<>>], order_map |-> <<>>]

Insert(f, k, v) == [x \in DOMAIN f \cup {k} |-> IF x = k THEN v ELSE f[x]]

Delete(f, k) == Restrict(f, DOMAIN f \ {k})

\* Mutant of Better: the ends of the price map are swapped.
Worse(side, p, q) == IF side = "Bid" THEN p < q ELSE p > q

\* Of two prices on the same side of the book, which one is matched first.
Better(side, p, q) == IF side = "Bid" THEN p > q ELSE p < q

IsBest(m, side, p) ==
  /\ p \in DOMAIN m.levels[side]
  /\ \A q \in DOMAIN m.levels[side] : ~Better(side, q, p)

DepthAt(m, side, p) ==
  IF p \in DOMAIN m.levels[side]
  THEN [qty |-> m.levels[side][p].total_qty, count |-> m.levels[side][p].count]
  ELSE [qty |-> 0, count |-> 0]

\* Mutant of PutLevel: empty levels stay in the book.
PutLevelAlways(m, side, p, l) == [m.levels EXCEPT ![side][p] = l]

\* best_price, an Option: the set of its value, or of none.
BestPrice(m, side) == {p \in DOMAIN m.levels[side] : IsBest(m, side, p)}

\* How far asks lie above bids, where they do.
Gaps(bids, asks) ==
  {pair[2] - pair[1] : pair \in {q \in bids \X asks : q[2] > q[1]}}

\* spread, an Option too.
Spread(m) == Gaps(BestPrice(m, "Bid"), BestPrice(m, "Ask"))

OrderCount(m) == Cardinality(DOMAIN m.order_map)

\* What becomes of a level after orders left it: a level that is empty is
\* taken out of the book, so that the best price is that of some order.
PutLevel(m, side, p, l) ==
  [m.levels EXCEPT ![side] =
     IF IsEmpty(l) THEN Delete(@, p) ELSE [@ EXCEPT ![p] = l]]

\* add_order, which returns false and does nothing for an id already there.
AddOrder(m, order, i) ==
  LET book == m.levels[order.side]
      level == IF order.price \in DOMAIN book THEN book[order.price] ELSE NewLevel
      pushed == PushBack(level, m.arena.nodes, i)
      info == [arena_index |-> i, side |-> order.side, price |-> order.price,
               user_id |-> order.user_id]
  IN  IF order.order_id \in DOMAIN m.order_map
      THEN m
      ELSE [arena |-> [m.arena EXCEPT !.nodes = pushed.nodes],
            levels |-> [m.levels EXCEPT
                          ![order.side] = Insert(@, order.price, pushed.level)],
            order_map |-> Insert(m.order_map, order.order_id, info)]

\* remove_order of an order that is in the map.
RemoveOrder(m, id) ==
  LET info == m.order_map[id]
      book == m.levels[info.side]
      found == info.price \in DOMAIN book
      removed == Remove(book[info.price], m.arena.nodes, info.arena_index)
  IN  [arena |-> IF found THEN [m.arena EXCEPT !.nodes = removed.nodes]
                 ELSE m.arena,
       levels |-> IF found THEN PutLevel(m, info.side, info.price, removed.level)
                  ELSE m.levels,
       order_map |-> Delete(m.order_map, id)]

-----------------------------------------------------------------------------
(* The types of the book, with counters of any size.                       *)

OrderInfo ==
  [arena_index : Index, side : Sides, price : Prices, user_id : UserIds]

BookArena ==
  ArenaType(Prices \cup {0}, U32, OrderIds \cup {0}, UserIds \cup {0})

LevelsType(levels) ==
  /\ levels = [side \in Sides |-> levels[side]]
  /\ \A side \in Sides :
       /\ DOMAIN levels[side] \subseteq Prices
       /\ levels[side] \in [DOMAIN levels[side] -> Level]

MapType(map) ==
  /\ DOMAIN map \subseteq OrderIds
  /\ map \in [DOMAIN map -> OrderInfo]

MatcherType(m) ==
  /\ m = [arena |-> m.arena, levels |-> m.levels, order_map |-> m.order_map]
  /\ m.arena \in BookArena
  /\ LevelsType(m.levels)
  /\ MapType(m.order_map)

-----------------------------------------------------------------------------
(* What it means for a matcher to be in order.                             *)

\* Every node of a level is the order that the map says is there.
LevelMapped(m, side, p) ==
  \A i \in Range(QueueOf(m.levels[side][p], m.arena.nodes)) :
    LET node == m.arena.nodes[i]
    IN  /\ node.qty > 0
        /\ node.price = p
        /\ node.order_id \in DOMAIN m.order_map
        /\ m.order_map[node.order_id] =
             [arena_index |-> i, side |-> side, price |-> p,
              user_id |-> node.user_id]

\* Every order of the map is in the level, and the node, where the map says.
MapSound(m) ==
  \A id \in DOMAIN m.order_map :
    LET info == m.order_map[id]
    IN  /\ info.price \in DOMAIN m.levels[info.side]
        /\ info.arena_index
             \in Range(QueueOf(m.levels[info.side][info.price], m.arena.nodes))
        /\ m.arena.nodes[info.arena_index].order_id = id

\* What an order is to its owner: the node but for its links and its price.
Entry(node) ==
  [order_id |-> node.order_id, user_id |-> node.user_id, qty |-> node.qty]

\* The orders of the book, by side and price, in queue order.
Queues(m) ==
  [side \in Sides |-> [p \in Prices |->
     IF p \notin DOMAIN m.levels[side] THEN <<>>
     ELSE LET q == QueueOf(m.levels[side][p], m.arena.nodes)
          IN  [k \in DOMAIN q |-> Entry(m.arena.nodes[q[k]])]]]

InUse(m) == {m.order_map[id].arena_index : id \in DOMAIN m.order_map}

\* The counters that the code updates without a check keep to their widths.
CountersFit(m) ==
  /\ m.arena.allocated_count \in U32
  /\ \A side \in Sides : \A p \in DOMAIN m.levels[side] :
       /\ m.levels[side][p].count \in U32
       /\ m.levels[side][p].total_qty \in 0 .. U64_MAX

\* Levels, order map and free list partition the arena and agree on it.
Consistent(m) ==
  /\ CountersFit(m)
  /\ \A side \in Sides : \A p \in DOMAIN m.levels[side] :
       LevelSound(m.levels[side][p], m.arena.nodes) /\ LevelMapped(m, side, p)
  /\ MapSound(m)
  /\ FreeListOf(m.arena, Index \ InUse(m))
  /\ m.arena.allocated_count = Cardinality(DOMAIN m.order_map)
=============================================================================
