---------------------------- MODULE LevelProofs ----------------------------
(***************************************************************************)
(* A price level is a queue, for every capacity and every client, and its  *)
(* cached count and total are those of the queue: LinksSound and           *)
(* TotalExact of LevelClient.                                              *)
(***************************************************************************)
EXTENDS LevelClient, LevelLemmas

\* The level holds the queue that it stands for.
IInv == level \in Level /\ IsBlock(nodes) /\ Holds(level, nodes, queue)

-----------------------------------------------------------------------------

\* Seqs!RemoveAt, element by element.
LEMMA RemoveAtElements ==
  ASSUME NEW S, NEW q \in Seq(S), NEW k \in 1 .. Len(q)
  PROVE  /\ Seqs!RemoveAt(q, k) \in Seq(S)
         /\ Len(Seqs!RemoveAt(q, k)) = Len(q) - 1
         /\ \A j \in 1 .. Len(q) - 1 :
              Seqs!RemoveAt(q, k)[j] = IF j < k THEN q[j] ELSE q[j + 1]
  <1> DEFINE before == SubSeq(q, 1, k - 1)
             after == SubSeq(q, k + 1, Len(q))
  <1>1. Len(q) \in Nat /\ \A j \in 1 .. Len(q) : q[j] \in S
    BY LenProperties, ElementOfSeq
  <1>2. /\ before \in Seq(S) /\ Len(before) = k - 1
        /\ \A j \in 1 .. k - 1 : before[j] = q[j]
    <2>1. \A j \in 1 .. k - 1 : q[j] \in S
      BY <1>1
    <2>2. k - 1 \in Int /\ (k - 1) - 1 + 1 = k - 1
      BY <1>1
    <2> QED BY <1>1, <2>1, <2>2, SubSeqProperties
  <1>3. /\ after \in Seq(S) /\ Len(after) = Len(q) - k
        /\ \A j \in 1 .. Len(q) - k : after[j] = q[k + j]
    <2>1. \A j \in k + 1 .. Len(q) : q[j] \in S
      BY <1>1
    <2>2. \A j \in 1 .. Len(q) - (k + 1) + 1 : after[j] = q[(k + 1) + j - 1]
      BY <1>1, <2>1, SubSeqProperties
    <2>3. /\ after \in Seq(S)
          /\ Len(after) = IF k + 1 <= Len(q) THEN Len(q) - (k + 1) + 1 ELSE 0
      BY <1>1, <2>1, SubSeqProperties
    <2> QED BY <1>1, <2>2, <2>3
  <1>4. /\ before \o after \in Seq(S)
        /\ Len(before \o after) = Len(before) + Len(after)
        /\ \A j \in 1 .. Len(before) + Len(after) :
             (before \o after)[j] =
               IF j <= Len(before) THEN before[j] ELSE after[j - Len(before)]
    BY <1>2, <1>3, ConcatProperties, Zenon
  <1>5. Seqs!RemoveAt(q, k) = before \o after
    BY DEF Seqs!RemoveAt
  <1> HIDE DEF before, after
  <1>6. ASSUME NEW j \in 1 .. Len(q) - 1
        PROVE  (before \o after)[j] = IF j < k THEN q[j] ELSE q[j + 1]
    <2>1. CASE j < k
      <3>1. j \in 1 .. k - 1 /\ j <= Len(before) /\ j \in 1 .. Len(before) + Len(after)
        BY <1>1, <1>2, <1>3, <2>1
      <3> QED BY <1>2, <1>4, <2>1, <3>1
    <2>2. CASE ~(j < k)
      <3>1. /\ ~(j <= Len(before))
            /\ j \in 1 .. Len(before) + Len(after)
            /\ j - Len(before) \in 1 .. Len(q) - k
            /\ k + (j - Len(before)) = j + 1
        BY <1>1, <1>2, <1>3, <2>2
      <3> QED BY <1>3, <1>4, <2>2, <3>1, Zenon
    <2> QED BY <2>1, <2>2, Zenon
  <1>7. Len(before \o after) = Len(q) - 1
    BY <1>1, <1>2, <1>3, <1>4
  <1> QED BY <1>4, <1>5, <1>6, <1>7

LEMMA RemoveAtIsWithout ==
  ASSUME NEW S, NEW q \in Seq(S), NEW k \in 1 .. Len(q)
  PROVE  Seqs!RemoveAt(q, k) = Without(q, k)
  <1> DEFINE m == Seqs!RemoveAt(q, k)
             n == Len(q) - 1
  <1>1. m \in Seq(S) /\ Len(m) = n
        /\ \A j \in 1 .. n : m[j] = IF j < k THEN q[j] ELSE q[j + 1]
    BY RemoveAtElements
  <1> HIDE DEF m
  <1>2. m = [j \in 1 .. n |-> m[j]]
    BY <1>1, LenProperties
  <1>3. m = [j \in 1 .. n |-> IF j < k THEN q[j] ELSE q[j + 1]]
    BY <1>1, <1>2
  <1> QED BY <1>3 DEF m, Without

LEMMA TailIsWithout ==
  ASSUME NEW S, NEW q \in Seq(S), 1 \in 1 .. Len(q)
  PROVE  Tail(q) = Without(q, 1)
  <1> DEFINE n == Len(q) - 1
  <1>1. Len(q) \in Nat /\ q # <<>>
    BY LenProperties, EmptySeq
  <1>2. Tail(q) \in Seq(S) /\ Len(Tail(q)) = n
        /\ \A j \in 1 .. n : Tail(q)[j] = q[j + 1]
    BY <1>1, HeadTailProperties
  <1>3. Tail(q) = [j \in 1 .. n |-> Tail(q)[j]]
    BY <1>2, LenProperties, Zenon
  <1>4. \A j \in 1 .. n : (IF j < 1 THEN q[j] ELSE q[j + 1]) = q[j + 1]
    OBVIOUS
  <1>5. Without(q, 1) = [j \in 1 .. n |-> q[j + 1]]
    BY <1>4 DEF Without
  <1> QED BY <1>2, <1>3, <1>5

-----------------------------------------------------------------------------

LEMMA QueuedIsRange == queue \in Seq(Index) => Queued = Range(queue)
  BY DEF Queued, Range

LEMMA InitHolds == Init => IInv
  <1> SUFFICES ASSUME Init PROVE IInv
    OBVIOUS
  <1>1. PICK n, p \in Link :
          nodes = [i \in Index |-> [EmptyNode EXCEPT !.next = n, !.prev = p]]
    BY Zenon DEF Init
  <1>2. [EmptyNode EXCEPT !.next = n, !.prev = p] \in NodeType({0}, Int, {0}, {0})
    <2> DEFINE N == NodeType({0}, Int, {0}, {0})
    <2>1. EmptyNode \in N
      BY DEF EmptyNode, NodeType, Link
    <2>2. \A x \in N : [x EXCEPT !.next = n, !.prev = p] \in N
      BY Zenon DEF NodeType
    <2> QED BY <2>1, <2>2, Zenon
  <1>3. IsBlock(nodes)
    BY <1>1, <1>2 DEF IsBlock
  <1>4. level = NewLevel /\ queue = <<>>
    BY DEF Init
  <1> QED BY <1>3, <1>4, NewLevelHolds DEF IInv

LEMMA PushIInv ==
  ASSUME IInv, NEW i \in Index, NEW qty \in Qtys, Push(i, qty)
  PROVE  IInv'
  <1> DEFINE ns == [nodes EXCEPT ![i].qty = qty]
             r == PushBack(level, ns, i)
  <1>1. level \in Level /\ IsBlock(nodes) /\ Holds(level, nodes, queue)
    BY DEF IInv
  <1>2. qty \in Int
    BY LevelAssumption, WordAssumption DEF U32
  <1>3. IsBlock(ns) /\ \A j \in Index \ {i} : ns[j] = nodes[j]
    BY <1>1, <1>2, QtyBlock
  <1>4. queue \in Seq(Index)
    BY <1>1 DEF Holds
  <1>5. i \notin Range(queue) /\ Range(queue) \subseteq Index
    BY <1>4, QueuedIsRange, RangeOfQueue DEF Push
  <1>6. level' = r.level /\ nodes' = r.nodes /\ queue' = Append(queue, i)
    BY DEF Push
  <1> HIDE DEF ns
  <1>7. Holds(level, ns, queue)
    BY <1>1, <1>3, <1>5, WriteHolds
  <1>8. IsBlock(r.nodes) /\ r.level \in Level
        /\ Holds(r.level, r.nodes, Append(queue, i))
    BY <1>1, <1>3, <1>5, <1>7, PushHolds, Zenon
  <1> HIDE DEF r
  <1> QED BY <1>6, <1>8 DEF IInv

\* What both ways of taking an order out come to.
LEMMA RemovedIInv ==
  ASSUME IInv, NEW k \in 1 .. Len(queue),
         level' = Remove(level, nodes, queue[k]).level,
         nodes' = Remove(level, nodes, queue[k]).nodes,
         queue' = Without(queue, k)
  PROVE  IInv'
  <1> DEFINE r == Remove(level, nodes, queue[k])
  <1>1. level \in Level /\ IsBlock(nodes) /\ Holds(level, nodes, queue)
    BY DEF IInv
  <1>2. IsBlock(r.nodes) /\ r.level \in Level
        /\ Holds(r.level, r.nodes, Without(queue, k))
    BY <1>1, RemoveHolds
  <1>3. level' = r.level /\ nodes' = r.nodes
    OBVIOUS
  <1> HIDE DEF r
  <1> QED BY <1>2, <1>3 DEF IInv

LEMMA PopIInv ==
  ASSUME IInv, Pop
  PROVE  IInv'
  <1>1. IsBlock(nodes) /\ queue \in Seq(Index) /\ Linked(level, nodes, queue)
    BY DEF IInv, Holds
  <1>2. /\ level.head # NULL_INDEX /\ queue' = Tail(queue)
        /\ level' = PopFront(level, nodes).level
        /\ nodes' = PopFront(level, nodes).nodes
    BY DEF Pop
  <1>3. 1 \in 1 .. Len(queue)
        /\ PopFront(level, nodes) = Remove(level, nodes, queue[1])
    BY <1>1, <1>2, PopIsRemove
  <1>4. queue' = Without(queue, 1)
    BY <1>1, <1>2, <1>3, TailIsWithout
  <1>5. /\ level' = Remove(level, nodes, queue[1]).level
        /\ nodes' = Remove(level, nodes, queue[1]).nodes
    BY <1>2, <1>3
  <1> QED BY <1>3, <1>4, <1>5, RemovedIInv

LEMMA RemoveAnyIInv ==
  ASSUME IInv, NEW k \in DOMAIN queue, RemoveAny(k)
  PROVE  IInv'
  <1>1. queue \in Seq(Index)
    BY DEF IInv, Holds
  <1>2. k \in 1 .. Len(queue)
    BY <1>1, RangeOfQueue
  <1>3. /\ level' = Remove(level, nodes, queue[k]).level
        /\ nodes' = Remove(level, nodes, queue[k]).nodes
        /\ queue' = Seqs!RemoveAt(queue, k)
    BY DEF RemoveAny
  <1>4. queue' = Without(queue, k)
    BY <1>1, <1>2, <1>3, RemoveAtIsWithout
  <1> QED BY <1>2, <1>3, <1>4, RemovedIInv

LEMMA ReduceIInv ==
  ASSUME IInv, NEW k \in DOMAIN queue, NEW qty \in Qtys, Reduce(k, qty)
  PROVE  IInv'
  <1> DEFINE i == queue[k]
             ns == [nodes EXCEPT ![i].qty = nodes[i].qty - qty]
             s == SubtractQty(level, qty)
  <1>1. level \in Level /\ IsBlock(nodes) /\ Holds(level, nodes, queue)
    BY DEF IInv
  <1>2. i \in Range(queue)
    BY DEF Range
  <1>3. queue \in Seq(Index) /\ i \in Index
    BY <1>1, <1>2, RangeOfQueue DEF Holds
  <1>4. qty \in Int /\ nodes[i].qty \in Int
    BY <1>1, <1>3, BlockFields, LevelAssumption, WordAssumption DEF U32
  <1>5. nodes' = ns /\ level' = s /\ queue' = queue
    BY DEF Reduce
  <1>6. nodes[i].qty - qty \in Int
    BY <1>4
  <1>7. IsBlock(ns)
    <2> DEFINE x == nodes[i].qty - qty
    <2>1. x \in Int
      BY <1>6
    <2> HIDE DEF x, i
    <2>2. IsBlock([nodes EXCEPT ![i].qty = x])
      BY <1>1, <1>3, <2>1, QtyBlock
    <2> QED BY <2>2 DEF x
  <1> HIDE DEF i
  <1>8. Holds(s, ns, queue) /\ s \in Level
    BY <1>1, <1>2, <1>4, ReduceHolds
  <1> HIDE DEF ns, s
  <1> QED BY <1>5, <1>7, <1>8 DEF IInv

LEMMA NextIInv == IInv /\ [Next]_vars => IInv'
  <1> SUFFICES ASSUME IInv, [Next]_vars PROVE IInv'
    OBVIOUS
  <1>1. CASE Clear
    <2>1. level' = NewLevel /\ queue' = <<>> /\ nodes' = nodes
      BY <1>1 DEF Clear
    <2>2. Holds(level', nodes', queue') /\ level' \in Level
      BY <2>1, NewLevelHolds
    <2>3. IsBlock(nodes')
      BY <2>1 DEF IInv
    <2> QED BY <2>2, <2>3 DEF IInv
  <1>2. CASE UNCHANGED vars
    BY <1>2 DEF vars, IInv
  <1>3. ASSUME NEW i \in Index, NEW qty \in Qtys, Push(i, qty) PROVE IInv'
    BY <1>3, PushIInv
  <1>4. ASSUME NEW k \in DOMAIN queue, RemoveAny(k) PROVE IInv'
    BY <1>4, RemoveAnyIInv
  <1>5. ASSUME NEW k \in DOMAIN queue, NEW qty \in Qtys, Reduce(k, qty) PROVE IInv'
    BY <1>5, ReduceIInv
  <1> QED BY <1>1, <1>2, <1>3, <1>4, <1>5, PopIInv DEF Next

\* For every capacity and every client that keeps to the contract: the links of
\* a level are those of a queue, in both directions, whatever is pushed, popped
\* and removed (src/price_level.rs:51-169).
THEOREM LevelLinksSound == Spec => []LinksSound
  <1>1. IInv => LinksSound
    BY DEF IInv, Holds, Linked, LinksSound
  <1> QED BY <1>1, InitHolds, NextIInv, PTL DEF Spec

\* The same of the cached total: it is the sum of the quantities of exactly the
\* nodes in the queue, after any pushes, removals and partial fills.
THEOREM LevelTotalExact == Spec => []TotalExact
  <1>1. IInv => TotalExact
    <2> SUFFICES ASSUME IInv PROVE TotalExact
      OBVIOUS
    <2>1. queue \in Seq(Index) /\ level.total_qty = TotalQty(nodes, Range(queue))
      BY DEF IInv, Holds
    <2> QED BY <2>1, QueuedIsRange DEF TotalExact
  <1> QED BY <1>1, InitHolds, NextIInv, PTL DEF Spec
=============================================================================
