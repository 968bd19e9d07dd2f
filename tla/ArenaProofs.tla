---------------------------- MODULE ArenaProofs ----------------------------
(***************************************************************************)
(* The invariants of ArenaClient, what the constructor of ArenaNew builds, *)
(* and both together (ArenaLife), for every capacity and word size.        *)
(***************************************************************************)
EXTENDS ArenaLife, LevelLemmas

\* Inductive: the types need the count to be exact (it must fit a u32), the
\* count needs the free list to be sound (alloc must hand out a free node).
IInv ==
  /\ TypeOK
  /\ FreeListSound
  /\ arena.allocated_count = Cardinality(held)

LEMMA InitIInv == Init => IInv
  <1> SUFFICES ASSUME Init PROVE IInv
    OBVIOUS
  <1>1. arena \in ArenaType({0}, {0}, {0}, {0}) /\ FreeListOf(arena, Index)
    BY NewArenaFreeList DEF Init
  <1>2. Index \ held = Index /\ Cardinality(held) = 0
    BY FS_EmptySet DEF Init
  <1> QED BY <1>1, <1>2, WordAssumption
          DEF Init, IInv, TypeOK, FreeListSound, NewArena, U32

LEMMA AllocNodeIInv == IInv /\ AllocNode => IInv'
  <1> SUFFICES ASSUME IInv, AllocNode PROVE IInv'
    OBVIOUS
  <1> DEFINE n == arena.free_head
             free == Index \ held
  <1>1. n \in free /\ FreeListOf(arena, free)
    BY FullIffNoneFree DEF IInv, FreeListSound, AllocNode
  <1>2. Cardinality(held') = arena.allocated_count + 1
    BY <1>1, SubsetOfIndex, FS_AddElement DEF IInv, TypeOK, AllocNode
  <1>3. held' \subseteq Index /\ Index \ held' = free \ {n}
    BY <1>1 DEF IInv, TypeOK, AllocNode
  <1>4. arena.allocated_count + 1 \in U32
    BY <1>2, <1>3, SubsetOfIndex
  <1>5. arena' \in ArenaType({0}, {0}, {0}, {0})
    BY AllocType DEF IInv, TypeOK, AllocNode
  <1>6. FreeListOf(arena', free \ {n})
    BY <1>1, AllocFreeList DEF IInv, TypeOK, AllocNode
  <1>7. arena'.allocated_count = arena.allocated_count + 1
    BY DEF AllocNode, Alloc
  <1> QED BY <1>2, <1>3, <1>4, <1>5, <1>6, <1>7 DEF IInv, TypeOK, FreeListSound

LEMMA FreeNodeIInv ==
  ASSUME NEW n \in held, IInv, FreeNode(n)
  PROVE  IInv'
  <1> DEFINE free == Index \ held
  <1>1. n \in Index \ free /\ FreeListOf(arena, free)
    BY DEF IInv, TypeOK, FreeListSound
  <1>2. Cardinality(held') = arena.allocated_count - 1
    BY SubsetOfIndex, FS_RemoveElement DEF IInv, TypeOK, FreeNode
  <1>3. held' \subseteq Index /\ Index \ held' = free \cup {n}
    BY <1>1 DEF IInv, TypeOK, FreeNode
  <1>4. arena.allocated_count - 1 \in U32
    BY <1>2, <1>3, SubsetOfIndex
  <1>5. arena' \in ArenaType({0}, {0}, {0}, {0})
    BY <1>1, FreeType DEF IInv, TypeOK, FreeNode
  <1>6. FreeListOf(arena', free \cup {n})
    BY <1>1, FreeFreeList DEF IInv, TypeOK, FreeNode
  <1>7. arena'.allocated_count = arena.allocated_count - 1
    BY DEF FreeNode, Free
  <1> QED BY <1>2, <1>3, <1>4, <1>5, <1>6, <1>7 DEF IInv, TypeOK, FreeListSound

LEMMA WriteLinksIInv ==
  ASSUME NEW n \in held, NEW succ \in Link, NEW pred \in Link,
         IInv, WriteLinks(n, succ, pred)
  PROVE  IInv'
  <1>1. arena' \in ArenaType({0}, {0}, {0}, {0})
    <2> DEFINE m == [arena.nodes[n] EXCEPT !.next = succ, !.prev = pred]
    <2>1. n \in Index /\ arena.nodes[n] \in NodeType({0}, {0}, {0}, {0})
      BY DEF IInv, TypeOK, ArenaType
    <2>2. m \in NodeType({0}, {0}, {0}, {0})
      BY <2>1 DEF NodeType
    <2>3. arena' = [arena EXCEPT !.nodes = [arena.nodes EXCEPT ![n] = m]]
      BY DEF IInv, TypeOK, WriteLinks, ArenaType
    <2> QED BY <2>1, <2>2, <2>3 DEF IInv, TypeOK, ArenaType
  <1>2. /\ arena'.free_head = arena.free_head
        /\ arena'.allocated_count = arena.allocated_count
        /\ \A j \in Index \ held : arena'.nodes[j].next = arena.nodes[j].next
    BY DEF IInv, TypeOK, WriteLinks, ArenaType, NodeType
  <1>3. FreeListOf(arena', Index \ held)
    BY <1>2, WriteFreeList DEF IInv, FreeListSound
  <1> QED BY <1>1, <1>2, <1>3
          DEF IInv, TypeOK, FreeListSound, WriteLinks

LEMMA StepIInv == IInv /\ [Next]_vars => IInv'
  <1> SUFFICES ASSUME IInv, [Next]_vars PROVE IInv'
    OBVIOUS
  <1>1. CASE AllocNode
    BY <1>1, AllocNodeIInv
  <1>2. ASSUME NEW n \in held, FreeNode(n) PROVE IInv'
    BY <1>2, FreeNodeIInv
  <1>3. ASSUME NEW n \in held, NEW succ \in Link, NEW pred \in Link,
               WriteLinks(n, succ, pred)
        PROVE  IInv'
    BY <1>3, WriteLinksIInv
  <1>4. CASE UNCHANGED vars
    BY <1>4 DEF IInv, TypeOK, FreeListSound, vars
  <1> QED BY <1>1, <1>2, <1>3, <1>4 DEF Next

\* IInv holds throughout.
LEMMA IInvAlways == Spec => []IInv
  BY InitIInv, StepIInv, PTL DEF Spec

-----------------------------------------------------------------------------

\* Every field of the arena stays in its type: allocated_count, which alloc
\* and free change without a check, never leaves u32, and links are indices.
THEOREM ArenaTypes == Spec => []TypeOK
  <1>1. IInv => TypeOK
    BY DEF IInv
  <1> QED BY <1>1, IInvAlways, PTL

\* alloc never hands out a node that is in use and free never loses one.
THEOREM ArenaFreeList == Spec => []FreeListSound
  <1>1. IInv => FreeListSound
    BY DEF IInv
  <1> QED BY <1>1, IInvAlways, PTL

LEMMA CountIsExact == IInv => CountExact
  <1> SUFFICES ASSUME IInv PROVE CountExact
    OBVIOUS
  <1>1. IsFull(arena) <=> Index \ held = {}
    BY FullIffNoneFree DEF IInv, FreeListSound
  <1>2. IsFull(arena) <=> held = Index
    BY <1>1 DEF IInv, TypeOK
  <1> QED BY <1>2 DEF IInv, CountExact

\* "Arena full" means that Capacity nodes are in use, neither less nor more.
THEOREM ArenaCount == Spec => []CountExact
  BY CountIsExact, IInvAlways, PTL

-----------------------------------------------------------------------------
(* Arena::new, step by step.                                                *)

LEMMA SmallModulo ==
  ASSUME NEW x \in Nat, NEW n \in Nat, x <= n
  PROVE  x % (n + 1) = x
  OBVIOUS

LEMMA WrapsAround ==
  ASSUME NEW n \in Nat \ {0}
  PROVE  (0 - 1) % (n + 1) \in Nat /\ (0 - 1) % (n + 1) > 0
  OBVIOUS

\* While the free list is threaded, the nodes before i are linked to the next
\* one.  A capacity of zero does not get past the loop.
Threaded ==
  /\ capacity \in U32
  /\ pc \in {"start", "loop", "done", "panicked"}
  /\ pc = "start" => i = 0
  /\ pc = "loop" =>
       /\ capacity = 0 => i = 0 /\ DOMAIN next = {}
       /\ capacity > 0 => i \in 0 .. capacity - 1
       /\ next = [k \in 0 .. capacity - 1 |->
                   IF k < i THEN k + 1 ELSE NULL_INDEX]
  /\ pc = "done" =>
       /\ capacity > 0
       /\ free_head = 0
       /\ next = [k \in 0 .. capacity - 1 |->
                   IF k = capacity - 1 THEN NULL_INDEX ELSE k + 1]

LEMMA LoopEndIs ==
  ASSUME capacity \in U32
  PROVE  /\ capacity > 0 => LoopEnd = capacity - 1
         /\ capacity = 0 => LoopEnd \in Nat /\ LoopEnd > 0
  <1>1. capacity \in Nat /\ U32_MAX \in Nat \ {0} /\ capacity <= U32_MAX
    BY WordAssumption DEF U32
  <1>2. CASE capacity > 0
    <2> DEFINE x == capacity - 1
    <2>1. x \in Nat /\ x <= U32_MAX
      BY <1>1, <1>2
    <2> HIDE DEF x
    <2>2. x % (U32_MAX + 1) = x
      BY <1>1, <2>1, SmallModulo
    <2> QED BY <1>2, <2>2 DEF LoopEnd, x
  <1>3. CASE capacity = 0
    BY <1>1, <1>3, WrapsAround DEF LoopEnd
  <1> QED BY <1>1, <1>2, <1>3

LEMMA InitThreaded == NewInit => Threaded
  BY DEF NewInit, U32, Threaded

LEMMA StepThreaded == Threaded /\ [NewNext]_newVars => Threaded'
  <1> SUFFICES ASSUME Threaded, [NewNext]_newVars PROVE Threaded'
    OBVIOUS
  <1>1. U32_MAX \in Nat \ {0} /\ NULL_INDEX = U32_MAX
        /\ Block!NULL_INDEX = U32_MAX
        /\ capacity \in Nat /\ capacity \in U32
    BY WordAssumption DEF NULL_INDEX, Block!NULL_INDEX, Threaded, U32
  <1>2. CASE Start
    BY <1>1, <1>2 DEF Start, Threaded
  <1>3. CASE Thread
    BY <1>1, <1>3, LoopEndIs DEF Thread, Threaded
  <1>4. CASE Finish
    <2>1. pc = "loop" /\ i >= LoopEnd /\ pc' = "done"
          /\ UNCHANGED capacity
      BY <1>4 DEF Finish
    <2>2. capacity > 0
      BY <1>1, <2>1, LoopEndIs DEF Threaded
    <2>3. /\ i = capacity - 1
          /\ next = [k \in 0 .. capacity - 1 |->
                           IF k < i THEN k + 1 ELSE NULL_INDEX]
      BY <1>1, <2>1, <2>2, LoopEndIs DEF Threaded
    <2>4. /\ next' = [next EXCEPT ![capacity - 1] = NULL_INDEX]
          /\ free_head' = 0
      BY <1>1, <1>4, <2>2 DEF Finish
    <2>5. next' = [k \in 0 .. capacity - 1 |->
                         IF k = capacity - 1 THEN NULL_INDEX ELSE k + 1]
      BY <1>1, <2>2, <2>3, <2>4
    <2> QED BY <1>1, <2>1, <2>2, <2>4, <2>5 DEF Threaded
  <1>5. CASE UNCHANGED newVars
    BY <1>5 DEF newVars, Threaded
  <1> QED BY <1>2, <1>3, <1>4, <1>5 DEF NewNext

LEMMA ThreadedBuilds == Threaded => BuildsNewArena
  <1> SUFFICES ASSUME Threaded, pc = "done" PROVE BuildsNewArena
    BY DEF BuildsNewArena
  <1> QED BY DEF Threaded, BuildsNewArena, Block!NewArena, Block!EmptyNode,
                 Block!Index, Block!NULL_INDEX, NULL_INDEX

\* Arena::new, if it returns, has threaded the free list through all nodes in
\* index order: it has built the NewArena that Arena.tla starts from.
THEOREM ArenaNewBuilds == NewSpec => []BuildsNewArena
  BY ThreadedBuilds, InitThreaded, StepThreaded, PTL DEF NewSpec

-----------------------------------------------------------------------------

LEMMA LifeStep ==
  [LifeNext]_<<vars, newVars>> => [Next]_vars /\ [NewNext]_newVars
  BY DEF LifeNext, Construct, Use

\* From the call of Arena::new on: what it returns is the arena the client
\* starts from, and that arena keeps its free list and its count.
THEOREM ArenaLifeSound ==
  LifeSpec => [](TypeOK /\ FreeListSound /\ CountExact /\ BuildsNewArena)
  <1>1. LifeInit => IInv /\ Threaded
    BY InitIInv, InitThreaded DEF LifeInit
  <1>2. IInv /\ Threaded /\ [LifeNext]_<<vars, newVars>> => IInv' /\ Threaded'
    BY LifeStep, StepIInv, StepThreaded
  <1>3. IInv /\ Threaded
          => TypeOK /\ FreeListSound /\ CountExact /\ BuildsNewArena
    BY CountIsExact, ThreadedBuilds DEF IInv
  <1> QED BY <1>1, <1>2, <1>3, PTL DEF LifeSpec
=============================================================================
