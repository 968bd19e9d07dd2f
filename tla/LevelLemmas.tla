----------------------------- MODULE LevelLemmas -----------------------------
(***************************************************************************)
(* The lemmas about the arena and the price levels, for every arena, every *)
(* block of nodes and every queue: what alloc and free do to the type of   *)
(* the arena and to its free list, and what each operation of PriceLevel   *)
(* makes of a level that holds a queue.  The cached total of a level is a  *)
(* sum, so there are also the facts about sums, by induction in the form   *)
(* that takes a set and not a predicate.                                   *)
(***************************************************************************)
EXTENDS PriceLevel, FiniteSetTheorems, SequenceTheorems, TLAPS

-----------------------------------------------------------------------------
(* The arena.                                                               *)

\* NULL_INDEX is not an index.
LEMMA NullIndex ==
  /\ NULL_INDEX \in Nat
  /\ NULL_INDEX \notin Index
  /\ Index \subseteq Nat
  /\ 0 \in Index
  BY WordAssumption, CapacityAssumption DEF NULL_INDEX, Index

\* The index set is finite with Capacity elements, so any set of held nodes
\* has a cardinality that fits the u32 field allocated_count.
LEMMA IndexFinite ==
  /\ IsFiniteSet(Index)
  /\ Cardinality(Index) = Capacity
  <1>1. 0 \in Int /\ Capacity - 1 \in Int
    BY CapacityAssumption
  <1>2. IsFiniteSet(0 .. Capacity - 1)
    BY <1>1, FS_Interval
  <1>3. Cardinality(0 .. Capacity - 1) =
          IF 0 > Capacity - 1 THEN 0 ELSE (Capacity - 1) - 0 + 1
    BY <1>1, FS_Interval
  <1>4. Cardinality(0 .. Capacity - 1) = Capacity
    BY <1>3, CapacityAssumption
  <1> QED BY <1>2, <1>4 DEF Index

LEMMA SubsetOfIndex ==
  ASSUME NEW S, S \subseteq Index
  PROVE  /\ IsFiniteSet(S)
         /\ Cardinality(S) \in Nat
         /\ Cardinality(S) <= Capacity
         /\ Cardinality(S) \in U32
  <1>1. IsFiniteSet(S) /\ Cardinality(S) <= Cardinality(Index)
    BY IndexFinite, FS_Subset
  <1>2. Cardinality(S) \in Nat
    BY <1>1, FS_CardinalityType
  <1> QED BY <1>1, <1>2, IndexFinite, CapacityAssumption, WordAssumption DEF U32

\* When the free list is sound, is_full says that there is no free node, and
\* alloc would hand out a free one otherwise.
LEMMA FullIffNoneFree ==
  ASSUME NEW a, NEW S, S \subseteq Index, FreeListOf(a, S)
  PROVE  /\ IsFull(a) <=> S = {}
         /\ ~IsFull(a) => a.free_head \in S
  <1>1. PICK s \in [1 .. Cardinality(S) -> S] : FreeList(a, s)
    BY DEF FreeListOf
  <1>2. Cardinality(S) \in Nat /\ (Cardinality(S) = 0 <=> S = {})
    BY SubsetOfIndex, FS_EmptySet
  <1>3. CASE S = {}
    <2>1. 1 .. Cardinality(S) = {}
      BY <1>2, <1>3
    <2> QED BY <1>1, <1>3, <2>1 DEF FreeList, IsFull
  <1>4. CASE S # {}
    <2>1. 1 \in 1 .. Cardinality(S)
      BY <1>2, <1>4
    <2>2. a.free_head = s[1] /\ s[1] \in S
      BY <1>1, <2>1 DEF FreeList
    <2> QED BY <1>4, <2>2, NullIndex DEF IsFull
  <1> QED BY <1>3, <1>4

-----------------------------------------------------------------------------

LEMMA AllocType ==
  ASSUME NEW P, NEW Q, NEW O, NEW U, NEW a \in ArenaType(P, Q, O, U),
         ~IsFull(a)
  PROVE  /\ Alloc(a) \in ArenaType(P, Q, O, U)
         /\ Alloc(a).nodes[a.free_head].next = NULL_INDEX
         /\ Alloc(a).nodes[a.free_head].prev = NULL_INDEX
         /\ \A i \in Index \ {a.free_head} : Alloc(a).nodes[i] = a.nodes[i]
  BY DEF ArenaType, NodeType, Alloc, Link, IsFull

\* alloc takes the first node off the free list.
LEMMA AllocFreeList ==
  ASSUME NEW P, NEW Q, NEW O, NEW U, NEW a \in ArenaType(P, Q, O, U),
         NEW S, S \subseteq Index, FreeListOf(a, S), ~IsFull(a)
  PROVE  FreeListOf(Alloc(a), S \ {a.free_head})
  <1> DEFINE i == a.free_head
             n == Cardinality(S)
  <1>1. PICK s \in [1 .. n -> S] : FreeList(a, s)
    BY DEF FreeListOf
  <1>2. i \in S /\ i \in Index
    BY FullIffNoneFree
  <1>3. IsFiniteSet(S) /\ n \in Nat
    BY SubsetOfIndex
  <1>4. Cardinality(S \ {i}) = n - 1
    BY <1>2, <1>3, FS_RemoveElement
  <1>5. n >= 1 /\ s[1] = i
    <2>1. n # 0
      BY <1>2, <1>3, FS_EmptySet
    <2> QED BY <1>1, <1>3, <2>1 DEF FreeList
  <1> DEFINE t == [k \in 1 .. n - 1 |-> s[k + 1]]
  <1>6. \A k \in 1 .. n - 1 : k \in 1 .. n /\ k + 1 \in 1 .. n /\ k + 1 # 1
    BY <1>3
  <1>7. t \in [1 .. n - 1 -> S \ {i}]
    BY <1>1, <1>5, <1>6, <1>3 DEF FreeList
  <1>8. FreeList(Alloc(a), t)
    <2>1. \A j, k \in DOMAIN t : t[j] = t[k] => j = k
      BY <1>1, <1>6, <1>3 DEF FreeList
    <2>2. Alloc(a).free_head = IF DOMAIN t = {} THEN NULL_INDEX ELSE t[1]
      <3>1. Alloc(a).free_head = a.nodes[s[1]].next
        BY <1>5 DEF Alloc
      <3>2. a.nodes[s[1]].next = IF 2 \in 1 .. n THEN s[2] ELSE NULL_INDEX
        BY <1>1, <1>5, <1>3 DEF FreeList
      <3>3. 2 \in 1 .. n <=> 1 \in 1 .. n - 1
        BY <1>3
      <3>4. DOMAIN t = {} <=> 1 \notin 1 .. n - 1
        BY <1>3
      <3> QED BY <3>1, <3>2, <3>3, <3>4
    <2>3. ASSUME NEW k \in DOMAIN t
          PROVE  Alloc(a).nodes[t[k]].next =
                   IF k + 1 \in DOMAIN t THEN t[k + 1] ELSE NULL_INDEX
      <3>1. t[k] \in Index \ {i} /\ t[k] = s[k + 1] /\ k + 1 \in 1 .. n
        BY <1>6, <1>7
      <3>2. Alloc(a).nodes[t[k]].next = a.nodes[t[k]].next
        BY <3>1 DEF Alloc, ArenaType
      <3>3. a.nodes[s[k + 1]].next =
              IF (k + 1) + 1 \in 1 .. n THEN s[(k + 1) + 1] ELSE NULL_INDEX
        BY <1>1, <3>1 DEF FreeList
      <3>4. (k + 1) + 1 \in 1 .. n <=> k + 1 \in 1 .. n - 1
        BY <1>3
      <3> QED BY <3>1, <3>2, <3>3, <3>4
    <2> QED BY <2>1, <2>2, <2>3 DEF FreeList
  <1> QED BY <1>4, <1>7, <1>8 DEF FreeListOf

-----------------------------------------------------------------------------

LEMMA FreeType ==
  ASSUME NEW P, NEW Q, NEW O, NEW U, 0 \in P, 0 \in Q, 0 \in O, 0 \in U,
         NEW a \in ArenaType(P, Q, O, U), NEW i \in Index
  PROVE  /\ Free(a, i) \in ArenaType(P, Q, O, U)
         /\ \A j \in Index \ {i} : Free(a, i).nodes[j] = a.nodes[j]
  BY DEF ArenaType, NodeType, Free, EmptyNode, Link

\* free puts a node that is not on the free list in front of it.
LEMMA FreeFreeList ==
  ASSUME NEW P, NEW Q, NEW O, NEW U, NEW a \in ArenaType(P, Q, O, U),
         NEW S, S \subseteq Index, FreeListOf(a, S),
         NEW i \in Index \ S
  PROVE  FreeListOf(Free(a, i), S \cup {i})
  <1> DEFINE n == Cardinality(S)
  <1>1. PICK s \in [1 .. n -> S] : FreeList(a, s)
    BY DEF FreeListOf
  <1>2. IsFiniteSet(S) /\ n \in Nat
    BY SubsetOfIndex
  <1>3. Cardinality(S \cup {i}) = n + 1
    BY <1>2, FS_AddElement
  <1> DEFINE t == [k \in 1 .. n + 1 |-> IF k = 1 THEN i ELSE s[k - 1]]
  <1>4. \A k \in 1 .. n + 1 : k # 1 => k - 1 \in 1 .. n
    BY <1>2
  <1>5. t \in [1 .. n + 1 -> S \cup {i}]
    BY <1>1, <1>4
  <1>6. FreeList(Free(a, i), t)
    <2>1. \A j, k \in DOMAIN t : t[j] = t[k] => j = k
      BY <1>1, <1>2, <1>4 DEF FreeList
    <2>2. Free(a, i).free_head = IF DOMAIN t = {} THEN NULL_INDEX ELSE t[1]
      BY <1>2 DEF Free
    <2>3. ASSUME NEW k \in DOMAIN t
          PROVE  Free(a, i).nodes[t[k]].next =
                   IF k + 1 \in DOMAIN t THEN t[k + 1] ELSE NULL_INDEX
      <3>1. CASE k = 1
        <4>1. Free(a, i).nodes[t[k]].next = a.free_head
          BY <3>1 DEF Free, ArenaType, EmptyNode
        <4>2. a.free_head = IF 1 \in 1 .. n THEN s[1] ELSE NULL_INDEX
          BY <1>1, <1>2 DEF FreeList
        <4>3. 2 \in DOMAIN t <=> 1 \in 1 .. n
          BY <1>2
        <4> QED BY <3>1, <4>1, <4>2, <4>3
      <3>2. CASE k # 1
        <4>1. t[k] = s[k - 1] /\ k - 1 \in 1 .. n /\ t[k] \in Index \ {i}
          BY <1>1, <1>4, <3>2
        <4>2. Free(a, i).nodes[t[k]].next = a.nodes[t[k]].next
          BY <4>1 DEF Free, ArenaType
        <4>3. a.nodes[s[k - 1]].next =
                IF (k - 1) + 1 \in 1 .. n THEN s[(k - 1) + 1] ELSE NULL_INDEX
          BY <1>1, <4>1 DEF FreeList
        <4>4. (k - 1) + 1 = k /\ (k \in 1 .. n <=> k + 1 \in DOMAIN t)
          BY <1>2
        <4>5. k + 1 \in DOMAIN t => t[k + 1] = s[k]
          BY <1>2
        <4> QED BY <4>1, <4>2, <4>3, <4>4, <4>5
      <3> QED BY <3>1, <3>2
    <2> QED BY <2>1, <2>2, <2>3 DEF FreeList
  <1> QED BY <1>3, <1>5, <1>6 DEF FreeListOf

-----------------------------------------------------------------------------

\* Writing to nodes that are not free leaves the free list alone.
LEMMA WriteFreeList ==
  ASSUME NEW a, NEW b, NEW S, FreeListOf(a, S),
         b.free_head = a.free_head,
         \A i \in S : b.nodes[i].next = a.nodes[i].next
  PROVE  FreeListOf(b, S)
  BY ZenonT(40) DEF FreeListOf, FreeList

\* The free list of a new arena is the whole block, in index order.
LEMMA NewArenaFreeList ==
  ASSUME NEW P, NEW Q, NEW O, NEW U, 0 \in P, 0 \in Q, 0 \in O, 0 \in U
  PROVE  /\ NewArena \in ArenaType(P, Q, O, U)
         /\ FreeListOf(NewArena, Index)
  <1> DEFINE s == [k \in 1 .. Capacity |-> k - 1]
  <1>1. NewArena \in ArenaType(P, Q, O, U)
    <2>1. ASSUME NEW i \in Index
          PROVE  (IF i = Capacity - 1 THEN NULL_INDEX ELSE i + 1) \in Link
      BY CapacityAssumption DEF Link, Index
    <2>2. NewArena.nodes \in [Index -> NodeType(P, Q, O, U)]
      BY <2>1 DEF NewArena, NodeType, EmptyNode, Link
    <2>3. 0 \in Link
      BY NullIndex DEF Link
    <2> QED BY <2>2, <2>3 DEF NewArena, ArenaType
  <1>2. s \in [1 .. Cardinality(Index) -> Index]
    BY IndexFinite, CapacityAssumption DEF Index
  <1>3. FreeList(NewArena, s)
    BY CapacityAssumption DEF FreeList, NewArena, EmptyNode, Index
  <1> QED BY <1>1, <1>2, <1>3 DEF FreeListOf

-----------------------------------------------------------------------------
(* Induction over numbers and finite sets.                                  *)

\* A set of numbers that holds 0, and with a number the next, holds all.
LEMMA NatInduct ==
  ASSUME NEW P, 0 \in P, \A n \in Nat : n \in P => n + 1 \in P
  PROVE  \A n \in Nat : n \in P
  <1> DEFINE T == Nat \ P
  <1> SUFFICES ASSUME T # {} PROVE FALSE
    OBVIOUS
  <1>1. PICK n \in T : \A m \in T : ~(<<m, n>> \in OpToRel(<, Nat))
    BY NatLessThanWellFounded, WFMin, Zenon
  <1>2. \A m \in T : ~(m < n)
    BY <1>1, Zenon DEF OpToRel
  <1>3. n # 0 /\ n - 1 \in Nat /\ n - 1 < n /\ n - 1 + 1 = n
    OBVIOUS
  <1> QED BY <1>2, <1>3

\* The same of finite sets: what holds of the empty set, and of a set with one
\* element more, holds of all.
LEMMA SetInduct ==
  ASSUME NEW S, IsFiniteSet(S), NEW P, {} \in P,
         \A T \in SUBSET S, x \in S : T \in P /\ x \notin T => T \cup {x} \in P
  PROVE  S \in P
  <1> DEFINE N == {n \in Nat : \A T \in SUBSET S : Cardinality(T) = n => T \in P}
  <1>1. \A T \in SUBSET S : IsFiniteSet(T) /\ Cardinality(T) \in Nat
    BY FS_Subset, FS_CardinalityType
  <1>2. 0 \in N
    BY <1>1, FS_EmptySet, Zenon
  <1>3. ASSUME NEW n \in Nat, n \in N PROVE n + 1 \in N
    <2> SUFFICES ASSUME NEW T \in SUBSET S, Cardinality(T) = n + 1 PROVE T \in P
      OBVIOUS
    <2>1. IsFiniteSet(T) /\ T # {}
      BY <1>1, FS_EmptySet
    <2>2. PICK x \in T : TRUE
      BY <2>1
    <2>3. Cardinality(T \ {x}) = n
      <3>1. Cardinality(T \ {x}) = Cardinality(T) - 1
        BY <2>1, <2>2, FS_RemoveElement, Zenon
      <3> QED BY <3>1
    <2>4. T \ {x} \in P
      BY <1>3, <2>3
    <2>5. (T \ {x}) \cup {x} = T
      BY <2>2
    <2> QED BY <2>2, <2>4, <2>5, Zenon
  <1>4. \A n \in Nat : n \in N
    <2> HIDE DEF N
    <2> QED BY <1>2, <1>3, NatInduct
  <1> QED BY <1>1, <1>4

-----------------------------------------------------------------------------
(* Sums.  SumFunctionOnSet is a fold, that is, a recursive function.       *)

\* g is the table of partial sums that SumFunctionOnSet(f, S) is read from.
SumTable(g, f, S) ==
  g = [s \in SUBSET S |->
         IF s = {} THEN 0
         ELSE f[CHOOSE x \in s : TRUE] + g[s \ {CHOOSE x \in s : TRUE}]]

LEMMA SumTableExists ==
  ASSUME NEW f, NEW S, IsFiniteSet(S)
  PROVE  \E g : SumTable(g, f, S)
  <1> DEFINE D(n) == {s \in SUBSET S : Cardinality(s) <= n}
             c(s) == CHOOSE x \in s : TRUE
             Table(g, n) ==
               g = [s \in D(n) |->
                      IF s = {} THEN 0 ELSE f[c(s)] + g[s \ {c(s)}]]
             N == {n \in Nat : \E g : Table(g, n)}
  <1>1. \A s \in SUBSET S : IsFiniteSet(s) /\ Cardinality(s) \in Nat
                            /\ Cardinality(s) <= Cardinality(S)
    BY FS_Subset, FS_CardinalityType
  <1>2. 0 \in N
    <2> DEFINE g == [s \in D(0) |-> 0]
    <2>1. \A s \in D(0) : s = {}
      BY <1>1, FS_EmptySet
    <2>2. Table(g, 0)
      BY <2>1
    <2> HIDE DEF g, Table
    <2> QED BY <2>2
  <1>3. ASSUME NEW n \in Nat, n \in N PROVE n + 1 \in N
    <2>1. PICK g : Table(g, n)
      BY <1>3, Zenon
    <2> DEFINE h == [s \in D(n + 1) |->
                       IF s = {} THEN 0 ELSE f[c(s)] + g[s \ {c(s)}]]
    <2>2. ASSUME NEW s \in D(n + 1), s # {}
          PROVE  s \ {c(s)} \in D(n) /\ s \ {c(s)} \in D(n + 1)
      <3>1. c(s) \in s
        BY <2>2
      <3>2. Cardinality(s \ {c(s)}) = Cardinality(s) - 1
        BY <1>1, <3>1, FS_RemoveElement, Zenon
      <3> QED BY <1>1, <3>2
    <2>3. \A s \in D(n) : h[s] = g[s]
      <3>1. \A s \in D(n) : s \in D(n + 1)
        BY <1>1
      <3> QED BY <2>1, <3>1, Zenon
    <2>4. \A s \in D(n + 1) :
            h[s] = IF s = {} THEN 0 ELSE f[c(s)] + h[s \ {c(s)}]
      <3>1. \A s \in D(n + 1) : s # {} => h[s \ {c(s)}] = g[s \ {c(s)}]
        BY <2>2, <2>3, Zenon
      <3>2. \A s \in D(n + 1) :
              h[s] = IF s = {} THEN 0 ELSE f[c(s)] + g[s \ {c(s)}]
        OBVIOUS
      <3> HIDE DEF h, c, D
      <3> QED BY <3>1, <3>2, Zenon
    <2>5. Table(h, n + 1)
      <3>1. DOMAIN h = D(n + 1)
            /\ h = [s \in DOMAIN h |-> h[s]]
        OBVIOUS
      <3> HIDE DEF h, c, D
      <3> QED BY <2>4, <3>1
    <2> HIDE DEF h, Table
    <2> QED BY <2>5
  <1>4. Cardinality(S) \in N
    <2>1. Cardinality(S) \in Nat
      BY FS_CardinalityType
    <2> HIDE DEF N
    <2> QED BY <1>2, <1>3, <2>1, NatInduct
  <1>5. D(Cardinality(S)) = SUBSET S
    BY <1>1
  <1> QED BY <1>4, <1>5, Zenon DEF SumTable

LEMMA SumFromTable ==
  ASSUME NEW f, NEW S, IsFiniteSet(S)
  PROVE  \E g : SumTable(g, f, S) /\ SumFunctionOnSet(f, S) = g[S]
  <1> DEFINE g == CHOOSE g : SumTable(g, f, S)
  <1>1. SumTable(g, f, S)
    BY SumTableExists
  <1>2. SumFunctionOnSet(f, S) = g[S]
    BY DEF SumFunctionOnSet, FoldFunctionOnSet, MapThenFoldSet, SumTable
  <1> QED BY <1>1, <1>2, Zenon

\* Any element may be the one that was added last.
LEMMA SumTableFacts ==
  ASSUME NEW f, NEW S, IsFiniteSet(S), \A x \in S : f[x] \in Int,
         NEW g, SumTable(g, f, S)
  PROVE  /\ g[{}] = 0
         /\ \A s \in SUBSET S :
              g[s] \in Int /\ \A y \in s : g[s] = f[y] + g[s \ {y}]
  <1> DEFINE c(s) == CHOOSE x \in s : TRUE
             Fine(s) == g[s] \in Int /\ \A y \in s : g[s] = f[y] + g[s \ {y}]
             N == {n \in Nat : \A s \in SUBSET S : Cardinality(s) <= n => Fine(s)}
  <1>1. \A s \in SUBSET S : IsFiniteSet(s) /\ Cardinality(s) \in Nat
    BY FS_Subset, FS_CardinalityType
  <1>2. g[{}] = 0 /\ \A s \in SUBSET S : s # {} => g[s] = f[c(s)] + g[s \ {c(s)}]
    BY DEF SumTable
  <1>3. 0 \in N
    <2>1. \A s \in SUBSET S : Cardinality(s) <= 0 => s = {}
      BY <1>1, FS_EmptySet
    <2>2. Fine({})
      BY <1>2
    <2> HIDE DEF Fine
    <2> QED BY <2>1, <2>2
  <1>4. ASSUME NEW n \in Nat, n \in N PROVE n + 1 \in N
    <2> SUFFICES ASSUME NEW s \in SUBSET S, Cardinality(s) <= n + 1
                 PROVE  Fine(s)
      OBVIOUS
    <2>0. CASE s = {}
      BY <1>2, <2>0
    <2> SUFFICES ASSUME s # {} PROVE Fine(s)
      BY <2>0
    <2>1. IsFiniteSet(s)
      BY <1>1
    <2>2. ASSUME NEW y \in s PROVE Fine(s \ {y})
      <3>1. Cardinality(s \ {y}) = Cardinality(s) - 1
        BY <2>1, FS_RemoveElement, Zenon
      <3>2. Cardinality(s \ {y}) <= n
        BY <1>1, <3>1
      <3> QED BY <1>4, <3>2, Zenon
    <2> DEFINE d == c(s)
    <2>3. d \in s /\ d \in S /\ f[d] \in Int
      BY <2>1
    <2>4. g[s] = f[d] + g[s \ {d}]
      BY <1>2, <2>1
    <2>5. g[s \ {d}] \in Int
      BY <2>2, <2>3, Zenon
    <2> HIDE DEF d, c
    <2>6. ASSUME NEW y \in s PROVE g[s] = f[y] + g[s \ {y}]
      <3>1. CASE y = d
        BY <2>4, <3>1
      <3>2. CASE y # d
        <4>1. y \in s \ {d} /\ d \in s \ {y}
          BY <2>3, <3>2
        <4>2. g[s \ {d}] = f[y] + g[(s \ {d}) \ {y}]
          BY <2>2, <2>3, <4>1
        <4>3. g[s \ {y}] = f[d] + g[(s \ {y}) \ {d}]
          BY <2>2, <4>1, Zenon
        <4>4. g[s \ {y}] = f[d] + g[(s \ {d}) \ {y}]
          <5>1. (s \ {d}) \ {y} = (s \ {y}) \ {d}
            OBVIOUS
          <5> QED BY <4>3, <5>1
        <4>5. g[(s \ {d}) \ {y}] \in Int
          <5>1. /\ IsFiniteSet(s \ {d})
                /\ Cardinality(s \ {d}) = Cardinality(s) - 1
            BY <2>1, <2>3, FS_RemoveElement, Zenon
          <5>2. Cardinality((s \ {d}) \ {y}) = Cardinality(s \ {d}) - 1
            BY <4>1, <5>1, FS_RemoveElement, Zenon
          <5>3. Cardinality((s \ {d}) \ {y}) <= n
            BY <1>1, <5>1, <5>2
          <5> QED BY <1>4, <5>3
        <4>6. f[y] \in Int
          OBVIOUS
        <4> QED BY <2>3, <2>4, <4>2, <4>4, <4>5, <4>6
      <3> QED BY <3>1, <3>2
    <2>7. g[s] \in Int
      BY <2>3, <2>4, <2>5
    <2> QED BY <2>6, <2>7, Zenon
  <1>5. \A n \in Nat : n \in N
    <2> HIDE DEF N
    <2> QED BY <1>3, <1>4, NatInduct
  <1>6. \A s \in SUBSET S : Fine(s)
    BY <1>1, <1>5
  <1> QED BY <1>2, <1>6

\* The sum over no index, over one index more, and its type.
LEMMA SumEmpty == ASSUME NEW f PROVE SumFunctionOnSet(f, {}) = 0
  <1>1. IsFiniteSet({})
    BY FS_EmptySet
  <1>2. PICK g : SumTable(g, f, {}) /\ SumFunctionOnSet(f, {}) = g[{}]
    BY <1>1, SumFromTable
  <1> QED BY <1>1, <1>2, SumTableFacts

\* Tables of functions that agree where both are defined agree there.
LEMMA SumTablesAgree ==
  ASSUME NEW f, NEW S, IsFiniteSet(S), \A x \in S : f[x] \in Int,
         NEW e, NEW T, IsFiniteSet(T), \A x \in T : e[x] \in Int,
         NEW g, SumTable(g, f, S), NEW h, SumTable(h, e, T),
         S \subseteq T, \A x \in S : e[x] = f[x]
  PROVE  g[S] = h[S]
  <1> DEFINE P == {s \in SUBSET S : g[s] = h[s]}
  <1>1. /\ g[{}] = 0
        /\ \A s \in SUBSET S : \A y \in s : g[s] = f[y] + g[s \ {y}]
    BY SumTableFacts
  <1>2. /\ h[{}] = 0
        /\ \A s \in SUBSET T : \A y \in s : h[s] = e[y] + h[s \ {y}]
    BY SumTableFacts
  <1>3. {} \in P
    BY <1>1, <1>2
  <1>4. ASSUME NEW s \in SUBSET S, NEW x \in S, s \in P, x \notin s
        PROVE  s \cup {x} \in P
    <2>1. (s \cup {x}) \ {x} = s /\ s \cup {x} \in SUBSET T
          /\ s \cup {x} \in SUBSET S /\ x \in s \cup {x}
      BY <1>4
    <2>2. g[s \cup {x}] = f[x] + g[s]
      BY <1>1, <2>1, Zenon
    <2>3. h[s \cup {x}] = e[x] + h[s]
      BY <1>2, <2>1
    <2> QED BY <1>4, <2>1, <2>2, <2>3
  <1>5. S \in P
    <2> HIDE DEF P
    <2> QED BY <1>3, <1>4, SetInduct, Zenon
  <1> QED BY <1>5

LEMMA SumSame ==
  ASSUME NEW f, NEW e, NEW S, IsFiniteSet(S),
         \A x \in S : f[x] \in Int /\ e[x] = f[x]
  PROVE  SumFunctionOnSet(e, S) = SumFunctionOnSet(f, S)
  <1>1. PICK g : SumTable(g, f, S) /\ SumFunctionOnSet(f, S) = g[S]
    BY SumFromTable
  <1>2. PICK h : SumTable(h, e, S) /\ SumFunctionOnSet(e, S) = h[S]
    BY SumFromTable
  <1> QED BY <1>1, <1>2, SumTablesAgree

LEMMA SumInt ==
  ASSUME NEW f, NEW S, IsFiniteSet(S), \A x \in S : f[x] \in Int
  PROVE  SumFunctionOnSet(f, S) \in Int
  <1>1. PICK g : SumTable(g, f, S) /\ SumFunctionOnSet(f, S) = g[S]
    BY SumFromTable
  <1> QED BY <1>1, SumTableFacts

LEMMA SumRemove ==
  ASSUME NEW f, NEW S, IsFiniteSet(S), \A x \in S : f[x] \in Int, NEW y \in S
  PROVE  SumFunctionOnSet(f, S) = f[y] + SumFunctionOnSet(f, S \ {y})
  <1>1. PICK g : SumTable(g, f, S) /\ SumFunctionOnSet(f, S) = g[S]
    BY SumFromTable
  <1>2. IsFiniteSet(S \ {y})
    BY FS_RemoveElement
  <1>3. PICK h : /\ SumTable(h, f, S \ {y})
                 /\ SumFunctionOnSet(f, S \ {y}) = h[S \ {y}]
    BY <1>2, SumFromTable
  <1>4. h[S \ {y}] = g[S \ {y}]
    BY <1>1, <1>2, <1>3, SumTablesAgree
  <1>5. g[S] = f[y] + g[S \ {y}]
    BY <1>1, SumTableFacts
  <1> QED BY <1>1, <1>3, <1>4, <1>5

LEMMA SumAdd ==
  ASSUME NEW f, NEW S, IsFiniteSet(S), NEW y, y \notin S,
         \A x \in S \cup {y} : f[x] \in Int
  PROVE  SumFunctionOnSet(f, S \cup {y}) = f[y] + SumFunctionOnSet(f, S)
  <1>1. IsFiniteSet(S \cup {y}) /\ (S \cup {y}) \ {y} = S
    BY FS_AddElement
  <1> QED BY <1>1, SumRemove

\* A sum grows with its terms.
LEMMA SumAtMost ==
  ASSUME NEW f, NEW e, NEW S, IsFiniteSet(S),
         \A x \in S : f[x] \in Int /\ e[x] \in Int /\ e[x] <= f[x]
  PROVE  SumFunctionOnSet(e, S) <= SumFunctionOnSet(f, S)
  <1> DEFINE P == {s \in SUBSET S : SumFunctionOnSet(e, s) <= SumFunctionOnSet(f, s)}
  <1>1. {} \in P
    BY SumEmpty
  <1>2. ASSUME NEW s \in SUBSET S, NEW x \in S, s \in P, x \notin s
        PROVE  s \cup {x} \in P
    <2>1. IsFiniteSet(s)
      BY FS_Subset
    <2>2. SumFunctionOnSet(f, s \cup {x}) = f[x] + SumFunctionOnSet(f, s)
          /\ SumFunctionOnSet(f, s) \in Int
      BY <1>2, <2>1, SumAdd, SumInt
    <2>3. SumFunctionOnSet(e, s \cup {x}) = e[x] + SumFunctionOnSet(e, s)
          /\ SumFunctionOnSet(e, s) \in Int
      BY <1>2, <2>1, SumAdd, SumInt
    <2> QED BY <1>2, <2>2, <2>3
  <1>3. S \in P
    <2> HIDE DEF P
    <2> QED BY <1>1, <1>2, SetInduct, Zenon
  <1> QED BY <1>3

\* Terms between 0 and b sum up to no more than b for each index.
LEMMA SumBounds ==
  ASSUME NEW f, NEW S, IsFiniteSet(S), NEW b \in Nat, \A x \in S : f[x] \in 0 .. b
  PROVE  SumFunctionOnSet(f, S) \in 0 .. Cardinality(S) * b
  <1> DEFINE P == {s \in SUBSET S : SumFunctionOnSet(f, s) \in 0 .. Cardinality(s) * b}
  <1>1. {} \in P
    BY SumEmpty, FS_EmptySet
  <1>2. ASSUME NEW s \in SUBSET S, NEW x \in S, s \in P, x \notin s
        PROVE  s \cup {x} \in P
    <2> DEFINE n == Cardinality(s)
    <2>1. IsFiniteSet(s) /\ n \in Nat
      BY FS_Subset, FS_CardinalityType
    <2>2. Cardinality(s \cup {x}) = n + 1
      BY <1>2, <2>1, FS_AddElement, Zenon
    <2>3. SumFunctionOnSet(f, s \cup {x}) = f[x] + SumFunctionOnSet(f, s)
      BY <1>2, <2>1, SumAdd
    <2>4. f[x] \in 0 .. b /\ SumFunctionOnSet(f, s) \in 0 .. n * b
      BY <1>2
    <2> HIDE DEF n
    <2>5. n * b \in Nat /\ (n + 1) * b = n * b + b
      BY <2>1
    <2>6. SumFunctionOnSet(f, s \cup {x}) \in 0 .. (n + 1) * b
      BY <2>3, <2>4, <2>5
    <2> QED BY <2>2, <2>6
  <1>3. S \in P
    <2> HIDE DEF P
    <2> QED BY <1>1, <1>2, SetInduct, Zenon
  <1> QED BY <1>3

\* A sum over a set numbered without repetition, taken by number.
LEMMA SumByNumber ==
  ASSUME NEW f, NEW e, NEW q, NEW K, IsFiniteSet(K),
         \A j, k \in K : q[j] = q[k] => j = k,
         \A k \in K : e[k] = f[q[k]] /\ f[q[k]] \in Int
  PROVE  SumFunctionOnSet(e, K) = SumFunctionOnSet(f, {q[k] : k \in K})
  <1> DEFINE I(s) == {q[k] : k \in s}
             P == {s \in SUBSET K : /\ IsFiniteSet(I(s))
                                    /\ SumFunctionOnSet(e, s) = SumFunctionOnSet(f, I(s))}
  <1>1. {} \in P
    <2>1. I({}) = {}
      OBVIOUS
    <2>2. SumFunctionOnSet(f, {}) = 0 /\ SumFunctionOnSet(e, {}) = 0 /\ IsFiniteSet({})
      BY SumEmpty, FS_EmptySet
    <2> QED BY <2>1, <2>2
  <1>2. ASSUME NEW s \in SUBSET K, NEW x \in K, s \in P, x \notin s
        PROVE  s \cup {x} \in P
    <2> DEFINE T == I(s)
    <2>1. IsFiniteSet(s) /\ IsFiniteSet(T)
      BY <1>2, FS_Subset
    <2>2. I(s \cup {x}) = T \cup {q[x]} /\ q[x] \notin T
      BY <1>2
    <2>3. \A y \in T \cup {q[x]} : f[y] \in Int
      OBVIOUS
    <2>4. SumFunctionOnSet(e, s) = SumFunctionOnSet(f, T)
      BY <1>2
    <2> HIDE DEF T
    <2>5. IsFiniteSet(T \cup {q[x]})
      BY <2>1, FS_AddElement, Zenon
    <2>6. SumFunctionOnSet(f, T \cup {q[x]}) = f[q[x]] + SumFunctionOnSet(f, T)
      BY <2>1, <2>2, <2>3, SumAdd
    <2>7. SumFunctionOnSet(e, s \cup {x}) = e[x] + SumFunctionOnSet(e, s)
      <3>1. \A y \in s \cup {x} : e[y] \in Int
        OBVIOUS
      <3> QED BY <1>2, <2>1, <3>1, SumAdd
    <2>8. e[x] = f[q[x]]
      OBVIOUS
    <2> HIDE DEF I
    <2> QED BY <2>2, <2>4, <2>5, <2>6, <2>7, <2>8, Zenon
  <1>3. K \in P
    <2> HIDE DEF P
    <2> QED BY <1>1, <1>2, SetInduct, Zenon
  <1> QED BY <1>3

-----------------------------------------------------------------------------
(* Nodes and the queues they are linked in.                                *)

\* A block of order nodes, whatever the types of ids and prices.
IsBlock(ns) == \E P, O, U : ns \in [Index -> NodeType(P, Int, O, U)]

\* The fields of a node that are not links.
Data(node) == <<node.price, node.qty, node.order_id, node.user_id>>

\* The sequence q without its k-th element.
Without(q, k) == [j \in 1 .. Len(q) - 1 |-> IF j < k THEN q[j] ELSE q[j + 1]]

\* The links of level l in the nodes ns are those of the sequence q.
Linked(l, ns, q) ==
  /\ l.count = Len(q)
  /\ l.head = IF Len(q) = 0 THEN NULL_INDEX ELSE q[1]
  /\ l.tail = IF Len(q) = 0 THEN NULL_INDEX ELSE q[Len(q)]
  /\ \A j, k \in 1 .. Len(q) : q[j] = q[k] => j = k
  /\ \A k \in 1 .. Len(q) :
       /\ ns[q[k]].prev = IF k = 1 THEN NULL_INDEX ELSE q[k - 1]
       /\ ns[q[k]].next = IF k = Len(q) THEN NULL_INDEX ELSE q[k + 1]

\* The level l holds the queue q: its links and its total are those of q.
Holds(l, ns, q) ==
  /\ q \in Seq(Index)
  /\ Linked(l, ns, q)
  /\ l.total_qty = TotalQty(ns, Range(q))

LEMMA BlockFields ==
  ASSUME NEW ns, IsBlock(ns), NEW i \in Index
  PROVE  ns[i].qty \in Int /\ ns[i].next \in Link /\ ns[i].prev \in Link
  BY DEF IsBlock, NodeType

LEMMA NullNotIndex == NULL_INDEX \notin Index
  BY NullIndex

\* What the operations make of the nodes: data stays, and links are set where
\* they have to be.
Unlinked(us, ns, i, p, n) ==
  /\ IsBlock(us)
  /\ \A j \in Index : Data(us[j]) = Data(ns[j])
  /\ \A j \in Index \ {i} :
       /\ us[j].next = IF j = p THEN n ELSE ns[j].next
       /\ us[j].prev = IF j = n THEN p ELSE ns[j].prev
  /\ \A j \in Index \ {i, p, n} : us[j] = ns[j]

Pushed(us, ns, i, t) ==
  /\ IsBlock(us)
  /\ \A j \in Index : Data(us[j]) = Data(ns[j])
  /\ us[i].prev = t
  /\ us[i].next = NULL_INDEX
  /\ t \in Index => us[t].next = i /\ us[t].prev = ns[t].prev
  /\ \A j \in Index \ {i, t} : us[j] = ns[j]

LEMMA UnlinkNodes ==
  ASSUME NEW ns, IsBlock(ns), NEW i \in Index, NEW p \in Link, NEW n \in Link
  PROVE  Unlinked(Unlink(ns, i, p, n), ns, i, p, n)
  <1> DEFINE us == Unlink(ns, i, p, n)
  <1>1. NULL_INDEX \in Link
    BY DEF Link
  <1>2. PICK P, O, U : ns \in [Index -> NodeType(P, Int, O, U)]
    BY DEF IsBlock
  <1>3. us \in [Index -> NodeType(P, Int, O, U)]
    BY <1>1, <1>2, Zenon DEF Unlink, NodeType
  <1>4. IsBlock(us)
    BY <1>3 DEF IsBlock
  <1>5. \A j \in Index : Data(us[j]) = Data(ns[j])
    BY <1>2 DEF Unlink, NodeType, Data
  <1>6. ASSUME NEW j \in Index \ {i}
        PROVE  /\ us[j].next = IF j = p THEN n ELSE ns[j].next
               /\ us[j].prev = IF j = n THEN p ELSE ns[j].prev
    BY <1>2 DEF Unlink, NodeType
  <1>7. ASSUME NEW j \in Index \ {i, p, n}
        PROVE  us[j] = ns[j]
    BY <1>2, Zenon DEF Unlink, NodeType
  <1> HIDE DEF us
  <1>8. Unlinked(us, ns, i, p, n)
    BY <1>4, <1>5, <1>6, <1>7 DEF Unlinked
  <1> QED BY <1>8 DEF us

LEMMA PushNodes ==
  ASSUME NEW l, NEW ns, IsBlock(ns), NEW i \in Index,
         l.tail \in Link, l.tail # i
  PROVE  Pushed(PushBack(l, ns, i).nodes, ns, i, l.tail)
  <1> DEFINE us == PushBack(l, ns, i).nodes
  <1>1. NULL_INDEX \in Link /\ i \in Link
    BY DEF Link
  <1>2. PICK P, O, U : ns \in [Index -> NodeType(P, Int, O, U)]
    BY DEF IsBlock
  <1>3. us \in [Index -> NodeType(P, Int, O, U)]
    BY <1>1, <1>2, Zenon DEF PushBack, NodeType
  <1>4. IsBlock(us)
    BY <1>3 DEF IsBlock
  <1>5. \A j \in Index : Data(us[j]) = Data(ns[j])
    BY <1>2 DEF PushBack, NodeType, Data
  <1>6. us[i].prev = l.tail /\ us[i].next = NULL_INDEX
    BY <1>2 DEF PushBack, NodeType
  <1>7. l.tail \in Index =>
          us[l.tail].next = i /\ us[l.tail].prev = ns[l.tail].prev
    BY <1>2 DEF PushBack, NodeType
  <1>8. \A j \in Index \ {i, l.tail} : us[j] = ns[j]
    BY <1>2 DEF PushBack
  <1> HIDE DEF us
  <1>9. Pushed(us, ns, i, l.tail)
    BY <1>4, <1>5, <1>6, <1>7, <1>8 DEF Pushed
  <1> QED BY <1>9 DEF us

LEMMA WithoutElements ==
  ASSUME NEW S, NEW q \in Seq(S), NEW k \in 1 .. Len(q)
  PROVE  /\ Without(q, k) \in Seq(S)
         /\ Len(Without(q, k)) = Len(q) - 1
         /\ \A j \in 1 .. Len(q) - 1 :
              Without(q, k)[j] = IF j < k THEN q[j] ELSE q[j + 1]
  <1>1. Len(q) \in Nat /\ \A j \in 1 .. Len(q) : q[j] \in S
    BY LenProperties, ElementOfSeq
  <1>2. Len(q) - 1 \in Nat /\ \A j \in 1 .. Len(q) - 1 : j \in 1 .. Len(q) /\ j + 1 \in 1 .. Len(q)
    BY <1>1
  <1>3. Without(q, k) \in [1 .. Len(q) - 1 -> S]
    BY <1>1, <1>2 DEF Without
  <1> QED BY <1>2, <1>3 DEF Without

\* What is known of a linked level: its queue's indices, which are not null,
\* and which of them is whose neighbour.
LEMMA LinkedFacts ==
  ASSUME NEW l, NEW ns, IsBlock(ns), NEW q \in Seq(Index), Linked(l, ns, q)
  PROVE  /\ Len(q) \in Nat
         /\ \A k \in 1 .. Len(q) : q[k] \in Index /\ q[k] # NULL_INDEX
         /\ l.head \in Link /\ l.tail \in Link
         /\ l.tail # NULL_INDEX => Len(q) > 0 /\ l.tail = q[Len(q)]
         /\ l.tail = NULL_INDEX => Len(q) = 0
         /\ l.head # NULL_INDEX => Len(q) > 0 /\ l.head = q[1]
         /\ \A k \in 1 .. Len(q) :
              ns[q[k]].prev \in Link /\ ns[q[k]].next \in Link
  <1>1. Len(q) \in Nat /\ \A k \in 1 .. Len(q) : q[k] \in Index
    BY LenProperties, ElementOfSeq
  <1>2. \A k \in 1 .. Len(q) : q[k] # NULL_INDEX
    BY <1>1, NullNotIndex
  <1>3. Len(q) # 0 => 1 \in 1 .. Len(q) /\ Len(q) \in 1 .. Len(q)
    BY <1>1
  <1>4. /\ l.head = IF Len(q) = 0 THEN NULL_INDEX ELSE q[1]
        /\ l.tail = IF Len(q) = 0 THEN NULL_INDEX ELSE q[Len(q)]
    BY DEF Linked
  <1>6. \A k \in 1 .. Len(q) : ns[q[k]].prev \in Link /\ ns[q[k]].next \in Link
    BY <1>1, BlockFields
  <1>7. l.head \in Link /\ l.tail \in Link
    BY <1>1, <1>3, <1>4 DEF Link
  <1> QED BY <1>1, <1>2, <1>3, <1>4, <1>6, <1>7

\* Whichever of its cases remove takes, what is left is linked.
LEMMA RemoveLinks ==
  ASSUME NEW l, NEW ns, IsBlock(ns), NEW q \in Seq(Index),
         l.count \in Int, Linked(l, ns, q), NEW k \in 1 .. Len(q)
  PROVE  LET r == Remove(l, ns, q[k])
         IN  /\ r.level.count \in Int
             /\ IsBlock(r.nodes)
             /\ Linked(r.level, r.nodes, Without(q, k))
  <1> DEFINE n == Len(q)
             i == q[k]
             before == ns[i].prev
             after == ns[i].next
             m == Without(q, k)
             r == Remove(l, ns, i)
  <1>1. /\ n \in Nat
        /\ \A j \in 1 .. n : q[j] \in Index /\ q[j] # NULL_INDEX
        /\ before \in Link /\ after \in Link
    BY LinkedFacts
  <1>2. /\ l.count = n
        /\ l.head = IF n = 0 THEN NULL_INDEX ELSE q[1]
        /\ l.tail = IF n = 0 THEN NULL_INDEX ELSE q[n]
        /\ \A j, g \in 1 .. n : q[j] = q[g] => j = g
        /\ \A j \in 1 .. n :
             /\ ns[q[j]].prev = IF j = 1 THEN NULL_INDEX ELSE q[j - 1]
             /\ ns[q[j]].next = IF j = n THEN NULL_INDEX ELSE q[j + 1]
    BY DEF Linked
  <1>3. /\ before = IF k = 1 THEN NULL_INDEX ELSE q[k - 1]
        /\ after = IF k = n THEN NULL_INDEX ELSE q[k + 1]
    BY <1>2
  <1>4. /\ Len(m) = n - 1
        /\ \A j \in 1 .. n - 1 : m[j] = IF j < k THEN q[j] ELSE q[j + 1]
    BY WithoutElements
  <1>5. /\ IsBlock(r.nodes)
        /\ \A j \in Index \ {i} :
             /\ r.nodes[j].next = IF j = before THEN after ELSE ns[j].next
             /\ r.nodes[j].prev = IF j = after THEN before ELSE ns[j].prev
    <2>1. r.nodes = Unlink(ns, i, before, after)
      BY DEF Remove
    <2>2. Unlinked(Unlink(ns, i, before, after), ns, i, before, after)
      BY <1>1, UnlinkNodes
    <2>3. Unlinked(r.nodes, ns, i, before, after)
      BY <2>1, <2>2
    <2> HIDE DEF r, i, before, after
    <2> QED BY <2>3 DEF Unlinked
  <1>6. /\ r.level.count = l.count - 1
        /\ r.level.head = IF before = NULL_INDEX THEN after ELSE l.head
        /\ r.level.tail = IF after = NULL_INDEX THEN before ELSE l.tail
    BY DEF Remove
  <1> HIDE DEF i, before, after, m, r
  <1>7. r.level.head = IF n - 1 = 0 THEN NULL_INDEX ELSE m[1]
    <2>1. CASE k = 1
      BY <1>1, <1>2, <1>3, <1>4, <1>6, <2>1
    <2>2. CASE k # 1
      BY <1>1, <1>2, <1>3, <1>4, <1>6, <2>2
    <2> QED BY <2>1, <2>2
  <1>8. r.level.tail = IF n - 1 = 0 THEN NULL_INDEX ELSE m[n - 1]
    <2>1. CASE k = n
      BY <1>1, <1>2, <1>3, <1>4, <1>6, <2>1
    <2>2. CASE k # n
      BY <1>1, <1>2, <1>3, <1>4, <1>6, <2>2
    <2> QED BY <2>1, <2>2
  <1>9. \A j, g \in 1 .. n - 1 : m[j] = m[g] => j = g
    BY <1>1, <1>2, <1>4
  <1>10. ASSUME NEW j \in 1 .. n - 1
         PROVE  /\ r.nodes[m[j]].prev = IF j = 1 THEN NULL_INDEX ELSE m[j - 1]
                /\ r.nodes[m[j]].next = IF j = n - 1 THEN NULL_INDEX ELSE m[j + 1]
    <2>1. CASE j < k
      <3>1. m[j] = q[j] /\ j \in 1 .. n /\ q[j] \in Index \ {i}
        BY <1>1, <1>2, <1>4, <2>1 DEF i
      <3>2. q[j] # after
        <4>1. k # n => k + 1 \in 1 .. n /\ j # k + 1
          BY <1>1, <2>1
        <4> QED BY <1>1, <1>2, <1>3, <3>1, <4>1
      <3>3. q[j] = before <=> j = k - 1
        <4>1. k # 1 => k - 1 \in 1 .. n
          BY <1>1
        <4>2. k # 1 => (q[j] = q[k - 1] <=> j = k - 1)
          BY <1>2, <3>1, <4>1
        <4>3. k = 1 => j # k - 1
          OBVIOUS
        <4> QED BY <1>1, <1>3, <3>1, <4>2, <4>3
      <3>4. r.nodes[m[j]].prev = IF j = 1 THEN NULL_INDEX ELSE m[j - 1]
        <4>1. r.nodes[m[j]].prev = IF j = 1 THEN NULL_INDEX ELSE q[j - 1]
          BY <1>2, <1>5, <3>1, <3>2
        <4>2. j # 1 => j - 1 \in 1 .. n - 1 /\ j - 1 < k
          BY <1>1, <2>1
        <4> QED BY <1>4, <4>1, <4>2
      <3>5. r.nodes[m[j]].next = IF j = n - 1 THEN NULL_INDEX ELSE m[j + 1]
        <4>1. CASE j = k - 1
          <5>1. r.nodes[m[j]].next = IF k = n THEN NULL_INDEX ELSE q[k + 1]
            BY <1>3, <1>5, <3>1, <3>3, <4>1
          <5>2. k # n => j + 1 \in 1 .. n - 1 /\ ~(j + 1 < k) /\ j + 1 = k
            BY <1>1, <4>1
          <5>3. (j = n - 1) <=> (k = n)
            BY <1>1, <4>1
          <5> QED BY <1>4, <5>1, <5>2, <5>3
        <4>2. CASE j # k - 1
          <5>1. j # n /\ j # n - 1 /\ j + 1 \in 1 .. n - 1 /\ j + 1 < k
            BY <1>1, <2>1, <4>2
          <5>2. r.nodes[m[j]].next = q[j + 1]
            BY <1>2, <1>5, <3>1, <3>3, <4>2, <5>1
          <5> QED BY <1>4, <5>1, <5>2
        <4> QED BY <4>1, <4>2
      <3> QED BY <3>4, <3>5
    <2>2. CASE ~(j < k)
      <3>1. m[j] = q[j + 1] /\ j + 1 \in 1 .. n /\ q[j + 1] \in Index \ {i}
        BY <1>1, <1>2, <1>4, <2>2 DEF i
      <3>2. q[j + 1] # before
        BY <1>1, <1>2, <1>3, <2>2, <3>1
      <3>3. q[j + 1] = after <=> j = k
        BY <1>1, <1>2, <1>3, <2>2, <3>1
      <3>4. r.nodes[m[j]].next = IF j = n - 1 THEN NULL_INDEX ELSE m[j + 1]
        <4>1. r.nodes[m[j]].next = IF j + 1 = n THEN NULL_INDEX ELSE q[j + 1 + 1]
          BY <1>2, <1>5, <3>1, <3>2
        <4>2. j # n - 1 => j + 1 \in 1 .. n - 1 /\ ~(j + 1 < k)
          BY <1>1, <2>2
        <4>3. (j = n - 1) <=> (j + 1 = n)
          BY <1>1
        <4> QED BY <1>4, <4>1, <4>2, <4>3
      <3>5. r.nodes[m[j]].prev = IF j = 1 THEN NULL_INDEX ELSE m[j - 1]
        <4>1. CASE j = k
          <5>1. r.nodes[m[j]].prev = IF k = 1 THEN NULL_INDEX ELSE q[k - 1]
            BY <1>3, <1>5, <3>1, <3>3, <4>1
          <5>2. j # 1 => j - 1 \in 1 .. n - 1 /\ j - 1 < k
            BY <1>1, <4>1
          <5> QED BY <1>4, <4>1, <5>1, <5>2
        <4>2. CASE j # k
          <5>1. j # 1 /\ j + 1 # 1 /\ j - 1 \in 1 .. n - 1 /\ ~(j - 1 < k)
                /\ j + 1 - 1 = j /\ j - 1 + 1 = j
            BY <1>1, <2>2, <4>2
          <5>2. r.nodes[m[j]].prev = q[j]
            <6>1. r.nodes[q[j + 1]].prev = ns[q[j + 1]].prev
              BY <1>5, <3>1, <3>3, <4>2
            <6>2. ns[q[j + 1]].prev = q[j + 1 - 1]
              BY <1>2, <3>1, <5>1
            <6> QED BY <3>1, <5>1, <6>1, <6>2
          <5> QED BY <1>4, <5>1, <5>2
        <4> QED BY <4>1, <4>2
      <3> QED BY <3>4, <3>5
    <2> QED BY <2>1, <2>2
  <1>11. l.count - 1 = n - 1 /\ l.count - 1 \in Int
    BY <1>1, <1>2
  <1>12. Linked(r.level, r.nodes, m)
    BY <1>4, <1>6, <1>7, <1>8, <1>9, <1>10, <1>11 DEF Linked
  <1> QED BY <1>5, <1>6, <1>11, <1>12 DEF r, m, i

\* pop_front is remove of the head.
LEMMA PopIsRemove ==
  ASSUME NEW l, NEW ns, IsBlock(ns), NEW q \in Seq(Index), Linked(l, ns, q),
         l.head # NULL_INDEX
  PROVE  /\ 1 \in 1 .. Len(q) /\ l.head = q[1]
         /\ PopFront(l, ns) = Remove(l, ns, q[1])
  <1>1. Len(q) \in Nat /\ Len(q) > 0 /\ l.head = q[1] /\ 1 \in 1 .. Len(q)
    BY LinkedFacts
  <1>2. ns[q[1]].prev = NULL_INDEX
    BY <1>1 DEF Linked
  <1>3. PopFront(l, ns) = Remove(l, ns, q[1])
    BY <1>1, <1>2 DEF PopFront, Remove
  <1> QED BY <1>1, <1>3

\* push_back of a node that is in no queue.
LEMMA PushLinks ==
  ASSUME NEW l, NEW ns, IsBlock(ns), NEW q \in Seq(Index), NEW i \in Index,
         l.count \in Int, Linked(l, ns, q), i \notin Range(q)
  PROVE  LET r == PushBack(l, ns, i)
         IN  /\ r.level.count \in Int
             /\ IsBlock(r.nodes)
             /\ Append(q, i) \in Seq(Index)
             /\ Linked(r.level, r.nodes, Append(q, i))
  <1> DEFINE n == Len(q)
             m == Append(q, i)
             r == PushBack(l, ns, i)
  <1>0. \A k \in 1 .. n : q[k] # i
    BY LenProperties DEF Range
  <1>1. /\ n \in Nat
        /\ \A j \in 1 .. n : q[j] \in Index /\ q[j] # NULL_INDEX
        /\ l.tail \in Link
        /\ l.tail = IF n = 0 THEN NULL_INDEX ELSE q[n]
        /\ i # NULL_INDEX
    BY LinkedFacts, NullNotIndex DEF Linked
  <1>2. /\ l.count = n
        /\ l.head = IF n = 0 THEN NULL_INDEX ELSE q[1]
        /\ \A j, g \in 1 .. n : q[j] = q[g] => j = g
        /\ \A j \in 1 .. n :
             /\ ns[q[j]].prev = IF j = 1 THEN NULL_INDEX ELSE q[j - 1]
             /\ ns[q[j]].next = IF j = n THEN NULL_INDEX ELSE q[j + 1]
    BY DEF Linked
  <1>3. /\ m \in Seq(Index) /\ Len(m) = n + 1 /\ m[n + 1] = i
        /\ \A j \in 1 .. n : m[j] = q[j]
    BY AppendProperties
  <1>4. l.tail # i
    BY <1>0, <1>1
  <1>5. /\ IsBlock(r.nodes)
        /\ r.nodes[i].prev = l.tail
        /\ r.nodes[i].next = NULL_INDEX
        /\ l.tail \in Index =>
             r.nodes[l.tail].next = i /\ r.nodes[l.tail].prev = ns[l.tail].prev
        /\ \A j \in Index \ {i, l.tail} : r.nodes[j] = ns[j]
    <2>1. l.tail \in Link
      BY <1>1
    <2>2. Pushed(r.nodes, ns, i, l.tail)
      BY <1>4, <2>1, PushNodes
    <2> HIDE DEF r
    <2> QED BY <2>2 DEF Pushed
  <1>6. /\ r.level.count = l.count + 1
        /\ r.level.head = IF l.tail = NULL_INDEX THEN i ELSE l.head
        /\ r.level.tail = i
    BY DEF PushBack
  <1> HIDE DEF m, r
  <1>7. r.level.head = m[1]
    <2>1. CASE n = 0
      BY <1>1, <1>3, <1>6, <2>1
    <2>2. CASE n # 0
      <3>1. 1 \in 1 .. n /\ n \in 1 .. n
        BY <1>1, <2>2
      <3>2. m[1] = q[1] /\ l.head = q[1] /\ l.tail # NULL_INDEX
        BY <1>1, <1>2, <1>3, <2>2, <3>1
      <3> QED BY <1>6, <3>2
    <2> QED BY <2>1, <2>2
  <1>8. ASSUME NEW j \in 1 .. n + 1, NEW g \in 1 .. n + 1, m[j] = m[g]
        PROVE  j = g
    <2>1. j \in 1 .. n \/ j = n + 1
      BY <1>1
    <2>2. g \in 1 .. n \/ g = n + 1
      BY <1>1
    <2>3. \A x \in 1 .. n : m[x] = q[x] /\ m[x] # i
      BY <1>0, <1>3
    <2>4. CASE j \in 1 .. n /\ g \in 1 .. n
      BY <1>2, <1>8, <2>3, <2>4
    <2>5. CASE j = n + 1 \/ g = n + 1
      BY <1>3, <1>8, <2>1, <2>2, <2>3, <2>5
    <2> QED BY <2>1, <2>2, <2>4, <2>5
  <1>9. ASSUME NEW j \in 1 .. n + 1
        PROVE  /\ r.nodes[m[j]].prev = IF j = 1 THEN NULL_INDEX ELSE m[j - 1]
               /\ r.nodes[m[j]].next = IF j = n + 1 THEN NULL_INDEX ELSE m[j + 1]
    <2>1. CASE j = n + 1
      BY <1>1, <1>3, <1>5, <2>1
    <2>2. CASE j = n
      <3>1. j \in 1 .. n /\ m[j] = l.tail /\ l.tail = q[j] /\ l.tail \in Index
        BY <1>1, <1>3, <2>2
      <3>2. r.nodes[m[j]].next = i /\ r.nodes[m[j]].prev = ns[q[j]].prev
        BY <1>5, <3>1
      <3>3. j # 1 => m[j - 1] = q[j - 1]
        BY <1>1, <1>3, <2>2
      <3> QED BY <1>1, <1>2, <1>3, <2>2, <3>1, <3>2, <3>3
    <2>3. CASE j # n + 1 /\ j # n
      <3>1. j \in 1 .. n /\ j + 1 \in 1 .. n /\ m[j] = q[j] /\ m[j + 1] = q[j + 1]
        BY <1>1, <1>3, <2>3
      <3>2. q[j] \in Index \ {i, l.tail}
        BY <1>0, <1>1, <1>2, <2>3, <3>1
      <3>3. r.nodes[m[j]] = ns[q[j]]
        BY <1>5, <3>1, <3>2
      <3>4. j # 1 => m[j - 1] = q[j - 1]
        BY <1>1, <1>3, <3>1
      <3> QED BY <1>2, <2>3, <3>1, <3>3, <3>4
    <2> QED BY <2>1, <2>2, <2>3
  <1>10. Linked(r.level, r.nodes, m)
    BY <1>1, <1>2, <1>3, <1>6, <1>7, <1>8, <1>9 DEF Linked
  <1> QED BY <1>1, <1>2, <1>3, <1>5, <1>6, <1>10 DEF m, r

\* Whoever leaves the links alone leaves the queue linked.
LEMMA SameLinks ==
  ASSUME NEW l, NEW ns, NEW us, NEW q \in Seq(Index), Linked(l, ns, q),
         \A i \in Range(q) : us[i].next = ns[i].next /\ us[i].prev = ns[i].prev
  PROVE  Linked(l, us, q)
  <1>1. \A k \in 1 .. Len(q) : q[k] \in Range(q)
    BY LenProperties DEF Range
  <1> QED BY <1>1 DEF Linked

-----------------------------------------------------------------------------
(* Queues and what they hold.                                              *)

\* us differs from ns in the links of nodes of S at most.
OnlyLinksOf(S, us, ns) ==
  /\ \A i \in Index : Data(us[i]) = Data(ns[i])
  /\ \A i \in Index \ S : us[i] = ns[i]

LEMMA RangeOfQueue ==
  ASSUME NEW q \in Seq(Index)
  PROVE  /\ Len(q) \in Nat /\ DOMAIN q = 1 .. Len(q)
         /\ Range(q) \subseteq Index /\ IsFiniteSet(Range(q))
         /\ \A k \in 1 .. Len(q) : q[k] \in Range(q)
         /\ Len(q) = 0 <=> Range(q) = {}
  <1>1. Len(q) \in Nat /\ DOMAIN q = 1 .. Len(q) /\ \A k \in 1 .. Len(q) : q[k] \in Index
    BY LenProperties, ElementOfSeq
  <1>2. Range(q) \subseteq Index /\ \A k \in 1 .. Len(q) : q[k] \in Range(q)
    BY <1>1 DEF Range
  <1>3. IsFiniteSet(Range(q))
    BY <1>2, SubsetOfIndex
  <1>4. Len(q) = 0 => Range(q) = {}
    BY <1>1 DEF Range
  <1>5. Len(q) # 0 => 1 \in 1 .. Len(q)
    BY <1>1
  <1>6. Range(q) = {} => Len(q) = 0
    BY <1>2, <1>5
  <1> QED BY <1>1, <1>2, <1>3, <1>4, <1>6

\* The nodes of a queue, when one leaves or one comes.
LEMMA WithoutRange ==
  ASSUME NEW q \in Seq(Index), NEW k \in 1 .. Len(q),
         \A j, g \in 1 .. Len(q) : q[j] = q[g] => j = g
  PROVE  Range(Without(q, k)) = Range(q) \ {q[k]}
  <1> DEFINE m == Without(q, k)
             n == Len(q)
  <1>1. n \in Nat /\ DOMAIN q = 1 .. n
    BY RangeOfQueue
  <1>2. m \in Seq(Index) /\ Len(m) = n - 1
        /\ \A j \in 1 .. n - 1 : m[j] = IF j < k THEN q[j] ELSE q[j + 1]
    BY WithoutElements
  <1>3. DOMAIN m = 1 .. n - 1
    BY <1>2, RangeOfQueue
  <1> HIDE DEF m, n
  <1>4. ASSUME NEW j \in 1 .. n - 1 PROVE m[j] \in Range(q) \ {q[k]}
    <2>1. CASE j < k
      <3>1. m[j] = q[j] /\ j \in 1 .. n /\ j # k
        BY <1>1, <1>2, <2>1
      <3> QED BY <1>1, <3>1 DEF Range, n
    <2>2. CASE ~(j < k)
      <3>1. m[j] = q[j + 1] /\ j + 1 \in 1 .. n /\ j + 1 # k
        BY <1>1, <1>2, <2>2 DEF n
      <3> QED BY <1>1, <3>1 DEF Range, n
    <2> QED BY <2>1, <2>2
  <1>5. ASSUME NEW j \in 1 .. n, j # k PROVE q[j] \in Range(m)
    <2>1. CASE j < k
      <3>1. j \in 1 .. n - 1 /\ m[j] = q[j]
        BY <1>1, <1>2, <2>1 DEF n
      <3> QED BY <1>3, <3>1 DEF Range
    <2>2. CASE ~(j < k)
      <3>1. j - 1 \in 1 .. n - 1 /\ m[j - 1] = q[j]
        BY <1>1, <1>2, <1>5, <2>2 DEF n
      <3> QED BY <1>3, <3>1 DEF Range
    <2> QED BY <2>1, <2>2
  <1>6. Range(m) \subseteq Range(q) \ {q[k]}
    BY <1>3, <1>4 DEF Range
  <1>7. Range(q) \ {q[k]} \subseteq Range(m)
    BY <1>1, <1>5 DEF Range
  <1> QED BY <1>6, <1>7 DEF m

LEMMA AppendRange ==
  ASSUME NEW q \in Seq(Index), NEW i \in Index
  PROVE  Append(q, i) \in Seq(Index) /\ Range(Append(q, i)) = Range(q) \cup {i}
  <1> DEFINE m == Append(q, i)
             n == Len(q)
  <1>1. n \in Nat /\ DOMAIN q = 1 .. n
    BY RangeOfQueue
  <1>2. /\ m \in Seq(Index) /\ Len(m) = n + 1 /\ m[n + 1] = i
        /\ \A j \in 1 .. n : m[j] = q[j]
    BY AppendProperties
  <1>3. DOMAIN m = 1 .. n + 1
    BY <1>2, RangeOfQueue
  <1> HIDE DEF m, n
  <1>4. \A j \in 1 .. n + 1 : m[j] \in Range(q) \cup {i}
    <2>1. \A j \in 1 .. n + 1 : j \in 1 .. n \/ j = n + 1
      BY <1>1
    <2> QED BY <1>1, <1>2, <2>1 DEF Range
  <1>5. Range(m) \subseteq Range(q) \cup {i}
    BY <1>3, <1>4 DEF Range
  <1>6. \A j \in 1 .. n : j \in 1 .. n + 1 /\ n + 1 \in 1 .. n + 1
    BY <1>1
  <1>7. n + 1 \in 1 .. n + 1
    BY <1>1
  <1>8. Range(q) \cup {i} \subseteq Range(m)
    BY <1>1, <1>2, <1>3, <1>6, <1>7 DEF Range
  <1> QED BY <1>2, <1>5, <1>8 DEF m

\* Totals.
LEMMA TotalSame ==
  ASSUME NEW ns, IsBlock(ns), NEW us, NEW S, S \subseteq Index,
         \A i \in S : us[i].qty = ns[i].qty
  PROVE  TotalQty(us, S) = TotalQty(ns, S)
  <1> DEFINE f == [i \in Index |-> ns[i].qty]
             e == [i \in Index |-> us[i].qty]
  <1>1. IsFiniteSet(S)
    BY SubsetOfIndex
  <1>2. \A i \in S : f[i] \in Int /\ e[i] = f[i]
    BY BlockFields
  <1> HIDE DEF e, f
  <1>3. SumFunctionOnSet(e, S) = SumFunctionOnSet(f, S)
    BY <1>1, <1>2, SumSame
  <1> QED BY <1>3 DEF TotalQty, e, f

LEMMA TotalRemove ==
  ASSUME NEW ns, IsBlock(ns), NEW S, S \subseteq Index, NEW i \in S
  PROVE  /\ TotalQty(ns, S) = ns[i].qty + TotalQty(ns, S \ {i})
         /\ TotalQty(ns, S \ {i}) \in Int
  <1> DEFINE f == [j \in Index |-> ns[j].qty]
  <1>1. IsFiniteSet(S) /\ IsFiniteSet(S \ {i})
    BY SubsetOfIndex
  <1>2. \A j \in S : f[j] \in Int
    BY BlockFields
  <1>3. f[i] = ns[i].qty
    OBVIOUS
  <1> HIDE DEF f
  <1>4. SumFunctionOnSet(f, S) = f[i] + SumFunctionOnSet(f, S \ {i})
    BY <1>1, <1>2, SumRemove
  <1>5. SumFunctionOnSet(f, S \ {i}) \in Int
    BY <1>1, <1>2, SumInt
  <1> QED BY <1>3, <1>4, <1>5 DEF TotalQty, f

LEMMA TotalAdd ==
  ASSUME NEW ns, IsBlock(ns), NEW S, S \subseteq Index, NEW i \in Index \ S
  PROVE  /\ TotalQty(ns, S \cup {i}) = ns[i].qty + TotalQty(ns, S)
         /\ TotalQty(ns, S) \in Int
  <1> DEFINE T == S \cup {i}
  <1>1. T \ {i} = S /\ T \subseteq Index /\ i \in T
    OBVIOUS
  <1> HIDE DEF T
  <1>2. TotalQty(ns, T) = ns[i].qty + TotalQty(ns, T \ {i})
    BY <1>1, TotalRemove
  <1>3. TotalQty(ns, T \ {i}) \in Int
    BY <1>1, TotalRemove, Zenon
  <1> QED BY <1>1, <1>2, <1>3 DEF T

LEMMA DataQty ==
  ASSUME NEW a, NEW b, Data(a) = Data(b)
  PROVE  /\ a.qty = b.qty /\ a.price = b.price
         /\ a.order_id = b.order_id /\ a.user_id = b.user_id
  BY DEF Data

-----------------------------------------------------------------------------
(* The operations, on levels that hold a queue.                            *)

LEMMA RemoveHolds ==
  ASSUME NEW l \in Level, NEW ns, IsBlock(ns), NEW q, Holds(l, ns, q),
         NEW k \in 1 .. Len(q)
  PROVE  LET r == Remove(l, ns, q[k])
         IN  /\ IsBlock(r.nodes) /\ r.level \in Level
             /\ Holds(r.level, r.nodes, Without(q, k))
             /\ Range(Without(q, k)) = Range(q) \ {q[k]}
             /\ OnlyLinksOf(Range(q), r.nodes, ns)
  <1> DEFINE r == Remove(l, ns, q[k])
             i == q[k]
             m == Without(q, k)
             p == ns[i].prev
             n == ns[i].next
  <1>1. q \in Seq(Index) /\ Linked(l, ns, q) /\ l.total_qty = TotalQty(ns, Range(q))
    BY DEF Holds
  <1>2. r.level.count \in Int /\ IsBlock(r.nodes) /\ Linked(r.level, r.nodes, m)
    <2>1. l.count \in Int
      BY DEF Level
    <2> QED BY <1>1, <2>1, RemoveLinks
  <1>3. /\ i \in Range(q) /\ Range(q) \subseteq Index
        /\ Len(q) \in Nat /\ \A j \in 1 .. Len(q) : q[j] \in Range(q)
    BY <1>1, RangeOfQueue
  <1>4. m \in Seq(Index)
    BY <1>1, WithoutElements
  <1>5. \A j, g \in 1 .. Len(q) : q[j] = q[g] => j = g
    BY <1>1 DEF Linked
  <1>6. Range(m) = Range(q) \ {i}
    BY <1>1, <1>5, WithoutRange
  <1>7. p \in Link /\ n \in Link
    BY <1>1, LinkedFacts
  <1>8. p \in Range(q) \cup {NULL_INDEX} /\ n \in Range(q) \cup {NULL_INDEX}
    <2>1. /\ p = IF k = 1 THEN NULL_INDEX ELSE q[k - 1]
          /\ n = IF k = Len(q) THEN NULL_INDEX ELSE q[k + 1]
      BY <1>1 DEF Linked
    <2>2. /\ k # 1 => k - 1 \in 1 .. Len(q)
          /\ k # Len(q) => k + 1 \in 1 .. Len(q)
      BY <1>3
    <2> QED BY <1>3, <2>1, <2>2
  <1>9. OnlyLinksOf(Range(q), r.nodes, ns)
    <2>1. r.nodes = Unlink(ns, i, p, n)
      BY DEF Remove
    <2>2. Unlinked(r.nodes, ns, i, p, n)
      BY <1>3, <1>7, <2>1, UnlinkNodes
    <2>3. \A j \in Index \ Range(q) : j \in Index \ {i, p, n}
      BY <1>3, <1>8, NullNotIndex
    <2> HIDE DEF r, i, p, n
    <2> QED BY <2>2, <2>3 DEF Unlinked, OnlyLinksOf
  <1>10. r.level.total_qty = TotalQty(r.nodes, Range(m))
    <2>1. r.level.total_qty = l.total_qty - ns[i].qty
      BY DEF Remove
    <2>2. TotalQty(ns, Range(q)) = ns[i].qty + TotalQty(ns, Range(m))
          /\ TotalQty(ns, Range(m)) \in Int
      <3> DEFINE S == Range(q)
      <3>1. S \subseteq Index /\ i \in S
        BY <1>3
      <3> HIDE DEF S, i
      <3>2. TotalQty(ns, S) = ns[i].qty + TotalQty(ns, S \ {i})
        BY <3>1, TotalRemove
      <3>3. TotalQty(ns, S \ {i}) \in Int
        BY <3>1, TotalRemove, Zenon
      <3> QED BY <1>6, <3>2, <3>3 DEF S
    <2>3. ns[i].qty \in Int
      BY <1>3, BlockFields
    <2>4. \A j \in Range(m) : r.nodes[j].qty = ns[j].qty
      BY <1>3, <1>6, <1>9, DataQty DEF OnlyLinksOf
    <2>5. TotalQty(r.nodes, Range(m)) = TotalQty(ns, Range(m))
      BY <1>3, <1>6, <2>4, TotalSame
    <2> HIDE DEF r, i, m
    <2> QED BY <1>1, <2>1, <2>2, <2>3, <2>5
  <1>12. r.level \in Level
    <2>1. l.head \in Link /\ l.tail \in Link /\ l.total_qty \in Int /\ l.count \in Int
      BY DEF Level
    <2>2. ns[i].qty \in Int
      BY <1>3, BlockFields
    <2>3. r.level = [head |-> IF p = NULL_INDEX THEN n ELSE l.head,
                     tail |-> IF n = NULL_INDEX THEN p ELSE l.tail,
                     total_qty |-> l.total_qty - ns[i].qty,
                     count |-> l.count - 1]
      BY DEF Remove
    <2> HIDE DEF r, i, p, n
    <2> QED BY <1>7, <2>1, <2>2, <2>3 DEF Level
  <1> HIDE DEF r, m
  <1>11. Holds(r.level, r.nodes, m)
    BY <1>2, <1>4, <1>10 DEF Holds
  <1> QED BY <1>2, <1>6, <1>9, <1>11, <1>12 DEF r, m

LEMMA PushHolds ==
  ASSUME NEW l \in Level, NEW ns, IsBlock(ns), NEW q, Holds(l, ns, q),
         NEW i \in Index, i \notin Range(q)
  PROVE  LET r == PushBack(l, ns, i)
         IN  /\ IsBlock(r.nodes) /\ r.level \in Level
             /\ Holds(r.level, r.nodes, Append(q, i))
             /\ Range(Append(q, i)) = Range(q) \cup {i}
             /\ OnlyLinksOf(Range(q) \cup {i}, r.nodes, ns)
  <1> DEFINE r == PushBack(l, ns, i)
             m == Append(q, i)
  <1>1. q \in Seq(Index) /\ Linked(l, ns, q) /\ l.total_qty = TotalQty(ns, Range(q))
    BY DEF Holds
  <1>2. r.level.count \in Int /\ IsBlock(r.nodes) /\ Linked(r.level, r.nodes, m)
    <2>1. l.count \in Int
      BY DEF Level
    <2> QED BY <1>1, <2>1, PushLinks
  <1>3. /\ Range(q) \subseteq Index
        /\ Len(q) \in Nat /\ \A j \in 1 .. Len(q) : q[j] \in Range(q)
    BY <1>1, RangeOfQueue
  <1>4. m \in Seq(Index) /\ Range(m) = Range(q) \cup {i}
    BY <1>1, AppendRange
  <1>5. l.tail \in Link /\ (l.tail # NULL_INDEX => l.tail \in Range(q))
    <2>1. l.tail \in Link /\ (l.tail # NULL_INDEX => Len(q) > 0 /\ l.tail = q[Len(q)])
      BY <1>1, LinkedFacts
    <2> QED BY <1>3, <2>1
  <1>6. l.tail # i
    BY <1>5, NullNotIndex
  <1>7. Pushed(r.nodes, ns, i, l.tail)
    BY <1>5, <1>6, PushNodes
  <1>8. OnlyLinksOf(Range(q) \cup {i}, r.nodes, ns)
    <2>1. \A j \in Index \ (Range(q) \cup {i}) : j \in Index \ {i, l.tail}
      BY <1>5, NullNotIndex
    <2> HIDE DEF r
    <2> QED BY <1>7, <2>1 DEF Pushed, OnlyLinksOf
  <1>9. r.level.total_qty = TotalQty(r.nodes, Range(m))
    <2>1. r.level.total_qty = l.total_qty + ns[i].qty
      BY DEF PushBack
    <2>2. TotalQty(ns, Range(m)) = ns[i].qty + TotalQty(ns, Range(q))
          /\ TotalQty(ns, Range(q)) \in Int
      BY <1>3, <1>4, TotalAdd
    <2>3. ns[i].qty \in Int
      BY BlockFields
    <2>4. \A j \in Range(m) : j \in Index /\ r.nodes[j].qty = ns[j].qty
      BY <1>3, <1>4, <1>8, DataQty DEF OnlyLinksOf
    <2>5. TotalQty(r.nodes, Range(m)) = TotalQty(ns, Range(m))
      BY <2>4, TotalSame
    <2> HIDE DEF r, m
    <2> QED BY <1>1, <2>1, <2>2, <2>3, <2>5
  <1>11. r.level \in Level
    <2>1. l.head \in Link /\ l.tail \in Link /\ l.total_qty \in Int /\ l.count \in Int
      BY DEF Level
    <2>2. ns[i].qty \in Int /\ i \in Link
      BY BlockFields DEF Link
    <2> QED BY <2>1, <2>2 DEF PushBack, Level
  <1> HIDE DEF r, m
  <1>10. Holds(r.level, r.nodes, m)
    BY <1>2, <1>4, <1>9 DEF Holds
  <1> QED BY <1>2, <1>4, <1>8, <1>10, <1>11 DEF r, m

\* Writing the quantity of a node.
LEMMA QtyBlock ==
  ASSUME NEW ns, IsBlock(ns), NEW i \in Index, NEW qty \in Int
  PROVE  LET us == [ns EXCEPT ![i].qty = qty]
         IN  /\ IsBlock(us)
             /\ us[i].qty = qty
             /\ \A j \in Index : us[j].prev = ns[j].prev /\ us[j].next = ns[j].next
             /\ \A j \in Index \ {i} : us[j] = ns[j]
  <1> DEFINE us == [ns EXCEPT ![i].qty = qty]
  <1>1. PICK P, O, U : ns \in [Index -> NodeType(P, Int, O, U)]
    BY DEF IsBlock
  <1>2. us \in [Index -> NodeType(P, Int, O, U)]
    BY <1>1 DEF NodeType
  <1>3. us[i].qty = qty
    BY <1>1 DEF NodeType
  <1>4. \A j \in Index : us[j].prev = ns[j].prev /\ us[j].next = ns[j].next
    BY <1>1 DEF NodeType
  <1>5. \A j \in Index \ {i} : us[j] = ns[j]
    BY <1>1
  <1> HIDE DEF us
  <1>6. IsBlock(us)
    BY <1>2 DEF IsBlock
  <1> QED BY <1>3, <1>4, <1>5, <1>6 DEF us

\* A node outside the queue may be given any quantity.
LEMMA WriteHolds ==
  ASSUME NEW l, NEW ns, IsBlock(ns), NEW q, Holds(l, ns, q), NEW us,
         \A j \in Range(q) : us[j] = ns[j]
  PROVE  Holds(l, us, q)
  <1>1. q \in Seq(Index) /\ Linked(l, ns, q) /\ l.total_qty = TotalQty(ns, Range(q))
    BY DEF Holds
  <1>2. Linked(l, us, q)
    BY <1>1, SameLinks
  <1>3. TotalQty(us, Range(q)) = TotalQty(ns, Range(q))
    BY <1>1, RangeOfQueue, TotalSame
  <1> QED BY <1>1, <1>2, <1>3 DEF Holds

\* A node in the queue that loses some of its quantity, and the level told so.
LEMMA ReduceHolds ==
  ASSUME NEW l \in Level, NEW ns, IsBlock(ns), NEW q, Holds(l, ns, q),
         NEW i \in Range(q), NEW qty \in Int
  PROVE  /\ Holds(SubtractQty(l, qty), [ns EXCEPT ![i].qty = ns[i].qty - qty], q)
         /\ SubtractQty(l, qty) \in Level
  <1> DEFINE us == [ns EXCEPT ![i].qty = ns[i].qty - qty]
             s == SubtractQty(l, qty)
  <1>1. q \in Seq(Index) /\ Linked(l, ns, q) /\ l.total_qty = TotalQty(ns, Range(q))
    BY DEF Holds
  <1>2. Range(q) \subseteq Index
    BY <1>1, RangeOfQueue
  <1>3. ns[i].qty \in Int /\ ns[i].qty - qty \in Int
    BY <1>2, BlockFields
  <1>4. /\ IsBlock(us) /\ us[i].qty = ns[i].qty - qty
        /\ \A j \in Index : us[j].prev = ns[j].prev /\ us[j].next = ns[j].next
        /\ \A j \in Index \ {i} : us[j] = ns[j]
    BY <1>2, <1>3, QtyBlock
  <1>5. Linked(l, us, q)
    BY <1>1, <1>2, <1>4, SameLinks, Zenon
  <1>6. /\ TotalQty(ns, Range(q)) = ns[i].qty + TotalQty(ns, Range(q) \ {i})
        /\ TotalQty(ns, Range(q) \ {i}) \in Int
        /\ TotalQty(us, Range(q)) = us[i].qty + TotalQty(us, Range(q) \ {i})
        /\ TotalQty(us, Range(q) \ {i}) = TotalQty(ns, Range(q) \ {i})
    <2> DEFINE S == Range(q)
    <2>1. S \subseteq Index /\ i \in S /\ S \ {i} \subseteq Index
      BY <1>2
    <2>2. IsBlock(us) /\ \A j \in S \ {i} : us[j].qty = ns[j].qty
      BY <1>4, <2>1
    <2> HIDE DEF S, us
    <2>3. TotalQty(ns, S) = ns[i].qty + TotalQty(ns, S \ {i})
      BY <2>1, TotalRemove
    <2>4. TotalQty(ns, S \ {i}) \in Int
      BY <2>1, TotalRemove
    <2>5. TotalQty(us, S) = us[i].qty + TotalQty(us, S \ {i})
      BY <2>1, <2>2, TotalRemove
    <2>6. TotalQty(us, S \ {i}) = TotalQty(ns, S \ {i})
      BY <2>1, <2>2, TotalSame
    <2> QED BY <2>3, <2>4, <2>5, <2>6 DEF S
  <1>9. /\ s.count = l.count /\ s.head = l.head /\ s.tail = l.tail
        /\ s.total_qty = l.total_qty - qty
        /\ s \in Level
    BY DEF SubtractQty, Level
  <1> HIDE DEF us, s
  <1>10. s.total_qty = TotalQty(us, Range(q))
    BY <1>1, <1>3, <1>4, <1>6, <1>9
  <1>11. Linked(s, us, q)
    BY <1>5, <1>9 DEF Linked
  <1>12. Holds(s, us, q)
    BY <1>1, <1>10, <1>11 DEF Holds
  <1> QED BY <1>9, <1>12 DEF s, us

LEMMA NewLevelHolds ==
  ASSUME NEW ns
  PROVE  Holds(NewLevel, ns, <<>>) /\ NewLevel \in Level
  <1>1. Range(<<>>) = {}
    BY DEF Range
  <1>2. TotalQty(ns, {}) = 0
    BY SumEmpty DEF TotalQty
  <1>3. Linked(NewLevel, ns, <<>>)
    BY DEF Linked, NewLevel
  <1>4. NewLevel \in Level
    BY DEF NewLevel, Level, Link
  <1> QED BY <1>1, <1>2, <1>3, <1>4 DEF Holds, NewLevel

-----------------------------------------------------------------------------
(* The queue found by following next is the queue that the level holds.    *)

\* What QueueOf puts at place k when at has the places before it.
At(at, l, ns, k) ==
  IF k = 1 THEN l.head
  ELSE IF at[k - 1] \in Index THEN ns[at[k - 1]].next ELSE NULL_INDEX

LEMMA QueueOfPlaces ==
  ASSUME NEW l, l.count \in Nat, NEW ns
  PROVE  QueueOf(l, ns) = [k \in 1 .. l.count |-> At(QueueOf(l, ns), l, ns, k)]
  <1> DEFINE Table(g, n) == g = [k \in 1 .. n |-> At(g, l, ns, k)]
             N == {n \in Nat : \E g : Table(g, n)}
  <1>1. 0 \in N
    <2> DEFINE g == [k \in 1 .. 0 |-> 0]
    <2>1. Table(g, 0)
      OBVIOUS
    <2> HIDE DEF g, Table
    <2> QED BY <2>1
  <1>2. ASSUME NEW n \in Nat, n \in N PROVE n + 1 \in N
    <2>1. PICK g : Table(g, n)
      BY <1>2
    <2> DEFINE h == [k \in 1 .. n + 1 |-> At(g, l, ns, k)]
    <2>2. \A k \in 1 .. n : h[k] = g[k]
      BY <2>1
    <2>3. \A k \in 1 .. n + 1 : At(h, l, ns, k) = At(g, l, ns, k)
      <3>1. \A k \in 1 .. n + 1 : k # 1 => k - 1 \in 1 .. n
        OBVIOUS
      <3> HIDE DEF h
      <3> QED BY <2>2, <3>1 DEF At
    <2>4. Table(h, n + 1)
      <3>1. h = [k \in 1 .. n + 1 |-> At(g, l, ns, k)]
        OBVIOUS
      <3> HIDE DEF h
      <3> QED BY <2>3, <3>1
    <2> HIDE DEF h, Table
    <2> QED BY <2>4
  <1>3. l.count \in N
    <2> HIDE DEF N
    <2> QED BY <1>1, <1>2, NatInduct
  <1> DEFINE at == CHOOSE g : Table(g, l.count)
  <1>4. Table(at, l.count)
    BY <1>3, Zenon
  <1>5. QueueOf(l, ns) = at
    BY DEF QueueOf, At
  <1> HIDE DEF at
  <1> QED BY <1>4, <1>5, Zenon

LEMMA QueueIsHeld ==
  ASSUME NEW l, NEW ns, NEW q \in Seq(Index), Linked(l, ns, q)
  PROVE  QueueOf(l, ns) = q
  <1> DEFINE at == QueueOf(l, ns)
             N == {n \in Nat : \A k \in 1 .. Len(q) : k <= n => at[k] = q[k]}
  <1>1. Len(q) \in Nat /\ DOMAIN q = 1 .. Len(q) /\ l.count = Len(q)
        /\ \A k \in 1 .. Len(q) : q[k] \in Index
    BY LenProperties, ElementOfSeq DEF Linked
  <1>2. at = [k \in 1 .. Len(q) |-> At(at, l, ns, k)]
    BY <1>1, QueueOfPlaces
  <1> HIDE DEF at
  <1>3. Len(q) # 0 => l.head = q[1]
    BY DEF Linked
  <1>4. \A k \in 1 .. Len(q) :
          ns[q[k]].next = IF k = Len(q) THEN NULL_INDEX ELSE q[k + 1]
    BY DEF Linked
  <1>5. 0 \in N
    BY <1>1
  <1>6. ASSUME NEW n \in Nat, n \in N PROVE n + 1 \in N
    <2> SUFFICES ASSUME NEW k \in 1 .. Len(q), k <= n + 1 PROVE at[k] = q[k]
      OBVIOUS
    <2>1. at[k] = At(at, l, ns, k)
      BY <1>2, Zenon
    <2>2. CASE k = 1
      BY <1>1, <1>3, <2>1, <2>2 DEF At
    <2>3. CASE k # 1
      <3>1. k - 1 \in 1 .. Len(q) /\ k - 1 <= n /\ k - 1 + 1 = k /\ k - 1 # Len(q)
        BY <1>1, <2>3
      <3>2. at[k - 1] = q[k - 1] /\ q[k - 1] \in Index
        BY <1>1, <1>6, <3>1
      <3>3. at[k] = ns[q[k - 1]].next
        BY <2>1, <2>3, <3>2 DEF At
      <3> QED BY <1>4, <3>1, <3>3
    <2> QED BY <2>2, <2>3
  <1>7. Len(q) \in N
    <2> HIDE DEF N
    <2> QED BY <1>1, <1>5, <1>6, NatInduct
  <1>8. \A k \in 1 .. Len(q) : at[k] = q[k]
    BY <1>1, <1>7
  <1>9. DOMAIN at = 1 .. Len(q) /\ at = [k \in DOMAIN at |-> at[k]]
    BY <1>2
  <1>10. q = [k \in 1 .. Len(q) |-> q[k]]
    BY <1>1
  <1>11. at = q
    BY <1>8, <1>9, <1>10
  <1> QED BY <1>11 DEF at

\* A level is sound when it holds a queue that is not empty: the one found.
LEMMA SoundHolds ==
  ASSUME NEW l \in Level, NEW ns, LevelSound(l, ns)
  PROVE  Holds(l, ns, QueueOf(l, ns)) /\ Len(QueueOf(l, ns)) > 0
  <1> DEFINE q == QueueOf(l, ns)
             n == l.count
  <1>1. n \in Nat /\ n > 0
    BY DEF LevelSound, Level
  <1>2. q = [k \in 1 .. n |-> At(q, l, ns, k)]
    BY <1>1, QueueOfPlaces
  <1>3. /\ \A k \in DOMAIN q : q[k] \in Index
        /\ \A j, k \in DOMAIN q : q[j] = q[k] => j = k
        /\ l.tail = q[n]
        /\ ns[l.tail].next = NULL_INDEX
        /\ \A k \in DOMAIN q :
             ns[q[k]].prev = IF k = 1 THEN NULL_INDEX ELSE q[k - 1]
        /\ l.total_qty = TotalQty(ns, Range(q))
    BY DEF LevelSound
  <1> HIDE DEF q, n
  <1>4. DOMAIN q = 1 .. n /\ \A k \in 1 .. n : q[k] = At(q, l, ns, k)
    BY <1>2, Zenon
  <1>5. q \in [1 .. n -> Index]
    BY <1>2, <1>3, <1>4
  <1>6. q \in Seq(Index) /\ Len(q) = n
    BY <1>1, <1>5
  <1>7. l.head = q[1]
    BY <1>1, <1>4 DEF At
  <1>8. ASSUME NEW k \in 1 .. n
        PROVE  ns[q[k]].next = IF k = n THEN NULL_INDEX ELSE q[k + 1]
    <2>1. CASE k = n
      BY <1>3, <2>1
    <2>2. CASE k # n
      <3>1. k + 1 \in 1 .. n /\ k + 1 # 1 /\ k + 1 - 1 = k
        BY <1>1, <2>2
      <3>2. q[k] \in Index
        BY <1>3, <1>4
      <3>3. q[k + 1] = At(q, l, ns, k + 1)
        BY <1>4, <3>1
      <3>4. q[k + 1] = ns[q[k]].next
        BY <3>1, <3>2, <3>3 DEF At
      <3> QED BY <2>2, <3>4
    <2> QED BY <2>1, <2>2
  <1>9. Linked(l, ns, q)
    <2>1. n # 0 /\ l.count = n
      BY <1>1 DEF n
    <2>2. \A j, k \in 1 .. n : q[j] = q[k] => j = k
      BY <1>3, <1>4
    <2>3. \A k \in 1 .. n :
            /\ ns[q[k]].prev = IF k = 1 THEN NULL_INDEX ELSE q[k - 1]
            /\ ns[q[k]].next = IF k = n THEN NULL_INDEX ELSE q[k + 1]
      BY <1>3, <1>4, <1>8
    <2> QED BY <1>3, <1>6, <1>7, <2>1, <2>2, <2>3 DEF Linked
  <1> QED BY <1>1, <1>3, <1>6, <1>9 DEF Holds, q

LEMMA HoldsSound ==
  ASSUME NEW l, NEW ns, NEW q, Holds(l, ns, q), Len(q) > 0
  PROVE  LevelSound(l, ns) /\ QueueOf(l, ns) = q
  <1>1. q \in Seq(Index) /\ Linked(l, ns, q) /\ l.total_qty = TotalQty(ns, Range(q))
    BY DEF Holds
  <1>2. QueueOf(l, ns) = q
    BY <1>1, QueueIsHeld
  <1>3. /\ Len(q) \in Nat /\ DOMAIN q = 1 .. Len(q) /\ Len(q) \in 1 .. Len(q)
        /\ \A k \in 1 .. Len(q) : q[k] \in Index
    BY <1>1, LenProperties, ElementOfSeq
  <1>4. /\ l.count = Len(q) /\ l.tail = q[Len(q)]
        /\ \A j, k \in 1 .. Len(q) : q[j] = q[k] => j = k
        /\ \A k \in 1 .. Len(q) :
             /\ ns[q[k]].prev = IF k = 1 THEN NULL_INDEX ELSE q[k - 1]
             /\ ns[q[k]].next = IF k = Len(q) THEN NULL_INDEX ELSE q[k + 1]
    BY <1>1 DEF Linked
  <1>5. ns[l.tail].next = NULL_INDEX
    BY <1>3, <1>4, Zenon
  <1>6. LevelSound(l, ns)
    BY <1>1, <1>2, <1>3, <1>4, <1>5, Zenon DEF LevelSound
  <1> QED BY <1>2, <1>6

-----------------------------------------------------------------------------
(* The same of the set of the nodes that are queued, for users that do not *)
(* look at the order.                                                      *)

\* The level is sound, and the nodes of its queue are those of S.
QueueOn(l, ns, S) == LevelSound(l, ns) /\ Range(QueueOf(l, ns)) = S

LEMMA QueueOnHolds ==
  ASSUME NEW l \in Level, NEW ns, NEW S, QueueOn(l, ns, S)
  PROVE  \E q \in Seq(Index) : Holds(l, ns, q) /\ Len(q) > 0 /\ Range(q) = S
  <1> DEFINE q == QueueOf(l, ns)
  <1>1. Holds(l, ns, q) /\ Len(q) > 0 /\ Range(q) = S
    BY SoundHolds DEF QueueOn
  <1>2. q \in Seq(Index)
    BY <1>1 DEF Holds
  <1> QED BY <1>1, <1>2

LEMMA HoldsQueueOn ==
  ASSUME NEW l, NEW ns, NEW q, Holds(l, ns, q), Len(q) > 0
  PROVE  QueueOn(l, ns, Range(q))
  BY HoldsSound DEF QueueOn

LEMMA QueueOnFacts ==
  ASSUME NEW l \in Level, NEW ns, IsBlock(ns), NEW S, QueueOn(l, ns, S)
  PROVE  /\ S \subseteq Index
         /\ l.head \in S /\ l.head # NULL_INDEX
         /\ ~IsEmpty(l)
         /\ l.count \in 1 .. Capacity
         /\ l.total_qty = TotalQty(ns, S)
         /\ PopFront(l, ns) = Remove(l, ns, l.head)
  <1>1. PICK q \in Seq(Index) : Holds(l, ns, q) /\ Len(q) > 0 /\ Range(q) = S
    BY QueueOnHolds
  <1>2. Linked(l, ns, q) /\ l.total_qty = TotalQty(ns, S)
    BY <1>1 DEF Holds
  <1>3. /\ S \subseteq Index /\ Len(q) \in Nat
        /\ \A k \in 1 .. Len(q) : q[k] \in S
    BY <1>1, RangeOfQueue
  <1>4. 1 \in 1 .. Len(q) /\ l.head = q[1] /\ l.count = Len(q)
    BY <1>1, <1>2, <1>3 DEF Linked
  <1>5. l.head \in S /\ l.head # NULL_INDEX
    BY <1>3, <1>4, NullNotIndex
  <1>6. PopFront(l, ns) = Remove(l, ns, l.head)
    BY <1>2, <1>4, <1>5, PopIsRemove
  <1>7. Len(q) <= Capacity
    <2>1. \A j, k \in 1 .. Len(q) : q[j] = q[k] => j = k
      BY <1>2 DEF Linked
    <2>2. q \in [1 .. Len(q) -> S]
      BY <1>3, LenProperties
    <2>3. q \in Injection(1 .. Len(q), S)
      BY <2>1, <2>2 DEF Injection, IsInjective
    <2>4. IsFiniteSet(1 .. Len(q)) /\ Cardinality(1 .. Len(q)) = Len(q)
      <3>1. 1 \in Int /\ Len(q) \in Int
        BY <1>3
      <3>2. Cardinality(1 .. Len(q)) = IF 1 > Len(q) THEN 0 ELSE Len(q) - 1 + 1
        BY <3>1, FS_Interval
      <3>3. IsFiniteSet(1 .. Len(q))
        BY <3>1, FS_Interval
      <3> QED BY <1>3, <1>4, <3>2, <3>3
    <2>5. IsFiniteSet(S) /\ Cardinality(S) \in Nat /\ Cardinality(S) <= Capacity
      BY <1>3, SubsetOfIndex
    <2>6. Cardinality(1 .. Len(q)) <= Cardinality(S)
      BY <2>3, <2>4, <2>5, FS_Injection DEF ExistsInjection
    <2> QED BY <1>3, <2>4, <2>5, <2>6, CapacityAssumption
  <1>8. l.count \in 1 .. Capacity /\ ~IsEmpty(l)
    BY <1>1, <1>3, <1>4, <1>7, CapacityAssumption DEF IsEmpty
  <1> QED BY <1>2, <1>3, <1>5, <1>6, <1>8

LEMMA QueueOnRemove ==
  ASSUME NEW l \in Level, NEW ns, IsBlock(ns), NEW S, QueueOn(l, ns, S),
         NEW i \in S
  PROVE  LET r == Remove(l, ns, i)
         IN  /\ IsBlock(r.nodes) /\ r.level \in Level
             /\ IsEmpty(r.level) <=> S = {i}
             /\ S # {i} => QueueOn(r.level, r.nodes, S \ {i})
             /\ OnlyLinksOf(S, r.nodes, ns)
  <1> DEFINE r == Remove(l, ns, i)
  <1>1. PICK q \in Seq(Index) : Holds(l, ns, q) /\ Len(q) > 0 /\ Range(q) = S
    BY QueueOnHolds
  <1>2. DOMAIN q = 1 .. Len(q)
    BY RangeOfQueue
  <1>3. PICK k \in 1 .. Len(q) : q[k] = i
    BY <1>1, <1>2 DEF Range
  <1> DEFINE m == Without(q, k)
  <1>4. /\ IsBlock(r.nodes) /\ r.level \in Level
        /\ Holds(r.level, r.nodes, m)
        /\ Range(m) = S \ {i}
        /\ OnlyLinksOf(S, r.nodes, ns)
    BY <1>1, <1>3, RemoveHolds
  <1> HIDE DEF r, m
  <1>5. m \in Seq(Index) /\ r.level.count = Len(m)
    BY <1>4 DEF Holds, Linked
  <1>6. Len(m) \in Nat /\ (Len(m) = 0 <=> S \ {i} = {})
    BY <1>4, <1>5, RangeOfQueue
  <1>7. S \ {i} = {} <=> S = {i}
    OBVIOUS
  <1>8. IsEmpty(r.level) <=> S = {i}
    BY <1>5, <1>6, <1>7 DEF IsEmpty
  <1>9. ASSUME S # {i} PROVE QueueOn(r.level, r.nodes, S \ {i})
    <2>1. Len(m) > 0
      BY <1>6, <1>7, <1>9
    <2> QED BY <1>4, <2>1, HoldsQueueOn, Zenon
  <1> QED BY <1>4, <1>8, <1>9 DEF r

LEMMA QueueOnPush ==
  ASSUME NEW l \in Level, NEW ns, IsBlock(ns), NEW S,
         QueueOn(l, ns, S) \/ (l = NewLevel /\ S = {}),
         NEW i \in Index \ S
  PROVE  LET r == PushBack(l, ns, i)
         IN  /\ IsBlock(r.nodes) /\ r.level \in Level
             /\ QueueOn(r.level, r.nodes, S \cup {i})
             /\ OnlyLinksOf(S \cup {i}, r.nodes, ns)
  <1> DEFINE r == PushBack(l, ns, i)
  <1>1. \E q \in Seq(Index) : Holds(l, ns, q) /\ Range(q) = S
    <2>1. CASE QueueOn(l, ns, S)
      BY <2>1, QueueOnHolds
    <2>2. CASE l = NewLevel /\ S = {}
      <3>1. <<>> \in Seq(Index) /\ Range(<<>>) = {}
        BY DEF Range
      <3>2. Holds(NewLevel, ns, <<>>)
        BY NewLevelHolds
      <3> QED BY <2>2, <3>1, <3>2, Zenon
    <2> QED BY <2>1, <2>2
  <1>2. PICK q \in Seq(Index) : Holds(l, ns, q) /\ Range(q) = S
    BY <1>1
  <1> DEFINE m == Append(q, i)
  <1>3. /\ IsBlock(r.nodes) /\ r.level \in Level
        /\ Holds(r.level, r.nodes, m)
        /\ Range(m) = S \cup {i}
        /\ OnlyLinksOf(S \cup {i}, r.nodes, ns)
    <2>1. i \in Index /\ i \notin Range(q)
      BY <1>2
    <2>2. /\ IsBlock(r.nodes) /\ r.level \in Level
          /\ Holds(r.level, r.nodes, m)
          /\ Range(m) = Range(q) \cup {i}
          /\ OnlyLinksOf(Range(q) \cup {i}, r.nodes, ns)
      BY <1>2, <2>1, PushHolds, Zenon
    <2> HIDE DEF r, m
    <2> QED BY <1>2, <2>2
  <1>4. Len(m) > 0
    BY <1>2, LenProperties, AppendProperties
  <1> HIDE DEF r, m
  <1>5. QueueOn(r.level, r.nodes, S \cup {i})
    BY <1>3, <1>4, HoldsQueueOn, Zenon
  <1> QED BY <1>3, <1>5 DEF r

LEMMA QueueOnWrite ==
  ASSUME NEW l \in Level, NEW ns, IsBlock(ns), NEW S, QueueOn(l, ns, S), NEW us,
         \A j \in S : us[j] = ns[j]
  PROVE  QueueOn(l, us, S)
  <1>1. PICK q \in Seq(Index) : Holds(l, ns, q) /\ Len(q) > 0 /\ Range(q) = S
    BY QueueOnHolds
  <1>2. Holds(l, us, q)
    BY <1>1, WriteHolds
  <1> QED BY <1>1, <1>2, HoldsQueueOn

LEMMA QueueOnReduce ==
  ASSUME NEW l \in Level, NEW ns, IsBlock(ns), NEW S, QueueOn(l, ns, S),
         NEW i \in S, NEW qty \in Int
  PROVE  /\ SubtractQty(l, qty) \in Level
         /\ QueueOn(SubtractQty(l, qty),
                    [ns EXCEPT ![i].qty = ns[i].qty - qty], S)
  <1> DEFINE s == SubtractQty(l, qty)
             us == [ns EXCEPT ![i].qty = ns[i].qty - qty]
  <1>1. PICK q \in Seq(Index) : Holds(l, ns, q) /\ Len(q) > 0 /\ Range(q) = S
    BY QueueOnHolds
  <1>2. i \in Range(q)
    BY <1>1
  <1>3. s \in Level /\ Holds(s, us, q)
    BY <1>1, <1>2, ReduceHolds
  <1> HIDE DEF s, us
  <1>4. QueueOn(s, us, S)
    BY <1>1, <1>3, HoldsQueueOn
  <1> QED BY <1>3, <1>4 DEF s, us

-----------------------------------------------------------------------------
(* And of the queue itself, for those that do.                              *)

LEMMA QueueFacts ==
  ASSUME NEW l \in Level, NEW ns, NEW S, QueueOn(l, ns, S)
  PROVE  LET q == QueueOf(l, ns)
         IN  /\ q \in Seq(Index) /\ Len(q) \in Nat /\ Len(q) > 0
             /\ DOMAIN q = 1 .. Len(q)
             /\ q[1] = l.head /\ Range(q) = S
             /\ \A k \in 1 .. Len(q) : q[k] \in S
             /\ \A j, k \in 1 .. Len(q) : q[j] = q[k] => j = k
             /\ l.count = Len(q)
  <1> DEFINE q == QueueOf(l, ns)
  <1>1. Holds(l, ns, q) /\ Len(q) > 0 /\ Range(q) = S
    BY SoundHolds DEF QueueOn
  <1> HIDE DEF q
  <1>2. q \in Seq(Index) /\ Linked(l, ns, q)
    BY <1>1 DEF Holds
  <1>3. Len(q) \in Nat /\ DOMAIN q = 1 .. Len(q) /\ \A k \in 1 .. Len(q) : q[k] \in S
    BY <1>1, <1>2, RangeOfQueue
  <1>4. /\ l.head = q[1] /\ l.count = Len(q)
        /\ \A j, k \in 1 .. Len(q) : q[j] = q[k] => j = k
    <2>1. /\ l.count = Len(q)
          /\ l.head = IF Len(q) = 0 THEN NULL_INDEX ELSE q[1]
          /\ \A j, k \in 1 .. Len(q) : q[j] = q[k] => j = k
      BY <1>2, Zenon DEF Linked
    <2> QED BY <1>1, <1>3, <2>1
  <1> QED BY <1>1, <1>2, <1>3, <1>4 DEF q

LEMMA QueueRemove ==
  ASSUME NEW l \in Level, NEW ns, IsBlock(ns), NEW S, QueueOn(l, ns, S),
         NEW k \in 1 .. Len(QueueOf(l, ns))
  PROVE  LET q == QueueOf(l, ns)
             r == Remove(l, ns, q[k])
         IN  QueueOf(r.level, r.nodes) = Without(q, k)
  <1> DEFINE q == QueueOf(l, ns)
             r == Remove(l, ns, q[k])
  <1>1. Holds(l, ns, q)
    BY SoundHolds DEF QueueOn
  <1>2. Holds(r.level, r.nodes, Without(q, k))
    <2>1. k \in 1 .. Len(q)
      OBVIOUS
    <2> HIDE DEF q
    <2> QED BY <1>1, <2>1, RemoveHolds
  <1> HIDE DEF q, r
  <1>3. QueueOf(r.level, r.nodes) = Without(q, k)
    BY <1>2, QueueIsHeld DEF Holds
  <1> QED BY <1>3 DEF q, r

LEMMA QueuePush ==
  ASSUME NEW l \in Level, NEW ns, IsBlock(ns), NEW S,
         QueueOn(l, ns, S) \/ (l = NewLevel /\ S = {}),
         NEW i \in Index \ S
  PROVE  LET r == PushBack(l, ns, i)
         IN  QueueOf(r.level, r.nodes) = Append(QueueOf(l, ns), i)
  <1> DEFINE q == QueueOf(l, ns)
             r == PushBack(l, ns, i)
  <1>1. Holds(l, ns, q) /\ Range(q) = S
    <2>1. CASE QueueOn(l, ns, S)
      BY <2>1, SoundHolds DEF QueueOn
    <2>2. CASE l = NewLevel /\ S = {}
      <3>1. <<>> \in Seq(Index) /\ Range(<<>>) = {}
        BY DEF Range
      <3>2. Holds(NewLevel, ns, <<>>)
        BY NewLevelHolds
      <3>3. QueueOf(NewLevel, ns) = <<>>
        BY <3>1, <3>2, QueueIsHeld, Zenon DEF Holds
      <3> QED BY <2>2, <3>1, <3>2, <3>3
    <2> QED BY <2>1, <2>2
  <1>2. Holds(r.level, r.nodes, Append(q, i))
    <2> HIDE DEF q
    <2> QED BY <1>1, PushHolds, Zenon
  <1> HIDE DEF q, r
  <1>3. QueueOf(r.level, r.nodes) = Append(q, i)
    BY <1>2, QueueIsHeld, Zenon DEF Holds
  <1> QED BY <1>3 DEF q, r

LEMMA QueueWrite ==
  ASSUME NEW l \in Level, NEW ns, IsBlock(ns), NEW S, QueueOn(l, ns, S), NEW us,
         \A j \in S : us[j] = ns[j]
  PROVE  QueueOf(l, us) = QueueOf(l, ns)
  <1> DEFINE q == QueueOf(l, ns)
  <1>1. Holds(l, ns, q) /\ Range(q) = S
    BY SoundHolds DEF QueueOn
  <1> HIDE DEF q
  <1>2. Holds(l, us, q)
    BY <1>1, WriteHolds
  <1>3. QueueOf(l, us) = q
    BY <1>2, QueueIsHeld DEF Holds
  <1> QED BY <1>3 DEF q

LEMMA QueueReduce ==
  ASSUME NEW l \in Level, NEW ns, IsBlock(ns), NEW S, QueueOn(l, ns, S),
         NEW i \in S, NEW qty \in Int
  PROVE  QueueOf(SubtractQty(l, qty), [ns EXCEPT ![i].qty = ns[i].qty - qty])
           = QueueOf(l, ns)
  <1> DEFINE q == QueueOf(l, ns)
             s == SubtractQty(l, qty)
             us == [ns EXCEPT ![i].qty = ns[i].qty - qty]
  <1>1. Holds(l, ns, q) /\ Range(q) = S
    BY SoundHolds DEF QueueOn
  <1> HIDE DEF q
  <1>2. Holds(s, us, q)
    BY <1>1, ReduceHolds
  <1> HIDE DEF s, us
  <1>3. QueueOf(s, us) = q
    BY <1>2, QueueIsHeld DEF Holds
  <1> QED BY <1>3 DEF q, s, us
=============================================================================
