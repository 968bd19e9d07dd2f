-------------------------------- MODULE Arena --------------------------------
(***************************************************************************)
(* The slab allocator of src/arena.rs: a fixed block of order nodes and a  *)
(* free list threaded through the next field of the unused ones.  An arena *)
(* is a record                                                             *)
(*     nodes            the block, one OrderNode per index                 *)
(*     free_head        first free node, or NULL_INDEX                     *)
(*     allocated_count  number of nodes handed out                         *)
(* and the operators below give the arena a call leaves behind.            *)
(***************************************************************************)
EXTENDS Word, FiniteSets

CONSTANT Capacity   \* number of nodes, fixed when the arena is built

\* Arena::new asserts capacity < NULL_INDEX; that a capacity of zero never
\* gets past the constructor is shown in ArenaNew.
ASSUME CapacityAssumption == Capacity \in Nat \ {0} /\ Capacity < U32_MAX

NULL_INDEX == U32_MAX

Index == 0 .. Capacity - 1

Link == Index \cup {NULL_INDEX}

EmptyNode ==
  [price |-> 0, qty |-> 0, order_id |-> 0, user_id |-> 0,
   next |-> NULL_INDEX, prev |-> NULL_INDEX]

\* Mutant of NewArena: the last node is linked past the end of the block.
ThreadPastEnd ==
  [nodes |-> [i \in Index |-> [EmptyNode EXCEPT !.next = i + 1]],
   free_head |-> 0,
   allocated_count |-> 0]

NewArena ==
  [nodes |-> [i \in Index |->
                [EmptyNode EXCEPT
                   !.next = IF i = Capacity - 1 THEN NULL_INDEX ELSE i + 1]],
   free_head |-> 0,
   allocated_count |-> 0]

IsFull(a) == a.free_head = NULL_INDEX

\* Mutant of Alloc: the node is not counted.
AllocUncounted(a) ==
  [nodes |-> [a.nodes EXCEPT ![a.free_head].next = NULL_INDEX,
                             ![a.free_head].prev = NULL_INDEX],
   free_head |-> a.nodes[a.free_head].next,
   allocated_count |-> a.allocated_count]

\* The arena after a successful alloc, which returns a.free_head; alloc
\* returns None and changes nothing when IsFull(a).
Alloc(a) ==
  LET i == a.free_head
  IN  [nodes |-> [a.nodes EXCEPT ![i].next = NULL_INDEX,
                                 ![i].prev = NULL_INDEX],
       free_head |-> a.nodes[i].next,
       allocated_count |-> a.allocated_count + 1]

\* Mutant of Free: the reset comes last and undoes the link.
FreeUnlinked(a, i) ==
  [nodes |-> [a.nodes EXCEPT ![i] = EmptyNode],
   free_head |-> i,
   allocated_count |-> a.allocated_count - 1]

\* The arena after free(i): the node is reset and becomes the new free head.
Free(a, i) ==
  [nodes |-> [a.nodes EXCEPT ![i] = [EmptyNode EXCEPT !.next = a.free_head]],
   free_head |-> i,
   allocated_count |-> a.allocated_count - 1]

-----------------------------------------------------------------------------
(* What the arena's users say about it.                                    *)

\* OrderNode and Arena, by the sets their data fields range over.
NodeType(P, Q, O, U) ==
  [price : P, qty : Q, order_id : O, user_id : U, next : Link, prev : Link]

ArenaType(P, Q, O, U) ==
  [nodes : [Index -> NodeType(P, Q, O, U)],
   free_head : Link, allocated_count : Int]

\* s lists the free nodes in the order alloc will hand them out.
FreeList(a, s) ==
  /\ \A j, k \in DOMAIN s : s[j] = s[k] => j = k
  /\ a.free_head = IF DOMAIN s = {} THEN NULL_INDEX ELSE s[1]
  /\ \A k \in DOMAIN s :
       a.nodes[s[k]].next = IF k + 1 \in DOMAIN s THEN s[k + 1] ELSE NULL_INDEX

\* The free list is a duplicate-free chain of exactly the nodes of S.
FreeListOf(a, S) == \E s \in [1 .. Cardinality(S) -> S] : FreeList(a, s)
=============================================================================
