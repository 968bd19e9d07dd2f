---------------------------- MODULE ArenaClient ----------------------------
(***************************************************************************)
(* The arena under the most general client that keeps its side of the      *)
(* contract in src/arena.rs ("the caller must ensure the index was         *)
(* previously allocated and has not already been freed"): it allocates,    *)
(* frees what it holds, and writes what it likes, links included, into the *)
(* nodes it holds.  The price levels of the engine are such a client.      *)
(***************************************************************************)
EXTENDS Arena

VARIABLES
  arena,
  held      \* the indices handed out by alloc and not freed yet

vars == <<arena, held>>

Init ==
  /\ arena = NewArena
  /\ held = {}

AllocNode ==
  /\ ~IsFull(arena)
  /\ arena' = Alloc(arena)
  /\ held' = held \cup {arena.free_head}

FreeNode(i) ==
  /\ arena' = Free(arena, i)
  /\ held' = held \ {i}

\* get_mut: the client links a node it holds.
WriteLinks(i, next, prev) ==
  /\ arena' = [arena EXCEPT !.nodes[i] = [@ EXCEPT !.next = next, !.prev = prev]]
  /\ UNCHANGED held

Next ==
  \/ AllocNode
  \/ \E i \in held : FreeNode(i)
  \/ \E i \in held, next, prev \in Link : WriteLinks(i, next, prev)

Spec == Init /\ [][Next]_vars

-----------------------------------------------------------------------------

\* Types of the arena fields and of the client's set.
TypeOK ==
  /\ arena \in ArenaType({0}, {0}, {0}, {0})
  /\ arena.allocated_count \in U32
  /\ held \subseteq Index

\* The free list is a duplicate-free chain of exactly the nodes the client
\* does not hold, whatever the client writes into the nodes it holds: alloc
\* never hands out a node that is in use, and no node is ever lost.
FreeListSound == FreeListOf(arena, Index \ held)

\* alloc says "full" exactly when every node is in use, and the count that
\* free() decrements without a check is the number of nodes in use.
CountExact ==
  /\ arena.allocated_count = Cardinality(held)
  /\ IsFull(arena) <=> held = Index
=============================================================================
