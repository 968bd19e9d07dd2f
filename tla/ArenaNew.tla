------------------------------ MODULE ArenaNew ------------------------------
(***************************************************************************)
(* Arena::new (src/arena.rs) step by step, for every u32 it may be called  *)
(* with: the assertion, the loop that threads the free list, the last      *)
(* link.  The range of the loop ends at capacity - 1 in u32 arithmetic:    *)
(* a build with overflow checks panics when that underflows, one without   *)
(* wraps around, and then indexes past the end of the block.               *)
(***************************************************************************)
EXTENDS Word, Sequences

VARIABLES
  capacity,   \* the argument
  checks,     \* the build checks for overflow
  pc,         \* "start", "loop", "done" or "panicked"
  i,          \* loop variable
  next,       \* next field of the nodes, by index
  free_head

newVars == <<capacity, checks, pc, i, next, free_head>>

\* The block that Arena.tla starts from, for this capacity.
Block == INSTANCE Arena WITH Capacity <- capacity

NewInit ==
  /\ capacity \in U32
  /\ checks \in BOOLEAN
  /\ pc = "start"
  /\ i = 0
  /\ next = <<>>
  /\ free_head = Block!NULL_INDEX

\* Mutant of Start: the assertion is off by one.
StartStrict ==
  /\ pc = "start"
  /\ IF capacity >= Block!NULL_INDEX - 1 \/ (capacity = 0 /\ checks)
     THEN pc' = "panicked" /\ UNCHANGED next
     ELSE pc' = "loop" /\ next' = [k \in 0 .. capacity - 1 |-> Block!NULL_INDEX]
  /\ UNCHANGED <<capacity, checks, i, free_head>>

\* The assertion, the vec! of empty nodes, and the bound of the loop.
Start ==
  /\ pc = "start"
  /\ IF capacity >= Block!NULL_INDEX \/ (capacity = 0 /\ checks)
     THEN pc' = "panicked" /\ UNCHANGED next
     ELSE pc' = "loop" /\ next' = [k \in 0 .. capacity - 1 |-> Block!NULL_INDEX]
  /\ UNCHANGED <<capacity, checks, i, free_head>>

\* Mutant of LoopEnd: one link too few.
LoopEndShort == (capacity - 2) % (U32_MAX + 1)

LoopEnd == (capacity - 1) % (U32_MAX + 1)

Thread ==
  /\ pc = "loop" /\ i < LoopEnd
  /\ IF i \in DOMAIN next
     THEN next' = [next EXCEPT ![i] = i + 1] /\ i' = i + 1 /\ UNCHANGED pc
     ELSE pc' = "panicked" /\ UNCHANGED <<next, i>>
  /\ UNCHANGED <<capacity, checks, free_head>>

Finish ==
  /\ pc = "loop" /\ i >= LoopEnd
  /\ next' = IF capacity > 0 THEN [next EXCEPT ![capacity - 1] = Block!NULL_INDEX]
             ELSE next
  /\ free_head' = IF capacity > 0 THEN 0 ELSE Block!NULL_INDEX
  /\ pc' = "done"
  /\ UNCHANGED <<capacity, checks, i>>

NewNext == Start \/ Thread \/ Finish

NewSpec == NewInit /\ [][NewNext]_newVars /\ WF_newVars(NewNext)

-----------------------------------------------------------------------------

\* The constructor, once done, has built the NewArena of Arena.tla: the free
\* list runs through all nodes in index order.
BuildsNewArena ==
  pc = "done" =>
    /\ free_head = Block!NewArena.free_head
    /\ next = [k \in DOMAIN next |-> Block!NewArena.nodes[k].next]
    /\ DOMAIN next = Block!Index

\* Every positive capacity below Block!NULL_INDEX is served.
ServesPositive ==
  (capacity > 0 /\ capacity < Block!NULL_INDEX) ~> (pc = "done")

\* arena.rs:160 has the constructor panic if the capacity exceeds
\* u32::MAX - 1, and arena.rs:173 and 179 provide for a capacity of zero.
PanicsAsDocumented == pc = "panicked" => capacity > U32_MAX - 1
=============================================================================
