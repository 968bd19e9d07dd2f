----------------------------- MODULE ArenaLife ------------------------------
(***************************************************************************)
(* The life of an arena (src/arena.rs): Arena::new, called with any u32 in *)
(* either kind of build, and then, if it returns with room for Capacity    *)
(* nodes, the client.  That the arena the client starts from is the one    *)
(* the constructor leaves is BuildsNewArena.                               *)
(***************************************************************************)
EXTENDS ArenaClient, ArenaNew

LifeInit == NewInit /\ Init

Construct == NewNext /\ UNCHANGED vars

Use ==
  /\ pc = "done" /\ capacity = Capacity
  /\ Next
  /\ UNCHANGED newVars

LifeNext == Construct \/ Use

\* The constructor is a call that runs to its end; the client need do nothing.
LifeSpec ==
  LifeInit /\ [][LifeNext]_<<vars, newVars>> /\ WF_<<vars, newVars>>(Construct)
=============================================================================
