------------------------------ MODULE MCReplay ------------------------------
(* Replay on a small feed. *)
EXTENDS Replay

\* Where there are more raw ids than order ids, the last of them collide.
MCHash == [r \in RawIds |-> Lesser(r, Cardinality(OrderIds))]
=============================================================================
