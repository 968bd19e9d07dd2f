------------------------------ MODULE MCEngine ------------------------------
(* Engine on small instances. *)
EXTENDS Engine, TLC

\* Clients choose ids, and nothing depends on which they choose.
Symmetry == Permutations(OrderIds) \cup Permutations(UserIds)
=============================================================================
