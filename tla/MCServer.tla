------------------------------ MODULE MCServer ------------------------------
(* Instances of Server for TLC. *)
EXTENDS ServerRefinement

Symmetry == Permutations(Conns)

=============================================================================
