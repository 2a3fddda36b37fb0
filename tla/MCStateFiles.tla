---------------------------- MODULE MCStateFiles ----------------------------
(* Instances of StateFiles for TLC. *)
EXTENDS StateFiles, TLC

Symmetry == Permutations(Callers)

=============================================================================
