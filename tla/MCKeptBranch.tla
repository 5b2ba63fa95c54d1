---------------------------- MODULE MCKeptBranch ----------------------------
(* Small instances of KeptBranch for TLC. *)
EXTENDS KeptBranch, TLC

CONSTANTS a, b

Symmetry == Permutations(Machine)
=============================================================================
