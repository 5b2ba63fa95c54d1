----------------------------- MODULE MCItemLock -----------------------------
(* Small instances of ItemLock for TLC. *)
EXTENDS ItemLock, TLC

CONSTANTS r1, r2, r3, x

\* Three runners that sign with three names.
OwnNames == [r \in Runner |-> r]

Symmetry == Permutations(Runner)
=============================================================================
