------------------------------ MODULE MCIntake ------------------------------
(* Small instances of Intake for TLC. *)
EXTENDS Intake

CONSTANTS local, ci1, ci2

ASSUME Cardinality({local, ci1, ci2}) = 3
=============================================================================
