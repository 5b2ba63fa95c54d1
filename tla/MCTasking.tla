----------------------------- MODULE MCTasking -----------------------------
(* Small instances of Tasking for TLC. *)
EXTENDS Tasking, TLC

CONSTANTS local, ci

ASSUME local # ci
=============================================================================
