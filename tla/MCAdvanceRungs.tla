---------------------------- MODULE MCAdvanceRungs ----------------------------
(* AdvanceRungs on small instances. *)
EXTENDS AdvanceRungs, TLC
=============================================================================
