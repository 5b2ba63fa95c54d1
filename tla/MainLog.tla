------------------------------ MODULE MainLog -------------------------------
(***************************************************************************)
(* What the arbiter's main promises to every lane that integrates into it:  *)
(* it is a log that only grows, one land at a time; no item's work lands    *)
(* twice, and work never lands beside work it conflicts with.  Everything   *)
(* else that moves main is Upkeep (ledger moves, notes, other people).      *)
(***************************************************************************)
EXTENDS Sequences, Naturals

CONSTANTS
    Task,       \* the items whose work lands
    Upkeep,     \* a commit of main that is nobody's work
    Foes        \* pairs {t, u} whose changes touch the same lines

VARIABLE log    \* what landed, oldest first

InLog(w) == \E k \in DOMAIN log : log[k] = w

Init == log = <<>>

LandWork(t) ==
    /\ ~InLog(t)
    /\ \A u \in Task : {t, u} \in Foes => ~InLog(u)
    /\ log' = Append(log, t)

Keep == log' = Append(log, Upkeep)

Next == Keep \/ \E t \in Task : LandWork(t)

Spec == Init /\ [][Next]_log
=============================================================================
