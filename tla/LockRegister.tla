---------------------------- MODULE LockRegister ----------------------------
(***************************************************************************)
(* What the per-item lock promises, with no runner, push or fetch in sight: *)
(* one register per item that is empty or holds one lock commit.  A held    *)
(* register is never overwritten, except that                               *)
(*   - a lock may be marked as kept for an open proposal, every other field *)
(*     of the commit staying as it was, and                                 *)
(*   - a finished build's kept lock may be taken over by an advance.        *)
(* ItemLock.tla implements this under a refinement mapping.  The modules    *)
(* that take the lock as one value use it so: Tasking, LedgerMove,          *)
(* AdvanceRungs and, step by step, Integration (see their proofs).          *)
(***************************************************************************)
CONSTANTS
    Item,       \* the items that can be locked
    LockCommit, \* the lock commits: records of a lock entry
    NoLock      \* an empty register

VARIABLE ref    \* [Item -> LockCommit \cup {NoLock}]

Init == ref = [i \in Item |-> NoLock]

\* A fresh lock commit: about this item, and the mark not set yet.
Fresh(i, c) == c.entry = i /\ ~c.kept

\* An empty register takes one fresh lock (acquireItemLock).
Grab(i, c) ==
    /\ ref[i] = NoLock
    /\ Fresh(i, c)
    /\ ref' = [ref EXCEPT ![i] = c]

\* A register is emptied (release, sweep, reap, resume).
Drop(i) ==
    /\ ref[i] # NoLock
    /\ ref' = [ref EXCEPT ![i] = NoLock]

\* The held lock gains the mark and nothing else (markLockKeptForProposePr).
MarkKept(i, c) ==
    /\ ref[i] # NoLock
    /\ ~ref[i].kept
    /\ c.kept
    /\ c.entry = ref[i].entry /\ c.action = ref[i].action
    /\ c.holder = ref[i].holder /\ c.since = ref[i].since
    /\ ref' = [ref EXCEPT ![i] = c]

\* Only the kept lock of a finished implement build changes hands
\* (takeOverProposeKeptLock).
TakeOver(i, c) ==
    /\ ref[i] # NoLock
    /\ ref[i].kept
    /\ ref[i].action = "implement"
    /\ Fresh(i, c)
    /\ ref' = [ref EXCEPT ![i] = c]

Next ==
    \E i \in Item :
        \/ Drop(i)
        \/ \E c \in LockCommit : Grab(i, c) \/ MarkKept(i, c) \/ TakeOver(i, c)

Spec == Init /\ [][Next]_ref
=============================================================================
