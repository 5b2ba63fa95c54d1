--------------------------- MODULE TaskingProofs ---------------------------
(***************************************************************************)
(* What holds of Tasking for every set of runs, local and CI, in any mode,  *)
(* and for every number of edits, retries, re-runs and faults.              *)
(*                                                                          *)
(* A ready spec has one keeper: while it is ready, a run past its acquire   *)
(* holds the lock (Keeper).  So nobody else tasks the spec under it, and a  *)
(* local run that cut its branch from a ready spec finds it ready when it   *)
(* pushes (FirstOrGone).  An open request is the way the spec could be      *)
(* tasked without the lock; OpenInv says whose request that can be.         *)
(***************************************************************************)
EXTENDS Tasking, SequenceTheorems, TLAPS

Ready == main.spec = "ready"

HeldSteps == {"cutting", "checking", "reviewing", "rebasing", "landing",
              "opening", "pruning", "saving", "closing", "surfacing",
              "releasing"}

\* A CI run's agent job and the head of its apply job may run without the lock.
InFlight(t) == pc[t] \in HeldSteps \/ (t \notin Ci /\ pc[t] = "working")

Keeper(t) == InFlight(t) /\ Ready => lock = t

\* A run not yet past its acquire holds nothing.
NotYet(t) == pc[t] \in {"idle", "reading", "locking"} => lock # t

\* Bodies only grow, and a tasked spec stays tasked.
BaseInv(t) ==
    /\ base[t].body <= main.body
    /\ base[t].spec = "tasked" => ~Ready
    /\ blob[t] <= main.body
    /\ t \notin Ci /\ pc[t] \in {"working", "applying", "checking"} =>
          blob[t] <= base[t].body

CommittedSteps == {"rebasing", "landing", "opening"}
BranchSteps == CommittedSteps \cup {"working", "checking", "reviewing"}

\* A local run that cut its branch from the ready spec is the first to task it.
FirstOrGone(t) ==
    t \notin Ci =>
        /\ pc[t] # "applying"
        /\ pc[t] \in CommittedSteps => base[t].spec = "ready"
        /\ pc[t] \in BranchSteps
           /\ base[t].spec = "ready"
           => Ready

TipInv(t) ==
    /\ pc[t] \in CommittedSteps =>
          tip[t] # NoTip /\ tip[t].by = t /\ (tip[t].own = "tasks" \/ ~Ready)
    /\ pc[t] \in CommittedSteps \cup {"checking", "reviewing"} =>
          verdict[t] = "tasks"

\* A push to the branch that an opening run does not know of is by a CI run.
OpeningInv(t) ==
    pc[t] = "opening" /\ remote # NoTip /\ remote.own = "tasks" =>
        remote.by = t \/ (remote.by \in Ci /\ ~Ready)

SetsInv ==
    /\ Ready <=> sets = <<>>
    /\ LocalTaskingIsFirst

\* Where a run may be while its request is open for a ready spec.
OpenSteps(t) ==
    IF t \in Ci THEN CommittedSteps \cup {"applying", "checking", "reviewing",
                                       "over"}
                ELSE {"over"}

OpenInv ==
    openPR =>
        /\ remote # NoTip
        /\ Ready => /\ lock = remote.by
                    /\ verdict[lock] = "tasks"
                    /\ pc[lock] \in OpenSteps(lock)
                    /\ tip[lock] # NoTip
        /\ ~Ready /\ remote.own = "tasks" => remote.by \in Ci

\* HeldForAReason, of one run.
Reasoned(t) ==
    faults = 0 /\ At(t, "over") /\ lock = t =>
        outcome[t] \in {"proposed", "stale", "conflict"} \/ ~Ready

RunInv(t) ==
    /\ Keeper(t)
    /\ NotYet(t)
    /\ BaseInv(t)
    /\ FirstOrGone(t)
    /\ TipInv(t)
    /\ OpeningInv(t)
    /\ Reasoned(t)

IInv ==
    /\ TypeOK
    /\ \A t \in Tasker : RunInv(t)
    /\ SetsInv
    /\ OpenInv

-----------------------------------------------------------------------------
(* A step of one run, seen by the others *)

\* The run's own variables do not change.
Same(u) ==
    /\ pc'[u] = pc[u] /\ base'[u] = base[u] /\ blob'[u] = blob[u]
    /\ verdict'[u] = verdict[u] /\ tip'[u] = tip[u] /\ outcome'[u] = outcome[u]

\* Bodies grow, nothing becomes ready again, and no fault is forgotten.
Onward ==
    /\ main.body <= main'.body
    /\ Ready' => Ready
    /\ faults' = 0 => faults = 0

LEMMA MainStands ==
    ASSUME IInv, main' = main, faults' \in {faults, faults + 1}
    PROVE  Onward
<1>1. main.body \in Nat /\ faults \in Nat
  BY DEF IInv, TypeOK, Main
<1>2. faults' = 0 => faults = 0
  BY <1>1
<1> QED
  BY <1>1, <1>2 DEF Onward, Ready

LEMMA OtherRun ==
    ASSUME IInv, TypeOK', Onward, NEW u \in Tasker, Same(u),
           \/ lock' = u <=> lock = u
           \/ lock' = NoOne /\ (~Ready \/ pc[u] = "over"),
           Ready => Ready' \/ u \in Ci
                    \/ pc[u] \notin BranchSteps,
           OpeningInv(u)'
    PROVE  RunInv(u)'
<1>1. RunInv(u)
  BY DEF IInv
<1>2. Keeper(u)' /\ NotYet(u)'
  BY <1>1, ConstantsAssumption
     DEF RunInv, Keeper, NotYet, InFlight, HeldSteps, Onward, Ready, Same
<1>3. BaseInv(u)'
  <2>1. /\ main.body \in Nat /\ main'.body \in Nat
        /\ base[u].body \in Nat /\ blob[u] \in Nat
    BY DEF IInv, TypeOK, Main
  <2> QED
    BY <1>1, <2>1 DEF RunInv, BaseInv, Onward, Ready, Same
<1>4. FirstOrGone(u)'
  BY <1>1 DEF RunInv, FirstOrGone, Same, Ready, CommittedSteps, BranchSteps
<1>5. TipInv(u)'
  BY <1>1 DEF RunInv, TipInv, Same, Onward, CommittedSteps, BranchSteps
<1>6. Reasoned(u)'
  BY <1>1, ConstantsAssumption DEF RunInv, Reasoned, At, Same, Onward, Ready
<1> QED
  BY <1>2, <1>3, <1>4, <1>5, <1>6 DEF RunInv

\* A step of a run that leaves the arbiter alone.
LEMMA OwnStep ==
    ASSUME IInv, TypeOK', UNCHANGED arbiter, faults' = 0 => faults = 0,
           NEW t \in Tasker, \A u \in Tasker \ {t} : Same(u),
           RunInv(t)',
           openPR /\ Ready /\ lock = t =>
               verdict'[t] = "tasks" /\ pc'[t] \in OpenSteps(t) /\ tip'[t] # NoTip
    PROVE  IInv'
<1>1. Onward
  BY DEF IInv, TypeOK, Main, Onward, arbiter, Ready
<1>2. \A u \in Tasker : RunInv(u)'
  <2> SUFFICES ASSUME NEW u \in Tasker, u # t
               PROVE  RunInv(u)'
    OBVIOUS
  <2>1. Same(u)
    OBVIOUS
  <2>2. OpeningInv(u)'
    BY <2>1 DEF IInv, RunInv, OpeningInv, Same, arbiter, Ready
  <2> QED
    BY <1>1, <2>1, <2>2, OtherRun DEF arbiter, Ready
<1>3. SetsInv'
  BY DEF IInv, SetsInv, LocalTaskingIsFirst, arbiter, Ready
<1>4. OpenInv'
  <2>1. openPR /\ Ready /\ lock # t => Same(lock)
    BY DEF IInv, OpenInv, TypeOK, Tip
  <2> QED
    BY <2>1 DEF IInv, OpenInv, OpenSteps, Same, arbiter, Ready
<1> QED
  BY <1>2, <1>3, <1>4 DEF IInv

-----------------------------------------------------------------------------
(* Steps that leave the arbiter alone *)

\* The shorthands of the actions are always expanded.
USE DEF At, Go, Report, Quit, Fault, arbiter, counters, run

LEMMA StartKeeps == ASSUME IInv, NEW t \in Tasker, Start(t) PROVE IInv'
<1>1. TypeOK'
  BY ConstantsAssumption DEF IInv, TypeOK, Step, Outcome, Start, Main, Verdict
<1>2. /\ UNCHANGED arbiter
      /\ faults' = 0 => faults = 0
      /\ \A u \in Tasker \ {t} : Same(u)
  BY DEF IInv, TypeOK, Same, Start
<1>3. RunInv(t)'
  BY DEF IInv, RunInv, TypeOK, Keeper, NotYet, InFlight, HeldSteps, Ready, Start,
         Main, BaseInv, FirstOrGone, CommittedSteps, BranchSteps, TipInv, SetsInv,
         OpeningInv, Reasoned
<1>4. openPR /\ Ready /\ lock = t =>
          verdict'[t] = "tasks" /\ pc'[t] \in OpenSteps(t) /\ tip'[t] # NoTip
  BY DEF IInv, TypeOK, RunInv, NotYet, TipInv, OpenInv, OpenSteps,
         CommittedSteps, BranchSteps, Ready, Start
<1> QED
  BY <1>1, <1>2, <1>3, <1>4, OwnStep

LEMMA ReadSpecKeeps == ASSUME IInv, NEW t \in Tasker, ReadSpec(t) PROVE IInv'
<1>1. TypeOK'
  <2>1. /\ UNCHANGED <<mode, main, sets, lock, remote, openPR>>
        /\ base' \in [Tasker -> Main] /\ blob' \in [Tasker -> Nat]
        /\ verdict' \in [Tasker -> Verdict]
        /\ tip' \in [Tasker -> Tip \cup {NoTip}]
        /\ attempt' \in [Tasker -> 0 .. MaxMergeRetries]
        /\ reruns' \in [Tasker -> Nat]
        /\ edits' \in Nat /\ others' \in Nat /\ faults' \in Nat
    BY ConstantsAssumption DEF ReadSpec, IInv, TypeOK, Main, Verdict
  <2>2. pc' \in [Tasker -> Step] /\ outcome' \in [Tasker -> Outcome]
    BY DEF IInv, TypeOK, Step, Outcome, ReadSpec
  <2> QED
    BY <2>1, <2>2 DEF IInv, TypeOK
<1>2. /\ UNCHANGED arbiter
      /\ faults' = 0 => faults = 0
      /\ \A u \in Tasker \ {t} : Same(u)
  BY DEF IInv, TypeOK, Same, ReadSpec
<1>3. RunInv(t)'
  <2>1. Keeper(t)' /\ NotYet(t)' /\ OpeningInv(t)' /\ Reasoned(t)'
    BY DEF IInv, RunInv, TypeOK, Keeper, NotYet, InFlight, HeldSteps, Ready,
           ReadSpec, OpeningInv, Main, BaseInv, FirstOrGone, Reasoned
  <2>2. BaseInv(t)'
    BY DEF IInv, RunInv, TypeOK, Main, BaseInv, Ready, ReadSpec
  <2>3. FirstOrGone(t)'
    BY DEF IInv, RunInv, TypeOK, Main, FirstOrGone, BaseInv, CommittedSteps,
           BranchSteps, Ready, ReadSpec
  <2>4. TipInv(t)'
    BY DEF IInv, RunInv, TypeOK, TipInv, SetsInv, CommittedSteps, BranchSteps,
           Ready, ReadSpec
  <2> QED
    BY <2>1, <2>2, <2>3, <2>4 DEF RunInv
<1>4. openPR /\ Ready /\ lock = t =>
          verdict'[t] = "tasks" /\ pc'[t] \in OpenSteps(t) /\ tip'[t] # NoTip
  BY DEF IInv, TypeOK, RunInv, NotYet, TipInv, OpenInv, OpenSteps,
         CommittedSteps, BranchSteps, Ready, ReadSpec
<1> QED
  BY <1>1, <1>2, <1>3, <1>4, OwnStep

LEMMA CutBranchKeeps == ASSUME IInv, NEW t \in Tasker, CutBranch(t) PROVE IInv'
<1>1. TypeOK'
  <2>1. /\ UNCHANGED <<mode, main, sets, lock, remote, openPR>>
        /\ tip' \in [Tasker -> Tip \cup {NoTip}]
        /\ attempt' \in [Tasker -> 0 .. MaxMergeRetries]
        /\ reruns' \in [Tasker -> Nat]
        /\ edits' \in Nat /\ others' \in Nat
    BY DEF CutBranch, IInv, TypeOK
  <2>2. pc' \in [Tasker -> Step] /\ outcome' \in [Tasker -> Outcome]
    BY DEF IInv, TypeOK, Step, Outcome, CutBranch, CutFrom
  <2>3. /\ base' \in [Tasker -> Main] /\ blob' \in [Tasker -> Nat]
        /\ verdict' \in [Tasker -> Verdict]
    <3>1. base' = base \/ base' = [base EXCEPT ![t] = main]
      BY DEF CutBranch, CutFrom
    <3>2. UNCHANGED <<main, blob, verdict>>
      BY DEF CutBranch
    <3> QED
      BY <3>1, <3>2 DEF IInv, TypeOK
  <2>4. faults' \in Nat
    BY DEF CutBranch, IInv, TypeOK, Fault
  <2> QED
    BY <2>1, <2>2, <2>3, <2>4 DEF IInv, TypeOK
<1>2. /\ UNCHANGED arbiter
      /\ faults' = 0 => faults = 0
      /\ \A u \in Tasker \ {t} : Same(u)
  BY DEF IInv, TypeOK, Same, CutBranch, CutFrom
<1>3. RunInv(t)'
  <2>1. Keeper(t)' /\ NotYet(t)' /\ OpeningInv(t)' /\ Reasoned(t)'
    BY DEF IInv, RunInv, TypeOK, Keeper, NotYet, InFlight, HeldSteps, Ready,
           CutBranch, CutFrom, OpeningInv, Main, BaseInv, FirstOrGone, Reasoned
  <2>2. BaseInv(t)'
    <3>1. /\ main.body \in Nat /\ base[t].body \in Nat /\ blob[t] \in Nat
          /\ main' = main /\ blob' = blob
      BY DEF IInv, TypeOK, Main, CutBranch
    <3>2. base'[t] = base[t] \/ base'[t] = main
      BY DEF IInv, TypeOK, CutBranch, CutFrom
    <3>3. pc[t] = "cutting" /\ (pc'[t] = "over" \/ base'[t] = main)
      BY DEF IInv, TypeOK, CutBranch, CutFrom
    <3> QED
      BY <3>1, <3>2, <3>3 DEF IInv, RunInv, BaseInv, Ready
  <2>3. FirstOrGone(t)'
    BY DEF IInv, RunInv, TypeOK, Main, FirstOrGone, BaseInv, CommittedSteps,
           BranchSteps, Ready, CutBranch, CutFrom
  <2>4. TipInv(t)'
    <3>1. pc'[t] \in {"working", "over"}
      BY DEF IInv, TypeOK, CutBranch
    <3> QED
      BY <3>1 DEF TipInv, CommittedSteps
  <2> QED
    BY <2>1, <2>2, <2>3, <2>4 DEF RunInv
<1>4. openPR /\ Ready /\ lock = t =>
          verdict'[t] = "tasks" /\ pc'[t] \in OpenSteps(t) /\ tip'[t] # NoTip
  BY DEF IInv, TypeOK, RunInv, NotYet, TipInv, OpenInv, OpenSteps,
         CommittedSteps, BranchSteps, Ready, CutBranch, CutFrom
<1> QED
  BY <1>1, <1>2, <1>3, <1>4, OwnStep

LEMMA EndAgentKeeps == ASSUME IInv, NEW t \in Tasker, EndAgent(t) PROVE IInv'
<1>1. TypeOK'
  <2>1. /\ UNCHANGED <<mode, main, sets, lock, remote, openPR>>
        /\ tip' \in [Tasker -> Tip \cup {NoTip}]
        /\ attempt' \in [Tasker -> 0 .. MaxMergeRetries]
    BY ConstantsAssumption
       DEF EndAgent, IInv, TypeOK, Verdict, AfterAgent, Saves
  <2>2. pc' \in [Tasker -> Step] /\ outcome' \in [Tasker -> Outcome]
    <3>1. \A v : AfterAgent(t, v) \in Step
      BY DEF AfterAgent, Step
    <3>2. pc' \in [Tasker -> Step]
      BY <3>1 DEF IInv, TypeOK, Step, EndAgent
    <3>3. outcome' \in [Tasker -> Outcome]
      BY DEF IInv, TypeOK, Outcome, EndAgent
    <3> QED
      BY <3>2, <3>3
  <2>3. /\ base' \in [Tasker -> Main] /\ blob' \in [Tasker -> Nat]
        /\ verdict' \in [Tasker -> Verdict]
    BY DEF IInv, TypeOK, EndAgent
  <2>4. /\ reruns' \in [Tasker -> Nat]
        /\ edits' \in Nat /\ others' \in Nat /\ faults' \in Nat
    BY DEF IInv, TypeOK, EndAgent, Verdict, AfterAgent, Saves
  <2> QED
    BY <2>1, <2>2, <2>3, <2>4 DEF IInv, TypeOK
<1>2. /\ UNCHANGED arbiter
      /\ faults' = 0 => faults = 0
      /\ \A u \in Tasker \ {t} : Same(u)
  BY DEF IInv, TypeOK, Same, EndAgent, Verdict, AfterAgent, Saves
<1>3. RunInv(t)'
  <2>1. Keeper(t)' /\ NotYet(t)' /\ OpeningInv(t)' /\ Reasoned(t)'
    BY DEF IInv, RunInv, TypeOK, Keeper, NotYet, InFlight, HeldSteps, Ready,
           EndAgent, Verdict, AfterAgent, Saves, OpeningInv, Main, BaseInv,
           FirstOrGone, Reasoned
  <2>2. BaseInv(t)'
    BY DEF IInv, RunInv, TypeOK, Main, BaseInv, Ready, EndAgent, Verdict,
           AfterAgent, Saves
  <2>3. FirstOrGone(t)'
    BY DEF IInv, RunInv, TypeOK, Main, FirstOrGone, BaseInv, CommittedSteps,
           BranchSteps, Ready, EndAgent, Verdict, AfterAgent, Saves
  <2>4. TipInv(t)'
    BY DEF IInv, RunInv, TypeOK, TipInv, SetsInv, CommittedSteps, BranchSteps,
           Ready, EndAgent, Verdict, AfterAgent, Saves
  <2> QED
    BY <2>1, <2>2, <2>3, <2>4 DEF RunInv
<1>4. openPR /\ Ready /\ lock = t =>
          verdict'[t] = "tasks" /\ pc'[t] \in OpenSteps(t) /\ tip'[t] # NoTip
  BY DEF IInv, TypeOK, RunInv, NotYet, TipInv, OpenInv, OpenSteps,
         CommittedSteps, BranchSteps, Ready, EndAgent, Verdict, AfterAgent,
         Saves
<1> QED
  BY <1>1, <1>2, <1>3, <1>4, OwnStep

LEMMA StartApplyKeeps == ASSUME IInv, NEW t \in Tasker, StartApply(t) PROVE IInv'
<1>1. TypeOK'
  <2>1. /\ UNCHANGED <<mode, main, sets, lock, remote, openPR>>
        /\ base' \in [Tasker -> Main] /\ blob' \in [Tasker -> Nat]
        /\ verdict' \in [Tasker -> Verdict]
        /\ tip' \in [Tasker -> Tip \cup {NoTip}]
        /\ attempt' \in [Tasker -> 0 .. MaxMergeRetries]
        /\ reruns' \in [Tasker -> Nat]
        /\ edits' \in Nat /\ others' \in Nat /\ faults' \in Nat
    BY ConstantsAssumption
       DEF StartApply, IInv, TypeOK, Main, Verdict, Owns, AfterAgent, Saves
  <2>2. pc' \in [Tasker -> Step] /\ outcome' \in [Tasker -> Outcome]
    BY DEF IInv, TypeOK, Step, Outcome, StartApply, Owns, AfterAgent, Saves,
           Verdict
  <2> QED
    BY <2>1, <2>2 DEF IInv, TypeOK
<1>2. /\ UNCHANGED arbiter
      /\ faults' = 0 => faults = 0
      /\ \A u \in Tasker \ {t} : Same(u)
  BY DEF IInv, TypeOK, Same, StartApply, Owns, AfterAgent, Saves, Verdict
<1>3. RunInv(t)'
  <2>1. /\ Keeper(t)' /\ NotYet(t)'
        /\ BaseInv(t)'
        /\ FirstOrGone(t)'
        /\ OpeningInv(t)'
        /\ Reasoned(t)'
    BY DEF IInv, RunInv, TypeOK, Keeper, NotYet, InFlight, HeldSteps, Ready,
           StartApply, Owns, AfterAgent, Saves, Verdict, Main, BaseInv,
           FirstOrGone, CommittedSteps, BranchSteps, OpeningInv, Reasoned
  <2>2. TipInv(t)'
    <3>1. AfterAgent(t, verdict[t]) = "checking" => verdict[t] = "tasks"
      BY DEF AfterAgent, Saves
    <3>2. pc'[t] \in {"over", "surfacing", "releasing", AfterAgent(t, verdict[t])}
      BY DEF IInv, TypeOK, StartApply
    <3>3. AfterAgent(t, verdict[t]) \in {"checking", "releasing", "saving", "closing"}
      BY DEF AfterAgent, Saves
    <3> QED
      BY <3>1, <3>2, <3>3 DEF TipInv, CommittedSteps, BranchSteps, StartApply
  <2> QED
    BY <2>1, <2>2 DEF RunInv
<1>4. openPR /\ Ready /\ lock = t =>
          verdict'[t] = "tasks" /\ pc'[t] \in OpenSteps(t) /\ tip'[t] # NoTip
  BY DEF IInv, TypeOK, RunInv, NotYet, TipInv, OpenInv, OpenSteps,
         CommittedSteps, BranchSteps, Ready, StartApply, Owns, AfterAgent,
         Saves, Verdict
<1> QED
  BY <1>1, <1>2, <1>3, <1>4, OwnStep

LEMMA CheckStaleKeeps == ASSUME IInv, NEW t \in Tasker, CheckStale(t) PROVE IInv'
<1>1. TypeOK'
  <2>1. pc' \in [Tasker -> Step] /\ outcome' \in [Tasker -> Outcome]
    BY DEF IInv, TypeOK, Step, Outcome, CheckStale
  <2> QED
    BY <2>1 DEF IInv, TypeOK, CheckStale
<1>2. /\ UNCHANGED arbiter
      /\ faults' = 0 => faults = 0
      /\ \A u \in Tasker \ {t} : Same(u)
  BY DEF IInv, TypeOK, Same, CheckStale, LockedBlob
<1>3. RunInv(t)'
  <2>1. Keeper(t)' /\ NotYet(t)' /\ OpeningInv(t)'
    BY DEF IInv, RunInv, TypeOK, Keeper, NotYet, InFlight, HeldSteps, Ready,
           CheckStale, LockedBlob, OpeningInv
  <2>2. BaseInv(t)'
    BY DEF IInv, RunInv, TypeOK, Main, BaseInv, Ready, CheckStale, LockedBlob
  <2>3. FirstOrGone(t)'
    <3>1. /\ pc[t] = "checking" /\ pc'[t] \in {"over", "reviewing"}
          /\ main' = main /\ base' = base
      BY DEF IInv, TypeOK, CheckStale
    <3>2. FirstOrGone(t)
      BY DEF IInv, RunInv
    <3> QED
      BY <3>1, <3>2 DEF FirstOrGone, CommittedSteps, BranchSteps, Ready
  <2>4. TipInv(t)'
    BY DEF IInv, RunInv, TypeOK, TipInv, SetsInv, CommittedSteps, BranchSteps,
           Ready, CheckStale, LockedBlob
  <2>5. Reasoned(t)'
    BY DEF IInv, RunInv, TypeOK, Main, Keeper, NotYet, BaseInv, FirstOrGone,
           InFlight, HeldSteps, Reasoned, Ready, CheckStale, LockedBlob
  <2> QED
    BY <2>1, <2>2, <2>3, <2>4, <2>5 DEF RunInv
<1>4. openPR /\ Ready /\ lock = t =>
          verdict'[t] = "tasks" /\ pc'[t] \in OpenSteps(t) /\ tip'[t] # NoTip
  BY DEF IInv, TypeOK, RunInv, NotYet, TipInv, OpenInv, OpenSteps,
         CommittedSteps, BranchSteps, Ready, CheckStale, LockedBlob
<1> QED
  BY <1>1, <1>2, <1>3, <1>4, OwnStep

LEMMA ReviewAndCommitKeeps ==
    ASSUME IInv, NEW t \in Tasker, ReviewAndCommit(t)
    PROVE  IInv'
<1>1. TypeOK'
  <2>1. /\ pc' \in [Tasker -> Step] /\ outcome' \in [Tasker -> Outcome]
        /\ UNCHANGED <<mode, main, sets, lock, remote, openPR>>
        /\ base' \in [Tasker -> Main] /\ blob' \in [Tasker -> Nat]
        /\ verdict' \in [Tasker -> Verdict]
        /\ reruns' \in [Tasker -> Nat]
        /\ edits' \in Nat /\ others' \in Nat /\ faults' \in Nat
    BY DEF IInv, TypeOK, Step, Outcome, ReviewAndCommit, Main, Verdict
  <2>2. tip' \in [Tasker -> Tip \cup {NoTip}]
    <3>1. [by |-> t, from |-> base[t].body, base |-> base[t].version,
           own |-> "tasks"] \in Tip
      BY DEF IInv, TypeOK, Main, Tip
    <3>2. tip' = tip \/
          tip' = [tip EXCEPT ![t] = [by |-> t, from |-> base[t].body,
                                     base |-> base[t].version, own |-> "tasks"]]
      BY DEF ReviewAndCommit
    <3> QED
      BY <3>1, <3>2 DEF IInv, TypeOK
  <2>3. attempt' \in [Tasker -> 0 .. MaxMergeRetries]
    <3>1. 0 \in 0 .. MaxMergeRetries
      BY ConstantsAssumption
    <3>2. attempt' = attempt \/ attempt' = [attempt EXCEPT ![t] = 0]
      BY DEF ReviewAndCommit
    <3> QED
      BY <3>1, <3>2 DEF IInv, TypeOK
  <2> QED
    BY <2>1, <2>2, <2>3 DEF IInv, TypeOK
<1>2. /\ UNCHANGED arbiter
      /\ faults' = 0 => faults = 0
      /\ \A u \in Tasker \ {t} : Same(u)
  BY DEF IInv, TypeOK, Same, ReviewAndCommit
<1>3. RunInv(t)'
  <2>1. /\ Keeper(t)' /\ NotYet(t)'
        /\ BaseInv(t)'
        /\ FirstOrGone(t)'
        /\ OpeningInv(t)'
        /\ Reasoned(t)'
    <3>1. /\ pc[t] = "reviewing"
          /\ pc'[t] \in {"closing", "rebasing", "over"}
          /\ pc'[t] = "rebasing" => base[t].spec = "ready"
          /\ pc'[t] = "over" => base[t].spec # "ready"
      BY DEF IInv, TypeOK, ReviewAndCommit
    <3>2. /\ UNCHANGED <<main, lock, remote, base, blob>>
          /\ base[t].spec # "ready" => ~Ready
      BY DEF IInv, RunInv, TypeOK, BaseInv, Main, ReviewAndCommit
    <3> QED
      BY <3>1, <3>2
         DEF IInv, RunInv, Keeper, NotYet, InFlight, HeldSteps, Ready, BaseInv,
             FirstOrGone, CommittedSteps, BranchSteps, OpeningInv, Reasoned
  <2>2. TipInv(t)'
    <3>1. verdict'[t] = "tasks"
      BY DEF IInv, RunInv, TipInv, ReviewAndCommit
    <3>2. pc'[t] \in CommittedSteps =>
            tip'[t] # NoTip /\ tip'[t].by = t /\ tip'[t].own = "tasks"
      <4>1. [by |-> t, from |-> base[t].body, base |-> base[t].version,
             own |-> "tasks"] \in Tip
        BY DEF IInv, TypeOK, Main, Tip
      <4> QED
        BY <4>1, NoTipAssumption
           DEF IInv, TypeOK, ReviewAndCommit, CommittedSteps, BranchSteps
    <3> QED
      BY <3>1, <3>2 DEF TipInv
  <2> QED
    BY <2>1, <2>2 DEF RunInv
<1>4. openPR /\ Ready /\ lock = t =>
          verdict'[t] = "tasks" /\ pc'[t] \in OpenSteps(t) /\ tip'[t] # NoTip
  <2>1. [by |-> t, from |-> base[t].body, base |-> base[t].version,
         own |-> "tasks"] \in Tip
    BY DEF IInv, TypeOK, Main, Tip
  <2>2. openPR /\ Ready /\ lock = t => t \in Ci /\ tip[t] # NoTip
    BY DEF IInv, OpenInv, OpenSteps, ReviewAndCommit
  <2> QED
    BY <2>1, <2>2, NoTipAssumption
       DEF IInv, TypeOK, OpenInv, OpenSteps, CommittedSteps, ReviewAndCommit
<1> QED
  BY <1>1, <1>2, <1>3, <1>4, OwnStep

LEMMA RebaseKeeps == ASSUME IInv, NEW t \in Tasker, Rebase(t) PROVE IInv'
<1>1. TypeOK'
  <2>1. /\ UNCHANGED <<mode, main, sets, lock, remote, openPR>>
        /\ attempt' \in [Tasker -> 0 .. MaxMergeRetries]
        /\ reruns' \in [Tasker -> Nat]
        /\ edits' \in Nat /\ others' \in Nat /\ faults' \in Nat
    BY ConstantsAssumption DEF Rebase, IInv, TypeOK, LandedBy, SpecTouched
  <2>2. pc' \in [Tasker -> Step] /\ outcome' \in [Tasker -> Outcome]
    BY DEF IInv, TypeOK, Step, Outcome, Rebase, LandedBy, SpecTouched
  <2>3. /\ base' \in [Tasker -> Main] /\ blob' \in [Tasker -> Nat]
        /\ verdict' \in [Tasker -> Verdict]
    BY DEF IInv, TypeOK, Main, Verdict, Rebase, LandedBy, SpecTouched
  <2>4. tip' \in [Tasker -> Tip \cup {NoTip}]
    <3>1. tip[t] \in Tip
      BY DEF IInv, TypeOK, RunInv, TipInv, CommittedSteps, BranchSteps, Rebase
    <3>2. [by |-> t, from |-> tip[t].from, base |-> main.version,
           own |-> IF LandedBy(t) THEN "nothing" ELSE tip[t].own] \in Tip
      BY <3>1 DEF IInv, TypeOK, Main, Tip
    <3>3. \/ tip' = tip
          \/ tip' = [tip EXCEPT ![t] =
                 [by |-> t, from |-> tip[t].from, base |-> main.version,
                  own |-> IF LandedBy(t) THEN "nothing" ELSE tip[t].own]]
      BY DEF Rebase
    <3>4. tip \in [Tasker -> Tip \cup {NoTip}]
      BY DEF IInv, TypeOK
    <3> QED
      BY <3>2, <3>3, <3>4
  <2> QED
    BY <2>1, <2>2, <2>3, <2>4 DEF IInv, TypeOK
<1>2. /\ UNCHANGED arbiter
      /\ faults' = 0 => faults = 0
      /\ \A u \in Tasker \ {t} : Same(u)
  BY DEF IInv, TypeOK, Same, Rebase, LandedBy, SpecTouched
<1>3. RunInv(t)'
  <2>1. /\ Keeper(t)' /\ NotYet(t)'
        /\ BaseInv(t)'
        /\ FirstOrGone(t)'
        /\ OpeningInv(t)'
        /\ Reasoned(t)'
    BY DEF IInv, RunInv, TypeOK, Keeper, NotYet, InFlight, HeldSteps, Ready,
           Rebase, BaseInv, FirstOrGone, CommittedSteps, BranchSteps,
           OpeningInv, Reasoned
  <2>2. TipInv(t)'
    <3>1. /\ tip[t] \in Tip /\ (tip[t].own = "tasks" \/ ~Ready)
          /\ verdict'[t] = "tasks"
      BY DEF IInv, TypeOK, RunInv, TipInv, CommittedSteps, BranchSteps, Rebase
    <3>2. LandedBy(t) => ~Ready
      BY DEF IInv, SetsInv, LandedBy
    <3>3. [by |-> t, from |-> tip[t].from, base |-> main.version,
           own |-> IF LandedBy(t) THEN "nothing" ELSE tip[t].own] \in Tip
      BY <3>1 DEF IInv, TypeOK, Main, Tip
    <3>4. pc'[t] \in CommittedSteps =>
            tip'[t] = [by |-> t, from |-> tip[t].from, base |-> main.version,
                       own |-> IF LandedBy(t) THEN "nothing" ELSE tip[t].own]
      BY DEF IInv, TypeOK, Rebase, CommittedSteps, BranchSteps
    <3>5. Ready' <=> Ready
      BY DEF Rebase, Ready
    <3>6. pc'[t] \in {"landing", "over"}
      BY DEF IInv, TypeOK, Rebase
    <3>7. \/ pc'[t] \notin CommittedSteps
          \/ /\ tip'[t] # NoTip /\ tip'[t].by = t
             /\ tip'[t].own = "tasks" \/ ~Ready
      BY <3>1, <3>2, <3>3, <3>4, NoTipAssumption
    <3> QED
      BY <3>1, <3>5, <3>6, <3>7 DEF TipInv
  <2> QED
    BY <2>1, <2>2 DEF RunInv
<1>4. openPR /\ Ready /\ lock = t =>
          verdict'[t] = "tasks" /\ pc'[t] \in OpenSteps(t) /\ tip'[t] # NoTip
  <2>1. tip[t] # NoTip
    BY DEF IInv, RunInv, TipInv, CommittedSteps, Rebase
  <2>2. tip[t].from \in Nat /\ main.version \in Nat
    BY <2>1 DEF IInv, TypeOK, Tip, Main
  <2>3. [by |-> t, from |-> tip[t].from, base |-> main.version,
         own |-> IF LandedBy(t) THEN "nothing" ELSE tip[t].own] # NoTip
    BY <2>1, <2>2, NoTipAssumption DEF IInv, TypeOK, Tip
  <2>4. tip'[t] # NoTip
    BY <2>1, <2>3 DEF IInv, TypeOK, Rebase
  <2>5. openPR /\ Ready /\ lock = t => t \in Ci /\ verdict[t] = "tasks"
    BY DEF IInv, OpenInv, OpenSteps, Rebase
  <2>6. verdict' = verdict /\ pc'[t] \in {"landing", "over"}
    BY DEF IInv, TypeOK, Rebase
  <2> QED
    BY <2>4, <2>5, <2>6 DEF OpenSteps, CommittedSteps
<1> QED
  BY <1>1, <1>2, <1>3, <1>4, OwnStep

LEMMA PushMainRejectedKeeps ==
    ASSUME IInv, NEW t \in Tasker, PushMainRejected(t)
    PROVE  IInv'
<1>1. TypeOK'
  <2>1. /\ pc' \in [Tasker -> Step] /\ outcome' \in [Tasker -> Outcome]
        /\ UNCHANGED <<mode, main, sets, lock, remote, openPR>>
        /\ base' \in [Tasker -> Main] /\ blob' \in [Tasker -> Nat]
        /\ verdict' \in [Tasker -> Verdict]
        /\ tip' \in [Tasker -> Tip \cup {NoTip}]
        /\ reruns' \in [Tasker -> Nat]
        /\ edits' \in Nat /\ others' \in Nat /\ faults' \in Nat
    BY DEF IInv, TypeOK, Step, Outcome, PushMainRejected, FastForward, TriesLeft,
           Main, Verdict
  <2>2. attempt' \in [Tasker -> 0 .. MaxMergeRetries]
    <3>1. TriesLeft(t) => attempt[t] + 1 \in 0 .. MaxMergeRetries
      BY ConstantsAssumption DEF IInv, TypeOK, TriesLeft
    <3>2. \/ attempt' = attempt
          \/ TriesLeft(t) /\ attempt' = [attempt EXCEPT ![t] = @ + 1]
      BY DEF PushMainRejected
    <3> QED
      BY <3>1, <3>2 DEF IInv, TypeOK
  <2> QED
    BY <2>1, <2>2 DEF IInv, TypeOK
<1>2. /\ UNCHANGED arbiter
      /\ faults' = 0 => faults = 0
      /\ \A u \in Tasker \ {t} : Same(u)
  BY DEF IInv, TypeOK, Same, PushMainRejected, FastForward, TriesLeft
<1>3. RunInv(t)'
  <2>1. Keeper(t)' /\ NotYet(t)' /\ OpeningInv(t)' /\ Reasoned(t)'
    BY DEF IInv, RunInv, TypeOK, Keeper, NotYet, InFlight, HeldSteps, Ready,
           PushMainRejected, FastForward, TriesLeft, OpeningInv, Main, BaseInv,
           FirstOrGone, Reasoned
  <2>2. BaseInv(t)'
    BY DEF IInv, RunInv, TypeOK, Main, BaseInv, Ready, PushMainRejected,
           FastForward, TriesLeft
  <2>3. FirstOrGone(t)'
    BY DEF IInv, RunInv, TypeOK, Main, FirstOrGone, BaseInv, CommittedSteps,
           BranchSteps, Ready, PushMainRejected, FastForward, TriesLeft
  <2>4. TipInv(t)'
    BY DEF IInv, RunInv, TypeOK, TipInv, SetsInv, CommittedSteps, BranchSteps,
           Ready, PushMainRejected, FastForward, TriesLeft
  <2> QED
    BY <2>1, <2>2, <2>3, <2>4 DEF RunInv
<1>4. openPR /\ Ready /\ lock = t =>
          verdict'[t] = "tasks" /\ pc'[t] \in OpenSteps(t) /\ tip'[t] # NoTip
  BY DEF IInv, TypeOK, RunInv, NotYet, TipInv, OpenInv, OpenSteps,
         CommittedSteps, BranchSteps, Ready, PushMainRejected, FastForward,
         TriesLeft
<1> QED
  BY <1>1, <1>2, <1>3, <1>4, OwnStep

LEMMA CrashKeeps == ASSUME IInv, NEW t \in Tasker, Crash(t) PROVE IInv'
<1>1. TypeOK'
  <2>1. /\ UNCHANGED <<mode, main, sets, lock, remote, openPR>>
        /\ tip' \in [Tasker -> Tip \cup {NoTip}]
        /\ attempt' \in [Tasker -> 0 .. MaxMergeRetries]
        /\ reruns' \in [Tasker -> Nat]
        /\ edits' \in Nat /\ others' \in Nat /\ faults' \in Nat
    BY ConstantsAssumption DEF Crash, IInv, TypeOK
  <2>2. pc' \in [Tasker -> Step] /\ outcome' \in [Tasker -> Outcome]
    BY DEF IInv, TypeOK, Step, Outcome, Crash
  <2>3. /\ base' \in [Tasker -> Main] /\ blob' \in [Tasker -> Nat]
        /\ verdict' \in [Tasker -> Verdict]
    BY DEF IInv, TypeOK, Main, Verdict, Crash
  <2> QED
    BY <2>1, <2>2, <2>3 DEF IInv, TypeOK
<1>2. /\ UNCHANGED arbiter
      /\ faults' = 0 => faults = 0
      /\ \A u \in Tasker \ {t} : Same(u)
  BY DEF IInv, TypeOK, Same, Crash
<1>3. RunInv(t)'
  BY DEF IInv, RunInv, TypeOK, Keeper, NotYet, InFlight, HeldSteps, Ready, Crash,
         Main, BaseInv, FirstOrGone, CommittedSteps, BranchSteps, TipInv, SetsInv,
         OpeningInv, Reasoned
<1>4. openPR /\ Ready /\ lock = t =>
          verdict'[t] = "tasks" /\ pc'[t] \in OpenSteps(t) /\ tip'[t] # NoTip
  BY DEF IInv, TypeOK, RunInv, NotYet, TipInv, OpenInv, OpenSteps,
         CommittedSteps, BranchSteps, Ready, Crash
<1> QED
  BY <1>1, <1>2, <1>3, <1>4, OwnStep

LEMMA RerunKeeps == ASSUME IInv, NEW t \in Tasker, Rerun(t) PROVE IInv'
<1>1. TypeOK'
  <2>1. /\ UNCHANGED <<mode, main, sets, lock, remote, openPR>>
        /\ base' \in [Tasker -> Main] /\ blob' \in [Tasker -> Nat]
        /\ verdict' \in [Tasker -> Verdict]
        /\ tip' \in [Tasker -> Tip \cup {NoTip}]
        /\ attempt' \in [Tasker -> 0 .. MaxMergeRetries]
    BY ConstantsAssumption DEF Rerun, IInv, TypeOK, Main, Verdict
  <2>2. pc' \in [Tasker -> Step] /\ outcome' \in [Tasker -> Outcome]
    BY DEF IInv, TypeOK, Step, Outcome, Rerun
  <2>3. /\ reruns' \in [Tasker -> Nat]
        /\ edits' \in Nat /\ others' \in Nat /\ faults' \in Nat
    BY DEF IInv, TypeOK, Rerun
  <2> QED
    BY <2>1, <2>2, <2>3 DEF IInv, TypeOK
<1>2. /\ UNCHANGED arbiter
      /\ faults' = 0 => faults = 0
      /\ \A u \in Tasker \ {t} : Same(u)
  BY DEF IInv, TypeOK, Same, Rerun
<1>3. RunInv(t)'
  BY DEF IInv, RunInv, TypeOK, Keeper, NotYet, InFlight, HeldSteps, Ready, Rerun,
         Main, BaseInv, FirstOrGone, CommittedSteps, BranchSteps, TipInv, SetsInv,
         OpeningInv, Reasoned
<1>4. openPR /\ Ready /\ lock = t =>
          verdict'[t] = "tasks" /\ pc'[t] \in OpenSteps(t) /\ tip'[t] # NoTip
  BY DEF IInv, TypeOK, RunInv, NotYet, TipInv, OpenInv, OpenSteps,
         CommittedSteps, BranchSteps, Ready, Rerun
<1> QED
  BY <1>1, <1>2, <1>3, <1>4, OwnStep

-----------------------------------------------------------------------------
(* Steps of one run on the arbiter *)

LEMMA AcquireLockKeeps == ASSUME IInv, NEW t \in Tasker, AcquireLock(t) PROVE IInv'
<1>1. TypeOK'
  <2>1. /\ lock' \in Tasker \cup {NoOne} /\ openPR' \in BOOLEAN
        /\ UNCHANGED run /\ UNCHANGED counters /\ faults' \in Nat
        /\ main' \in Main /\ sets' \in Seq([by : Tasker, from : Nat])
        /\ remote' \in Tip \cup {NoTip}
    BY DEF IInv, TypeOK, AcquireLock
  <2>2. pc' \in [Tasker -> Step] /\ outcome' \in [Tasker -> Outcome]
    BY DEF IInv, TypeOK, Step, Outcome, AcquireLock
  <2> QED
    BY <2>1, <2>2 DEF IInv, TypeOK
<1>2. Onward
  BY DEF IInv, TypeOK, Main, Onward, Ready, AcquireLock
<1>3. ASSUME NEW u \in Tasker, u # t PROVE RunInv(u)'
  <2>1. Same(u)
    BY <1>3 DEF IInv, TypeOK, Same, AcquireLock
  <2>2. \/ lock' = u <=> lock = u
        \/ lock' = NoOne /\ (~Ready \/ pc[u] = "over")
    BY <1>3, ConstantsAssumption
       DEF IInv, RunInv, Keeper, InFlight, HeldSteps, Ready, AcquireLock
  <2>3. Ready => Ready' \/ u \in Ci
                 \/ pc[u] \notin BranchSteps
    BY <1>3
       DEF IInv, RunInv, Keeper, InFlight, HeldSteps, CommittedSteps,
           BranchSteps, Ready, AcquireLock
  <2>4. OpeningInv(u)'
    BY <1>2, <1>3, <2>1
       DEF IInv, RunInv, OpeningInv, Same, Onward, Ready, AcquireLock
  <2> QED
    BY <1>1, <1>2, <2>1, <2>2, <2>3, <2>4, OtherRun
<1>4. RunInv(t)'
  <2>1. Keeper(t)' /\ NotYet(t)' /\ OpeningInv(t)' /\ Reasoned(t)'
    BY <1>2, ConstantsAssumption
       DEF IInv, RunInv, TypeOK, Keeper, NotYet, InFlight, HeldSteps, Onward,
           Ready, AcquireLock, TipInv, OpeningInv, CommittedSteps, BranchSteps,
           Reasoned
  <2>2. BaseInv(t)'
    BY <1>2 DEF IInv, RunInv, TypeOK, Main, BaseInv, Onward, Ready, AcquireLock
  <2>3. FirstOrGone(t)'
    BY <1>2
       DEF IInv, RunInv, TypeOK, FirstOrGone, CommittedSteps, BranchSteps,
           Ready, AcquireLock
  <2>4. TipInv(t)'
    BY <1>2
       DEF IInv, RunInv, TypeOK, TipInv, Onward, CommittedSteps, BranchSteps,
           Ready, AcquireLock
  <2> QED
    BY <2>1, <2>2, <2>3, <2>4 DEF RunInv
<1>5. SetsInv'
  BY DEF IInv, SetsInv, LocalTaskingIsFirst, Ready, AcquireLock
<1>6. OpenInv'
  <2>1. openPR /\ Ready => lock \in Tasker /\ lock # NoOne /\ lock # t
    BY ConstantsAssumption
       DEF IInv, TypeOK, Tip, RunInv, NotYet, OpenInv, Ready, AcquireLock
  <2>2. openPR /\ Ready => lock' = lock /\ pc'[lock] = pc[lock]
    BY <2>1 DEF IInv, TypeOK, AcquireLock
  <2> QED
    BY <2>2 DEF IInv, OpenInv, OpenSteps, Ready, AcquireLock
<1> QED
  BY <1>1, <1>3, <1>4, <1>5, <1>6 DEF IInv

LEMMA ReleaseLockKeeps == ASSUME IInv, NEW t \in Tasker, ReleaseLock(t) PROVE IInv'
<1>1. TypeOK'
  <2>1. pc' \in [Tasker -> Step]
    BY DEF IInv, TypeOK, Step, ReleaseLock
  <2>2. lock' \in Tasker \cup {NoOne} /\ faults' \in Nat
    BY DEF IInv, TypeOK, ReleaseLock
  <2> QED
    BY <2>1, <2>2 DEF IInv, TypeOK, ReleaseLock
<1>2. Onward
  BY DEF IInv, TypeOK, Main, Onward, Ready, ReleaseLock
<1>3. ASSUME NEW u \in Tasker, u # t PROVE RunInv(u)'
  <2>1. Same(u)
    BY <1>3 DEF IInv, TypeOK, Same, ReleaseLock
  <2>2. \/ lock' = u <=> lock = u
        \/ lock' = NoOne /\ (~Ready \/ pc[u] = "over")
    BY <1>3, ConstantsAssumption
       DEF IInv, RunInv, Keeper, InFlight, HeldSteps, Ready, ReleaseLock
  <2>3. Ready => Ready' \/ u \in Ci
                 \/ pc[u] \notin BranchSteps
    BY <1>3
       DEF IInv, RunInv, Keeper, InFlight, HeldSteps, CommittedSteps,
           BranchSteps, Ready, ReleaseLock
  <2>4. OpeningInv(u)'
    BY <1>2, <1>3, <2>1
       DEF IInv, RunInv, OpeningInv, Same, Onward, Ready, ReleaseLock
  <2> QED
    BY <1>1, <1>2, <2>1, <2>2, <2>3, <2>4, OtherRun
<1>4. RunInv(t)'
  BY <1>2, ConstantsAssumption
     DEF IInv, RunInv, TypeOK, Keeper, NotYet, InFlight, HeldSteps, Onward,
         Ready, ReleaseLock, Main, BaseInv, FirstOrGone, CommittedSteps,
         BranchSteps, TipInv, OpeningInv, Reasoned
<1>5. SetsInv'
  BY DEF IInv, SetsInv, LocalTaskingIsFirst, Ready, ReleaseLock
<1>6. OpenInv'
  BY ConstantsAssumption, NoTipAssumption
     DEF IInv, TypeOK, RunInv, Keeper, NotYet, InFlight, HeldSteps, TipInv,
         OpeningInv, OpenInv, OpenSteps, CommittedSteps, BranchSteps, Ready,
         ReleaseLock
<1> QED
  BY <1>1, <1>3, <1>4, <1>5, <1>6 DEF IInv

LEMMA SurfaceKeeps == ASSUME IInv, NEW t \in Tasker, Surface(t) PROVE IInv'
<1>1. TypeOK'
  <2>1. /\ lock' \in Tasker \cup {NoOne} /\ openPR' \in BOOLEAN
        /\ remote' \in Tip \cup {NoTip}
    BY DEF IInv, TypeOK, Surface, Commit
  <2>2. pc' \in [Tasker -> Step] /\ outcome' \in [Tasker -> Outcome]
    BY DEF IInv, TypeOK, Step, Outcome, Surface, Commit
  <2>3. UNCHANGED run /\ UNCHANGED counters /\ faults' \in Nat
    BY DEF IInv, TypeOK, Surface, Commit
  <2>4. main' \in Main /\ sets' \in Seq([by : Tasker, from : Nat])
    <3>1. main.body + 1 \in Nat /\ main.version + 1 \in Nat
      <4>1. main.body \in Nat /\ main.version \in Nat
        BY DEF IInv, TypeOK, Main
      <4> QED
        BY <4>1
    <3>2. main' = main \/ \E asked \in BOOLEAN :
              main' = [spec |-> "ready", body |-> main.body + 1, asked |-> asked,
                       version |-> main.version + 1]
      BY <3>1 DEF Surface, Commit
    <3> QED
      BY <3>1, <3>2 DEF IInv, TypeOK, Main, Surface
  <2> QED
    BY <2>1, <2>2, <2>3, <2>4 DEF IInv, TypeOK
<1>2. Onward
  BY DEF IInv, TypeOK, Main, Onward, Ready, Surface, Commit
<1>3. ASSUME NEW u \in Tasker, u # t PROVE RunInv(u)'
  <2>1. Same(u)
    BY <1>3 DEF IInv, TypeOK, Same, Surface, Commit
  <2>2. \/ lock' = u <=> lock = u
        \/ lock' = NoOne /\ (~Ready \/ pc[u] = "over")
    BY <1>3, ConstantsAssumption
       DEF IInv, RunInv, Keeper, InFlight, HeldSteps, Ready, Surface, Commit
  <2>3. Ready => Ready' \/ u \in Ci
                 \/ pc[u] \notin BranchSteps
    BY <1>3
       DEF IInv, RunInv, Keeper, InFlight, HeldSteps, CommittedSteps,
           BranchSteps, Ready, Surface, Commit
  <2>4. OpeningInv(u)'
    BY <1>2, <1>3, <2>1
       DEF IInv, RunInv, OpeningInv, Same, Onward, Ready, Surface, Commit
  <2> QED
    BY <1>1, <1>2, <2>1, <2>2, <2>3, <2>4, OtherRun
<1>4. RunInv(t)'
  <2>1. Keeper(t)' /\ NotYet(t)' /\ OpeningInv(t)' /\ Reasoned(t)'
    BY <1>2, ConstantsAssumption
       DEF IInv, RunInv, TypeOK, Keeper, NotYet, InFlight, HeldSteps, Onward,
           Ready, Surface, Commit, TipInv, OpeningInv, CommittedSteps,
           BranchSteps, Reasoned
  <2>2. BaseInv(t)'
    <3>1. /\ main.body \in Nat /\ main'.body \in Nat
          /\ base[t].body \in Nat /\ blob[t] \in Nat
      BY <1>1 DEF IInv, TypeOK, Main
    <3>2. base' = base /\ blob' = blob /\ pc'[t] \in {"releasing", "over"}
      BY DEF IInv, TypeOK, Surface
    <3> QED
      BY <1>2, <3>1, <3>2 DEF IInv, RunInv, BaseInv, Onward, Ready
  <2>3. FirstOrGone(t)'
    BY <1>2
       DEF IInv, RunInv, TypeOK, FirstOrGone, CommittedSteps, BranchSteps,
           Ready, Surface, Commit
  <2>4. TipInv(t)'
    BY <1>2
       DEF IInv, RunInv, TypeOK, TipInv, Onward, CommittedSteps, BranchSteps,
           Ready, Surface, Commit
  <2> QED
    BY <2>1, <2>2, <2>3, <2>4 DEF RunInv
<1>5. SetsInv'
  BY DEF IInv, SetsInv, LocalTaskingIsFirst, Ready, Surface, Commit
<1>6. OpenInv'
  BY ConstantsAssumption, NoTipAssumption
     DEF IInv, TypeOK, RunInv, Keeper, NotYet, InFlight, HeldSteps, TipInv,
         OpeningInv, OpenInv, OpenSteps, CommittedSteps, BranchSteps, Ready,
         Surface, Commit
<1> QED
  BY <1>1, <1>3, <1>4, <1>5, <1>6 DEF IInv

LEMMA OpenRequestKeeps == ASSUME IInv, NEW t \in Tasker, OpenRequest(t) PROVE IInv'
<1>1. TypeOK'
  <2>1. /\ UNCHANGED run /\ UNCHANGED counters /\ faults' \in Nat
        /\ main' \in Main /\ sets' \in Seq([by : Tasker, from : Nat])
        /\ remote' \in Tip \cup {NoTip}
    BY DEF IInv, TypeOK, OpenRequest, AfterOpen
  <2>2. pc' \in [Tasker -> Step] /\ outcome' \in [Tasker -> Outcome]
    BY DEF IInv, TypeOK, Step, Outcome, OpenRequest, AfterOpen
  <2>3. lock' \in Tasker \cup {NoOne} /\ openPR' \in BOOLEAN
    BY DEF IInv, TypeOK, OpenRequest, AfterOpen
  <2> QED
    BY <2>1, <2>2, <2>3 DEF IInv, TypeOK
<1>2. Onward
  BY MainStands DEF OpenRequest
<1>3. ASSUME NEW u \in Tasker, u # t PROVE RunInv(u)'
  <2>1. Same(u)
    BY <1>3 DEF IInv, TypeOK, Same, OpenRequest, AfterOpen
  <2>2. \/ lock' = u <=> lock = u
        \/ lock' = NoOne /\ (~Ready \/ pc[u] = "over")
    BY <1>3, ConstantsAssumption
       DEF IInv, RunInv, Keeper, InFlight, HeldSteps, Ready, OpenRequest,
           AfterOpen
  <2>3. Ready => Ready' \/ u \in Ci
                 \/ pc[u] \notin BranchSteps
    BY <1>3
       DEF IInv, RunInv, Keeper, InFlight, HeldSteps, CommittedSteps,
           BranchSteps, Ready, OpenRequest, AfterOpen
  <2>4. OpeningInv(u)'
    BY <1>2, <1>3, <2>1
       DEF IInv, RunInv, OpeningInv, Same, Onward, Ready, OpenRequest, AfterOpen
  <2> QED
    BY <1>1, <1>2, <2>1, <2>2, <2>3, <2>4, OtherRun
<1>4. RunInv(t)'
  <2>1. Keeper(t)' /\ NotYet(t)' /\ OpeningInv(t)' /\ Reasoned(t)'
    BY <1>2, ConstantsAssumption
       DEF IInv, RunInv, TypeOK, Keeper, NotYet, InFlight, HeldSteps, Onward,
           Ready, OpenRequest, AfterOpen, TipInv, OpeningInv, CommittedSteps,
           BranchSteps, Reasoned
  <2>2. BaseInv(t)'
    BY <1>2
       DEF IInv, RunInv, TypeOK, Main, BaseInv, Onward, Ready, OpenRequest,
           AfterOpen
  <2>3. FirstOrGone(t)'
    BY <1>2
       DEF IInv, RunInv, TypeOK, FirstOrGone, CommittedSteps, BranchSteps,
           Ready, OpenRequest, AfterOpen
  <2>4. TipInv(t)'
    BY <1>2
       DEF IInv, RunInv, TypeOK, TipInv, Onward, CommittedSteps, BranchSteps,
           Ready, OpenRequest, AfterOpen
  <2> QED
    BY <2>1, <2>2, <2>3, <2>4 DEF RunInv
<1>5. SetsInv'
  BY DEF IInv, SetsInv, LocalTaskingIsFirst, Ready, OpenRequest, AfterOpen
<1>6. OpenInv'
  <2>1. /\ verdict[t] = "tasks" /\ tip[t] # NoTip /\ pc'[t] = "over"
        /\ Ready => lock = t
        /\ t \notin Ci => Ready
        /\ remote # NoTip /\ remote.own = "tasks" =>
              remote.by = t \/ (remote.by \in Ci /\ ~Ready)
    BY DEF IInv, TypeOK, RunInv, Keeper, InFlight, HeldSteps, TipInv,
           OpeningInv, FirstOrGone, CommittedSteps, BranchSteps, OpenRequest,
           AfterOpen
  <2>2. UNCHANGED <<main, lock, remote, verdict, tip>>
    BY DEF OpenRequest, run
  <2>3. "over" \in OpenSteps(t)
    BY DEF OpenSteps
  <2>4. CASE openPR
    BY <2>1, <2>2, <2>3, <2>4 DEF IInv, OpenInv, OpenSteps, Ready
  <2>5. CASE ~openPR
    BY <2>1, <2>2, <2>3, <2>5 DEF OpenInv, OpenSteps, Ready, OpenRequest
  <2> QED
    BY <2>4, <2>5
<1> QED
  BY <1>1, <1>3, <1>4, <1>5, <1>6 DEF IInv

LEMMA CloseRequestKeeps ==
    ASSUME IInv, NEW t \in Tasker, CloseRequest(t)
    PROVE  IInv'
<1>1. TypeOK'
  BY DEF IInv, TypeOK, Step, Outcome, CloseRequest
<1>2. Onward
  BY DEF IInv, TypeOK, Main, Onward, Ready, CloseRequest
<1>3. ASSUME NEW u \in Tasker, u # t PROVE RunInv(u)'
  <2>1. Same(u)
    BY <1>3 DEF IInv, TypeOK, Same, CloseRequest
  <2>2. \/ lock' = u <=> lock = u
        \/ lock' = NoOne /\ (~Ready \/ pc[u] = "over")
    BY <1>3, ConstantsAssumption
       DEF IInv, RunInv, Keeper, InFlight, HeldSteps, Ready, CloseRequest
  <2>3. Ready => Ready' \/ u \in Ci
                 \/ pc[u] \notin BranchSteps
    BY <1>3
       DEF IInv, RunInv, Keeper, InFlight, HeldSteps, CommittedSteps,
           BranchSteps, Ready, CloseRequest
  <2>4. OpeningInv(u)'
    BY <1>2, <1>3, <2>1
       DEF IInv, RunInv, OpeningInv, Same, Onward, Ready, CloseRequest
  <2> QED
    BY <1>1, <1>2, <2>1, <2>2, <2>3, <2>4, OtherRun
<1>4. RunInv(t)'
  BY <1>2, ConstantsAssumption
     DEF IInv, RunInv, TypeOK, Keeper, NotYet, InFlight, HeldSteps, Onward,
         Ready, CloseRequest, Main, BaseInv, FirstOrGone, CommittedSteps,
         BranchSteps, TipInv, OpeningInv, Reasoned
<1>5. SetsInv'
  BY DEF IInv, SetsInv, LocalTaskingIsFirst, Ready, CloseRequest
<1>6. OpenInv'
  BY ConstantsAssumption, NoTipAssumption
     DEF IInv, TypeOK, RunInv, Keeper, NotYet, InFlight, HeldSteps, TipInv,
         OpeningInv, OpenInv, OpenSteps, CommittedSteps, BranchSteps, Ready,
         CloseRequest
<1> QED
  BY <1>1, <1>3, <1>4, <1>5, <1>6 DEF IInv

LEMMA SaveCandidatesKeeps ==
    ASSUME IInv, NEW t \in Tasker, SaveCandidates(t)
    PROVE  IInv'
<1>1. TypeOK'
  <2>1. /\ pc' \in [Tasker -> Step] /\ outcome' \in [Tasker -> Outcome]
        /\ lock' \in Tasker \cup {NoOne} /\ openPR' \in BOOLEAN
        /\ UNCHANGED run /\ UNCHANGED counters /\ faults' \in Nat
        /\ main' \in Main /\ sets' \in Seq([by : Tasker, from : Nat])
    BY DEF IInv, TypeOK, Step, Outcome, SaveCandidates
  <2>2. remote' \in Tip \cup {NoTip}
    <3>1. [by |-> t, from |-> base[t].body, base |-> base[t].version,
           own |-> "saved"] \in Tip
      BY DEF IInv, TypeOK, Main, Tip
    <3> QED
      BY <3>1 DEF IInv, TypeOK, SaveCandidates
  <2> QED
    BY <2>1, <2>2 DEF IInv, TypeOK
<1>2. Onward
  BY DEF IInv, TypeOK, Main, Onward, Ready, SaveCandidates
<1>3. ASSUME NEW u \in Tasker, u # t PROVE RunInv(u)'
  <2>1. Same(u)
    BY <1>3 DEF IInv, TypeOK, Same, SaveCandidates
  <2>2. \/ lock' = u <=> lock = u
        \/ lock' = NoOne /\ (~Ready \/ pc[u] = "over")
    BY <1>3, ConstantsAssumption
       DEF IInv, RunInv, Keeper, InFlight, HeldSteps, Ready, SaveCandidates
  <2>3. Ready => Ready' \/ u \in Ci
                 \/ pc[u] \notin BranchSteps
    BY <1>3
       DEF IInv, RunInv, Keeper, InFlight, HeldSteps, CommittedSteps,
           BranchSteps, Ready, SaveCandidates
  <2>4. OpeningInv(u)'
    BY <1>2, <1>3, <2>1
       DEF IInv, RunInv, OpeningInv, Same, Onward, Ready, SaveCandidates
  <2> QED
    BY <1>1, <1>2, <2>1, <2>2, <2>3, <2>4, OtherRun
<1>4. RunInv(t)'
  BY <1>2, ConstantsAssumption
     DEF IInv, RunInv, TypeOK, Keeper, NotYet, InFlight, HeldSteps, Onward,
         Ready, SaveCandidates, Main, BaseInv, FirstOrGone, CommittedSteps,
         BranchSteps, TipInv, OpeningInv, Reasoned
<1>5. SetsInv'
  BY DEF IInv, SetsInv, LocalTaskingIsFirst, Ready, SaveCandidates
<1>6. OpenInv'
  BY ConstantsAssumption, NoTipAssumption
     DEF IInv, TypeOK, RunInv, Keeper, NotYet, InFlight, HeldSteps, TipInv,
         OpeningInv, OpenInv, OpenSteps, CommittedSteps, BranchSteps, Ready,
         SaveCandidates
<1> QED
  BY <1>1, <1>3, <1>4, <1>5, <1>6 DEF IInv

LEMMA PushBranchKeeps == ASSUME IInv, NEW t \in Tasker, PushBranch(t) PROVE IInv'
<1>0. /\ tip[t] # NoTip /\ tip[t].by = t /\ verdict[t] = "tasks"
      /\ Ready => lock = t
      /\ t \notin Ci => Ready
      /\ remote' \in {remote, tip[t]}
      /\ pc'[t] \in {"over", "opening"} /\ pc[t] = "landing"
  BY DEF IInv, TypeOK, RunInv, Keeper, InFlight, HeldSteps, TipInv, FirstOrGone,
         CommittedSteps, BranchSteps, PushBranch
<1>1. TypeOK'
  <2>1. /\ lock' \in Tasker \cup {NoOne} /\ openPR' \in BOOLEAN
        /\ UNCHANGED run /\ UNCHANGED counters /\ faults' \in Nat
        /\ main' \in Main /\ sets' \in Seq([by : Tasker, from : Nat])
        /\ remote' \in Tip \cup {NoTip}
    BY DEF IInv, TypeOK, PushBranch
  <2>2. pc' \in [Tasker -> Step] /\ outcome' \in [Tasker -> Outcome]
    BY DEF IInv, TypeOK, Step, Outcome, PushBranch
  <2> QED
    BY <2>1, <2>2 DEF IInv, TypeOK
<1>2. Onward
  BY MainStands DEF PushBranch
<1>3. ASSUME NEW u \in Tasker, u # t PROVE RunInv(u)'
  <2>1. Same(u)
    BY <1>3 DEF IInv, TypeOK, Same, PushBranch
  <2>2. \/ lock' = u <=> lock = u
        \/ lock' = NoOne /\ (~Ready \/ pc[u] = "over")
    BY <1>3, ConstantsAssumption
       DEF IInv, RunInv, Keeper, InFlight, HeldSteps, Ready, PushBranch
  <2>3. Ready => Ready' \/ u \in Ci
                 \/ pc[u] \notin BranchSteps
    BY <1>3
       DEF IInv, RunInv, Keeper, InFlight, HeldSteps, CommittedSteps,
           BranchSteps, Ready, PushBranch
  <2>4. OpeningInv(u)'
    <3>1. UNCHANGED main /\ pc'[u] = pc[u]
      BY <2>1 DEF PushBranch, Same
    <3>2. pc[u] = "opening" /\ Ready => lock = u
      BY DEF IInv, RunInv, Keeper, InFlight, HeldSteps
    <3>3. pc[u] = "opening" /\ Ready => FALSE
      BY <1>0, <1>3, <3>2
    <3> QED
      BY <1>0, <3>1, <3>3 DEF IInv, RunInv, OpeningInv, Ready
  <2> QED
    BY <1>1, <1>2, <2>1, <2>2, <2>3, <2>4, OtherRun
<1>4. RunInv(t)'
  <2>1. Keeper(t)' /\ NotYet(t)' /\ OpeningInv(t)' /\ Reasoned(t)'
    BY <1>2, ConstantsAssumption
       DEF IInv, RunInv, TypeOK, Keeper, NotYet, InFlight, HeldSteps, Onward,
           Ready, PushBranch, TipInv, OpeningInv, CommittedSteps, BranchSteps,
           Reasoned
  <2>2. BaseInv(t)'
    BY <1>2 DEF IInv, RunInv, TypeOK, Main, BaseInv, Onward, Ready, PushBranch
  <2>3. FirstOrGone(t)'
    BY <1>2
       DEF IInv, RunInv, TypeOK, FirstOrGone, CommittedSteps, BranchSteps,
           Ready, PushBranch
  <2>4. TipInv(t)'
    BY <1>2
       DEF IInv, RunInv, TypeOK, TipInv, Onward, CommittedSteps, BranchSteps,
           Ready, PushBranch
  <2> QED
    BY <2>1, <2>2, <2>3, <2>4 DEF RunInv
<1>5. SetsInv'
  BY DEF IInv, SetsInv, LocalTaskingIsFirst, Ready, PushBranch
<1>6. OpenInv'
  <2>1. UNCHANGED <<main, lock, openPR, verdict, tip>>
    BY DEF PushBranch, run
  <2>2. pc'[t] \in OpenSteps(t) \/ t \notin Ci
    BY <1>0 DEF OpenSteps, CommittedSteps, BranchSteps
  <2>3. openPR /\ t \notin Ci => FALSE
    BY <1>0 DEF IInv, OpenInv, OpenSteps
  <2> QED
    BY <1>0, <2>1, <2>2, <2>3 DEF IInv, OpenInv, Ready
<1> QED
  BY <1>1, <1>3, <1>4, <1>5, <1>6 DEF IInv

LEMMA PruneHeadKeeps == ASSUME IInv, NEW t \in Tasker, PruneHead(t) PROVE IInv'
<1>1. TypeOK'
  BY DEF IInv, TypeOK, Step, Outcome, PruneHead, LandedBy
<1>2. Onward
  BY DEF IInv, TypeOK, Main, Onward, Ready, PruneHead, LandedBy
<1>3. ASSUME NEW u \in Tasker, u # t PROVE RunInv(u)'
  <2>1. Same(u)
    BY <1>3 DEF IInv, TypeOK, Same, PruneHead, LandedBy
  <2>2. \/ lock' = u <=> lock = u
        \/ lock' = NoOne /\ (~Ready \/ pc[u] = "over")
    BY <1>3, ConstantsAssumption
       DEF IInv, RunInv, Keeper, InFlight, HeldSteps, Ready, PruneHead, LandedBy
  <2>3. Ready => Ready' \/ u \in Ci
                 \/ pc[u] \notin BranchSteps
    BY <1>3
       DEF IInv, RunInv, Keeper, InFlight, HeldSteps, CommittedSteps,
           BranchSteps, Ready, PruneHead, LandedBy
  <2>4. OpeningInv(u)'
    BY <1>2, <1>3, <2>1
       DEF IInv, RunInv, OpeningInv, Same, Onward, Ready, PruneHead, LandedBy
  <2> QED
    BY <1>1, <1>2, <2>1, <2>2, <2>3, <2>4, OtherRun
<1>4. RunInv(t)'
  <2>1. Keeper(t)' /\ NotYet(t)' /\ OpeningInv(t)' /\ Reasoned(t)'
    BY <1>2, ConstantsAssumption
       DEF IInv, RunInv, TypeOK, Keeper, NotYet, InFlight, HeldSteps, Onward,
           Ready, PruneHead, LandedBy, TipInv, OpeningInv, CommittedSteps,
           BranchSteps, Reasoned
  <2>2. BaseInv(t)'
    BY <1>2
       DEF IInv, RunInv, TypeOK, Main, BaseInv, Onward, Ready, PruneHead,
           LandedBy
  <2>3. FirstOrGone(t)'
    BY <1>2
       DEF IInv, RunInv, TypeOK, FirstOrGone, CommittedSteps, BranchSteps,
           Ready, PruneHead, LandedBy
  <2>4. TipInv(t)'
    BY <1>2
       DEF IInv, RunInv, TypeOK, TipInv, Onward, CommittedSteps, BranchSteps,
           Ready, PruneHead, LandedBy
  <2> QED
    BY <2>1, <2>2, <2>3, <2>4 DEF RunInv
<1>5. SetsInv'
  BY DEF IInv, SetsInv, LocalTaskingIsFirst, Ready, PruneHead, LandedBy
<1>6. OpenInv'
  BY ConstantsAssumption, NoTipAssumption
     DEF IInv, TypeOK, RunInv, Keeper, NotYet, InFlight, HeldSteps, TipInv,
         OpeningInv, OpenInv, OpenSteps, CommittedSteps, BranchSteps, Ready,
         PruneHead, LandedBy
<1> QED
  BY <1>1, <1>3, <1>4, <1>5, <1>6 DEF IInv

\* Landing a set: by a local run, or of one, it is the first.
LEMMA LandFacts ==
    ASSUME IInv, NEW set \in Tip, LandSet(set) \/ UNCHANGED <<main, sets>>,
           Ready \/ set.by \in Ci \/ set.own # "tasks"
    PROVE  /\ main' \in Main /\ sets' \in Seq([by : Tasker, from : Nat])
           /\ main.body <= main'.body
           /\ Ready' => Ready
           /\ SetsInv'
<1>1. CASE UNCHANGED <<main, sets>>
  BY <1>1 DEF IInv, TypeOK, Main, SetsInv, LocalTaskingIsFirst, Ready
<1>2. CASE LandSet(set) /\ set.own = "tasks"
  <2>1. /\ main' \in Main /\ main'.body = main.body /\ ~Ready'
        /\ main.body \in Nat
    BY <1>2 DEF IInv, TypeOK, Main, LandSet, Commit, Ready
  <2> DEFINE new == [by |-> set.by, from |-> set.from]
  <2>2. sets' = Append(sets, new) /\ new \in [by : Tasker, from : Nat]
    BY <1>2 DEF LandSet, Tip
  <2>3. /\ sets' \in Seq([by : Tasker, from : Nat])
        /\ Len(sets') = Len(sets) + 1 /\ Len(sets) \in Nat
        /\ sets'[Len(sets) + 1] = new
        /\ \A k \in 1 .. Len(sets) : sets'[k] = sets[k]
    BY <2>2 DEF IInv, TypeOK
  <2>4. LocalTaskingIsFirst'
    <3> SUFFICES ASSUME NEW k \in 1 .. Len(sets'), k > 1
                 PROVE  sets'[k].by \in Ci
      BY <2>3 DEF LocalTaskingIsFirst
    <3>1. CASE k <= Len(sets)
      <4>1. k \in 1 .. Len(sets) /\ k \in DOMAIN sets
        BY <2>3, <3>1 DEF IInv, TypeOK
      <4>2. sets[k].by \in Ci
        BY <4>1 DEF IInv, SetsInv, LocalTaskingIsFirst
      <4> QED
        BY <2>3, <4>1, <4>2
    <3>2. CASE k = Len(sets) + 1
      <4>1. ~Ready
        BY <2>3, <3>2 DEF IInv, SetsInv
      <4> QED
        BY <1>2, <2>3, <3>2, <4>1
    <3> QED
      BY <2>3, <3>1, <3>2
  <2>5. sets' # <<>>
    BY <2>3
  <2> QED
    BY <2>1, <2>3, <2>4, <2>5 DEF SetsInv
<1>3. CASE LandSet(set) /\ set.own # "tasks"
  BY <1>1, <1>3 DEF LandSet
<1> QED
  BY <1>1, <1>2, <1>3

LEMMA PushMainKeeps == ASSUME IInv, NEW t \in Tasker, PushMain(t) PROVE IInv'
<1>0. /\ main' \in Main /\ sets' \in Seq([by : Tasker, from : Nat])
      /\ main.body <= main'.body
      /\ Ready' => Ready
      /\ SetsInv'
  <2>1. tip[t] \in Tip /\ tip[t].by = t
    BY DEF IInv, TypeOK, RunInv, TipInv, CommittedSteps, BranchSteps, PushMain
  <2>2. Ready \/ t \in Ci
    BY DEF IInv, RunInv, FirstOrGone, CommittedSteps, BranchSteps, PushMain
  <2>3. LandSet(tip[t]) \/ UNCHANGED <<main, sets>>
    BY DEF PushMain
  <2> QED
    BY <2>1, <2>2, <2>3, LandFacts
<1>1. TypeOK'
  BY <1>0 DEF IInv, TypeOK, Step, Outcome, PushMain, FastForward
<1>2. Onward
  BY <1>0 DEF IInv, TypeOK, Main, Onward, Ready, PushMain, FastForward
<1>3. ASSUME NEW u \in Tasker, u # t PROVE RunInv(u)'
  <2>1. Same(u)
    BY <1>3 DEF IInv, TypeOK, Same, PushMain, FastForward
  <2>2. \/ lock' = u <=> lock = u
        \/ lock' = NoOne /\ (~Ready \/ pc[u] = "over")
    BY <1>3, ConstantsAssumption
       DEF IInv, RunInv, Keeper, InFlight, HeldSteps, Ready, PushMain,
           FastForward
  <2>3. Ready => Ready' \/ u \in Ci
                 \/ pc[u] \notin BranchSteps
    BY <1>0, <1>3
       DEF IInv, RunInv, Keeper, InFlight, HeldSteps, CommittedSteps,
           BranchSteps, Ready, PushMain, FastForward
  <2>4. OpeningInv(u)'
    BY <1>2, <1>3, <2>1
       DEF IInv, RunInv, OpeningInv, Same, Onward, Ready, PushMain, FastForward
  <2> QED
    BY <1>1, <1>2, <2>1, <2>2, <2>3, <2>4, OtherRun
<1>4. RunInv(t)'
  <2>1. Keeper(t)' /\ NotYet(t)' /\ OpeningInv(t)' /\ Reasoned(t)'
    BY <1>0, <1>2, ConstantsAssumption
       DEF IInv, RunInv, TypeOK, Keeper, NotYet, InFlight, HeldSteps, Onward,
           Ready, PushMain, FastForward, TipInv, OpeningInv, CommittedSteps,
           BranchSteps, Reasoned
  <2>2. BaseInv(t)'
    <3>1. /\ main.body \in Nat /\ main'.body \in Nat
          /\ base[t].body \in Nat /\ blob[t] \in Nat
      BY <1>1 DEF IInv, TypeOK, Main
    <3>2. base' = base /\ blob' = blob /\ pc'[t] = "pruning"
      BY DEF IInv, TypeOK, PushMain
    <3> QED
      BY <1>2, <3>1, <3>2 DEF IInv, RunInv, BaseInv, Onward, Ready
  <2>3. FirstOrGone(t)'
    BY <1>0, <1>2
       DEF IInv, RunInv, TypeOK, FirstOrGone, CommittedSteps, BranchSteps,
           Ready, PushMain, FastForward
  <2>4. TipInv(t)'
    BY <1>0, <1>2
       DEF IInv, RunInv, TypeOK, TipInv, Onward, CommittedSteps, BranchSteps,
           Ready, PushMain, FastForward
  <2> QED
    BY <2>1, <2>2, <2>3, <2>4 DEF RunInv
<1>5. SetsInv'
  BY <1>0
<1>6. OpenInv'
  <2>1. /\ Ready => lock = t /\ tip[t].own = "tasks"
        /\ pc[t] = "landing"
    BY DEF IInv, RunInv, Keeper, InFlight, HeldSteps, TipInv, CommittedSteps,
           BranchSteps, PushMain
  <2>2. ~Ready'
    BY <1>0, <2>1 DEF PushMain, LandSet, Commit, Ready
  <2>3. openPR /\ Ready => remote.by \in Ci
    BY <2>1 DEF IInv, OpenInv, OpenSteps
  <2> QED
    BY <2>2, <2>3 DEF IInv, OpenInv, PushMain
<1> QED
  BY <1>1, <1>3, <1>4, <1>5, <1>6 DEF IInv

LEMMA PushMainLostKeeps ==
    ASSUME IInv, NEW t \in Tasker, PushMainLost(t)
    PROVE  IInv'
<1>0. /\ main' \in Main /\ sets' \in Seq([by : Tasker, from : Nat])
      /\ main.body <= main'.body
      /\ Ready' => Ready
      /\ SetsInv'
  <2>1. tip[t] \in Tip /\ tip[t].by = t
    BY DEF IInv, TypeOK, RunInv, TipInv, CommittedSteps, BranchSteps, PushMainLost
  <2>2. Ready \/ t \in Ci
    BY DEF IInv, RunInv, FirstOrGone, CommittedSteps, BranchSteps, PushMainLost
  <2>3. LandSet(tip[t]) \/ UNCHANGED <<main, sets>>
    BY DEF PushMainLost
  <2> QED
    BY <2>1, <2>2, <2>3, LandFacts
<1>1. TypeOK'
  BY <1>0 DEF IInv, TypeOK, Step, Outcome, PushMainLost, FastForward
<1>2. Onward
  BY <1>0 DEF IInv, TypeOK, Main, Onward, Ready, PushMainLost, FastForward
<1>3. ASSUME NEW u \in Tasker, u # t PROVE RunInv(u)'
  <2>1. Same(u)
    BY <1>3 DEF IInv, TypeOK, Same, PushMainLost, FastForward
  <2>2. \/ lock' = u <=> lock = u
        \/ lock' = NoOne /\ (~Ready \/ pc[u] = "over")
    BY <1>3, ConstantsAssumption
       DEF IInv, RunInv, Keeper, InFlight, HeldSteps, Ready, PushMainLost,
           FastForward
  <2>3. Ready => Ready' \/ u \in Ci
                 \/ pc[u] \notin BranchSteps
    BY <1>0, <1>3
       DEF IInv, RunInv, Keeper, InFlight, HeldSteps, CommittedSteps,
           BranchSteps, Ready, PushMainLost, FastForward
  <2>4. OpeningInv(u)'
    BY <1>2, <1>3, <2>1
       DEF IInv, RunInv, OpeningInv, Same, Onward, Ready, PushMainLost,
           FastForward
  <2> QED
    BY <1>1, <1>2, <2>1, <2>2, <2>3, <2>4, OtherRun
<1>4. RunInv(t)'
  <2>1. Keeper(t)' /\ NotYet(t)' /\ OpeningInv(t)' /\ Reasoned(t)'
    BY <1>0, <1>2, ConstantsAssumption
       DEF IInv, RunInv, TypeOK, Keeper, NotYet, InFlight, HeldSteps, Onward,
           Ready, PushMainLost, FastForward, TipInv, OpeningInv, CommittedSteps,
           BranchSteps, Reasoned
  <2>2. BaseInv(t)'
    BY <1>0, <1>2
       DEF IInv, RunInv, TypeOK, Main, BaseInv, Onward, Ready, PushMainLost,
           FastForward
  <2>3. FirstOrGone(t)'
    BY <1>0, <1>2
       DEF IInv, RunInv, TypeOK, FirstOrGone, CommittedSteps, BranchSteps,
           Ready, PushMainLost, FastForward
  <2>4. TipInv(t)'
    BY <1>0, <1>2
       DEF IInv, RunInv, TypeOK, TipInv, Onward, CommittedSteps, BranchSteps,
           Ready, PushMainLost, FastForward
  <2> QED
    BY <2>1, <2>2, <2>3, <2>4 DEF RunInv
<1>5. SetsInv'
  BY <1>0
<1>6. OpenInv'
  BY <1>0, ConstantsAssumption, NoTipAssumption
     DEF IInv, TypeOK, RunInv, Keeper, NotYet, InFlight, HeldSteps, TipInv,
         OpeningInv, OpenInv, OpenSteps, CommittedSteps, BranchSteps, Ready,
         PushMainLost, FastForward
<1> QED
  BY <1>1, <1>3, <1>4, <1>5, <1>6 DEF IInv

-----------------------------------------------------------------------------
(* Steps of people and of other writers *)

LEMMA EditSpecKeeps == ASSUME IInv, EditSpec PROVE IInv'
<1>1. TypeOK'
  <2>1. /\ pc' \in [Tasker -> Step] /\ outcome' \in [Tasker -> Outcome]
        /\ lock' \in Tasker \cup {NoOne} /\ openPR' \in BOOLEAN
        /\ UNCHANGED <<run, reruns>>
        /\ edits' \in Nat /\ others' \in Nat /\ faults' \in Nat
        /\ remote' \in Tip \cup {NoTip}
    BY DEF IInv, TypeOK, Step, Outcome, EditSpec, Commit
  <2>2. main' \in Main /\ sets' \in Seq([by : Tasker, from : Nat])
    <3>1. /\ main.body + 1 \in Nat /\ main.version + 1 \in Nat
          /\ main.asked \in BOOLEAN
      BY DEF IInv, TypeOK, Main
    <3>2. main' = main \/ \E asked \in BOOLEAN :
              main' = [spec |-> "ready", body |-> main.body + 1, asked |-> asked,
                       version |-> main.version + 1]
      BY <3>1 DEF EditSpec, Commit
    <3> QED
      BY <3>1, <3>2 DEF IInv, TypeOK, Main, EditSpec
  <2> QED
    BY <2>1, <2>2 DEF IInv, TypeOK
<1>2. Onward
  BY DEF IInv, TypeOK, Main, Onward, Ready, EditSpec, Commit
<1>3. ASSUME NEW u \in Tasker PROVE RunInv(u)'
  <2>1. Same(u)
    BY <1>3 DEF IInv, TypeOK, Same, EditSpec, Commit
  <2>2. \/ lock' = u <=> lock = u
        \/ lock' = NoOne /\ (~Ready \/ pc[u] = "over")
    BY <1>3, ConstantsAssumption
       DEF IInv, RunInv, Keeper, InFlight, HeldSteps, Ready, EditSpec, Commit
  <2>3. Ready => Ready' \/ u \in Ci
                 \/ pc[u] \notin BranchSteps
    BY <1>3
       DEF IInv, RunInv, Keeper, InFlight, HeldSteps, CommittedSteps,
           BranchSteps, Ready, EditSpec, Commit
  <2>4. OpeningInv(u)'
    BY <1>2, <1>3, <2>1
       DEF IInv, RunInv, OpeningInv, Same, Onward, Ready, EditSpec, Commit
  <2> QED
    BY <1>1, <1>2, <2>1, <2>2, <2>3, <2>4, OtherRun
<1>5. SetsInv'
  BY DEF IInv, SetsInv, LocalTaskingIsFirst, Ready, EditSpec, Commit
<1>6. OpenInv'
  BY ConstantsAssumption, NoTipAssumption
     DEF IInv, TypeOK, RunInv, Keeper, NotYet, InFlight, HeldSteps, TipInv,
         OpeningInv, OpenInv, OpenSteps, CommittedSteps, BranchSteps, Ready,
         EditSpec, Commit
<1> QED
  BY <1>1, <1>3, <1>5, <1>6 DEF IInv

LEMMA OtherWriterKeeps == ASSUME IInv, OtherWriter PROVE IInv'
<1>1. TypeOK'
  <2>1. main' \in Main /\ others' \in Nat
    BY DEF IInv, TypeOK, Main, OtherWriter, Commit
  <2> QED
    BY <2>1 DEF IInv, TypeOK, OtherWriter
<1>2. Onward
  BY DEF IInv, TypeOK, Main, Onward, Ready, OtherWriter, Commit
<1>3. ASSUME NEW u \in Tasker PROVE RunInv(u)'
  <2>1. Same(u)
    BY <1>3 DEF IInv, TypeOK, Same, OtherWriter, Commit
  <2>2. \/ lock' = u <=> lock = u
        \/ lock' = NoOne /\ (~Ready \/ pc[u] = "over")
    BY <1>3, ConstantsAssumption
       DEF IInv, RunInv, Keeper, InFlight, HeldSteps, Ready, OtherWriter, Commit
  <2>3. Ready => Ready' \/ u \in Ci
                 \/ pc[u] \notin BranchSteps
    BY <1>3
       DEF IInv, RunInv, Keeper, InFlight, HeldSteps, CommittedSteps,
           BranchSteps, Ready, OtherWriter, Commit
  <2>4. OpeningInv(u)'
    BY <1>2, <1>3, <2>1
       DEF IInv, RunInv, OpeningInv, Same, Onward, Ready, OtherWriter, Commit
  <2> QED
    BY <1>1, <1>2, <2>1, <2>2, <2>3, <2>4, OtherRun
<1>5. SetsInv'
  BY DEF IInv, SetsInv, LocalTaskingIsFirst, Ready, OtherWriter, Commit
<1>6. OpenInv'
  BY ConstantsAssumption, NoTipAssumption
     DEF IInv, TypeOK, RunInv, Keeper, NotYet, InFlight, HeldSteps, TipInv,
         OpeningInv, OpenInv, OpenSteps, CommittedSteps, BranchSteps, Ready,
         OtherWriter, Commit
<1> QED
  BY <1>1, <1>3, <1>5, <1>6 DEF IInv

LEMMA EndRequestKeeps == ASSUME IInv, EndRequest PROVE IInv'
<1>0. /\ main' \in Main /\ sets' \in Seq([by : Tasker, from : Nat])
      /\ main.body <= main'.body
      /\ Ready' => Ready
      /\ SetsInv'
  BY LandFacts DEF IInv, TypeOK, OpenInv, Ready, EndRequest
<1>1. TypeOK'
  BY <1>0 DEF IInv, TypeOK, Step, Outcome, EndRequest
<1>2. Onward
  BY <1>0 DEF IInv, TypeOK, Main, Onward, Ready, EndRequest
<1>3. ASSUME NEW u \in Tasker PROVE RunInv(u)'
  <2>1. Same(u)
    BY <1>3 DEF IInv, TypeOK, Same, EndRequest
  <2>2. \/ lock' = u <=> lock = u
        \/ lock' = NoOne /\ (~Ready \/ pc[u] = "over")
    BY <1>3, ConstantsAssumption
       DEF IInv, RunInv, Keeper, InFlight, HeldSteps, Ready, EndRequest
  <2>3. Ready => Ready' \/ u \in Ci
                 \/ pc[u] \notin BranchSteps
    BY <1>0, <1>3
       DEF IInv, RunInv, Keeper, InFlight, HeldSteps, CommittedSteps,
           BranchSteps, Ready, EndRequest, OpenInv, OpenSteps
  <2>4. OpeningInv(u)'
    BY <1>2, <1>3, <2>1
       DEF IInv, RunInv, OpeningInv, Same, Onward, Ready, EndRequest
  <2> QED
    BY <1>1, <1>2, <2>1, <2>2, <2>3, <2>4, OtherRun
<1>5. SetsInv'
  BY <1>0
<1>6. OpenInv'
  BY <1>0, ConstantsAssumption, NoTipAssumption
     DEF IInv, TypeOK, RunInv, Keeper, NotYet, InFlight, HeldSteps, TipInv,
         OpeningInv, OpenInv, OpenSteps, CommittedSteps, BranchSteps, Ready,
         EndRequest
<1> QED
  BY <1>1, <1>3, <1>5, <1>6 DEF IInv

LEMMA ClearLockKeeps == ASSUME IInv, ClearLock PROVE IInv'
<1>1. TypeOK'
  BY DEF IInv, TypeOK, Step, Outcome, ClearLock
<1>2. Onward
  BY DEF IInv, TypeOK, Main, Onward, Ready, ClearLock
<1>3. ASSUME NEW u \in Tasker PROVE RunInv(u)'
  <2>1. Same(u)
    BY <1>3 DEF IInv, TypeOK, Same, ClearLock
  <2>2. \/ lock' = u <=> lock = u
        \/ lock' = NoOne /\ (~Ready \/ pc[u] = "over")
    BY <1>3, ConstantsAssumption
       DEF IInv, RunInv, Keeper, InFlight, HeldSteps, Ready, ClearLock
  <2>3. Ready => Ready' \/ u \in Ci
                 \/ pc[u] \notin BranchSteps
    BY <1>3
       DEF IInv, RunInv, Keeper, InFlight, HeldSteps, CommittedSteps,
           BranchSteps, Ready, ClearLock
  <2>4. OpeningInv(u)'
    BY <1>2, <1>3, <2>1 DEF IInv, RunInv, OpeningInv, Same, Onward, Ready,
                            ClearLock
  <2> QED
    BY <1>1, <1>2, <2>1, <2>2, <2>3, <2>4, OtherRun
<1>5. SetsInv'
  BY DEF IInv, SetsInv, LocalTaskingIsFirst, Ready, ClearLock
<1>6. OpenInv'
  BY ConstantsAssumption, NoTipAssumption
     DEF IInv, TypeOK, RunInv, Keeper, NotYet, InFlight, HeldSteps, TipInv,
         OpeningInv, OpenInv, OpenSteps, CommittedSteps, BranchSteps, Ready,
         ClearLock
<1> QED
  BY <1>1, <1>3, <1>5, <1>6 DEF IInv

-----------------------------------------------------------------------------
(* The invariant *)

LEMMA InitHolds == Init => IInv
<1> SUFFICES ASSUME Init PROVE IInv
  OBVIOUS
<1>1. main \in Main
  BY DEF Init, Main
<1>2. TypeOK
  <2>1. sets \in Seq([by : Tasker, from : Nat])
    BY DEF Init
  <2>2. attempt \in [Tasker -> 0 .. MaxMergeRetries]
    <3>1. 0 \in 0 .. MaxMergeRetries
      BY ConstantsAssumption
    <3> QED
      BY <3>1 DEF Init
  <2>3. tip \in [Tasker -> Tip \cup {NoTip}] /\ remote \in Tip \cup {NoTip}
    BY DEF Init
  <2> QED
    BY <1>1, <2>1, <2>2, <2>3 DEF Init, TypeOK, Step, Verdict, Outcome
<1>3. \A t \in Tasker : RunInv(t)
  BY <1>1, ConstantsAssumption
     DEF Init, Main, RunInv, Keeper, InFlight, HeldSteps, NotYet, BaseInv,
         FirstOrGone, TipInv, OpeningInv, Reasoned, CommittedSteps, BranchSteps,
         Ready
<1>4. SetsInv /\ OpenInv
  BY DEF Init, SetsInv, LocalTaskingIsFirst, OpenInv, Ready
<1> QED
  BY <1>2, <1>3, <1>4 DEF IInv

LEMMA StutterKeeps == IInv /\ UNCHANGED vars => IInv'
<1> SUFFICES ASSUME IInv, UNCHANGED vars PROVE IInv'
  OBVIOUS
<1>1. TypeOK'
  BY DEF IInv, TypeOK, vars
<1>2. \A t \in Tasker : RunInv(t)'
  BY DEF IInv, vars, RunInv, Keeper, InFlight, NotYet, BaseInv, FirstOrGone,
         TipInv, OpeningInv, Reasoned, Ready
<1>3. SetsInv' /\ OpenInv'
  BY DEF IInv, vars, SetsInv, LocalTaskingIsFirst, OpenInv, OpenSteps, Ready
<1> QED
  BY <1>1, <1>2, <1>3 DEF IInv

LEMMA NextKeeps == IInv /\ [Next]_vars => IInv'
<1> SUFFICES ASSUME IInv, [Next]_vars PROVE IInv'
  OBVIOUS
<1>1. ASSUME NEW t \in Tasker, TaskerStep(t)
      PROVE  IInv'
  BY <1>1, StartKeeps, ReadSpecKeeps, AcquireLockKeeps, CutBranchKeeps,
     EndAgentKeeps, StartApplyKeeps, CheckStaleKeeps, ReviewAndCommitKeeps,
     RebaseKeeps, PushMainKeeps, PushMainRejectedKeeps, PushMainLostKeeps,
     PruneHeadKeeps,
     PushBranchKeeps, OpenRequestKeeps, SaveCandidatesKeeps, CloseRequestKeeps,
     SurfaceKeeps, ReleaseLockKeeps DEF TaskerStep
<1>2. ASSUME NEW t \in Tasker, Crash(t) \/ Rerun(t)
      PROVE  IInv'
  BY <1>2, CrashKeeps, RerunKeeps
<1>3. CASE EditSpec \/ OtherWriter \/ EndRequest \/ ClearLock
  BY <1>3, EditSpecKeeps, OtherWriterKeeps, EndRequestKeeps, ClearLockKeeps
<1>4. CASE UNCHANGED vars
  BY <1>4, StutterKeeps
<1> QED
  BY <1>1, <1>2, <1>3, <1>4 DEF Next

LEMMA Invariance == Spec => []IInv
  BY InitHolds, NextKeeps, PTL DEF Spec

\* The variables stay in their sets.
THEOREM TypeCorrect == Spec => []TypeOK
<1>1. IInv => TypeOK
  BY DEF IInv
<1> QED
  BY <1>1, Invariance, PTL

\* Among runs of one process a spec is tasked at most once, however their fetches,
\* locks and pushes interleave; only a CI run can task it again.
THEOREM TaskedOnce == Spec => []LocalTaskingIsFirst
<1>1. IInv => LocalTaskingIsFirst
  BY DEF IInv, SetsInv
<1> QED
  BY <1>1, Invariance, PTL

\* As long as nothing fails, a lock that outlives its run is one that somebody is
\* to look at, or one of a tasked spec.
THEOREM LocksAreLeftForAReason == Spec => []HeldForAReason
<1>1. IInv => HeldForAReason
  <2> SUFFICES ASSUME IInv, NEW t \in Tasker, faults = 0, At(t, "over"), lock = t
               PROVE  outcome[t] \in {"proposed", "stale", "conflict"}
                      \/ main.spec = "tasked"
    BY DEF HeldForAReason
  <2>1. main.spec \in {"ready", "tasked"}
    BY DEF IInv, TypeOK, Main
  <2> QED
    BY <2>1 DEF IInv, RunInv, Reasoned, Ready
<1> QED
  BY <1>1, Invariance, PTL

\* Whoever tasks a ready spec by a push holds its lock then.
THEOREM HolderTasks == Spec => OnlyTheHolderTasks
<1> DEFINE Held == \A t \in Tasker :
                      At(t, "landing") /\ pc'[t] # "landing"
                      /\ main.spec = "ready" /\ main'.spec = "tasked"
                      => lock = t
<1>1. IInv => Held
  BY DEF IInv, RunInv, Keeper, InFlight, HeldSteps, Ready
<1>2. IInv /\ [Next]_vars => [Held]_vars
  BY <1>1
<1>3. Spec => [][Held]_vars
  BY <1>2, Invariance, PTL DEF Spec
<1> QED
  BY <1>3 DEF OnlyTheHolderTasks

\* A run that passes the stale check has read the spec as main has it then.
THEOREM CheckedTasksFit == Spec => PassedCheckFits
<1> DEFINE Fits == \A t \in Tasker :
                      At(t, "checking") /\ pc'[t] = "reviewing"
                      /\ main.spec = "ready"
                      => base[t].body = main.body
<1>1. ASSUME IInv, [Next]_vars, NEW t \in Tasker, At(t, "checking"),
             pc'[t] = "reviewing", main.spec = "ready"
      PROVE  base[t].body = main.body
  <2>1. CheckStale(t)
    <3>1. PICK u \in Tasker : TaskerStep(u) \/ Crash(u) \/ Rerun(u)
      BY <1>1 DEF Next, vars, EditSpec, OtherWriter, EndRequest, ClearLock
    <3>2. u = t
      BY <1>1, <3>1
         DEF IInv, TypeOK, TaskerStep, Start, ReadSpec, AcquireLock, CutBranch,
             EndAgent, StartApply, CheckStale, ReviewAndCommit, Rebase,
             PushMain, PushMainRejected, PushMainLost, PruneHead, PushBranch,
             OpenRequest, SaveCandidates, CloseRequest, Surface, ReleaseLock,
             Crash, Rerun
    <3>3. ~Crash(t) /\ ~Rerun(t)
      BY <1>1 DEF IInv, TypeOK, Crash, Rerun
    <3> QED
      BY <1>1, <3>1, <3>2, <3>3
         DEF TaskerStep, Start, ReadSpec, AcquireLock, CutBranch, EndAgent,
             StartApply, ReviewAndCommit, Rebase, PushMain, PushMainRejected,
             PushMainLost, PruneHead, PushBranch, OpenRequest, SaveCandidates,
             CloseRequest, Surface, ReleaseLock
  <2>2. main.body = LockedBlob(t)
    BY <1>1, <2>1 DEF CheckStale, IInv, TypeOK
  <2>3. /\ blob[t] \in Nat /\ base[t].body \in Nat /\ main.body \in Nat
        /\ base[t].body <= main.body
        /\ t \notin Ci => blob[t] <= base[t].body
    BY <1>1 DEF IInv, TypeOK, Main, RunInv, BaseInv
  <2> QED
    BY <2>2, <2>3 DEF LockedBlob
<1>2. IInv /\ [Next]_vars => [Fits]_vars
  BY <1>1
<1>3. Spec => [][Fits]_vars
  BY <1>2, Invariance, PTL DEF Spec
<1> QED
  BY <1>3 DEF PassedCheckFits

\* While the request is open and its spec ready, no other run rewrites its branch.
THEOREM RequestsKeepTheirBranch == Spec => OpenRequestKeepsItsBranch
<1> DEFINE Kept == openPR /\ main.spec = "ready" /\ remote' # remote
                   => remote' = NoTip \/ remote'.by = remote.by
<1>1. ASSUME IInv, [Next]_vars, openPR, main.spec = "ready", remote' # remote
      PROVE  remote' = NoTip \/ remote'.by = remote.by
  <2>1. remote # NoTip /\ lock = remote.by
    BY <1>1 DEF IInv, OpenInv, Ready
  <2>2. EndRequest \/ \E t \in Tasker : PushBranch(t) \/ PruneHead(t)
    BY <1>1, <2>1, ZenonT(60)
       DEF Next, TaskerStep, vars, Start, ReadSpec, AcquireLock, CutBranch,
           EndAgent, StartApply, CheckStale, ReviewAndCommit, Rebase, PushMain,
           PushMainRejected, PushMainLost, OpenRequest, SaveCandidates,
           CloseRequest, Surface, ReleaseLock, Crash, Rerun, EditSpec,
           OtherWriter, ClearLock
  <2>3. CASE EndRequest
    BY <1>1, <2>3 DEF EndRequest
  <2>4. ASSUME NEW t \in Tasker, PruneHead(t)
        PROVE  remote' = NoTip
    BY <1>1, <2>4 DEF PruneHead
  <2>5. ASSUME NEW t \in Tasker, PushBranch(t)
        PROVE  remote'.by = remote.by
    <3>1. lock = t /\ tip[t].by = t
      BY <1>1, <2>5
         DEF IInv, RunInv, Keeper, InFlight, HeldSteps, TipInv, CommittedSteps,
             BranchSteps, Ready, PushBranch
    <3>2. remote' = tip[t]
      BY <1>1, <2>5 DEF PushBranch
    <3> QED
      BY <2>1, <3>1, <3>2
  <2> QED
    BY <2>2, <2>3, <2>4, <2>5
<1>2. IInv /\ [Next]_vars => [Kept]_vars
  BY <1>1
<1>3. Spec => [][Kept]_vars
  BY <1>2, Invariance, PTL DEF Spec
<1> QED
  BY <1>3 DEF OpenRequestKeepsItsBranch

-----------------------------------------------------------------------------
(* Every try of a run ends, and a lost race is a race *)

\* The steps before the retry loop, and those in it.
Before == {"idle", "reading", "locking", "cutting", "working", "applying",
           "checking", "reviewing"}
Trying == {"rebasing", "landing"}

\* How far a step is from the end of a run, retries apart.
Depth(s) ==
    CASE s = "over" -> 0
      [] s \in {"releasing", "opening"} -> 1
      [] s \in {"surfacing", "pruning"} -> 2
      [] s = "closing" -> 3
      [] s = "saving" -> 4
      [] s = "landing" -> 5
      [] s = "rebasing" -> 6
      [] s = "reviewing" -> 7
      [] s = "checking" -> 8
      [] s = "applying" -> 9
      [] s = "working" -> 10
      [] s = "cutting" -> 11
      [] s = "locking" -> 12
      [] s = "reading" -> 13
      [] s = "idle" -> 14

Retries(t) ==
    IF pc[t] \in Before THEN MaxMergeRetries
    ELSE IF pc[t] \in Trying THEN MaxMergeRetries - attempt[t] ELSE 0

\* What a run may still do in this try of its jobs.
Left(t) == 2 * Retries(t) + Depth(pc[t])

LeftIsBounded == \A t \in Tasker : Left(t) \in 0 .. 2 * MaxMergeRetries + 14

RunsGetShorter ==
    \A t \in Tasker :
        /\ TaskerStep(t) \/ Crash(t) => Left(t)' < Left(t)
        /\ reruns'[t] = reruns[t] => Left(t)' <= Left(t)

LEMMA DepthType ==
    ASSUME NEW s \in Step
    PROVE  Depth(s) \in 0 .. 14
  BY DEF Depth, Step

LEMMA LeftType ==
    ASSUME TypeOK, NEW t \in Tasker
    PROVE  /\ MaxMergeRetries \in Nat /\ attempt[t] \in 0 .. MaxMergeRetries
           /\ Depth(pc[t]) \in 0 .. 14 /\ Retries(t) \in 0 .. MaxMergeRetries
           /\ Left(t) \in 0 .. 2 * MaxMergeRetries + 14
<1>1. /\ MaxMergeRetries \in Nat /\ attempt[t] \in 0 .. MaxMergeRetries
      /\ pc[t] \in Step
  BY ConstantsAssumption DEF TypeOK
<1>2. Depth(pc[t]) \in 0 .. 14
  BY <1>1, DepthType
<1>3. Retries(t) \in 0 .. MaxMergeRetries
  BY <1>1 DEF Retries
<1> QED
  BY <1>1, <1>2, <1>3 DEF Left

\* A step comes nearer to the end without more retries than before, or is one.
Advances(t) ==
    \/ Retries(t)' <= Retries(t) /\ Depth(pc'[t]) < Depth(pc[t])
    \/ Retries(t)' = Retries(t) - 1 /\ Depth(pc'[t]) = Depth(pc[t]) + 1

LEMMA StepAdvances ==
    ASSUME TypeOK, TypeOK', NEW t \in Tasker, TaskerStep(t) \/ Crash(t)
    PROVE  Advances(t)
<1> USE LeftType DEF At, Go, Quit
<1>1. pc[t] \in Step /\ DOMAIN pc = Tasker /\ DOMAIN attempt = Tasker
  BY DEF TypeOK
<1>2. CASE Start(t) \/ ReadSpec(t) \/ AcquireLock(t)
  BY <1>1, <1>2 DEF Start, ReadSpec, AcquireLock, Advances, Depth, Retries, Before, Trying
<1>3. CASE CutBranch(t) \/ CheckStale(t)
  BY <1>1, <1>3 DEF CutBranch, CheckStale, Advances, Depth, Retries, Before, Trying
<1>4. CASE EndAgent(t)
  BY <1>1, <1>4 DEF EndAgent, AfterAgent, Advances, Depth, Retries, Before, Trying
<1>5. CASE StartApply(t)
  BY <1>1, <1>5 DEF StartApply, AfterAgent, Advances, Depth, Retries, Before, Trying
<1>6. CASE ReviewAndCommit(t)
  BY <1>1, <1>6 DEF ReviewAndCommit, Advances, Depth, Retries, Before, Trying
<1>7. CASE Rebase(t)
  BY <1>1, <1>7 DEF Rebase, run, Advances, Depth, Retries, Before, Trying
<1>8. CASE PushMain(t) \/ PushMainLost(t) \/ PushBranch(t)
  BY <1>1, <1>8 DEF PushMain, PushMainLost, PushBranch, run, Advances, Depth, Retries, Before,
                    Trying
<1>9. CASE PushMainRejected(t)
  BY <1>1, <1>9 DEF PushMainRejected, Advances, Depth, Retries, Before, Trying
<1>10. CASE PruneHead(t) \/ OpenRequest(t) \/ ReleaseLock(t)
  BY <1>1, <1>10 DEF PruneHead, OpenRequest, AfterOpen, ReleaseLock, run, Advances, Depth,
                     Retries, Before, Trying
<1>12. CASE SaveCandidates(t) \/ CloseRequest(t)
  BY <1>1, <1>12 DEF SaveCandidates, CloseRequest, run, Advances, Depth, Retries, Before,
                     Trying
<1>13. CASE Surface(t)
  <2>1. pc[t] = "surfacing" /\ pc'[t] \in {"releasing", "over"}
    BY <1>1, <1>13 DEF Surface
  <2> QED
    BY <2>1 DEF Advances, Depth, Retries, Before, Trying
<1>11. CASE Crash(t)
  <2>1. pc'[t] = "over" /\ pc[t] # "over"
    BY <1>1, <1>11 DEF Crash
  <2>2. Depth(pc'[t]) = 0 /\ Depth(pc[t]) > 0 /\ Retries(t)' = 0
    BY <1>1, <2>1 DEF Depth, Retries, Before, Trying, Step
  <2> QED
    BY <2>2 DEF Advances
<1> QED
  BY <1>2, <1>3, <1>4, <1>5, <1>6, <1>7, <1>8, <1>9, <1>10, <1>11, <1>12,
     <1>13 DEF TaskerStep

\* What a step of others leaves of a run.
Idle(t) ==
    /\ pc'[t] = pc[t] /\ attempt'[t] = attempt[t] /\ base'[t] = base[t]
    /\ tip'[t] = tip[t]

LEMMA OneRunMoves ==
    ASSUME TypeOK, [Next]_vars, NEW t \in Tasker
    PROVE  TaskerStep(t) \/ Crash(t) \/ Rerun(t) \/ Idle(t)
<1> USE DEF TypeOK, Idle, Go, Quit, run
<1>1. ASSUME NEW u \in Tasker, u # t, TaskerStep(u)
      PROVE  Idle(t)
  <2>1. CASE Start(u) \/ ReadSpec(u) \/ AcquireLock(u) \/ CutBranch(u) \/ EndAgent(u)
    BY <1>1, <2>1 DEF Start, ReadSpec, AcquireLock, CutBranch, EndAgent
  <2>2. CASE StartApply(u) \/ CheckStale(u) \/ ReviewAndCommit(u) \/ Rebase(u)
    BY <1>1, <2>2 DEF StartApply, CheckStale, ReviewAndCommit, Rebase
  <2>3. CASE PushMain(u) \/ PushMainRejected(u) \/ PushMainLost(u) \/ PushBranch(u)
    BY <1>1, <2>3 DEF PushMain, PushMainRejected, PushMainLost, PushBranch
  <2>4. CASE \/ PruneHead(u) \/ OpenRequest(u) \/ SaveCandidates(u)
             \/ CloseRequest(u) \/ Surface(u) \/ ReleaseLock(u)
    BY <1>1, <2>4 DEF PruneHead, OpenRequest, SaveCandidates, CloseRequest, Surface,
                      ReleaseLock
  <2> QED
    BY <1>1, <2>1, <2>2, <2>3, <2>4 DEF TaskerStep
<1>2. ASSUME NEW u \in Tasker, u # t, Crash(u) \/ Rerun(u)
      PROVE  Idle(t)
  BY <1>2 DEF Crash, Rerun
<1>3. CASE EditSpec \/ OtherWriter \/ EndRequest \/ ClearLock \/ UNCHANGED vars
  BY <1>3 DEF EditSpec, OtherWriter, EndRequest, ClearLock, vars
<1> QED
  BY <1>1, <1>2, <1>3 DEF Next

\* Every try of a run ends after a number of steps that the cap on the retries
\* bounds, however often main moves and whoever takes or clears the lock: each
\* step of the run lowers Left, a natural number, and only a re-run of its jobs
\* raises it.
THEOREM RunsAreBounded == Spec => []LeftIsBounded /\ [][RunsGetShorter]_vars
<1>1. TypeOK => LeftIsBounded
  BY LeftType DEF LeftIsBounded
<1>2. TypeOK /\ TypeOK' /\ [Next]_vars => RunsGetShorter
  <2> SUFFICES ASSUME TypeOK, TypeOK', [Next]_vars, NEW t \in Tasker
               PROVE  /\ TaskerStep(t) \/ Crash(t) => Left(t)' < Left(t)
                      /\ reruns'[t] = reruns[t] => Left(t)' <= Left(t)
    BY DEF RunsGetShorter
  <2>1. /\ MaxMergeRetries \in Nat
        /\ pc[t] \in Step /\ attempt[t] \in 0 .. MaxMergeRetries
    BY ConstantsAssumption DEF TypeOK
  <2>2. pc'[t] \in Step /\ attempt'[t] \in 0 .. MaxMergeRetries
    BY DEF TypeOK
  <2>3. /\ Depth(pc[t]) \in 0 .. 14 /\ Depth(pc'[t]) \in 0 .. 14
        /\ Retries(t) \in 0 .. MaxMergeRetries /\ Retries(t)' \in 0 .. MaxMergeRetries
    <3>1. Depth(pc[t]) \in 0 .. 14
      BY <2>1, DepthType
    <3>2. Depth(pc'[t]) \in 0 .. 14
      BY <2>2, DepthType
    <3>3. Retries(t) \in 0 .. MaxMergeRetries
      BY <2>1 DEF Retries
    <3>4. Retries(t)' \in 0 .. MaxMergeRetries
      BY <2>1, <2>2 DEF Retries
    <3> QED
      BY <3>1, <3>2, <3>3, <3>4
  <2>4. CASE TaskerStep(t) \/ Crash(t)
    <3>1. Advances(t)
      BY <2>4, StepAdvances
    <3> QED
      BY <2>1, <2>3, <3>1 DEF Advances, Left
  <2>5. ~(Rerun(t) /\ reruns'[t] = reruns[t])
    BY DEF Rerun, TypeOK
  <2>6. CASE Idle(t) /\ ~(TaskerStep(t) \/ Crash(t))
    <3>1. Depth(pc'[t]) = Depth(pc[t]) /\ Retries(t)' = Retries(t)
      BY <2>6 DEF Idle, Retries
    <3> QED
      BY <2>1, <2>3, <2>6, <3>1 DEF Left
  <2> QED
    BY <2>4, <2>5, <2>6, OneRunMoves
<1> QED
  BY <1>1, <1>2, TypeCorrect, PTL DEF Spec

\* main is unchanged, or one commit further.
MainGrows == main' = main \/ main'.version = main.version + 1

LEMMA MainOnlyGrows == ASSUME TypeOK, [Next]_vars PROVE MainGrows
<1> USE DEF MainGrows
<1>1. ASSUME NEW t \in Tasker, TaskerStep(t)
      PROVE  MainGrows
  <2>1. CASE Start(t) \/ ReadSpec(t) \/ AcquireLock(t) \/ CutBranch(t) \/ EndAgent(t)
    BY <2>1 DEF Start, ReadSpec, AcquireLock, CutBranch, EndAgent
  <2>2. CASE \/ StartApply(t) \/ CheckStale(t) \/ ReviewAndCommit(t) \/ Rebase(t)
             \/ PushMainRejected(t)
    BY <2>2 DEF StartApply, CheckStale, ReviewAndCommit, Rebase, PushMainRejected
  <2>3. CASE PushMain(t) \/ PushMainLost(t) \/ Surface(t)
    BY <2>3 DEF PushMain, PushMainLost, LandSet, Surface, Commit
  <2>4. CASE \/ PruneHead(t) \/ PushBranch(t) \/ OpenRequest(t)
             \/ SaveCandidates(t) \/ CloseRequest(t) \/ ReleaseLock(t)
    BY <2>4 DEF PruneHead, PushBranch, OpenRequest, SaveCandidates, CloseRequest,
                ReleaseLock
  <2> QED
    BY <1>1, <2>1, <2>2, <2>3, <2>4 DEF TaskerStep
<1>2. ASSUME NEW t \in Tasker, Crash(t) \/ Rerun(t)
      PROVE  MainGrows
  BY <1>2 DEF Crash, Rerun
<1>3. CASE EditSpec \/ OtherWriter \/ EndRequest \/ ClearLock \/ UNCHANGED vars
  BY <1>3 DEF EditSpec, OtherWriter, EndRequest, LandSet, Commit, ClearLock, vars
<1> QED
  BY <1>1, <1>2, <1>3 DEF Next

\* Every lost push of a run was lost to a commit that came after its base: main
\* is further than the base by as many commits.
Raced(t) ==
    /\ base[t].version <= main.version
    /\ base[t].version = main.version => ~SpecTouched(t)
    /\ pc[t] \in Trying => tip[t] # NoTip
    /\ pc[t] = "rebasing" => base[t].version + attempt[t] <= main.version
    /\ pc[t] = "landing" =>
          /\ base[t].version + attempt[t] <= tip[t].base
          /\ tip[t].base <= main.version

RaceInv == \A t \in Tasker : Raced(t)

\* What the arithmetic needs.
LEMMA VersionTypes ==
    ASSUME TypeOK, NEW t \in Tasker
    PROVE  /\ main.version \in Nat /\ base[t].version \in Nat
           /\ attempt[t] \in Nat /\ MaxMergeRetries \in Nat
           /\ tip[t] # NoTip => tip[t].base \in Nat
  BY ConstantsAssumption DEF TypeOK, Main, Tip

LEMMA RacedKeeps ==
    ASSUME TypeOK, TypeOK', RaceInv, [Next]_vars, NEW t \in Tasker
    PROVE  Raced(t)'
<1>1. MainGrows /\ Raced(t)
  BY MainOnlyGrows DEF RaceInv
<1>2. /\ main.version \in Nat /\ main'.version \in Nat /\ base[t].version \in Nat
      /\ attempt[t] \in Nat
      /\ tip[t] # NoTip => tip[t].base \in Nat
  BY VersionTypes DEF TypeOK, Main
<1>3. CASE base'[t] = base[t] /\ pc'[t] \notin Trying
  BY <1>1, <1>2, <1>3 DEF MainGrows, Raced, SpecTouched, Trying
<1>4. CASE base'[t] = main /\ main' = main /\ pc'[t] \notin Trying
  BY <1>1, <1>2, <1>4 DEF Raced, SpecTouched, Trying
<1>5. CASE Idle(t)
  BY <1>1, <1>2, <1>5 DEF MainGrows, Raced, SpecTouched, Idle, Trying
<1>6. CASE ReviewAndCommit(t)
  <2>1. /\ main' = main /\ base' = base
        /\ pc'[t] = "rebasing" => attempt'[t] = 0
        /\ pc'[t] # "landing"
        /\ pc'[t] = "rebasing" => tip'[t] = [by |-> t, from |-> base[t].body,
               base |-> base[t].version, own |-> "tasks"]
    BY <1>6 DEF ReviewAndCommit, TypeOK, Trying
  <2>2. ASSUME pc'[t] = "rebasing"
        PROVE  tip'[t] # NoTip
    <3>1. base[t].version \in Nat /\ base[t].body \in Nat
      BY DEF TypeOK, Main
    <3>2. tip'[t] \in Tip
      BY <2>1, <2>2, <3>1 DEF Tip
    <3> QED
      BY <3>2, NoTipAssumption
  <2> QED
    BY <1>1, <1>2, <2>1, <2>2 DEF Raced, SpecTouched, Trying
<1>7. CASE Rebase(t)
  <2>1. /\ main' = main /\ base' = base /\ attempt' = attempt /\ pc[t] = "rebasing"
        /\ pc'[t] # "rebasing"
        /\ pc'[t] = "landing" => tip'[t] = [by |-> t, from |-> tip[t].from,
               base |-> main.version,
               own |-> IF LandedBy(t) THEN "nothing" ELSE tip[t].own]
    BY <1>7 DEF Rebase, TypeOK
  <2>2. pc'[t] = "landing" => tip'[t] \in Tip
    <3>1. tip[t] \in Tip
      BY <1>1, <2>1 DEF TypeOK, Raced, Trying
    <3>2. tip[t].from \in Nat /\ tip[t].own \in {"nothing", "saved", "tasks"}
      BY <3>1 DEF Tip
    <3> QED
      BY <1>2, <2>1, <3>2 DEF Tip
  <2>3. pc'[t] = "landing" => tip'[t] # NoTip /\ tip'[t].base = main.version
    BY <2>1, <2>2, NoTipAssumption DEF Tip
  <2> QED
    BY <1>1, <1>2, <2>1, <2>3 DEF Raced, SpecTouched, Trying
<1>8. CASE PushMainRejected(t)
  <2>1. /\ main' = main /\ base' = base /\ tip' = tip /\ pc[t] = "landing"
        /\ tip[t].base # main.version
        /\ pc'[t] # "landing"
        /\ pc'[t] = "rebasing" => attempt'[t] = attempt[t] + 1
    BY <1>8 DEF PushMainRejected, FastForward, TypeOK
  <2> QED
    BY <1>1, <1>2, <2>1 DEF Raced, SpecTouched, Trying
<1>9. TaskerStep(t) => \/ ReviewAndCommit(t) \/ Rebase(t) \/ PushMainRejected(t)
                       \/ base'[t] = base[t] /\ pc'[t] \notin Trying
                       \/ base'[t] = main /\ main' = main /\ pc'[t] \notin Trying
  <2> SUFFICES ASSUME TaskerStep(t), ~ReviewAndCommit(t), ~Rebase(t),
                      ~PushMainRejected(t)
               PROVE  \/ base'[t] = base[t] /\ pc'[t] \notin Trying
                      \/ base'[t] = main /\ main' = main /\ pc'[t] \notin Trying
    OBVIOUS
  <2> USE DEF TypeOK, Trying
  <2>1. CASE Start(t) \/ CutBranch(t)
    BY <2>1 DEF Start, CutBranch, CutFrom
  <2>2. CASE ReadSpec(t) \/ AcquireLock(t) \/ CheckStale(t)
    BY <2>2 DEF ReadSpec, AcquireLock, CheckStale
  <2>3. CASE EndAgent(t) \/ StartApply(t)
    BY <2>3 DEF EndAgent, StartApply, AfterAgent
  <2>4. CASE PushMain(t) \/ PushMainLost(t) \/ PushBranch(t)
    BY <2>4 DEF PushMain, PushMainLost, PushBranch
  <2>5. CASE \/ PruneHead(t) \/ OpenRequest(t) \/ SaveCandidates(t)
             \/ CloseRequest(t) \/ Surface(t) \/ ReleaseLock(t)
    BY <2>5 DEF PruneHead, OpenRequest, AfterOpen, SaveCandidates, CloseRequest, Surface,
                ReleaseLock
  <2> QED
    BY <2>1, <2>2, <2>3, <2>4, <2>5 DEF TaskerStep
<1>10. Crash(t) \/ Rerun(t) => base'[t] = base[t] /\ pc'[t] \notin Trying
  BY DEF Crash, Rerun, TypeOK, Trying
<1> QED
  BY <1>3, <1>4, <1>5, <1>6, <1>7, <1>8, <1>9, <1>10, OneRunMoves

\* A tasking that reports a conflict has met one: a rebase fails only when main
\* has moved since the branch was cut, and a push is given up only when it was
\* lost to more than MaxMergeRetries commits, each newer than the base.
ConflictsAreRaces ==
    [][\A t \in Tasker :
          pc[t] \in Trying /\ pc'[t] = "over" /\ outcome'[t] = "conflict"
          => main.version > base[t].version
                            + (IF At(t, "landing") THEN MaxMergeRetries ELSE 0)]_vars

\* No run gives up a landing while main stands still: counted from the base, main
\* has had more commits than the run has tries.
THEOREM GivingUpNeedsRaces == Spec => ConflictsAreRaces
<1> DEFINE Race(t) ==
               pc[t] \in Trying /\ pc'[t] = "over" /\ outcome'[t] = "conflict"
               => main.version > base[t].version
                                 + (IF At(t, "landing") THEN MaxMergeRetries ELSE 0)
           Races == \A t \in Tasker : Race(t)
<1>1. Init => RaceInv
  BY DEF Init, RaceInv, Raced, SpecTouched, Trying
<1>2. TypeOK /\ TypeOK' /\ RaceInv /\ [Next]_vars => RaceInv'
  BY RacedKeeps DEF RaceInv
<1>3. Spec => []RaceInv
  BY <1>1, <1>2, TypeCorrect, PTL DEF Spec
<1>4. TypeOK /\ RaceInv /\ [Next]_vars => Races
  <2> SUFFICES ASSUME TypeOK, RaceInv, [Next]_vars, NEW t \in Tasker,
                      pc[t] \in Trying, pc'[t] = "over", outcome'[t] = "conflict"
               PROVE  main.version > base[t].version
                          + (IF At(t, "landing") THEN MaxMergeRetries ELSE 0)
    OBVIOUS
  <2>1. Raced(t) /\ DOMAIN outcome = Tasker /\ DOMAIN pc = Tasker
    BY DEF RaceInv, TypeOK
  <2>2. ~Crash(t) /\ ~Rerun(t) /\ ~Idle(t)
    BY <2>1 DEF Crash, Rerun, Idle, Trying
  <2>3. Rebase(t) \/ PushMainRejected(t)
    <3>1. TaskerStep(t)
      BY <2>2, OneRunMoves
    <3>2. ~PushMain(t) /\ ~PushMainLost(t) /\ ~PushBranch(t)
      BY <2>1 DEF PushMain, PushMainLost, PushBranch
    <3> QED
      BY <3>1, <3>2
         DEF TaskerStep, Start, ReadSpec, AcquireLock, CutBranch, EndAgent,
             StartApply, CheckStale, ReviewAndCommit, PruneHead, OpenRequest,
             SaveCandidates, CloseRequest, Surface, ReleaseLock, Trying
  <2>4. CASE Rebase(t)
    <3>1. SpecTouched(t) /\ pc[t] = "rebasing"
      BY <2>1, <2>4 DEF Rebase
    <3> QED
      BY <2>1, <3>1, VersionTypes DEF Raced
  <2>5. CASE PushMainRejected(t)
    <3>1. /\ pc[t] = "landing" /\ tip[t].base # main.version
          /\ ~(attempt[t] < MaxMergeRetries)
      BY <2>1, <2>5 DEF PushMainRejected, FastForward, TriesLeft
    <3> QED
      BY <2>1, <3>1, VersionTypes DEF Raced
  <2> QED
    BY <2>3, <2>4, <2>5
<1>5. TypeOK /\ RaceInv /\ [Next]_vars => [Races]_vars
  BY <1>4
<1> HIDE DEF Races
<1>6. Spec => [][Races]_vars
  BY <1>3, <1>5, TypeCorrect, PTL DEF Spec
<1> USE DEF Races
<1> QED
  BY <1>6 DEF ConflictsAreRaces

-----------------------------------------------------------------------------
(* The lock is the register that the per-item lock implements *)

\* The lock commit of a tasker.
CommitOf(t) ==
    [entry |-> "spec", action |-> "task", holder |-> t, since |-> 0, kept |-> FALSE]

Ref == [i \in {"spec"} |-> CommitOf(lock)]

Register ==
    INSTANCE LockRegister
    WITH Item <- {"spec"}, LockCommit <- {CommitOf(t) : t \in Tasker},
         NoLock <- CommitOf(NoOne), ref <- Ref

\* A free lock is taken, and a held one is let go.
LockMoves ==
    \/ lock' \in {lock, NoOne}
    \/ lock = NoOne /\ lock' \in Tasker

LEMMA LockMovesSo == ASSUME [Next]_vars PROVE LockMoves
<1> USE DEF LockMoves
<1>1. ASSUME NEW t \in Tasker, TaskerStep(t) \/ Crash(t) \/ Rerun(t)
      PROVE  LockMoves
  <2>1. CASE AcquireLock(t) \/ ReleaseLock(t)
    BY <2>1 DEF AcquireLock, ReleaseLock
  <2>2. CASE Start(t) \/ ReadSpec(t) \/ CutBranch(t) \/ EndAgent(t) \/ StartApply(t)
    BY <2>2 DEF Start, ReadSpec, CutBranch, EndAgent, StartApply
  <2>3. CASE CheckStale(t) \/ ReviewAndCommit(t) \/ Rebase(t) \/ PushMainRejected(t)
    BY <2>3 DEF CheckStale, ReviewAndCommit, Rebase, PushMainRejected
  <2>4. CASE PushMain(t) \/ PushMainLost(t) \/ PushBranch(t) \/ PruneHead(t)
    BY <2>4 DEF PushMain, PushMainLost, PushBranch, PruneHead
  <2>5. CASE \/ OpenRequest(t) \/ SaveCandidates(t) \/ CloseRequest(t) \/ Surface(t)
             \/ Crash(t) \/ Rerun(t)
    BY <2>5 DEF OpenRequest, SaveCandidates, CloseRequest, Surface, Crash, Rerun
  <2> QED
    BY <1>1, <2>1, <2>2, <2>3, <2>4, <2>5 DEF TaskerStep
<1>2. CASE EditSpec \/ OtherWriter \/ EndRequest \/ ClearLock \/ UNCHANGED vars
  BY <1>2 DEF EditSpec, OtherWriter, EndRequest, ClearLock, vars
<1> QED
  BY <1>1, <1>2 DEF Next

LEMMA RegisterMoves ==
    ASSUME lock \in Tasker \cup {NoOne}, LockMoves
    PROVE  Register!Next \/ Ref' = Ref
<1>1. Ref["spec"] = CommitOf(lock) /\ Ref' = [Ref EXCEPT !["spec"] = CommitOf(lock')]
  BY DEF Ref
<1>2. ASSUME NEW t \in Tasker  PROVE CommitOf(t) # CommitOf(NoOne)
  <2>1. CommitOf(t).holder = t /\ CommitOf(NoOne).holder = NoOne
    BY DEF CommitOf
  <2> QED
    BY <2>1, ConstantsAssumption
<1>3. CASE lock' = NoOne /\ lock # NoOne
  <2>1. Register!Drop("spec")
    BY <1>1, <1>2, <1>3 DEF Register!Drop
  <2> QED
    BY <2>1 DEF Register!Next
<1>4. CASE lock = NoOne /\ lock' \in Tasker
  <2>1. Register!Fresh("spec", CommitOf(lock'))
    BY DEF Register!Fresh, CommitOf
  <2>2. Register!Grab("spec", CommitOf(lock'))
    BY <1>1, <1>4, <2>1 DEF Register!Grab
  <2> QED
    BY <1>4, <2>2 DEF Register!Next
<1>5. CASE lock' = lock
  BY <1>5 DEF Ref
<1> QED
  BY <1>3, <1>4, <1>5 DEF LockMoves

\* Taskers and those who clear locks treat the spec's lock as the per-item lock
\* lets them (ItemLock implements the same LockRegister): nobody overwrites a
\* held lock, a run of another's jobs included.
THEOREM LockDiscipline == Spec => Register!Spec
<1>1. Init => Register!Init
  BY DEF Init, Ref, Register!Init
<1>2. TypeOK /\ [Next]_vars => [Register!Next]_Ref
  BY LockMovesSo, RegisterMoves DEF TypeOK
<1> QED
  BY <1>1, <1>2, TypeCorrect, PTL DEF Spec, Register!Spec
=============================================================================
