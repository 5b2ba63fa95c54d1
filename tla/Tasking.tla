------------------------------- MODULE Tasking -------------------------------
(***************************************************************************)
(* How a ready spec becomes tasks: performTask (tasking.ts) in one process, *)
(* and its split over three CI jobs (ci-phase-tasking.ts), both over        *)
(* tasking-lock.ts and integrateTaskingCandidates.                          *)
(*                                                                          *)
(* A tasker takes the spec's lock, has an agent cut tasks from the spec as  *)
(* its branch has it, and moves the spec from ready to tasked in the commit *)
(* that adds them.  The lock keeps other taskers off; it keeps nobody from  *)
(* editing the spec, so the blob read with the lock is compared once before *)
(* the commit.  A CI run works on the main its lock job fetched first, and  *)
(* its apply job may be run again long after.                               *)
(***************************************************************************)
EXTENDS Naturals, Sequences, FiniteSets

CONSTANTS
    Tasker,     \* runs of the verb, for one spec
    Ci,         \* those split over CI jobs
    NoOne,      \* a free lock
    NoTip,      \* an absent branch
    MaxMergeRetries,
    MaxEdits,   \* bound: edits of the spec by people
    MaxOthers,  \* bound: other commits
    MaxReruns,  \* bound: times a CI run's failed jobs are run again
    MaxFaults   \* bound: crashes, lost answers, failed fetches and pushes

ASSUME ConstantsAssumption ==
    /\ Ci \subseteq Tasker
    /\ NoOne \notin Tasker
    /\ MaxMergeRetries \in Nat
    /\ MaxEdits \in Nat /\ MaxOthers \in Nat /\ MaxReruns \in Nat /\ MaxFaults \in Nat

\* The spec on main: its folder, the blob of its body (each edit is a new one),
\* whether it needs answers; and how many commits main has had.
Main == [spec : {"ready", "tasked"}, body : Nat, asked : BOOLEAN, version : Nat]

\* The tip of the spec's work branch: whose it is, the body its tasks were cut
\* from, the commit of main it is based on, and what of its own it carries.
Tip == [by : Tasker, from : Nat, base : Nat, own : {"nothing", "saved", "tasks"}]

ASSUME NoTipAssumption == NoTip \notin Tip

VARIABLES
    mode,       \* how each run integrates: "merge" or "propose"
    main,       \* the spec on the arbiter's main
    sets,       \* the task sets that landed: who cut them, from which body
    lock,       \* the spec's lock
    remote,     \* the spec's work branch on the arbiter
    openPR,     \* whether it has an open request
    pc,         \* where the tasker is
    base,       \* the main its branch was cut from
    blob,       \* the body the lock was taken on
    verdict,    \* what the agent came to; in CI the hand-off keeps it
    tip,        \* its branch
    attempt,    \* lost pushes
    outcome,    \* what it reports
    reruns,     \* times its jobs were run again
    edits, others, faults

vars == <<mode, main, sets, lock, remote, openPR, pc, base, blob, verdict, tip,
          attempt, outcome, reruns, edits, others, faults>>
arbiter == <<main, sets, lock, remote, openPR>>
run == <<mode, base, blob, verdict, tip, attempt>>
counters == <<reruns, edits, others>>

Step == {"idle", "reading", "locking", "cutting", "working", "applying",
         "checking", "reviewing", "rebasing", "landing", "pruning", "opening",
         "saving", "closing", "surfacing", "releasing", "over"}

Verdict == {"none", "tasks", "unclear", "reviewFailed", "rejected", "failed",
            "cancelled"}

\* "failed", "stale" and "conflict" are red jobs; "error" leaves nothing to run again.
Outcome == {"none", "lost", "staleLock", "stale", "conflict", "tasked",
            "proposed", "surfaced", "released", "failed", "error"}

Init ==
    /\ mode \in [Tasker -> {"merge", "propose"}]
    /\ main = [spec |-> "ready", body |-> 0, asked |-> FALSE, version |-> 1]
    /\ sets = <<>>
    /\ lock = NoOne
    /\ remote = NoTip
    /\ openPR = FALSE
    /\ pc = [t \in Tasker |-> "idle"]
    /\ base = [t \in Tasker |-> main]
    /\ blob = [t \in Tasker |-> 0]
    /\ verdict = [t \in Tasker |-> "none"]
    /\ tip = [t \in Tasker |-> NoTip]
    /\ attempt = [t \in Tasker |-> 0]
    /\ outcome = [t \in Tasker |-> "none"]
    /\ reruns = [t \in Tasker |-> 0]
    /\ edits = 0 /\ others = 0 /\ faults = 0

At(t, s) == pc[t] = s
Go(t, s) == pc' = [pc EXCEPT ![t] = s]
Report(t, o) == outcome' = [outcome EXCEPT ![t] = o]
Quit(t, o) == Go(t, "over") /\ Report(t, o)
Fault == faults < MaxFaults /\ faults' = faults + 1

\* main with one more commit, which makes the spec s with body b.
Commit(s, b, asked) ==
    main' = [spec |-> s, body |-> b, asked |-> asked, version |-> main.version + 1]

-----------------------------------------------------------------------------
(* The lock, and the branch *)

\* The gate: an agent tasks a ready spec that waits for no answer.  A CI lock job
\* has fetched the main that the later jobs will work on.
Start(t) ==
    /\ At(t, "idle")
    /\ main.spec = "ready" /\ ~main.asked
    /\ base' = [base EXCEPT ![t] = main]
    /\ Go(t, "reading")
    /\ UNCHANGED <<mode, arbiter, blob, verdict, tip, attempt, outcome, counters,
                   faults>>

\* acquireTaskingLock fetches, and notes the blob of the ready spec ...
ReadSpec(t) ==
    /\ At(t, "reading")
    /\ \/ /\ main.spec = "ready"
          /\ blob' = [blob EXCEPT ![t] = main.body]
          /\ Go(t, "locking")
          /\ UNCHANGED outcome
       \/ /\ main.spec # "ready"
          /\ Quit(t, "lost")
          /\ UNCHANGED blob
    /\ UNCHANGED <<mode, arbiter, base, verdict, tip, attempt, counters, faults>>

\* ... and then creates the lock ref.  Nobody looks at the spec again.
AcquireLock(t) ==
    /\ At(t, "locking")
    /\ \/ /\ lock = NoOne
          /\ lock' = t
          /\ Go(t, IF t \in Ci THEN "working" ELSE "cutting")
          /\ UNCHANGED <<outcome, faults>>
       \/ /\ lock # NoOne
          /\ Quit(t, "lost")
          /\ UNCHANGED <<lock, faults>>
       \/ /\ Fault
          /\ lock' \in {lock} \cup (IF lock = NoOne THEN {t} ELSE {})
          /\ Quit(t, "error")
    /\ UNCHANGED <<main, sets, remote, openPR, run, counters>>

\* Mutant: the branch is cut from the main of the gate.
CutFrom_Gate(t) == base[t]

\* switchToWorkBranch fetches again.
CutFrom(t) == main

CutBranch(t) ==
    /\ At(t, "cutting")
    /\ \/ /\ base' = [base EXCEPT ![t] = CutFrom(t)]
          /\ Go(t, "working")
          /\ UNCHANGED <<outcome, faults>>
       \/ Fault /\ Quit(t, "error") /\ UNCHANGED base
    /\ UNCHANGED <<mode, arbiter, blob, verdict, tip, attempt, counters>>

-----------------------------------------------------------------------------
(* The agent's half, and where its verdict leads *)

\* Candidates are saved when a review failed, in CI whenever a hand-off has any.
Saves(t, v) == v = "reviewFailed" \/ (t \in Ci /\ v = "unclear")

\* Mutant: a failed agent ends the run with the lock held.
AfterAgent_Held(t, v) ==
    CASE v = "tasks"  -> "checking"
      [] v = "failed" -> "over"
      [] Saves(t, v)  -> "saving"
      [] OTHER        -> "closing"

\* A failed agent gives the lock back and asks nothing: nothing was published.
AfterAgent(t, v) ==
    CASE v = "tasks"  -> "checking"
      [] v = "failed" -> "releasing"
      [] Saves(t, v)  -> "saving"
      [] OTHER        -> "closing"

\* The agent, the review loop and, in CI, the acceptance review; only CI jobs are
\* cancelled, and only a hand-off is rejected.
EndAgent(t) ==
    /\ At(t, "working")
    /\ \E v \in Verdict \ {"none"} :
        /\ v \in {"rejected", "cancelled"} => t \in Ci
        /\ verdict' = [verdict EXCEPT ![t] = v]
        /\ Go(t, IF t \in Ci THEN "applying" ELSE AfterAgent(t, v))
        /\ IF t \notin Ci /\ v = "failed" THEN Report(t, "failed")
                                         ELSE UNCHANGED outcome
    /\ UNCHANGED <<mode, arbiter, base, blob, tip, attempt, counters, faults>>

\* Mutant: the apply job trusts the lock job.
Owns_Assumed(t) == TRUE

\* checkLockOwnership, once.
Owns(t) == lock = t

\* A failed, skipped or timed-out agent job is surfaced; a cancelled one gives the
\* lock back.
StartApply(t) ==
    /\ At(t, "applying")
    /\ \/ ~Owns(t) /\ Quit(t, "staleLock")
       \/ /\ Owns(t)
          /\ verdict[t] \notin {"failed", "cancelled"}
          /\ Go(t, AfterAgent(t, verdict[t]))
          /\ UNCHANGED outcome
       \/ /\ Owns(t)
          /\ verdict[t] \in {"failed", "cancelled"}
          /\ \/ Go(t, "surfacing") /\ UNCHANGED outcome
             \/ verdict[t] = "cancelled" /\ Go(t, "releasing") /\ Report(t, "released")
    /\ UNCHANGED <<arbiter, run, counters, faults>>

-----------------------------------------------------------------------------
(* integrateTaskingCandidates *)

\* Mutant: a CI run compares with the blob its acquire read.
LockedBlob_Acquired(t) == blob[t]

\* An apply job has no memory of the acquire, only the lock job's base.
LockedBlob(t) == IF t \in Ci THEN base[t].body ELSE blob[t]

\* heldSpecIsStale: a spec that is not among the ready ones is not stale.
CheckStale(t) ==
    /\ At(t, "checking")
    /\ IF main.spec = "ready" /\ main.body # LockedBlob(t)
       THEN Quit(t, "stale")
       ELSE Go(t, "reviewing") /\ UNCHANGED outcome
    /\ UNCHANGED <<arbiter, run, counters, faults>>

\* The acceptance review (done already in CI) or the guard on co-located files
\* refuses; else stage and commit: the move needs the spec among the branch's ready
\* ones.  Every try of a CI run has the same files, so the guard lets it pass again.
ReviewAndCommit(t) ==
    /\ At(t, "reviewing")
    /\ \/ /\ t \in Ci => tip[t] = NoTip
          /\ Go(t, "closing")
          /\ UNCHANGED <<tip, attempt, outcome>>
       \/ /\ base[t].spec = "ready"
          /\ tip' = [tip EXCEPT ![t] = [by |-> t, from |-> base[t].body,
                                        base |-> base[t].version, own |-> "tasks"]]
          /\ attempt' = [attempt EXCEPT ![t] = 0]
          /\ Go(t, "rebasing")
          /\ UNCHANGED outcome
       \/ base[t].spec # "ready" /\ Quit(t, "error") /\ UNCHANGED <<tip, attempt>>
    /\ UNCHANGED <<mode, arbiter, base, blob, verdict, counters, faults>>

\* The set of this run is on main already: git drops the same patch.
LandedBy(t) == \E k \in DOMAIN sets : sets[k].by = t

\* A rename meets an edit or another rename of the spec, cleanly or not.
SpecTouched(t) == main.spec # base[t].spec \/ main.body # base[t].body

Rebase(t) ==
    /\ At(t, "rebasing")
    /\ \/ /\ tip' = [tip EXCEPT ![t] =
                [by |-> t, from |-> tip[t].from, base |-> main.version,
                 own |-> IF LandedBy(t) THEN "nothing" ELSE tip[t].own]]
          /\ Go(t, "landing")
          /\ UNCHANGED outcome
       \/ SpecTouched(t) /\ Quit(t, "conflict") /\ UNCHANGED tip
    /\ UNCHANGED <<mode, arbiter, base, blob, verdict, attempt, counters, faults>>

FastForward(t) == tip[t].base = main.version

\* What an accepted push makes of main.
LandSet(set) ==
    IF set.own = "tasks"
    THEN /\ Commit("tasked", main.body, main.asked)
         /\ sets' = Append(sets, [by |-> set.by, from |-> set.from])
    ELSE UNCHANGED <<main, sets>>

PushMain(t) ==
    /\ At(t, "landing") /\ mode[t] = "merge"
    /\ FastForward(t)
    /\ LandSet(tip[t])
    /\ Go(t, "pruning") /\ Report(t, "tasked")
    /\ UNCHANGED <<lock, remote, openPR, run, counters, faults>>

\* Mutant: one try too many.
TriesLeft_OneMore(t) == attempt[t] <= MaxMergeRetries

TriesLeft(t) == attempt[t] < MaxMergeRetries

\* A tip with nothing of its own is on main; a race is tried again; and a tasking
\* that gives up surfaces nothing.
PushMainRejected(t) ==
    /\ At(t, "landing") /\ mode[t] = "merge"
    /\ ~FastForward(t)
    /\ \/ /\ tip[t].own = "nothing"
          /\ Go(t, "pruning") /\ Report(t, "tasked")
          /\ UNCHANGED attempt
       \/ /\ tip[t].own # "nothing" /\ TriesLeft(t)
          /\ attempt' = [attempt EXCEPT ![t] = @ + 1]
          /\ Go(t, "rebasing")
          /\ UNCHANGED outcome
       \/ /\ tip[t].own # "nothing" /\ ~TriesLeft(t)
          /\ Quit(t, "conflict")
          /\ UNCHANGED attempt
    /\ UNCHANGED <<mode, arbiter, base, blob, verdict, tip, counters, faults>>

PushMainLost(t) ==
    /\ At(t, "landing") /\ mode[t] = "merge"
    /\ Fault
    /\ \/ FastForward(t) /\ LandSet(tip[t])
       \/ UNCHANGED <<main, sets>>
    /\ Quit(t, "failed")
    /\ UNCHANGED <<lock, remote, openPR, run, counters>>

\* The head of the branch, whoever pushed it, is deleted when main has all of it;
\* the forge closes a request without a head.
PruneHead(t) ==
    /\ At(t, "pruning")
    /\ \/ UNCHANGED <<remote, openPR>>
       \/ /\ remote # NoTip
          /\ \/ remote.own = "nothing"
             \/ remote.own = "tasks" /\ LandedBy(remote.by)
          /\ remote' = NoTip /\ openPR' = FALSE
    /\ Go(t, "releasing")
    /\ UNCHANGED <<main, sets, lock, run, outcome, counters, faults>>

\* Mutant: the lock is given back when the request is open.
AfterOpen_Release == "releasing"

\* The lock stays until the request is merged, or a human lets go of it.
AfterOpen == "over"

\* With the head reaped and the tasks on main there is nothing to propose.
PushBranch(t) ==
    /\ At(t, "landing") /\ mode[t] = "propose"
    /\ \/ /\ remote = NoTip /\ tip[t].own = "nothing"
          /\ Quit(t, "proposed")
          /\ UNCHANGED <<remote, faults>>
       \/ /\ remote # NoTip \/ tip[t].own # "nothing"
          /\ remote' = tip[t]
          /\ Go(t, "opening")
          /\ UNCHANGED <<outcome, faults>>
       \/ /\ Fault
          /\ remote' \in {remote, tip[t]}
          /\ Quit(t, "failed")
    /\ UNCHANGED <<main, sets, lock, openPR, run, counters>>

OpenRequest(t) ==
    /\ At(t, "opening")
    /\ openPR' \in {openPR, remote # NoTip /\ remote.own = "tasks"}
    /\ \/ Go(t, AfterOpen) /\ Report(t, "proposed") /\ UNCHANGED faults
       \/ Fault /\ Quit(t, "failed")
    /\ UNCHANGED <<main, sets, lock, remote, run, counters>>

-----------------------------------------------------------------------------
(* What is not to land: surfaceTaskingBlock, releaseTaskingLock *)

\* persistTaskingCandidates, without force.
SaveCandidates(t) ==
    /\ At(t, "saving")
    /\ \/ UNCHANGED remote
       \/ /\ remote = NoTip
          /\ remote' = [by |-> t, from |-> base[t].body, base |-> base[t].version,
                        own |-> "saved"]
    /\ Go(t, "closing")
    /\ UNCHANGED <<main, sets, lock, openPR, run, outcome, counters, faults>>

CloseRequest(t) ==
    /\ At(t, "closing")
    /\ openPR' \in {openPR, openPR /\ mode[t] = "merge"}
    /\ Go(t, "surfacing")
    /\ UNCHANGED <<main, sets, lock, remote, run, outcome, counters, faults>>

\* Nothing to route without a lock, whoever holds it; nothing to ask of a spec
\* that is tasked; and a surface that cannot land keeps the lock.
Surface(t) ==
    /\ At(t, "surfacing")
    /\ \/ /\ lock = NoOne
          /\ Quit(t, "failed")
          /\ UNCHANGED <<main, faults>>
       \/ /\ lock # NoOne
          /\ IF main.spec = "ready" THEN Commit("ready", main.body + 1, TRUE)
                                    ELSE UNCHANGED main
          /\ Go(t, "releasing") /\ Report(t, "surfaced")
          /\ UNCHANGED faults
       \/ /\ Fault
          /\ Quit(t, "failed")
          /\ UNCHANGED main
    /\ UNCHANGED <<sets, lock, remote, openPR, run, counters>>

\* A CI apply job only deletes the lock it was given.
ReleaseLock(t) ==
    /\ At(t, "releasing")
    /\ \/ /\ lock' = IF t \in Ci /\ lock # t THEN lock ELSE NoOne
          /\ UNCHANGED faults
       \/ Fault /\ UNCHANGED lock
    /\ Go(t, "over")
    /\ UNCHANGED <<main, sets, remote, openPR, run, outcome, counters>>

-----------------------------------------------------------------------------
(* The environment *)

\* A lock job that dies hands nothing to the next one.
Crash(t) ==
    /\ pc[t] \notin {"idle", "over"}
    /\ Fault
    /\ Quit(t, IF t \in Ci /\ pc[t] \notin {"reading", "locking"}
               THEN "failed" ELSE "error")
    /\ UNCHANGED <<arbiter, run, counters>>

\* "Re-run failed jobs": the agent job when it was red, else the apply job alone.
Rerun(t) ==
    /\ t \in Ci
    /\ At(t, "over")
    /\ outcome[t] \in {"stale", "conflict", "failed"}
    /\ reruns[t] < MaxReruns
    /\ reruns' = [reruns EXCEPT ![t] = @ + 1]
    /\ Go(t, IF verdict[t] \in {"none", "failed", "cancelled"}
             THEN "working" ELSE "applying")
    /\ Report(t, "none")
    /\ UNCHANGED <<arbiter, run, edits, others, faults>>

\* A person edits the ready spec, and may answer what it asks.
EditSpec ==
    /\ main.spec = "ready"
    /\ edits < MaxEdits
    /\ edits' = edits + 1
    /\ \E asked \in {FALSE, main.asked} : Commit("ready", main.body + 1, asked)
    /\ UNCHANGED <<sets, lock, remote, openPR, pc, run, outcome, reruns, others,
                   faults>>

OtherWriter ==
    /\ others < MaxOthers
    /\ others' = others + 1
    /\ Commit(main.spec, main.body, main.asked)
    /\ UNCHANGED <<sets, lock, remote, openPR, pc, run, outcome, reruns, edits,
                   faults>>

\* A human merges the request, and the forge may delete the head; or closes it.
EndRequest ==
    /\ openPR
    /\ openPR' = FALSE
    /\ \/ /\ remote # NoTip
          /\ LandSet(remote)
          /\ remote' \in {remote, NoTip}
       \/ UNCHANGED <<main, sets, remote>>
    /\ UNCHANGED <<lock, pc, run, outcome, counters, faults>>

\* release-lock, by somebody who saw the run end and closed its request; and the
\* sweep of terminal items' locks by any claim.
ClearLock ==
    /\ lock # NoOne
    /\ \/ At(lock, "over") /\ ~openPR
       \/ main.spec = "tasked"
    /\ lock' = NoOne
    /\ UNCHANGED <<main, sets, remote, openPR, pc, run, outcome, counters,
                   faults>>

-----------------------------------------------------------------------------
TaskerStep(t) ==
    \/ Start(t) \/ ReadSpec(t) \/ AcquireLock(t) \/ CutBranch(t) \/ EndAgent(t)
    \/ StartApply(t) \/ CheckStale(t) \/ ReviewAndCommit(t) \/ Rebase(t)
    \/ PushMain(t) \/ PushMainRejected(t) \/ PushMainLost(t)
    \/ PruneHead(t) \/ PushBranch(t) \/ OpenRequest(t)
    \/ SaveCandidates(t) \/ CloseRequest(t) \/ Surface(t) \/ ReleaseLock(t)

Next ==
    \/ \E t \in Tasker : TaskerStep(t)
    \/ \E t \in Tasker : Crash(t)
    \/ \E t \in Tasker : Rerun(t)
    \/ EditSpec \/ OtherWriter \/ EndRequest \/ ClearLock

Spec == Init /\ [][Next]_vars

-----------------------------------------------------------------------------
(* Properties *)

\* Every variable stays in its set.
TypeOK ==
    /\ mode \in [Tasker -> {"merge", "propose"}]
    /\ main \in Main
    /\ sets \in Seq([by : Tasker, from : Nat])
    /\ lock \in Tasker \cup {NoOne}
    /\ remote \in Tip \cup {NoTip}
    /\ openPR \in BOOLEAN
    /\ pc \in [Tasker -> Step]
    /\ base \in [Tasker -> Main]
    /\ blob \in [Tasker -> Nat]
    /\ verdict \in [Tasker -> Verdict]
    /\ tip \in [Tasker -> Tip \cup {NoTip}]
    /\ attempt \in [Tasker -> 0 .. MaxMergeRetries]
    /\ outcome \in [Tasker -> Outcome]
    /\ reruns \in [Tasker -> Nat]
    /\ edits \in Nat /\ others \in Nat /\ faults \in Nat

\* A spec is never tasked twice by runs of one process: whoever follows a tasked
\* spec finds it gone (tasking-lock.ts, "so a spec is never double-tasked").  A CI
\* run is not covered: its base is older than its lock.
LocalTaskingIsFirst ==
    \A k \in DOMAIN sets : k > 1 => sets[k].by \in Ci

\* Whoever tasks a ready spec by a push holds its lock at that moment, jobs that
\* are run again after their lock was cleared or taken included.
OnlyTheHolderTasks ==
    [][\A t \in Tasker :
          At(t, "landing") /\ pc'[t] # "landing"
          /\ main.spec = "ready" /\ main'.spec = "tasked"
          => lock = t]_vars

\* A tasking gets past the stale check only with tasks cut from the spec as main
\* has it, though the blob compared and the body the agent read come from two
\* different fetches.
PassedCheckFits ==
    [][\A t \in Tasker :
          At(t, "checking") /\ pc'[t] = "reviewing" /\ main.spec = "ready"
          => base[t].body = main.body]_vars

\* A request that is open for a ready spec is not rewritten by another tasker
\* (tasking.ts, "force-pushing the SAME PR").
OpenRequestKeepsItsBranch ==
    [][openPR /\ main.spec = "ready" /\ remote' # remote
          => remote' = NoTip \/ remote'.by = remote.by]_vars

\* With no fault, a run that is over left the lock held only for a human to
\* look into, or for a request, or on a spec that is tasked (which a sweep clears).
HeldForAReason ==
    faults = 0 => \A t \in Tasker :
        At(t, "over") /\ lock = t =>
            outcome[t] \in {"proposed", "stale", "conflict"} \/ main.spec = "tasked"
=============================================================================
