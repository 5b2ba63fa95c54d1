-------------------------------- MODULE Intake --------------------------------
(***************************************************************************)
(* How an issue becomes a task or a spec:                                   *)
(* performIntake (intake.ts) in one process, its split over three CI jobs   *)
(* (ci-phase-intake.ts).                                                    *)
(*                                                                          *)
(* Intake keeps no state of its own.  What it did is on the issue's thread: *)
(* each comment it posts carries a marker with its kind and the comments it *)
(* had seen, and the next run reads them to tell whether there is anything  *)
(* to do.  Two runs are kept apart by a label that each reads before it     *)
(* adds it, and in CI by a concurrency group of the issue as well.          *)
(*                                                                          *)
(* A comment is its position on the thread; comments are never deleted.     *)
(* Two runs name their documents differently.                               *)
(***************************************************************************)
EXTENDS Naturals, Sequences, FiniteSets

CONSTANTS
    Local,        \* runs of the verb in one process
    Ci,           \* runs split over CI jobs, one at a time
    Person,       \* the author of a comment without a marker
    MaxComments,  \* bound: comments of people
    MaxReruns,    \* bound: times the failed jobs of a CI run are run again
    MaxFaults     \* bound: failed calls, failed agents and deaths

ASSUME ConstantsAssumption ==
    /\ Local \cap Ci = {}
    /\ Person \notin Local \cup Ci
    /\ MaxComments \in Nat /\ MaxReruns \in Nat /\ MaxFaults \in Nat

Run == Local \cup Ci

Comment == [by : Run \cup {Person},
            kind : {"none", "ask", "bounced", "created"},
            seen : SUBSET Nat]

VARIABLES
    labels,     \* whether the issue provider has labels at all
    thread,     \* the comments of the issue, oldest first
    issue,      \* open, or the reason it was closed for
    label,      \* the processing label
    wake,       \* a CI trigger that no run has answered
    pc,         \* where a run is
    upto,       \* how much of the thread it read
    verdict,    \* what its triage and its agent came to
    shown,      \* the comments its agent was shown
    outcome,    \* what it reports
    emitted,    \* whether its document was integrated
    reruns, faults

run == <<pc, upto, verdict, shown, outcome, emitted>>
vars == <<labels, thread, issue, label, wake, run, reruns, faults>>

Step == {"idle", "labels", "lock", "decide", "apply", "write", "comment",
         "release", "left", "done"}
Verdict == {"none", "skip", "failed", "ask", "bounce", "document"}
Outcome == {"none", "usage-error", "lock-failed", "locked", "skipped",
            "agent-failed", "stale-lock", "rejected", "stale", "asked",
            "bounced", "created", "dead"}

TypeOK ==
    /\ labels \in BOOLEAN
    /\ thread \in Seq(Comment)
    /\ issue \in {"open", "not-planned"}
    /\ label \in BOOLEAN
    /\ wake \in BOOLEAN
    /\ pc \in [Run -> Step]
    /\ upto \in [Run -> Nat]
    /\ verdict \in [Run -> Verdict]
    /\ shown \in [Run -> SUBSET Nat]
    /\ outcome \in [Run -> Outcome]
    /\ emitted \in [Run -> BOOLEAN]
    /\ reruns \in 0..MaxReruns
    /\ faults \in 0..MaxFaults

-----------------------------------------------------------------------------
(* The thread *)

IsMarker(c) == c.kind # "none"

\* The comments of people on a thread.
Human(t) == {i \in DOMAIN t : ~IsMarker(t[i])}

\* The comments some marker says intake has seen.
SeenSet(t) == UNION {t[i].seen : i \in DOMAIN t}

\* Mutant: a note that a document was created is not final.
HasTerminalMarker_Bounced(t) == \E i \in DOMAIN t : t[i].kind = "bounced"

HasTerminalMarker(t) == \E i \in DOMAIN t : t[i].kind \in {"bounced", "created"}

\* Mutant: intake is done whenever it has the last word.
Proceeds_LastWord(t) ==
    t # <<>> => ~IsMarker(t[Len(t)]) /\ ~HasTerminalMarker(t)

\* Whether a run on this thread asks its agent: nobody commented yet, intake
\* has the last word but not on every comment, or a person has the last word on
\* an issue that was not transformed.
Proceeds(t) ==
    t # <<>> =>
        IF IsMarker(t[Len(t)])
        THEN ~(Human(t) \subseteq SeenSet(t))
        ELSE ~HasTerminalMarker(t)

ReadBy(r) == SubSeq(thread, 1, upto[r])

\* The comments of people that no marker names yet.
SeenDelta(t) == Human(t) \ SeenSet(t)

\* Mutant: a CI marker claims the thread as it is when the note is posted.
MarkerSeen_Now(r) == IF r \in Ci THEN DOMAIN thread ELSE SeenDelta(ReadBy(r))

\* What the marker of a run says it has seen: in CI every comment the lock job
\* read, intake's own included, else what no earlier marker names.
MarkerSeen(r) == IF r \in Ci THEN 1..upto[r] ELSE SeenDelta(ReadBy(r))

\* What the agent of a run is shown.  A CI agent job reads the thread again and
\* keeps what the lock job had read.
ShownTo(r) == {i \in DOMAIN thread : i <= upto[r]}

-----------------------------------------------------------------------------
Init ==
    /\ labels \in BOOLEAN
    /\ thread = <<>>
    /\ issue = "open"
    /\ label = FALSE
    /\ wake = TRUE
    /\ pc = [r \in Run |-> "idle"]
    /\ upto = [r \in Run |-> 0]
    /\ verdict = [r \in Run |-> "none"]
    /\ shown = [r \in Run |-> {}]
    /\ outcome = [r \in Run |-> "none"]
    /\ emitted = [r \in Run |-> FALSE]
    /\ reruns = 0
    /\ faults = 0

Goto(r, step) == pc' = [pc EXCEPT ![r] = step]
Report(r, what) == outcome' = [outcome EXCEPT ![r] = what]
Fault == faults < MaxFaults /\ faults' = faults + 1

\* The run ends with nothing written and no label of its own.
Stop(r, what) == Goto(r, "done") /\ Report(r, what)

Ended(r) == pc[r] \in {"idle", "left", "done"}
GroupFree == \A q \in Ci : Ended(q)

\* The run reads the issue and its comments, before it looks at the label.
ReadThread(r) ==
    /\ pc[r] = "idle"
    /\ r \in Ci => wake /\ GroupFree
    /\ wake' = (wake /\ r \notin Ci)
    /\ upto' = [upto EXCEPT ![r] = Len(thread)]
    /\ \/ Goto(r, "labels") /\ UNCHANGED <<outcome, faults>>
       \/ Fault /\ Stop(r, "usage-error")
    /\ UNCHANGED <<labels, thread, issue, label, verdict, shown, emitted, reruns>>

\* It backs off from a label that is there; a provider without labels is no
\* reason to stop, a read that fails is.
ReadLabels(r) ==
    /\ pc[r] = "labels"
    /\ \/ Goto(r, IF labels THEN "lock" ELSE "decide")
          /\ ~label
          /\ UNCHANGED <<outcome, faults>>
       \/ label /\ Stop(r, "locked") /\ UNCHANGED faults
       \/ labels /\ Fault /\ Stop(r, "lock-failed")
    /\ UNCHANGED <<labels, thread, issue, label, wake, upto, verdict, shown, emitted, reruns>>

AddLabel(r) ==
    /\ pc[r] = "lock"
    /\ \/ label' = TRUE /\ Goto(r, "decide") /\ UNCHANGED <<outcome, faults>>
       \/ Fault /\ Stop(r, "lock-failed") /\ UNCHANGED label
    /\ UNCHANGED <<labels, thread, issue, wake, upto, verdict, shown, emitted, reruns>>

\* Mutant: a run with nothing to write ends without the release.
AfterVerdict_Kept(r, v) ==
    IF r \in Ci THEN "apply" ELSE IF v \in {"skip", "failed"} THEN "done" ELSE "write"

\* Mutant: a verdict is taken for the next step.
AfterVerdict_Verdict(r, v) ==
    IF r \in Ci THEN "apply" ELSE IF v \in {"skip", "failed"} THEN "release" ELSE v

\* Where a run goes on once its triage or its agent has spoken: a CI run's
\* apply job always runs, one process only releases when nothing is to write.
AfterVerdict(r, v) ==
    IF r \in Ci THEN "apply" ELSE IF v \in {"skip", "failed"} THEN "release" ELSE "write"

\* Triage on what the run read, then the decision agent and, for a task, the
\* review rounds, which leave the task or turn it into a question.  A document is
\* a task or a spec.
Decide(r) ==
    /\ pc[r] = "decide"
    /\ \/ /\ ~Proceeds(ReadBy(r))
          /\ verdict' = [verdict EXCEPT ![r] = "skip"]
          /\ Goto(r, AfterVerdict(r, "skip")) /\ Report(r, "skipped")
          /\ UNCHANGED <<shown, faults>>
       \/ \E v \in {"ask", "bounce", "document"} :
              /\ Proceeds(ReadBy(r))
              /\ verdict' = [verdict EXCEPT ![r] = v]
              /\ shown' = [shown EXCEPT ![r] = ShownTo(r)]
              /\ Goto(r, AfterVerdict(r, v))
              /\ UNCHANGED <<outcome, faults>>
       \/ /\ Proceeds(ReadBy(r))
          /\ verdict' = [verdict EXCEPT ![r] = "failed"]
          /\ Fault
          /\ Goto(r, AfterVerdict(r, "failed")) /\ Report(r, "agent-failed")
          /\ UNCHANGED shown
    /\ UNCHANGED <<labels, thread, issue, label, wake, upto, emitted, reruns>>

\* A CI apply job: it writes nothing when the label is gone, and it cannot know
\* whose label it sees.  The checks on the hand-off are one refusal.
StartApply(r) ==
    /\ pc[r] = "apply"
    /\ \/ labels /\ ~label /\ Stop(r, "stale-lock") /\ UNCHANGED faults
       \/ Fault /\ Goto(r, "left") /\ Report(r, "usage-error")
       \/ /\ labels => label
          /\ IF verdict[r] \in {"skip", "failed"}
             THEN Goto(r, "release") /\ UNCHANGED <<outcome, faults>>
             ELSE \/ Goto(r, "write") /\ UNCHANGED <<outcome, faults>>
                  \/ Fault /\ Goto(r, "release") /\ Report(r, "rejected")
    /\ UNCHANGED <<labels, thread, issue, label, wake, upto, verdict, shown, emitted, reruns>>

\* A comment with a marker; whether it triggers CI in turn depends on the token
\* it is posted with.
Post(r, kind) ==
    /\ thread' = Append(thread, [by |-> r, kind |-> kind, seen |-> MarkerSeen(r)])
    /\ wake' \in {wake, TRUE}

Ask(r) ==
    /\ pc[r] = "write" /\ verdict[r] = "ask"
    /\ \/ Post(r, "ask") /\ UNCHANGED faults
       \/ Fault /\ UNCHANGED <<thread, wake>>
    /\ Goto(r, "release") /\ Report(r, "asked")
    /\ UNCHANGED <<labels, issue, label, upto, verdict, shown, emitted, reruns>>

\* A bounce is posted and closes the issue in one call, or does neither.
Bounce(r) ==
    /\ pc[r] = "write" /\ verdict[r] = "bounce"
    /\ \/ /\ Post(r, "bounced")
          /\ issue' = "not-planned"
          /\ UNCHANGED faults
       \/ Fault /\ UNCHANGED <<thread, issue, wake>>
    /\ Goto(r, "release") /\ Report(r, "bounced")
    /\ UNCHANGED <<labels, label, upto, verdict, shown, emitted, reruns>>

\* The document is committed on a branch of its own, from main, and integrated:
\* landed, proposed, or pushed where no request could be opened.
EmitDocument(r) ==
    /\ pc[r] = "write" /\ verdict[r] = "document"
    /\ \/ /\ emitted' = [emitted EXCEPT ![r] = TRUE]
          /\ Goto(r, "comment")
          /\ UNCHANGED <<outcome, faults>>
       \/ /\ \E what \in {"stale", "usage-error"} : Report(r, what)
          /\ Fault
          /\ Goto(r, "release")
          /\ UNCHANGED emitted
    /\ UNCHANGED <<labels, thread, issue, label, wake, upto, verdict, shown, reruns>>

\* The note that a document was created follows in a call of its own.
PostCreated(r) ==
    /\ pc[r] = "comment"
    /\ \/ Post(r, "created") /\ UNCHANGED faults
       \/ Fault /\ UNCHANGED <<thread, wake>>
    /\ Goto(r, "release") /\ Report(r, "created")
    /\ UNCHANGED <<labels, issue, label, upto, verdict, shown, emitted, reruns>>

\* Every way out past the label releases it; one that cannot says so and leaves
\* it to the operator.
Release(r) ==
    /\ pc[r] = "release"
    /\ \/ label' = FALSE /\ Goto(r, "done") /\ UNCHANGED faults
       \/ labels /\ Fault /\ Goto(r, "left") /\ UNCHANGED label
    /\ UNCHANGED <<labels, thread, issue, wake, upto, verdict, shown, outcome, emitted, reruns>>

RunStep(r) ==
    \/ ReadThread(r) \/ ReadLabels(r) \/ AddLabel(r) \/ Decide(r)
    \/ StartApply(r) \/ Ask(r) \/ Bounce(r) \/ EmitDocument(r)
    \/ PostCreated(r) \/ Release(r)

\* A process dies past its label.  A signal handler of one process fires off the
\* removal without waiting for it; a CI job has none, and a lock job that dies
\* here has published nothing, so no apply job runs.
Die(r) ==
    /\ pc[r] \in {"decide", "write", "comment", "release"}
    /\ Fault
    /\ \/ Goto(r, "left") /\ UNCHANGED label
       \/ r \in Local /\ Goto(r, "done") /\ label' = FALSE
    /\ Report(r, "dead")
    /\ UNCHANGED <<labels, thread, issue, wake, upto, verdict, shown, emitted, reruns>>

\* Someone has the failed jobs of a CI run done again: the agent and apply jobs
\* when the agent failed, else the apply job, on the outputs of the first time.
Rerun(r) ==
    /\ r \in Ci
    /\ pc[r] \in {"left", "done"}
    /\ outcome[r] \in {"agent-failed", "rejected", "stale", "usage-error", "dead"}
    /\ verdict[r] \notin {"none", "skip"}
    /\ GroupFree
    /\ reruns < MaxReruns
    /\ reruns' = reruns + 1
    /\ Goto(r, IF verdict[r] = "failed" THEN "decide" ELSE "apply")
    /\ UNCHANGED <<labels, thread, issue, label, wake, upto, verdict, shown, outcome, emitted, faults>>

-----------------------------------------------------------------------------
(* People *)

\* A person comments, which triggers CI.
AddComment ==
    /\ Cardinality(Human(thread)) < MaxComments
    /\ thread' = Append(thread, [by |-> Person, kind |-> "none", seen |-> {}])
    /\ wake' = TRUE
    /\ UNCHANGED <<labels, issue, label, run, reruns, faults>>

\* The operator removes a label that was left behind.
ClearLabel ==
    /\ label
    /\ \E r \in Run : pc[r] = "left"
    /\ label' = FALSE
    /\ UNCHANGED <<labels, thread, issue, wake, run, reruns, faults>>

-----------------------------------------------------------------------------
Next ==
    \/ \E r \in Run : RunStep(r) \/ Die(r) \/ Rerun(r)
    \/ AddComment \/ ClearLabel

\* A run that started goes on to its end: every call of it returns, and an agent
\* that hangs is ended by its timeout.
Fairness == \A r \in Run : WF_vars(pc[r] # "idle" /\ RunStep(r))

Spec == Init /\ [][Next]_vars
FairSpec == Spec /\ Fairness

-----------------------------------------------------------------------------
(* Properties *)

\* A marker never claims a comment that the agent behind it was not shown: a
\* comment that comes in while a run is deciding is left for the next run.
SeenWasShown ==
    \A i \in DOMAIN thread :
        IsMarker(thread[i]) =>
            thread[i].seen \cap Human(thread) \subseteq shown[thread[i].by]

\* Runs that read far enough to find a comment and ended without an agent's word.
Excused(r) ==
    outcome[r] \in {"usage-error", "lock-failed", "locked", "agent-failed",
                    "stale-lock", "dead"}

\* No comment is lost on the way: as long as the issue was not transformed, a
\* comment was shown to an agent, or a trigger is waiting, or a run that read it
\* is still at work or ended on a failure or behind another run's label.
HeardOrExcused ==
    \A i \in Human(thread) :
        \/ HasTerminalMarker(thread)
        \/ wake
        \/ \E r \in Run : i \in shown[r]
        \/ \E r \in Run : i <= upto[r] /\ (~Ended(r) \/ Excused(r))

\* The runs whose marker a run had before it when it read the thread.
MarkersReadBy(r) == {i \in 1..upto[r] : IsMarker(thread[i])}

\* An issue is transformed a second time only by a run that could not see the
\* first: its note was not posted before the run read the thread, or a person had
\* commented before the last note in a way that no run behind a note was shown.
SecondDocumentNeedsRace ==
    \A r \in Run :
        (/\ emitted[r]
         /\ \E i \in MarkersReadBy(r) : thread[i].kind \in {"bounced", "created"})
        => \E i \in Human(thread), last \in MarkersReadBy(r) :
               /\ i < last
               /\ \A m \in MarkersReadBy(r) : i \notin shown[thread[m].by]

\* A label always comes down, unless a run died or failed to remove it.
LabelComesDown == label ~> (~label \/ \E r \in Run : pc[r] = "left")

=============================================================================
