---------------------------- MODULE IntakeProofs ----------------------------
(***************************************************************************)
(* What holds of Intake for every set of runs, local and CI, and for every  *)
(* number of comments, re-runs and faults.                                  *)
(*                                                                          *)
(* A thread only grows, and a run reads it once, so what a run read never    *)
(* changes (Reads).  A run posts only after its agent was shown all it read  *)
(* (Course), so what its marker claims was shown (CommentInv).  A run that   *)
(* skips found every comment claimed, or the issue transformed.              *)
(***************************************************************************)
EXTENDS Intake, TLAPS

Docs == {"ask", "bounce", "document"}

\* Where a run may be, by what its agent said.
Course(r) ==
    /\ shown[r] \in {{}, 1..upto[r]}
    /\ pc[r] = "idle" => upto[r] = 0
    /\ pc[r] \in {"idle", "labels", "lock", "decide"} => verdict[r] \in {"none", "failed"}
    /\ pc[r] = "apply" => verdict[r] # "none"
    /\ pc[r] = "write" => verdict[r] \in Docs
    /\ pc[r] = "comment" => verdict[r] = "document"
    /\ verdict[r] \in Docs => shown[r] = 1..upto[r]
    /\ emitted[r] => verdict[r] = "document"
    /\ pc[r] \in {"apply", "release", "left", "done"} =>
          Excused(r) \/ verdict[r] \in Docs \cup {"skip"}

\* The issue was transformed, or some agent was shown the comment.
Heard(i) ==
    \/ \E k \in DOMAIN thread : thread[k].kind \in {"bounced", "created"}
    \/ \E q \in Run : i \in shown[q]

\* What a run that skips, or one that writes a document, had read.
Reads(r) ==
    /\ upto[r] <= Len(thread)
    /\ verdict[r] = "skip" =>
          \A i \in 1..upto[r] : thread[i].kind = "none" => Heard(i)
    /\ verdict[r] = "document" /\ upto[r] > 0 =>
          IF IsMarker(thread[upto[r]])
          THEN \E i \in 1..upto[r] : /\ thread[i].kind = "none"
                                     /\ \A k \in 1..upto[r] : i \notin thread[k].seen
          ELSE \A k \in 1..upto[r] : thread[k].kind \notin {"bounced", "created"}

RunInv(r) == Course(r) /\ Reads(r)

\* The marker of a run claims comments its agent was shown; the others it was
\* shown were claimed before.
CommentInv(m) ==
    /\ thread[m].seen \subseteq 1..Len(thread)
    /\ IsMarker(thread[m]) =>
          /\ thread[m].by \in Run
          /\ verdict[thread[m].by] \in Docs
          /\ \A i \in 1..Len(thread) :
                thread[i].kind = "none" =>
                  /\ i \in thread[m].seen => i \in shown[thread[m].by]
                  /\ i \in shown[thread[m].by] => \E k \in 1..m : i \in thread[k].seen
    /\ ~IsMarker(thread[m]) => thread[m].seen = {}

\* Every comment of a person was read by a run, or a trigger waits.
Noticed ==
    wake \/ \A i \in 1..Len(thread) :
                thread[i].kind = "none" => \E r \in Run : i <= upto[r]

IInv ==
    /\ TypeOK
    /\ \A r \in Run : RunInv(r)
    /\ \A m \in 1..Len(thread) : CommentInv(m)
    /\ Noticed

-----------------------------------------------------------------------------
(* A step, seen by what it leaves alone *)

\* Comments stay, and what agents were shown stays shown.
Grown ==
    /\ Len(thread) <= Len(thread')
    /\ \A i \in 1..Len(thread) : thread'[i] = thread[i]
    /\ \A q \in Run : shown[q] \subseteq shown'[q]

LEMMA HeardStays ==
    ASSUME TypeOK, TypeOK', Grown, NEW i, Heard(i)
    PROVE  Heard(i)'
<1>1. Len(thread) \in Nat /\ Len(thread') \in Nat
      /\ DOMAIN thread = 1..Len(thread) /\ DOMAIN thread' = 1..Len(thread')
  BY DEF TypeOK
<1> QED
  BY <1>1 DEF Grown, Heard

LEMMA ReadsStay ==
    ASSUME TypeOK, TypeOK', Grown, NEW r \in Run, Reads(r),
           upto'[r] = upto[r],
           verdict'[r] = verdict[r] \/ verdict'[r] \notin {"skip", "document"}
    PROVE  Reads(r)'
<1>1. Len(thread) \in Nat /\ Len(thread') \in Nat /\ upto[r] \in Nat
  BY DEF TypeOK
<1>2. /\ Len(thread) <= Len(thread')
      /\ upto[r] <= Len(thread) /\ upto[r] <= Len(thread')
  BY <1>1 DEF Reads, Grown
<1>3. \A i \in 1..upto[r] : i \in 1..Len(thread) /\ thread'[i] = thread[i]
  BY <1>1, <1>2 DEF Grown
<1>4. verdict'[r] = "skip" =>
        \A i \in 1..upto[r] : thread'[i].kind = "none" => Heard(i)'
  BY <1>3, HeardStays DEF Reads
<1>5. upto[r] > 0 => upto[r] \in 1..upto[r]
  BY <1>1
<1>6. verdict'[r] = "document" /\ upto[r] > 0 =>
          IF IsMarker(thread'[upto[r]])
          THEN \E i \in 1..upto[r] : /\ thread'[i].kind = "none"
                                     /\ \A k \in 1..upto[r] : i \notin thread'[k].seen
          ELSE \A k \in 1..upto[r] : thread'[k].kind \notin {"bounced", "created"}
  BY <1>3, <1>5 DEF Reads, IsMarker
<1> QED
  BY <1>2, <1>4, <1>6 DEF Reads, IsMarker

\* A run whose own variables do not change keeps its part.
LEMMA OtherRun ==
    ASSUME TypeOK, TypeOK', Grown, NEW u \in Run, RunInv(u),
           /\ pc'[u] = pc[u] /\ upto'[u] = upto[u] /\ verdict'[u] = verdict[u]
           /\ shown'[u] = shown[u] /\ outcome'[u] = outcome[u] /\ emitted'[u] = emitted[u]
    PROVE  RunInv(u)'
<1>1. Course(u)'
  BY DEF RunInv, Course, Excused
<1> QED
  BY <1>1, ReadsStay DEF RunInv

\* A step of one run that posts nothing and after which nothing was shown that
\* was not shown before keeps the rest.
LEMMA QuietStep ==
    ASSUME IInv, TypeOK', NEW r \in Run, Course(r)', Reads(r)',
           thread' = thread, Noticed', shown[r] \subseteq shown'[r],
           shown'[r] = shown[r] \/ verdict[r] \notin Docs,
           verdict'[r] = verdict[r] \/ verdict[r] \notin Docs,
           \A u \in Run \ {r} :
               /\ pc'[u] = pc[u] /\ upto'[u] = upto[u] /\ verdict'[u] = verdict[u]
               /\ shown'[u] = shown[u] /\ outcome'[u] = outcome[u]
               /\ emitted'[u] = emitted[u]
    PROVE  IInv'
<1>1. TypeOK /\ \A u \in Run : RunInv(u)
  BY DEF IInv
<1>2. Len(thread) \in Nat
  BY <1>1 DEF TypeOK
<1>3. Grown
  BY <1>2 DEF Grown
<1>4. \A u \in Run : RunInv(u)'
  <2> SUFFICES ASSUME NEW u \in Run  PROVE RunInv(u)'
    OBVIOUS
  <2>1. CASE u = r
    BY <2>1 DEF RunInv
  <2>2. CASE u # r
    BY <1>1, <1>3, <2>2, OtherRun
  <2> QED
    BY <2>1, <2>2
<1>5. ASSUME NEW m \in 1..Len(thread)  PROVE CommentInv(m)'
  <2>1. CommentInv(m)
    BY DEF IInv
  <2>2. IsMarker(thread[m]) =>
          /\ verdict'[thread[m].by] = verdict[thread[m].by]
          /\ shown'[thread[m].by] = shown[thread[m].by]
    BY <2>1 DEF CommentInv
  <2> QED
    BY <2>1, <2>2 DEF CommentInv, IsMarker
<1> QED
  BY <1>4, <1>5 DEF IInv

-----------------------------------------------------------------------------
(* What a run read *)

LEMMA ReadByFacts ==
    ASSUME TypeOK, NEW r \in Run, upto[r] <= Len(thread)
    PROVE  /\ ReadBy(r) \in Seq(Comment)
           /\ Len(ReadBy(r)) = upto[r]
           /\ DOMAIN ReadBy(r) = 1..upto[r]
           /\ \A i \in 1..upto[r] : ReadBy(r)[i] = thread[i]
<1>1. thread \in Seq(Comment) /\ upto[r] \in Nat /\ Len(thread) \in Nat
  BY DEF TypeOK
<1> QED
  BY <1>1 DEF ReadBy

\* The marker of a run that read r's thread names positions it had read.
LEMMA MarkerSeenFacts ==
    ASSUME TypeOK, NEW r \in Run, upto[r] <= Len(thread)
    PROVE  /\ MarkerSeen(r) \in SUBSET Nat
           /\ MarkerSeen(r) \subseteq 1..upto[r]
           /\ \A i \in 1..upto[r] :
                 thread[i].kind = "none" /\ i \notin MarkerSeen(r) =>
                     \E k \in 1..upto[r] : i \in thread[k].seen
<1>1. upto[r] \in Nat
  BY DEF TypeOK
<1>2. CASE r \in Ci
  BY <1>1, <1>2 DEF MarkerSeen
<1>3. CASE r \notin Ci
  BY <1>1, <1>3, ReadByFacts DEF MarkerSeen, SeenDelta, Human, SeenSet, IsMarker
<1> QED
  BY <1>2, <1>3

\* A run skips a thread on which somebody heard every comment.
LEMMA SkipsHeard ==
    ASSUME IInv, NEW r \in Run, ~Proceeds(ReadBy(r))
    PROVE  \A i \in 1..upto[r] : thread[i].kind = "none" => Heard(i)
<1>1. TypeOK /\ upto[r] <= Len(thread) /\ upto[r] \in Nat /\ Len(thread) \in Nat
  BY DEF IInv, RunInv, Reads, TypeOK
<1>2. DOMAIN thread = 1..Len(thread)
  BY DEF IInv, TypeOK
<1>3. SUFFICES ASSUME NEW i \in 1..upto[r], thread[i].kind = "none"
              PROVE  Heard(i)
  OBVIOUS
<1>4. upto[r] \in 1..upto[r] /\ i \in 1..Len(thread)
  BY <1>1
<1>5. CASE IsMarker(thread[upto[r]])
  <2>1. Human(ReadBy(r)) \subseteq SeenSet(ReadBy(r))
    BY <1>1, <1>4, <1>5, ReadByFacts DEF Proceeds
  <2>2. i \in Human(ReadBy(r))
    BY <1>1, <1>3, ReadByFacts DEF Human, IsMarker
  <2>3. PICK k \in 1..upto[r] : i \in thread[k].seen
    BY <1>1, <2>1, <2>2, ReadByFacts DEF SeenSet
  <2>4. k \in 1..Len(thread)
    BY <1>1
  <2>5. IsMarker(thread[k])
    BY <2>3, <2>4 DEF IInv, CommentInv
  <2> QED
    BY <1>3, <1>4, <2>3, <2>4, <2>5 DEF IInv, CommentInv, Heard
<1>6. CASE ~IsMarker(thread[upto[r]])
  <2>1. HasTerminalMarker(ReadBy(r))
    BY <1>1, <1>4, <1>6, ReadByFacts DEF Proceeds
  <2>2. PICK k \in 1..upto[r] : thread[k].kind \in {"bounced", "created"}
    BY <1>1, <2>1, ReadByFacts DEF HasTerminalMarker
  <2> QED
    BY <1>1, <1>2, <2>2 DEF Heard
<1> QED
  BY <1>5, <1>6

\* A run that goes on found a comment nobody claimed, or no final note.
LEMMA GoesOn ==
    ASSUME IInv, NEW r \in Run, Proceeds(ReadBy(r)), upto[r] > 0
    PROVE  IF IsMarker(thread[upto[r]])
           THEN \E i \in 1..upto[r] : /\ thread[i].kind = "none"
                                      /\ \A k \in 1..upto[r] : i \notin thread[k].seen
           ELSE \A k \in 1..upto[r] : thread[k].kind \notin {"bounced", "created"}
<1>1. TypeOK /\ upto[r] <= Len(thread) /\ upto[r] \in Nat /\ Len(thread) \in Nat
  BY DEF IInv, RunInv, Reads, TypeOK
<1>2. upto[r] \in 1..upto[r] /\ ReadBy(r) # <<>>
  BY <1>1, ReadByFacts
<1>3. CASE IsMarker(thread[upto[r]])
  <2>1. ~(Human(ReadBy(r)) \subseteq SeenSet(ReadBy(r)))
    BY <1>1, <1>2, <1>3, ReadByFacts DEF Proceeds
  <2>2. PICK i \in Human(ReadBy(r)) : i \notin SeenSet(ReadBy(r))
    BY <2>1
  <2>3. i \in 1..upto[r] /\ thread[i].kind = "none"
    BY <1>1, <2>2, ReadByFacts DEF Human, IsMarker
  <2>4. \A k \in 1..upto[r] : i \notin thread[k].seen
    BY <1>1, <2>2, ReadByFacts DEF SeenSet
  <2> QED
    BY <1>3, <2>3, <2>4
<1>4. CASE ~IsMarker(thread[upto[r]])
  BY <1>1, <1>2, <1>4, ReadByFacts DEF Proceeds, HasTerminalMarker
<1> QED
  BY <1>3, <1>4

-----------------------------------------------------------------------------
(* The steps *)

LEMMA InitEstablishes == Init => IInv
<1> SUFFICES ASSUME Init  PROVE IInv
  OBVIOUS
<1>1. TypeOK
  <2>1. thread \in Seq(Comment)
    BY DEF Init
  <2>2. reruns \in 0..MaxReruns /\ faults \in 0..MaxFaults
    BY ConstantsAssumption DEF Init
  <2> QED
    BY <2>1, <2>2 DEF Init, TypeOK, Step, Verdict, Outcome
<1>2. \A r \in Run : RunInv(r)
  BY DEF Init, RunInv, Course, Reads, Docs
<1> QED
  BY <1>1, <1>2 DEF Init, IInv, Noticed

LEMMA ReadLabelsKeeps ==
    ASSUME IInv, NEW r \in Run, ReadLabels(r)
    PROVE  IInv'
<1>1. TypeOK /\ Course(r) /\ Reads(r) /\ Noticed
  BY DEF IInv, RunInv
<1>2. TypeOK'
  <2>1. faults' \in 0..MaxFaults
    BY <1>1, ConstantsAssumption DEF TypeOK, ReadLabels, Goto, Report, Fault, Stop
  <2> QED
    BY <1>1, <2>1 DEF TypeOK, ReadLabels, Goto, Report, Fault, Stop, Step, Verdict, Outcome
<1>3. Grown
  BY <1>1 DEF ReadLabels, Goto, Report, Fault, Stop, Grown, TypeOK
<1>4. Course(r)'
  BY <1>1 DEF ReadLabels, Goto, Report, Fault, Stop, Course, Excused, Docs, TypeOK
<1>5. Reads(r)'
  BY <1>1, <1>2, <1>3, ReadsStay DEF ReadLabels, Goto, Report, Fault, Stop, TypeOK
<1>6. Noticed'
  BY <1>1 DEF ReadLabels, Goto, Report, Fault, Stop, Noticed, TypeOK
<1> QED
  BY <1>1, <1>2, <1>4, <1>5, <1>6, QuietStep DEF ReadLabels, Goto, Report, Fault, Stop, TypeOK, Course, Docs

LEMMA AddLabelKeeps ==
    ASSUME IInv, NEW r \in Run, AddLabel(r)
    PROVE  IInv'
<1>1. TypeOK /\ Course(r) /\ Reads(r) /\ Noticed
  BY DEF IInv, RunInv
<1>2. TypeOK'
  <2>1. faults' \in 0..MaxFaults
    BY <1>1, ConstantsAssumption DEF TypeOK, AddLabel, Goto, Report, Fault, Stop
  <2> QED
    BY <1>1, <2>1 DEF TypeOK, AddLabel, Goto, Report, Fault, Stop, Step, Verdict, Outcome
<1>3. Grown
  BY <1>1 DEF AddLabel, Goto, Report, Fault, Stop, Grown, TypeOK
<1>4. Course(r)'
  BY <1>1 DEF AddLabel, Goto, Report, Fault, Stop, Course, Excused, Docs, TypeOK
<1>5. Reads(r)'
  BY <1>1, <1>2, <1>3, ReadsStay DEF AddLabel, Goto, Report, Fault, Stop, TypeOK
<1>6. Noticed'
  BY <1>1 DEF AddLabel, Goto, Report, Fault, Stop, Noticed, TypeOK
<1> QED
  BY <1>1, <1>2, <1>4, <1>5, <1>6, QuietStep DEF AddLabel, Goto, Report, Fault, Stop, TypeOK, Course, Docs

LEMMA StartApplyKeeps ==
    ASSUME IInv, NEW r \in Run, StartApply(r)
    PROVE  IInv'
<1>1. TypeOK /\ Course(r) /\ Reads(r) /\ Noticed
  BY DEF IInv, RunInv
<1>2. TypeOK'
  <2>1. faults' \in 0..MaxFaults
    BY <1>1, ConstantsAssumption DEF TypeOK, StartApply, Goto, Report, Fault, Stop
  <2> QED
    BY <1>1, <2>1 DEF TypeOK, StartApply, Goto, Report, Fault, Stop, Step, Verdict, Outcome
<1>3. Grown
  BY <1>1 DEF StartApply, Goto, Report, Fault, Stop, Grown, TypeOK
<1>4. Course(r)'
  <2>1. /\ pc[r] = "apply" /\ verdict'[r] = verdict[r] /\ shown'[r] = shown[r]
        /\ upto'[r] = upto[r] /\ emitted'[r] = emitted[r]
    BY DEF StartApply
  <2>2. verdict[r] \in Verdict /\ verdict[r] # "none"
    BY <1>1, <2>1 DEF Course, TypeOK
  <2>3. \/ pc'[r] \in {"left", "done"} /\ outcome'[r] \in {"usage-error", "stale-lock"}
        \/ pc'[r] = "release" /\ outcome'[r] = outcome[r]
        \/ /\ pc'[r] \in {"write", "release"}
           /\ verdict[r] \notin {"skip", "failed"}
    BY <1>1, <2>1 DEF StartApply, Goto, Report, Fault, Stop, TypeOK
  <2> QED
    BY <1>1, <2>1, <2>2, <2>3 DEF Course, Excused, Docs, Verdict
<1>5. Reads(r)'
  BY <1>1, <1>2, <1>3, ReadsStay DEF StartApply, Goto, Report, Fault, Stop, TypeOK
<1>6. Noticed'
  BY <1>1 DEF StartApply, Goto, Report, Fault, Stop, Noticed, TypeOK
<1> QED
  BY <1>1, <1>2, <1>4, <1>5, <1>6, QuietStep DEF StartApply, Goto, Report, Fault, Stop, TypeOK, Course, Docs

LEMMA EmitDocumentKeeps ==
    ASSUME IInv, NEW r \in Run, EmitDocument(r)
    PROVE  IInv'
<1>1. TypeOK /\ Course(r) /\ Reads(r) /\ Noticed
  BY DEF IInv, RunInv
<1>2. TypeOK'
  <2>1. faults' \in 0..MaxFaults
    BY <1>1, ConstantsAssumption DEF TypeOK, EmitDocument, Goto, Report, Fault
  <2>2. pc' \in [Run -> Step] /\ outcome' \in [Run -> Outcome]
    BY <1>1 DEF TypeOK, EmitDocument, Goto, Report, Fault, Step, Outcome
  <2> QED
    BY <1>1, <2>1, <2>2 DEF TypeOK, EmitDocument, Goto, Report, Fault
<1>3. Grown
  BY <1>1 DEF EmitDocument, Goto, Report, Fault, Grown, TypeOK
<1>4. Course(r)'
  BY <1>1 DEF EmitDocument, Goto, Report, Fault, Course, Excused, Docs, TypeOK
<1>5. Reads(r)'
  BY <1>1, <1>2, <1>3, ReadsStay DEF EmitDocument, Goto, Report, Fault, TypeOK
<1>6. Noticed'
  BY <1>1 DEF EmitDocument, Goto, Report, Fault, Noticed, TypeOK
<1> QED
  BY <1>1, <1>2, <1>4, <1>5, <1>6, QuietStep DEF EmitDocument, Goto, Report, Fault, TypeOK, Course, Docs

LEMMA ReleaseKeeps ==
    ASSUME IInv, NEW r \in Run, Release(r)
    PROVE  IInv'
<1>1. TypeOK /\ Course(r) /\ Reads(r) /\ Noticed
  BY DEF IInv, RunInv
<1>2. TypeOK'
  <2>1. faults' \in 0..MaxFaults
    BY <1>1, ConstantsAssumption DEF TypeOK, Release, Goto, Fault
  <2> QED
    BY <1>1, <2>1 DEF TypeOK, Release, Goto, Fault, Step, Verdict, Outcome
<1>3. Grown
  BY <1>1 DEF Release, Goto, Fault, Grown, TypeOK
<1>4. Course(r)'
  BY <1>1 DEF Release, Goto, Fault, Course, Excused, Docs, TypeOK
<1>5. Reads(r)'
  BY <1>1, <1>2, <1>3, ReadsStay DEF Release, Goto, Fault, TypeOK
<1>6. Noticed'
  BY <1>1 DEF Release, Goto, Fault, Noticed, TypeOK
<1> QED
  BY <1>1, <1>2, <1>4, <1>5, <1>6, QuietStep DEF Release, Goto, Fault, TypeOK, Course, Docs

LEMMA DieKeeps ==
    ASSUME IInv, NEW r \in Run, Die(r)
    PROVE  IInv'
<1>1. TypeOK /\ Course(r) /\ Reads(r) /\ Noticed
  BY DEF IInv, RunInv
<1>2. TypeOK'
  <2>1. faults' \in 0..MaxFaults
    BY <1>1, ConstantsAssumption DEF TypeOK, Die, Goto, Report, Fault
  <2> QED
    BY <1>1, <2>1 DEF TypeOK, Die, Goto, Report, Fault, Step, Verdict, Outcome
<1>3. Grown
  BY <1>1 DEF Die, Goto, Report, Fault, Grown, TypeOK
<1>4. Course(r)'
  BY <1>1 DEF Die, Goto, Report, Fault, Course, Excused, Docs, TypeOK
<1>5. Reads(r)'
  BY <1>1, <1>2, <1>3, ReadsStay DEF Die, Goto, Report, Fault, TypeOK
<1>6. Noticed'
  BY <1>1 DEF Die, Goto, Report, Fault, Noticed, TypeOK
<1> QED
  BY <1>1, <1>2, <1>4, <1>5, <1>6, QuietStep DEF Die, Goto, Report, Fault, TypeOK, Course, Docs

LEMMA RerunKeeps ==
    ASSUME IInv, NEW r \in Run, Rerun(r)
    PROVE  IInv'
<1>1. TypeOK /\ Course(r) /\ Reads(r) /\ Noticed
  BY DEF IInv, RunInv
<1>2. TypeOK'
  BY <1>1, ConstantsAssumption DEF TypeOK, Rerun, Goto, Step, Verdict, Outcome
<1>3. Grown
  BY <1>1 DEF Rerun, Goto, Grown, TypeOK
<1>4. Course(r)'
  BY <1>1 DEF Rerun, Goto, Course, Excused, Docs, TypeOK
<1>5. Reads(r)'
  BY <1>1, <1>2, <1>3, ReadsStay DEF Rerun, Goto, TypeOK
<1>6. Noticed'
  BY <1>1 DEF Rerun, Goto, Noticed, TypeOK
<1> QED
  BY <1>1, <1>2, <1>4, <1>5, <1>6, QuietStep DEF Rerun, Goto, TypeOK, Course, Docs

LEMMA ReadThreadKeeps ==
    ASSUME IInv, NEW r \in Run, ReadThread(r)
    PROVE  IInv'
<1> USE DEF ReadThread, Goto, Report, Fault, Stop
<1>1. TypeOK /\ Course(r) /\ Reads(r) /\ Noticed
  BY DEF IInv, RunInv
<1>2. TypeOK'
  <2>1. faults' \in 0..MaxFaults
    BY <1>1, ConstantsAssumption DEF TypeOK
  <2>2. upto' \in [Run -> Nat] /\ wake' \in BOOLEAN
    BY <1>1 DEF TypeOK
  <2>3. pc' \in [Run -> Step] /\ outcome' \in [Run -> Outcome]
    BY <1>1 DEF TypeOK, Step, Outcome
  <2> QED
    BY <1>1, <2>1, <2>2, <2>3 DEF TypeOK
<1>3. upto[r] = 0 /\ shown[r] = {} /\ verdict[r] \in {"none", "failed"} /\ ~emitted[r]
  BY <1>1 DEF Course
<1>4. Course(r)'
  BY <1>1, <1>3 DEF Course, Excused, Docs, TypeOK
<1>5. Reads(r)'
  BY <1>1, <1>3 DEF Reads, TypeOK
<1>6. Noticed'
  <2>1. CASE wake'
    BY <2>1 DEF Noticed
  <2>2. CASE ~wake'
    <3>1. CASE wake
      BY <1>1, <2>2, <3>1 DEF Noticed, TypeOK
    <3>2. CASE ~wake
      BY <1>1, <1>3, <3>2 DEF Noticed, TypeOK
    <3> QED
      BY <3>1, <3>2
  <2> QED
    BY <2>1, <2>2
<1> QED
  BY <1>1, <1>2, <1>3, <1>4, <1>5, <1>6, QuietStep DEF TypeOK, Docs

LEMMA DecideKeeps ==
    ASSUME IInv, NEW r \in Run, Decide(r)
    PROVE  IInv'
<1> USE DEF Decide, Goto, Report, Fault, AfterVerdict
<1>1. TypeOK /\ Course(r) /\ Reads(r) /\ Noticed
  BY DEF IInv, RunInv
<1>2. TypeOK'
  <2>1. faults' \in 0..MaxFaults
    BY <1>1, ConstantsAssumption DEF TypeOK
  <2>2. ShownTo(r) \in SUBSET Nat
    BY <1>1 DEF ShownTo, TypeOK
  <2>3. pc' \in [Run -> Step]
    BY <1>1 DEF TypeOK, Step
  <2>4. outcome' \in [Run -> Outcome]
    BY <1>1 DEF TypeOK, Outcome
  <2>6. verdict' \in [Run -> Verdict]
    BY <1>1 DEF TypeOK, Verdict
  <2>5. shown' \in [Run -> SUBSET Nat]
    BY <1>1, <2>2 DEF TypeOK
  <2> QED
    BY <1>1, <2>1, <2>3, <2>4, <2>5, <2>6 DEF TypeOK
<1>3. ShownTo(r) = 1..upto[r]
  BY <1>1 DEF ShownTo, Reads, TypeOK
<1>4. verdict[r] \in {"none", "failed"} /\ ~emitted[r] /\ shown[r] \in {{}, 1..upto[r]}
  BY <1>1 DEF Course
<1>5. shown[r] \subseteq shown'[r]
  BY <1>1, <1>3, <1>4 DEF TypeOK
<1>6. Grown
  BY <1>1, <1>5 DEF Grown, TypeOK
<1>7. Course(r)'
  BY <1>1, <1>3, <1>4 DEF Course, Excused, Docs, TypeOK
<1>8. Reads(r)'
  <2>1. CASE verdict'[r] = "skip"
    <3>1. ~Proceeds(ReadBy(r))
      BY <1>1, <2>1 DEF TypeOK
    <3>2. \A i \in 1..upto[r] : thread[i].kind = "none" => Heard(i)'
      BY <1>1, <1>2, <1>6, <3>1, SkipsHeard, HeardStays
    <3> QED
      BY <1>1, <2>1, <3>2 DEF Reads
  <2>2. CASE verdict'[r] = "document"
    <3>1. Proceeds(ReadBy(r))
      BY <1>1, <1>4, <2>2 DEF TypeOK
    <3> QED
      BY <1>1, <2>2, <3>1, GoesOn DEF Reads, IsMarker
  <2>3. CASE verdict'[r] \notin {"skip", "document"}
    BY <1>1, <2>3 DEF Reads
  <2> QED
    BY <2>1, <2>2, <2>3
<1>9. Noticed'
  BY <1>1 DEF Noticed
<1> QED
  BY <1>1, <1>2, <1>4, <1>5, <1>7, <1>8, <1>9, QuietStep DEF TypeOK, Docs

LEMMA ClearLabelKeeps ==
    ASSUME IInv, ClearLabel
    PROVE  IInv'
<1>1. TypeOK'
  BY DEF IInv, ClearLabel, run, TypeOK
<1>2. \A r \in Run : Course(r)'
  BY DEF IInv, RunInv, ClearLabel, run, Course, Excused
<1>3. \A r \in Run : Reads(r)'
  BY DEF IInv, RunInv, ClearLabel, run, Reads, Heard
<1>4. Noticed' /\ \A m \in 1..Len(thread') : CommentInv(m)'
  BY DEF IInv, ClearLabel, run, CommentInv, Noticed
<1> QED
  BY <1>1, <1>2, <1>3, <1>4 DEF IInv, RunInv

\* A comment is added at the end of the thread.
LEMMA Appended ==
    ASSUME TypeOK, NEW c \in Comment, thread' = Append(thread, c)
    PROVE  /\ thread' \in Seq(Comment)
           /\ Len(thread) \in Nat /\ Len(thread') = Len(thread) + 1
           /\ \A i \in 1..Len(thread) : thread'[i] = thread[i]
           /\ thread'[Len(thread) + 1] = c
           /\ 1..Len(thread') = 1..Len(thread) \cup {Len(thread) + 1}
           /\ Len(thread) + 1 \notin 1..Len(thread)
  BY DEF TypeOK

LEMMA AddCommentKeeps ==
    ASSUME IInv, AddComment
    PROVE  IInv'
<1> DEFINE c == [by |-> Person, kind |-> "none", seen |-> {}]
<1>1. TypeOK /\ c \in Comment /\ thread' = Append(thread, c)
  BY DEF IInv, AddComment, Comment
<1> HIDE DEF c
<1>2. TypeOK'
  BY <1>1, Appended DEF AddComment, run, TypeOK
<1>3. Grown
  BY <1>1, Appended DEF AddComment, run, Grown
<1>4. \A u \in Run : RunInv(u)'
  BY <1>1, <1>2, <1>3, OtherRun DEF IInv, AddComment, run
<1>5. ASSUME NEW m \in 1..Len(thread')  PROVE CommentInv(m)'
  <2>1. CASE m \in 1..Len(thread)
    <3>1. CommentInv(m) /\ thread'[m] = thread[m]
      BY <1>1, <2>1, Appended DEF IInv
    <3>2. \A i \in 1..Len(thread) :
             (\E k \in 1..m : i \in thread[k].seen) => \E k \in 1..m : i \in thread'[k].seen
      BY <1>1, <2>1, Appended
    <3>3. \A q \in Run : Len(thread) + 1 \notin shown[q]
      <4> SUFFICES ASSUME NEW q \in Run  PROVE Len(thread) + 1 \notin shown[q]
        OBVIOUS
      <4>1. upto[q] \in Nat /\ Len(thread) \in Nat /\ upto[q] <= Len(thread)
        BY <1>1 DEF IInv, RunInv, Reads, TypeOK
      <4>2. shown[q] \in {{}, 1..upto[q]}
        BY DEF IInv, RunInv, Course
      <4> QED
        BY <4>1, <4>2
    <3>4. \A i \in 1..Len(thread) : thread'[i] = thread[i]
      BY <1>1, Appended
    <3>5. thread[m].seen \subseteq 1..Len(thread)
      BY <3>1 DEF CommentInv
    <3>6. 1..Len(thread') = 1..Len(thread) \cup {Len(thread) + 1}
          /\ Len(thread) + 1 \notin 1..Len(thread)
      BY <1>1, Appended
    <3>7. shown' = shown /\ verdict' = verdict
      BY DEF AddComment, run
    <3> QED
      BY <3>1, <3>2, <3>3, <3>4, <3>5, <3>6, <3>7 DEF CommentInv, IsMarker
  <2>2. CASE m = Len(thread) + 1
    BY <1>1, <2>2, Appended DEF CommentInv, IsMarker, c
  <2> QED
    BY <1>1, <2>1, <2>2, Appended
<1> QED
  BY <1>2, <1>4, <1>5 DEF IInv, Noticed, AddComment

\* A marker is posted by a run whose agent was shown all it read.
LEMMA PostStep ==
    ASSUME IInv, TypeOK', NEW r \in Run, NEW kind \in {"ask", "bounced", "created"},
           Post(r, kind), verdict[r] \in Docs, Course(r)',
           upto' = upto, verdict' = verdict, shown' = shown, emitted' = emitted,
           \A u \in Run \ {r} : pc'[u] = pc[u] /\ outcome'[u] = outcome[u]
    PROVE  IInv'
<1> DEFINE c == [by |-> r, kind |-> kind, seen |-> MarkerSeen(r)]
<1>1. /\ TypeOK /\ Course(r) /\ Reads(r)
      /\ upto[r] \in Nat /\ Len(thread) \in Nat /\ upto[r] <= Len(thread)
  <2>1. TypeOK /\ Course(r) /\ Reads(r)
    BY DEF IInv, RunInv
  <2>2. upto[r] \in Nat /\ Len(thread) \in Nat
    BY <2>1 DEF TypeOK
  <2>3. upto[r] <= Len(thread)
    BY <2>1 DEF Reads
  <2> QED
    BY <2>1, <2>2, <2>3
<1>2. c \in Comment /\ thread' = Append(thread, c)
  BY <1>1, MarkerSeenFacts DEF Comment, Post
<1>3. /\ IsMarker(c) /\ c.by = r /\ c.seen = MarkerSeen(r)
      /\ c.kind \in {"ask", "bounced", "created"}
  BY DEF IsMarker
<1> HIDE DEF c
<1>4. Grown
  BY <1>1, <1>2, Appended DEF Grown
<1>5. \A u \in Run : RunInv(u)'
  <2> SUFFICES ASSUME NEW u \in Run  PROVE RunInv(u)'
    OBVIOUS
  <2>1. CASE u = r
    BY <1>1, <1>4, <2>1, ReadsStay DEF RunInv
  <2>2. CASE u # r
    BY <1>1, <1>4, <2>2, OtherRun DEF IInv
  <2> QED
    BY <2>1, <2>2
<1>6. /\ 1..Len(thread') = 1..Len(thread) \cup {Len(thread) + 1}
      /\ Len(thread) + 1 \notin 1..Len(thread)
      /\ thread'[Len(thread) + 1] = c
      /\ \A i \in 1..Len(thread) : thread'[i] = thread[i]
  BY <1>1, <1>2, Appended
<1>7. ASSUME NEW m \in 1..Len(thread')  PROVE CommentInv(m)'
  <2>1. CASE m \in 1..Len(thread)
    <3>1. CommentInv(m) /\ thread'[m] = thread[m]
      BY <1>6, <2>1 DEF IInv
    <3>2. \A k \in 1..m : thread'[k] = thread[k]
      BY <1>1, <1>6, <2>1
    <3>3. thread[m].seen \subseteq 1..Len(thread)
      BY <3>1 DEF CommentInv
    <3> QED
      BY <1>3, <1>6, <3>1, <3>2, <3>3 DEF CommentInv, IsMarker
  <2>2. CASE m = Len(thread) + 1
    <3>1. shown[r] = 1..upto[r] /\ MarkerSeen(r) \subseteq 1..upto[r]
      BY <1>1, MarkerSeenFacts DEF Course
    <3>2. MarkerSeen(r) \subseteq 1..Len(thread')
      BY <1>1, <1>6, <3>1
    <3>3. ASSUME NEW i \in 1..upto[r], thread[i].kind = "none", i \notin MarkerSeen(r)
          PROVE  \E k \in 1..m : i \in thread'[k].seen
      <4>1. PICK k \in 1..upto[r] : i \in thread[k].seen
        BY <1>1, <3>3, MarkerSeenFacts
      <4>2. k \in 1..m /\ k \in 1..Len(thread)
        BY <1>1, <2>2
      <4> QED
        BY <1>6, <4>1, <4>2
    <3>4. m \in 1..m
      BY <1>1, <2>2
    <3>5. ASSUME NEW i \in 1..Len(thread'), thread'[i].kind = "none"
          PROVE  /\ i \in MarkerSeen(r) => i \in shown[r]
                 /\ i \in shown[r] => \E k \in 1..m : i \in thread'[k].seen
      <4>1. i \in MarkerSeen(r) => i \in shown[r]
        BY <3>1
      <4>2. i \in shown[r] => i \in 1..upto[r] /\ thread[i].kind = "none"
        BY <1>1, <1>6, <3>1, <3>5
      <4> QED
        BY <1>3, <1>6, <2>2, <3>3, <3>4, <4>1, <4>2
    <3>6. thread'[m] = c
      BY <1>6, <2>2
    <3> QED
      BY <1>3, <3>2, <3>5, <3>6 DEF CommentInv, IsMarker
  <2> QED
    BY <1>6, <2>1, <2>2
<1>8. Noticed'
  <2>1. wake' \in {wake, TRUE} /\ Noticed
    BY DEF IInv, Post
  <2>2. ASSUME NEW i \in 1..Len(thread'), thread'[i].kind = "none"
        PROVE  i \in 1..Len(thread) /\ thread[i].kind = "none"
    BY <1>3, <1>6, <2>2
  <2>3. ASSUME ~wake', NEW i \in 1..Len(thread'), thread'[i].kind = "none"
        PROVE  \E u \in Run : i <= upto'[u]
    <3>1. wake' = wake
      BY <2>1, <2>3
    <3>2. PICK u \in Run : i <= upto[u]
      BY <2>1, <2>2, <2>3, <3>1 DEF Noticed
    <3> QED
      BY <3>2
  <2> QED
    BY <2>3 DEF Noticed
<1> QED
  BY <1>5, <1>7, <1>8 DEF IInv

LEMMA AskKeeps ==
    ASSUME IInv, NEW r \in Run, Ask(r)
    PROVE  IInv'
<1>1. TypeOK /\ Course(r) /\ Reads(r) /\ Noticed
  BY DEF IInv, RunInv
<1>2. /\ verdict[r] \in Docs /\ upto' = upto /\ verdict' = verdict
      /\ shown' = shown /\ emitted' = emitted
      /\ \A u \in Run \ {r} : pc'[u] = pc[u] /\ outcome'[u] = outcome[u]
  BY <1>1 DEF Ask, Goto, Report, Course, Docs, TypeOK
<1>3. Course(r)'
  BY <1>1, <1>2 DEF Ask, Goto, Report, Course, Docs, TypeOK
<1>4. faults' \in 0..MaxFaults
  BY <1>1, ConstantsAssumption DEF Ask, Fault, TypeOK
<1>5. pc' \in [Run -> Step] /\ outcome' \in [Run -> Outcome]
  BY <1>1 DEF Ask, Goto, Report, Step, Outcome, TypeOK
<1>6. CASE Post(r, "ask")
  <2>1. /\ MarkerSeen(r) \in SUBSET Nat
        /\ [by |-> r, kind |-> "ask", seen |-> MarkerSeen(r)] \in Comment
    BY <1>1, MarkerSeenFacts DEF Reads, Comment
  <2>2. thread' \in Seq(Comment) /\ wake' \in BOOLEAN
    BY <1>1, <1>6, <2>1, Appended DEF Post, TypeOK
  <2>3. TypeOK'
    BY <1>1, <1>4, <1>5, <2>2 DEF Ask, TypeOK
  <2> QED
    BY <1>2, <1>3, <1>6, <2>3, PostStep
<1>7. CASE UNCHANGED <<thread, wake>>
  <2>1. TypeOK'
    BY <1>1, <1>4, <1>5, <1>7 DEF Ask, TypeOK
  <2>2. Reads(r)'
    BY <1>1, <1>2, <1>7 DEF Reads, Heard
  <2> QED
    BY <1>1, <1>2, <1>3, <1>7, <2>1, <2>2, QuietStep DEF Noticed
<1> QED
  BY <1>6, <1>7 DEF Ask

LEMMA BounceKeeps ==
    ASSUME IInv, NEW r \in Run, Bounce(r)
    PROVE  IInv'
<1>1. TypeOK /\ Course(r) /\ Reads(r) /\ Noticed
  BY DEF IInv, RunInv
<1>2. /\ verdict[r] \in Docs /\ upto' = upto /\ verdict' = verdict
      /\ shown' = shown /\ emitted' = emitted
      /\ \A u \in Run \ {r} : pc'[u] = pc[u] /\ outcome'[u] = outcome[u]
  BY <1>1 DEF Bounce, Goto, Report, Course, Docs, TypeOK
<1>3. Course(r)'
  BY <1>1, <1>2 DEF Bounce, Goto, Report, Course, Docs, TypeOK
<1>4. faults' \in 0..MaxFaults
  BY <1>1, ConstantsAssumption DEF Bounce, Fault, TypeOK
<1>5. pc' \in [Run -> Step] /\ outcome' \in [Run -> Outcome]
  BY <1>1 DEF Bounce, Goto, Report, Step, Outcome, TypeOK
<1>6. CASE Post(r, "bounced")
  <2>1. /\ MarkerSeen(r) \in SUBSET Nat
        /\ [by |-> r, kind |-> "bounced", seen |-> MarkerSeen(r)] \in Comment
    BY <1>1, MarkerSeenFacts DEF Reads, Comment
  <2>2. thread' \in Seq(Comment) /\ wake' \in BOOLEAN
    BY <1>1, <1>6, <2>1, Appended DEF Post, TypeOK
  <2>3. TypeOK'
    BY <1>1, <1>4, <1>5, <2>2 DEF Bounce, TypeOK
  <2> QED
    BY <1>2, <1>3, <1>6, <2>3, PostStep
<1>7. CASE UNCHANGED <<thread, wake>>
  <2>1. TypeOK'
    BY <1>1, <1>4, <1>5, <1>7 DEF Bounce, TypeOK
  <2>2. Reads(r)'
    BY <1>1, <1>2, <1>7 DEF Reads, Heard
  <2> QED
    BY <1>1, <1>2, <1>3, <1>7, <2>1, <2>2, QuietStep DEF Noticed
<1> QED
  BY <1>6, <1>7 DEF Bounce

LEMMA PostCreatedKeeps ==
    ASSUME IInv, NEW r \in Run, PostCreated(r)
    PROVE  IInv'
<1>1. TypeOK /\ Course(r) /\ Reads(r) /\ Noticed
  BY DEF IInv, RunInv
<1>2. /\ verdict[r] \in Docs /\ upto' = upto /\ verdict' = verdict
      /\ shown' = shown /\ emitted' = emitted
      /\ \A u \in Run \ {r} : pc'[u] = pc[u] /\ outcome'[u] = outcome[u]
  BY <1>1 DEF PostCreated, Goto, Report, Course, Docs, TypeOK
<1>3. Course(r)'
  BY <1>1, <1>2 DEF PostCreated, Goto, Report, Course, Docs, TypeOK
<1>4. faults' \in 0..MaxFaults
  BY <1>1, ConstantsAssumption DEF PostCreated, Fault, TypeOK
<1>5. pc' \in [Run -> Step] /\ outcome' \in [Run -> Outcome]
  BY <1>1 DEF PostCreated, Goto, Report, Step, Outcome, TypeOK
<1>6. CASE Post(r, "created")
  <2>1. /\ MarkerSeen(r) \in SUBSET Nat
        /\ [by |-> r, kind |-> "created", seen |-> MarkerSeen(r)] \in Comment
    BY <1>1, MarkerSeenFacts DEF Reads, Comment
  <2>2. thread' \in Seq(Comment) /\ wake' \in BOOLEAN
    BY <1>1, <1>6, <2>1, Appended DEF Post, TypeOK
  <2>3. TypeOK'
    BY <1>1, <1>4, <1>5, <2>2 DEF PostCreated, TypeOK
  <2> QED
    BY <1>2, <1>3, <1>6, <2>3, PostStep
<1>7. CASE UNCHANGED <<thread, wake>>
  <2>1. TypeOK'
    BY <1>1, <1>4, <1>5, <1>7 DEF PostCreated, TypeOK
  <2>2. Reads(r)'
    BY <1>1, <1>2, <1>7 DEF Reads, Heard
  <2> QED
    BY <1>1, <1>2, <1>3, <1>7, <2>1, <2>2, QuietStep DEF Noticed
<1> QED
  BY <1>6, <1>7 DEF PostCreated

-----------------------------------------------------------------------------
(* The theorems *)

LEMMA Inductive == IInv /\ [Next]_vars => IInv'
<1> SUFFICES ASSUME IInv, [Next]_vars  PROVE IInv'
  OBVIOUS
<1>1. CASE \E r \in Run : RunStep(r)
  BY <1>1, ReadThreadKeeps, ReadLabelsKeeps, AddLabelKeeps, DecideKeeps,
     StartApplyKeeps, AskKeeps, BounceKeeps, EmitDocumentKeeps,
     PostCreatedKeeps, ReleaseKeeps DEF RunStep
<1>2. CASE \E r \in Run : Die(r) \/ Rerun(r)
  BY <1>2, DieKeeps, RerunKeeps
<1>3. CASE AddComment \/ ClearLabel
  BY <1>3, AddCommentKeeps, ClearLabelKeeps
<1>4. CASE UNCHANGED vars
  BY <1>4 DEF vars, run, IInv, TypeOK, RunInv, Course, Excused, Reads, Heard,
              CommentInv, Noticed
<1> QED
  BY <1>1, <1>2, <1>3, <1>4 DEF Next

LEMMA Invariance == Spec => []IInv
  BY InitEstablishes, Inductive, PTL DEF Spec

\* Every variable stays in its set, for every set of runs and all bounds.
THEOREM TypeCorrect == Spec => []TypeOK
<1>1. IInv => TypeOK
  BY DEF IInv
<1> QED
  BY <1>1, Invariance, PTL

\* No marker claims a comment that the agent of its run was not shown.
THEOREM ClaimsWereShown == Spec => []SeenWasShown
<1>1. IInv => SeenWasShown
  <2> SUFFICES ASSUME IInv, NEW m \in DOMAIN thread, IsMarker(thread[m]),
                      NEW i \in thread[m].seen \cap Human(thread)
               PROVE  i \in shown[thread[m].by]
    BY DEF SeenWasShown
  <2>1. DOMAIN thread = 1..Len(thread)
    BY DEF IInv, TypeOK
  <2>2. CommentInv(m)
    BY <2>1 DEF IInv
  <2> QED
    BY <2>1, <2>2 DEF CommentInv, Human, IsMarker
<1> QED
  BY <1>1, Invariance, PTL

\* Every comment of an issue that was not transformed was shown to an agent, or
\* a trigger waits, or a run that read it is at work or ended on an excuse.
THEOREM CommentsAreHeard == Spec => []HeardOrExcused
<1>1. IInv => HeardOrExcused
  <2> SUFFICES ASSUME IInv, NEW i \in Human(thread),
                      ~HasTerminalMarker(thread), ~wake,
                      ~ \E q \in Run : i \in shown[q]
               PROVE  \E r \in Run : i <= upto[r] /\ (~Ended(r) \/ Excused(r))
    BY DEF HeardOrExcused
  <2>1. i \in 1..Len(thread) /\ thread[i].kind = "none" /\ Len(thread) \in Nat
    BY DEF IInv, TypeOK, Human, IsMarker
  <2>2. ~Heard(i)
    BY DEF Heard, HasTerminalMarker
  <2>3. PICK r \in Run : i <= upto[r]
    BY <2>1 DEF IInv, Noticed
  <2>4. Course(r) /\ Reads(r) /\ upto[r] \in Nat
    BY DEF IInv, RunInv, TypeOK
  <2>5. i \in 1..upto[r] /\ upto[r] # 0
    BY <2>1, <2>3, <2>4
  <2>6. verdict[r] \notin Docs \cup {"skip"}
    BY <2>1, <2>2, <2>4, <2>5 DEF Course, Reads
  <2>7. ~Ended(r) \/ Excused(r)
    BY <2>4, <2>5, <2>6 DEF Ended, Course
  <2> QED
    BY <2>3, <2>7
<1> QED
  BY <1>1, Invariance, PTL

\* A run that transforms an issue after it read a note that this was done before
\* also read a comment that was there before the last note, and that none of the
\* agents behind the notes it read was shown.
THEOREM SecondDocumentsComeFromRaces == Spec => []SecondDocumentNeedsRace
<1>1. IInv => SecondDocumentNeedsRace
  <2> SUFFICES ASSUME IInv, NEW r \in Run, emitted[r],
                      NEW n \in MarkersReadBy(r),
                      thread[n].kind \in {"bounced", "created"}
               PROVE  \E i \in Human(thread), last \in MarkersReadBy(r) :
                         /\ i < last
                         /\ \A m \in MarkersReadBy(r) : i \notin shown[thread[m].by]
    BY DEF SecondDocumentNeedsRace
  <2>1. /\ Course(r) /\ Reads(r) /\ upto[r] \in Nat /\ Len(thread) \in Nat
        /\ DOMAIN thread = 1..Len(thread)
    BY DEF IInv, RunInv, TypeOK
  <2>2. upto[r] <= Len(thread) /\ n \in 1..upto[r] /\ upto[r] > 0
    BY <2>1 DEF Reads, MarkersReadBy
  <2>3. verdict[r] = "document"
    BY <2>1 DEF Course
  <2>4. IsMarker(thread[upto[r]])
    BY <2>1, <2>2, <2>3 DEF Reads
  <2>5. PICK i \in 1..upto[r] : /\ thread[i].kind = "none"
                                /\ \A k \in 1..upto[r] : i \notin thread[k].seen
    BY <2>1, <2>2, <2>3, <2>4 DEF Reads
  <2>6. i \in Human(thread) /\ i \in 1..Len(thread)
    BY <2>1, <2>2, <2>5 DEF Human, IsMarker
  <2>7. upto[r] \in MarkersReadBy(r) /\ i # upto[r] /\ i < upto[r]
    BY <2>1, <2>2, <2>4, <2>5 DEF MarkersReadBy, IsMarker
  <2>8. ASSUME NEW m \in MarkersReadBy(r)  PROVE i \notin shown[thread[m].by]
    <3>1. m \in 1..upto[r] /\ m \in 1..Len(thread) /\ IsMarker(thread[m])
      BY <2>1, <2>2 DEF MarkersReadBy
    <3>2. CommentInv(m)
      BY <3>1 DEF IInv
    <3>3. \A k \in 1..m : k \in 1..upto[r]
      BY <2>1, <3>1
    <3> QED
      BY <2>5, <2>6, <3>1, <3>2, <3>3 DEF CommentInv
  <2> QED
    BY <2>6, <2>7, <2>8
<1> QED
  BY <1>1, Invariance, PTL

-----------------------------------------------------------------------------
(* The label: the core of LabelComesDown *)

\* The steps from a run's label to its release, and the state of a run that
\* could not remove it.
Owing == {"decide", "apply", "write", "comment", "release", "left"}

\* A label is a run's that has still to take it down, or that left it to the
\* operator.
LabelIsOwed == label => \E r \in Run : pc[r] \in Owing

\* How many steps a run may still take.
Depth(s) ==
    CASE s \in {"left", "done"} -> 0
      [] s = "release" -> 1
      [] s = "comment" -> 2
      [] s = "write" -> 3
      [] s = "apply" -> 4
      [] s = "decide" -> 5
      [] s = "lock" -> 6
      [] s = "labels" -> 7
      [] s = "idle" -> 8

RunsGoOn ==
    \A r \in Run :
        /\ RunStep(r) \/ Die(r) => Depth(pc'[r]) < Depth(pc[r])
        /\ reruns' = reruns => Depth(pc'[r]) <= Depth(pc[r])

LEMMA DepthType ==
    ASSUME NEW s \in Step
    PROVE  Depth(s) \in 0 .. 8
  BY DEF Depth, Step

LEMMA StepGoesOn ==
    ASSUME TypeOK, NEW r \in Run, RunStep(r) \/ Die(r)
    PROVE  Depth(pc'[r]) < Depth(pc[r])
<1> USE DEF TypeOK, Goto, Stop
<1>1. CASE ReadThread(r) \/ ReadLabels(r) \/ AddLabel(r)
  BY <1>1 DEF ReadThread, ReadLabels, AddLabel, Depth
<1>2. CASE Decide(r)
  BY <1>2 DEF Decide, AfterVerdict, Depth
<1>3. CASE StartApply(r)
  BY <1>3 DEF StartApply, Depth
<1>4. CASE Ask(r) \/ Bounce(r) \/ EmitDocument(r) \/ PostCreated(r) \/ Release(r)
  BY <1>4 DEF Ask, Bounce, EmitDocument, PostCreated, Release, Depth
<1>5. CASE Die(r)
  BY <1>5 DEF Die, Depth
<1> QED
  BY <1>1, <1>2, <1>3, <1>4, <1>5 DEF RunStep

\* What a step of others leaves of a run.
LEMMA RunWaits ==
    ASSUME TypeOK, [Next]_vars, NEW r \in Run
    PROVE  RunStep(r) \/ Die(r) \/ Rerun(r) \/ pc'[r] = pc[r]
<1>1. ASSUME NEW q \in Run, q # r, RunStep(q) \/ Die(q) \/ Rerun(q)
      PROVE  pc'[r] = pc[r]
  BY <1>1 DEF RunStep, ReadThread, ReadLabels, AddLabel, Decide, StartApply, Ask,
              Bounce, EmitDocument, PostCreated, Release, Die, Rerun, Goto, Stop, TypeOK
<1>2. CASE AddComment \/ ClearLabel \/ UNCHANGED vars
  BY <1>2 DEF AddComment, ClearLabel, vars, run
<1> QED
  BY <1>1, <1>2 DEF Next

\* A run lets go of a label only by taking it down; a label comes with an owner.
LEMMA OwnerKeeps ==
    ASSUME TypeOK, [Next]_vars, NEW r \in Run, pc[r] \in Owing, label'
    PROVE  pc'[r] \in Owing
<1> USE DEF TypeOK, Goto, Stop, Owing
<1>1. CASE ReadThread(r) \/ ReadLabels(r) \/ AddLabel(r)
  BY <1>1 DEF ReadThread, ReadLabels, AddLabel
<1>2. CASE Decide(r)
  BY <1>2 DEF Decide, AfterVerdict
<1>3. CASE StartApply(r)
  BY <1>3 DEF StartApply
<1>4. CASE Ask(r) \/ Bounce(r) \/ EmitDocument(r) \/ PostCreated(r) \/ Release(r)
  BY <1>4 DEF Ask, Bounce, EmitDocument, PostCreated, Release
<1>5. CASE Die(r) \/ Rerun(r)
  BY <1>5 DEF Die, Rerun
<1> QED
  BY <1>1, <1>2, <1>3, <1>4, <1>5, RunWaits DEF RunStep

LEMMA LabelComesOwned ==
    ASSUME TypeOK, [Next]_vars, label', ~label
    PROVE  \E r \in Run : pc'[r] \in Owing
<1>1. PICK r \in Run : AddLabel(r)
  BY DEF Next, RunStep, ReadThread, ReadLabels, AddLabel, Decide, StartApply, Ask,
         Bounce, EmitDocument, PostCreated, Release, Die, Rerun, AddComment, ClearLabel,
         vars
<1>2. pc'[r] = "decide"
  BY <1>1 DEF AddLabel, Goto, Stop, TypeOK
<1> QED
  BY <1>2 DEF Owing

\* A label that is up has a run that owes its removal: one between its label and
\* its release, or one that could not remove it and left it to the operator.  Each
\* step of such a run brings it nearer to its end, and only a re-run sets it back,
\* so that with runs that go on the label comes down (LabelComesDown).
THEOREM LabelsAreOwed == Spec => []LabelIsOwed /\ [][RunsGoOn]_vars
<1>1. Init => LabelIsOwed
  BY DEF Init, LabelIsOwed
<1>2. TypeOK /\ LabelIsOwed /\ [Next]_vars => LabelIsOwed'
  BY OwnerKeeps, LabelComesOwned DEF LabelIsOwed
<1>3. TypeOK /\ TypeOK' /\ [Next]_vars => RunsGoOn
  <2> SUFFICES ASSUME TypeOK, TypeOK', [Next]_vars, NEW r \in Run
               PROVE  /\ RunStep(r) \/ Die(r) => Depth(pc'[r]) < Depth(pc[r])
                      /\ reruns' = reruns => Depth(pc'[r]) <= Depth(pc[r])
    BY DEF RunsGoOn
  <2>0. Depth(pc[r]) \in 0 .. 8 /\ Depth(pc'[r]) \in 0 .. 8
    BY DepthType DEF TypeOK
  <2>1. CASE RunStep(r) \/ Die(r)
    BY <2>1, <2>0, StepGoesOn
  <2>2. ~(Rerun(r) /\ reruns' = reruns)
    BY DEF Rerun, TypeOK
  <2> QED
    BY <2>0, <2>1, <2>2, RunWaits
<1> QED
  BY <1>1, <1>2, <1>3, TypeCorrect, PTL DEF Spec
=============================================================================
