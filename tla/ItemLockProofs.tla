--------------------------- MODULE ItemLockProofs ---------------------------
(***************************************************************************)
(* Theorems about ItemLock for every set of runners and items and every     *)
(* value of the bounds.                                                     *)
(***************************************************************************)
EXTENDS ItemLock, TLAPS

AcquireSteps == {"creating", "takeOverReading", "retrying", "takingOver"}

\* What a verb carries fits the step it is in.
OpFits(r, o) ==
    /\ o.step # "idle" => o.item \in Item
    /\ o.step \in AcquireSteps =>
          /\ o.built \in Commit
          /\ o.built.entry = o.item
          /\ o.built.holder = HolderOf[r]
          /\ ~o.built.kept
    /\ o.step \in AcquireSteps \ {"creating"} => o.built.action = "advance"
    /\ o.step = "takingOver" => o.seen \in Commit /\ Takeable(o.seen)
    /\ o.step = "replacing" =>
          /\ o.seen \in Commit
          /\ ~o.seen.kept
          /\ o.built = Marked(o.seen)
    /\ o.step \in ClearSteps \cup {"deleting", "sweepReading", "resumeReading"} =>
          o.seen \in Commit

\* A hold is the unmarked lock of the runner's own item, under its own name,
\* and lasts exactly as long as the verb that acquired it.
HoldFits(r, o, h) ==
    /\ h # NoLock =>
          /\ h.entry = o.item
          /\ h.holder = HolderOf[r]
          /\ ~h.kept
          /\ o.step \in WorkSteps \cup {"releasing", "deleting"}
    /\ o.step \in WorkSteps => h # NoLock

Fits(r, o, h) == OpFits(r, o) /\ HoldFits(r, o, h)

Shape == TypeOK /\ \A r \in Runner : Fits(r, op[r], hold[r])

USE ConstantsAssumption, NoLockAssumption

\* Only the runner that moves can lose its shape.
LEMMA ShapeFrame ==
    ASSUME Shape, NEW r \in Runner, NEW o \in Op, NEW h \in Commit \cup {NoLock},
           op' = [op EXCEPT ![r] = o], hold' = [hold EXCEPT ![r] = h],
           lockRef' \in [Item -> Commit \cup {NoLock}],
           done' \subseteq Item, surfaced' \subseteq Item, openPR' \subseteq Item,
           clock' \in [Runner -> 0 .. MaxSince], faults' \in 0 .. MaxFaults,
           Fits(r, o, h)
    PROVE  Shape'
<1>1. TypeOK'
  BY DEF Shape, TypeOK
<1>2. ASSUME NEW q \in Runner PROVE Fits(q, op[q], hold[q])'
  <2>1. CASE q = r
    BY <2>1 DEF Shape, TypeOK, Fits, OpFits, HoldFits
  <2>2. CASE q # r
    BY <2>2 DEF Shape, TypeOK, Fits, OpFits, HoldFits
  <2> QED BY <2>1, <2>2
<1> QED BY <1>1, <1>2 DEF Shape

\* A fresh lock commit is a lock commit, as long as the clock can tick.
LEMMA StampType ==
    ASSUME TypeOK, NEW r \in Runner, NEW i \in Item, NEW a \in Action, Tick(r)
    PROVE  /\ Stamp(r, i, a) \in Commit
           /\ clock' \in [Runner -> 0 .. MaxSince]
BY DEF TypeOK, Tick, Stamp, Commit

LEMMA ShapeInit == Init => Shape
<1> SUFFICES ASSUME Init PROVE Shape
  OBVIOUS
<1>1. Idle \in Op
  BY DEF Idle, Op, Step
<1>2. TypeOK
  BY <1>1 DEF Init, TypeOK
<1>3. ASSUME NEW r \in Runner PROVE Fits(r, op[r], hold[r])
  BY DEF Init, Fits, OpFits, HoldFits, Idle, AcquireSteps, ClearSteps, WorkSteps
<1> QED BY <1>2, <1>3 DEF Shape

LEMMA ShapeStartAcquire ==
    ASSUME Shape, NEW r \in Runner, NEW i \in Item, NEW a \in Action,
           StartAcquire(r, i, a)
    PROVE  Shape'
<1> DEFINE o == [step |-> "creating", item |-> i, seen |-> NoLock,
                 built |-> Stamp(r, i, a)]
<1>1. Stamp(r, i, a) \in Commit /\ clock' \in [Runner -> 0 .. MaxSince]
  BY StampType DEF StartAcquire, Shape
<1>2. o \in Op
  BY <1>1 DEF Op, Step
<1>3. hold[r] = NoLock /\ hold' = [hold EXCEPT ![r] = hold[r]]
  BY DEF StartAcquire, Shape, TypeOK, Fits, HoldFits, Idle, WorkSteps
<1>4. Fits(r, o, hold[r])
  BY <1>1, <1>3 DEF Fits, OpFits, HoldFits, Stamp, AcquireSteps, ClearSteps,
         WorkSteps
<1>5. op' = [op EXCEPT ![r] = o]
  BY DEF StartAcquire
<1>6. /\ lockRef' = lockRef /\ done' = done /\ surfaced' = surfaced
      /\ openPR' = openPR /\ faults' = faults
  BY DEF StartAcquire, mainVars
<1> HIDE DEF o
<1> QED BY <1>1, <1>2, <1>3, <1>4, <1>5, <1>6, ShapeFrame DEF Shape, TypeOK

LEMMA PushType ==
    ASSUME TypeOK, NEW i \in Item, NEW old, NEW new \in Commit \cup {NoLock},
           PushOk(i, old, new) \/ PushFailed(i, old, new)
    PROVE  /\ lockRef' \in [Item -> Commit \cup {NoLock}]
           /\ faults' \in 0 .. MaxFaults
BY DEF TypeOK, PushOk, PushFailed, PushRejected, PushFaulted

\* The verb ends: nothing is carried, nothing is held.
LEMMA ShapeEnd ==
    ASSUME Shape, NEW r \in Runner, Rest(r),
           \/ hold' = [hold EXCEPT ![r] = NoLock]
           \/ hold' = hold /\ hold[r] = NoLock,
           lockRef' \in [Item -> Commit \cup {NoLock}], faults' \in 0 .. MaxFaults,
           UNCHANGED mainVars, clock' \in [Runner -> 0 .. MaxSince]
    PROVE  Shape'
<1>1. Idle \in Op
  BY DEF Idle, Op, Step
<1>2. op' = [op EXCEPT ![r] = Idle]
  BY DEF Rest
<1>3. hold' = [hold EXCEPT ![r] = NoLock]
  BY DEF Shape, TypeOK
<1>4. Fits(r, Idle, NoLock)
  BY DEF Fits, OpFits, HoldFits, Idle, AcquireSteps, ClearSteps, WorkSteps
<1>5. done' \subseteq Item /\ surfaced' \subseteq Item /\ openPR' \subseteq Item
  BY DEF Shape, TypeOK, mainVars
<1> QED BY <1>1, <1>2, <1>3, <1>4, <1>5, ShapeFrame

\* The verb moves to another step; what it carries and holds fits there.
LEMMA ShapeGo ==
    ASSUME Shape, NEW r \in Runner, op[r].step # "idle", NEW s \in Step,
           NEW c \in Commit \cup {NoLock}, NEW b \in Commit \cup {NoLock},
           Carry(r, s, c, b), UNCHANGED hold,
           done' \subseteq Item, surfaced' \subseteq Item, openPR' \subseteq Item,
           lockRef' \in [Item -> Commit \cup {NoLock}], faults' \in 0 .. MaxFaults,
           clock' \in [Runner -> 0 .. MaxSince],
           Fits(r, [step |-> s, item |-> op[r].item, seen |-> c, built |-> b], hold[r])
    PROVE  Shape'
<1> DEFINE o == [step |-> s, item |-> op[r].item, seen |-> c, built |-> b]
<1>1. op[r].item \in Item
  BY DEF Shape, Fits, OpFits
<1>2. o \in Op
  BY <1>1 DEF Op
<1>3. op' = [op EXCEPT ![r] = o]
  BY DEF Carry
<1>4. hold[r] \in Commit \cup {NoLock} /\ hold' = [hold EXCEPT ![r] = hold[r]]
  BY DEF Shape, TypeOK
<1>5. Fits(r, o, hold[r])
  OBVIOUS
<1> HIDE DEF o
<1> QED BY <1>2, <1>3, <1>4, <1>5, ShapeFrame

\* The push of a fresh lock succeeded: the verb now holds what it built.
LEMMA ShapeAcquired ==
    ASSUME Shape, NEW r \in Runner, Acquired(r), op[r].step \in AcquireSteps,
           lockRef' \in [Item -> Commit \cup {NoLock}], faults' \in 0 .. MaxFaults,
           UNCHANGED <<mainVars, clock>>
    PROVE  Shape'
<1> DEFINE o == [step |-> IF op[r].built.action = "implement"
                          THEN "confirming" ELSE "holding",
                 item |-> op[r].item, seen |-> NoLock, built |-> NoLock]
           h == op[r].built
<1>1. Fits(r, op[r], hold[r]) /\ op[r] \in Op
  BY DEF Shape, TypeOK
<1>2. h \in Commit /\ op[r].item \in Item
  BY <1>1 DEF Fits, OpFits, AcquireSteps
<1>3. o \in Op
  BY <1>2 DEF Op, Step
<1>4. Fits(r, o, h)
  BY <1>1, <1>2 DEF Fits, OpFits, HoldFits, AcquireSteps, ClearSteps, WorkSteps
<1>5. op' = [op EXCEPT ![r] = o] /\ hold' = [hold EXCEPT ![r] = h]
  BY DEF Acquired, Carry
<1>6. /\ done' \subseteq Item /\ surfaced' \subseteq Item /\ openPR' \subseteq Item
      /\ clock' \in [Runner -> 0 .. MaxSince]
  BY DEF Shape, TypeOK, mainVars
<1> HIDE DEF o, h
<1> QED BY <1>2, <1>3, <1>4, <1>5, <1>6, ShapeFrame

\* One lemma per step of a verb.
LEMMA ShapeCreateLock ==
    ASSUME Shape, NEW r \in Runner, CreateLock(r) PROVE Shape'
<1> DEFINE i == op[r].item  b == op[r].built
<1>1. op[r] \in Op /\ Fits(r, op[r], hold[r]) /\ op[r].step \in AcquireSteps
  BY DEF Shape, TypeOK, CreateLock, AcquireSteps
<1>2. i \in Item /\ b \in Commit /\ op[r].seen \in Commit \cup {NoLock}
  BY <1>1 DEF Fits, OpFits, AcquireSteps, Op
<1>3. hold[r] = NoLock /\ op[r].step # "idle"
  BY <1>1 DEF Fits, HoldFits, AcquireSteps, WorkSteps, Shape, TypeOK
<1>4. PushOk(i, NoLock, b) \/ PushFailed(i, NoLock, b)
  BY DEF CreateLock
<1>5. lockRef' \in [Item -> Commit \cup {NoLock}] /\ faults' \in 0 .. MaxFaults
  BY <1>2, <1>4, PushType DEF Shape
<1>6. UNCHANGED <<mainVars, clock>>
  BY DEF CreateLock
<1>7. /\ done' \subseteq Item /\ surfaced' \subseteq Item /\ openPR' \subseteq Item
      /\ clock' \in [Runner -> 0 .. MaxSince]
  BY <1>6 DEF Shape, TypeOK, mainVars
<1>8. CASE Acquired(r)
  BY <1>1, <1>5, <1>6, <1>8, ShapeAcquired
<1>9. CASE Rest(r) /\ UNCHANGED hold
  BY <1>3, <1>5, <1>6, <1>7, <1>9, ShapeEnd
<1>10. CASE b.action = "advance" /\ Go(r, "takeOverReading") /\ UNCHANGED hold
  <2>1. Fits(r, [step |-> "takeOverReading", item |-> i, seen |-> op[r].seen,
                 built |-> b], hold[r])
    BY <1>1, <1>2, <1>3, <1>10
       DEF Fits, OpFits, HoldFits, AcquireSteps, ClearSteps, WorkSteps
  <2> QED BY <1>2, <1>3, <1>5, <1>7, <1>10, <2>1, ShapeGo DEF Go, Step
<1> QED BY <1>8, <1>9, <1>10 DEF CreateLock

LEMMA ShapeTakeOverRead ==
    ASSUME Shape, NEW r \in Runner, TakeOverRead(r) PROVE Shape'
<1> DEFINE i == op[r].item  cur == lockRef[i]  mine == Stamp(r, i, "advance")
<1>1. op[r] \in Op /\ Fits(r, op[r], hold[r]) /\ op[r].step = "takeOverReading"
  BY DEF Shape, TypeOK, TakeOverRead, At
<1>2. i \in Item /\ hold[r] = NoLock /\ "advance" \in Action
  BY <1>1 DEF Fits, OpFits, HoldFits, AcquireSteps, WorkSteps, Shape, TypeOK, Commit
<1>3. cur \in Commit \cup {NoLock}
  BY <1>2 DEF Shape, TypeOK
<1>4. UNCHANGED <<lockRef, mainVars, hold, faults>>
  BY DEF TakeOverRead
<1>5. /\ lockRef' \in [Item -> Commit \cup {NoLock}] /\ faults' \in 0 .. MaxFaults
      /\ done' \subseteq Item /\ surfaced' \subseteq Item /\ openPR' \subseteq Item
  BY <1>4 DEF Shape, TypeOK, mainVars
<1>6. CASE cur = NoLock /\ Tick(r) /\ Carry(r, "retrying", NoLock, mine)
  <2>1. mine \in Commit /\ clock' \in [Runner -> 0 .. MaxSince]
    BY <1>2, <1>6, StampType DEF Shape
  <2>2. Fits(r, [step |-> "retrying", item |-> i, seen |-> NoLock,
                 built |-> mine], hold[r])
    BY <1>2, <2>1
       DEF Fits, OpFits, HoldFits, Stamp, AcquireSteps, ClearSteps, WorkSteps
  <2> QED BY <1>1, <1>4, <1>5, <1>6, <2>1, <2>2, ShapeGo DEF Step
<1>7. CASE Takeable(cur) /\ Tick(r) /\ Carry(r, "takingOver", cur, mine)
  <2>1. mine \in Commit /\ clock' \in [Runner -> 0 .. MaxSince]
    BY <1>2, <1>7, StampType DEF Shape
  <2>2. Fits(r, [step |-> "takingOver", item |-> i, seen |-> cur,
                 built |-> mine], hold[r])
    BY <1>2, <1>3, <1>7, <2>1
       DEF Fits, OpFits, HoldFits, Stamp, Takeable, AcquireSteps, ClearSteps,
              WorkSteps
  <2> QED BY <1>1, <1>3, <1>4, <1>5, <1>7, <2>1, <2>2, ShapeGo DEF Step
<1>8. CASE Rest(r) /\ UNCHANGED clock
  BY <1>2, <1>4, <1>5, <1>8, ShapeEnd DEF Shape, TypeOK
<1> QED BY <1>6, <1>7, <1>8 DEF TakeOverRead

LEMMA ShapeTakeOver ==
    ASSUME Shape, NEW r \in Runner, TakeOver(r) PROVE Shape'
<1> DEFINE i == op[r].item  b == op[r].built
<1>1. op[r] \in Op /\ Fits(r, op[r], hold[r]) /\ op[r].step \in AcquireSteps
  BY DEF Shape, TypeOK, TakeOver, At, AcquireSteps
<1>2. i \in Item /\ b \in Commit
  BY <1>1 DEF Fits, OpFits, AcquireSteps
<1>3. hold[r] = NoLock
  BY <1>1 DEF Fits, HoldFits, AcquireSteps, WorkSteps
<1>4. PushOk(i, op[r].seen, b) \/ PushFailed(i, op[r].seen, b)
  BY DEF TakeOver
<1>5. lockRef' \in [Item -> Commit \cup {NoLock}] /\ faults' \in 0 .. MaxFaults
  BY <1>2, <1>4, PushType DEF Shape
<1>6. UNCHANGED <<mainVars, clock>>
  BY DEF TakeOver
<1>7. clock' \in [Runner -> 0 .. MaxSince]
  BY <1>6 DEF Shape, TypeOK
<1>8. CASE Acquired(r)
  BY <1>1, <1>5, <1>6, <1>8, ShapeAcquired
<1>9. CASE Rest(r) /\ UNCHANGED hold
  BY <1>3, <1>5, <1>6, <1>7, <1>9, ShapeEnd
<1> QED BY <1>8, <1>9 DEF TakeOver

\* Confirm and the outcomes of the agent's work: a hold goes on, or lets go.
LEMMA ShapeWork ==
    ASSUME Shape, NEW r \in Runner, Confirm(r) \/ Outcome(r) PROVE Shape'
<1>1. op[r] \in Op /\ Fits(r, op[r], hold[r]) /\ op[r].step \in {"confirming", "holding"}
  BY DEF Shape, TypeOK, Confirm, Outcome, Land, OpenPR, Surface, ApplyAnswer,
         GiveUp,
         Built, At
<1>2. /\ op[r].item \in Item /\ op[r].step # "idle"
      /\ op[r].seen \in Commit \cup {NoLock} /\ op[r].built \in Commit \cup {NoLock}
  BY <1>1 DEF Fits, OpFits, Op
<1>3. PICK s \in {"releasing", "holding", "marking"} : Go(r, s)
  BY DEF Confirm, Outcome, Land, OpenPR, Surface, ApplyAnswer, GiveUp
<1>4. Fits(r, [step |-> s, item |-> op[r].item, seen |-> op[r].seen,
               built |-> op[r].built], hold[r])
  BY <1>1 DEF Fits, OpFits, HoldFits, AcquireSteps, ClearSteps, WorkSteps
<1>5. /\ done' \subseteq Item /\ surfaced' \subseteq Item /\ openPR' \subseteq Item
  BY <1>2 DEF Confirm, Outcome, Land, OpenPR, Surface, ApplyAnswer, GiveUp,
              Shape, TypeOK, mainVars
<1>6. UNCHANGED <<lockRef, hold, clock, faults>>
  BY DEF Confirm, Outcome, Land, OpenPR, Surface, ApplyAnswer, GiveUp
<1>7. s \in Step
  BY DEF Step
<1> QED BY <1>2, <1>3, <1>4, <1>5, <1>6, <1>7, ShapeGo DEF Go, Shape, TypeOK

LEMMA ShapeReads ==
    ASSUME Shape, NEW r \in Runner,
           \/ ReleaseRead(r) \/ MarkRead(r)
           \/ SweepReadMain(r) \/ ReapReadLock(r) \/ ResumeReadMain(r)
    PROVE  Shape'
<1> DEFINE i == op[r].item  cur == lockRef[i]
<1>1. /\ op[r] \in Op /\ Fits(r, op[r], hold[r])
      /\ op[r].step \in {"releasing", "marking", "sweepReading", "reapReading",
                         "resumeReading"}
  BY DEF Shape, TypeOK, At, ReleaseRead, MarkRead, SweepReadMain, ReapReadLock,
         ResumeReadMain
<1>2. /\ i \in Item /\ op[r].step # "idle"
      /\ op[r].seen \in Commit \cup {NoLock} /\ op[r].built \in Commit \cup {NoLock}
  BY <1>1 DEF Fits, OpFits, Op
<1>3. cur \in Commit \cup {NoLock} /\ (cur # NoLock => Marked(cur) \in Commit)
  BY <1>2 DEF Shape, TypeOK, Marked, Commit
<1>4. UNCHANGED <<lockRef, mainVars, clock, faults>>
  BY DEF ReleaseRead, MarkRead, SweepReadMain, ReapReadLock, ResumeReadMain
<1>5. /\ done' \subseteq Item /\ surfaced' \subseteq Item /\ openPR' \subseteq Item
      /\ lockRef' \in [Item -> Commit \cup {NoLock}] /\ faults' \in 0 .. MaxFaults
      /\ clock' \in [Runner -> 0 .. MaxSince]
  BY <1>4 DEF Shape, TypeOK, mainVars
<1>6. CASE End(r)
  BY <1>4, <1>5, <1>6, ShapeEnd DEF End
<1>7. CASE /\ op[r].step \in {"sweepReading", "reapReading", "resumeReading"}
           /\ Rest(r) /\ UNCHANGED hold
  <2>1. hold[r] = NoLock
    BY <1>1, <1>7 DEF Fits, HoldFits, WorkSteps
  <2> QED BY <1>4, <1>5, <1>7, <2>1, ShapeEnd
<1>8. CASE /\ cur # NoLock /\ UNCHANGED hold
           /\ \/ At(r, "releasing") /\ Carry(r, "deleting", cur, NoLock)
              \/ At(r, "reapReading") /\ Carry(r, "reapClearing", cur, NoLock)
  <2>1. PICK s \in {"deleting", "reapClearing"} :
            /\ Carry(r, s, cur, NoLock)
            /\ s = "reapClearing" => At(r, "reapReading")
    BY <1>8
  <2>2. s \in Step /\ cur \in Commit
    BY <1>3, <1>8 DEF Step
  <2>3. Fits(r, [step |-> s, item |-> i, seen |-> cur, built |-> NoLock], hold[r])
    BY <1>1, <1>2, <2>1, <2>2
       DEF Fits, OpFits, HoldFits, At, AcquireSteps, ClearSteps, WorkSteps
  <2> QED BY <1>2, <1>3, <1>4, <1>5, <1>8, <2>1, <2>2, <2>3, ShapeGo
<1>9. CASE /\ At(r, "marking") /\ cur # NoLock /\ ~Kept(cur) /\ UNCHANGED hold
           /\ Carry(r, "replacing", cur, Marked(cur))
  <2>1. Fits(r, [step |-> "replacing", item |-> i, seen |-> cur,
                 built |-> Marked(cur)], hold[r])
    BY <1>1, <1>2, <1>3, <1>9
       DEF Fits, OpFits, HoldFits, At, Kept, AcquireSteps, ClearSteps, WorkSteps
  <2> QED BY <1>2, <1>3, <1>4, <1>5, <1>9, <2>1, ShapeGo DEF Step
<1>10. CASE /\ UNCHANGED hold
            /\ \/ At(r, "sweepReading") /\ Go(r, "sweepClearing")
               \/ At(r, "resumeReading") /\ Go(r, "resumeClearing")
  <2>1. PICK s \in {"sweepClearing", "resumeClearing"} : Go(r, s)
    BY <1>10
  <2>2. CASE op[r].seen \in Commit
    <3>0. hold[r] = NoLock
      BY <1>1, <1>10 DEF Fits, HoldFits, At, WorkSteps
    <3>1. Fits(r, [step |-> s, item |-> i, seen |-> op[r].seen,
                   built |-> op[r].built], hold[r])
      BY <1>2, <2>1, <2>2, <3>0
         DEF Fits, OpFits, HoldFits, AcquireSteps, ClearSteps, WorkSteps
    <3>2. op[r].built \in Commit \cup {NoLock}
      BY <1>2 DEF TypeOK, Op
    <3>3. Carry(r, s, op[r].seen, op[r].built) /\ s \in Step
      BY <2>1 DEF Go, Step
    <3> QED BY <1>2, <1>4, <1>5, <1>10, <2>2, <3>1, <3>2, <3>3, ShapeGo
  <2> QED BY <1>1, <1>10, <2>2 DEF Fits, OpFits, At
<1>11. CASE ReleaseRead(r) BY <1>6, <1>8, <1>11 DEF ReleaseRead
<1>12. CASE MarkRead(r) BY <1>6, <1>9, <1>12 DEF MarkRead
<1>13. CASE SweepReadMain(r) BY <1>7, <1>10, <1>13 DEF SweepReadMain, At
<1>14. CASE ReapReadLock(r) BY <1>7, <1>8, <1>14 DEF ReapReadLock, At
<1>15. CASE ResumeReadMain(r) BY <1>7, <1>10, <1>15 DEF ResumeReadMain, At
<1> QED BY <1>11, <1>12, <1>13, <1>14, <1>15

LEMMA ShapePushes ==
    ASSUME Shape, NEW r \in Runner, DeleteLock(r) \/ ReplaceKept(r) \/ ClearLock(r)
    PROVE  Shape'
<1> DEFINE i == op[r].item
<1>1. /\ op[r] \in Op /\ Fits(r, op[r], hold[r])
      /\ op[r].step \in {"deleting", "replacing"} \cup ClearSteps
  BY DEF Shape, TypeOK, At, DeleteLock, ReplaceKept, ClearLock
<1>2. i \in Item /\ op[r].built \in Commit \cup {NoLock}
  BY <1>1 DEF Fits, OpFits, Op, ClearSteps
<1>3. \E new \in Commit \cup {NoLock} :
          PushOk(i, op[r].seen, new) \/ PushFailed(i, op[r].seen, new)
  BY <1>2 DEF DeleteLock, ReplaceKept, ClearLock
<1>4. lockRef' \in [Item -> Commit \cup {NoLock}] /\ faults' \in 0 .. MaxFaults
  BY <1>2, <1>3, PushType DEF Shape
<1>5. Rest(r) /\ UNCHANGED <<mainVars, clock>>
  BY DEF DeleteLock, ReplaceKept, ClearLock, End
<1>6. clock' \in [Runner -> 0 .. MaxSince]
  BY <1>5 DEF Shape, TypeOK
<1>7. \/ hold' = [hold EXCEPT ![r] = NoLock]
      \/ hold' = hold /\ hold[r] = NoLock
  BY <1>1 DEF DeleteLock, ReplaceKept, ClearLock, End, ClearSteps,
              Fits, HoldFits, WorkSteps
<1> QED BY <1>4, <1>5, <1>6, <1>7, ShapeEnd

\* An idle runner that starts a verb other than an acquisition.
LEMMA ShapeStart ==
    ASSUME Shape, NEW r \in Runner, NEW i \in Item,
           \/ StartOperatorRelease(r, i)
           \/ SweepRead(r, i) \/ ReapReadMain(r, i) \/ ResumeRead(r, i)
    PROVE  Shape'
<1>1. lockRef[i] \in Commit \cup {NoLock}
  BY DEF Shape, TypeOK
<1>2. PICK s \in {"releasing", "sweepReading", "reapReading", "resumeReading"},
           c \in {NoLock, lockRef[i]} :
        /\ op' = [op EXCEPT ![r] = [step |-> s, item |-> i, seen |-> c,
                                    built |-> NoLock]]
        /\ s \in {"sweepReading", "resumeReading"} => c \in Commit
  BY <1>1 DEF StartOperatorRelease, SweepRead, ReapReadMain, ResumeRead, StartClear
<1> DEFINE o == [step |-> s, item |-> i, seen |-> c, built |-> NoLock]
<1>3. /\ op[r] = Idle /\ UNCHANGED <<lockRef, mainVars, hold, clock, faults>>
  BY DEF StartOperatorRelease, SweepRead, ReapReadMain, ResumeRead, StartClear
<1>4. hold[r] = NoLock
  BY <1>3 DEF Shape, Fits, HoldFits, Idle, WorkSteps
<1>5. o \in Op
  BY <1>1 DEF Op, Step
<1>6. Fits(r, o, NoLock)
  BY <1>2 DEF Fits, OpFits, HoldFits, AcquireSteps, ClearSteps, WorkSteps
<1>7. op' = [op EXCEPT ![r] = o]
  BY <1>2
<1>8. /\ hold' = [hold EXCEPT ![r] = NoLock]
      /\ lockRef' \in [Item -> Commit \cup {NoLock}] /\ faults' \in 0 .. MaxFaults
      /\ done' \subseteq Item /\ surfaced' \subseteq Item /\ openPR' \subseteq Item
      /\ clock' \in [Runner -> 0 .. MaxSince]
  BY <1>3, <1>4 DEF Shape, TypeOK, mainVars
<1> HIDE DEF o
<1> QED BY <1>5, <1>6, <1>7, <1>8, ShapeFrame

LEMMA ShapeCrash ==
    ASSUME Shape, NEW r \in Runner, Crash(r) PROVE Shape'
<1>1. /\ UNCHANGED <<lockRef, mainVars, clock>>
      /\ Rest(r) /\ hold' = [hold EXCEPT ![r] = NoLock]
      /\ faults' \in 0 .. MaxFaults
  BY DEF Crash, End, Shape, TypeOK
<1> QED BY <1>1, ShapeEnd DEF Shape, TypeOK

LEMMA ShapeMergePR ==
    ASSUME Shape, NEW i \in Item, MergePR(i) PROVE Shape'
BY DEF MergePR, Shape, TypeOK, Fits, OpFits, HoldFits

LEMMA ShapeStep ==
    ASSUME Shape, [Next]_vars PROVE Shape'
<1>1. CASE UNCHANGED vars
  BY <1>1 DEF vars, Shape, TypeOK, Fits, OpFits, HoldFits
<1>2. ASSUME NEW r \in Runner, VerbStep(r) PROVE Shape'
  BY <1>2, ShapeCreateLock, ShapeTakeOverRead, ShapeTakeOver, ShapeWork, ShapeReads,
     ShapePushes DEF VerbStep
<1>3. ASSUME NEW r \in Runner, NEW i \in Item, Start(r, i) PROVE Shape'
  BY <1>3, ShapeStartAcquire, ShapeStart DEF Start
<1> QED BY <1>1, <1>2, <1>3, ShapeWork, ShapeCrash, ShapeMergePR DEF Next

LEMMA ShapeAlways == Spec => []Shape
BY ShapeInit, ShapeStep, PTL DEF Spec

\* Every variable stays in its set (TypeOK), in every instance.
THEOREM TypeCorrect == Spec => []TypeOK
<1>1. Shape => TypeOK
  BY DEF Shape
<1> QED BY <1>1, ShapeAlways, PTL

-----------------------------------------------------------------------------
(***************************************************************************)
(* Mutual exclusion, for runners that sign their locks with different names *)
(* and as long as no operator overrides a lock.                             *)
(***************************************************************************)
DistinctHolders == \A q, r \in Runner : HolderOf[q] = HolderOf[r] => q = r

\* Of an unfinished item, the ref is the holder's commit, and whoever is about
\* to delete or mark it is that holder; a sweep is about to clear the lock of a
\* terminal item.
Sound(r) ==
    /\ hold[r] # NoLock /\ op[r].item \notin done => lockRef[op[r].item] = hold[r]
    /\ op[r].step \in {"deleting", "replacing"} /\ op[r].item \notin done =>
          op[r].seen = hold[r]
    /\ op[r].step \in {"releasing", "deleting"} => hold[r] # NoLock
    /\ op[r].step = "sweepClearing" => op[r].item \in done
    /\ op[r].step \notin {"reapReading", "reapClearing", "resumeReading", "resumeClearing"}

Exclusive == Shape /\ \A r \in Runner : Sound(r)

\* The others keep what they carry and hold, and the ref of what they hold.
OthersKeep(r) ==
    \A q \in Runner \ {r} :
        /\ op'[q] = op[q] /\ hold'[q] = hold[q]
        /\ hold[q] # NoLock /\ op[q].item \notin done =>
              lockRef'[op[q].item] = lockRef[op[q].item]

LEMMA SoundFrame ==
    ASSUME Exclusive, Shape', NEW r \in Runner, OthersKeep(r), done \subseteq done',
           Sound(r)'
    PROVE  Exclusive'
BY DEF Exclusive, Sound, OthersKeep

\* A step that leaves the refs alone and moves one runner.
LEMMA QuietStep ==
    ASSUME Shape, NEW r \in Runner, UNCHANGED lockRef,
           \/ \E s, c, b : Carry(r, s, c, b)
           \/ Rest(r),
           UNCHANGED hold \/ hold' = [hold EXCEPT ![r] = NoLock]
    PROVE  OthersKeep(r)
BY DEF Shape, TypeOK, OthersKeep, Carry, Rest

\* The pushes of one runner never touch the ref another one works under.
LEMMA PushSparesOthers ==
    ASSUME Exclusive, DistinctHolders, NEW r \in Runner,
           \/ CreateLock(r) \/ TakeOver(r) \/ DeleteLock(r)
           \/ ReplaceKept(r) \/ ClearLock(r)
    PROVE  OthersKeep(r)
<1> DEFINE i == op[r].item
<1>1. /\ Shape /\ TypeOK /\ Sound(r) /\ op[r] \in Op /\ Fits(r, op[r], hold[r])
      /\ op[r].step # "idle"
  BY DEF Exclusive, Shape, TypeOK, CreateLock, TakeOver, DeleteLock, ReplaceKept,
         ClearLock, ClearSteps, At
<1>2. i \in Item
  BY <1>1 DEF Fits, OpFits
<1>3. ASSUME NEW q \in Runner \ {r} PROVE op'[q] = op[q] /\ hold'[q] = hold[q]
  BY <1>1 DEF CreateLock, TakeOver, DeleteLock, ReplaceKept, ClearLock, Acquired,
              Carry, Go, End, Rest, TypeOK
<1>4. ASSUME NEW q \in Runner \ {r}, hold[q] # NoLock, op[q].item \notin done
      PROVE  lockRef'[op[q].item] = lockRef[op[q].item]
  <2>1. lockRef[op[q].item] = hold[q] /\ Fits(q, op[q], hold[q])
    BY <1>4 DEF Exclusive, Shape, Sound
  <2>2. hold[q].holder = HolderOf[q] /\ ~hold[q].kept /\ op[q].item \in Item
    BY <1>4, <2>1 DEF Fits, OpFits, HoldFits, WorkSteps
  <2>3. PICK old, new :
            /\ lockRef' = lockRef \/ lockRef' = [lockRef EXCEPT ![i] = new]
            /\ lockRef' # lockRef => lockRef[i] = old
            /\ \/ CreateLock(r) /\ old = NoLock
               \/ TakeOver(r) /\ old = op[r].seen
               \/ (DeleteLock(r) \/ ReplaceKept(r)) /\ old = op[r].seen
               \/ ClearLock(r)
    <3>1. ASSUME NEW old, NEW new, PushOk(i, old, new) \/ PushFailed(i, old, new)
          PROVE  /\ lockRef' = lockRef \/ lockRef' = [lockRef EXCEPT ![i] = new]
                 /\ lockRef' # lockRef => lockRef[i] = old
      BY <3>1, <1>1, <1>2 DEF PushOk, PushFailed, PushRejected, PushFaulted,
             Accepts, TypeOK
    <3>2. CASE CreateLock(r)
      BY <3>1, <3>2 DEF CreateLock
    <3>3. CASE TakeOver(r)
      BY <3>1, <3>3 DEF TakeOver
    <3>4. CASE DeleteLock(r) \/ ReplaceKept(r)
      BY <3>1, <3>4 DEF DeleteLock, ReplaceKept
    <3>5. CASE ClearLock(r)
      BY <3>1, <3>5 DEF ClearLock
    <3> QED BY <3>2, <3>3, <3>4, <3>5
  <2>4. CASE op[q].item # i \/ lockRef' = lockRef
    BY <2>2, <2>3, <2>4, <1>1, <1>2 DEF TypeOK
  <2>5. CASE op[q].item = i /\ lockRef[i] = old
    <3>1. CASE CreateLock(r) /\ old = NoLock
      BY <3>1, <2>1, <2>5, <1>4
    <3>2. CASE TakeOver(r) /\ old = op[r].seen
      BY <3>2, <2>1, <2>2, <2>5, <1>1 DEF TakeOver, At, Fits, OpFits, Takeable
    <3>3. CASE (DeleteLock(r) \/ ReplaceKept(r)) /\ old = op[r].seen
      <4>1. hold[q] = hold[r] /\ hold[r] # NoLock
        BY <3>3, <2>1, <2>5, <1>1, <1>4 DEF DeleteLock, ReplaceKept, At, Sound
      <4> QED BY <4>1, <2>2, <1>1 DEF Fits, HoldFits, DistinctHolders
    <3>4. CASE ClearLock(r)
      BY <3>4, <2>5, <1>1, <1>4 DEF ClearLock, ClearSteps, Sound
    <3> QED BY <2>3, <3>1, <3>2, <3>3, <3>4
  <2> QED BY <2>3, <2>4, <2>5
<1> QED BY <1>3, <1>4 DEF OthersKeep

LEMMA ExclusiveInit == Init => Exclusive
BY ShapeInit DEF Init, Exclusive, Sound, Idle

LEMMA ExclusiveVerbStep ==
    ASSUME Exclusive, Shape', DistinctHolders, ~Operators,
           NEW r \in Runner, VerbStep(r)
    PROVE  Exclusive'
<1>1. /\ Shape /\ TypeOK /\ Sound(r) /\ op[r] \in Op /\ Fits(r, op[r], hold[r])
      /\ UNCHANGED mainVars /\ op[r].step # "idle"
  BY DEF Exclusive, Shape, TypeOK, VerbStep, CreateLock, TakeOverRead, TakeOver,
         Confirm,
         ReleaseRead, DeleteLock, MarkRead, ReplaceKept, SweepReadMain, ReapReadLock,
         ResumeReadMain, ClearLock, ClearSteps, At, Idle
<1>2. op[r].item \in Item
  BY <1>1 DEF Fits, OpFits
<1>3. done' = done
  BY <1>1 DEF mainVars
<1>4. CASE CreateLock(r) \/ TakeOver(r)
  <2>1. OthersKeep(r)
    BY <1>4, PushSparesOthers
  <2>2. hold[r] = NoLock
    BY <1>1, <1>4 DEF CreateLock, TakeOver, At, Fits, HoldFits, WorkSteps
  <2>3. ASSUME Acquired(r), lockRef' = [lockRef EXCEPT ![op[r].item] = op[r].built]
        PROVE  Sound(r)'
    <3>1. hold'[r] = op[r].built /\ lockRef'[op[r].item] = op[r].built
      BY <2>3, <1>1, <1>2 DEF Acquired, TypeOK
    <3>2. op'[r].item = op[r].item /\ op'[r].step \in {"confirming", "holding"}
      BY <2>3, <1>1 DEF Acquired, Carry, TypeOK
    <3> QED BY <3>1, <3>2 DEF Sound
  <2>4. ASSUME UNCHANGED hold, Rest(r) \/ Go(r, "takeOverReading")
        PROVE  Sound(r)'
    BY <2>2, <2>4, <1>1 DEF Rest, Go, Carry, Idle, Sound, TypeOK
  <2>5. Sound(r)'
    BY <1>4, <2>3, <2>4 DEF CreateLock, TakeOver, PushOk
  <2> QED BY <2>1, <2>5, <1>3, SoundFrame
<1>5. CASE DeleteLock(r) \/ ReplaceKept(r)
  <2>1. OthersKeep(r)
    BY <1>5, PushSparesOthers
  <2>2. Sound(r)'
    BY <1>1, <1>5 DEF DeleteLock, ReplaceKept, End, Rest, Idle, Sound, TypeOK
  <2> QED BY <2>1, <2>2, <1>3, SoundFrame
<1>6. CASE ClearLock(r)
  <2>1. OthersKeep(r)
    BY <1>6, PushSparesOthers
  <2>2. hold[r] = NoLock
    BY <1>1, <1>6 DEF ClearLock, ClearSteps, Fits, HoldFits, WorkSteps
  <2>3. Sound(r)'
    BY <1>1, <1>6, <2>2 DEF ClearLock, Rest, Idle, Sound, TypeOK
  <2> QED BY <2>1, <2>3, <1>3, SoundFrame
<1>7. CASE TakeOverRead(r)
  <2>1. OthersKeep(r)
    BY <1>1, <1>7, QuietStep DEF TakeOverRead
  <2>2. hold[r] = NoLock
    BY <1>1, <1>7 DEF TakeOverRead, At, Fits, HoldFits, WorkSteps
  <2>3. Sound(r)'
    BY <1>1, <1>7, <2>2 DEF TakeOverRead, Carry, Rest, Idle, Sound, TypeOK
  <2> QED BY <2>1, <2>3, <1>3, SoundFrame
<1>8. CASE Confirm(r)
  <2>1. OthersKeep(r)
    BY <1>1, <1>8, QuietStep DEF Confirm, Go
  <2>2. hold[r] # NoLock
    BY <1>1, <1>8 DEF Confirm, At, Fits, HoldFits, WorkSteps
  <2>3. Sound(r)'
    BY <1>1, <1>3, <1>8, <2>2 DEF Confirm, Go, Carry, Sound, TypeOK
  <2> QED BY <2>1, <2>3, <1>3, SoundFrame
<1>9. CASE ReleaseRead(r) \/ MarkRead(r)
  <2>1. OthersKeep(r)
    BY <1>1, <1>9, QuietStep DEF ReleaseRead, MarkRead, End
  <2>2. hold[r] # NoLock
    BY <1>1, <1>9 DEF ReleaseRead, MarkRead, At, Fits, HoldFits, Sound, WorkSteps
  <2>3. Sound(r)'
    BY <1>1, <1>3, <1>9, <2>2 DEF ReleaseRead, MarkRead, End, Rest, Idle, Carry,
           Sound, TypeOK
  <2> QED BY <2>1, <2>3, <1>3, SoundFrame
<1>10. CASE SweepReadMain(r)
  <2>1. OthersKeep(r)
    BY <1>1, <1>10, QuietStep DEF SweepReadMain, Go
  <2>2. Sound(r)'
    BY <1>1, <1>3, <1>10 DEF SweepReadMain, At, Rest, Idle, Go, Carry, Sound,
           TypeOK,
                             Fits, HoldFits, WorkSteps
  <2> QED BY <2>1, <2>2, <1>3, SoundFrame
<1>11. ~ReapReadLock(r) /\ ~ResumeReadMain(r)
  BY <1>1 DEF ReapReadLock, ResumeReadMain, At, Sound
<1> QED BY <1>4, <1>5, <1>6, <1>7, <1>8, <1>9, <1>10, <1>11 DEF VerbStep

LEMMA ExclusiveOutcome ==
    ASSUME Exclusive, Shape', NEW r \in Runner, Outcome(r) PROVE Exclusive'
<1>1. /\ Shape /\ TypeOK /\ Sound(r) /\ Fits(r, op[r], hold[r]) /\ op[r].step = "holding"
  BY DEF Exclusive, Shape, Outcome, Land, OpenPR, Surface, ApplyAnswer, GiveUp,
         Built, At
<1>2. PICK s \in {"releasing", "marking"} : Go(r, s)
  BY DEF Outcome, Land, OpenPR, Surface, ApplyAnswer, GiveUp
<1>3. UNCHANGED <<lockRef, hold>> /\ done \subseteq done'
  BY DEF Outcome, Land, OpenPR, Surface, ApplyAnswer, GiveUp, mainVars
<1>4. OthersKeep(r)
  BY <1>1, <1>2, <1>3, QuietStep DEF Go
<1>5. hold[r] # NoLock
  BY <1>1 DEF Fits, HoldFits, WorkSteps
<1>6. Sound(r)'
  BY <1>1, <1>2, <1>3, <1>5 DEF Go, Carry, Sound, TypeOK
<1> QED BY <1>3, <1>4, <1>6, SoundFrame

LEMMA ExclusiveStart ==
    ASSUME Exclusive, Shape', ~Operators, NEW r \in Runner, NEW i \in Item, Start(r, i)
    PROVE  Exclusive'
<1>1. /\ Shape /\ TypeOK /\ Sound(r) /\ Fits(r, op[r], hold[r]) /\ op[r] = Idle
      /\ UNCHANGED <<lockRef, hold, mainVars>>
  BY DEF Exclusive, Shape, Start, StartAcquire, StartOperatorRelease, SweepRead,
         ReapReadMain, ResumeRead, StartClear
<1>2. PICK s \in {"creating", "sweepReading"} : \E c, b :
        op' = [op EXCEPT ![r] = [step |-> s, item |-> i, seen |-> c, built |-> b]]
  BY DEF Start, StartAcquire, StartOperatorRelease, SweepRead, ReapReadMain,
         ResumeRead,
         StartClear
<1>3. PICK c, b :
        op' = [op EXCEPT ![r] = [step |-> s, item |-> i, seen |-> c, built |-> b]]
  BY <1>2
<1> DEFINE o == [step |-> s, item |-> i, seen |-> c, built |-> b]
<1>4. op' = [op EXCEPT ![r] = o] /\ o.step \in {"creating", "sweepReading"}
  BY <1>3
<1> HIDE DEF o
<1>5. OthersKeep(r)
  BY <1>1, <1>4 DEF OthersKeep, TypeOK
<1>6. hold[r] = NoLock
  BY <1>1 DEF Fits, HoldFits, Idle, WorkSteps
<1>7. Sound(r)'
  BY <1>1, <1>4, <1>6 DEF Sound, TypeOK
<1> QED BY <1>1, <1>5, <1>7, SoundFrame DEF mainVars

LEMMA ExclusiveCrash ==
    ASSUME Exclusive, Shape', NEW r \in Runner, Crash(r) PROVE Exclusive'
<1>1. Shape /\ TypeOK /\ UNCHANGED <<lockRef, mainVars>>
  BY DEF Exclusive, Shape, Crash
<1>2. Rest(r) /\ hold' = [hold EXCEPT ![r] = NoLock]
  BY DEF Crash, End
<1>3. OthersKeep(r)
  BY <1>1, <1>2, QuietStep
<1>4. Sound(r)'
  BY <1>1, <1>2 DEF Rest, Idle, Sound, TypeOK
<1> QED BY <1>1, <1>3, <1>4, SoundFrame DEF mainVars

LEMMA ExclusiveStep ==
    ASSUME DistinctHolders, ~Operators, Exclusive, [Next]_vars PROVE Exclusive'
<1>1. Shape'
  BY ShapeStep DEF Exclusive
<1>2. CASE UNCHANGED vars
  BY <1>1, <1>2 DEF vars, Exclusive, Sound
<1>3. ASSUME NEW i \in Item, MergePR(i) PROVE Exclusive'
  BY <1>1, <1>3 DEF MergePR, Exclusive, Sound
<1> QED BY <1>1, <1>2, <1>3, ExclusiveVerbStep, ExclusiveOutcome, ExclusiveCrash,
           ExclusiveStart DEF Next

\* A hold is real (HoldIsReal): nothing another runner does takes the lock of an
\* unfinished item away from its holder.
THEOREM HoldsAreReal ==
    ASSUME DistinctHolders, ~Operators
    PROVE  Spec => []HoldIsReal
<1>1. Init /\ [][Next]_vars => []Exclusive
  BY ExclusiveInit, ExclusiveStep, PTL
<1>2. Exclusive => HoldIsReal
  BY DEF Exclusive, Shape, Fits, HoldFits, Sound, HoldIsReal
<1> QED BY <1>1, <1>2, PTL DEF Spec

\* Mutual exclusion (OneWorker): at most one runner works on an unfinished item.
THEOREM MutualExclusion ==
    ASSUME DistinctHolders, ~Operators
    PROVE  Spec => []OneWorker
<1>1. Init /\ [][Next]_vars => []Exclusive
  BY ExclusiveInit, ExclusiveStep, PTL
<1>2. Exclusive => OneWorker
  <2> SUFFICES ASSUME Exclusive, NEW i \in Item \ done, NEW q \in Runner, NEW r \in Runner,
                      Working(q, i), Working(r, i)
               PROVE  q = r
    BY DEF OneWorker
  <2>1. /\ hold[q] # NoLock /\ hold[q].holder = HolderOf[q] /\ lockRef[i] = hold[q]
        /\ hold[r] # NoLock /\ hold[r].holder = HolderOf[r] /\ lockRef[i] = hold[r]
    BY DEF Exclusive, Shape, Fits, HoldFits, Sound, Working
  <2> QED BY <2>1 DEF DistinctHolders
<1> QED BY <1>1, <1>2, PTL DEF Spec

-----------------------------------------------------------------------------
(***************************************************************************)
(* Locks do not leak, for the same runners: whoever lets go of a lock of an  *)
(* unfinished item has deleted it or marked it as kept.                      *)
(***************************************************************************)
Held(i) ==
    \/ lockRef[i] = NoLock
    \/ Kept(lockRef[i])
    \/ \E r \in Runner : hold[r] = lockRef[i] /\ op[r].item = i

Owned == faults = 0 => \A i \in Item \ done : Held(i)

\* A lock that stays is held, as long as its holder goes on.
LEMMA StaysHeld ==
    ASSUME NEW i \in Item, Held(i), NEW r \in Runner, OthersKeep(r),
           lockRef'[i] = lockRef[i],
           \/ hold'[r] = hold[r] /\ op'[r].item = op[r].item
           \/ hold[r] = NoLock \/ op[r].item # i
    PROVE  Held(i)'
  BY DEF Held, OthersKeep

\* A push that failed for no fault was rejected and changed nothing.
LEMMA PushWithoutFault ==
    ASSUME TypeOK, NEW i \in Item, NEW old, NEW new, faults' = 0,
           PushOk(i, old, new) \/ PushFailed(i, old, new)
    PROVE  /\ faults = 0
           /\ \/ lockRef' = [lockRef EXCEPT ![i] = new]
              \/ lockRef' = lockRef /\ PushRejected(i, old, new) /\ lockRef[i] # old
<1>1. ~PushFaulted(i, old, new)
  BY DEF TypeOK, PushFaulted
<1> QED BY <1>1 DEF PushOk, PushFailed, PushRejected, Accepts

LEMMA OwnedVerbStep ==
    ASSUME Exclusive, DistinctHolders, ~Operators, Owned,
           NEW r \in Runner, VerbStep(r), faults' = 0
    PROVE  Owned'
<1> DEFINE item == op[r].item
<1>1. /\ Shape /\ TypeOK /\ Sound(r) /\ op[r] \in Op /\ Fits(r, op[r], hold[r])
      /\ UNCHANGED mainVars /\ op[r].step # "idle"
  BY DEF Exclusive, Shape, TypeOK, VerbStep, CreateLock, TakeOverRead, TakeOver,
         Confirm,
         ReleaseRead, DeleteLock, MarkRead, ReplaceKept, SweepReadMain, ReapReadLock,
         ResumeReadMain, ClearLock, ClearSteps, At, Idle
<1>2. item \in Item /\ done' = done /\ r \in DOMAIN op /\ r \in DOMAIN hold
  BY <1>1 DEF Fits, OpFits, mainVars, TypeOK
<1> SUFFICES ASSUME NEW i \in Item \ done PROVE Held(i)'
  BY <1>2 DEF Owned
<1>3. CASE CreateLock(r) \/ TakeOver(r)
  <2>1. OthersKeep(r)
    BY <1>3, PushSparesOthers
  <2>2. hold[r] = NoLock
    BY <1>1, <1>3 DEF CreateLock, TakeOver, At, Fits, HoldFits, WorkSteps
  <2>3. PICK old : PushOk(item, old, op[r].built) \/ PushFailed(item, old, op[r].built)
    BY <1>3 DEF CreateLock, TakeOver
  <2>4. faults = 0 /\ Held(i)
    BY <1>1, <1>2, <2>3, PushWithoutFault DEF Owned
  <2>5. CASE lockRef' = lockRef
    BY <2>1, <2>2, <2>4, <2>5, StaysHeld
  <2>6. CASE i # item /\ lockRef' = [lockRef EXCEPT ![item] = op[r].built]
    BY <1>1, <2>1, <2>2, <2>4, <2>6, StaysHeld DEF TypeOK
  <2>7. CASE i = item /\ lockRef' = [lockRef EXCEPT ![item] = op[r].built] /\ Acquired(r)
    <3>1. hold'[r] = op[r].built /\ op'[r].item = item
      BY <1>2, <2>7 DEF Acquired, Carry
    <3>2. lockRef'[item] = op[r].built
      BY <1>1, <1>2, <2>7 DEF TypeOK
    <3> QED BY <2>7, <3>1, <3>2 DEF Held
  <2>8. CASE ~Acquired(r)
    <3>1. PushFailed(item, NoLock, op[r].built) \/ PushFailed(item, op[r].seen, op[r].built)
      BY <1>3, <2>8 DEF CreateLock, TakeOver
    <3>2. lockRef' = lockRef
      BY <1>1, <1>2, <3>1 DEF PushFailed, PushRejected, PushFaulted, TypeOK
    <3> QED BY <3>2, <2>5
  <2> QED BY <1>1, <1>2, <2>3, <2>5, <2>6, <2>7, <2>8, PushWithoutFault
<1>4. CASE DeleteLock(r) \/ ReplaceKept(r)
  <2>1. OthersKeep(r)
    BY <1>4, PushSparesOthers
  <2>2. PICK new : /\ PushOk(item, op[r].seen, new) \/ PushFailed(item, op[r].seen, new)
                   /\ \/ DeleteLock(r) /\ new = NoLock
                      \/ ReplaceKept(r) /\ new = op[r].built
    BY <1>4 DEF DeleteLock, ReplaceKept
  <2>3. /\ faults = 0 /\ Held(i)
        /\ \/ lockRef' = [lockRef EXCEPT ![item] = new]
           \/ lockRef' = lockRef /\ lockRef[item] # op[r].seen
    BY <1>1, <1>2, <2>2, PushWithoutFault DEF Owned
  <2>4. hold[r] # NoLock
    BY <1>1, <1>4 DEF DeleteLock, ReplaceKept, At, Sound, Fits, HoldFits, WorkSteps
  <2>5. CASE i # item
    <3>1. lockRef'[i] = lockRef[i]
      BY <1>1, <1>2, <2>3, <2>5 DEF TypeOK
    <3> QED BY <2>1, <2>3, <2>5, <3>1, StaysHeld
  <2>6. CASE i = item
    <3>1. lockRef[item] = op[r].seen
      BY <1>1, <1>4, <2>4, <2>6 DEF DeleteLock, ReplaceKept, At, Sound
    <3>2. lockRef'[i] = new
      BY <1>1, <1>2, <2>3, <2>6, <3>1 DEF TypeOK
    <3>3. new = NoLock \/ Kept(new)
      BY <1>1, <2>2 DEF ReplaceKept, At, Fits, OpFits, Marked, Kept, Commit
    <3> QED BY <3>2, <3>3 DEF Held
  <2> QED BY <2>5, <2>6
<1>5. CASE ClearLock(r)
  <2>1. OthersKeep(r)
    BY <1>5, PushSparesOthers
  <2>2. hold[r] = NoLock /\ item \in done
    BY <1>1, <1>5 DEF ClearLock, ClearSteps, Fits, HoldFits, WorkSteps, Sound
  <2>3. /\ faults = 0 /\ Held(i)
        /\ \/ lockRef' = [lockRef EXCEPT ![item] = NoLock]
           \/ lockRef' = lockRef
    BY <1>1, <1>2, <1>5, PushWithoutFault DEF Owned, ClearLock
  <2>4. lockRef'[i] = lockRef[i]
    BY <1>1, <2>2, <2>3 DEF TypeOK
  <2> QED BY <2>1, <2>2, <2>3, <2>4, StaysHeld
<1>6. CASE TakeOverRead(r) \/ SweepReadMain(r)
  <2>1. OthersKeep(r) /\ lockRef' = lockRef /\ faults' = faults
    BY <1>1, <1>6, QuietStep DEF TakeOverRead, SweepReadMain, Go
  <2>2. hold[r] = NoLock
    BY <1>1, <1>6 DEF TakeOverRead, SweepReadMain, At, Fits, HoldFits, WorkSteps
  <2>3. Held(i)
    BY <2>1 DEF Owned
  <2> QED BY <2>1, <2>2, <2>3, StaysHeld
<1>7. CASE Confirm(r)
  <2>1. OthersKeep(r) /\ lockRef' = lockRef /\ faults' = faults
    BY <1>1, <1>7, QuietStep DEF Confirm, Go
  <2>2. hold'[r] = hold[r] /\ op'[r].item = item /\ Held(i)
    BY <1>2, <1>7, <2>1 DEF Confirm, Go, Carry, Owned
  <2> QED BY <2>1, <2>2, StaysHeld
<1>8. CASE ReleaseRead(r) \/ MarkRead(r)
  <2>1. OthersKeep(r) /\ lockRef' = lockRef /\ faults' = faults
    BY <1>1, <1>8, QuietStep DEF ReleaseRead, MarkRead, End
  <2>2. Held(i)
    BY <2>1 DEF Owned
  <2>3. CASE i # item
    BY <2>1, <2>2, <2>3, StaysHeld
  <2>4. CASE i = item
    <3>1. hold[r] # NoLock /\ lockRef[item] = hold[r] /\ ~Kept(hold[r])
      BY <1>1, <1>8, <2>4
         DEF ReleaseRead, MarkRead, At, Fits, HoldFits, Sound, WorkSteps, Kept
    <3>2. hold' = hold /\ \E s, c, b : Carry(r, s, c, b)
      BY <1>8, <3>1 DEF ReleaseRead, MarkRead, LeaseRefuses
    <3>3. op'[r].item = item
      BY <1>2, <3>2 DEF Carry
    <3> QED BY <2>1, <2>2, <3>2, <3>3, StaysHeld
  <2> QED BY <2>3, <2>4
<1>9. ~ReapReadLock(r) /\ ~ResumeReadMain(r)
  BY <1>1 DEF ReapReadLock, ResumeReadMain, At, Sound
<1> QED BY <1>3, <1>4, <1>5, <1>6, <1>7, <1>8, <1>9 DEF VerbStep

LEMMA OwnedOtherStep ==
    ASSUME Exclusive, Owned, NEW r \in Runner, NEW j \in Item,
           Outcome(r) \/ Start(r, j), faults' = 0
    PROVE  Owned'
<1>1. /\ Shape /\ TypeOK /\ Fits(r, op[r], hold[r]) /\ r \in DOMAIN op
  BY DEF Exclusive, Shape, TypeOK
<1>2. UNCHANGED <<lockRef, hold, faults>> /\ done \subseteq done'
  BY DEF Outcome, Land, OpenPR, Surface, ApplyAnswer, GiveUp, Start, StartAcquire,
         StartOperatorRelease, SweepRead, ReapReadMain, ResumeRead, StartClear,
         mainVars
<1>3. \A i \in Item \ done' : Held(i)
  BY <1>2 DEF Owned
<1>4. CASE Outcome(r)
  <2>1. \E s, c, b : Carry(r, s, c, b)
    BY <1>4 DEF Outcome, Land, OpenPR, Surface, ApplyAnswer, GiveUp, Go
  <2>2. OthersKeep(r)
    BY <1>1, <1>2, <2>1, QuietStep
  <2>3. op'[r].item = op[r].item
    BY <1>1, <2>1 DEF Carry
  <2> QED BY <1>2, <1>3, <2>2, <2>3, StaysHeld DEF Owned
<1>5. CASE Start(r, j)
  <2>1. op[r] = Idle /\ \E o : op' = [op EXCEPT ![r] = o]
    BY <1>5 DEF Start, StartAcquire, StartOperatorRelease, SweepRead,
           ReapReadMain, ResumeRead, StartClear
  <2>3. \A q \in Runner \ {r} : op'[q] = op[q]
    BY <1>1, <2>1 DEF TypeOK
  <2>2. hold[r] = NoLock /\ OthersKeep(r)
    BY <1>1, <1>2, <2>1, <2>3 DEF Fits, HoldFits, Idle, WorkSteps, OthersKeep
  <2> QED BY <1>2, <1>3, <2>2, StaysHeld DEF Owned
<1> QED BY <1>4, <1>5

LEMMA OwnedStep ==
    ASSUME DistinctHolders, ~Operators, Exclusive, Owned, [Next]_vars PROVE Owned'
<1> SUFFICES ASSUME faults' = 0 PROVE Owned'
  BY DEF Owned
<1>1. CASE UNCHANGED vars
  BY <1>1 DEF vars, mainVars, Owned, Held
<1>2. ASSUME NEW i \in Item, MergePR(i) PROVE Owned'
  BY <1>2 DEF MergePR, Owned, Held
<1>3. ASSUME NEW r \in Runner PROVE ~Crash(r)
  BY DEF Crash, Exclusive, Shape, TypeOK
<1>4. ASSUME NEW r \in Runner, Outcome(r) PROVE Owned'
  <2>1. op[r].item \in Item
    BY <1>4 DEF Outcome, Land, OpenPR, Surface, ApplyAnswer, GiveUp, Built, At,
           Exclusive, Shape, Fits, OpFits
  <2> QED BY <1>4, <2>1, OwnedOtherStep
<1> QED BY <1>1, <1>2, <1>3, <1>4, OwnedVerbStep, OwnedOtherStep DEF Next

\* Only a fault leaves the lock of an unfinished item that nobody holds
\* (NoLockLeaks), unless it is the kept lock of a proposed build.
THEOREM LocksDoNotLeak ==
    ASSUME DistinctHolders, ~Operators
    PROVE  Spec => []NoLockLeaks
<1>1. Init => Exclusive /\ Owned
  BY ExclusiveInit DEF Init, Owned, Held
<1>2. Exclusive /\ Owned /\ [Next]_vars => Exclusive' /\ Owned'
  BY ExclusiveStep, OwnedStep
<1>3. Owned => NoLockLeaks
  BY DEF Owned, Held, NoLockLeaks
<1> QED BY <1>1, <1>2, <1>3, PTL DEF Spec

-----------------------------------------------------------------------------
(* The arbiter's refs implement the register, operators and shared holders   *)
(* included.                                                                 *)

LEMMA RegisterPush ==
    ASSUME Shape, NEW r \in Runner,
           \/ CreateLock(r) \/ TakeOver(r) \/ DeleteLock(r)
           \/ ReplaceKept(r) \/ ClearLock(r)
    PROVE  Register!Next \/ UNCHANGED lockRef
<1> DEFINE i == op[r].item  b == op[r].built  c == op[r].seen
<1>1. TypeOK /\ op[r] \in Op /\ OpFits(r, op[r]) /\ op[r].step # "idle"
  BY DEF Shape, TypeOK, Fits, CreateLock, TakeOver, DeleteLock, ReplaceKept,
         ClearLock,
         ClearSteps, At
<1>2. i \in Item /\ lockRef[i] \in Commit \cup {NoLock}
  BY <1>1 DEF OpFits, TypeOK
<1>3. ASSUME NEW old, NEW new, PushOk(i, old, new) \/ PushFailed(i, old, new)
      PROVE  \/ UNCHANGED lockRef
             \/ lockRef[i] = old /\ lockRef' = [lockRef EXCEPT ![i] = new]
  BY <1>1, <1>2, <1>3
     DEF PushOk, PushFailed, PushRejected, PushFaulted, Accepts, TypeOK
<1>4. CASE CreateLock(r)
  <2>1. b \in Commit /\ Register!Fresh(i, b)
    BY <1>1, <1>4 DEF CreateLock, OpFits, AcquireSteps, Register!Fresh
  <2>2. \/ UNCHANGED lockRef
        \/ lockRef[i] = NoLock /\ lockRef' = [lockRef EXCEPT ![i] = b]
    BY <1>3, <1>4 DEF CreateLock
  <2> QED BY <1>2, <2>1, <2>2 DEF Register!Next, Register!Grab
<1>5. CASE TakeOver(r)
  <2>1. b \in Commit /\ Register!Fresh(i, b) /\ Takeable(c)
    BY <1>1, <1>5 DEF TakeOver, At, OpFits, AcquireSteps, Register!Fresh
  <2>2. \/ UNCHANGED lockRef
        \/ lockRef[i] = c /\ lockRef' = [lockRef EXCEPT ![i] = b]
    BY <1>3, <1>5 DEF TakeOver
  <2> QED BY <1>2, <2>1, <2>2 DEF Register!Next, Register!TakeOver, Takeable
<1>6. CASE DeleteLock(r) \/ ClearLock(r)
  <2>1. c \in Commit
    BY <1>1, <1>6 DEF DeleteLock, ClearLock, ClearSteps, At, OpFits
  <2>2. \/ UNCHANGED lockRef
        \/ lockRef[i] = c /\ lockRef' = [lockRef EXCEPT ![i] = NoLock]
    BY <1>3, <1>6 DEF DeleteLock, ClearLock
  <2> QED BY <1>2, <2>1, <2>2 DEF Register!Next, Register!Drop
<1>7. CASE ReplaceKept(r)
  <2>1. c \in Commit /\ ~c.kept /\ b = Marked(c)
    BY <1>1, <1>7 DEF ReplaceKept, At, OpFits
  <2>2. /\ b \in Commit /\ b.kept /\ b.entry = c.entry /\ b.action = c.action
        /\ b.holder = c.holder /\ b.since = c.since
    BY <2>1 DEF Marked, Commit
  <2>3. \/ UNCHANGED lockRef
        \/ lockRef[i] = c /\ lockRef' = [lockRef EXCEPT ![i] = b]
    BY <1>3, <1>7 DEF ReplaceKept
  <2> QED BY <1>2, <2>1, <2>2, <2>3 DEF Register!Next, Register!MarkKept
<1> QED BY <1>4, <1>5, <1>6, <1>7

LEMMA RegisterStep ==
    ASSUME Shape, [Next]_vars PROVE [Register!Next]_lockRef
<1>1. CASE UNCHANGED vars
  BY <1>1 DEF vars
<1>2. ASSUME NEW r \in Runner, VerbStep(r) PROVE Register!Next \/ UNCHANGED lockRef
  BY <1>2, RegisterPush DEF VerbStep, TakeOverRead, Confirm, ReleaseRead, MarkRead,
     SweepReadMain, ReapReadLock, ResumeReadMain
<1>3. ASSUME NEW r \in Runner, Outcome(r) \/ Crash(r) PROVE UNCHANGED lockRef
  BY <1>3 DEF Outcome, Land, OpenPR, Surface, ApplyAnswer, GiveUp, Crash
<1>4. ASSUME NEW r \in Runner, NEW i \in Item, Start(r, i) PROVE UNCHANGED lockRef
  BY <1>4 DEF Start, StartAcquire, StartOperatorRelease, SweepRead, ReapReadMain,
              ResumeRead, StartClear
<1>5. ASSUME NEW i \in Item, MergePR(i) PROVE UNCHANGED lockRef
  BY <1>5 DEF MergePR
<1> QED BY <1>1, <1>2, <1>3, <1>4, <1>5 DEF Next

\* The detailed lock protocol implements LockRegister (ImplementsRegister): the
\* fetches, the conditional pushes and their failures never overwrite a held
\* lock except by a mark or a take-over.
THEOREM Refinement == Spec => ImplementsRegister
<1>1. Init => Register!Init
  BY DEF Init, Register!Init
<1> QED BY <1>1, RegisterStep, ShapeAlways, PTL
        DEF Spec, ImplementsRegister, Register!Spec

-----------------------------------------------------------------------------
(* The lease of a CI apply job, operators and shared holders included.       *)

\* A leased runner that is about to delete or mark a lock read its own.
LeaseSound(r) ==
    op[r].step \in {"deleting", "replacing"} /\ hold[r] # NoLock =>
        op[r].seen = hold[r]

LeasesHold == Shape /\ \A r \in Leased : LeaseSound(r)

LEMMA LeaseInit == Init => LeasesHold
BY ShapeInit DEF Init, LeasesHold, LeaseSound, Idle

\* Which runner moves, and where it can get to "deleting" and "replacing".
LEMMA LeaseStep ==
    ASSUME LeasesHold, [Next]_vars PROVE LeasesHold'
<1>1. Shape /\ TypeOK /\ Shape'
  BY ShapeStep DEF LeasesHold, Shape
<1>2. ASSUME NEW r \in Leased, op'[r] = op[r], hold'[r] = hold[r] PROVE LeaseSound(r)'
  BY <1>2 DEF LeasesHold, LeaseSound
<1>3. ASSUME NEW r \in Leased, op'[r].step \notin {"deleting", "replacing"}
      PROVE  LeaseSound(r)'
  BY <1>3 DEF LeaseSound
<1>4. Leased \subseteq Runner
  OBVIOUS
<1>5. ASSUME NEW q \in Runner, NEW r \in Leased, ReleaseRead(q) \/ MarkRead(q)
      PROVE  LeaseSound(r)'
  <2>1. CASE q # r
    BY <1>1, <1>2, <1>5, <2>1
       DEF ReleaseRead, MarkRead, End, Rest, Carry, TypeOK
  <2>2. CASE q = r
    BY <1>1, <1>5, <2>2
       DEF ReleaseRead, MarkRead, End, Rest, Idle, Carry, LeaseRefuses, LeaseSound,
              TypeOK
  <2> QED BY <2>1, <2>2
<1>6. ASSUME NEW q \in Runner, NEW r \in Leased,
             \/ CreateLock(q) \/ TakeOver(q) \/ DeleteLock(q) \/ ReplaceKept(q)
             \/ ClearLock(q) \/ TakeOverRead(q) \/ Confirm(q) \/ SweepReadMain(q)
             \/ ReapReadLock(q) \/ ResumeReadMain(q) \/ Crash(q) \/ Outcome(q)
      PROVE  LeaseSound(r)'
  <2>1. CASE q # r
    BY <1>1, <1>2, <1>6, <2>1
       DEF CreateLock, TakeOver, DeleteLock, ReplaceKept, ClearLock, TakeOverRead,
           Confirm, SweepReadMain, ReapReadLock, ResumeReadMain, Crash, Outcome, Land,
           OpenPR, Surface, ApplyAnswer, GiveUp, Acquired, End, Rest, Go, Carry, TypeOK
  <2>2. CASE q = r
    <3>1. op'[r].step \notin {"deleting", "replacing"}
      BY <1>1, <1>6, <2>2
         DEF CreateLock, TakeOver, DeleteLock, ReplaceKept, ClearLock, TakeOverRead,
             Confirm, SweepReadMain, ReapReadLock, ResumeReadMain, Crash, Outcome, Land,
             OpenPR, Surface, ApplyAnswer, GiveUp, Acquired, End, Rest, Idle, Go, Carry,
             TypeOK
    <3> QED BY <3>1, <1>3
  <2> QED BY <2>1, <2>2
<1>7. ASSUME NEW q \in Runner, NEW r \in Leased, NEW i \in Item, Start(q, i)
      PROVE  LeaseSound(r)'
  <2>1. UNCHANGED hold
    BY <1>7 DEF Start, StartAcquire, StartOperatorRelease, SweepRead, ReapReadMain,
       ResumeRead, StartClear
  <2>2. PICK s \in {"creating", "releasing", "sweepReading", "reapReading",
                    "resumeReading"} : \E c, b :
          op' = [op EXCEPT ![q] = [step |-> s, item |-> i, seen |-> c, built |-> b]]
    BY <1>7 DEF Start, StartAcquire, StartOperatorRelease, SweepRead, ReapReadMain,
       ResumeRead, StartClear
  <2>3. PICK c, b :
          op' = [op EXCEPT ![q] = [step |-> s, item |-> i, seen |-> c, built |-> b]]
    BY <2>2
  <2>4. CASE q # r
    BY <1>1, <1>2, <2>1, <2>3, <2>4 DEF TypeOK
  <2>5. CASE q = r
    BY <1>1, <1>3, <2>3, <2>5 DEF TypeOK
  <2> QED BY <2>4, <2>5
<1>8. ASSUME NEW r \in Leased, UNCHANGED <<op, hold>> PROVE LeaseSound(r)'
  BY <1>8, <1>2
<1>9. ASSUME NEW r \in Leased PROVE LeaseSound(r)'
  BY <1>5, <1>6, <1>7, <1>8 DEF Next, VerbStep, MergePR, vars
<1> QED BY <1>1, <1>9 DEF LeasesHold

\* A leased runner never removes or marks a lock that is not its own
\* (LeasedRunnerSparesOthers).
THEOREM LeaseProtects == Spec => LeasedRunnerSparesOthers
<1>1. ASSUME LeasesHold, [Next]_vars, NEW r \in Leased, NEW i \in Item,
             op[r].step \in OwnSteps, op[r].item = i, hold[r] # NoLock,
             op'[r] # op[r], lockRef'[i] # lockRef[i]
      PROVE  lockRef[i] = hold[r]
  <2>1. Shape /\ TypeOK /\ LeaseSound(r) /\ r \in Runner
    BY <1>1 DEF LeasesHold, Shape
  <2>2. PICK q \in Runner : CreateLock(q) \/ TakeOver(q) \/ DeleteLock(q)
                            \/ ReplaceKept(q) \/ ClearLock(q)
    <3>1. ASSUME NEW q \in Runner, VerbStep(q)
          PROVE  \/ CreateLock(q) \/ TakeOver(q) \/ DeleteLock(q)
                 \/ ReplaceKept(q) \/ ClearLock(q)
      BY <1>1, <3>1, SMTT(30) DEF VerbStep, TakeOverRead, Confirm, ReleaseRead,
         MarkRead, SweepReadMain, ReapReadLock, ResumeReadMain
    <3>2. ASSUME ~\E q \in Runner : VerbStep(q)
          PROVE  lockRef' = lockRef
      BY <1>1, <3>2, SMTT(30) DEF Next, Outcome, Land, OpenPR, Surface,
         ApplyAnswer, GiveUp, Crash, Start, StartAcquire, StartOperatorRelease,
         SweepRead, ReapReadMain, ResumeRead, StartClear, MergePR, vars
    <3> QED
      BY <1>1, <3>1, <3>2
  <2>3. q = r
    BY <1>1, <2>1, <2>2 DEF CreateLock, TakeOver, DeleteLock, ReplaceKept,
           ClearLock,
       Acquired, End, Rest, Go, Carry, TypeOK
  <2>4. DeleteLock(r) \/ ReplaceKept(r)
    BY <1>1, <2>2, <2>3 DEF CreateLock, TakeOver, ClearLock, ClearSteps, At,
           OwnSteps
  <2>5. lockRef[i] = op[r].seen
    BY <1>1, <2>1, <2>4 DEF DeleteLock, ReplaceKept, PushOk, PushFailed,
           PushRejected,
       PushFaulted, Accepts, TypeOK
  <2> QED BY <1>1, <2>1, <2>4, <2>5 DEF DeleteLock, ReplaceKept, At, LeaseSound
<1>2. LeasesHold /\ [Next]_vars =>
        [\A r \in Leased, i \in Item :
            /\ op[r].step \in OwnSteps /\ op[r].item = i /\ hold[r] # NoLock
            /\ op'[r] # op[r] /\ lockRef'[i] # lockRef[i]
            => lockRef[i] = hold[r]]_vars
  BY <1>1
<1> QED BY <1>2, LeaseInit, LeaseStep, PTL DEF Spec, LeasedRunnerSparesOthers

-----------------------------------------------------------------------------
(* Every verb ends *)

\* How far a step is from the end of the verb.
Depth(s) ==
    CASE s = "idle" -> 0
      [] s \in {"deleting", "replacing"} \cup ClearSteps -> 1
      [] s \in {"releasing", "marking", "sweepReading", "reapReading",
                "resumeReading"} -> 2
      [] s = "holding" -> 3
      [] s = "confirming" -> 4
      [] s \in {"takingOver", "retrying"} -> 5
      [] s = "takeOverReading" -> 6
      [] s = "creating" -> 7

Left(r) == Depth(op[r].step)

VerbsGetShorter ==
    \A r \in Runner :
        /\ VerbStep(r) \/ Outcome(r) \/ Crash(r) => Left(r)' < Left(r)
        /\ Left(r)' > Left(r) => op[r] = Idle

\* A runner without a verb carries nothing.
Rested(r) == op[r].step = "idle" => op[r] = Idle

LEMMA DepthType ==
    ASSUME NEW s \in Step
    PROVE  Depth(s) \in 0 .. 7
  BY DEF Depth, Step, ClearSteps

\* What a verb does lowers its depth.
LEMMA VerbAdvances ==
    ASSUME TypeOK, NEW r \in Runner, Rested(r), VerbStep(r) \/ Outcome(r) \/ Crash(r)
    PROVE  Depth(op'[r].step) < Depth(op[r].step)
<1> USE DEF At, Go, Carry, Rest, End, Idle, Depth, ClearSteps
<1>1. DOMAIN op = Runner /\ op[r].step \in Step
  BY DEF TypeOK, Op
<1>2. CASE CreateLock(r) \/ TakeOver(r)
  BY <1>1, <1>2 DEF CreateLock, TakeOver, Acquired
<1>3. CASE TakeOverRead(r) \/ Confirm(r)
  BY <1>1, <1>3 DEF TakeOverRead, Confirm
<1>4. CASE ReleaseRead(r) \/ DeleteLock(r) \/ MarkRead(r) \/ ReplaceKept(r)
  BY <1>1, <1>4 DEF ReleaseRead, DeleteLock, MarkRead, ReplaceKept
<1>5. CASE SweepReadMain(r) \/ ReapReadLock(r) \/ ResumeReadMain(r) \/ ClearLock(r)
  BY <1>1, <1>5 DEF SweepReadMain, ReapReadLock, ResumeReadMain, ClearLock
<1>6. CASE Outcome(r)
  BY <1>1, <1>6 DEF Outcome, Land, OpenPR, Surface, ApplyAnswer, GiveUp, Built
<1>7. CASE Crash(r)
  <2>1. op'[r].step = "idle"
    BY <1>1, <1>7 DEF Crash
  <2>2. op[r].step # "idle"
    BY <1>7 DEF Crash, Rested
  <2> QED
    BY <1>1, <2>1, <2>2 DEF Step
<1> QED
  BY <1>2, <1>3, <1>4, <1>5, <1>6, <1>7 DEF VerbStep

\* The others wait.
LEMMA OthersWait ==
    ASSUME TypeOK, NEW q \in Runner, NEW r \in Runner, q # r,
           \/ VerbStep(q) \/ Outcome(q) \/ Crash(q)
           \/ \E i \in Item : Start(q, i)
    PROVE  op'[r] = op[r]
<1> USE DEF Go, Carry, Rest, End, TypeOK
<1>1. CASE VerbStep(q)
  <2>1. CASE CreateLock(q) \/ TakeOverRead(q) \/ TakeOver(q) \/ Confirm(q)
    BY <2>1 DEF CreateLock, TakeOverRead, TakeOver, Confirm, Acquired
  <2>2. CASE ReleaseRead(q) \/ DeleteLock(q) \/ MarkRead(q) \/ ReplaceKept(q)
    BY <2>2 DEF ReleaseRead, DeleteLock, MarkRead, ReplaceKept
  <2>3. CASE SweepReadMain(q) \/ ReapReadLock(q) \/ ResumeReadMain(q) \/ ClearLock(q)
    BY <2>3 DEF SweepReadMain, ReapReadLock, ResumeReadMain, ClearLock
  <2> QED
    BY <1>1, <2>1, <2>2, <2>3 DEF VerbStep
<1>2. CASE Outcome(q) \/ Crash(q)
  BY <1>2 DEF Outcome, Land, OpenPR, Surface, ApplyAnswer, GiveUp, Crash
<1>3. ASSUME NEW i \in Item, Start(q, i)
      PROVE  op'[r] = op[r]
  BY <1>3 DEF Start, StartAcquire, StartOperatorRelease, SweepRead, ReapReadMain,
              ResumeRead, StartClear
<1> QED
  BY <1>1, <1>2, <1>3

LEMMA RestedKeeps ==
    ASSUME TypeOK, NEW r \in Runner, Rested(r), [Next]_vars
    PROVE  Rested(r)'
<1> USE DEF At, Go, Carry, Rest, End, Rested
<1>1. DOMAIN op = Runner
  BY DEF TypeOK
<1>2. CASE op'[r] = op[r] \/ Rest(r)
  BY <1>1, <1>2
<1>3. CASE VerbStep(r)
  <2>1. CASE CreateLock(r) \/ TakeOverRead(r) \/ TakeOver(r) \/ Confirm(r)
    BY <1>1, <2>1 DEF CreateLock, TakeOverRead, TakeOver, Confirm, Acquired
  <2>2. CASE ReleaseRead(r) \/ DeleteLock(r) \/ MarkRead(r) \/ ReplaceKept(r)
    BY <1>1, <2>2 DEF ReleaseRead, DeleteLock, MarkRead, ReplaceKept
  <2>3. CASE SweepReadMain(r) \/ ReapReadLock(r) \/ ResumeReadMain(r) \/ ClearLock(r)
    BY <1>1, <2>3 DEF SweepReadMain, ReapReadLock, ResumeReadMain, ClearLock
  <2> QED
    BY <1>3, <2>1, <2>2, <2>3 DEF VerbStep
<1>4. CASE Outcome(r) \/ Crash(r)
  BY <1>1, <1>4 DEF Outcome, Land, OpenPR, Surface, ApplyAnswer, GiveUp, Crash
<1>5. ASSUME NEW i \in Item, Start(r, i)
      PROVE  Rested(r)'
  BY <1>1, <1>5 DEF Start, StartAcquire, StartOperatorRelease, SweepRead, ReapReadMain,
                    ResumeRead, StartClear
<1>6. CASE UNCHANGED vars \/ \E i \in Item : MergePR(i)
  BY <1>6 DEF vars, MergePR
<1> QED
  BY <1>2, <1>3, <1>4, <1>5, <1>6, OthersWait DEF Next

\* No verb tries for ever, whoever wins the races it is in: every step of a verb
\* comes nearer to its end, whose distance is at most seven steps, and only a
\* runner that is idle starts another.  A push that is rejected is not repeated,
\* and the one retry of an acquire, after a take-over that found the ref empty,
\* cannot come back to where it was.
THEOREM VerbsAreBounded ==
    Spec => [](\A r \in Runner : Left(r) \in 0 .. 7) /\ [][VerbsGetShorter]_vars
<1>1. TypeOK => \A r \in Runner : Left(r) \in 0 .. 7
  BY DepthType DEF TypeOK, Op, Left
<1>2. Spec => [](\A r \in Runner : Rested(r))
  <2>1. Init => \A r \in Runner : Rested(r)
    BY DEF Init, Rested
  <2>2. TypeOK /\ (\A r \in Runner : Rested(r)) /\ [Next]_vars
        => (\A r \in Runner : Rested(r))'
    BY RestedKeeps
  <2> QED
    BY <2>1, <2>2, TypeCorrect, PTL DEF Spec
<1>3. TypeOK /\ TypeOK' /\ (\A r \in Runner : Rested(r)) /\ [Next]_vars => VerbsGetShorter
  <2> SUFFICES ASSUME TypeOK, TypeOK', [Next]_vars, NEW r \in Runner, Rested(r)
               PROVE  /\ VerbStep(r) \/ Outcome(r) \/ Crash(r) => Left(r)' < Left(r)
                      /\ Left(r)' > Left(r) => op[r] = Idle
    BY DEF VerbsGetShorter
  <2>1. Left(r) \in Nat /\ Left(r)' \in Nat
    <3>1. op[r].step \in Step /\ op'[r].step \in Step
      BY DEF TypeOK, Op
    <3>2. Depth(op[r].step) \in 0 .. 7 /\ Depth(op'[r].step) \in 0 .. 7
      BY <3>1, DepthType
    <3> QED
      BY <3>2 DEF Left
  <2>2. CASE VerbStep(r) \/ Outcome(r) \/ Crash(r)
    <3>1. Left(r)' < Left(r)
      BY <2>2, VerbAdvances DEF Left
    <3> QED
      BY <2>1, <3>1
  <2>3. ASSUME NEW i \in Item, Start(r, i)
        PROVE  op[r] = Idle
    BY <2>3 DEF Start, StartAcquire, StartOperatorRelease, SweepRead, ReapReadMain,
                ResumeRead, StartClear
  <2>4. CASE op'[r] = op[r] /\ ~(VerbStep(r) \/ Outcome(r) \/ Crash(r))
    BY <2>1, <2>4 DEF Left
  <2>5. CASE UNCHANGED vars \/ \E i \in Item : MergePR(i)
    <3>1. op'[r] = op[r]
      BY <2>5 DEF vars, MergePR
    <3> QED
      BY <2>2, <2>4, <3>1
  <2>6. ASSUME NEW q \in Runner, q # r,
               \/ VerbStep(q) \/ Outcome(q) \/ Crash(q)
               \/ \E i \in Item : Start(q, i)
        PROVE  op'[r] = op[r]
    BY <2>6, OthersWait
  <2>7. CASE (\E i \in Item : Start(r, i)) /\ ~(VerbStep(r) \/ Outcome(r) \/ Crash(r))
    BY <2>3, <2>7
  <2> QED
    BY <2>2, <2>4, <2>5, <2>6, <2>7 DEF Next
<1> QED
  BY <1>1, <1>2, <1>3, TypeCorrect, PTL DEF Spec
=============================================================================
