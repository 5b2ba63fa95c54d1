-------------------------- MODULE IntegrationProofs --------------------------
(***************************************************************************)
(* What holds of Integration for every set of tasks, every conflict         *)
(* relation, every mode and gate, and every number of retries, re-runs,     *)
(* faults and other writers.                                                *)
(*                                                                          *)
(* The argument has two layers.  main only ever grows by one commit (Grown),*)
(* so what is landed stays landed and what a branch is based on stays what  *)
(* it was.  On top of it each lane keeps LaneInv, which mentions the lane's *)
(* own variables and main only, so a step of one lane disturbs no other.    *)
(***************************************************************************)
EXTENDS Integration, SequenceTheorems, TLAPS

\* A tip is based on a prefix of main that holds none of its own work, and no
\* foe's either unless its own work came first.
Apart(t, tip) ==
    tip # NoTip =>
        /\ tip.base <= Len(main)
        /\ tip.own # "nothing" => t \notin Works(1, tip.base)
        /\ t \notin Works(1, tip.base) =>
              \A u \in Task : u \in Works(1, tip.base) => {t, u} \notin Foes

\* The steps at which the branch carries the finished work, or main does.
CarryingSteps == {"rebasing", "retrying", "gating", "landing", "opening",
                  "pruning", "releasing", "marking", "reaping",
                  "recovering", "gatingKept", "landingKept"}

HasBranch(t) == pc[t] # "over" => local[t] # NoTip

CarriesWork(t) ==
    /\ pc[t] \in CarryingSteps =>
          local[t].own = "done" \/ (local[t].own = "nothing" /\ Landed(t))
    /\ pc[t] \in {"rebasing", "retrying"} => local[t].own = "done"
    /\ pc[t] = "working" => t \notin Works(1, local[t].base)

MayRelease(t) ==
    /\ pc[t] \in {"pruning", "releasing"} => Landed(t)
    /\ pc[t] = "lettingGo" => Landed(t) \/ t \in surfaced

Covered(t) == lock[t] = "free" => Landed(t) \/ t \in surfaced

Safe(t) == local[t] = NoTip =>
                Landed(t) \/ (remote[t] # NoTip /\ remote[t].own = "done")

LaneInv(t) ==
    /\ Apart(t, local[t])
    /\ Apart(t, remote[t])
    /\ HasBranch(t)
    /\ CarriesWork(t)
    /\ MayRelease(t)
    /\ Covered(t)
    /\ Safe(t)

IInv == TypeOK /\ \A t \in Task : LaneInv(t)

\* main grew by at most one commit.
Grown == main' = main \/ \E e \in Commit : main' = Append(main, e)

-----------------------------------------------------------------------------
(* main *)

LEMMA GrownFacts ==
    ASSUME main \in Seq(Commit), Grown
    PROVE  /\ main' \in Seq(Commit)
           /\ Len(main) \in Nat
           /\ Len(main) <= Len(main')
           /\ \A t : Landed(t) => Landed(t)'
           /\ \A n \in Nat : n <= Len(main) => Works(1, n)' = Works(1, n)
<1>1. CASE main' = main
  BY <1>1 DEF Landed, Works
<1>2. ASSUME NEW e \in Commit, main' = Append(main, e)
      PROVE  /\ main' \in Seq(Commit)
             /\ Len(main) <= Len(main')
             /\ \A t : Landed(t) => Landed(t)'
             /\ \A n \in Nat : n <= Len(main) => Works(1, n)' = Works(1, n)
  <2>1. /\ main' \in Seq(Commit)
        /\ Len(main') = Len(main) + 1
        /\ Len(main) \in Nat
        /\ \A k \in 1 .. Len(main) : main'[k] = main[k]
    BY <1>2
  <2>2. \A t : Landed(t) => Landed(t)'
    BY <2>1 DEF Landed
  <2>3. \A n \in Nat : n <= Len(main) => Works(1, n)' = Works(1, n)
    BY <2>1 DEF Works
  <2> QED
    BY <2>1, <2>2, <2>3
<1> QED
  BY <1>1, <1>2 DEF Grown

\* What lands at the end of main is landed.
LEMMA AppendLands ==
    ASSUME main \in Seq(Commit), NEW t, NEW tip,
           main' = Append(main, [work |-> t, tip |-> tip])
    PROVE  Landed(t)'
<1>1. /\ Len(main') = Len(main) + 1
      /\ main'[Len(main) + 1] = [work |-> t, tip |-> tip]
      /\ Len(main) + 1 \in DOMAIN main'
  OBVIOUS
<1> QED
  BY <1>1 DEF Landed

LEMMA WorksAreLanded ==
    ASSUME main \in Seq(Commit), NEW t, NEW n \in Nat, n <= Len(main)
    PROVE  /\ t \in Works(1, n) => Landed(t)
           /\ Landed(t) <=> t \in Works(1, Len(main))
  BY DEF Works, Landed

\* A fast-forward lands on the whole of main.
LEMMA FastForwardLands ==
    ASSUME TypeOK, NEW t \in Task, local[t] # NoTip, FastForward(t),
           Land(t, local[t].base, local[t])
    PROVE  /\ main' = Append(main, [work |-> t, tip |-> local[t]])
           /\ [work |-> t, tip |-> local[t]] \in Commit
<1>1. SubSeq(main, 1, Len(main)) = main
  BY SubSeqFull DEF TypeOK
<1> QED
  BY <1>1 DEF TypeOK, Land, FastForward, Commit

-----------------------------------------------------------------------------
(* One lane *)

\* A lane whose variables do not change keeps its invariant, whatever main and
\* the surfaced questions of landed tasks do.
LEMMA LaneFrame ==
    ASSUME TypeOK, Grown, NEW u \in Task, LaneInv(u),
           local'[u] = local[u], remote'[u] = remote[u],
           pc'[u] = pc[u], lock'[u] = lock[u],
           u \in surfaced => u \in surfaced' \/ Landed(u)'
    PROVE  LaneInv(u)'
<1>1. /\ main' \in Seq(Commit)
      /\ Len(main) \in Nat /\ Len(main') \in Nat
      /\ Len(main) <= Len(main')
      /\ Landed(u) => Landed(u)'
      /\ \A n \in Nat : n <= Len(main) => Works(1, n)' = Works(1, n)
  BY GrownFacts DEF TypeOK
<1>2. \A tip \in Tip \cup {NoTip} : Apart(u, tip) => Apart(u, tip)'
  BY <1>1 DEF Apart, Tip
<1>3. /\ local[u] \in Tip \cup {NoTip}
      /\ remote[u] \in Tip \cup {NoTip}
  BY DEF TypeOK
<1>4. Apart(u, local[u])' /\ Apart(u, remote[u])'
  BY <1>2, <1>3 DEF LaneInv, Apart
<1>5. HasBranch(u)' /\ Safe(u)' /\ Covered(u)' /\ MayRelease(u)'
  BY <1>1 DEF LaneInv, HasBranch, Safe, Covered, MayRelease
<1>6. CarriesWork(u)'
  <2>1. pc[u] = "working" => local[u] # NoTip /\ local[u].base <= Len(main)
                             /\ local[u].base \in Nat
    BY <1>3 DEF LaneInv, HasBranch, Apart, Tip
  <2> QED
    BY <1>1, <2>1 DEF LaneInv, CarriesWork
<1> QED
  BY <1>4, <1>5, <1>6 DEF LaneInv

\* So a step of lane t need only be looked at for lane t.
LEMMA OtherLanes ==
    ASSUME IInv, Grown, NEW t \in Task,
           \A u \in Task \ {t} :
               /\ local'[u] = local[u] /\ remote'[u] = remote[u]
               /\ pc'[u] = pc[u] /\ lock'[u] = lock[u]
               /\ u \in surfaced => u \in surfaced' \/ Landed(u)',
           LaneInv(t)'
    PROVE  \A u \in Task : LaneInv(u)'
  BY LaneFrame DEF IInv

-----------------------------------------------------------------------------
(* What a step does to the branch *)

\* A clean rebase moves the branch to the end of main, apart from its foes.
LEMMA RebasedFacts ==
    ASSUME TypeOK, NEW t \in Task, local[t] # NoTip, Apart(t, local[t]),
           local[t].own = "done",
           CleanRebase(t), NEW s \in BOOLEAN, Rebased(t, s),
           main' = main
    PROVE  /\ local' \in [Task -> Tip \cup {NoTip}]
           /\ local'[t] # NoTip
           /\ Apart(t, local[t])'
           /\ \/ local'[t].own = "done"
              \/ local'[t].own = "nothing" /\ Landed(t)'
<1> DEFINE tip == [base  |-> Len(main),
                   own   |-> IF t \in News(local[t]) THEN "nothing" ELSE "done",
                   stamp |-> s]
<1>1. /\ tip \in Tip
      /\ Len(main) \in Nat
      /\ local' = [local EXCEPT ![t] = tip]
      /\ local[t] \in Tip
      /\ local[t].base \in Nat
  BY DEF TypeOK, Tip, Rebased
<1>2. local'[t] = tip /\ local' \in [Task -> Tip \cup {NoTip}] /\ tip # NoTip
  BY <1>1, NoTipAssumption DEF TypeOK
<1>3. \A w : w \in Works(1, Len(main)) <=>
                 w \in Works(1, local[t].base) \/ w \in News(local[t])
  BY <1>1 DEF Works, News, Apart
<1>4. t \in News(local[t]) => t \in Works(1, Len(main)) /\ Landed(t)
  BY <1>1, <1>3, WorksAreLanded DEF TypeOK
<1>5. t \notin News(local[t]) => t \notin Works(1, Len(main))
  BY <1>3 DEF Apart
<1>6. t \notin News(local[t]) =>
          \A u \in Task : u \in Works(1, Len(main)) => {t, u} \notin Foes
  BY <1>3 DEF Apart, CleanRebase, Conflicting
<1>7. /\ tip.base <= Len(main)
      /\ tip.own # "nothing" => t \notin Works(1, tip.base)
      /\ t \notin Works(1, tip.base) =>
            \A u \in Task : u \in Works(1, tip.base) => {t, u} \notin Foes
  BY <1>1, <1>4, <1>5, <1>6
<1>8. Apart(t, local[t])'
  BY <1>2, <1>7 DEF Apart, Works
<1> QED
  BY <1>2, <1>4, <1>8 DEF Landed

-----------------------------------------------------------------------------
(* One lemma per action *)

\* What every step of a lane may rely on.
LEMMA LaneFacts ==
    ASSUME IInv, NEW t \in Task
    PROVE  /\ TypeOK /\ LaneInv(t)
           /\ main \in Seq(Commit) /\ Len(main) \in Nat
           /\ pc[t] # "over" =>
                 /\ local[t] \in Tip /\ local[t] # NoTip
                 /\ local[t].base \in Nat /\ local[t].base <= Len(main)
                 /\ local[t].own \in {"nothing", "wip", "done"}
                 /\ local[t].stamp \in BOOLEAN
<1>1. TypeOK /\ LaneInv(t)
  BY DEF IInv
<1>2. main \in Seq(Commit) /\ Len(main) \in Nat /\ local[t] \in Tip \cup {NoTip}
  BY <1>1 DEF TypeOK
<1>3. pc[t] # "over" => local[t] \in Tip /\ local[t] # NoTip
  BY <1>1, <1>2 DEF LaneInv, HasBranch
<1>4. pc[t] # "over" => local[t].base <= Len(main)
  BY <1>1, <1>3 DEF LaneInv, Apart
<1>5. pc[t] # "over" => /\ local[t].base \in Nat
                        /\ local[t].own \in {"nothing", "wip", "done"}
                        /\ local[t].stamp \in BOOLEAN
  BY <1>3 DEF Tip
<1> QED
  BY <1>1, <1>2, <1>3, <1>4, <1>5

\* The facts of a lane about its branches, as main grows.
LEMMA ApartGrows ==
    ASSUME TypeOK, Grown, NEW t
    PROVE  /\ \A tip \in Tip \cup {NoTip} : Apart(t, tip) => Apart(t, tip)'
           /\ Landed(t) => Landed(t)'
           /\ \A n \in Nat : n <= Len(main) => Works(1, n)' = Works(1, n)
<1>1. /\ main \in Seq(Commit) /\ main' \in Seq(Commit)
      /\ Len(main) \in Nat /\ Len(main') \in Nat
      /\ Len(main) <= Len(main')
      /\ Landed(t) => Landed(t)'
      /\ \A n \in Nat : n <= Len(main) => Works(1, n)' = Works(1, n)
  BY GrownFacts DEF TypeOK
<1>2. \A tip \in Tip \cup {NoTip} : Apart(t, tip) => Apart(t, tip)'
  BY <1>1 DEF Apart, Tip
<1> QED
  BY <1>1, <1>2

LEMMA CarryFacts ==
    ASSUME TypeOK, NEW t \in Task, local[t] \in Tip,
           NEW o \in {"nothing", "wip", "done"}, Carry(t, o)
    PROVE  /\ local' \in [Task -> Tip \cup {NoTip}]
           /\ local'[t] \in Tip /\ local'[t] # NoTip
           /\ local'[t].base = local[t].base
           /\ local'[t].own = o
<1>1. [base |-> local[t].base, own |-> o, stamp |-> local[t].stamp] \in Tip
  BY DEF Tip
<1> QED
  BY <1>1, NoTipAssumption DEF Carry, TypeOK

LEMMA CommitWorkKeeps ==
    ASSUME IInv, NEW t \in Task, CommitWork(t)
    PROVE  IInv'
<1> USE LaneFacts
<1>1. /\ local' \in [Task -> Tip \cup {NoTip}]
      /\ local'[t] \in Tip /\ local'[t] # NoTip
      /\ local'[t].base = local[t].base
      /\ local'[t].own = "done"
  BY CarryFacts DEF CommitWork, At
<1>2. gated' \in [Task -> SUBSET Nat]
  BY DEF CommitWork, At, TypeOK
<1>3. TypeOK'
  BY <1>1, <1>2 DEF TypeOK, CommitWork, Go, At, arbiterVars, Step
<1>4. Grown
  BY DEF CommitWork, arbiterVars, Grown
<1>5. Apart(t, local[t])' /\ Apart(t, remote[t])'
  BY <1>1, <1>4, ApartGrows DEF CommitWork, At, arbiterVars, LaneInv, CarriesWork,
         Apart, TypeOK
<1>6. HasBranch(t)' /\ CarriesWork(t)'
  BY <1>1 DEF CommitWork, Go, At, HasBranch, CarriesWork, CarryingSteps, TypeOK
<1>7. MayRelease(t)' /\ Covered(t)' /\ Safe(t)'
  BY <1>1 DEF CommitWork, Go, At, arbiterVars, LaneInv, MayRelease, Covered, Safe,
         TypeOK, Landed
<1> QED
  BY <1>3, <1>4, <1>5, <1>6, <1>7, OtherLanes
     DEF IInv, LaneInv, TypeOK, CommitWork, Carry, Go, arbiterVars

LEMMA GateRedInPlaceKeeps ==
    ASSUME IInv, NEW t \in Task, GateRedInPlace(t)
    PROVE  IInv'
<1> USE LaneFacts
<1>1. /\ local' \in [Task -> Tip \cup {NoTip}]
      /\ local'[t] \in Tip /\ local'[t] # NoTip
      /\ local'[t].base = local[t].base
      /\ local'[t].own = "wip"
      /\ \A u \in Task \ {t} : local'[u] = local[u]
  BY CarryFacts DEF GateRedInPlace, At, Carry, TypeOK
<1>3. TypeOK'
  <2>1. pc' \in [Task -> Step] /\ outcome' \in [Task -> Outcome]
    BY DEF TypeOK, GateRedInPlace, Go, Report, At, Step, Outcome
  <2>2. lock' \in [Task -> {"held", "kept", "free"}]
    BY DEF TypeOK, GateRedInPlace, Go, Report, At, arbiterVars
  <2>3. /\ main' \in Seq(Commit)
        /\ local' \in [Task -> Tip \cup {NoTip}]
        /\ remote' \in [Task -> Tip \cup {NoTip}]
    BY <1>1 DEF TypeOK, GateRedInPlace, Go, Report, At, arbiterVars
  <2>4. /\ openPR' \subseteq Task /\ surfaced' \subseteq Task
        /\ attempt' \in [Task -> Nat] /\ runs' \in [Task -> Nat]
    BY <1>1 DEF TypeOK, GateRedInPlace, Go, Report, At, arbiterVars
  <2>5. gated' \in [Task -> SUBSET Nat]
    BY <1>1 DEF TypeOK, GateRedInPlace, Go, Report, At, arbiterVars
  <2>6. faults' \in Nat
    BY ConstantsAssumption DEF TypeOK, GateRedInPlace, Go, Report, At, arbiterVars
  <2> QED
    BY <2>1, <2>2, <2>3, <2>4, <2>5, <2>6 DEF TypeOK
<1>4. Grown
  BY <1>1 DEF GateRedInPlace, Go, Report, At, arbiterVars, Grown
<1>5. Apart(t, local[t])' /\ Apart(t, remote[t])'
  BY <1>1, <1>4, ApartGrows DEF GateRedInPlace, Go, Report, At, arbiterVars,
         LaneInv, CarriesWork, Apart, TypeOK
<1>6. HasBranch(t)' /\ CarriesWork(t)'
  BY <1>1, <1>4, ApartGrows DEF GateRedInPlace, Go, Report, At, arbiterVars,
         LaneInv, HasBranch, CarriesWork, CarryingSteps, TypeOK
<1>7. MayRelease(t)' /\ Covered(t)' /\ Safe(t)'
  BY <1>1, <1>4, ApartGrows DEF GateRedInPlace, Go, Report, At, arbiterVars,
         LaneInv, CarriesWork, CarryingSteps, MayRelease, Covered, Safe, TypeOK
<1>8. \A u \in Task \ {t} :
        /\ local'[u] = local[u] /\ remote'[u] = remote[u]
        /\ pc'[u] = pc[u] /\ lock'[u] = lock[u]
        /\ u \in surfaced => u \in surfaced' \/ Landed(u)'
  BY <1>1 DEF GateRedInPlace, Go, Report, At, arbiterVars, TypeOK
<1> QED
  BY <1>3, <1>4, <1>5, <1>6, <1>7, <1>8, OtherLanes DEF IInv, LaneInv

LEMMA GateTipKeeps ==
    ASSUME IInv, NEW t \in Task, GateTip(t)
    PROVE  IInv'
<1> USE LaneFacts
<1>1. gated[t] \cup {local[t].base} \in SUBSET Nat
  BY DEF GateTip, TypeOK
<1>3. TypeOK'
  <2>1. pc' \in [Task -> Step] /\ outcome' \in [Task -> Outcome]
    BY DEF TypeOK, GateTip, Go, Report, At, Step, Outcome
  <2>2. lock' \in [Task -> {"held", "kept", "free"}]
    BY DEF TypeOK, GateTip, Go, Report, At, arbiterVars
  <2>3. /\ main' \in Seq(Commit)
        /\ local' \in [Task -> Tip \cup {NoTip}]
        /\ remote' \in [Task -> Tip \cup {NoTip}]
    BY <1>1 DEF TypeOK, GateTip, Go, Report, At, arbiterVars
  <2>4. /\ openPR' \subseteq Task /\ surfaced' \subseteq Task
        /\ attempt' \in [Task -> Nat] /\ runs' \in [Task -> Nat]
    BY <1>1 DEF TypeOK, GateTip, Go, Report, At, arbiterVars
  <2>5. gated' \in [Task -> SUBSET Nat]
    BY <1>1, ZenonT(60) DEF TypeOK, GateTip, Go, Report, At, arbiterVars
  <2>6. faults' \in Nat
    BY ConstantsAssumption DEF TypeOK, GateTip, Go, Report, At, arbiterVars
  <2> QED
    BY <2>1, <2>2, <2>3, <2>4, <2>5, <2>6 DEF TypeOK
<1>4. Grown
  BY <1>1 DEF GateTip, Go, Report, At, arbiterVars, Grown
<1>5. Apart(t, local[t])' /\ Apart(t, remote[t])'
  BY <1>1, <1>4, ApartGrows DEF GateTip, Go, Report, At, arbiterVars, LaneInv,
         CarriesWork, Apart, TypeOK
<1>6. HasBranch(t)' /\ CarriesWork(t)'
  BY <1>1, <1>4, ApartGrows DEF GateTip, Go, Report, At, arbiterVars, LaneInv,
         HasBranch, CarriesWork, CarryingSteps, TypeOK
<1>7. MayRelease(t)' /\ Covered(t)' /\ Safe(t)'
  BY <1>1, <1>4, ApartGrows DEF GateTip, Go, Report, At, arbiterVars, LaneInv,
         CarriesWork, CarryingSteps, MayRelease, Covered, Safe, TypeOK
<1>8. \A u \in Task \ {t} :
        /\ local'[u] = local[u] /\ remote'[u] = remote[u]
        /\ pc'[u] = pc[u] /\ lock'[u] = lock[u]
        /\ u \in surfaced => u \in surfaced' \/ Landed(u)'
  BY <1>1 DEF GateTip, Go, Report, At, arbiterVars, TypeOK
<1> QED
  BY <1>3, <1>4, <1>5, <1>6, <1>7, <1>8, OtherLanes DEF IInv, LaneInv

LEMMA OpenRequestKeeps ==
    ASSUME IInv, NEW t \in Task, OpenRequest(t)
    PROVE  IInv'
<1> USE LaneFacts
<1>3. TypeOK'
  <2>1. pc' \in [Task -> Step] /\ outcome' \in [Task -> Outcome]
    BY DEF TypeOK, OpenRequest, Go, At, Step, Outcome
  <2>2. lock' \in [Task -> {"held", "kept", "free"}]
    BY DEF TypeOK, OpenRequest, Go, At, arbiterVars
  <2>3. /\ main' \in Seq(Commit)
        /\ local' \in [Task -> Tip \cup {NoTip}]
        /\ remote' \in [Task -> Tip \cup {NoTip}]
    BY DEF TypeOK, OpenRequest, Go, At, arbiterVars
  <2>4. /\ openPR' \subseteq Task /\ surfaced' \subseteq Task
        /\ attempt' \in [Task -> Nat] /\ runs' \in [Task -> Nat]
    BY DEF TypeOK, OpenRequest, Go, At, arbiterVars
  <2>5. gated' \in [Task -> SUBSET Nat]
    BY DEF TypeOK, OpenRequest, Go, At, arbiterVars
  <2>6. faults' \in Nat
    BY ConstantsAssumption DEF TypeOK, OpenRequest, Go, At, arbiterVars
  <2> QED
    BY <2>1, <2>2, <2>3, <2>4, <2>5, <2>6 DEF TypeOK
<1>4. Grown
  BY DEF OpenRequest, Go, At, arbiterVars, Grown
<1>5. Apart(t, local[t])' /\ Apart(t, remote[t])'
  BY <1>4, ApartGrows DEF OpenRequest, Go, At, arbiterVars, LaneInv, CarriesWork,
         Apart, TypeOK
<1>6. HasBranch(t)' /\ CarriesWork(t)'
  BY <1>4, ApartGrows DEF OpenRequest, Go, At, arbiterVars, LaneInv, HasBranch,
         CarriesWork, CarryingSteps, TypeOK
<1>7. MayRelease(t)' /\ Covered(t)' /\ Safe(t)'
  BY <1>4, ApartGrows DEF OpenRequest, Go, At, arbiterVars, LaneInv, CarriesWork,
         CarryingSteps, MayRelease, Covered, Safe, TypeOK
<1>8. \A u \in Task \ {t} :
        /\ local'[u] = local[u] /\ remote'[u] = remote[u]
        /\ pc'[u] = pc[u] /\ lock'[u] = lock[u]
        /\ u \in surfaced => u \in surfaced' \/ Landed(u)'
  BY DEF OpenRequest, Go, At, arbiterVars, TypeOK
<1> QED
  BY <1>3, <1>4, <1>5, <1>6, <1>7, <1>8, OtherLanes DEF IInv, LaneInv

LEMMA PruneHeadKeeps ==
    ASSUME IInv, NEW t \in Task, PruneHead(t)
    PROVE  IInv'
<1> USE LaneFacts
<1>3. TypeOK'
  <2>1. pc' \in [Task -> Step] /\ outcome' \in [Task -> Outcome]
    BY DEF TypeOK, PruneHead, Go, At, Step, Outcome
  <2>2. lock' \in [Task -> {"held", "kept", "free"}]
    BY DEF TypeOK, PruneHead, Go, At, arbiterVars
  <2>3. /\ main' \in Seq(Commit)
        /\ local' \in [Task -> Tip \cup {NoTip}]
        /\ remote' \in [Task -> Tip \cup {NoTip}]
    BY DEF TypeOK, PruneHead, Go, At, arbiterVars
  <2>4. /\ openPR' \subseteq Task /\ surfaced' \subseteq Task
        /\ attempt' \in [Task -> Nat] /\ runs' \in [Task -> Nat]
    BY DEF TypeOK, PruneHead, Go, At, arbiterVars
  <2>5. gated' \in [Task -> SUBSET Nat]
    BY DEF TypeOK, PruneHead, Go, At, arbiterVars
  <2>6. faults' \in Nat
    BY ConstantsAssumption DEF TypeOK, PruneHead, Go, At, arbiterVars
  <2> QED
    BY <2>1, <2>2, <2>3, <2>4, <2>5, <2>6 DEF TypeOK
<1>4. Grown
  BY DEF PruneHead, Go, At, arbiterVars, Grown
<1>5. Apart(t, local[t])' /\ Apart(t, remote[t])'
  BY <1>4, ApartGrows DEF PruneHead, Go, At, arbiterVars, LaneInv, CarriesWork,
         Apart, TypeOK
<1>6. HasBranch(t)' /\ CarriesWork(t)'
  BY <1>4, ApartGrows DEF PruneHead, Go, At, arbiterVars, LaneInv, HasBranch,
         CarriesWork, CarryingSteps, TypeOK
<1>7. MayRelease(t)' /\ Covered(t)' /\ Safe(t)'
  BY <1>4, ApartGrows DEF PruneHead, Go, At, arbiterVars, LaneInv, CarriesWork,
         CarryingSteps, MayRelease, Covered, Safe, TypeOK
<1>8. \A u \in Task \ {t} :
        /\ local'[u] = local[u] /\ remote'[u] = remote[u]
        /\ pc'[u] = pc[u] /\ lock'[u] = lock[u]
        /\ u \in surfaced => u \in surfaced' \/ Landed(u)'
  BY DEF PruneHead, Go, At, arbiterVars, TypeOK
<1> QED
  BY <1>3, <1>4, <1>5, <1>6, <1>7, <1>8, OtherLanes DEF IInv, LaneInv

LEMMA ReleaseLockKeeps ==
    ASSUME IInv, NEW t \in Task, ReleaseLock(t)
    PROVE  IInv'
<1> USE LaneFacts
<1>3. TypeOK'
  <2>1. pc' \in [Task -> Step] /\ outcome' \in [Task -> Outcome]
    BY DEF TypeOK, ReleaseLock, Go, At, Fault, Step, Outcome
  <2>2. lock' \in [Task -> {"held", "kept", "free"}]
    BY DEF TypeOK, ReleaseLock, Go, At, Fault, arbiterVars
  <2>3. /\ main' \in Seq(Commit)
        /\ local' \in [Task -> Tip \cup {NoTip}]
        /\ remote' \in [Task -> Tip \cup {NoTip}]
    BY DEF TypeOK, ReleaseLock, Go, At, Fault, arbiterVars
  <2>4. /\ openPR' \subseteq Task /\ surfaced' \subseteq Task
        /\ attempt' \in [Task -> Nat] /\ runs' \in [Task -> Nat]
    BY DEF TypeOK, ReleaseLock, Go, At, Fault, arbiterVars
  <2>5. gated' \in [Task -> SUBSET Nat]
    BY DEF TypeOK, ReleaseLock, Go, At, Fault, arbiterVars
  <2>6. faults' \in Nat
    BY ConstantsAssumption DEF TypeOK, ReleaseLock, Go, At, Fault, arbiterVars
  <2> QED
    BY <2>1, <2>2, <2>3, <2>4, <2>5, <2>6 DEF TypeOK
<1>4. Grown
  BY DEF ReleaseLock, Go, At, Fault, arbiterVars, Grown
<1>5. Apart(t, local[t])' /\ Apart(t, remote[t])'
  BY <1>4, ApartGrows DEF ReleaseLock, Go, At, Fault, arbiterVars, LaneInv,
         CarriesWork, Apart, TypeOK
<1>6. HasBranch(t)' /\ CarriesWork(t)'
  BY <1>4, ApartGrows DEF ReleaseLock, Go, At, Fault, arbiterVars, LaneInv,
         HasBranch, CarriesWork, CarryingSteps, TypeOK
<1>7. MayRelease(t)' /\ Covered(t)' /\ Safe(t)'
  BY <1>4, ApartGrows DEF ReleaseLock, Go, At, Fault, arbiterVars, LaneInv,
         CarriesWork, CarryingSteps, MayRelease, Covered, Safe, TypeOK
<1>8. \A u \in Task \ {t} :
        /\ local'[u] = local[u] /\ remote'[u] = remote[u]
        /\ pc'[u] = pc[u] /\ lock'[u] = lock[u]
        /\ u \in surfaced => u \in surfaced' \/ Landed(u)'
  BY DEF ReleaseLock, Go, At, Fault, arbiterVars, TypeOK
<1> QED
  BY <1>3, <1>4, <1>5, <1>6, <1>7, <1>8, OtherLanes DEF IInv, LaneInv

LEMMA KeepLockKeeps ==
    ASSUME IInv, NEW t \in Task, KeepLock(t)
    PROVE  IInv'
<1> USE LaneFacts
<1>3. TypeOK'
  <2>1. pc' \in [Task -> Step] /\ outcome' \in [Task -> Outcome]
    BY DEF TypeOK, KeepLock, Go, At, Fault, MarkKept, Step, Outcome
  <2>2. lock' \in [Task -> {"held", "kept", "free"}]
    BY DEF TypeOK, KeepLock, Go, At, Fault, MarkKept, arbiterVars
  <2>3. /\ main' \in Seq(Commit)
        /\ local' \in [Task -> Tip \cup {NoTip}]
        /\ remote' \in [Task -> Tip \cup {NoTip}]
    BY DEF TypeOK, KeepLock, Go, At, Fault, MarkKept, arbiterVars
  <2>4. /\ openPR' \subseteq Task /\ surfaced' \subseteq Task
        /\ attempt' \in [Task -> Nat] /\ runs' \in [Task -> Nat]
    BY DEF TypeOK, KeepLock, Go, At, Fault, MarkKept, arbiterVars
  <2>5. gated' \in [Task -> SUBSET Nat]
    BY DEF TypeOK, KeepLock, Go, At, Fault, MarkKept, arbiterVars
  <2>6. faults' \in Nat
    BY ConstantsAssumption DEF TypeOK, KeepLock, Go, At, Fault, MarkKept,
           arbiterVars
  <2> QED
    BY <2>1, <2>2, <2>3, <2>4, <2>5, <2>6 DEF TypeOK
<1>4. Grown
  BY DEF KeepLock, Go, At, Fault, MarkKept, arbiterVars, Grown
<1>5. Apart(t, local[t])' /\ Apart(t, remote[t])'
  BY <1>4, ApartGrows DEF KeepLock, Go, At, Fault, MarkKept, arbiterVars, LaneInv,
         CarriesWork, Apart, TypeOK
<1>6. HasBranch(t)' /\ CarriesWork(t)'
  BY <1>4, ApartGrows DEF KeepLock, Go, At, Fault, MarkKept, arbiterVars, LaneInv,
         HasBranch, CarriesWork, CarryingSteps, TypeOK
<1>7. MayRelease(t)' /\ Covered(t)' /\ Safe(t)'
  BY <1>4, ApartGrows DEF KeepLock, Go, At, Fault, MarkKept, arbiterVars, LaneInv,
         CarriesWork, CarryingSteps, MayRelease, Covered, Safe, TypeOK
<1>8. \A u \in Task \ {t} :
        /\ local'[u] = local[u] /\ remote'[u] = remote[u]
        /\ pc'[u] = pc[u] /\ lock'[u] = lock[u]
        /\ u \in surfaced => u \in surfaced' \/ Landed(u)'
  BY DEF KeepLock, Go, At, Fault, MarkKept, arbiterVars, TypeOK
<1> QED
  BY <1>3, <1>4, <1>5, <1>6, <1>7, <1>8, OtherLanes DEF IInv, LaneInv

LEMMA ReapBranchKeeps ==
    ASSUME IInv, NEW t \in Task, ReapBranch(t)
    PROVE  IInv'
<1> USE LaneFacts
<1>1. OnArbiter(t) => Landed(t) \/ (remote[t] # NoTip /\ remote[t].own = "done")
  BY DEF ReapBranch, At, OnArbiter, ProvablyMerged, OnMain, Landed, LaneInv,
         CarriesWork, CarryingSteps
<1>2. \/ local'[t] = local[t]
      \/ local'[t] = NoTip
  BY DEF ReapBranch, TypeOK
<1>3. TypeOK'
  <2>1. pc' \in [Task -> Step] /\ outcome' \in [Task -> Outcome]
    BY DEF TypeOK, ReapBranch, Go, At, Step, Outcome
  <2>2. lock' \in [Task -> {"held", "kept", "free"}]
    BY DEF TypeOK, ReapBranch, Go, At, arbiterVars
  <2>3. /\ main' \in Seq(Commit)
        /\ local' \in [Task -> Tip \cup {NoTip}]
        /\ remote' \in [Task -> Tip \cup {NoTip}]
    BY <1>1, <1>2 DEF TypeOK, ReapBranch, Go, At, arbiterVars
  <2>4. /\ openPR' \subseteq Task /\ surfaced' \subseteq Task
        /\ attempt' \in [Task -> Nat] /\ runs' \in [Task -> Nat]
    BY <1>1, <1>2 DEF TypeOK, ReapBranch, Go, At, arbiterVars
  <2>5. gated' \in [Task -> SUBSET Nat]
    BY <1>1, <1>2 DEF TypeOK, ReapBranch, Go, At, arbiterVars
  <2>6. faults' \in Nat
    BY ConstantsAssumption DEF TypeOK, ReapBranch, Go, At, arbiterVars
  <2> QED
    BY <2>1, <2>2, <2>3, <2>4, <2>5, <2>6 DEF TypeOK
<1>4. Grown
  BY <1>1, <1>2 DEF ReapBranch, Go, At, arbiterVars, Grown
<1>5. Apart(t, local[t])' /\ Apart(t, remote[t])'
  BY <1>1, <1>2, <1>4, ApartGrows DEF ReapBranch, Go, At, arbiterVars, LaneInv,
         CarriesWork, Apart, TypeOK
<1>6. HasBranch(t)' /\ CarriesWork(t)'
  BY <1>1, <1>2, <1>4, ApartGrows DEF ReapBranch, Go, At, arbiterVars, LaneInv,
         HasBranch, CarriesWork, CarryingSteps, TypeOK
<1>7. MayRelease(t)' /\ Covered(t)' /\ Safe(t)'
  BY <1>1, <1>2, <1>4, ApartGrows DEF ReapBranch, Go, At, arbiterVars, LaneInv,
         CarriesWork, CarryingSteps, MayRelease, Covered, Safe, TypeOK
<1>8. \A u \in Task \ {t} :
        /\ local'[u] = local[u] /\ remote'[u] = remote[u]
        /\ pc'[u] = pc[u] /\ lock'[u] = lock[u]
        /\ u \in surfaced => u \in surfaced' \/ Landed(u)'
  BY <1>1, <1>2 DEF ReapBranch, Go, At, arbiterVars, TypeOK
<1> QED
  BY <1>3, <1>4, <1>5, <1>6, <1>7, <1>8, OtherLanes DEF IInv, LaneInv

LEMMA SaveBranchKeeps ==
    ASSUME IInv, NEW t \in Task, SaveBranch(t)
    PROVE  IInv'
<1> USE LaneFacts
<1>3. TypeOK'
  <2>1. pc' \in [Task -> Step] /\ outcome' \in [Task -> Outcome]
    BY DEF TypeOK, SaveBranch, Go, At, Step, Outcome
  <2>2. lock' \in [Task -> {"held", "kept", "free"}]
    BY DEF TypeOK, SaveBranch, Go, At, arbiterVars
  <2>3. /\ main' \in Seq(Commit)
        /\ local' \in [Task -> Tip \cup {NoTip}]
        /\ remote' \in [Task -> Tip \cup {NoTip}]
    BY DEF TypeOK, SaveBranch, Go, At, arbiterVars
  <2>4. /\ openPR' \subseteq Task /\ surfaced' \subseteq Task
        /\ attempt' \in [Task -> Nat] /\ runs' \in [Task -> Nat]
    BY DEF TypeOK, SaveBranch, Go, At, arbiterVars
  <2>5. gated' \in [Task -> SUBSET Nat]
    BY DEF TypeOK, SaveBranch, Go, At, arbiterVars
  <2>6. faults' \in Nat
    BY ConstantsAssumption DEF TypeOK, SaveBranch, Go, At, arbiterVars
  <2> QED
    BY <2>1, <2>2, <2>3, <2>4, <2>5, <2>6 DEF TypeOK
<1>4. Grown
  BY DEF SaveBranch, Go, At, arbiterVars, Grown
<1>5. Apart(t, local[t])' /\ Apart(t, remote[t])'
  BY <1>4, ApartGrows DEF SaveBranch, Go, At, arbiterVars, LaneInv, CarriesWork,
         Apart, TypeOK
<1>6. HasBranch(t)' /\ CarriesWork(t)'
  BY <1>4, ApartGrows DEF SaveBranch, Go, At, arbiterVars, LaneInv, HasBranch,
         CarriesWork, CarryingSteps, TypeOK
<1>7. MayRelease(t)' /\ Covered(t)' /\ Safe(t)'
  BY <1>4, ApartGrows DEF SaveBranch, Go, At, arbiterVars, LaneInv, CarriesWork,
         CarryingSteps, MayRelease, Covered, Safe, TypeOK
<1>8. \A u \in Task \ {t} :
        /\ local'[u] = local[u] /\ remote'[u] = remote[u]
        /\ pc'[u] = pc[u] /\ lock'[u] = lock[u]
        /\ u \in surfaced => u \in surfaced' \/ Landed(u)'
  BY DEF SaveBranch, Go, At, arbiterVars, TypeOK
<1> QED
  BY <1>3, <1>4, <1>5, <1>6, <1>7, <1>8, OtherLanes DEF IInv, LaneInv

LEMMA SurfaceKeeps ==
    ASSUME IInv, NEW t \in Task, Surface(t)
    PROVE  IInv'
<1> USE LaneFacts
<1>1. [work |-> Upkeep, tip |-> NoTip] \in Commit
  BY DEF Commit
<1>2. main' \in Seq(Commit)
  <2>1. main' = main \/ main' = Append(main, [work |-> Upkeep, tip |-> NoTip])
    BY DEF Surface
  <2> QED
    BY <1>1, <2>1
<1>3. TypeOK'
  <2>1. pc' \in [Task -> Step] /\ outcome' \in [Task -> Outcome]
    BY DEF TypeOK, Surface, Go, At, Fault, Step, Outcome
  <2>2. lock' \in [Task -> {"held", "kept", "free"}]
    BY DEF TypeOK, Surface, Go, At, Fault, arbiterVars
  <2>3. /\ main' \in Seq(Commit)
        /\ local' \in [Task -> Tip \cup {NoTip}]
        /\ remote' \in [Task -> Tip \cup {NoTip}]
    BY <1>1, <1>2 DEF TypeOK, Surface, Go, At, Fault, arbiterVars
  <2>4. /\ openPR' \subseteq Task /\ surfaced' \subseteq Task
        /\ attempt' \in [Task -> Nat] /\ runs' \in [Task -> Nat]
    BY <1>1, <1>2 DEF TypeOK, Surface, Go, At, Fault, arbiterVars
  <2>5. gated' \in [Task -> SUBSET Nat]
    BY <1>1, <1>2 DEF TypeOK, Surface, Go, At, Fault, arbiterVars
  <2>6. faults' \in Nat
    BY ConstantsAssumption DEF TypeOK, Surface, Go, At, Fault, arbiterVars
  <2> QED
    BY <2>1, <2>2, <2>3, <2>4, <2>5, <2>6 DEF TypeOK
<1>4. Grown
  BY <1>1, <1>2 DEF Surface, Go, At, Fault, arbiterVars, Grown
<1>5. Apart(t, local[t])' /\ Apart(t, remote[t])'
  BY <1>1, <1>2, <1>4, ApartGrows DEF Surface, Go, At, Fault, arbiterVars, LaneInv,
         CarriesWork, Apart, TypeOK
<1>6. HasBranch(t)' /\ CarriesWork(t)'
  BY <1>1, <1>2, <1>4, ApartGrows DEF Surface, Go, At, Fault, arbiterVars, LaneInv,
         HasBranch, CarriesWork, CarryingSteps, TypeOK
<1>7. MayRelease(t)' /\ Covered(t)' /\ Safe(t)'
  BY <1>1, <1>2, <1>4, ApartGrows DEF Surface, Go, At, Fault, arbiterVars, LaneInv,
         CarriesWork, CarryingSteps, MayRelease, Covered, Safe, TypeOK
<1>8. \A u \in Task \ {t} :
        /\ local'[u] = local[u] /\ remote'[u] = remote[u]
        /\ pc'[u] = pc[u] /\ lock'[u] = lock[u]
        /\ u \in surfaced => u \in surfaced' \/ Landed(u)'
  BY <1>1, <1>2 DEF Surface, Go, At, Fault, arbiterVars, TypeOK
<1> QED
  BY <1>3, <1>4, <1>5, <1>6, <1>7, <1>8, OtherLanes DEF IInv, LaneInv

LEMMA PushBranchKeeps ==
    ASSUME IInv, NEW t \in Task, PushBranch(t)
    PROVE  IInv'
<1> USE LaneFacts
<1>1. /\ pc[t] \in CarryingSteps
      /\ local[t].own = "done" \/ (local[t].own = "nothing" /\ Landed(t))
  BY DEF PushBranch, Landing, CarryingSteps, LaneInv, CarriesWork
<1>2. OnMain(t, local[t]) => Landed(t)
  BY <1>1 DEF OnMain, Landed
<1>3. TypeOK'
  <2>1. pc' \in [Task -> Step] /\ outcome' \in [Task -> Outcome]
    BY DEF TypeOK, PushBranch, Go, At, Report, Landing, Step, Outcome
  <2>2. lock' \in [Task -> {"held", "kept", "free"}]
    BY DEF TypeOK, PushBranch, Go, At, Report, Landing, arbiterVars
  <2>3. /\ main' \in Seq(Commit)
        /\ local' \in [Task -> Tip \cup {NoTip}]
        /\ remote' \in [Task -> Tip \cup {NoTip}]
    BY <1>1, <1>2 DEF TypeOK, PushBranch, Go, At, Report, Landing, arbiterVars
  <2>4. /\ openPR' \subseteq Task /\ surfaced' \subseteq Task
        /\ attempt' \in [Task -> Nat] /\ runs' \in [Task -> Nat]
    BY <1>1, <1>2 DEF TypeOK, PushBranch, Go, At, Report, Landing, arbiterVars
  <2>5. gated' \in [Task -> SUBSET Nat]
    BY <1>1, <1>2 DEF TypeOK, PushBranch, Go, At, Report, Landing, arbiterVars
  <2>6. faults' \in Nat
    BY ConstantsAssumption DEF TypeOK, PushBranch, Go, At, Report, Landing,
           arbiterVars
  <2> QED
    BY <2>1, <2>2, <2>3, <2>4, <2>5, <2>6 DEF TypeOK
<1>4. Grown
  BY <1>1, <1>2 DEF PushBranch, Go, At, Report, Landing, arbiterVars, Grown
<1>5. Apart(t, local[t])' /\ Apart(t, remote[t])'
  BY <1>1, <1>2, <1>4, ApartGrows, ZenonT(60)
     DEF PushBranch, Go, At, Report, Landing, arbiterVars, LaneInv, CarriesWork,
         Apart, TypeOK
<1>6. HasBranch(t)' /\ CarriesWork(t)'
  BY <1>1, <1>2, <1>4, ApartGrows DEF PushBranch, Go, At, Report, Landing,
         arbiterVars, LaneInv, HasBranch, CarriesWork, CarryingSteps, TypeOK
<1>7. MayRelease(t)' /\ Covered(t)' /\ Safe(t)'
  BY <1>1, <1>2, <1>4, ApartGrows DEF PushBranch, Go, At, Report, Landing,
         arbiterVars, LaneInv, CarriesWork, CarryingSteps, MayRelease, Covered,
         Safe, TypeOK
<1>8. \A u \in Task \ {t} :
        /\ local'[u] = local[u] /\ remote'[u] = remote[u]
        /\ pc'[u] = pc[u] /\ lock'[u] = lock[u]
        /\ u \in surfaced => u \in surfaced' \/ Landed(u)'
  BY <1>1, <1>2 DEF PushBranch, Go, At, Report, Landing, arbiterVars, TypeOK
<1> QED
  BY <1>3, <1>4, <1>5, <1>6, <1>7, <1>8, OtherLanes DEF IInv, LaneInv

LEMMA PushBranchLostKeeps ==
    ASSUME IInv, NEW t \in Task, PushBranchLost(t)
    PROVE  IInv'
<1> USE LaneFacts
<1>3. TypeOK'
  <2>1. pc' \in [Task -> Step] /\ outcome' \in [Task -> Outcome]
    BY DEF TypeOK, PushBranchLost, Go, At, Report, Landing, Quit, Fault, Step,
           Outcome
  <2>2. lock' \in [Task -> {"held", "kept", "free"}]
    BY DEF TypeOK, PushBranchLost, Go, At, Report, Landing, Quit, Fault, arbiterVars
  <2>3. /\ main' \in Seq(Commit)
        /\ local' \in [Task -> Tip \cup {NoTip}]
        /\ remote' \in [Task -> Tip \cup {NoTip}]
    BY DEF TypeOK, PushBranchLost, Go, At, Report, Landing, Quit, Fault, arbiterVars
  <2>4. /\ openPR' \subseteq Task /\ surfaced' \subseteq Task
        /\ attempt' \in [Task -> Nat] /\ runs' \in [Task -> Nat]
    BY DEF TypeOK, PushBranchLost, Go, At, Report, Landing, Quit, Fault, arbiterVars
  <2>5. gated' \in [Task -> SUBSET Nat]
    BY DEF TypeOK, PushBranchLost, Go, At, Report, Landing, Quit, Fault, arbiterVars
  <2>6. faults' \in Nat
    BY ConstantsAssumption DEF TypeOK, PushBranchLost, Go, At, Report, Landing,
           Quit, Fault, arbiterVars
  <2> QED
    BY <2>1, <2>2, <2>3, <2>4, <2>5, <2>6 DEF TypeOK
<1>4. Grown
  BY DEF PushBranchLost, Go, At, Report, Landing, Quit, Fault, arbiterVars, Grown
<1>5. Apart(t, local[t])' /\ Apart(t, remote[t])'
  BY <1>4, ApartGrows DEF PushBranchLost, Go, At, Report, Landing, Quit, Fault,
         arbiterVars, LaneInv, CarriesWork, Apart, TypeOK
<1>6. HasBranch(t)' /\ CarriesWork(t)'
  BY <1>4, ApartGrows DEF PushBranchLost, Go, At, Report, Landing, Quit, Fault,
         arbiterVars, LaneInv, HasBranch, CarriesWork, CarryingSteps, TypeOK
<1>7. MayRelease(t)' /\ Covered(t)' /\ Safe(t)'
  BY <1>4, ApartGrows DEF PushBranchLost, Go, At, Report, Landing, Quit, Fault,
         arbiterVars, LaneInv, CarriesWork, CarryingSteps, MayRelease, Covered,
         Safe, TypeOK
<1>8. \A u \in Task \ {t} :
        /\ local'[u] = local[u] /\ remote'[u] = remote[u]
        /\ pc'[u] = pc[u] /\ lock'[u] = lock[u]
        /\ u \in surfaced => u \in surfaced' \/ Landed(u)'
  BY DEF PushBranchLost, Go, At, Report, Landing, Quit, Fault, arbiterVars, TypeOK
<1> QED
  BY <1>3, <1>4, <1>5, <1>6, <1>7, <1>8, OtherLanes DEF IInv, LaneInv

LEMMA CrashKeeps ==
    ASSUME IInv, NEW t \in Task, Crash(t)
    PROVE  IInv'
<1> USE LaneFacts
<1>3. TypeOK'
  <2>1. pc' \in [Task -> Step] /\ outcome' \in [Task -> Outcome]
    BY DEF TypeOK, Crash, Go, At, Report, Quit, Fault, Step, Outcome
  <2>2. lock' \in [Task -> {"held", "kept", "free"}]
    BY DEF TypeOK, Crash, Go, At, Report, Quit, Fault, arbiterVars
  <2>3. /\ main' \in Seq(Commit)
        /\ local' \in [Task -> Tip \cup {NoTip}]
        /\ remote' \in [Task -> Tip \cup {NoTip}]
    BY DEF TypeOK, Crash, Go, At, Report, Quit, Fault, arbiterVars
  <2>4. /\ openPR' \subseteq Task /\ surfaced' \subseteq Task
        /\ attempt' \in [Task -> Nat] /\ runs' \in [Task -> Nat]
    BY DEF TypeOK, Crash, Go, At, Report, Quit, Fault, arbiterVars
  <2>5. gated' \in [Task -> SUBSET Nat]
    BY DEF TypeOK, Crash, Go, At, Report, Quit, Fault, arbiterVars
  <2>6. faults' \in Nat
    BY ConstantsAssumption DEF TypeOK, Crash, Go, At, Report, Quit, Fault,
           arbiterVars
  <2> QED
    BY <2>1, <2>2, <2>3, <2>4, <2>5, <2>6 DEF TypeOK
<1>4. Grown
  BY DEF Crash, Go, At, Report, Quit, Fault, arbiterVars, Grown
<1>5. Apart(t, local[t])' /\ Apart(t, remote[t])'
  BY <1>4, ApartGrows DEF Crash, Go, At, Report, Quit, Fault, arbiterVars, LaneInv,
         CarriesWork, Apart, TypeOK
<1>6. HasBranch(t)' /\ CarriesWork(t)'
  BY <1>4, ApartGrows DEF Crash, Go, At, Report, Quit, Fault, arbiterVars, LaneInv,
         HasBranch, CarriesWork, CarryingSteps, TypeOK
<1>7. MayRelease(t)' /\ Covered(t)' /\ Safe(t)'
  BY <1>4, ApartGrows DEF Crash, Go, At, Report, Quit, Fault, arbiterVars, LaneInv,
         CarriesWork, CarryingSteps, MayRelease, Covered, Safe, TypeOK
<1>8. \A u \in Task \ {t} :
        /\ local'[u] = local[u] /\ remote'[u] = remote[u]
        /\ pc'[u] = pc[u] /\ lock'[u] = lock[u]
        /\ u \in surfaced => u \in surfaced' \/ Landed(u)'
  BY DEF Crash, Go, At, Report, Quit, Fault, arbiterVars, TypeOK
<1> QED
  BY <1>3, <1>4, <1>5, <1>6, <1>7, <1>8, OtherLanes DEF IInv, LaneInv

LEMMA RerunKeeps ==
    ASSUME IInv, NEW t \in Task, Rerun(t)
    PROVE  IInv'
<1> USE LaneFacts
<1>1. local[t] \in Tip /\ local[t].base \in Nat /\ local[t].base <= Len(main)
  BY DEF Rerun, LaneInv, Apart, TypeOK, Tip
<1>2. /\ DoneMoved(t) => local[t].own = "done" \/ (local[t].own = "nothing" /\ Landed(t))
      /\ ~DoneMoved(t) => t \notin Works(1, local[t].base)
  BY <1>1, WorksAreLanded DEF DoneMoved, LaneInv, Apart, Rerun, Tip
<1>3. TypeOK'
  <2>1. pc' \in [Task -> Step] /\ outcome' \in [Task -> Outcome]
    BY DEF TypeOK, Rerun, Go, At, Report, Step, Outcome
  <2>2. lock' \in [Task -> {"held", "kept", "free"}]
    BY DEF TypeOK, Rerun, Go, At, Report, arbiterVars
  <2>3. /\ main' \in Seq(Commit)
        /\ local' \in [Task -> Tip \cup {NoTip}]
        /\ remote' \in [Task -> Tip \cup {NoTip}]
    BY <1>1, <1>2 DEF TypeOK, Rerun, Go, At, Report, arbiterVars
  <2>4. /\ openPR' \subseteq Task /\ surfaced' \subseteq Task
        /\ attempt' \in [Task -> Nat] /\ runs' \in [Task -> Nat]
    BY <1>1, <1>2 DEF TypeOK, Rerun, Go, At, Report, arbiterVars
  <2>5. gated' \in [Task -> SUBSET Nat]
    BY <1>1, <1>2 DEF TypeOK, Rerun, Go, At, Report, arbiterVars
  <2>6. faults' \in Nat
    BY ConstantsAssumption DEF TypeOK, Rerun, Go, At, Report, arbiterVars
  <2> QED
    BY <2>1, <2>2, <2>3, <2>4, <2>5, <2>6 DEF TypeOK
<1>4. Grown
  BY <1>1, <1>2 DEF Rerun, Go, At, Report, arbiterVars, Grown
<1>5. Apart(t, local[t])' /\ Apart(t, remote[t])'
  BY <1>1, <1>2, <1>4, ApartGrows DEF Rerun, Go, At, Report, arbiterVars, LaneInv,
         CarriesWork, Apart, TypeOK
<1>6. HasBranch(t)' /\ CarriesWork(t)'
  BY <1>1, <1>2, <1>4, ApartGrows DEF Rerun, Go, At, Report, arbiterVars, LaneInv,
         HasBranch, CarriesWork, CarryingSteps, TypeOK
<1>7. MayRelease(t)' /\ Covered(t)' /\ Safe(t)'
  BY <1>1, <1>2, <1>4, ApartGrows DEF Rerun, Go, At, Report, arbiterVars, LaneInv,
         CarriesWork, CarryingSteps, MayRelease, Covered, Safe, TypeOK
<1>8. \A u \in Task \ {t} :
        /\ local'[u] = local[u] /\ remote'[u] = remote[u]
        /\ pc'[u] = pc[u] /\ lock'[u] = lock[u]
        /\ u \in surfaced => u \in surfaced' \/ Landed(u)'
  BY <1>1, <1>2 DEF Rerun, Go, At, Report, arbiterVars, TypeOK
<1> QED
  BY <1>3, <1>4, <1>5, <1>6, <1>7, <1>8, OtherLanes DEF IInv, LaneInv

LEMMA MergePRKeeps ==
    ASSUME IInv, NEW t \in Task, MergePR(t)
    PROVE  IInv'
<1> USE LaneFacts
<1>1. PICK tip \in {remote[t], NoTip} :
          main' = Append(main, [work |-> t, tip |-> tip])
  BY DEF MergePR
<1>2. [work |-> t, tip |-> tip] \in Commit
  BY <1>1 DEF MergePR, TypeOK, Commit
<1>3. Grown /\ main' \in Seq(Commit)
  BY <1>1, <1>2 DEF Grown
<1>4. Landed(t)'
  BY <1>1, AppendLands
<1>5. TypeOK'
  BY <1>3 DEF TypeOK, MergePR
<1>6. Apart(t, local[t])' /\ Apart(t, remote[t])'
  BY <1>3, ApartGrows DEF MergePR, LaneInv, Apart, TypeOK
<1>7. CarriesWork(t)'
  BY <1>3, <1>4, ApartGrows DEF MergePR, LaneInv, CarriesWork, CarryingSteps
<1>8. HasBranch(t)' /\ MayRelease(t)' /\ Covered(t)' /\ Safe(t)'
  BY <1>4 DEF MergePR, LaneInv, HasBranch, MayRelease, Covered, Safe
<1>9. \A u \in Task \ {t} :
        /\ local'[u] = local[u] /\ remote'[u] = remote[u]
        /\ pc'[u] = pc[u] /\ lock'[u] = lock[u]
        /\ u \in surfaced => u \in surfaced' \/ Landed(u)'
  BY DEF MergePR, TypeOK
<1> QED
  BY <1>3, <1>5, <1>6, <1>7, <1>8, <1>9, OtherLanes DEF IInv, LaneInv

\* A merge push: what PushMain does to main, and PushMainLost may do.
LEMMA MergePushFacts ==
    ASSUME IInv, NEW t \in Task, Landing(t, "merge"), MergePush(t)
    PROVE  /\ Grown /\ main' \in Seq(Commit)
           /\ surfaced' \subseteq surfaced
           /\ Landed(t)'
           /\ \A u \in Task \ {t} : u \in surfaced => u \in surfaced'
<1> USE LaneFacts
<1>1. /\ local[t] # NoTip
      /\ local[t].own = "done" \/ (local[t].own = "nothing" /\ Landed(t))
  BY DEF Landing, LaneInv, CarriesWork, CarryingSteps
<1>2. CASE local[t].own = "nothing"
  BY <1>1, <1>2 DEF MergePush, Grown, Landed
<1>3. CASE local[t].own # "nothing"
  <2>1. FastForward(t) /\ Land(t, local[t].base, local[t])
    BY <1>3 DEF MergePush
  <2>2. /\ main' = Append(main, [work |-> t, tip |-> local[t]])
        /\ [work |-> t, tip |-> local[t]] \in Commit
    BY <1>1, <2>1, FastForwardLands
  <2>3. Grown /\ main' \in Seq(Commit)
    BY <2>2 DEF Grown
  <2>4. Landed(t)'
    BY <2>2, AppendLands
  <2> QED
    BY <2>1, <2>3, <2>4 DEF Land
<1> QED
  BY <1>2, <1>3

LEMMA PushMainKeeps ==
    ASSUME IInv, NEW t \in Task, PushMain(t)
    PROVE  IInv'
<1> USE LaneFacts
<1>1. /\ Grown /\ main' \in Seq(Commit)
      /\ surfaced' \subseteq surfaced
      /\ Landed(t)'
      /\ \A u \in Task \ {t} : u \in surfaced => u \in surfaced'
  BY MergePushFacts DEF PushMain
<1>3. TypeOK'
  <2>1. pc' \in [Task -> Step] /\ outcome' \in [Task -> Outcome]
    BY DEF TypeOK, PushMain, Go, Report, At, Landing, Step, Outcome
  <2>2. lock' \in [Task -> {"held", "kept", "free"}]
    BY DEF TypeOK, PushMain, Go, Report, At, Landing, arbiterVars
  <2>3. /\ main' \in Seq(Commit)
        /\ local' \in [Task -> Tip \cup {NoTip}]
        /\ remote' \in [Task -> Tip \cup {NoTip}]
    BY <1>1 DEF TypeOK, PushMain, Go, Report, At, Landing, arbiterVars
  <2>4. /\ openPR' \subseteq Task /\ surfaced' \subseteq Task
        /\ attempt' \in [Task -> Nat] /\ runs' \in [Task -> Nat]
    BY <1>1 DEF TypeOK, PushMain, Go, Report, At, Landing, arbiterVars
  <2>5. gated' \in [Task -> SUBSET Nat]
    BY <1>1 DEF TypeOK, PushMain, Go, Report, At, Landing, arbiterVars
  <2>6. faults' \in Nat
    BY ConstantsAssumption DEF TypeOK, PushMain, Go, Report, At, Landing,
           arbiterVars
  <2> QED
    BY <2>1, <2>2, <2>3, <2>4, <2>5, <2>6 DEF TypeOK
<1>4. Grown
  BY <1>1 DEF PushMain, Go, Report, At, Landing, arbiterVars, Grown
<1>5. Apart(t, local[t])' /\ Apart(t, remote[t])'
  BY <1>1, <1>4, ApartGrows DEF PushMain, Go, Report, At, Landing, arbiterVars,
         LaneInv, CarriesWork, Apart, TypeOK
<1>6. HasBranch(t)' /\ CarriesWork(t)'
  BY <1>1, <1>4, ApartGrows DEF PushMain, Go, Report, At, Landing, arbiterVars,
         LaneInv, HasBranch, CarriesWork, CarryingSteps, TypeOK
<1>7. MayRelease(t)' /\ Covered(t)' /\ Safe(t)'
  BY <1>1, <1>4, ApartGrows DEF PushMain, Go, Report, At, Landing, arbiterVars,
         LaneInv, CarriesWork, CarryingSteps, MayRelease, Covered, Safe, TypeOK
<1>8. \A u \in Task \ {t} :
        /\ local'[u] = local[u] /\ remote'[u] = remote[u]
        /\ pc'[u] = pc[u] /\ lock'[u] = lock[u]
        /\ u \in surfaced => u \in surfaced' \/ Landed(u)'
  BY <1>1 DEF PushMain, Go, Report, At, Landing, arbiterVars, TypeOK
<1> QED
  BY <1>3, <1>4, <1>5, <1>6, <1>7, <1>8, OtherLanes DEF IInv, LaneInv

LEMMA PushMainLostKeeps ==
    ASSUME IInv, NEW t \in Task, PushMainLost(t)
    PROVE  IInv'
<1> USE LaneFacts
<1>1. /\ Grown /\ main' \in Seq(Commit)
      /\ surfaced' \subseteq surfaced
      /\ \A u \in Task \ {t} : u \in surfaced => u \in surfaced'
      /\ t \in surfaced => t \in surfaced' \/ Landed(t)'
  BY MergePushFacts DEF PushMainLost, Grown
<1>3. TypeOK'
  <2>1. pc' \in [Task -> Step] /\ outcome' \in [Task -> Outcome]
    BY DEF TypeOK, PushMainLost, Go, Report, At, Landing, Quit, Fault, Step, Outcome
  <2>2. lock' \in [Task -> {"held", "kept", "free"}]
    BY DEF TypeOK, PushMainLost, Go, Report, At, Landing, Quit, Fault, arbiterVars
  <2>3. /\ main' \in Seq(Commit)
        /\ local' \in [Task -> Tip \cup {NoTip}]
        /\ remote' \in [Task -> Tip \cup {NoTip}]
    BY <1>1 DEF TypeOK, PushMainLost, Go, Report, At, Landing, Quit, Fault,
           arbiterVars
  <2>4. /\ openPR' \subseteq Task /\ surfaced' \subseteq Task
        /\ attempt' \in [Task -> Nat] /\ runs' \in [Task -> Nat]
    BY <1>1 DEF TypeOK, PushMainLost, Go, Report, At, Landing, Quit, Fault,
           arbiterVars
  <2>5. gated' \in [Task -> SUBSET Nat]
    BY <1>1 DEF TypeOK, PushMainLost, Go, Report, At, Landing, Quit, Fault,
           arbiterVars
  <2>6. faults' \in Nat
    BY ConstantsAssumption DEF TypeOK, PushMainLost, Go, Report, At, Landing, Quit,
           Fault, arbiterVars
  <2> QED
    BY <2>1, <2>2, <2>3, <2>4, <2>5, <2>6 DEF TypeOK
<1>4. Grown
  BY <1>1 DEF PushMainLost, Go, Report, At, Landing, Quit, Fault, arbiterVars, Grown
<1>5. Apart(t, local[t])' /\ Apart(t, remote[t])'
  BY <1>1, <1>4, ApartGrows DEF PushMainLost, Go, Report, At, Landing, Quit, Fault,
         arbiterVars, LaneInv, CarriesWork, Apart, TypeOK
<1>6. HasBranch(t)' /\ CarriesWork(t)'
  BY <1>1, <1>4, ApartGrows DEF PushMainLost, Go, Report, At, Landing, Quit, Fault,
         arbiterVars, LaneInv, HasBranch, CarriesWork, CarryingSteps, TypeOK
<1>7. MayRelease(t)' /\ Covered(t)' /\ Safe(t)'
  BY <1>1, <1>4, ApartGrows DEF PushMainLost, Go, Report, At, Landing, Quit, Fault,
         arbiterVars, LaneInv, CarriesWork, CarryingSteps, MayRelease, Covered,
         Safe, TypeOK
<1>8. \A u \in Task \ {t} :
        /\ local'[u] = local[u] /\ remote'[u] = remote[u]
        /\ pc'[u] = pc[u] /\ lock'[u] = lock[u]
        /\ u \in surfaced => u \in surfaced' \/ Landed(u)'
  BY <1>1 DEF PushMainLost, Go, Report, At, Landing, Quit, Fault, arbiterVars,
         TypeOK
<1> QED
  BY <1>3, <1>4, <1>5, <1>6, <1>7, <1>8, OtherLanes DEF IInv, LaneInv

LEMMA PushMainRejectedKeeps ==
    ASSUME IInv, NEW t \in Task, PushMainRejected(t)
    PROVE  IInv'
<1> USE LaneFacts
<1>1. /\ pc[t] \in CarryingSteps
      /\ local[t].own = "done" \/ (local[t].own = "nothing" /\ Landed(t))
  BY DEF PushMainRejected, Landing, CarryingSteps, LaneInv, CarriesWork
<1>2. /\ OnMain(t, local[t]) => Landed(t)
      /\ ~OnMain(t, local[t]) => local[t].own = "done"
  BY <1>1 DEF OnMain, Landed
<1>3. TypeOK'
  <2>1. pc' \in [Task -> Step] /\ outcome' \in [Task -> Outcome]
    BY DEF TypeOK, PushMainRejected, Go, Report, At, Landing, Step, Outcome
  <2>2. lock' \in [Task -> {"held", "kept", "free"}]
    BY DEF TypeOK, PushMainRejected, Go, Report, At, Landing, arbiterVars
  <2>3. /\ main' \in Seq(Commit)
        /\ local' \in [Task -> Tip \cup {NoTip}]
        /\ remote' \in [Task -> Tip \cup {NoTip}]
    BY <1>1, <1>2 DEF TypeOK, PushMainRejected, Go, Report, At, Landing, arbiterVars
  <2>4. /\ openPR' \subseteq Task /\ surfaced' \subseteq Task
        /\ attempt' \in [Task -> Nat] /\ runs' \in [Task -> Nat]
    BY <1>1, <1>2 DEF TypeOK, PushMainRejected, Go, Report, At, Landing, arbiterVars
  <2>5. gated' \in [Task -> SUBSET Nat]
    BY <1>1, <1>2 DEF TypeOK, PushMainRejected, Go, Report, At, Landing, arbiterVars
  <2>6. faults' \in Nat
    BY ConstantsAssumption DEF TypeOK, PushMainRejected, Go, Report, At, Landing,
           arbiterVars
  <2> QED
    BY <2>1, <2>2, <2>3, <2>4, <2>5, <2>6 DEF TypeOK
<1>4. Grown
  BY <1>1, <1>2 DEF PushMainRejected, Go, Report, At, Landing, arbiterVars, Grown
<1>5. Apart(t, local[t])' /\ Apart(t, remote[t])'
  BY <1>1, <1>2, <1>4, ApartGrows DEF PushMainRejected, Go, Report, At, Landing,
         arbiterVars, LaneInv, CarriesWork, Apart, TypeOK
<1>6. HasBranch(t)' /\ CarriesWork(t)'
  BY <1>1, <1>2, <1>4, ApartGrows DEF PushMainRejected, Go, Report, At, Landing,
         arbiterVars, LaneInv, HasBranch, CarriesWork, CarryingSteps, TypeOK
<1>7. MayRelease(t)' /\ Covered(t)' /\ Safe(t)'
  BY <1>1, <1>2, <1>4, ApartGrows DEF PushMainRejected, Go, Report, At, Landing,
         arbiterVars, LaneInv, CarriesWork, CarryingSteps, MayRelease, Covered,
         Safe, TypeOK
<1>8. \A u \in Task \ {t} :
        /\ local'[u] = local[u] /\ remote'[u] = remote[u]
        /\ pc'[u] = pc[u] /\ lock'[u] = lock[u]
        /\ u \in surfaced => u \in surfaced' \/ Landed(u)'
  BY <1>1, <1>2 DEF PushMainRejected, Go, Report, At, Landing, arbiterVars, TypeOK
<1> QED
  BY <1>3, <1>4, <1>5, <1>6, <1>7, <1>8, OtherLanes DEF IInv, LaneInv


LEMMA RebaseWorkKeeps ==
    ASSUME IInv, NEW t \in Task, RebaseWork(t)
    PROVE  IInv'
<1> USE LaneFacts
<1>1. /\ main' = main /\ remote' = remote /\ openPR' = openPR
      /\ lock' = lock /\ surfaced' = surfaced
      /\ attempt' = attempt /\ gated' = gated /\ runs' = runs /\ faults' = faults
      /\ pc[t] \in {"rebasing", "retrying"}
      /\ local[t] # NoTip /\ local[t].own = "done"
  BY DEF RebaseWork, arbiterVars, LaneInv, CarriesWork
<1>2. /\ Grown
      /\ Apart(t, local[t])
      /\ Apart(t, remote[t])'
  BY <1>1 DEF Grown, LaneInv, Apart, Works
<1>3. CASE /\ CleanRebase(t)
           /\ Rebased(t, At(t, "retrying") /\ Stamp(t, Len(main)))
           /\ Go(t, IF At(t, "rebasing") /\ Gate[t] = "fresh"
                    THEN "gating" ELSE "landing")
           /\ UNCHANGED outcome
  <2> DEFINE s == At(t, "retrying") /\ Stamp(t, Len(main))
  <2>1. s \in BOOLEAN
    BY DEF At, Stamp
  <2>2. /\ local' \in [Task -> Tip \cup {NoTip}]
        /\ local'[t] # NoTip
        /\ Apart(t, local[t])'
        /\ \/ local'[t].own = "done"
           \/ local'[t].own = "nothing" /\ Landed(t)'
    <3> HIDE DEF s
    <3>1. Rebased(t, s) /\ CleanRebase(t)
      BY <1>3 DEF s
    <3> QED
      BY <1>1, <1>2, <2>1, <3>1, RebasedFacts
  <2>3. \A u \in Task \ {t} : local'[u] = local[u] /\ pc'[u] = pc[u]
    BY <1>3 DEF Rebased, Go, TypeOK
  <2>4. pc'[t] \in {"gating", "landing"} /\ pc' \in [Task -> Step] /\ outcome' = outcome
    BY <1>3 DEF Go, TypeOK, Step
  <2>5. TypeOK'
    BY <1>1, <2>2, <2>4 DEF TypeOK
  <2>6. HasBranch(t)' /\ CarriesWork(t)'
    BY <2>2, <2>4 DEF HasBranch, CarriesWork
  <2>7. MayRelease(t)' /\ Covered(t)' /\ Safe(t)'
    BY <1>1, <2>2, <2>4 DEF MayRelease, Covered, Safe, LaneInv, Landed
  <2> QED
    BY <1>1, <1>2, <2>2, <2>3, <2>5, <2>6, <2>7, OtherLanes DEF IInv, LaneInv
<1>4. CASE Go(t, "saving") /\ Report(t, "conflict") /\ UNCHANGED local
  <2>1. TypeOK'
    BY <1>1, <1>4 DEF TypeOK, Go, Report, Step, Outcome
  <2>2. pc'[t] = "saving" /\ \A u \in Task \ {t} : pc'[u] = pc[u]
    BY <1>4 DEF Go, TypeOK
  <2>3. LaneInv(t)'
    BY <1>1, <1>2, <1>4, <2>2
       DEF LaneInv, HasBranch, CarriesWork, CarryingSteps, MayRelease, Covered,
           Safe, Landed, Apart, Works
  <2> QED
    BY <1>1, <1>2, <1>4, <2>1, <2>2, <2>3, OtherLanes DEF IInv
<1> QED
  BY <1>3, <1>4 DEF RebaseWork

LEMMA RecoverKeeps ==
    ASSUME IInv, NEW t \in Task, Recover(t)
    PROVE  IInv'
<1> USE LaneFacts
<1>1. /\ main' = main /\ remote' = remote /\ openPR' = openPR
      /\ lock' = lock /\ surfaced' = surfaced
      /\ gated' = gated /\ runs' = runs /\ faults' = faults
      /\ pc[t] = "recovering" /\ local[t] # NoTip
      /\ local[t].own = "done" \/ (local[t].own = "nothing" /\ Landed(t))
  BY DEF Recover, At, arbiterVars, LaneInv, CarriesWork, CarryingSteps
<1>2. /\ Grown
      /\ Apart(t, local[t])
      /\ Apart(t, remote[t])'
  BY <1>1 DEF Grown, LaneInv, Apart, Works
<1>3. /\ OnMain(t, local[t]) => Landed(t)
      /\ ~OnMain(t, local[t]) => local[t].own = "done"
  BY <1>1 DEF OnMain, Landed
<1>4. CASE /\ ~OnMain(t, local[t])
           /\ CleanRebase(t)
           /\ Rebased(t, FALSE)
           /\ Go(t, IF Gate[t] = "fresh" THEN "gatingKept" ELSE "landingKept")
           /\ UNCHANGED <<outcome, attempt>>
  <2>2. /\ local' \in [Task -> Tip \cup {NoTip}]
        /\ local'[t] # NoTip
        /\ Apart(t, local[t])'
        /\ \/ local'[t].own = "done"
           \/ local'[t].own = "nothing" /\ Landed(t)'
    BY <1>1, <1>2, <1>3, <1>4, RebasedFacts
  <2>3. \A u \in Task \ {t} : local'[u] = local[u] /\ pc'[u] = pc[u]
    BY <1>4 DEF Rebased, Go, TypeOK
  <2>4. /\ pc'[t] \in {"gatingKept", "landingKept"} /\ pc' \in [Task -> Step]
        /\ outcome' = outcome /\ attempt' = attempt
    BY <1>4 DEF Go, TypeOK, Step
  <2>5. TypeOK'
    BY <1>1, <2>2, <2>4 DEF TypeOK
  <2>6. HasBranch(t)' /\ CarriesWork(t)'
    BY <2>2, <2>4 DEF HasBranch, CarriesWork
  <2>7. MayRelease(t)' /\ Covered(t)' /\ Safe(t)'
    BY <1>1, <2>2, <2>4 DEF MayRelease, Covered, Safe, LaneInv, Landed
  <2> QED
    BY <1>1, <1>2, <2>2, <2>3, <2>5, <2>6, <2>7, OtherLanes DEF IInv, LaneInv
<1>5. ASSUME /\ local' = local
             /\ \A u \in Task \ {t} : pc'[u] = pc[u]
             /\ \/ pc'[t] \in {"over", "recovering"}
                \/ pc'[t] = "lettingGo" /\ Landed(t),
             TypeOK'
      PROVE  IInv'
  <2>1. Apart(t, local[t])' /\ (Landed(t)' <=> Landed(t))
    BY <1>1, <1>2, <1>5 DEF Landed, Apart, Works
  <2>2. HasBranch(t)' /\ CarriesWork(t)'
    BY <1>1, <1>5, <2>1 DEF HasBranch, CarriesWork, CarryingSteps
  <2>3. MayRelease(t)' /\ Covered(t)' /\ Safe(t)'
    BY <1>1, <1>5, <2>1 DEF LaneInv, MayRelease, Covered, Safe, Landed
  <2>4. LaneInv(t)'
    BY <1>1, <1>2, <2>1, <2>2, <2>3 DEF LaneInv
  <2> QED
    BY <1>1, <1>2, <1>5, <2>4, OtherLanes DEF IInv
<1>6. CASE /\ OnMain(t, local[t])
           /\ Go(t, "lettingGo") /\ Report(t, "alreadyOnMain")
           /\ UNCHANGED <<local, attempt>>
  <2>1. TypeOK'
    BY <1>1, <1>6 DEF TypeOK, Go, Report, Step, Outcome
  <2> QED
    BY <1>3, <1>5, <1>6, <2>1 DEF Go, TypeOK
<1>7. CASE /\ CountRetry(t)
           /\ UNCHANGED <<local, pc, outcome>>
  <2>1. attempt' \in [Task -> Nat]
    BY <1>7 DEF CountRetry, TypeOK
  <2>2. TypeOK'
    BY <1>1, <1>7, <2>1 DEF TypeOK
  <2> QED
    BY <1>1, <1>5, <1>7, <2>2
<1>8. CASE Quit(t, "conflict") /\ UNCHANGED <<local, attempt>>
  <2>1. TypeOK'
    BY <1>1, <1>8 DEF TypeOK, Quit, Go, Report, Step, Outcome
  <2> QED
    BY <1>5, <1>8, <2>1 DEF Quit, Go, TypeOK
<1> QED
  BY <1>4, <1>6, <1>7, <1>8 DEF Recover

LEMMA OtherWriterKeeps ==
    ASSUME IInv, OtherWriter
    PROVE  IInv'
<1>1. [work |-> Upkeep, tip |-> NoTip] \in Commit
  BY DEF Commit
<1>2. Grown /\ main' \in Seq(Commit)
  BY <1>1 DEF OtherWriter, Grown, IInv, TypeOK
<1>3. TypeOK'
  BY <1>2 DEF OtherWriter, IInv, TypeOK
<1>4. \A u \in Task : LaneInv(u)'
  BY <1>2, LaneFrame DEF IInv, OtherWriter
<1> QED
  BY <1>3, <1>4 DEF IInv

LEMMA StutterKeeps ==
    ASSUME IInv, UNCHANGED vars
    PROVE  IInv'
<1>1. Grown
  BY DEF vars, Grown
<1>2. TypeOK'
  BY DEF vars, IInv, TypeOK
<1>3. \A u \in Task : LaneInv(u)'
  BY <1>1, LaneFrame DEF IInv, vars
<1> QED
  BY <1>2, <1>3 DEF IInv

-----------------------------------------------------------------------------
(* The theorems *)

LEMMA InitHolds ==
    ASSUME Init
    PROVE  IInv
<1>1. /\ main \in Seq(Commit) /\ Len(main) = 0
      /\ Works(1, 0) = {}
  BY DEF Init, Works
<1>2. Fresh \in Tip /\ Fresh # NoTip /\ Fresh.base = 0
  <2>1. Fresh \in Tip /\ Fresh.base = 0
    BY DEF Fresh, Tip
  <2> QED
    BY <2>1, NoTipAssumption
<1>3. TypeOK
  BY <1>1, <1>2 DEF Init, TypeOK, Step, Outcome
<1>4. ASSUME NEW t \in Task
      PROVE  LaneInv(t)
  <2>1. local[t] = Fresh /\ remote[t] = NoTip /\ pc[t] = "working" /\ lock[t] = "held"
    BY DEF Init
  <2>2. Apart(t, local[t]) /\ Apart(t, remote[t])
    BY <1>1, <2>1 DEF Apart, Fresh
  <2>3. HasBranch(t) /\ CarriesWork(t)
    BY <1>1, <1>2, <2>1 DEF HasBranch, CarriesWork, CarryingSteps, Fresh
  <2>4. MayRelease(t) /\ Covered(t) /\ Safe(t)
    BY <1>2, <2>1 DEF MayRelease, Covered, Safe
  <2> QED
    BY <2>2, <2>3, <2>4 DEF LaneInv
<1> QED
  BY <1>3, <1>4 DEF IInv

LEMMA NextKeeps ==
    ASSUME IInv, [Next]_vars
    PROVE  IInv'
<1>1. ASSUME NEW t \in Task, LaneStep(t)
      PROVE  IInv'
  BY <1>1, CommitWorkKeeps, GateRedInPlaceKeeps, RebaseWorkKeeps, GateTipKeeps,
     PushMainKeeps, PushMainRejectedKeeps, PushBranchKeeps, OpenRequestKeeps,
     PruneHeadKeeps, ReleaseLockKeeps, KeepLockKeeps, ReapBranchKeeps,
     SaveBranchKeeps, SurfaceKeeps, RecoverKeeps DEF LaneStep
<1>2. ASSUME NEW t \in Task,
             \/ PushMainLost(t) \/ PushBranchLost(t)
             \/ Crash(t) \/ Rerun(t) \/ MergePR(t)
      PROVE  IInv'
  BY <1>2, PushMainLostKeeps, PushBranchLostKeeps, CrashKeeps, RerunKeeps,
     MergePRKeeps
<1> QED
  BY <1>1, <1>2, OtherWriterKeeps, StutterKeeps DEF Next

LEMMA Invariance == Spec => []IInv
<1>1. Init => IInv
  BY InitHolds
<1>2. IInv /\ [Next]_vars => IInv'
  BY NextKeeps
<1> QED
  BY <1>1, <1>2, PTL DEF Spec

\* Every variable of the pipeline stays in its set.
THEOREM TypeCorrect == Spec => []TypeOK
<1>1. IInv => TypeOK
  BY DEF IInv
<1> QED
  BY <1>1, Invariance, PTL

\* A lock is given back only for a task that is on main or asked about there.
THEOREM LockCovers == Spec => []LockCoversWork
<1>1. IInv => LockCoversWork
  BY DEF IInv, LaneInv, Covered, LockCoversWork
<1> QED
  BY <1>1, Invariance, PTL

\* A work branch is deleted only when its work is on main or on the arbiter.
THEOREM NothingLost == Spec => []WorkIsNeverLost
<1>1. IInv => WorkIsNeverLost
  BY DEF IInv, LaneInv, Safe, WorkIsNeverLost
<1> QED
  BY <1>1, Invariance, PTL

-----------------------------------------------------------------------------
(* Lost races *)

\* main grows by one commit or stays, whatever step is taken.
LEMMA NextGrows ==
    ASSUME IInv, [Next]_vars
    PROVE  Grown
<1>1. [work |-> Upkeep, tip |-> NoTip] \in Commit
  BY DEF Commit
<1>2. ASSUME NEW t \in Task, LaneStep(t)
      PROVE  Grown
  <2>1. CASE PushMain(t)
    BY <2>1, MergePushFacts DEF PushMain
  <2>2. CASE Surface(t)
    BY <1>1, <2>2 DEF Surface, Grown
  <2> QED
    BY <1>2, <2>1, <2>2
       DEF LaneStep, CommitWork, GateRedInPlace, RebaseWork, GateTip,
           PushMainRejected, PushBranch, OpenRequest, PruneHead, ReleaseLock,
           KeepLock, ReapBranch, SaveBranch, Recover, arbiterVars, Grown
<1>3. ASSUME NEW t \in Task, PushMainLost(t)
      PROVE  Grown
  BY <1>3, MergePushFacts DEF PushMainLost, Grown
<1>4. ASSUME NEW t \in Task, MergePR(t)
      PROVE  Grown
  <2>1. PICK tip \in {remote[t], NoTip} :
            main' = Append(main, [work |-> t, tip |-> tip])
    BY <1>4 DEF MergePR
  <2>2. [work |-> t, tip |-> tip] \in Commit
    BY <1>4, <2>1 DEF IInv, TypeOK, Commit
  <2> QED
    BY <2>1, <2>2 DEF Grown
<1>5. ASSUME NEW t \in Task, PushBranchLost(t) \/ Crash(t) \/ Rerun(t)
      PROVE  Grown
  BY <1>5 DEF PushBranchLost, Crash, Rerun, arbiterVars, Grown
<1>6. CASE OtherWriter
  BY <1>1, <1>6 DEF OtherWriter, Grown
<1>7. CASE UNCHANGED vars
  BY <1>7 DEF vars, Grown
<1> QED
  BY <1>2, <1>3, <1>4, <1>5, <1>6, <1>7 DEF Next

\* A lane that has retried n times is based on a main of n commits at least:
\* each retry follows a rejection by a commit its rebase had not seen.
Raced(t) ==
    /\ pc[t] \in {"working", "rebasing", "gating"} => attempt[t] = 0
    /\ pc[t] = "landing" => attempt[t] <= local[t].base
    /\ pc[t] = "retrying" => attempt[t] <= Len(main)
    /\ outcome[t] = "contention" => Len(main) > MaxMergeRetries

\* The variables of a lane that Raced and Stamped speak of.
Idle(u) ==
    /\ local'[u] = local[u] /\ pc'[u] = pc[u] /\ outcome'[u] = outcome[u]
    /\ attempt'[u] = attempt[u] /\ gated'[u] = gated[u]

LEMMA IdleRaced ==
    ASSUME IInv, Grown, NEW u \in Task, Raced(u), Idle(u)
    PROVE  Raced(u)'
<1>1. Len(main) \in Nat /\ Len(main') \in Nat /\ Len(main) <= Len(main')
  BY GrownFacts DEF IInv, TypeOK
<1>2. attempt[u] \in Nat /\ MaxMergeRetries \in Nat
  BY ConstantsAssumption DEF IInv, TypeOK
<1> QED
  BY <1>1, <1>2 DEF Raced, Idle

\* A step belongs to one lane, or to none.
LEMMA OneLaneMoves ==
    ASSUME IInv, [Next]_vars, NEW u \in Task
    PROVE  \/ Idle(u)
           \/ LaneStep(u) \/ PushMainLost(u) \/ PushBranchLost(u)
           \/ Crash(u) \/ Rerun(u)
<1> USE DEF IInv, TypeOK, Idle, Go, Report, Quit
<1>1. ASSUME NEW t \in Task, t # u, LaneStep(t)
      PROVE  Idle(u)
  <2>1. CASE CommitWork(t) \/ GateRedInPlace(t) \/ RebaseWork(t) \/ GateTip(t)
    BY <1>1, <2>1 DEF CommitWork, GateRedInPlace, RebaseWork, GateTip, Carry, Rebased
  <2>2. CASE PushMain(t) \/ PushMainRejected(t) \/ PushBranch(t) \/ OpenRequest(t)
    BY <1>1, <2>2 DEF PushMain, PushMainRejected, PushBranch, OpenRequest
  <2>3. CASE PruneHead(t) \/ ReleaseLock(t) \/ KeepLock(t) \/ ReapBranch(t)
    BY <1>1, <2>3 DEF PruneHead, ReleaseLock, KeepLock, ReapBranch
  <2>4. CASE SaveBranch(t) \/ Surface(t) \/ Recover(t)
    BY <1>1, <2>4 DEF SaveBranch, Surface, Recover, Rebased, CountRetry
  <2> QED
    BY <1>1, <2>1, <2>2, <2>3, <2>4 DEF LaneStep
<1>2. ASSUME NEW t \in Task, t # u,
             PushMainLost(t) \/ PushBranchLost(t) \/ Crash(t) \/ Rerun(t)
      PROVE  Idle(u)
  BY <1>2 DEF PushMainLost, PushBranchLost, Crash, Rerun
<1>3. ASSUME NEW t \in Task, MergePR(t)
      PROVE  Idle(u)
  BY <1>3 DEF MergePR
<1>4. CASE OtherWriter \/ UNCHANGED vars
  BY <1>4 DEF OtherWriter, vars
<1> QED
  BY <1>1, <1>2, <1>3, <1>4 DEF Next

LEMMA RacedStep ==
    ASSUME IInv, [Next]_vars, NEW t \in Task, Raced(t)
    PROVE  Raced(t)'
<1> USE LaneFacts
<1>1. Len(main') \in Nat /\ Len(main) <= Len(main')
  BY NextGrows, GrownFacts
<1>2. attempt[t] \in Nat /\ MaxMergeRetries \in Nat
  BY ConstantsAssumption DEF TypeOK
<1>3. CASE CommitWork(t)
  BY <1>1, <1>2, <1>3 DEF CommitWork, Carry, Go, At, Raced, arbiterVars, TypeOK
<1>4. CASE GateRedInPlace(t)
  BY <1>1, <1>2, <1>4 DEF GateRedInPlace, Go, Report, At, Raced, TypeOK
<1>5. CASE RebaseWork(t)
  <2>1. CASE Rebased(t, At(t, "retrying") /\ Stamp(t, Len(main)))
    <3>1. local'[t].base = Len(main)
      BY <2>1 DEF Rebased, TypeOK
    <3> QED
      BY <1>1, <1>2, <1>5, <3>1
         DEF RebaseWork, Go, Report, At, Raced, arbiterVars, TypeOK
  <2>2. CASE pc'[t] = "saving" /\ outcome'[t] = "conflict"
    BY <2>2 DEF Raced
  <2> QED
    BY <1>5, <2>1, <2>2 DEF RebaseWork, Go, Report, TypeOK
<1>6. CASE GateTip(t)
  BY <1>1, <1>2, <1>6 DEF GateTip, Go, Report, At, Raced, arbiterVars, TypeOK
<1>7. CASE PushMainRejected(t)
  <2>1. local[t].base < Len(main)
    BY <1>7 DEF PushMainRejected, Landing, FastForward
  <2>2. CASE pc'[t] \in {"pruning", "marking"} /\ outcome'[t] = "merged"
    BY <2>2 DEF Raced
  <2>3. CASE At(t, "landing") /\ pc'[t] = "retrying" /\ outcome' = outcome
             /\ attempt'[t] = attempt[t] + 1
    BY <1>1, <1>2, <1>7, <2>1, <2>3 DEF PushMainRejected, At, Raced, arbiterVars
  <2>4. CASE At(t, "landing") /\ GiveUp(t) /\ pc'[t] = "saving"
    BY <1>1, <1>2, <1>7, <2>1, <2>4
       DEF PushMainRejected, At, GiveUp, Raced, arbiterVars
  <2> QED
    BY <1>7, <2>2, <2>3, <2>4 DEF PushMainRejected, Go, Report, TypeOK
<1>8. CASE PushMain(t) \/ PushBranch(t)
  BY <1>1, <1>2, <1>8 DEF PushMain, PushBranch, Go, Report, Raced, TypeOK
<1>9. CASE \/ OpenRequest(t) \/ PruneHead(t) \/ ReleaseLock(t) \/ KeepLock(t)
           \/ ReapBranch(t) \/ SaveBranch(t) \/ Surface(t)
  <2>1. /\ pc'[t] \notin {"working", "rebasing", "gating", "landing", "retrying"}
        /\ outcome' = outcome
    BY <1>9 DEF OpenRequest, PruneHead, ReleaseLock, KeepLock, ReapBranch,
                SaveBranch, Surface, Go, TypeOK
  <2> QED
    BY <1>1, <1>2, <2>1 DEF Raced
<1>10. CASE Recover(t)
  <2>1. /\ pc'[t] \notin {"working", "rebasing", "gating", "landing", "retrying"}
        /\ outcome'[t] \in {outcome[t], "alreadyOnMain", "conflict"}
    BY <1>10 DEF Recover, Quit, Go, Report, At, TypeOK
  <2> QED
    BY <1>1, <1>2, <2>1 DEF Raced
<1>11. CASE PushMainLost(t) \/ PushBranchLost(t) \/ Crash(t)
  BY <1>11 DEF PushMainLost, PushBranchLost, Crash, Quit, Go, Report, Raced, TypeOK
<1>12. CASE Rerun(t)
  BY <1>12 DEF Rerun, Go, Report, Raced, TypeOK
<1>13. CASE Idle(t)
  BY <1>13, NextGrows, IdleRaced
<1> QED
  BY <1>3, <1>4, <1>5, <1>6, <1>7, <1>8, <1>9, <1>10, <1>11, <1>12, <1>13,
     OneLaneMoves DEF LaneStep

\* A task that is stuck for contention alone has lost more races than its
\* retries, each to a commit of main it had not seen.
THEOREM ContentionIsReal == Spec => []GiveUpNeedsLostRaces
<1> DEFINE RacedInv == \A t \in Task : Raced(t)
<1>1. Init => RacedInv
  BY DEF Init, Raced
<1>2. IInv /\ RacedInv /\ [Next]_vars => RacedInv'
  BY RacedStep
<1>3. RacedInv => GiveUpNeedsLostRaces
  BY DEF Raced, GiveUpNeedsLostRaces
<1> HIDE DEF RacedInv
<1> QED
  BY <1>1, <1>2, <1>3, Invariance, PTL DEF Spec

-----------------------------------------------------------------------------
(* The trailer *)

\* The tree of a prefix of main stays what a gate or a stamp saw.
LEMMA TreeStays ==
    ASSUME IInv, Grown, NEW n \in Nat, n <= Len(main)
    PROVE  Tree(n)' = Tree(n)
<1>1. /\ main \in Seq(Commit) /\ Len(main) \in Nat
      /\ Works(1, n)' = Works(1, n)
  BY GrownFacts DEF IInv, TypeOK
<1>2. \A k \in 1 .. n : main'[k] = main[k]
  BY <1>1 DEF Grown
<1>3. Upkeeps(n)' = Upkeeps(n)
  BY <1>2 DEF Upkeeps
<1> QED
  BY <1>1, <1>3 DEF Tree

\* No gate of t saw the tree of main's first n commits.
Ungated(t, n) == \A b \in gated[t] : Tree(b) # Tree(n)

\* What a commit of t on main says about its tree.
Told(t) ==
    \A k \in DOMAIN main :
        main[k].work = t /\ main[k].tip # NoTip =>
            /\ main[k].tip.base <= Len(main)
            /\ main[k].tip.stamp <=> Ungated(t, main[k].tip.base)

\* A CI apply job gates once, before it lands, and stamps what it is about to
\* land by that gate; it opens no request and is never run again.
Stamped(t) ==
    Gate[t] = "apply" /\ Mode[t] = "merge" =>
        /\ pc[t] \notin {"rebasing", "gating", "recovering", "gatingKept",
                         "landingKept", "opening"}
        /\ t \notin openPR
        /\ \A b \in gated[t] : b <= Len(main)
        /\ pc[t] = "working" => ~Landed(t) /\ ~local[t].stamp
        /\ pc[t] = "landing" =>
              (local[t].stamp <=> Ungated(t, local[t].base))
        /\ Told(t)

\* Gates and bases keep what they say as main grows.
LEMMA UngatedStays ==
    ASSUME IInv, Grown, NEW t \in Task, gated'[t] = gated[t],
           \A b \in gated[t] : b <= Len(main),
           NEW n \in Nat, n <= Len(main)
    PROVE  Ungated(t, n)' <=> Ungated(t, n)
<1>1. gated[t] \subseteq Nat
  BY DEF IInv, TypeOK
<1>2. Tree(n)' = Tree(n) /\ \A b \in gated[t] : Tree(b)' = Tree(b)
  BY <1>1, TreeStays
<1> QED
  BY <1>2 DEF Ungated

\* A commit that is not a tip of t's changes nothing that t's commits tell.
LEMMA ToldStays ==
    ASSUME IInv, Grown, NEW t \in Task, gated'[t] = gated[t],
           \A b \in gated[t] : b <= Len(main), Told(t),
           \A e \in Commit : main' = Append(main, e) /\ e.work = t /\ e.tip # NoTip =>
               /\ e.tip.base <= Len(main)
               /\ e.tip.stamp <=> Ungated(t, e.tip.base)
    PROVE  Told(t)'
<1>1. /\ main \in Seq(Commit) /\ main' \in Seq(Commit)
      /\ Len(main) \in Nat /\ Len(main') \in Nat /\ Len(main) <= Len(main')
  BY GrownFacts DEF IInv, TypeOK
<1>2. ASSUME NEW c \in Commit, c.work = t, c.tip # NoTip,
             NEW k \in DOMAIN main', main'[k] = c
      PROVE  /\ c.tip.base \in Nat /\ c.tip.base <= Len(main)
             /\ c.tip.stamp <=> Ungated(t, c.tip.base)
  <2>1. c.tip.base \in Nat
    BY <1>2 DEF Commit, Tip
  <2>2. CASE main' = main
    BY <1>2, <2>1, <2>2 DEF Told
  <2>3. ASSUME NEW e \in Commit, main' = Append(main, e)
        PROVE  c.tip.base <= Len(main) /\ (c.tip.stamp <=> Ungated(t, c.tip.base))
    <3>1. CASE k \in DOMAIN main
      <4>1. main[k] = c
        BY <1>1, <1>2, <2>3, <3>1
      <4> QED
        BY <1>2, <3>1, <4>1 DEF Told
    <3>2. CASE k \notin DOMAIN main
      <4>1. c = e
        BY <1>1, <1>2, <2>3, <3>2
      <4> QED
        BY <1>2, <2>3, <4>1
    <3> QED
      BY <3>1, <3>2
  <2> QED
    BY <2>1, <2>2, <2>3 DEF Grown
<1>3. \A n \in Nat : n <= Len(main) => (Ungated(t, n)' <=> Ungated(t, n))
  BY UngatedStays
<1>4. \A k \in DOMAIN main' : main'[k] \in Commit
  BY <1>1
<1>5. ASSUME NEW c \in Commit, c.work = t, c.tip # NoTip,
             NEW k \in DOMAIN main', main'[k] = c
      PROVE  c.tip.base <= Len(main') /\ (c.tip.stamp <=> Ungated(t, c.tip.base)')
  BY <1>1, <1>2, <1>3, <1>5
<1> QED
  BY <1>4, <1>5 DEF Told

\* Only a push of t's own, or a merge of its request, lands t.
LEMMA WhoLands ==
    ASSUME IInv, [Next]_vars, NEW t \in Task, NEW e \in Commit,
           main' = Append(main, e), e.work = t
    PROVE  PushMain(t) \/ PushMainLost(t) \/ MergePR(t)
<1>1. main \in Seq(Commit) /\ Upkeep \notin Task
  BY ConstantsAssumption DEF IInv, TypeOK
<1>2. Len(main') = Len(main) + 1 /\ main' # main /\ main'[Len(main) + 1] = e
  BY <1>1
<1>3. ASSUME NEW w, NEW tip, main' = Append(main, [work |-> w, tip |-> tip])
      PROVE  w = t
  BY <1>1, <1>2, <1>3
<1>4. ASSUME NEW u \in Task, LaneStep(u)
      PROVE  PushMain(u) /\ u = t
  <2>1. ~Surface(u)
    BY <1>1, <1>2, <1>3 DEF Surface
  <2>2. PushMain(u)
    BY <1>2, <1>4, <2>1
       DEF LaneStep, CommitWork, GateRedInPlace, RebaseWork, GateTip,
           PushMainRejected, PushBranch, OpenRequest, PruneHead, ReleaseLock,
           KeepLock, ReapBranch, SaveBranch, Recover, arbiterVars
  <2>3. Landing(u, "merge") /\ MergePush(u)
    BY <2>2 DEF PushMain
  <2>4. local[u] # NoTip
    BY <2>3, LaneFacts DEF Landing
  <2>5. FastForward(u) /\ Land(u, local[u].base, local[u])
    BY <1>2, <2>3 DEF MergePush
  <2>6. main' = Append(main, [work |-> u, tip |-> local[u]])
    BY <2>4, <2>5, FastForwardLands DEF IInv
  <2> QED
    BY <1>3, <2>2, <2>6
<1>5. ASSUME NEW u \in Task, PushMainLost(u)
      PROVE  u = t
  <2>1. Landing(u, "merge") /\ MergePush(u)
    BY <1>2, <1>5 DEF PushMainLost
  <2>2. local[u] # NoTip
    BY <2>1, LaneFacts DEF Landing
  <2>3. FastForward(u) /\ Land(u, local[u].base, local[u])
    BY <1>2, <2>1 DEF MergePush
  <2>4. main' = Append(main, [work |-> u, tip |-> local[u]])
    BY <2>2, <2>3, FastForwardLands DEF IInv
  <2> QED
    BY <1>3, <2>4
<1>6. ASSUME NEW u \in Task, MergePR(u)
      PROVE  u = t
  BY <1>3, <1>6 DEF MergePR
<1>7. ASSUME NEW u \in Task, PushBranchLost(u) \/ Crash(u) \/ Rerun(u)
      PROVE  FALSE
  BY <1>2, <1>7 DEF PushBranchLost, Crash, Rerun, arbiterVars
<1>8. ~OtherWriter /\ ~UNCHANGED vars
  BY <1>1, <1>2, <1>3 DEF OtherWriter, vars
<1> QED
  BY <1>4, <1>5, <1>6, <1>7, <1>8 DEF Next

\* Only t's own lane opens its request.
LEMMA WhoOpens ==
    ASSUME [Next]_vars, NEW t \in Task, t \in openPR', t \notin openPR
    PROVE  pc[t] = "opening"
<1>1. ASSUME NEW u \in Task, LaneStep(u)
      PROVE  At(t, "opening")
  BY <1>1 DEF LaneStep, CommitWork, GateRedInPlace, RebaseWork, GateTip, PushMain,
              PushMainRejected, PushBranch, OpenRequest, PruneHead, ReleaseLock,
              KeepLock, ReapBranch, SaveBranch, Surface, Recover, arbiterVars
<1> QED
  BY <1>1 DEF Next, PushMainLost, PushBranchLost, Crash, Rerun, MergePR, OtherWriter,
              arbiterVars, vars, At

LEMMA StampedStep ==
    ASSUME IInv, [Next]_vars, NEW t \in Task, Stamped(t)
    PROVE  Stamped(t)'
<1> SUFFICES ASSUME Gate[t] = "apply", Mode[t] = "merge"
             PROVE  Stamped(t)'
  BY DEF Stamped
<1> USE LaneFacts
<1>1. /\ pc[t] \notin {"rebasing", "gating", "recovering", "gatingKept",
                       "landingKept", "opening"}
      /\ t \notin openPR
      /\ \A b \in gated[t] : b <= Len(main)
      /\ Told(t)
  BY DEF Stamped
<1>2. Grown /\ Len(main') \in Nat /\ Len(main) <= Len(main')
  BY NextGrows, GrownFacts
<1>3. t \notin openPR'
  BY <1>1, WhoOpens
<1>4. ~MergePR(t)
  BY <1>1 DEF MergePR
<1>5. \A b \in gated[t] : b <= Len(main')
  BY <1>1, <1>2 DEF TypeOK
<1>6. ASSUME gated'[t] = gated[t], ~PushMain(t), ~PushMainLost(t)
      PROVE  Told(t)' /\ (~Landed(t) => ~Landed(t)')
  <2>1. \A e \in Commit : main' = Append(main, e) => e.work # t
    BY <1>4, <1>6, WhoLands
  <2>2. Told(t)'
    BY <1>1, <1>2, <1>6, <2>1, ToldStays
  <2>3. ASSUME NEW e \in Commit, main' = Append(main, e), Landed(t)'
        PROVE  Landed(t)
    <3>1. PICK k \in DOMAIN main' : main'[k].work = t
      BY <2>3 DEF Landed
    <3>2. k \in DOMAIN main /\ main'[k] = main[k]
      BY <2>1, <2>3, <3>1
    <3> QED
      BY <3>1, <3>2 DEF Landed
  <2> QED
    BY <1>2, <2>2, <2>3 DEF Grown, Landed
\* A step that leads to no step of which more is said.
<1>7. ASSUME pc'[t] \notin {"rebasing", "gating", "recovering", "gatingKept",
                            "landingKept", "opening", "working", "landing"},
             gated'[t] = gated[t], Told(t)'
      PROVE  Stamped(t)'
  BY <1>3, <1>5, <1>7 DEF Stamped
<1>8. CASE CommitWork(t)
  <2>1. /\ pc[t] = "working" /\ pc'[t] = "landing" /\ main' = main
        /\ local'[t].base = local[t].base /\ local'[t].stamp = local[t].stamp
        /\ gated'[t] = gated[t] \cup {local[t].base}
    BY <1>8 DEF CommitWork, Carry, Go, At, arbiterVars, TypeOK
  <2>2. ~Landed(t) /\ ~local[t].stamp
    BY <2>1 DEF Stamped
  <2>3. Told(t)'
    BY <2>1, <2>2 DEF Told, Landed
  <2>4. ~Ungated(t, local[t].base)'
    BY <2>1 DEF Ungated, Tree, Works, Upkeeps
  <2>5. \A b \in gated'[t] : b <= Len(main')
    BY <1>1, <2>1
  <2>6. local'[t].stamp <=> Ungated(t, local[t].base)'
    BY <2>1, <2>2, <2>4
  <2> QED
    BY <1>3, <2>1, <2>3, <2>5, <2>6 DEF Stamped, Ungated
<1>9. CASE RebaseWork(t)
  <2>1. At(t, "retrying") /\ main' = main /\ gated' = gated
    BY <1>1, <1>9 DEF RebaseWork, At, arbiterVars
  <2>2. Told(t)'
    BY <1>6, <2>1 DEF At, PushMain, PushMainLost, Landing
  <2>3. CASE /\ Rebased(t, At(t, "retrying") /\ Stamp(t, Len(main)))
             /\ pc'[t] = "landing"
    <3>1. local'[t].base = Len(main) /\ (local'[t].stamp <=> Stamp(t, Len(main)))
      BY <2>1, <2>3 DEF Rebased, TypeOK, Stamp
    <3>2. Stamp(t, Len(main)) <=> Ungated(t, Len(main))
      BY DEF Stamp, Ungated
    <3>3. Ungated(t, local[t].base)' <=> Ungated(t, Len(main))
      BY <2>1, <3>1 DEF Ungated, Tree, Works, Upkeeps
    <3> QED
      BY <1>3, <1>5, <2>1, <2>2, <2>3, <3>1, <3>2, <3>3 DEF Stamped
  <2>4. CASE pc'[t] = "saving"
    BY <1>7, <2>1, <2>2, <2>4
  <2> QED
    BY <1>9, <2>1, <2>3, <2>4 DEF RebaseWork, Go, At, TypeOK
<1>10. CASE PushMain(t) \/ PushMainLost(t)
  <2>1. /\ Landing(t, "merge") /\ gated' = gated
        /\ MergePush(t) \/ main' = main
        /\ pc'[t] \in {"pruning", "over"}
    BY <1>10 DEF PushMain, PushMainLost, Quit, Go, TypeOK
  <2>2. /\ pc[t] = "landing" /\ local[t] # NoTip
        /\ local[t].base <= Len(main)
        /\ local[t].stamp <=> Ungated(t, local[t].base)
    BY <1>1, <2>1 DEF Landing, Stamped
  <2>3. ASSUME NEW e \in Commit, main' = Append(main, e)
        PROVE  e.tip = local[t]
    <3>1. main' # main
      BY <2>3
    <3>2. FastForward(t) /\ Land(t, local[t].base, local[t])
      BY <2>1, <3>1 DEF MergePush
    <3>3. /\ main' = Append(main, [work |-> t, tip |-> local[t]])
          /\ [work |-> t, tip |-> local[t]] \in Commit
      BY <2>2, <3>2, FastForwardLands
    <3>4. main'[Len(main) + 1] = [work |-> t, tip |-> local[t]]
      BY <3>3
    <3>5. main'[Len(main) + 1] = e
      BY <2>3
    <3> QED
      BY <3>4, <3>5
  <2>4. Told(t)'
    BY <1>1, <1>2, <2>1, <2>2, <2>3, ToldStays
  <2> QED
    BY <1>7, <2>1, <2>4
<1>11. CASE /\ ~PushMain(t) /\ ~PushMainLost(t)
            /\ \/ PushMainRejected(t) \/ PruneHead(t) \/ ReleaseLock(t) \/ KeepLock(t)
               \/ ReapBranch(t) \/ SaveBranch(t) \/ Surface(t) \/ Crash(t)
  <2>1. pc'[t] \in {"pruning", "retrying", "saving", "marking", "releasing",
                    "reaping", "over", "surfacing", "lettingGo"}
    <3>1. CASE PushMainRejected(t)
      BY <3>1 DEF PushMainRejected, Go, TypeOK
    <3>2. CASE PruneHead(t) \/ ReleaseLock(t) \/ KeepLock(t) \/ ReapBranch(t)
      BY <3>2 DEF PruneHead, ReleaseLock, KeepLock, ReapBranch, Go, TypeOK
    <3>3. CASE SaveBranch(t) \/ Surface(t) \/ Crash(t)
      BY <3>3 DEF SaveBranch, Surface, Crash, Quit, Go, TypeOK
    <3> QED
      BY <1>11, <3>1, <3>2, <3>3
  <2>2. gated' = gated
    BY <1>11 DEF PushMainRejected, PruneHead, ReleaseLock, KeepLock, ReapBranch,
                 SaveBranch, Surface, Crash
  <2> QED
    BY <1>6, <1>7, <1>11, <2>1, <2>2
<1>12. CASE Idle(t)
  <2>1. ~PushMain(t) /\ ~PushMainLost(t)
    BY <1>12 DEF Idle, PushMain, PushMainLost, Quit, Go, Landing, TypeOK
  <2>2. Told(t)' /\ (~Landed(t) => ~Landed(t)')
    BY <1>6, <1>12, <2>1 DEF Idle
  <2>3. pc[t] = "landing" => (Ungated(t, local[t].base)' <=> Ungated(t, local[t].base))
    <3>1. SUFFICES ASSUME pc[t] = "landing"
                   PROVE  Ungated(t, local[t].base)' <=> Ungated(t, local[t].base)
      OBVIOUS
    <3>2. local[t].base \in Nat /\ local[t].base <= Len(main)
      BY <3>1
    <3>3. \A n \in Nat : n <= Len(main) => (Ungated(t, n)' <=> Ungated(t, n))
      BY <1>1, <1>2, <1>12, UngatedStays DEF Idle
    <3> QED
      BY <1>12, <3>2, <3>3 DEF Ungated, Idle
  <2> QED
    BY <1>1, <1>3, <1>5, <1>12, <2>2, <2>3 DEF Stamped, Idle
<1>13. ~GateRedInPlace(t) /\ ~GateTip(t) /\ ~OpenRequest(t) /\ ~Recover(t)
       /\ ~PushBranch(t) /\ ~PushBranchLost(t) /\ ~Rerun(t)
  BY <1>1 DEF GateRedInPlace, GateTip, OpenRequest, Recover, PushBranch,
              PushBranchLost, Rerun, Landing, At
<1> QED
  BY <1>8, <1>9, <1>10, <1>11, <1>12, <1>13, OneLaneMoves DEF LaneStep

\* A commit that a CI apply job put on main has the trailer exactly when its
\* tree is not the gated one, for any number of retries and other writers.
THEOREM TrailersAreTrue == Spec => []StampTells
<1> DEFINE StampInv == \A t \in Task : Stamped(t)
<1>1. Init => StampInv
  <2> SUFFICES ASSUME Init, NEW t \in Task
               PROVE  Stamped(t)
    OBVIOUS
  <2>1. /\ pc[t] = "working" /\ openPR = {} /\ gated[t] = {} /\ DOMAIN main = {}
        /\ ~local[t].stamp
    BY DEF Init, Fresh
  <2> QED
    BY <2>1 DEF Stamped, Told, Landed
<1>2. IInv /\ StampInv /\ [Next]_vars => StampInv'
  BY StampedStep
<1>3. StampInv => StampTells
  BY DEF Stamped, Told, Ungated, StampTells
<1> HIDE DEF StampInv
<1> QED
  BY <1>1, <1>2, <1>3, Invariance, PTL DEF Spec

-----------------------------------------------------------------------------
(* The refinement *)

\* The log that main stands for.
LogOfMain == [k \in DOMAIN main |-> main[k].work]

\* A commit on main is an entry of the log.
LEMMA LogGrows ==
    ASSUME main \in Seq(Commit), NEW e \in Commit, main' = Append(main, e)
    PROVE  LogOfMain' = Append(LogOfMain, e.work)
<1>1. /\ Len(main) \in Nat /\ Len(main') = Len(main) + 1
      /\ DOMAIN main = 1 .. Len(main) /\ DOMAIN main' = 1 .. Len(main) + 1
      /\ \A k \in 1 .. Len(main) : main'[k] = main[k]
      /\ main'[Len(main) + 1] = e
      /\ main' \in Seq(Commit)
  OBVIOUS
<1>2. /\ LogOfMain \in Seq(Task \cup {Upkeep}) /\ Len(LogOfMain) = Len(main)
      /\ \A k \in 1 .. Len(main) : LogOfMain[k] = main[k].work
  <2>1. \A k \in 1 .. Len(main) : main[k] \in Commit
    BY <1>1
  <2>2. \A k \in 1 .. Len(main) : main[k].work \in Task \cup {Upkeep}
    BY <2>1 DEF Commit
  <2>3. LogOfMain \in [1 .. Len(main) -> Task \cup {Upkeep}]
    BY <1>1, <2>2 DEF LogOfMain
  <2>4. LogOfMain \in Seq(Task \cup {Upkeep})
    BY <1>1, <2>3, SeqDef
  <2> QED
    BY <1>1, <2>3, <2>4 DEF LogOfMain
<1>3. e.work \in Task \cup {Upkeep}
  BY DEF Commit
<1>4. /\ Append(LogOfMain, e.work) = [k \in 1 .. Len(main) + 1 |->
              IF k = Len(main) + 1 THEN e.work ELSE LogOfMain[k]]
  BY <1>1, <1>2, <1>3
<1> QED
  BY <1>1, <1>2, <1>4 DEF LogOfMain

\* What the abstract log's guard for t means here.
LEMMA MayLand ==
    ASSUME IInv, NEW t \in Task, NEW e \in Commit, e.work = t,
           main' = Append(main, e), ~Landed(t),
           \A u \in Task : u \in Works(1, Len(main)) => {t, u} \notin Foes
    PROVE  Log!LandWork(t)
<1>1. main \in Seq(Commit)
  BY DEF IInv, TypeOK
<1>2. \A w : Log!InLog(w) <=> Landed(w)
  BY DEF Log!InLog, Landed
<1>3. LogOfMain' = Append(LogOfMain, t)
  BY <1>1, LogGrows
<1>4. \A u \in Task : Landed(u) <=> u \in Works(1, Len(main))
  BY <1>1, WorksAreLanded
<1> QED
  BY <1>2, <1>3, <1>4 DEF Log!LandWork, LogOfMain

LEMMA UpkeepKeeps ==
    ASSUME IInv, main' = Append(main, [work |-> Upkeep, tip |-> NoTip])
    PROVE  Log!Keep
<1>1. [work |-> Upkeep, tip |-> NoTip] \in Commit
  BY DEF Commit
<1>2. LogOfMain' = Append(LogOfMain, Upkeep)
  BY <1>1, LogGrows DEF IInv, TypeOK
<1> QED
  BY <1>2 DEF Log!Keep, LogOfMain

LEMMA PushLands ==
    ASSUME IInv, NEW t \in Task, Landing(t, "merge"), MergePush(t)
    PROVE  main' = main \/ Log!LandWork(t)
<1> USE LaneFacts
<1>1. local[t] # NoTip /\ FastForward(t) /\ Apart(t, local[t])
  BY DEF Landing, LaneInv, HasBranch, MergePush
<1>2. CASE local[t].own # "nothing"
  <2>1. Land(t, local[t].base, local[t])
    BY <1>2 DEF MergePush
  <2>2. /\ main' = Append(main, [work |-> t, tip |-> local[t]])
        /\ [work |-> t, tip |-> local[t]] \in Commit
    BY <1>1, <2>1, FastForwardLands
  <2>3. t \notin Works(1, Len(main))
    BY <1>1, <1>2 DEF Apart, FastForward
  <2>4. ~Landed(t)
    BY <2>3, WorksAreLanded
  <2>5. \A u \in Task : u \in Works(1, Len(main)) => {t, u} \notin Foes
    BY <1>1, <2>3 DEF Apart, FastForward
  <2> QED
    BY <2>2, <2>4, <2>5, MayLand
<1> QED
  BY <1>2 DEF MergePush

LEMMA MergePRLands ==
    ASSUME IInv, NEW t \in Task, MergePR(t)
    PROVE  Log!LandWork(t)
<1> USE LaneFacts
<1>1. PICK tip \in {remote[t], NoTip} :
          main' = Append(main, [work |-> t, tip |-> tip])
  BY DEF MergePR
<1>2. [work |-> t, tip |-> tip] \in Commit
  BY <1>1 DEF MergePR, TypeOK, Commit
<1>3. /\ ~Landed(t) /\ remote[t] # NoTip /\ Apart(t, remote[t])
      /\ remote[t].base \in Nat /\ remote[t].base <= Len(main)
  BY DEF MergePR, LaneInv, Apart, TypeOK, Tip
<1>4. t \notin Works(1, remote[t].base)
  BY <1>3, WorksAreLanded
<1>5. ASSUME NEW u \in Task, u \in Works(1, Len(main))
      PROVE  {t, u} \notin Foes
  <2>1. u \in Works(1, remote[t].base) \/ u \in News(remote[t])
    BY <1>3, <1>5 DEF Works, News
  <2> QED
    BY <1>3, <1>4, <2>1 DEF Apart, MergePR, Conflicting
<1> QED
  BY <1>1, <1>2, <1>3, <1>5, MayLand

\* What lands on main is each task's work at most once and never beside a foe's,
\* and nothing is ever taken off main again, whatever crashed, raced or was
\* retried: the pipeline implements the abstract log.
THEOREM Refinement == Spec => ImplementsMainLog
<1>1. Init => Log!Init
  BY DEF Init, Log!Init
<1>2. ASSUME IInv, [Next]_vars
      PROVE  [Log!Next]_LogOfMain
  <2>1. CASE main' = main
    BY <2>1 DEF LogOfMain
  <2>2. ASSUME NEW t \in Task, LaneStep(t)
        PROVE  main' = main \/ Log!Next
    <3>1. CASE PushMain(t)
      BY <1>2, <3>1, PushLands DEF PushMain, Log!Next
    <3>2. CASE Surface(t)
      BY <1>2, <3>2, UpkeepKeeps DEF Surface, Log!Next
    <3> QED
      BY <2>2, <3>1, <3>2
         DEF LaneStep, CommitWork, GateRedInPlace, RebaseWork, GateTip,
             PushMainRejected, PushBranch, OpenRequest, PruneHead, ReleaseLock,
             KeepLock, ReapBranch, SaveBranch, Recover, arbiterVars
  <2>3. ASSUME NEW t \in Task, PushMainLost(t)
        PROVE  main' = main \/ Log!Next
    BY <1>2, <2>3, PushLands DEF PushMainLost, Log!Next
  <2>4. ASSUME NEW t \in Task, MergePR(t)
        PROVE  Log!Next
    BY <1>2, <2>4, MergePRLands DEF Log!Next
  <2>5. ASSUME NEW t \in Task, PushBranchLost(t) \/ Crash(t) \/ Rerun(t)
        PROVE  main' = main
    BY <2>5 DEF PushBranchLost, Crash, Rerun, arbiterVars
  <2>6. CASE OtherWriter
    BY <1>2, <2>6, UpkeepKeeps DEF OtherWriter, Log!Next
  <2>7. CASE UNCHANGED vars
    BY <2>7, <2>1 DEF vars
  <2> QED
    BY <1>2, <2>1, <2>2, <2>3, <2>4, <2>5, <2>6, <2>7 DEF Next
<1> QED
  BY <1>1, <1>2, Invariance, PTL DEF Spec, ImplementsMainLog, Log!Spec, LogOfMain

-----------------------------------------------------------------------------
(* Every run ends: the core of EveryRunEnds *)

\* How far a step is from the end of a run, retries apart.
Depth(s) ==
    CASE s = "over" -> 0
      [] s \in {"reaping", "lettingGo"} -> 1
      [] s \in {"releasing", "marking", "surfacing"} -> 2
      [] s \in {"pruning", "opening", "saving"} -> 3
      [] s \in {"landing", "landingKept"} -> 4
      [] s \in {"retrying", "gating", "gatingKept"} -> 5
      [] s \in {"rebasing", "recovering"} -> 6
      [] s = "working" -> 7

\* What a lane may still do before its run is over, whatever main does.
Left(t) == 2 * (MaxMergeRetries + RebaseRetries - attempt[t]) + Depth(pc[t])

LeftIsBounded ==
    \A t \in Task : Left(t) \in 0 .. 2 * (MaxMergeRetries + RebaseRetries) + 7

RunsGetShorter ==
    \A t \in Task :
        /\ LaneStep(t) => Left(t)' < Left(t)
        /\ runs'[t] = runs[t] => Left(t)' <= Left(t)

\* attempt never exceeds the caps of the loops.
Capped(t) == attempt[t] <= MaxMergeRetries + RebaseRetries

\* A step of the lane comes nearer to its end, or is a retry within the caps.
Advances(t) ==
    \/ attempt'[t] = attempt[t] /\ Depth(pc'[t]) < Depth(pc[t])
    \/ /\ attempt'[t] = attempt[t] + 1 /\ Depth(pc'[t]) <= Depth(pc[t]) + 1
       /\ attempt[t] < MaxMergeRetries \/ attempt[t] < RebaseRetries

LEMMA DepthType ==
    ASSUME NEW s \in Step
    PROVE  Depth(s) \in 0 .. 7
  BY DEF Depth, Step

LEMMA LaneStepAdvances ==
    ASSUME TypeOK, NEW t \in Task, LaneStep(t)
    PROVE  Advances(t)
<1> USE DEF TypeOK, At, Go, Report, Quit
<1>1. CASE CommitWork(t) \/ GateRedInPlace(t)
  BY <1>1 DEF CommitWork, GateRedInPlace, Advances, Depth
<1>2. CASE RebaseWork(t) \/ GateTip(t)
  BY <1>2 DEF RebaseWork, GateTip, Advances, Depth
<1>3. CASE PushMain(t)
  BY <1>3 DEF PushMain, Landing, Advances, Depth
<1>4. CASE PushMainRejected(t)
  <2>1. /\ pc[t] \in {"landing", "landingKept"}
        /\ \/ pc'[t] \in {"pruning", "saving", "marking"} /\ attempt'[t] = attempt[t]
           \/ /\ pc'[t] = "retrying" /\ attempt'[t] = attempt[t] + 1
              /\ ~(attempt[t] >= MaxMergeRetries)
    BY <1>4 DEF PushMainRejected, Landing, GiveUp
  <2>2. attempt[t] \in Nat /\ MaxMergeRetries \in Nat
    BY ConstantsAssumption
  <2>3. Depth("marking") = 2 /\ Depth("pruning") = 3 /\ Depth("saving") = 3
        /\ Depth("retrying") = 5 /\ Depth(pc[t]) = 4
    BY <2>1 DEF Depth
  <2> QED
    BY <2>1, <2>2, <2>3 DEF Advances
<1>5. CASE PushBranch(t) \/ OpenRequest(t)
  BY <1>5 DEF PushBranch, OpenRequest, Landing, Advances, Depth
<1>6. CASE PruneHead(t) \/ ReleaseLock(t)
  BY <1>6 DEF PruneHead, ReleaseLock, Advances, Depth
<1>7. CASE KeepLock(t) \/ ReapBranch(t)
  BY <1>7 DEF KeepLock, ReapBranch, Advances, Depth
<1>8. CASE SaveBranch(t) \/ Surface(t)
  BY <1>8 DEF SaveBranch, Surface, Advances, Depth
<1>9. CASE Recover(t)
  <2>1. pc[t] = "recovering" /\ Depth(pc[t]) = 6
    BY <1>9 DEF Recover, Depth
  <2>2. CASE attempt[t] < RebaseRetries /\ CountRetry(t) /\ pc' = pc
    <3>1. attempt'[t] = attempt[t] + 1 /\ pc'[t] = pc[t]
      BY <2>2 DEF CountRetry
    <3> QED
      BY <2>1, <2>2, <3>1 DEF Advances
  <2>3. CASE /\ attempt' = attempt
             /\ pc'[t] \in {"lettingGo", "gatingKept", "landingKept", "over"}
    <3>1. Depth(pc'[t]) \in {0, 1, 4, 5}
      BY <2>3 DEF Depth
    <3> QED
      BY <2>1, <2>3, <3>1 DEF Advances
  <2> QED
    BY <1>9, <2>2, <2>3 DEF Recover
<1> QED
  BY <1>1, <1>2, <1>3, <1>4, <1>5, <1>6, <1>7, <1>8, <1>9 DEF LaneStep

\* A step changes Left as its lane or its run does.
LEMMA LeftStep ==
    ASSUME IInv, [Next]_vars, NEW t \in Task, Capped(t)
    PROVE  /\ Capped(t)'
           /\ LaneStep(t) => Left(t)' < Left(t)
           /\ runs'[t] = runs[t] => Left(t)' <= Left(t)
<1> DEFINE n == MaxMergeRetries + RebaseRetries
<1>1. /\ attempt[t] \in Nat /\ attempt[t] <= n /\ n \in Nat
      /\ MaxMergeRetries \in Nat /\ RebaseRetries \in Nat
  BY ConstantsAssumption DEF IInv, TypeOK, Capped
<1>2. pc[t] \in Step /\ pc'[t] \in Step
  BY NextKeeps DEF IInv, TypeOK
<1>3. Depth(pc[t]) \in 0 .. 7 /\ Depth(pc'[t]) \in 0 .. 7
  BY <1>2, DepthType
<1>4. CASE LaneStep(t)
  <2>1. Advances(t)
    BY <1>4, LaneStepAdvances DEF IInv
  <2> QED
    BY <1>1, <1>3, <2>1 DEF Advances, Capped, Left
<1>5. CASE Idle(t) /\ ~LaneStep(t)
  BY <1>1, <1>3, <1>5 DEF Idle, Capped, Left
<1>6. CASE PushMainLost(t) \/ PushBranchLost(t) \/ Crash(t)
  <2>1. attempt' = attempt /\ pc'[t] = "over"
    BY <1>6 DEF PushMainLost, PushBranchLost, Crash, Quit, Go, IInv, TypeOK
  <2>2. pc[t] # "over"
    BY <1>6 DEF PushMainLost, PushBranchLost, Crash, Landing
  <2>3. Depth(pc'[t]) = 0
    BY <2>1 DEF Depth
  <2> QED
    BY <1>1, <1>3, <1>4, <2>1, <2>3 DEF Capped, Left
<1>7. CASE Rerun(t)
  <2>1. attempt'[t] = 0 /\ runs'[t] = runs[t] + 1 /\ runs[t] \in Nat
    BY <1>7 DEF Rerun, IInv, TypeOK
  <2> QED
    BY <1>1, <1>4, <2>1 DEF Capped
<1> QED
  BY <1>4, <1>5, <1>6, <1>7, OneLaneMoves

\* Every run of a lane ends after a number of its own steps that the caps on the
\* retries bound, however often main moves under it: each step of the lane lowers
\* Left, which is a natural number, and until the lane is run again no step of
\* anybody raises it.  With a lane that goes on, this is EveryRunEnds.
THEOREM RunsAreBounded == Spec => []LeftIsBounded /\ [][RunsGetShorter]_vars
<1> DEFINE CapInv == \A t \in Task : Capped(t)
<1>1. Init => CapInv
  BY ConstantsAssumption DEF Init, Capped
<1>2. IInv /\ CapInv /\ [Next]_vars => CapInv' /\ RunsGetShorter
  BY LeftStep DEF RunsGetShorter
<1>3. IInv /\ CapInv => LeftIsBounded
  <2> SUFFICES ASSUME IInv, CapInv, NEW t \in Task
               PROVE  Left(t) \in 0 .. 2 * (MaxMergeRetries + RebaseRetries) + 7
    BY DEF LeftIsBounded
  <2>1. Depth(pc[t]) \in 0 .. 7
    BY DepthType DEF IInv, TypeOK
  <2>2. attempt[t] \in Nat /\ MaxMergeRetries \in Nat /\ RebaseRetries \in Nat
    BY ConstantsAssumption DEF IInv, TypeOK
  <2> QED
    BY <2>1, <2>2 DEF Capped, Left
<1> HIDE DEF CapInv
<1> QED
  BY <1>1, <1>2, <1>3, Invariance, PTL DEF Spec

-----------------------------------------------------------------------------
(* What a report of a merge is worth *)

\* A merge that is reported and did not happen was reported by a lane that had
\* been run again.
OnlyARecoveryMisreports ==
    \A t \in Task :
        At(t, "over") /\ outcome[t] = "merged" /\ ~Landed(t) => runs[t] > 0

Reported(t) ==
    /\ pc[t] \in {"recovering", "gatingKept", "landingKept"} => runs[t] > 0
    /\ outcome[t] = "merged" => Landed(t) \/ runs[t] > 0

LEMMA ReportedStep ==
    ASSUME IInv, [Next]_vars, NEW t \in Task, Reported(t)
    PROVE  Reported(t)'
<1>1. /\ IInv' /\ TypeOK
      /\ Landed(t) => Landed(t)'
  BY NextKeeps, NextGrows, GrownFacts DEF IInv, TypeOK
<1>2. runs[t] \in Nat /\ (runs'[t] = runs[t] \/ runs'[t] = runs[t] + 1)
  <2>1. ASSUME NEW u \in Task, LaneStep(u)
        PROVE  runs' = runs
    BY <2>1 DEF LaneStep, CommitWork, GateRedInPlace, RebaseWork, GateTip, PushMain,
                PushMainRejected, PushBranch, OpenRequest, PruneHead, ReleaseLock,
                KeepLock, ReapBranch, SaveBranch, Surface, Recover
  <2>2. ASSUME NEW u \in Task, PushMainLost(u) \/ PushBranchLost(u) \/ Crash(u) \/ MergePR(u)
        PROVE  runs' = runs
    BY <2>2 DEF PushMainLost, PushBranchLost, Crash, MergePR
  <2>3. OtherWriter => runs' = runs
    BY DEF OtherWriter
  <2>4. runs' = runs \/ \E u \in Task : Rerun(u)
    <3>1. vars' = vars => runs' = runs
      BY DEF vars
    <3> QED
      BY <2>1, <2>2, <2>3, <3>1 DEF Next
  <2> QED
    BY <1>1, <2>4 DEF Rerun, TypeOK
\* A step that reports no merge and does not enter a recovery.
<1>3. ASSUME pc'[t] \notin {"recovering", "gatingKept", "landingKept"}
                \/ pc[t] \in {"recovering", "gatingKept", "landingKept"},
             outcome'[t] = outcome[t] \/ outcome'[t] # "merged"
      PROVE  Reported(t)'
  BY <1>1, <1>2, <1>3 DEF Reported
<1> USE DEF TypeOK, At, Go, Report, Quit
<1>4. CASE CommitWork(t) \/ GateRedInPlace(t) \/ RebaseWork(t) \/ GateTip(t)
  BY <1>1, <1>3, <1>4 DEF CommitWork, GateRedInPlace, RebaseWork, GateTip
\* A lane that prunes has landed.
<1>5. ASSUME pc'[t] = "pruning"
      PROVE  Reported(t)'
  BY <1>1, <1>5 DEF IInv, LaneInv, MayRelease, Reported
<1>6. CASE PushMain(t)
  BY <1>1, <1>5, <1>6 DEF PushMain
<1>7. CASE PushMainRejected(t)
  <2>1. CASE pc'[t] = "pruning"
    BY <1>5, <2>1
  <2>2. CASE pc'[t] = "retrying" /\ outcome' = outcome
    BY <1>3, <2>2
  <2>3. CASE pc'[t] = "saving" /\ outcome'[t] = "contention"
    BY <1>3, <2>3
  <2>4. CASE pc[t] = "landingKept"
    BY <1>2, <2>4 DEF Reported
  <2> QED
    BY <1>1, <1>7, <2>1, <2>2, <2>3, <2>4 DEF PushMainRejected
<1>8. CASE PushBranch(t) \/ OpenRequest(t)
  BY <1>1, <1>3, <1>8 DEF PushBranch, OpenRequest
<1>9. CASE \/ PruneHead(t) \/ ReleaseLock(t) \/ KeepLock(t) \/ ReapBranch(t)
           \/ SaveBranch(t) \/ Surface(t)
  BY <1>1, <1>3, <1>9 DEF PruneHead, ReleaseLock, KeepLock, ReapBranch, SaveBranch,
                         Surface
<1>10. CASE Recover(t)
  BY <1>1, <1>3, <1>10 DEF Recover
<1>11. CASE PushMainLost(t) \/ PushBranchLost(t) \/ Crash(t)
  BY <1>1, <1>3, <1>11 DEF PushMainLost, PushBranchLost, Crash
<1>12. CASE Rerun(t)
  <2>1. runs'[t] > 0
    BY <1>1, <1>12 DEF Rerun
  <2> QED
    BY <2>1 DEF Reported
<1>13. CASE Idle(t)
  BY <1>3, <1>13 DEF Idle
<1> QED
  BY <1>4, <1>6, <1>7, <1>8, <1>9, <1>10, <1>11, <1>12, <1>13, OneLaneMoves
     DEF LaneStep

\* The recovery of a committed branch is the only path that misreports: a lane
\* that was never run again and reports its task as merged has it on main,
\* whatever raced it.  MergedReportIsTrue fails only where it was.
THEOREM FirstRunsReportTruly == Spec => []OnlyARecoveryMisreports
<1> DEFINE ReportInv == \A t \in Task : Reported(t)
<1>1. Init => ReportInv
  BY DEF Init, Reported
<1>2. IInv /\ ReportInv /\ [Next]_vars => ReportInv'
  BY ReportedStep
<1>3. IInv /\ ReportInv => OnlyARecoveryMisreports
  BY DEF IInv, TypeOK, Reported, OnlyARecoveryMisreports
<1> HIDE DEF ReportInv
<1> QED
  BY <1>1, <1>2, <1>3, Invariance, PTL DEF Spec

-----------------------------------------------------------------------------
(* The locks are registers that the per-item lock implements *)

NoCommit == [entry |-> "none", action |-> "none", holder |-> "none", since |-> 0,
             kept |-> FALSE]

\* The lock commit of a build that holds its item, or whose proposal waits.
CommitOf(t, l) ==
    IF l = "free" THEN NoCommit
    ELSE [entry |-> t, action |-> "implement", holder |-> "build", since |-> 0,
          kept |-> l = "kept"]

Locks == {"held", "kept", "free"}

Refs == [t \in Task |-> CommitOf(t, lock[t])]

Register ==
    INSTANCE LockRegister
    WITH Item <- Task, LockCommit <- {CommitOf(p[1], p[2]) : p \in Task \X Locks},
         NoLock <- NoCommit, ref <- Refs

\* What a step does to the locks: nobody takes one.
LockMoves ==
    \/ lock' = lock
    \/ \E t \in Task :
          \/ lock' = [lock EXCEPT ![t] = "free"]
          \/ lock[t] # "free" /\ lock' = [lock EXCEPT ![t] = "kept"]

LEMMA LockMovesSo ==
    ASSUME lock \in [Task -> Locks], [Next]_vars PROVE LockMoves
<1> USE DEF LockMoves
<1>1. ASSUME NEW t \in Task, LaneStep(t)
      PROVE  LockMoves
  <2>1. CASE CommitWork(t) \/ GateRedInPlace(t) \/ RebaseWork(t) \/ GateTip(t)
    BY <2>1 DEF CommitWork, GateRedInPlace, RebaseWork, GateTip, arbiterVars
  <2>2. CASE PushMain(t) \/ PushMainRejected(t) \/ PushBranch(t) \/ OpenRequest(t)
    BY <2>2 DEF PushMain, PushMainRejected, PushBranch, OpenRequest, arbiterVars
  <2>3. CASE ReleaseLock(t)
    BY <2>3 DEF ReleaseLock
  <2>4. CASE KeepLock(t)
    <3>1. CASE lock[t] = "free" /\ MarkKept(t)
      BY <3>1 DEF MarkKept
    <3>2. CASE lock[t] # "free" /\ MarkKept(t)
      BY <3>2 DEF MarkKept
    <3> QED
      BY <2>4, <3>1, <3>2 DEF KeepLock
  <2>5. CASE PruneHead(t) \/ ReapBranch(t) \/ SaveBranch(t) \/ Surface(t) \/ Recover(t)
    BY <2>5 DEF PruneHead, ReapBranch, SaveBranch, Surface, Recover, arbiterVars
  <2> QED
    BY <1>1, <2>1, <2>2, <2>3, <2>4, <2>5 DEF LaneStep
<1>2. ASSUME NEW t \in Task,
             \/ PushMainLost(t) \/ PushBranchLost(t) \/ Crash(t) \/ Rerun(t) \/ MergePR(t)
      PROVE  LockMoves
  BY <1>2 DEF PushMainLost, PushBranchLost, Crash, Rerun, MergePR, arbiterVars
<1>3. CASE OtherWriter \/ UNCHANGED vars
  BY <1>3 DEF OtherWriter, vars
<1> QED
  BY <1>1, <1>2, <1>3 DEF Next

LEMMA RegisterMoves ==
    ASSUME lock \in [Task -> Locks], LockMoves
    PROVE  Register!Next \/ Refs' = Refs
<1>1. ASSUME NEW t \in Task, NEW l \in Locks, lock' = [lock EXCEPT ![t] = l]
      PROVE  Refs' = [Refs EXCEPT ![t] = CommitOf(t, l)]
  BY <1>1 DEF Refs
<1>2. ASSUME NEW t \in Task, lock[t] # "free"
      PROVE  /\ Refs[t] = [entry |-> t, action |-> "implement", holder |-> "build",
                           since |-> 0, kept |-> lock[t] = "kept"]
             /\ Refs[t] # NoCommit
  BY <1>2 DEF Refs, CommitOf, NoCommit
<1>3. ASSUME NEW t \in Task, lock' = [lock EXCEPT ![t] = "free"], lock[t] # "free"
      PROVE  Register!Next
  <2>1. Refs' = [Refs EXCEPT ![t] = NoCommit]
    BY <1>1, <1>3 DEF CommitOf, Locks
  <2> QED
    BY <1>2, <1>3, <2>1 DEF Register!Next, Register!Drop
<1>4. ASSUME NEW t \in Task, lock' = [lock EXCEPT ![t] = "kept"], lock[t] = "held"
      PROVE  Register!Next
  <2> DEFINE c == CommitOf(t, "kept")
  <2>1. Refs' = [Refs EXCEPT ![t] = c]
    BY <1>1, <1>4 DEF Locks
  <2>2. c = [entry |-> t, action |-> "implement", holder |-> "build", since |-> 0,
             kept |-> TRUE]
    BY DEF CommitOf
  <2>3. c \in {CommitOf(p[1], p[2]) : p \in Task \X Locks}
    <3>1. <<t, "kept">> \in Task \X Locks
      BY DEF Locks
    <3> QED
      BY <3>1
  <2>4. /\ Refs[t] # NoCommit /\ ~Refs[t].kept
        /\ Refs[t].entry = t /\ Refs[t].action = "implement"
        /\ Refs[t].holder = "build" /\ Refs[t].since = 0
    <3>1. Refs[t] = CommitOf(t, "held")
      BY <1>4 DEF Refs
    <3>2. CommitOf(t, "held") = [entry |-> t, action |-> "implement", holder |-> "build",
                                 since |-> 0, kept |-> FALSE]
      BY DEF CommitOf
    <3>3. Refs[t] # NoCommit
      BY <1>2, <1>4
    <3> QED
      BY <3>1, <3>2, <3>3
  <2>5. /\ c.kept /\ c.entry = t /\ c.action = "implement" /\ c.holder = "build"
        /\ c.since = 0
    BY <2>2
  <2> HIDE DEF c
  <2>6. Register!MarkKept(t, c)
    BY <2>1, <2>4, <2>5 DEF Register!MarkKept
  <2> QED
    BY <2>3, <2>6 DEF Register!Next
<1>5. ASSUME NEW t \in Task, NEW l \in Locks, lock' = [lock EXCEPT ![t] = l], lock[t] = l
      PROVE  Refs' = Refs
  <2>1. lock' = lock
    BY <1>5
  <2> QED
    BY <2>1 DEF Refs
<1>6. CASE lock' = lock
  BY <1>6 DEF Refs
<1>7. "free" \in Locks /\ "kept" \in Locks /\ \A t \in Task : lock[t] \in {"held", "kept", "free"}
  BY DEF Locks
<1> QED
  BY <1>3, <1>4, <1>5, <1>6, <1>7 DEF LockMoves

\* A lane treats its item's lock as the per-item lock lets it (ItemLock implements
\* the same LockRegister): it gives it back, or marks it as kept for the proposal
\* with nothing else changed, and never takes or overwrites one, however often it
\* is run again.
THEOREM LockDiscipline == Spec => [][Register!Next]_Refs
<1>1. IInv /\ [Next]_vars => [Register!Next]_Refs
  <2>1. IInv => lock \in [Task -> Locks]
    BY DEF IInv, TypeOK, Locks
  <2> QED
    BY <2>1, LockMovesSo, RegisterMoves
<1> QED
  BY <1>1, Invariance, PTL DEF Spec
=============================================================================
