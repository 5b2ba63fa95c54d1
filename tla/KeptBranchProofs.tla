-------------------------- MODULE KeptBranchProofs --------------------------
(***************************************************************************)
(* What holds of KeptBranch for every number of machines, agents, moves of *)
(* main and faults.                                                        *)
(*                                                                         *)
(* At most one run is alive, and nobody else writes the arbiter's branch   *)
(* while it is.  So what its fetch saw stays true until its push: a run    *)
(* that fetched continues the branch that is there, and its lease is the   *)
(* arbiter's tip (RunInv).  For the same reason a lease that is renewed is *)
(* not stale again, and a run is short (RunsAreBounded).                   *)
(***************************************************************************)
EXTENDS KeptBranch, TLAPS

OneRun ==
    \A m, n \in Machine : pc[m] # "idle" /\ pc[n] # "idle" => m = n

\* Where the run on a machine is, by its mirror, its worktree and the arbiter.
RunInv(m) ==
    /\ tree[m].there => head[m] # NoTip
    /\ pc[m] \notin {"idle", "fetch", "cut"} => tree[m].there
    /\ pc[m] = "cut" /\ ~blind[m] /\ branch # NoTip => head[m] = branch
    /\ pc[m] = "publish" /\ ~blind[m] =>
          branch = lease[m] /\ Work(head[m]) = Work(branch)
    /\ pc[m] = "start" => Work(head[m]) \subseteq Kept

IInv ==
    /\ TypeOK
    /\ OneRun
    /\ \A m \in Machine : RunInv(m)

\* What the two action properties say of a step.
Continued ==
    \/ Work(branch) \subseteq Kept'
    \/ \E m \in Machine : pc[m] = "publish" /\ blind[m]

Retained(m) ==
    tree[m].there => Work(head[m]) \subseteq Work(head'[m]) \cup Kept \cup Kept'

-----------------------------------------------------------------------------
(* Commits *)

LEMMA NewLineIsLine == NewLine \in Line
<1>1. \E line \in Line : line \notin LinesInUse \/ Line \subseteq LinesInUse
  BY TipAssumption
<1> QED
  BY <1>1 DEF NewLine

LEMMA RebasedTip ==
    ASSUME version \in Nat, NEW tip \in Tip
    PROVE  Rebased(tip) \in Tip /\ Work(Rebased(tip)) = Work(tip)
<1>1. tip # NoTip /\ tip.work \in SUBSET Piece
  BY TipAssumption DEF Tip
<1>2. CASE tip.base = version
  BY <1>2 DEF Rebased
<1>3. CASE tip.base # version
  <2>1. Rebased(tip) = [base |-> version, line |-> NewLine, work |-> tip.work]
    BY <1>3 DEF Rebased
  <2>2. Rebased(tip) \in Tip
    BY <1>1, <2>1, NewLineIsLine DEF Tip
  <2> QED
    BY <1>1, <2>1, <2>2, TipAssumption DEF Work
<1> QED
  BY <1>2, <1>3

LEMMA TreeFiles ==
    ASSUME TypeOK, NEW m \in Machine
    PROVE  /\ tree[m].dirty \in SUBSET Piece
           /\ tree[m].there \in BOOLEAN
           /\ tree[m].there => tree[m] \in [there : {TRUE}, dirty : SUBSET Piece]
<1>1. tree[m] \in {NoTree} \cup [there : {TRUE}, dirty : SUBSET Piece]
  BY DEF TypeOK
<1>2. CASE tree[m] = NoTree
  BY <1>2 DEF NoTree
<1>3. CASE tree[m] \in [there : {TRUE}, dirty : SUBSET Piece]
  BY <1>3
<1> QED
  BY <1>1, <1>2, <1>3

LEMMA FaultCounts == ASSUME TypeOK, Fault PROVE faults' \in 0..MaxFaults
BY ConstantsAssumption DEF TypeOK, Fault

LEMMA CommittedTip ==
    ASSUME TypeOK, NEW m \in Machine, head[m] # NoTip
    PROVE  /\ Committed(m) \in Tip
           /\ Work(Committed(m)) = Work(head[m]) \cup tree[m].dirty
           /\ Work(Committed(m)) = Committed(m).work
<1>1. head[m] \in Tip /\ tree[m].dirty \in SUBSET Piece
  BY TreeFiles DEF TypeOK
<1>2. /\ Committed(m) \in Tip
      /\ Committed(m).work = head[m].work \cup tree[m].dirty
  BY <1>1 DEF Committed, Tip
<1> QED
  BY <1>1, <1>2, TipAssumption DEF Work

LEMMA WorkIsPieces == ASSUME NEW tip \in Tip \cup {NoTip} PROVE Work(tip) \in SUBSET Piece
BY DEF Work, Tip

\* What a plain push replaces is in what it pushes.
LEMMA FastForwardKeeps ==
    ASSUME NEW from, NEW to, to # NoTip, FastForward(from, to)
    PROVE  Work(from) \subseteq Work(to)
BY DEF FastForward, Work

-----------------------------------------------------------------------------
(* A step of one machine, seen by what it leaves alone *)

Same(n) ==
    /\ pc'[n] = pc[n] /\ head'[n] = head[n] /\ tree'[n] = tree[n]
    /\ blind'[n] = blind[n] /\ lease'[n] = lease[n]

\* Only the machine changes, and the arbiter only if the machine has the run, or
\* no machine has.
Private(m) ==
    /\ \A n \in Machine \ {m} : Same(n)
    /\ \/ \A n \in Machine \ {m} : pc[n] = "idle"
       \/ UNCHANGED <<branch, landed, dropped>> /\ (pc'[m] = "idle" \/ pc[m] # "idle")

LEMMA MachineStep ==
    ASSUME IInv, NEW m \in Machine, TypeOK', Private(m), RunInv(m)'
    PROVE  IInv'
<1>1. OneRun'
  BY DEF IInv, OneRun, Private, Same
<1>2. ASSUME NEW n \in Machine \ {m} PROVE RunInv(n)'
  <2>1. RunInv(n) /\ Same(n)
    BY <1>2 DEF IInv, Private
  <2>2. pc[n] = "idle" \/ UNCHANGED <<branch, landed, dropped>>
    BY <1>2 DEF Private
  <2> QED
    BY <2>1, <2>2 DEF RunInv, Same, Kept
<1> QED
  BY <1>1, <1>2 DEF IInv

\* The run of a machine is the only one.
LEMMA RunIsAlone ==
    ASSUME IInv, NEW m \in Machine, pc[m] # "idle"
    PROVE  \A n \in Machine \ {m} : pc[n] = "idle"
BY DEF IInv, OneRun

LEMMA StepOfMachine ==
    ASSUME IInv, NEW m \in Machine, TypeOK', Private(m), RunInv(m)', Continued, Retained(m)
    PROVE  IInv' /\ Continued /\ \A n \in Machine : Retained(n)
<1>1. \A n \in Machine \ {m} : Retained(n)
  BY DEF Private, Same, Retained
<1> QED
  BY <1>1, MachineStep

-----------------------------------------------------------------------------
(* From the claim to the agent *)

LEMMA ClaimStep ==
    ASSUME IInv, NEW m \in Machine, Claim(m)
    PROVE  IInv' /\ Continued /\ \A n \in Machine : Retained(n)
<1>1. TypeOK'
  BY DEF IInv, TypeOK, Claim, Goto, Label
<1>2. pc'[m] = "fetch"
  BY DEF IInv, TypeOK, Claim, Goto
<1>3. Private(m)
  BY DEF IInv, TypeOK, Claim, Goto, Private, Same, Alive
<1>4. RunInv(m)'
  BY <1>2 DEF IInv, RunInv, Claim
<1>5. Continued /\ Retained(m)
  BY DEF Claim, Continued, Retained, Kept
<1> QED
  BY <1>1, <1>3, <1>4, <1>5, StepOfMachine

LEMMA FetchStep ==
    ASSUME IInv, NEW m \in Machine, Fetch(m)
    PROVE  IInv' /\ Continued /\ \A n \in Machine : Retained(n)
<1>1. TypeOK'
  <2>1. faults' \in 0..MaxFaults
    BY FaultCounts DEF IInv, TypeOK, Fetch
  <2>2. head' \in [Machine -> Tip \cup {NoTip}] /\ blind' \in [Machine -> BOOLEAN]
    BY DEF IInv, TypeOK, Fetch
  <2>3. pc' \in [Machine -> Label]
    BY DEF IInv, TypeOK, Fetch, Goto, Label
  <2> QED
    BY <2>1, <2>2, <2>3 DEF IInv, TypeOK, Fetch, arbiter
<1>2. pc'[m] = "cut" /\ UNCHANGED <<arbiter, tree, dropped>>
  BY DEF IInv, TypeOK, Fetch, Goto
<1>3. Private(m)
  BY RunIsAlone DEF IInv, TypeOK, Fetch, Goto, Private, Same, arbiter
<1>4. ~tree[m].there \/ head' = head
  BY DEF Fetch
<1>5. ~blind'[m] /\ branch # NoTip => head'[m] = branch
  BY DEF IInv, TypeOK, Fetch
<1>6. RunInv(m)'
  BY <1>2, <1>4, <1>5 DEF IInv, RunInv, arbiter
<1>7. Continued /\ Retained(m)
  BY <1>2, <1>4 DEF Continued, Retained, Kept, arbiter
<1> QED
  BY <1>1, <1>3, <1>6, <1>7, StepOfMachine

\* What is reaped is on the arbiter.
LEMMA ReapStep ==
    ASSUME IInv, NEW m \in Machine, ReapIfReachable(m)
    PROVE  /\ head' \in [Machine -> Tip \cup {NoTip}]
           /\ tree' \in [Machine -> {NoTree} \cup [there : {TRUE}, dirty : SUBSET Piece]]
           /\ \A n \in Machine \ {m} : head'[n] = head[n] /\ tree'[n] = tree[n]
           /\ tree'[m].there => head'[m] # NoTip
           /\ Retained(m)
<1>1. TypeOK /\ RunInv(m)
  BY DEF IInv
<1>2. CASE tree[m].there /\ Reachable(m)
  <2>1. RemoveTree(m)
    BY <1>2 DEF ReapIfReachable
  <2>2. ~tree'[m].there
    BY <1>1, <2>1 DEF RemoveTree, TypeOK, NoTree
  <2>3. Work(head[m]) \subseteq Kept
    BY <1>2 DEF Reachable, Kept
  <2> QED
    BY <1>1, <2>1, <2>2, <2>3 DEF RemoveTree, TypeOK, Retained
<1>3. CASE ~(tree[m].there /\ Reachable(m))
  <2>1. UNCHANGED <<tree, head>>
    BY <1>3 DEF ReapIfReachable
  <2> QED
    BY <1>1, <2>1 DEF TypeOK, RunInv, Retained
<1> QED
  BY <1>2, <1>3

LEMMA FetchFailsStep ==
    ASSUME IInv, NEW m \in Machine, FetchFails(m)
    PROVE  IInv' /\ Continued /\ \A n \in Machine : Retained(n)
<1>1. /\ pc[m] = "fetch" /\ ReapIfReachable(m)
      /\ UNCHANGED <<version, landed, branch, lock, made, dropped>>
  BY DEF FetchFails, arbiter
<1>2. TypeOK'
  <2>1. faults' \in 0..MaxFaults
    BY FaultCounts DEF IInv, FetchFails
  <2>2. /\ pc' \in [Machine -> Label] /\ blind' \in [Machine -> BOOLEAN]
        /\ lease' \in [Machine -> Tip \cup {NoTip}]
    BY DEF IInv, TypeOK, FetchFails, Leave, Goto, Label
  <2> QED
    BY <1>1, <2>1, <2>2, ReapStep DEF IInv, TypeOK
<1>3. pc'[m] = "idle"
  BY DEF IInv, TypeOK, FetchFails, Leave, Goto
<1>4. Private(m)
  BY <1>1, ReapStep, RunIsAlone
  DEF IInv, TypeOK, FetchFails, Leave, Goto, Private, Same
<1>5. RunInv(m)'
  BY <1>1, <1>3, ReapStep DEF RunInv
<1>6. Continued /\ Retained(m)
  BY <1>1, ReapStep DEF Continued, Kept
<1> QED
  BY <1>2, <1>4, <1>5, <1>6, StepOfMachine

LEMMA CutFromKeptStep ==
    ASSUME IInv, NEW m \in Machine, CutFromKept(m)
    PROVE  IInv' /\ Continued /\ \A n \in Machine : Retained(n)
<1>1. /\ pc[m] = "cut" /\ Continues(m) /\ UNCHANGED <<arbiter, made, dropped, faults>>
      /\ tree' = [tree EXCEPT ![m] = CleanTree]
      /\ TypeOK /\ RunInv(m)
  BY DEF CutFromKept, IInv
<1>2. head[m] \in Tip /\ branch # NoTip
  BY <1>1 DEF Continues, TypeOK
<1>3. tree'[m].there /\ tree' \in [Machine -> {NoTree} \cup [there : {TRUE}, dirty : SUBSET Piece]]
  BY <1>1 DEF TypeOK, CleanTree
<1>4. Rebased(head[m]) \in Tip /\ Work(Rebased(head[m])) = Work(head[m])
  BY <1>1, <1>2, RebasedTip DEF TypeOK
<1>5. CASE /\ head' = [head EXCEPT ![m] = Rebased(head[m])]
           /\ lease' = [lease EXCEPT ![m] = head[m]]
           /\ Goto(m, "publish")
           /\ UNCHANGED blind
  <2>1. /\ pc'[m] = "publish" /\ head'[m] = Rebased(head[m]) /\ lease'[m] = head[m]
        /\ blind'[m] = blind[m]
    BY <1>1, <1>5 DEF TypeOK, Goto
  <2>2. TypeOK'
    BY <1>1, <1>2, <1>3, <1>4, <1>5 DEF TypeOK, arbiter, Goto, Label
  <2>3. Private(m)
    BY <1>1, <1>5, RunIsAlone DEF TypeOK, Goto, Private, Same
  <2>4. ~blind[m] => head[m] = branch
    BY <1>1, <1>2 DEF RunInv
  <2>5. head'[m] # NoTip
    BY <2>1, <1>4, TipAssumption
  <2>6. RunInv(m)'
    BY <1>1, <1>3, <1>4, <2>1, <2>4, <2>5 DEF RunInv, arbiter
  <2>7. Continued /\ Retained(m)
    BY <1>1, <1>4, <2>1 DEF Continued, Retained, Kept, arbiter
  <2> QED
    BY <2>2, <2>3, <2>6, <2>7, StepOfMachine
<1>6. CASE Leave(m, "bounce") /\ UNCHANGED head
  <2>1. pc'[m] = "bounce" /\ head'[m] = head[m]
    BY <1>1, <1>6 DEF TypeOK, Leave, Goto
  <2>2. TypeOK'
    BY <1>1, <1>3, <1>6 DEF TypeOK, arbiter, Leave, Goto, Label
  <2>3. Private(m)
    BY <1>1, <1>6, RunIsAlone DEF TypeOK, Leave, Goto, Private, Same
  <2>4. RunInv(m)'
    BY <1>2, <1>3, <2>1, TipAssumption DEF RunInv
  <2>5. Continued /\ Retained(m)
    BY <1>1, <2>1 DEF Continued, Retained, Kept, arbiter
  <2> QED
    BY <2>2, <2>3, <2>4, <2>5, StepOfMachine
<1> QED
  BY <1>5, <1>6 DEF CutFromKept

LEMMA CutFreshStep ==
    ASSUME IInv, NEW m \in Machine, CutFresh(m)
    PROVE  IInv' /\ Continued /\ \A n \in Machine : Retained(n)
<1> DEFINE tip == [base |-> version, line |-> Main, work |-> {}]
<1>1. /\ pc[m] = "cut" /\ UNCHANGED <<version, landed, branch, lock, made, dropped, faults>>
      /\ tree[m].there => Safe(m)
      /\ tree' = [tree EXCEPT ![m] = CleanTree]
      /\ head' = [head EXCEPT ![m] = tip]
      /\ Leave(m, "start")
      /\ TypeOK
  BY DEF CutFresh, IInv, arbiter
<1>2. tip \in Tip /\ tip # NoTip
  BY <1>1, TipAssumption DEF TypeOK, Tip
<1>3. pc'[m] = "start" /\ tree'[m].there /\ head'[m] = tip
  BY <1>1 DEF TypeOK, Leave, Goto, CleanTree
<1>4. TypeOK'
  BY <1>1, <1>2 DEF TypeOK, Leave, Goto, Label, CleanTree
<1>5. Private(m)
  BY <1>1, RunIsAlone DEF TypeOK, Leave, Goto, Private, Same
<1>6. Work(tip) = {}
  BY <1>2 DEF Work
<1>7. RunInv(m)'
  BY <1>2, <1>3, <1>6 DEF RunInv
<1>8. Continued /\ Retained(m)
  BY <1>1 DEF Continued, Retained, Kept, Safe, Reachable
<1> QED
  BY <1>4, <1>5, <1>7, <1>8, StepOfMachine

LEMMA RefuseToClearStep ==
    ASSUME IInv, NEW m \in Machine, RefuseToClear(m)
    PROVE  IInv' /\ Continued /\ \A n \in Machine : Retained(n)
<1>1. /\ pc[m] = "cut" /\ Leave(m, "idle") /\ TypeOK /\ RunInv(m)
      /\ UNCHANGED <<version, landed, branch, lock, head, tree, made, dropped, faults>>
  BY DEF RefuseToClear, IInv, arbiter
<1>2. TypeOK'
  BY <1>1 DEF TypeOK, Leave, Goto, Label
<1>3. pc'[m] = "idle"
  BY <1>1 DEF TypeOK, Leave, Goto
<1>4. Private(m)
  BY <1>1, RunIsAlone DEF TypeOK, Leave, Goto, Private, Same
<1>5. RunInv(m)'
  BY <1>1, <1>3 DEF RunInv
<1>6. Continued /\ Retained(m)
  BY <1>1 DEF Continued, Retained, Kept
<1> QED
  BY <1>2, <1>4, <1>5, <1>6, StepOfMachine

LEMMA Goes ==
    ASSUME TypeOK, NEW m \in Machine, NEW label \in Label, Goto(m, label)
    PROVE  /\ pc' \in [Machine -> Label]
           /\ pc'[m] = label
           /\ \A n \in Machine \ {m} : pc'[n] = pc[n]
BY DEF TypeOK, Goto

LEMMA Leaves ==
    ASSUME TypeOK, NEW m \in Machine, NEW label \in Label, Leave(m, label)
    PROVE  /\ pc' \in [Machine -> Label]
           /\ blind' \in [Machine -> BOOLEAN]
           /\ lease' \in [Machine -> Tip \cup {NoTip}]
           /\ pc'[m] = label
           /\ \A n \in Machine \ {m} :
                 pc'[n] = pc[n] /\ blind'[n] = blind[n] /\ lease'[n] = lease[n]
BY DEF TypeOK, Leave, Goto

LEMMA PublishStep ==
    ASSUME IInv, NEW m \in Machine, Publish(m)
    PROVE  IInv' /\ Continued /\ \A n \in Machine : Retained(n)
<1>1. /\ pc[m] = "publish" /\ branch = lease[m] /\ branch' = head[m]
      /\ Leave(m, "start")
      /\ UNCHANGED <<version, landed, lock, head, tree, made, dropped, faults>>
      /\ TypeOK /\ RunInv(m)
  BY DEF Publish, IInv
<1>2. "start" \in Label
  BY DEF Label
<1>3. TypeOK'
  BY <1>1, <1>2, Leaves DEF TypeOK
<1>4. Private(m)
  BY <1>1, <1>2, Leaves, RunIsAlone DEF Private, Same
<1>5. RunInv(m)'
  BY <1>1, <1>2, Leaves DEF RunInv, Kept
<1>6. Continued
  BY <1>1 DEF RunInv, Continued, Kept
<1>7. Retained(m)
  BY <1>1 DEF Retained
<1> QED
  BY <1>3, <1>4, <1>5, <1>6, <1>7, StepOfMachine

LEMMA LeaseAgainStep ==
    ASSUME IInv, NEW m \in Machine, LeaseAgain(m)
    PROVE  IInv' /\ Continued /\ \A n \in Machine : Retained(n)
<1>1. /\ pc[m] = "publish" /\ branch \notin {NoTip, lease[m]}
      /\ UNCHANGED <<version, landed, branch, lock, tree, made, dropped, faults>>
      /\ TypeOK /\ RunInv(m)
  BY DEF LeaseAgain, IInv, arbiter
<1>2. blind[m] /\ head[m] # NoTip /\ head[m] \in Tip /\ tree[m].there
  BY <1>1 DEF RunInv, TypeOK
<1>3. Rebased(head[m]) \in Tip /\ Work(Rebased(head[m])) = Work(head[m])
  BY <1>1, <1>2, RebasedTip DEF TypeOK
<1>4. CASE /\ head' = [head EXCEPT ![m] = Rebased(head[m])]
           /\ lease' = [lease EXCEPT ![m] = branch]
           /\ UNCHANGED <<pc, blind>>
  <2>1. TypeOK'
    BY <1>1, <1>3, <1>4 DEF TypeOK
  <2>2. head'[m] = Rebased(head[m]) /\ head'[m] # NoTip
    BY <1>1, <1>3, <1>4, TipAssumption DEF TypeOK
  <2>3. Private(m)
    BY <1>1, <1>4, RunIsAlone DEF TypeOK, Private, Same
  <2>4. RunInv(m)'
    BY <1>1, <1>2, <1>4, <2>2 DEF RunInv
  <2>5. Continued /\ Retained(m)
    BY <1>1, <1>3, <2>2 DEF Continued, Retained, Kept
  <2> QED
    BY <2>1, <2>3, <2>4, <2>5, StepOfMachine
<1>5. CASE Leave(m, "bounce") /\ UNCHANGED head
  <2>1. "bounce" \in Label
    BY DEF Label
  <2>2. TypeOK'
    BY <1>1, <1>5, <2>1, Leaves DEF TypeOK
  <2>3. Private(m)
    BY <1>1, <1>5, <2>1, Leaves, RunIsAlone DEF Private, Same
  <2>4. RunInv(m)'
    BY <1>1, <1>2, <1>5, <2>1, Leaves DEF RunInv
  <2>5. Continued /\ Retained(m)
    BY <1>1, <1>5 DEF Continued, Retained, Kept
  <2> QED
    BY <2>2, <2>3, <2>4, <2>5, StepOfMachine
<1> QED
  BY <1>4, <1>5 DEF LeaseAgain

LEMMA PublishFailsStep ==
    ASSUME IInv, NEW m \in Machine, PublishFails(m)
    PROVE  IInv' /\ Continued /\ \A n \in Machine : Retained(n)
<1>1. /\ pc[m] = "publish" /\ Leave(m, "bounce") /\ faults' \in 0..MaxFaults
      /\ UNCHANGED <<version, landed, branch, lock, head, tree, made, dropped>>
      /\ TypeOK /\ RunInv(m)
  BY FaultCounts DEF PublishFails, IInv, arbiter
<1>2. "bounce" \in Label
  BY DEF Label
<1>3. TypeOK'
  BY <1>1, <1>2, Leaves DEF TypeOK
<1>4. Private(m)
  BY <1>1, <1>2, Leaves, RunIsAlone DEF Private, Same
<1>5. RunInv(m)'
  BY <1>1, <1>2, Leaves DEF RunInv
<1>6. Continued /\ Retained(m)
  BY <1>1 DEF Continued, Retained, Kept
<1> QED
  BY <1>3, <1>4, <1>5, <1>6, StepOfMachine

LEMMA StartStep ==
    ASSUME IInv, NEW m \in Machine, Start(m)
    PROVE  IInv' /\ Continued /\ \A n \in Machine : Retained(n)
<1>1. /\ pc[m] = "start" /\ Goto(m, "agent") /\ "agent" \in Label
      /\ UNCHANGED <<version, landed, lock, tree, blind, lease, made, dropped>>
      /\ TypeOK /\ RunInv(m)
  BY DEF Start, IInv, Label
<1>2. tree[m].there /\ head[m] # NoTip /\ Work(head[m]) \subseteq Kept
  BY <1>1 DEF RunInv
<1>3. CASE branch = NoTip
  <2>1. UNCHANGED <<branch, head, faults>>
    BY <1>3 DEF Start
  <2>2. TypeOK'
    BY <1>1, <2>1, Goes DEF TypeOK
  <2>3. Private(m)
    BY <1>1, <2>1, Goes, RunIsAlone DEF Private, Same
  <2>4. RunInv(m)'
    BY <1>1, <1>2, <2>1, Goes DEF RunInv
  <2>5. Continued /\ Retained(m)
    BY <1>1, <2>1 DEF Continued, Retained, Kept
  <2> QED
    BY <2>2, <2>3, <2>4, <2>5, StepOfMachine
<1>4. CASE branch # NoTip
  <2>1. branch \in Tip
    BY <1>1, <1>4 DEF TypeOK
  <2>2. Rebased(branch) \in Tip /\ Work(Rebased(branch)) = Work(branch)
    BY <1>1, <2>1, RebasedTip DEF TypeOK
  <2>3. head' = [head EXCEPT ![m] = Rebased(branch)]
    BY <1>4 DEF Start
  <2>4. head'[m] = Rebased(branch) /\ head'[m] # NoTip
    BY <1>1, <2>2, <2>3, TipAssumption DEF TypeOK
  <2>5. branch' \in {branch, Rebased(branch)} /\ faults' \in 0..MaxFaults
    BY <1>1, <1>4, FaultCounts DEF Start, TypeOK
  <2>6. Work(branch') = Work(branch)
    BY <2>2, <2>5
  <2>7. TypeOK'
    BY <1>1, <2>1, <2>2, <2>3, <2>5, Goes DEF TypeOK
  <2>8. Private(m)
    BY <1>1, <2>3, Goes, RunIsAlone DEF TypeOK, Private, Same
  <2>9. RunInv(m)'
    BY <1>1, <1>2, <2>4, Goes DEF RunInv
  <2>10. Continued /\ Retained(m)
    BY <1>1, <1>2, <2>6 DEF Continued, Retained, Kept
  <2> QED
    BY <2>7, <2>8, <2>9, <2>10, StepOfMachine
<1> QED
  BY <1>3, <1>4

LEMMA StartConflictsStep ==
    ASSUME IInv, NEW m \in Machine, StartConflicts(m)
    PROVE  IInv' /\ Continued /\ \A n \in Machine : Retained(n)
<1>1. /\ pc[m] = "start" /\ branch # NoTip /\ head' = [head EXCEPT ![m] = branch]
      /\ lock' = "stuck" /\ Goto(m, "end") /\ "end" \in Label
      /\ UNCHANGED <<version, landed, branch, tree, blind, lease, made, dropped, faults>>
      /\ TypeOK /\ RunInv(m)
  BY DEF StartConflicts, IInv, Label
<1>2. TypeOK'
  BY <1>1, Goes DEF TypeOK
<1>3. head'[m] = branch
  BY <1>1 DEF TypeOK
<1>4. Private(m)
  BY <1>1, Goes, RunIsAlone DEF TypeOK, Private, Same
<1>5. RunInv(m)'
  BY <1>1, <1>3, Goes DEF RunInv
<1>6. Continued /\ Retained(m)
  BY <1>1 DEF RunInv, Continued, Retained, Kept
<1> QED
  BY <1>2, <1>4, <1>5, <1>6, StepOfMachine

LEMMA AgentStep ==
    ASSUME IInv, NEW m \in Machine, Agent(m)
    PROVE  IInv' /\ Continued /\ \A n \in Machine : Retained(n)
<1>1. /\ pc[m] = "agent" /\ Goto(m, "built") /\ "built" \in Label
      /\ UNCHANGED <<version, landed, branch, lock, head, blind, lease, dropped, faults>>
      /\ TypeOK /\ RunInv(m)
  BY DEF Agent, IInv, Label, arbiter
<1>2. tree[m].there /\ head[m] # NoTip
  BY <1>1 DEF RunInv
<1>3. /\ made' \in 0..MaxPieces
      /\ tree' \in [Machine -> {NoTree} \cup [there : {TRUE}, dirty : SUBSET Piece]]
      /\ tree'[m].there
      /\ \A n \in Machine \ {m} : tree'[n] = tree[n]
  <2>1. CASE UNCHANGED <<made, tree>>
    BY <1>1, <1>2, <2>1 DEF TypeOK
  <2>2. CASE /\ made < MaxPieces /\ made' = made + 1
             /\ tree' = [tree EXCEPT ![m].dirty = @ \cup {made + 1}]
    <3>1. made + 1 \in 1..MaxPieces
      BY <1>1, <2>2, ConstantsAssumption DEF TypeOK
    <3>2. tree[m] \in [there : {TRUE}, dirty : SUBSET Piece]
      BY <1>1, <1>2, TreeFiles
    <3>3. [tree[m] EXCEPT !.dirty = @ \cup {made + 1}]
            \in [there : {TRUE}, dirty : SUBSET Piece]
      BY <3>1, <3>2 DEF Piece
    <3>4. tree' = [tree EXCEPT ![m] = [tree[m] EXCEPT !.dirty = @ \cup {made + 1}]]
      BY <1>1, <2>2 DEF TypeOK
    <3>5. /\ tree' \in [Machine -> {NoTree} \cup [there : {TRUE}, dirty : SUBSET Piece]]
          /\ \A n \in Machine \ {m} : tree'[n] = tree[n]
      BY <1>1, <3>3, <3>4 DEF TypeOK
    <3>6. tree'[m] = [tree[m] EXCEPT !.dirty = @ \cup {made + 1}]
      BY <1>1, <3>4 DEF TypeOK
    <3>7. tree'[m].there
      BY <3>3, <3>6
    <3>8. made' \in 0..MaxPieces
      BY <2>2, <3>1, ConstantsAssumption
    <3> QED
      BY <3>5, <3>7, <3>8
  <2> QED
    BY <2>1, <2>2 DEF Agent
<1>4. TypeOK'
  BY <1>1, <1>3, Goes DEF TypeOK
<1>5. Private(m)
  BY <1>1, <1>3, Goes, RunIsAlone DEF Private, Same
<1>6. RunInv(m)'
  BY <1>1, <1>2, <1>3, Goes DEF RunInv
<1>7. Continued /\ Retained(m)
  BY <1>1 DEF Continued, Retained, Kept
<1> QED
  BY <1>4, <1>5, <1>6, <1>7, StepOfMachine

-----------------------------------------------------------------------------
(* How a run ends *)

LEMMA Commits ==
    ASSUME TypeOK, NEW m \in Machine, tree[m].there, head[m] # NoTip,
           head' = [head EXCEPT ![m] = Committed(m)],
           tree' = [tree EXCEPT ![m].dirty = {}]
    PROVE  /\ head' \in [Machine -> Tip \cup {NoTip}]
           /\ tree' \in [Machine -> {NoTree} \cup [there : {TRUE}, dirty : SUBSET Piece]]
           /\ \A n \in Machine \ {m} : head'[n] = head[n] /\ tree'[n] = tree[n]
           /\ head'[m] = Committed(m) /\ head'[m] # NoTip /\ tree'[m].there
           /\ Work(head[m]) \subseteq Work(head'[m])
<1>1. Committed(m) \in Tip /\ Work(head[m]) \subseteq Work(Committed(m))
  BY CommittedTip
<1>2. head'[m] = Committed(m) /\ head' \in [Machine -> Tip \cup {NoTip}]
  BY <1>1 DEF TypeOK
<1>3. tree' = [tree EXCEPT ![m] = [tree[m] EXCEPT !.dirty = {}]]
  BY DEF TypeOK
<1>4. [tree[m] EXCEPT !.dirty = {}] \in [there : {TRUE}, dirty : SUBSET Piece]
  BY TreeFiles
<1>5. /\ tree' \in [Machine -> {NoTree} \cup [there : {TRUE}, dirty : SUBSET Piece]]
      /\ tree'[m] = [tree[m] EXCEPT !.dirty = {}]
  BY <1>3, <1>4 DEF TypeOK
<1>6. \A n \in Machine \ {m} : head'[n] = head[n] /\ tree'[n] = tree[n]
  BY <1>3 DEF TypeOK
<1> QED
  BY <1>1, <1>2, <1>4, <1>5, <1>6, TipAssumption

LEMMA Saves ==
    ASSUME TypeOK, NEW m \in Machine, tree[m].there, head[m] # NoTip, SaveWork(m)
    PROVE  /\ head' = [head EXCEPT ![m] = Committed(m)]
           /\ tree' = [tree EXCEPT ![m].dirty = {}]
           /\ branch' \in Tip \cup {NoTip}
           /\ faults' \in 0..MaxFaults
           /\ Work(branch) \subseteq Work(branch')
<1>1. Committed(m) \in Tip /\ Committed(m) # NoTip
  BY CommittedTip, TipAssumption
<1>2. branch' \in {branch, Committed(m)} /\ faults' \in 0..MaxFaults
  BY FaultCounts DEF SaveWork, TypeOK
<1>3. Work(branch) \subseteq Work(branch')
  BY <1>1, FastForwardKeeps DEF SaveWork
<1> QED
  BY <1>1, <1>2, <1>3 DEF SaveWork, TypeOK

\* The ends that commit, and then push or not.
LEMMA EndStep ==
    ASSUME IInv, NEW m \in Machine, pc[m] \in {"built", "bounce"},
           head' = [head EXCEPT ![m] = Committed(m)],
           tree' = [tree EXCEPT ![m].dirty = {}],
           branch' \in Tip \cup {NoTip}, faults' \in 0..MaxFaults,
           lock' \in {"free", "held", "stuck"},
           version' \in Nat, landed' \subseteq Piece,
           Work(branch) \subseteq Kept',
           Goto(m, "end"), UNCHANGED <<blind, lease, made, dropped>>
    PROVE  IInv' /\ Continued /\ \A n \in Machine : Retained(n)
<1>1. TypeOK /\ RunInv(m) /\ "end" \in Label
  BY DEF IInv, Label
<1>2. tree[m].there /\ head[m] # NoTip
  BY <1>1 DEF RunInv
<1>3. TypeOK'
  BY <1>1, <1>2, Commits, Goes DEF TypeOK
<1>4. Private(m)
  BY <1>1, <1>2, Commits, Goes, RunIsAlone DEF Private, Same
<1>5. pc'[m] = "end" /\ tree'[m].there /\ head'[m] # NoTip
  BY <1>1, <1>2, Commits, Goes
<1>6. RunInv(m)'
  BY <1>5 DEF RunInv
<1>7. Continued
  BY DEF Continued
<1>8. Retained(m)
  BY <1>1, <1>2, Commits DEF Retained
<1> QED
  BY <1>3, <1>4, <1>6, <1>7, <1>8, StepOfMachine

LEMMA SavingEndStep ==
    ASSUME IInv, NEW m \in Machine, Bounce(m) \/ Checkpoint(m)
    PROVE  IInv' /\ Continued /\ \A n \in Machine : Retained(n)
<1>1. /\ pc[m] \in {"built", "bounce"} /\ SaveWork(m) /\ Goto(m, "end")
      /\ lock' \in {"free", "held", "stuck"}
      /\ UNCHANGED <<version, landed, blind, lease, made, dropped>>
  BY DEF Bounce, Checkpoint
<1>2. TypeOK /\ tree[m].there /\ head[m] # NoTip
  BY <1>1 DEF IInv, RunInv
<1>3. /\ head' = [head EXCEPT ![m] = Committed(m)]
      /\ tree' = [tree EXCEPT ![m].dirty = {}]
      /\ branch' \in Tip \cup {NoTip} /\ faults' \in 0..MaxFaults
      /\ Work(branch) \subseteq Work(branch')
  BY <1>1, <1>2, Saves
<1>4. Work(branch) \subseteq Kept'
  BY <1>3 DEF Kept
<1>5. version' \in Nat /\ landed' \subseteq Piece
  BY <1>1, <1>2 DEF TypeOK
<1> QED
  BY <1>1, <1>3, <1>4, <1>5, EndStep

LEMMA EndCommittedStep ==
    ASSUME IInv, NEW m \in Machine, EndCommitted(m)
    PROVE  IInv' /\ Continued /\ \A n \in Machine : Retained(n)
<1>1. /\ pc[m] = "built" /\ Goto(m, "end") /\ lock' \in {"held", "stuck"}
      /\ head' = [head EXCEPT ![m] = Committed(m)]
      /\ tree' = [tree EXCEPT ![m].dirty = {}]
      /\ UNCHANGED <<version, landed, branch, blind, lease, made, dropped, faults>>
  BY DEF EndCommitted
<1>2. /\ version' \in Nat /\ landed' \subseteq Piece /\ faults' \in 0..MaxFaults
      /\ branch' \in Tip \cup {NoTip}
  BY <1>1 DEF IInv, TypeOK
<1>3. Work(branch) \subseteq Kept'
  BY <1>1 DEF Kept
<1> QED
  BY <1>1, <1>2, <1>3, EndStep

LEMMA LandStep ==
    ASSUME IInv, NEW m \in Machine, Land(m)
    PROVE  IInv' /\ Continued /\ \A n \in Machine : Retained(n)
<1>1. /\ pc[m] = "built" /\ Goto(m, "end") /\ lock' = "free"
      /\ head' = [head EXCEPT ![m] = Committed(m)]
      /\ tree' = [tree EXCEPT ![m].dirty = {}]
      /\ landed' = Committed(m).work /\ version' = version + 1
      /\ UNCHANGED <<branch, blind, lease, made, dropped, faults>>
  BY DEF Land
<1>2. TypeOK /\ tree[m].there /\ head[m] # NoTip
  BY <1>1 DEF IInv, RunInv
<1>3. Committed(m).work \in SUBSET Piece
  BY <1>2, CommittedTip DEF Tip
<1>4. /\ version' \in Nat /\ landed' \subseteq Piece /\ faults' \in 0..MaxFaults
      /\ branch' \in Tip \cup {NoTip}
  BY <1>1, <1>2, <1>3 DEF TypeOK
<1>5. Work(branch) \subseteq Kept'
  BY <1>1 DEF Kept
<1> QED
  BY <1>1, <1>4, <1>5, EndStep

LEMMA EndUnsavedStep ==
    ASSUME IInv, NEW m \in Machine, EndUnsaved(m)
    PROVE  IInv' /\ Continued /\ \A n \in Machine : Retained(n)
<1>1. /\ pc[m] = "built" /\ Goto(m, "end") /\ "end" \in Label
      /\ lock' \in {"held", "stuck"}
      /\ UNCHANGED <<version, landed, branch, head, tree, blind, lease, made, dropped, faults>>
      /\ TypeOK /\ RunInv(m)
  BY DEF EndUnsaved, IInv, Label
<1>2. TypeOK'
  BY <1>1, Goes DEF TypeOK
<1>3. Private(m)
  BY <1>1, Goes, RunIsAlone DEF Private, Same
<1>4. RunInv(m)'
  BY <1>1, Goes DEF RunInv
<1>5. Continued /\ Retained(m)
  BY <1>1 DEF Continued, Retained, Kept
<1> QED
  BY <1>2, <1>3, <1>4, <1>5, StepOfMachine

LEMMA TeardownStep ==
    ASSUME IInv, NEW m \in Machine, Teardown(m)
    PROVE  IInv' /\ Continued /\ \A n \in Machine : Retained(n)
<1>1. /\ pc[m] = "end" /\ ReapIfReachable(m) /\ Goto(m, "idle") /\ "idle" \in Label
      /\ UNCHANGED <<version, landed, branch, lock, blind, lease, made, dropped, faults>>
      /\ TypeOK /\ RunInv(m)
  BY DEF Teardown, IInv, Label, arbiter
<1>2. TypeOK'
  BY <1>1, Goes, ReapStep DEF TypeOK
<1>3. Private(m)
  BY <1>1, Goes, ReapStep, RunIsAlone DEF Private, Same
<1>4. RunInv(m)'
  BY <1>1, Goes, ReapStep DEF RunInv
<1>5. Continued /\ Retained(m)
  BY <1>1, ReapStep DEF Continued, Kept
<1> QED
  BY <1>2, <1>3, <1>4, <1>5, StepOfMachine

LEMMA CrashStep ==
    ASSUME IInv, NEW m \in Machine, Crash(m)
    PROVE  IInv' /\ Continued /\ \A n \in Machine : Retained(n)
<1>1. /\ pc[m] # "idle" /\ Leave(m, "idle") /\ "idle" \in Label
      /\ faults' \in 0..MaxFaults
      /\ UNCHANGED <<version, landed, branch, lock, head, tree, made, dropped>>
      /\ TypeOK /\ RunInv(m)
  BY FaultCounts DEF Crash, IInv, Label, arbiter
<1>2. TypeOK'
  BY <1>1, Leaves DEF TypeOK
<1>3. Private(m)
  BY <1>1, Leaves, RunIsAlone DEF Private, Same
<1>4. RunInv(m)'
  BY <1>1, Leaves DEF RunInv
<1>5. Continued /\ Retained(m)
  BY <1>1 DEF Continued, Retained, Kept
<1> QED
  BY <1>2, <1>3, <1>4, <1>5, StepOfMachine

-----------------------------------------------------------------------------
(* People *)

\* A step that changes no machine, when no run is alive or nothing a run relies on
\* changes.
LEMMA ArbiterStep ==
    ASSUME IInv, TypeOK', UNCHANGED local,
           ~Alive \/ UNCHANGED <<branch, landed, dropped>>,
           Work(branch) \subseteq Kept'
    PROVE  IInv' /\ Continued /\ \A n \in Machine : Retained(n)
<1>1. OneRun'
  BY DEF IInv, OneRun, local
<1>2. ASSUME NEW n \in Machine PROVE RunInv(n)'
  <2>1. RunInv(n) /\ (pc[n] = "idle" \/ UNCHANGED <<branch, landed, dropped>>)
    BY DEF IInv, Alive
  <2> QED
    BY <2>1 DEF RunInv, Kept, local
<1>3. Continued /\ \A n \in Machine : Retained(n)
  BY DEF Continued, Retained, local
<1> QED
  BY <1>1, <1>2, <1>3 DEF IInv

LEMMA RequeueStep ==
    ASSUME IInv, NEW m \in Machine, Requeue(m)
    PROVE  IInv' /\ Continued /\ \A n \in Machine : Retained(n)
<1>1. /\ ~Alive /\ TypeOK /\ RunInv(m)
      /\ UNCHANGED <<version, landed, pc, blind, lease, made, dropped>>
  BY DEF Requeue, IInv
<1>2. CASE /\ tree[m].there /\ SaveWork(m)
           /\ lock' = IF branch' = head'[m] THEN "free" ELSE lock
  <2>1. head[m] # NoTip
    BY <1>1, <1>2 DEF RunInv
  <2>2. /\ head' = [head EXCEPT ![m] = Committed(m)]
        /\ tree' = [tree EXCEPT ![m].dirty = {}]
        /\ branch' \in Tip \cup {NoTip} /\ faults' \in 0..MaxFaults
        /\ Work(branch) \subseteq Work(branch')
    BY <1>1, <1>2, <2>1, Saves
  <2>3. TypeOK'
    BY <1>1, <1>2, <2>1, <2>2, Commits DEF TypeOK
  <2>4. Private(m)
    BY <1>1, <1>2, <2>1, <2>2, Commits DEF Private, Same, Alive
  <2>5. pc[m] = "idle"
    BY <1>1 DEF Alive
  <2>6. RunInv(m)'
    BY <1>1, <1>2, <2>1, <2>2, <2>5, Commits DEF RunInv
  <2>7. Continued /\ Retained(m)
    BY <1>1, <1>2, <2>1, <2>2, Commits DEF Continued, Retained, Kept
  <2> QED
    BY <2>3, <2>4, <2>6, <2>7, StepOfMachine
<1>3. CASE /\ Reconcile
           /\ lock' = "free"
           /\ UNCHANGED <<faults, head, tree>>
  <2>1. CASE branch' = branch
    <3>1. TypeOK' /\ UNCHANGED local
      BY <1>1, <1>3, <2>1 DEF TypeOK, local
    <3> QED
      BY <1>1, <2>1, <3>1, ArbiterStep DEF Kept
  <2>2. CASE branch # NoTip /\ branch' = Rebased(branch)
    <3>1. branch' \in Tip /\ Work(branch') = Work(branch)
      BY <1>1, <2>2, RebasedTip DEF TypeOK
    <3>2. TypeOK' /\ UNCHANGED local
      BY <1>1, <1>3, <3>1 DEF TypeOK, local
    <3> QED
      BY <1>1, <3>1, <3>2, ArbiterStep DEF Kept
  <2> QED
    BY <1>3, <2>1, <2>2 DEF Reconcile
<1> QED
  BY <1>2, <1>3 DEF Requeue, SaveCrashedRun

LEMMA DropBranchStep ==
    ASSUME IInv, DropBranch
    PROVE  IInv' /\ Continued /\ \A n \in Machine : Retained(n)
<1>1. /\ branch # NoTip /\ ~Alive /\ branch' = NoTip
      /\ dropped' = dropped \cup branch.work
      /\ lock' \in {lock, "held"}
      /\ UNCHANGED <<version, landed, local, made, faults>>
      /\ TypeOK
  BY DEF DropBranch, IInv
<1>2. branch \in Tip /\ branch.work \in SUBSET Piece
  BY <1>1 DEF TypeOK, Tip
<1>3. TypeOK'
  BY <1>1, <1>2 DEF TypeOK, local
<1>4. Work(branch) \subseteq Kept'
  BY <1>1 DEF Kept, Work
<1> QED
  BY <1>1, <1>3, <1>4, ArbiterStep

LEMMA ReleaseLockStep ==
    ASSUME IInv, ReleaseLock
    PROVE  IInv' /\ Continued /\ \A n \in Machine : Retained(n)
<1>1. /\ lock' = "free" /\ ~Alive /\ TypeOK
      /\ UNCHANGED <<version, landed, branch, local, made, dropped, faults>>
  BY DEF ReleaseLock, IInv
<1>2. TypeOK'
  BY <1>1 DEF TypeOK, local
<1> QED
  BY <1>1, <1>2, ArbiterStep DEF Kept

LEMMA MainMovesStep ==
    ASSUME IInv, MainMoves
    PROVE  IInv' /\ Continued /\ \A n \in Machine : Retained(n)
<1>1. /\ version' = version + 1 /\ TypeOK
      /\ UNCHANGED <<landed, branch, lock, local, made, dropped, faults>>
  BY DEF MainMoves, IInv
<1>2. TypeOK'
  <2>1. version' \in Nat
    BY <1>1 DEF TypeOK
  <2> QED
    BY <1>1, <2>1 DEF TypeOK, local
<1> QED
  BY <1>1, <1>2, ArbiterStep DEF Kept

LEMMA GcStep ==
    ASSUME IInv, NEW m \in Machine, Gc(m)
    PROVE  IInv' /\ Continued /\ \A n \in Machine : Retained(n)
<1>1. /\ pc[m] = "idle" /\ tree[m].there /\ Reachable(m) /\ RemoveTree(m)
      /\ UNCHANGED <<version, landed, branch, lock, pc, blind, lease, made, dropped, faults>>
      /\ TypeOK
  BY DEF Gc, Safe, IInv, arbiter
<1>2. ReapIfReachable(m)
  BY <1>1 DEF ReapIfReachable
<1>3. TypeOK'
  BY <1>1, <1>2, ReapStep DEF TypeOK
<1>4. Private(m)
  BY <1>1, <1>2, ReapStep DEF Private, Same
<1>5. RunInv(m)'
  BY <1>1, <1>2, ReapStep DEF RunInv
<1>6. Continued /\ Retained(m)
  BY <1>1, <1>2, ReapStep DEF Continued, Kept
<1> QED
  BY <1>3, <1>4, <1>5, <1>6, StepOfMachine

-----------------------------------------------------------------------------
(* The theorems *)

LEMMA Initially == Init => IInv
<1> SUFFICES ASSUME Init PROVE IInv
  OBVIOUS
<1>1. TypeOK
  BY ConstantsAssumption DEF Init, TypeOK, Label
<1>2. OneRun /\ \A m \in Machine : RunInv(m)
  BY DEF Init, OneRun, RunInv, NoTree
<1> QED
  BY <1>1, <1>2 DEF IInv

LEMMA StepKeeps ==
    ASSUME IInv, [Next]_vars
    PROVE  IInv' /\ Continued /\ \A n \in Machine : Retained(n)
<1>1. ASSUME NEW m \in Machine, Onboard(m)
      PROVE  IInv' /\ Continued /\ \A n \in Machine : Retained(n)
  BY <1>1, ClaimStep, FetchStep, FetchFailsStep, CutFromKeptStep, CutFreshStep,
     RefuseToClearStep, PublishStep, LeaseAgainStep, PublishFailsStep, StartStep,
     StartConflictsStep
  DEF Onboard
<1>2. ASSUME NEW m \in Machine, Finish(m)
      PROVE  IInv' /\ Continued /\ \A n \in Machine : Retained(n)
  BY <1>2, AgentStep, SavingEndStep, EndUnsavedStep, EndCommittedStep, LandStep,
     TeardownStep, CrashStep
  DEF Finish
<1>3. CASE UNCHANGED vars
  <2>1. /\ UNCHANGED <<version, landed, branch, lock, made, dropped, faults>>
        /\ UNCHANGED local
    BY <1>3 DEF vars, arbiter
  <2>2. TypeOK'
    BY <2>1 DEF IInv, TypeOK, local
  <2> QED
    BY <2>1, <2>2, ArbiterStep DEF Kept
<1> QED
  BY <1>1, <1>2, <1>3, RequeueStep, GcStep, DropBranchStep, ReleaseLockStep, MainMovesStep
  DEF Next

THEOREM Invariance == Spec => []IInv
<1>1. IInv /\ [Next]_vars => IInv'
  BY StepKeeps
<1> QED
  BY Initially, <1>1, PTL DEF Spec

\* Every variable stays in its set: a run past its onboarding has a worktree, and a
\* worktree has a commit to build on.
THEOREM TypeCorrect == Spec => []TypeOK
<1>1. IInv => TypeOK
  BY DEF IInv
<1> QED
  BY Invariance, <1>1, PTL

\* Whatever was rebased, checkpointed, requeued or crashed before, a run that fetched
\* the branch it continues never pushes over work somebody saved.
THEOREM FetchedBranchesAreContinued == Spec => OnlyAStaleMirrorOverwrites
<1>1. IInv /\ [Next]_vars =>
        [\/ Work(branch) \subseteq Kept'
         \/ \E m \in Machine : pc[m] = "publish" /\ blind[m]]_vars
  BY StepKeeps DEF Continued
<1> QED
  BY Invariance, <1>1, PTL DEF Spec, OnlyAStaleMirrorOverwrites

\* No claim, fetch, teardown or gc on a machine drops what a worktree there has
\* committed and the arbiter lacks.
THEOREM CommitsAreRetained == Spec => CommittedWorkStays
<1>1. IInv /\ [Next]_vars =>
        [\A m \in Machine :
            tree[m].there => Work(head[m]) \subseteq Work(head'[m]) \cup Kept \cup Kept']_vars
  BY StepKeeps DEF Retained
<1> QED
  BY Invariance, <1>1, PTL DEF Spec, CommittedWorkStays

-----------------------------------------------------------------------------
(* How long a run is *)

\* The steps a run can still take, by where it is; a push with a stale lease has one
\* more.
Depth(label) ==
    CASE label = "idle" -> 0
      [] label = "end" -> 1
      [] label \in {"built", "bounce"} -> 2
      [] label = "agent" -> 3
      [] label = "start" -> 4
      [] label = "publish" -> 5
      [] label = "cut" -> 7
      [] label = "fetch" -> 8

Again(m) == IF pc[m] = "publish" /\ branch # lease[m] THEN 1 ELSE 0

Left(m) == Depth(pc[m]) + Again(m)

LeftIsBounded == \A m \in Machine : Left(m) \in 0 .. 8

\* A step of a run brings it nearer to its end, and nothing else takes it further
\* away.
RunsGetShorter ==
    \A m \in Machine :
        /\ (Onboard(m) \/ Finish(m)) /\ ~Claim(m) => Left(m)' < Left(m)
        /\ Left(m)' <= Left(m) \/ Claim(m)

LEMMA DepthType == \A label \in Label : Depth(label) \in 0 .. 8
BY DEF Depth, Label

LEMMA LeftType == ASSUME TypeOK, NEW m \in Machine PROVE Left(m) \in 0 .. 8
<1>1. pc[m] \in Label /\ Depth(pc[m]) \in 0 .. 8
  BY DepthType DEF TypeOK
<1>2. CASE pc[m] = "publish"
  <2>1. Depth(pc[m]) = 5
    BY <1>2 DEF Depth
  <2> QED
    BY <2>1 DEF Left, Again
<1>3. CASE pc[m] # "publish"
  <2>1. Again(m) = 0
    BY <1>3 DEF Again
  <2> QED
    BY <1>1, <2>1 DEF Left
<1> QED
  BY <1>2, <1>3

\* The moves of a run between its labels.
Forward(m) ==
    \/ pc[m] = "fetch" /\ pc'[m] \in {"cut", "idle"}
    \/ pc[m] = "cut" /\ pc'[m] \in {"publish", "bounce", "start", "idle"}
    \/ pc[m] = "publish" /\ pc'[m] \in {"start", "bounce"}
    \/ pc[m] = "start" /\ pc'[m] \in {"agent", "end"}
    \/ pc[m] = "agent" /\ pc'[m] = "built"
    \/ pc[m] \in {"built", "bounce"} /\ pc'[m] = "end"
    \/ pc[m] # "idle" /\ pc'[m] = "idle"

\* The push is tried again, and now expects the branch that is there.
Once(m) ==
    /\ pc[m] = "publish" /\ pc'[m] = "publish"
    /\ branch # lease[m] /\ branch' = lease'[m]

LEMMA ForwardIsShorter ==
    ASSUME TypeOK, TypeOK', NEW m \in Machine, Forward(m) \/ Once(m)
    PROVE  Left(m)' < Left(m)
<1>1. pc[m] \in Label /\ pc'[m] \in Label
  BY DEF TypeOK
<1>2. Again(m) \in {0, 1} /\ Again(m)' \in {0, 1}
  BY DEF Again
<1>3. CASE Once(m)
  <2>1. Again(m) = 1 /\ Again(m)' = 0
    BY <1>3 DEF Once, Again
  <2>2. Depth(pc[m]) = 5 /\ Depth(pc'[m]) = 5
    BY <1>3 DEF Once, Depth
  <2> QED
    BY <2>1, <2>2 DEF Left
<1>4. CASE Forward(m)
  <2>1. pc'[m] # "publish" => Again(m)' = 0
    BY DEF Again
  <2>2. pc'[m] = "publish" => pc[m] = "cut"
    BY <1>4 DEF Forward
  <2>3. /\ Depth(pc[m]) \in 0 .. 8 /\ Depth(pc'[m]) \in 0 .. 8
        /\ pc'[m] # "publish" => Depth(pc'[m]) < Depth(pc[m])
        /\ pc'[m] = "publish" => Depth(pc'[m]) = 5 /\ Depth(pc[m]) = 7
    BY <1>1, <1>4 DEF Forward, Depth, Label
  <2> QED
    BY <1>2, <2>1, <2>3 DEF Left
<1> QED
  BY <1>3, <1>4

LEMMA OnboardMoves ==
    ASSUME TypeOK, NEW m \in Machine, Onboard(m), ~Claim(m)
    PROVE  Forward(m) \/ Once(m)
<1>1. CASE Fetch(m) \/ FetchFails(m)
  BY <1>1 DEF TypeOK, Fetch, FetchFails, Leave, Goto, Forward
<1>2. CASE CutFromKept(m) \/ CutFresh(m) \/ RefuseToClear(m)
  BY <1>2 DEF TypeOK, CutFromKept, CutFresh, RefuseToClear, Leave, Goto, Forward
<1>3. CASE Publish(m) \/ PublishFails(m)
  BY <1>3 DEF TypeOK, Publish, PublishFails, Leave, Goto, Forward
<1>4. CASE LeaseAgain(m)
  <2>1. \/ lease' = [lease EXCEPT ![m] = branch] /\ UNCHANGED <<pc, branch>>
        \/ Leave(m, "bounce")
    BY <1>4 DEF LeaseAgain, arbiter
  <2> QED
    BY <1>4, <2>1 DEF TypeOK, LeaseAgain, Leave, Goto, Forward, Once
<1>5. CASE Start(m) \/ StartConflicts(m)
  BY <1>5 DEF TypeOK, Start, StartConflicts, Goto, Forward
<1> QED
  BY <1>1, <1>2, <1>3, <1>4, <1>5 DEF Onboard

LEMMA FinishMoves ==
    ASSUME TypeOK, NEW m \in Machine, Finish(m)
    PROVE  Forward(m)
<1>1. CASE Agent(m) \/ EndUnsaved(m)
  BY <1>1 DEF TypeOK, Agent, EndUnsaved, Goto, Forward
<1>2. CASE Bounce(m) \/ Checkpoint(m)
  BY <1>2 DEF TypeOK, Bounce, Checkpoint, Goto, Forward
<1>3. CASE EndCommitted(m) \/ Land(m)
  BY <1>3 DEF TypeOK, EndCommitted, Land, Goto, Forward
<1>4. CASE Teardown(m) \/ Crash(m)
  BY <1>4 DEF TypeOK, Teardown, Crash, Leave, Goto, Forward
<1> QED
  BY <1>1, <1>2, <1>3, <1>4 DEF Finish

\* The step of another machine, or of a person, finds no run here, or leaves what
\* the run goes by.
Elsewhere(m) ==
    /\ pc'[m] = pc[m]
    /\ pc[m] = "idle" \/ (UNCHANGED branch /\ lease'[m] = lease[m])

LEMMA OthersMoves ==
    ASSUME IInv, NEW m \in Machine, [Next]_vars, ~Onboard(m), ~Finish(m)
    PROVE  Elsewhere(m)
<1>1. ASSUME NEW n \in Machine, n # m, Onboard(n) \/ Finish(n) PROVE Elsewhere(m)
  <2>1. CASE Claim(n)
    <3>1. pc[m] = "idle"
      BY <2>1 DEF Claim, Alive
    <3> QED
      BY <1>1, <2>1, <3>1 DEF IInv, TypeOK, Claim, Goto, Elsewhere
  <2>2. CASE ~Claim(n)
    <3>1. pc[n] # "idle"
      BY <1>1, <2>2, OnboardMoves, FinishMoves DEF IInv, Forward, Once
    <3>2. pc[m] = "idle"
      BY <1>1, <3>1, RunIsAlone
    <3>3. \E label \in Label : pc' = [pc EXCEPT ![n] = label] \/ pc' = pc
      BY <1>1, <2>2
      DEF Onboard, Finish, Fetch, FetchFails, CutFromKept, CutFresh, RefuseToClear,
          Publish, LeaseAgain, PublishFails, Start, StartConflicts, Agent, Bounce,
          Checkpoint, EndUnsaved, EndCommitted, Land, Teardown, Crash, Leave, Goto, Label
    <3>4. pc'[m] = pc[m]
      BY <1>1, <3>3 DEF IInv, TypeOK
    <3> QED
      BY <3>2, <3>4 DEF Elsewhere
  <2> QED
    BY <2>1, <2>2
<1>2. ASSUME NEW n \in Machine, Requeue(n) PROVE Elsewhere(m)
  BY <1>2 DEF Requeue, Alive, Elsewhere
<1>3. ASSUME NEW n \in Machine, Gc(n) PROVE Elsewhere(m)
  BY <1>3 DEF Gc, arbiter, Elsewhere
<1>4. CASE DropBranch \/ ReleaseLock \/ MainMoves \/ UNCHANGED vars
  BY <1>4 DEF DropBranch, ReleaseLock, MainMoves, vars, arbiter, local, Alive, Elsewhere
<1> QED
  BY <1>1, <1>2, <1>3, <1>4 DEF Next

LEMMA ElsewhereIsAsLong ==
    ASSUME NEW m \in Machine, Elsewhere(m)
    PROVE  Left(m)' = Left(m)
<1>1. pc'[m] = pc[m] /\ Again(m)' = Again(m)
  BY DEF Elsewhere, Again
<1>2. Depth(pc'[m]) = Depth(pc[m])
  BY <1>1
<1> QED
  BY <1>1, <1>2 DEF Left

\* Every run ends after at most eight steps of its own, whatever crashes, conflicts
\* and refused pushes it meets: only a claim starts one.  The push that is tried
\* again with a new lease is tried again once, although its loop has no cap: while
\* a run is alive nobody else writes the branch, so the second lease is not stale.
THEOREM RunsAreBounded == Spec => []LeftIsBounded /\ [][RunsGetShorter]_vars
<1>1. IInv => LeftIsBounded
  BY LeftType DEF IInv, LeftIsBounded
<1>2. IInv /\ IInv' /\ [Next]_vars => RunsGetShorter
  <2> SUFFICES ASSUME IInv, IInv', [Next]_vars, NEW m \in Machine
               PROVE  /\ (Onboard(m) \/ Finish(m)) /\ ~Claim(m) => Left(m)' < Left(m)
                      /\ Left(m)' <= Left(m) \/ Claim(m)
    BY DEF RunsGetShorter
  <2>1. TypeOK /\ TypeOK'
    BY DEF IInv
  <2>2. Left(m) \in 0 .. 8
    BY <2>1, LeftType
  <2>3. Left(m)' \in 0 .. 8
    <3>1. pc'[m] \in Label /\ Depth(pc'[m]) \in 0 .. 8
      BY <2>1, DepthType DEF TypeOK
    <3>2. pc'[m] = "publish" => Depth(pc'[m]) = 5
      BY DEF Depth
    <3>3. Again(m)' \in {0, 1} /\ (pc'[m] # "publish" => Again(m)' = 0)
      BY DEF Again
    <3> QED
      BY <3>1, <3>2, <3>3 DEF Left
  <2>4. ASSUME Onboard(m) \/ Finish(m), ~Claim(m) PROVE Left(m)' < Left(m)
    BY <2>1, <2>4, OnboardMoves, FinishMoves, ForwardIsShorter
  <2>5. ASSUME ~Onboard(m), ~Finish(m) PROVE Left(m)' = Left(m)
    BY <2>5, OthersMoves, ElsewhereIsAsLong
  <2> QED
    BY <2>2, <2>3, <2>4, <2>5 DEF Onboard
<1> HIDE DEF LeftIsBounded, RunsGetShorter
<1> QED
  BY Invariance, <1>1, <1>2, PTL DEF Spec
=============================================================================
