----------------------------- MODULE AdvanceRungs -----------------------------
(***************************************************************************)
(* What becomes of the questions of one item: the tree-less rungs of an     *)
(* advance tick (advance.ts, surface-persist.ts, apply-persist.ts,          *)
(* triage-persist.ts), run by one process or split over CI jobs             *)
(* (ci-phase-treeless.ts), the answered merge and stuck actions             *)
(* (apply-merge-action.ts, apply-stuck-action.ts) and the pass that asks    *)
(* whether a finished branch should land (merge-question-tick.ts).          *)
(*                                                                          *)
(* A tick reads the item, tells its rung, takes the item's lock, does the   *)
(* rung on the copy it read, and publishes the copy.  A local tick releases *)
(* its lock before it publishes; a CI run publishes first, reads main again *)
(* under its lock, and releases its own lock only.                          *)
(*                                                                          *)
(* The item is a task, with a builder that claims it, or an observation.    *)
(* Answers "hold" and "drop" do the same and are one.  A rebase that leaves *)
(* the branch in conflict is a failed call.                                 *)
(***************************************************************************)
EXTENDS Naturals, Sequences, FiniteSets

CONSTANTS
    Local,         \* ticks of one process
    Ci,            \* ticks split over CI jobs
    Slug,          \* the names an artifact can be minted under
    MaxBuilds,     \* bound: builds of the task
    MaxQuestions,  \* bound: entries of the sidecar
    MaxFaults      \* bound: failed calls, failed agents, refused lands, deaths

ASSUME ConstantsAssumption ==
    /\ Local \cap Ci = {}
    /\ (Local \cup Ci) \cap {"nobody", "builder", "left"} = {}
    /\ MaxBuilds \in Nat /\ MaxQuestions \in Nat
    /\ MaxFaults \in Nat

Tick == Local \cup Ci

Verbs == [open |-> {"text"}, stuck |-> {"keep", "reset", "cancel"},
          merge |-> {"merge", "hold"}]

\* One question: its answer, and the build the human could see when they gave
\* it; crossed when a builder held the item at that moment.
Entry == [ask : DOMAIN Verbs, answer : {"none"} \cup UNION {Verbs[a] : a \in DOMAIN Verbs},
          gen : Nat, crossed : BOOLEAN]

\* The item on a commit: the folder it is in, its needsAnswers and triaged
\* markers, and its sidecar.
Item == [place : {"ready", "done", "cancelled", "inbox", "gone"},
         flag : BOOLEAN, triaged : BOOLEAN, asked : Seq(Entry)]

VARIABLES
    file,      \* the item on the arbiter's main
    branch,    \* its work branch on the arbiter
    request,   \* whether the branch has an open pull request
    lock,      \* the item's lock
    minted,    \* artifacts minted from the observation
    builds,    \* builds so far
    pc, saw, seenTip, product, result,  \* a tick and what it knows
    stale,     \* whether main moved between a tick's read and its lock
    asker,     \* the merge-question pass and the copy it read
    faults

tick == <<pc, saw, seenTip, product, result, stale>>
vars == <<file, branch, request, lock, minted, builds, tick, asker, faults>>

Branch == [tip : {"none", "wip", "done"}, gen : Nat]
NoLock == [by |-> "nobody", kept |-> FALSE]
NoItem == [place |-> "gone", flag |-> FALSE, triaged |-> FALSE, asked |-> <<>>]
NoBranch == [tip |-> "none", gen |-> 0]

Product == {"none", "nothing", "question", "auto", "ask", "mint", "resolve",
            "dispose", "land", "restale", "refused", "record", "reset",
            "cancel", "failed"}

TypeOK ==
    /\ file \in Item
    /\ branch \in Branch
    /\ request \in BOOLEAN
    /\ lock \in [by : Tick \cup {"nobody", "builder", "left"}, kept : BOOLEAN]
    /\ minted \subseteq Slug
    /\ builds \in 0..MaxBuilds
    /\ pc \in [Tick -> {"idle", "lock", "agent", "act", "record", "publish", "release"}]
    /\ saw \in [Tick -> Item]
    /\ seenTip \in [Tick -> Branch]
    /\ product \in [Tick -> Product]
    /\ result \in [Tick -> Item]
    /\ stale \in [Tick -> BOOLEAN]
    /\ asker \in [pc : {"idle", "publish"}, saw : Item]
    /\ faults \in 0..MaxFaults

-----------------------------------------------------------------------------
(* The item *)

IsTask(f) == f.place \in {"ready", "done", "cancelled"}
Present(f) == f.place \in {"ready", "done", "inbox"}
Gated(f) == Present(f) /\ f.flag

Waits(f, i, a) == f.asked[i].ask = a /\ f.asked[i].answer = "none"
Pending(f, a) == \E i \in DOMAIN f.asked : Waits(f, i, a)
\* Mutant: a sidecar counts as answered once its last question is.
AllAnswered_Last(f) == f.asked = <<>> \/ f.asked[Len(f.asked)].answer # "none"

AllAnswered(f) == \A i \in DOMAIN f.asked : f.asked[i].answer # "none"

Rung(f) ==
    CASE ~Gated(f) /\ f.asked # <<>> -> "invariant-violation"
      [] ~Gated(f) /\ f.asked = <<>> -> IF IsTask(f) THEN "build-task" ELSE "triage-observation"
      [] Gated(f) /\ f.asked = <<>> -> "surface"
      [] Gated(f) /\ f.asked # <<>> -> IF AllAnswered(f) THEN "apply" ELSE "no-op"

\* The entry whose answer decides what is done about questions of one kind: the
\* last one, once none of them waits for its answer.
HasVerb(f, a) == ~Pending(f, a) /\ \E i \in DOMAIN f.asked : f.asked[i].ask = a
Deciding(f, a) ==
    f.asked[CHOOSE i \in DOMAIN f.asked :
               /\ f.asked[i].ask = a
               /\ \A j \in DOMAIN f.asked : f.asked[j].ask = a => j <= i]
Verb(f, a) == IF HasVerb(f, a) THEN Deciding(f, a).answer ELSE "none"

\* Whether a tick on this copy may take over a lock kept for a pull request.
AnswersMerge(f) == IsTask(f) /\ Rung(f) = "apply" /\ Verb(f, "merge") = "merge"

\* Mutant: a question is written with its default as the answer.
Question_Default(a) == [ask |-> a, answer |-> "default", gen |-> 0, crossed |-> FALSE]

Question(a) == [ask |-> a, answer |-> "none", gen |-> 0, crossed |-> FALSE]

\* Questions are appended to the sidecar and the item is flagged.
Append1(f, a) == [f EXCEPT !.asked = Append(@, Question(a)), !.flag = TRUE]
Room(f) == Len(f.asked) < MaxQuestions

\* The answers go into the body, the flag and the sidecar away; a kept
\* observation is marked as triaged.
Recorded(f) == [f EXCEPT !.asked = <<>>, !.flag = FALSE, !.triaged = ~IsTask(f)]

-----------------------------------------------------------------------------
Init ==
    /\ \E place \in {"ready", "inbox"}, flag \in BOOLEAN :
         file = [place |-> place, flag |-> flag, triaged |-> FALSE, asked |-> <<>>]
    /\ branch = NoBranch
    /\ request = FALSE
    /\ lock = NoLock
    /\ minted = {}
    /\ builds = 0
    /\ pc = [t \in Tick |-> "idle"]
    /\ saw = [t \in Tick |-> NoItem]
    /\ seenTip = [t \in Tick |-> NoBranch]
    /\ product = [t \in Tick |-> "none"]
    /\ result = [t \in Tick |-> NoItem]
    /\ stale = [t \in Tick |-> FALSE]
    /\ asker = [pc |-> "idle", saw |-> NoItem]
    /\ faults = 0

Fault == faults < MaxFaults /\ faults' = faults + 1

\* A tick goes on, or ends and forgets what it knew.
Goto(t, step) == pc' = [pc EXCEPT ![t] = step]
End(t) ==
    /\ Goto(t, "idle")
    /\ saw' = [saw EXCEPT ![t] = NoItem]
    /\ seenTip' = [seenTip EXCEPT ![t] = NoBranch]
    /\ product' = [product EXCEPT ![t] = "none"]
    /\ result' = [result EXCEPT ![t] = NoItem]
    /\ stale' = [stale EXCEPT ![t] = FALSE]
-----------------------------------------------------------------------------
(* What a rung does *)

\* Whether the rung on this copy, with the branch as it is, runs an agent job:
\* an answered merge with something left to land has one.
NeedsAgent(f, b) ==
    CASE Rung(f) = "triage-observation" -> ~f.triaged
      [] Rung(f) = "surface" -> TRUE
      [] OTHER -> IF IsTask(f) THEN Verb(f, "merge") = "merge" /\ b.tip # "none"
                  ELSE TRUE

\* A triaged observation has nothing to do; the agent of another discharges it,
\* or the triage question is asked.
TriageProducts(f) == IF f.triaged THEN {"nothing"} ELSE {"question", "auto"}

\* The agent that surfaces questions has one, or none.
SurfaceProducts == {"question", "nothing"}

\* What the agent decides about the answers on an observation.
DecisionProducts == {"ask", "mint", "resolve", "dispose"}

\* What an answered merge comes to: its branch lands, or the question is asked
\* again as main moved; an answer not to merge, or a branch that is gone, is
\* recorded.
MergeProducts(f, b) ==
    IF Verb(f, "merge") = "merge" /\ b.tip # "none" THEN {"land", "restale"} ELSE {"record"}

\* What an answered stuck question comes to.
StuckProducts(f) ==
    IF Verb(f, "stuck") \in {"reset", "cancel"} THEN {Verb(f, "stuck")} ELSE {"record"}

\* An answered merge of a task goes before its stuck answers.
ApplyProducts(f, b) ==
    IF ~IsTask(f) THEN DecisionProducts
    ELSE IF HasVerb(f, "merge") THEN MergeProducts(f, b)
    ELSE StuckProducts(f)

\* What the rung of this copy may come to.
Products(f, b) ==
    {p \in CASE Rung(f) = "triage-observation" -> TriageProducts(f)
             [] Rung(f) = "surface" -> SurfaceProducts
             [] Rung(f) = "apply" -> ApplyProducts(f, b)
             [] OTHER -> {} :
        p \in {"question", "ask", "restale"} => Room(f)}

\* A cancelled task moves to its terminal folder, its sidecar goes.
Cancelled(f) == [f EXCEPT !.place = "cancelled", !.asked = <<>>]

\* The copy once the rung is done.
Copy(f, p) ==
    CASE p \in {"question", "ask"} -> Append1(f, "open")
      [] p = "restale" -> Append1(f, "merge")
      [] p = "auto" -> NoItem
      [] p = "dispose" -> NoItem
      [] p \in {"resolve", "record", "land", "reset"} -> Recorded(f)
      [] p = "cancel" -> Cancelled(f)
      [] OTHER -> f

\* The branch lands on main, whatever its tip is by now.
Land ==
    /\ file.place # "cancelled"
    /\ branch.tip = "none" => UNCHANGED file
    /\ branch.tip # "none" =>
         file' = [file EXCEPT !.place = IF branch.tip = "done" THEN "done" ELSE @]
    /\ branch' = NoBranch
    /\ request' = FALSE
    /\ UNCHANGED minted

\* An artifact is created on main and the observation deleted with it.
CreateItem(s) == minted' = minted \cup {s} /\ file' = NoItem

\* The observation becomes an artifact, unless one of that name is there.
Mint ==
    /\ \E s \in Slug : IF s \in minted THEN UNCHANGED <<file, minted>> ELSE CreateItem(s)
    /\ UNCHANGED <<branch, request>>

\* The work branch is deleted, and a pull request with it.
DropBranch == branch' = NoBranch /\ request' = FALSE /\ UNCHANGED <<file, minted>>

\* What a rung does on the arbiter before its copy is published.
Effect(p) ==
    \/ p = "mint" /\ Mint
    \/ p = "reset" /\ DropBranch
    \/ p \notin {"land", "mint", "reset"} /\ UNCHANGED <<file, branch, request, minted>>

\* A stuck question is put on main, if the item still waits there.
Surface ==
    file' = IF file.place \in {"ready", "inbox"} /\ Room(file)
            THEN Append1(file, "stuck") ELSE file

-----------------------------------------------------------------------------
(* Ticks *)

\* A local tick reads the item, without the lock.
Classify(t) ==
    /\ t \in Local /\ pc[t] = "idle"
    /\ Rung(file) \in {"triage-observation", "surface", "apply"}
    /\ Present(file)
    /\ saw' = [saw EXCEPT ![t] = file]
    /\ Goto(t, "lock")
    /\ UNCHANGED <<file, branch, request, lock, minted, builds, seenTip, product, result,
                   stale, asker, faults>>

\* The branch an answered merge would land, as the lock job sees it.
KeptMergeTip == IF AnswersMerge(file) THEN branch ELSE NoBranch

\* A lock job reads the item and that branch, and leaves a locked item alone.
ClassifyAtBase(t) ==
    /\ t \in Ci /\ pc[t] = "idle"
    /\ Rung(file) \in {"triage-observation", "surface", "apply"}
    /\ Present(file)
    /\ lock = NoLock \/ AnswersMerge(file)
    /\ saw' = [saw EXCEPT ![t] = file]
    /\ seenTip' = [seenTip EXCEPT ![t] = KeptMergeTip]
    /\ Goto(t, "lock")
    /\ UNCHANGED <<file, branch, request, lock, minted, builds, product, result,
                   stale, asker, faults>>

\* Mutant: a tick goes on without the unified lock.
MayLock_Always(f) == TRUE

\* A tick may take a free lock, or one kept for a pull request to land its branch.
MayLock(f) == lock = NoLock \/ (lock.kept /\ AnswersMerge(f))

Lock(t) ==
    /\ pc[t] = "lock"
    /\ MayLock(saw[t])
    /\ lock' = [by |-> t, kept |-> FALSE]
    /\ stale' = [stale EXCEPT ![t] = t \in Local /\ saw[t] # file]
    /\ Goto(t, IF t \in Ci THEN "agent" ELSE "act")
    /\ UNCHANGED <<file, branch, request, minted, builds, saw, seenTip, product,
                   result, asker, faults>>

Lost(t) ==
    /\ pc[t] = "lock"
    /\ ~MayLock(saw[t])
    /\ End(t)
    /\ UNCHANGED <<file, branch, request, lock, minted, builds, asker, faults>>

\* A local tick does its rung on the copy it read before it had the lock.
Act(t) ==
    /\ pc[t] = "act" /\ t \in Local
    /\ \E p \in Products(saw[t], branch) :
         /\ IF p = "land" THEN Land ELSE Effect(p)
         /\ result' = [result EXCEPT ![t] = Copy(saw[t], p)]
    /\ Goto(t, "release")
    /\ UNCHANGED <<lock, builds, saw, seenTip, product, stale, asker, faults>>

\* Its agent or a call fails, or the land is refused.
ActFails(t) ==
    /\ pc[t] = "act" /\ t \in Local
    /\ \/ Fault
       \/ file.place = "cancelled" /\ "land" \in Products(saw[t], branch) /\ UNCHANGED faults
    /\ result' = [result EXCEPT ![t] = saw[t]]
    /\ Goto(t, "release")
    /\ UNCHANGED <<file, branch, request, lock, minted, builds, saw, seenTip,
                   product, stale, asker>>

\* The gate fails on the branch it would land: the failure becomes a question
\* and the item's lock goes.
ActBounces(t) ==
    /\ pc[t] = "act" /\ t \in Local
    /\ "land" \in Products(saw[t], branch)
    /\ Fault
    /\ Surface
    /\ lock' = NoLock
    /\ result' = [result EXCEPT ![t] = saw[t]]
    /\ Goto(t, "release")
    /\ UNCHANGED <<branch, request, minted, builds, saw, seenTip, product, stale,
                   asker>>

\* A CI run goes on while it still owns its lock.
Owns(t) == lock.by = t

NotOwner(t) ==
    /\ pc[t] \in {"agent", "act"} /\ t \in Ci
    /\ ~Owns(t)
    /\ End(t)
    /\ UNCHANGED <<file, branch, request, lock, minted, builds, asker, faults>>

\* The agent job works on what the lock job read.
Agent(t) ==
    /\ pc[t] = "agent" /\ t \in Ci /\ Owns(t)
    /\ \/ /\ ~NeedsAgent(saw[t], seenTip[t])
          /\ product' = product
          /\ UNCHANGED faults
       \/ /\ NeedsAgent(saw[t], seenTip[t])
          /\ \E p \in Products(saw[t], seenTip[t]) : product' = [product EXCEPT ![t] = p]
          /\ UNCHANGED faults
       \/ /\ NeedsAgent(saw[t], seenTip[t])
          /\ Fault
          /\ product' = [product EXCEPT ![t] = "failed"]
    /\ Goto(t, "act")
    /\ UNCHANGED <<file, branch, request, lock, minted, builds, saw, seenTip, result,
                   stale, asker>>

\* Main still carries an answered merge.
MergeStands == AnswersMerge(file)

\* A failed agent becomes a question, and the run gives up its lock.
SurfaceItem(t) ==
    /\ pc[t] = "act" /\ t \in Ci /\ Owns(t)
    /\ product[t] = "failed"
    /\ Surface
    /\ lock' = NoLock
    /\ End(t)
    /\ UNCHANGED <<branch, request, minted, builds, asker, faults>>

\* The apply job lands the branch its lock job saw.
ApplyMerge(t) ==
    /\ pc[t] = "act" /\ t \in Ci /\ Owns(t)
    /\ product[t] = "land"
    /\ \/ ~MergeStands /\ Goto(t, "release")
          /\ UNCHANGED <<file, branch, request, minted>>
       \/ MergeStands /\ branch = seenTip[t] /\ Goto(t, "record") /\ Land
    /\ result' = [result EXCEPT ![t] = saw[t]]
    /\ UNCHANGED <<lock, builds, saw, seenTip, product, stale, asker, faults>>

\* The leased push of the branch is refused: the run ends and its lock stays.
StaleLease(t) ==
    /\ pc[t] = "act" /\ t \in Ci /\ Owns(t)
    /\ product[t] = "land"
    /\ MergeStands /\ branch # seenTip[t]
    /\ lock' = [lock EXCEPT !.by = "left"]
    /\ End(t)
    /\ UNCHANGED <<file, branch, request, minted, builds, asker, faults>>

\* The land is refused, or becomes a question.
ApplyMergeFails(t) ==
    /\ pc[t] = "act" /\ t \in Ci /\ Owns(t)
    /\ product[t] = "land"
    /\ Fault
    /\ Surface \/ UNCHANGED file
    /\ lock' = NoLock
    /\ End(t)
    /\ UNCHANGED <<branch, request, minted, builds, asker>>

\* The rung of the item as it is now is the one the lock job told, and asks for
\* an agent exactly when one ran.
SameRung(t) ==
    /\ Present(file)
    /\ Rung(file) = Rung(saw[t])
    /\ IF product[t] = "land" THEN Verb(file, "merge") = "merge"
       ELSE NeedsAgent(file, branch) = (product[t] # "none")

\* The apply job has only its rung to do: nothing to land, or landed.
AtRung(t) ==
    /\ t \in Ci
    /\ \/ pc[t] = "record"
       \/ pc[t] = "act" /\ Owns(t) /\ product[t] \notin {"land", "failed"}

\* The apply job does the rung on main as it is now, with what the agent said.
RunRung(t) ==
    /\ AtRung(t)
    /\ SameRung(t)
    /\ \E p \in IF product[t] = "none" THEN Products(file, branch) ELSE {product[t]} :
         /\ IF p = "land" THEN UNCHANGED <<file, branch, request, minted>> ELSE Effect(p)
         /\ result' = [result EXCEPT ![t] = Copy(file, p)]
    /\ saw' = [saw EXCEPT ![t] = file]
    /\ Goto(t, "publish")
    /\ UNCHANGED <<lock, builds, seenTip, product, stale, asker, faults>>

\* The rung changed meanwhile, or a call fails: nothing is written.
RungStale(t) ==
    /\ AtRung(t)
    /\ \/ ~SameRung(t) /\ UNCHANGED faults
       \/ Fault
    /\ Goto(t, "release")
    /\ UNCHANGED <<file, branch, request, lock, minted, builds, saw, seenTip, product,
                   result, stale, asker>>

\* Mutant: a copy is pushed over what main says by now.
Rebases_Forced(old, new) == Present(file)

\* A copy made from old lands on main as it is: nobody edited the same lines of
\* the item or its sidecar, and at most one side moved the item.
Rebases(old, new) ==
    /\ Present(file)
    /\ [file EXCEPT !.place = old.place] = old
    /\ old.place = new.place \/ old.place = file.place

Onto(old, new) == IF old.place = new.place THEN [new EXCEPT !.place = file.place] ELSE new

\* The copy is published, or it stays behind in a clone that goes.
Publish(t) ==
    /\ pc[t] = "publish"
    /\ \/ /\ result[t] # saw[t] /\ Rebases(saw[t], result[t])
          /\ file' = Onto(saw[t], result[t])
          /\ UNCHANGED faults
       \/ /\ result[t] # saw[t] => ~Rebases(saw[t], result[t])
          /\ UNCHANGED <<file, faults>>
       \/ Fault /\ UNCHANGED file
    /\ IF t \in Ci
       THEN Goto(t, "release") /\ UNCHANGED <<saw, seenTip, product, result, stale>>
       ELSE End(t)
    /\ UNCHANGED <<branch, request, lock, minted, builds, asker>>

\* Mutant: a CI run that wrote nothing keeps its lock.
Freed_Kept(t) == IF t \in Local \/ (Owns(t) /\ result[t] # saw[t]) THEN NoLock ELSE lock

\* A local tick deletes whatever lock the item has, a CI run only its own.
Freed(t) == IF t \in Local \/ Owns(t) THEN NoLock ELSE lock

Release(t) ==
    /\ pc[t] = "release"
    /\ lock' = Freed(t)
    /\ IF t \in Ci THEN End(t)
       ELSE Goto(t, "publish") /\ UNCHANGED <<saw, seenTip, product, result, stale>>
    /\ UNCHANGED <<file, branch, request, minted, builds, asker, faults>>

\* The process or the job dies with its lock.
Die(t) ==
    /\ pc[t] \notin {"idle", "lock"}
    /\ Fault
    /\ lock' = IF Owns(t) THEN [lock EXCEPT !.by = "left"] ELSE lock
    /\ End(t)
    /\ UNCHANGED <<file, branch, request, minted, builds, asker>>

-----------------------------------------------------------------------------
(* The pass that asks about finished branches *)

NoMergeQuestion(f) == \A i \in DOMAIN f.asked : f.asked[i].ask # "merge"

\* It reads main, then the pull requests and the locks.
AskRead ==
    /\ asker.pc = "idle"
    /\ file.place = "ready" /\ branch.tip = "done"
    /\ NoMergeQuestion(file) /\ Room(file)
    /\ ~request
    /\ lock = NoLock \/ lock.kept
    /\ asker' = [pc |-> "publish", saw |-> file]
    /\ UNCHANGED <<file, branch, request, lock, minted, builds, tick, faults>>

\* Questions that were answered since, and are else the same.
OnlyAnswered(old, new) ==
    /\ Len(new) = Len(old)
    /\ \A i \in DOMAIN new : old[i] \in {new[i], Question(new[i].ask)}

\* Its question lands on the copy it read; a question after entries somebody
\* answered meanwhile may merge as well.
AskPublish ==
    /\ asker.pc = "publish"
    /\ \/ /\ Rebases(asker.saw, Append1(asker.saw, "merge"))
          /\ file' = Onto(asker.saw, Append1(asker.saw, "merge"))
       \/ /\ asker.saw.asked # <<>> /\ OnlyAnswered(asker.saw.asked, file.asked)
          /\ file' = Append1(file, "merge")
       \/ UNCHANGED file
    /\ asker' = [pc |-> "idle", saw |-> NoItem]
    /\ UNCHANGED <<branch, request, lock, minted, builds, tick, faults>>

-----------------------------------------------------------------------------
(* The builder, people, and the clean-up *)

\* A claim reads the item under the lock it takes.
Claim ==
    /\ lock = NoLock
    /\ file.place = "ready" /\ ~file.flag
    /\ builds < MaxBuilds
    /\ builds' = builds + 1
    /\ lock' = [by |-> "builder", kept |-> FALSE]
    /\ UNCHANGED <<file, branch, request, minted, tick, asker, faults>>

Building == lock.by = "builder" /\ ~lock.kept

\* The build is proposed; the pull request may fail to open.
Propose ==
    /\ Building
    /\ branch' = [tip |-> "done", gen |-> builds]
    /\ request' \in BOOLEAN
    /\ lock' = [lock EXCEPT !.kept = TRUE]
    /\ UNCHANGED <<file, minted, builds, tick, asker, faults>>

\* The build is saved on its branch and becomes a question.
Bounce ==
    /\ Building
    /\ branch' = [tip |-> "wip", gen |-> builds]
    /\ Surface
    /\ lock' = NoLock
    /\ UNCHANGED <<request, minted, builds, tick, asker, faults>>

Answer ==
    /\ \E i \in DOMAIN file.asked :
         /\ file.asked[i].answer = "none"
         /\ \E a \in Verbs[file.asked[i].ask] :
              file' = [file EXCEPT !.asked[i] =
                         [@ EXCEPT !.answer = a, !.gen = branch.gen, !.crossed = Building]]
    /\ UNCHANGED <<branch, request, lock, minted, builds, tick, asker, faults>>

CloseRequest ==
    /\ request /\ request' = FALSE
    /\ UNCHANGED <<file, branch, lock, minted, builds, tick, asker, faults>>

MergeRequest ==
    /\ request /\ file.place = "ready"
    /\ Land
    /\ UNCHANGED <<lock, builds, tick, asker, faults>>

\* The lock kept for a pull request goes once the task is done.
Reconcile ==
    /\ lock.kept /\ ~request /\ file.place = "done"
    /\ lock' = NoLock
    /\ UNCHANGED <<file, branch, request, minted, builds, tick, asker, faults>>

\* The operator releases a lock that nobody works under.
Clear ==
    /\ lock.by = "left" \/ (lock.kept /\ ~request)
    /\ lock' = NoLock
    /\ UNCHANGED <<file, branch, request, minted, builds, tick, asker, faults>>

-----------------------------------------------------------------------------
TickStep(t) ==
    \/ Act(t) \/ ActFails(t) \/ ActBounces(t)
    \/ NotOwner(t) \/ Agent(t) \/ SurfaceItem(t)
    \/ ApplyMerge(t) \/ StaleLease(t) \/ ApplyMergeFails(t)
    \/ RunRung(t) \/ RungStale(t) \/ Publish(t) \/ Release(t)

Next ==
    \/ \E t \in Tick : Classify(t) \/ ClassifyAtBase(t) \/ Lock(t) \/ Lost(t) \/ TickStep(t) \/ Die(t)
    \/ AskRead \/ AskPublish
    \/ Claim \/ Propose \/ Bounce
    \/ Answer \/ CloseRequest \/ MergeRequest
    \/ Reconcile \/ Clear

\* A run that started goes on, a scheduled CI run starts again and again and
\* gets a lock that is free time and again, a build ends, a lock of a done task
\* is swept.
Fairness ==
    /\ \A t \in Tick : WF_vars(Lock(t) \/ Lost(t) \/ TickStep(t))
    /\ \A t \in Ci : SF_vars(ClassifyAtBase(t)) /\ SF_vars(Lock(t))
    /\ WF_vars(Propose \/ Bounce)
    /\ WF_vars(Reconcile)

Spec == Init /\ [][Next]_vars /\ Fairness

-----------------------------------------------------------------------------
(* Properties *)

\* At most one merge question of the item waits for its answer on main: the
\* pass asks again only when no merge question is on the sidecar, and an apply
\* that asks again only when all are answered.
OneMergeQuestion ==
    \A i, j \in DOMAIN file.asked :
        (Waits(file, i, "merge") /\ Waits(file, j, "merge")) => i = j

\* An answer leaves main.
AnswerGone(i) ==
    /\ file.asked[i].answer # "none"
    /\ i \in DOMAIN file'.asked => file'.asked[i] # file.asked[i]

\* A step of a tick that read the sidecar as it is, or of a local one that mints.
ReadByATick ==
    \E t \in Tick :
        /\ pc'[t] # pc[t]
        /\ \/ t \in Local /\ minted' # minted
           \/ saw[t].asked = file.asked
           \/ saw'[t].asked = file.asked

\* An answer leaves main only by a tick that read it: by the publication of a
\* copy made from the very sidecar that is on main, or with the observation that
\* becomes an artifact, where a local tick may have read an older one.
NoAnswerIsLost == [][(\E i \in DOMAIN file.asked : AnswerGone(i)) => ReadByATick]_vars

\* The sidecar is the abstract book: questions are only added, an answer stays as
\* it was given, and nothing that waits for its answer leaves main but with an
\* observation that becomes an artifact.
Book == INSTANCE QuestionBook
          WITH book <- [i \in DOMAIN file.asked |->
                          [ask |-> file.asked[i].ask, answer |-> file.asked[i].answer]],
               Once <- {"merge"}
ImplementsQuestionBook == Book!Spec

\* The answer a tick lands or resets by.
Ground(t) ==
    LET f == IF t \in Ci THEN file ELSE saw[t]
    IN IF HasVerb(f, "merge") THEN Deciding(f, "merge") ELSE Deciding(f, "stuck")

\* What a tick lands or deletes is the build the human could see when they
\* answered, unless a builder held the item at that moment, or main moved
\* between the tick's read and its lock.  An observation becomes one artifact,
\* but for the latter.  For one local tick: two may free each other's locks.
TouchesBranch(t) == pc[t] \in {"act", "record"} /\ pc[t] # pc'[t] /\ branch' # branch
ActsOnAskedWork ==
    [][\A t \in Tick : ~stale[t] =>
         /\ TouchesBranch(t) => Ground(t).crossed \/ Ground(t).gen = branch.gen
         /\ pc[t] \in {"act", "record"} /\ pc'[t] # pc[t] /\ minted' # minted
              => minted = {}]_vars

\* Answers nobody can act on yet: the lock was left by a run that ended, or is
\* kept for a pull request and the answer is not to merge.
Parked == lock.by = "left" \/ (lock.kept /\ ~AnswersMerge(file))

\* Once every question of an item is answered, an apply records the answers or
\* asks a new question, unless they are parked.
AnswersAreRecorded ==
    (Rung(file) = "apply" /\ ~Parked) ~> (Rung(file) # "apply" \/ Parked)

=============================================================================
