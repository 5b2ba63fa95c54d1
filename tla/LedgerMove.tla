----------------------------- MODULE LedgerMove -----------------------------
(***************************************************************************)
(* How a move gets onto main without a working tree:                        *)
(* runTreelessLedgerMove (needs-attention.ts) and the loop of               *)
(* createItemThroughCas (advancing-lock.ts), both over applyTransition      *)
(* (ledger-write.ts).  A mover plans its move on the main it fetched, pushes*)
(* one commit with a lease on that main, reads the arbiter to learn what    *)
(* became of it, and plans anew on a newer main when it believes it lost.   *)
(*                                                                          *)
(* A push may be applied although its answer is lost, the arbiter may be    *)
(* unreachable for the read that follows, others push in between, and a     *)
(* mover may die anywhere.  The moves that need the item's lock take it and *)
(* give it back as their callers do.                                        *)
(***************************************************************************)
EXTENDS LedgerTree, FiniteSets

CONSTANTS
    Kind,           \* [Mover -> Kinds]
    For,            \* [Mover -> Item]: the item the move is about
    Source,         \* [Mover -> Item]: what a create is minted from
    Why,            \* [Mover -> Reason]: what a surface asks
    Start,          \* the ledger at first
    MaxAttempts,    \* TREELESS_CONTENTION_ATTEMPTS, or the create's retries + 1
    MaxOthers,      \* bound: commits of others
    MaxFaults       \* bound: crashes, lost answers, refusals, failed reads

Kinds == {"surface", "promote", "note", "create", "drain"}

ASSUME ConstantsAssumption ==
    /\ {"free", "run"} \cap Mover = {}
    /\ Kind \in [Mover -> Kinds]
    /\ For \in [Mover -> Item]
    /\ Source \in [Mover -> Item]
    /\ Why \in [Mover -> Reason]
    /\ \A m \in Mover : Kind[m] = "create" => Source[m] # For[m]
    /\ Start \in Tree /\ \A i \in Item : Quiet(Start[i])
    /\ MaxAttempts \in Nat \ {0}
    /\ {MaxOthers, MaxFaults} \subseteq Nat

VARIABLES
    tree,       \* the ledger at the tip of main
    version,    \* how many commits main has had
    lock,       \* the items' lock refs: free, run (a build's), or a mover's
    pc,         \* where the mover is
    base,       \* the main it plans on: version and tree
    path,       \* the folder a surface found the item's body in
    mine,       \* the version its last push made, 0 for none
    attempt,    \* its failed attempts
    outcome,    \* what it reports
    others,     \* commits of others so far
    faults      \* faults so far

vars == <<tree, version, lock, pc, base, path, mine, attempt, outcome, others,
          faults>>
main == <<tree, version>>

Step == {"idle", "locking", "planning", "pushing", "confirming",
         "outraced", "failed", "retrying", "finishing", "over"}
Outcome == {"none", "landed", "missing", "bodyAbsent", "refused", "contended",
            "lost", "already", "error"}

Here == [version |-> version, tree |-> tree]

Init ==
    /\ tree = Start
    /\ version = 1
    /\ lock = [i \in Item |-> "free"]
    /\ pc = [m \in Mover |-> "idle"]
    /\ base = [m \in Mover |-> Here]
    /\ path = [m \in Mover |-> "absent"]
    /\ mine = [m \in Mover |-> 0]
    /\ attempt = [m \in Mover |-> 0]
    /\ outcome = [m \in Mover |-> "none"]
    /\ others = 0
    /\ faults = 0

At(m, s) == pc[m] = s
Go(m, s) == pc' = [pc EXCEPT ![m] = s]
Report(m, o) == outcome' = [outcome EXCEPT ![m] = o]
Finish(m, o) == Go(m, "finishing") /\ Report(m, o)
Fault == faults < MaxFaults /\ faults' = faults + 1

-----------------------------------------------------------------------------
(* Starting a move *)

\* The main that is fetched; a best-effort fetch may leave the old one.
Fetch(m) == base' = [base EXCEPT ![m] = Here]
Refresh(m) ==
    \/ Fetch(m) /\ UNCHANGED faults
    \/ Fault /\ UNCHANGED base

\* A build bounces: surfaceStuckToNeedsAttention looks for the item's body once,
\* and only gives the lock back when there is none.
StartSurface(m) ==
    /\ At(m, "idle") /\ Kind[m] = "surface"
    /\ lock[For[m]] = "run"
    /\ lock' = [lock EXCEPT ![For[m]] = m]
    /\ Refresh(m)
    /\ LET folder == base'[m].tree[For[m]].folder IN
       /\ path' = [path EXCEPT ![m] = folder]
       /\ IF folder \in Live
          THEN Go(m, "planning") /\ UNCHANGED outcome
          ELSE Finish(m, "bodyAbsent")
    /\ UNCHANGED <<main, mine, attempt, others>>

\* promoteFromPreBacklog fetches main before it takes the lock ...
StartPromote(m) ==
    /\ At(m, "idle") /\ Kind[m] = "promote"
    /\ Refresh(m)
    /\ Go(m, "locking")
    /\ UNCHANGED <<main, lock, path, mine, attempt, outcome, others>>

\* ... and plans on what it fetched.
LockForPromote(m) ==
    /\ At(m, "locking")
    /\ \/ /\ lock[For[m]] = "free"
          /\ lock' = [lock EXCEPT ![For[m]] = m]
          /\ IF base[m].tree[For[m]].folder \in Pool
             THEN Go(m, "planning") /\ UNCHANGED outcome
             ELSE Finish(m, "missing")
       \/ /\ lock[For[m]] # "free"
          /\ Go(m, "over") /\ Report(m, "lost")
          /\ UNCHANGED lock
    /\ UNCHANGED <<main, base, path, mine, attempt, others, faults>>

\* returnToBacklog needs a held lock, whoever holds it.
StartNote(m) ==
    /\ At(m, "idle") /\ Kind[m] = "note"
    /\ lock[For[m]] # "free"
    /\ Refresh(m)
    /\ Go(m, "planning")
    /\ UNCHANGED <<main, lock, path, mine, attempt, outcome, others>>

\* createItemThroughCas: what is there already and was minted from the same
\* source is no loss.  No main, no create.
StartCreate(m) ==
    /\ At(m, "idle") /\ Kind[m] = "create"
    /\ \/ /\ Fetch(m)
          /\ LET file == tree[For[m]] IN
             IF file.folder # "absent" /\ file.by # NoOne /\ Source[file.by] = Source[m]
             THEN Finish(m, "already")
             ELSE Go(m, "planning") /\ UNCHANGED outcome
          /\ UNCHANGED faults
       \/ Fault /\ Finish(m, "error") /\ UNCHANGED base
    /\ UNCHANGED <<main, lock, path, mine, attempt, others>>

\* The sweep of terminal items' questions.
StartDrain(m) ==
    /\ At(m, "idle") /\ Kind[m] = "drain"
    /\ Refresh(m)
    /\ Go(m, "planning")
    /\ UNCHANGED <<main, lock, path, mine, attempt, outcome, others>>

-----------------------------------------------------------------------------
(* One attempt: plan, push, read what became of it *)

\* The tree the plan's commit has.
Planned(m, t) ==
    LET i == For[m] IN
    CASE Kind[m] = "surface" -> Put(t, i, Surfaced(t[i], Why[m]))
      [] Kind[m] = "promote" -> Put(t, i, Promoted(t[i]))
      [] Kind[m] = "note"    -> Put(t, i, Noted(t[i], m))
      [] Kind[m] = "create"  -> Minted(t, i, Source[m], m)
      [] Kind[m] = "drain"   -> [j \in Item |-> Drained(t[j])]

\* There is nothing to do (any more).
AlreadyDone(m, t) ==
    \/ /\ Kind[m] = "surface"
       /\ t[For[m]].folder = path[m]
       /\ AlreadySurfaced(t[For[m]], Why[m])
    \/ Kind[m] = "promote" /\ t[For[m]].folder = "ready"
    \/ Kind[m] = "drain" /\ \A j \in Item : Drained(t[j]) = t[j]

\* The file to move is not there, or the path to create is.
CannotMove(m, t) ==
    \/ Kind[m] = "surface" /\ t[For[m]].folder # path[m]
    \/ Kind[m] = "promote" /\ t[For[m]].folder \notin Pool
    \/ Kind[m] = "note" /\ t[For[m]].folder \notin Pool
    \/ Kind[m] = "create" /\ t[For[m]].folder # "absent"

Plan(m) ==
    /\ At(m, "planning")
    /\ LET t == base[m].tree IN
       \/ AlreadyDone(m, t) /\ Finish(m, "landed")
       \/ CannotMove(m, t) /\ Finish(m, IF Kind[m] = "create" THEN "lost" ELSE "missing")
       \/ /\ ~AlreadyDone(m, t) /\ ~CannotMove(m, t)
          /\ Go(m, "pushing")
          /\ UNCHANGED outcome
    /\ mine' = [mine EXCEPT ![m] = 0]
    /\ UNCHANGED <<main, lock, base, path, attempt, others, faults>>

\* Mutant: a push without the lease.
Leased_Not(m) == TRUE

\* --force-with-lease=main:<base>.
Leased(m) == base[m].version = version

\* The arbiter applies the push; the nonce makes the commit nobody else's.
Publish(m) ==
    /\ Leased(m)
    /\ tree' = Planned(m, base[m].tree)
    /\ version' = version + 1
    /\ mine' = [mine EXCEPT ![m] = version + 1]

\* The answer may be lost; a push without the lease is outraced; and one may
\* be refused by the remote, or never get there.
Push(m) ==
    /\ At(m, "pushing")
    /\ \/ Publish(m) /\ Go(m, "confirming") /\ UNCHANGED faults
       \/ Publish(m) /\ Go(m, "failed") /\ Fault
       \/ ~Leased(m) /\ Go(m, "outraced") /\ UNCHANGED <<main, mine, faults>>
       \/ Go(m, "failed") /\ Fault /\ UNCHANGED <<main, mine>>
    /\ UNCHANGED <<lock, base, path, attempt, outcome, others>>

\* After exit 0: main is our commit, or the arbiter cannot be asked, or somebody
\* has pushed since.
Confirm(m) ==
    /\ At(m, "confirming")
    /\ \/ version = mine[m] /\ Finish(m, "landed") /\ UNCHANGED faults
       \/ version # mine[m] /\ Go(m, "retrying") /\ UNCHANGED <<outcome, faults>>
       \/ Fault /\ Finish(m, "landed")
    /\ UNCHANGED <<main, lock, base, path, mine, attempt, others>>

Rejected(m) == Go(m, "retrying") /\ UNCHANGED outcome

\* createAttempt takes a refusal for a lost race.
Refused(m) == IF Kind[m] = "create" THEN Rejected(m) ELSE Finish(m, "refused")

\* classifyFailedPush: a race when main moved off the base.  With the arbiter
\* out of reach the text of the push decides.
Classify(m) ==
    /\ pc[m] \in {"outraced", "failed"}
    /\ \/ version # base[m].version /\ Rejected(m) /\ UNCHANGED faults
       \/ version = base[m].version /\ Refused(m) /\ UNCHANGED faults
       \/ At(m, "outraced") /\ Rejected(m) /\ Fault
       \/ At(m, "failed") /\ Refused(m) /\ Fault
    /\ UNCHANGED <<main, lock, base, path, mine, attempt, others>>

\* Mutants: one attempt too few; one too many.
Exhausted_Early(m) == attempt[m] + 2 >= MaxAttempts
Exhausted_Late(m) == attempt[m] >= MaxAttempts

Exhausted(m) == attempt[m] + 1 >= MaxAttempts

\* Fetch again and plan anew.  When the fetch fails the old base is planned on,
\* and a create ends.  A create also has a wall-clock budget.
Retry(m) ==
    /\ At(m, "retrying")
    /\ \/ /\ Exhausted(m) \/ Kind[m] = "create"
          /\ Finish(m, "contended")
          /\ UNCHANGED <<base, attempt, faults>>
       \/ /\ ~Exhausted(m)
          /\ attempt' = [attempt EXCEPT ![m] = @ + 1]
          /\ Fetch(m)
          /\ Go(m, "planning")
          /\ UNCHANGED <<outcome, faults>>
       \/ /\ ~Exhausted(m)
          /\ Fault
          /\ attempt' = [attempt EXCEPT ![m] = @ + 1]
          /\ IF Kind[m] = "create" THEN Finish(m, "error")
             ELSE Go(m, "planning") /\ UNCHANGED outcome
          /\ UNCHANGED base
    /\ UNCHANGED <<main, lock, path, mine, others>>

-----------------------------------------------------------------------------
(* What the callers do with the outcome *)

\* Mutant: promote gives its lock back only when it moved the item.
GivesBack_OnSuccess(m) ==
    \/ Kind[m] \in {"surface", "promote"} /\ outcome[m] \in {"landed", "bodyAbsent"}
    \/ Kind[m] = "note"

\* A surface releases when it landed, or when there was no body; a promote and
\* a requeue always do.
GivesBack(m) ==
    \/ Kind[m] = "surface" /\ outcome[m] \in {"landed", "bodyAbsent"}
    \/ Kind[m] \in {"promote", "note"}

\* releaseItemLock asks nobody whose lock it is, and may fail.
Conclude(m) ==
    /\ At(m, "finishing")
    /\ \/ /\ GivesBack(m)
          /\ lock' = [lock EXCEPT ![For[m]] = "free"]
          /\ UNCHANGED faults
       \/ GivesBack(m) /\ Fault /\ UNCHANGED lock
       \/ ~GivesBack(m) /\ UNCHANGED <<lock, faults>>
    /\ Go(m, "over")
    /\ UNCHANGED <<main, base, path, mine, attempt, outcome, others>>

Crash(m) ==
    /\ pc[m] \notin {"idle", "over"}
    /\ Fault
    /\ Go(m, "over")
    /\ Report(m, "none")
    /\ UNCHANGED <<main, lock, base, path, mine, attempt, others>>

-----------------------------------------------------------------------------
(* The others *)

Commit(t) ==
    /\ others < MaxOthers
    /\ tree' = t
    /\ version' = version + 1
    /\ others' = others + 1
    /\ UNCHANGED <<pc, base, path, mine, attempt, outcome, faults>>

\* A build is claimed; a human may claim a task that is staged, or has a question
\* open (which only warns).
Claim(i) ==
    /\ tree[i].folder \in Pool
    /\ lock[i] = "free"
    /\ lock' = [lock EXCEPT ![i] = "run"]
    /\ UNCHANGED <<main, pc, base, path, mine, attempt, outcome, others, faults>>

\* It lands, and gives the lock back; or its pull request is merged.
Land(i) ==
    /\ tree[i].folder \in Pool
    /\ \/ /\ lock[i] = "run"
          /\ Commit(Put(tree, i, Folded(tree[i])))
          /\ lock' = [lock EXCEPT ![i] = "free"]
       \/ /\ Commit(Put(tree, i, Merged(tree[i])))
          /\ UNCHANGED lock

\* A human answers in the sidecar.
Answer(i) ==
    \E k \in DOMAIN tree[i].sidecar :
        /\ ~tree[i].sidecar[k].answered
        /\ Commit(Put(tree, i, WithAnswer(tree[i], k)))
        /\ UNCHANGED lock

\* The apply rung, under the item's lock: it resolves, disposes of the item or
\* asks on.
Apply(i) ==
    /\ AllAnswered(tree[i])
    /\ tree[i].folder \in Live \cup {"done"}
    /\ lock[i] = "free"
    /\ \/ Commit(Put(tree, i, Resolved(tree[i])))
       \/ Commit(Put(tree, i, Disposed(tree[i])))
       \/ \E r \in Reason : Commit(Put(tree, i, Surfaced(tree[i], r)))
    /\ UNCHANGED lock

-----------------------------------------------------------------------------
\* What a mover does by itself.
MoverStep(m) ==
    \/ LockForPromote(m) \/ Plan(m) \/ Push(m) \/ Confirm(m) \/ Classify(m)
    \/ Retry(m) \/ Conclude(m)

Begin(m) ==
    StartSurface(m) \/ StartPromote(m) \/ StartNote(m) \/ StartCreate(m)
    \/ StartDrain(m)

Next ==
    \/ \E m \in Mover : Begin(m) \/ MoverStep(m) \/ Crash(m)
    \/ \E i \in Item : Claim(i) \/ Land(i) \/ Answer(i) \/ Apply(i)

Spec == Init /\ [][Next]_vars

-----------------------------------------------------------------------------
(* Properties *)

\* Every variable stays in its set; no move is planned more often than the
\* attempts its loop has.
TypeOK ==
    /\ tree \in Tree
    /\ version \in Nat /\ others \in Nat /\ faults \in Nat
    /\ lock \in [Item -> {"free", "run"} \cup Mover]
    /\ pc \in [Mover -> Step]
    /\ base \in [Mover -> [version : Nat, tree : Tree]]
    /\ path \in [Mover -> Folder]
    /\ mine \in [Mover -> Nat]
    /\ attempt \in [Mover -> 0 .. MaxAttempts - 1]
    /\ outcome \in [Mover -> Outcome]

\* Whatever is retried, refused, lost or raced, each change of main is one whole
\* move made on the ledger as it stands (ledger-write.ts, "the atomic
\* compare-and-swap").
L == INSTANCE Ledger
ImplementsLedger == L!Spec

\* needsAnswers and the sidecar go together on every live item.
FlagIffSidecar == L!FlagIffSidecar

\* No question is pending twice, however often its surface was retried.
NoDuplicatePending == L!NoDuplicatePending

\* No move takes a human's answer off main that is not applied.
AnswersSurvive == L!AnswersSurvive

\* A tree-less move reports contention only after as many commits of main, or
\* faults, as it has attempts: a busy main alone is never given up on early.
GiveUpNeedsRaces ==
    \A m \in Mover : Kind[m] # "create" /\ outcome[m] = "contended" =>
        version - 1 + faults >= MaxAttempts

\* When no fault happens, a move that is over holds the item's lock only because
\* its question is not on main.
LocksComeBack ==
    faults = 0 =>
        \A m \in Mover : At(m, "over") /\ lock[For[m]] = m =>
            Kind[m] = "surface" /\ outcome[m] \in {"missing", "contended"}
=============================================================================
