---------------------------- MODULE Integration -----------------------------
(***************************************************************************)
(* How finished work reaches the arbiter's main: performIntegration and its *)
(* tail in packages/dorfl/src/integration-core.ts, the pushes of            *)
(* integrator.ts, and the release, mark and reap that complete.ts does      *)
(* after it.                                                                *)
(*                                                                          *)
(* A lane is one run of that pipeline for one task, on the task's own work  *)
(* branch.  Lanes share nothing but main, which they all push to without    *)
(* force, next to ledger writers (Upkeep) and people who merge pull         *)
(* requests.  A process may die between any two steps, a push may be        *)
(* applied although it reports a failure, and an operator may run the lane  *)
(* again on the branch that was left (committed recovery).                  *)
(***************************************************************************)
EXTENDS Naturals, Sequences, FiniteSets

CONSTANTS
    Task,           \* one lane each
    Upkeep,         \* a commit of main that is no task's work
    Foes,           \* pairs {t, u} whose rebases onto each other conflict
    Mode,           \* [Task -> {"merge", "propose"}]
    Gate,           \* [Task -> {"inPlace", "fresh", "apply"}]: where it runs
    NoTip,          \* an absent branch
    MaxMergeRetries,\* landIntegration's mergeRetries
    RebaseRetries,  \* recoverAlreadyCommitted's recoveryRebaseRetries
    MaxUpkeep,      \* bound: commits of other writers
    MaxRuns,        \* bound: times an operator runs a lane again
    MaxFaults       \* bound: crashes and failed pushes

ASSUME ConstantsAssumption ==
    /\ Upkeep \notin Task
    /\ Mode \in [Task -> {"merge", "propose"}]
    /\ Gate \in [Task -> {"inPlace", "fresh", "apply"}]
    /\ {MaxMergeRetries, RebaseRetries, MaxUpkeep, MaxRuns, MaxFaults} \subseteq Nat

\* The tip of a work branch: how many commits of main it is based on, what of
\* its own it carries (nothing, saved unfinished work, or the work with its
\* done-move) and whether it has the Landed-Without-Regate trailer.
Tip == [base : Nat, own : {"nothing", "wip", "done"}, stamp : BOOLEAN]

ASSUME NoTipAssumption == NoTip \notin Tip

\* A commit of main; `tip` is the branch tip it made an ancestor of main, NoTip
\* when the forge squashed the branch.
Commit == [work : Task \cup {Upkeep}, tip : Tip \cup {NoTip}]

VARIABLES
    main,       \* the arbiter's main: Seq(Commit)
    local,      \* the work branch in the lane's checkout
    remote,     \* the work branch on the arbiter
    openPR,     \* tasks with an open pull request
    lock,       \* the per-item lock: held, kept (marked propose-kept), free
    surfaced,   \* tasks with a question on main (needs attention)
    pc,         \* where the lane is
    outcome,    \* what the lane reports when it is over
    attempt,    \* retries of the loop the lane is in
    gated,      \* the bases on which a gate passed for the lane
    runs,       \* times the lane was run again
    faults      \* crashes and failed pushes so far

vars == <<main, local, remote, openPR, lock, surfaced, pc, outcome, attempt,
          gated, runs, faults>>
arbiterVars == <<main, remote, openPR, lock, surfaced>>

Step == {"working", "rebasing", "retrying", "gating", "landing", "opening",
         "pruning", "releasing", "marking", "reaping",
         "saving", "surfacing", "lettingGo",
         "recovering", "gatingKept", "landingKept", "over"}

Outcome == {"none", "merged", "proposed", "alreadyOnMain",
            "gate", "conflict", "contention", "failed"}

Fresh == [base |-> 0, own |-> "nothing", stamp |-> FALSE]

Init ==
    /\ main = <<>>
    /\ local = [t \in Task |-> Fresh]
    /\ remote = [t \in Task |-> NoTip]
    /\ openPR = {} /\ surfaced = {}
    /\ lock = [t \in Task |-> "held"]
    /\ pc = [t \in Task |-> "working"]
    /\ outcome = [t \in Task |-> "none"]
    /\ attempt = [t \in Task |-> 0]
    /\ gated = [t \in Task |-> {}]
    /\ runs = [t \in Task |-> 0]
    /\ faults = 0

-----------------------------------------------------------------------------
(* main and the branches *)

Landed(t) == \E k \in DOMAIN main : main[k].work = t

\* isAncestor(tip, main).
OnMain(t, tip) ==
    \/ tip.own = "nothing"
    \/ \E k \in DOMAIN main : main[k].work = t /\ main[k].tip = tip

\* Whose work main's commits m to n are.
Works(m, n) == {main[k].work : k \in m .. n}

\* What a gate sees: the work of main's first n commits, and the parity of its
\* upkeep, so that two pieces of upkeep may cancel out.
Upkeeps(n) == {k \in 1 .. n : main[k].work = Upkeep}
Tree(n) == [works |-> Works(1, n) \ {Upkeep},
            upkeep |-> Cardinality(Upkeeps(n)) % 2]

\* The commits of main a rebase replays the branch over.
News(tip) == Works(tip.base + 1, Len(main))

\* A rebase may only succeed when nobody touched the same lines; it may fail
\* when the task itself landed as a squash.
Conflicting(t, tip) == \E u \in News(tip) : {t, u} \in Foes
CleanRebase(t) == ~Conflicting(t, local[t])
FailedRebase(t) == Conflicting(t, local[t]) \/ t \in News(local[t])

At(t, s) == pc[t] = s
Go(t, s) == pc' = [pc EXCEPT ![t] = s]
Report(t, o) == outcome' = [outcome EXCEPT ![t] = o]
Quit(t, o) == Go(t, "over") /\ Report(t, o)

Fault == faults < MaxFaults /\ faults' = faults + 1

\* A landing takes the item's question residue with it (foldQuestionResidue).
Land(t, n, tip) ==
    /\ main' = Append(SubSeq(main, 1, n), [work |-> t, tip |-> tip])
    /\ surfaced' = surfaced \ {t}

-----------------------------------------------------------------------------
(* The build: gate, done-move, commit, first rebase                          *)

\* The branch carries o of its own from now on.
Carry(t, o) == local' = [local EXCEPT ![t] =
                            [base |-> local[t].base, own |-> o,
                             stamp |-> local[t].stamp]]

\* Gate (in place, or in the CI agent's job), done-move, commit.  The apply job
\* of a CI run lands the gated tip as it is, without a rebase.
CommitWork(t) ==
    /\ At(t, "working")
    /\ Carry(t, "done")
    /\ gated' = [gated EXCEPT ![t] =
                    IF Gate[t] = "fresh" THEN @ ELSE @ \cup {local[t].base}]
    /\ Go(t, IF Gate[t] = "apply" THEN "landing" ELSE "rebasing")
    /\ UNCHANGED <<arbiterVars, outcome, attempt, runs, faults>>

\* A red gate in place saves the unfinished work and bounces the item.
GateRedInPlace(t) ==
    /\ At(t, "working")
    /\ Gate[t] = "inPlace"
    /\ Carry(t, "wip")
    /\ Go(t, "saving")
    /\ Report(t, "gate")
    /\ UNCHANGED <<arbiterVars, attempt, gated, runs, faults>>

\* Mutant: a trailer an earlier retry left is never taken off again.
Stamp_Sticky(t, n) ==
    IF Gate[t] = "apply"
    THEN local[t].stamp \/ \A b \in gated[t] : Tree(b) # Tree(n) ELSE FALSE

\* stampLandedWithoutRegate: only a CI apply job stamps, and only a retry.
Stamp(t, n) == Gate[t] = "apply" /\ \A b \in gated[t] : Tree(b) # Tree(n)

\* The branch replayed on the main just fetched.  What landed as a squash is
\* dropped by git, and nothing of the branch's own is left.
Rebased(t, stamp) ==
    local' = [local EXCEPT ![t] =
        [base  |-> Len(main),
         own   |-> IF t \in News(local[t]) THEN "nothing" ELSE "done",
         stamp |-> stamp]]

\* rebaseOntoMainWithReconcile: fetch, rebase, and never resolve a conflict.
RebaseWork(t) ==
    /\ pc[t] \in {"rebasing", "retrying"}
    /\ \/ /\ CleanRebase(t)
          /\ Rebased(t, At(t, "retrying") /\ Stamp(t, Len(main)))
          /\ Go(t, IF At(t, "rebasing") /\ Gate[t] = "fresh"
                   THEN "gating" ELSE "landing")
          /\ UNCHANGED outcome
       \/ /\ FailedRebase(t)
          /\ Go(t, "saving")
          /\ Report(t, "conflict")
          /\ UNCHANGED local
    /\ UNCHANGED <<arbiterVars, attempt, gated, runs, faults>>

\* runFreshWorktreeGate on the rebased tip, for a build or a recovery.
GateTip(t) ==
    /\ pc[t] \in {"gating", "gatingKept"}
    /\ \/ /\ gated' = [gated EXCEPT ![t] = @ \cup {local[t].base}]
          /\ Go(t, IF At(t, "gating") THEN "landing" ELSE "landingKept")
          /\ UNCHANGED outcome
       \/ /\ Go(t, "saving")
          /\ Report(t, "gate")
          /\ UNCHANGED gated
    /\ UNCHANGED <<arbiterVars, local, attempt, runs, faults>>

-----------------------------------------------------------------------------
(* Merge mode: mergePushOnce, the retry loop of landIntegration, and the     *)
(* single push of recoverAlreadyCommitted                                    *)

Landing(t, m) == pc[t] \in {"landing", "landingKept"} /\ Mode[t] = m

\* Mutant: `git push --force`.
FastForward_Force(t) == TRUE

\* The arbiter takes `branch:main` only as a fast-forward.
FastForward(t) == local[t].base = Len(main)

\* The push is accepted; a branch with nothing of its own is "up to date".
MergePush(t) ==
    /\ FastForward(t)
    /\ IF local[t].own = "nothing"
       THEN UNCHANGED <<main, surfaced>>
       ELSE Land(t, local[t].base, local[t])

PushMain(t) ==
    /\ Landing(t, "merge")
    /\ MergePush(t)
    /\ Go(t, "pruning")
    /\ Report(t, "merged")
    /\ UNCHANGED <<local, remote, openPR, lock, attempt, gated, runs, faults>>

\* Neither an acceptance nor a rejection comes back: mergePushOnce throws.
PushMainLost(t) ==
    /\ Landing(t, "merge")
    /\ Fault
    /\ MergePush(t) \/ UNCHANGED <<main, surfaced>>
    /\ Quit(t, "failed")
    /\ UNCHANGED <<local, remote, openPR, lock, attempt, gated, runs>>

\* Mutant: the cap is one short.
GiveUp_Early(t) == attempt[t] + 1 >= MaxMergeRetries

GiveUp(t) == attempt[t] >= MaxMergeRetries

\* Rejected: landed already, or try again on the newer main, or give up.
PushMainRejected(t) ==
    /\ Landing(t, "merge")
    /\ ~FastForward(t)
    /\ \/ /\ OnMain(t, local[t])
          /\ Go(t, "pruning") /\ Report(t, "merged")
          /\ UNCHANGED attempt
       \/ /\ ~OnMain(t, local[t])
          /\ At(t, "landing")
          /\ ~GiveUp(t)
          /\ attempt' = [attempt EXCEPT ![t] = @ + 1]
          /\ Go(t, "retrying")
          /\ UNCHANGED outcome
       \/ /\ ~OnMain(t, local[t])
          /\ At(t, "landing")
          /\ GiveUp(t)
          /\ Go(t, "saving") /\ Report(t, "contention")
          /\ UNCHANGED attempt
       \* the recovery never looks at mergeNonFastForward
       \/ /\ ~OnMain(t, local[t])
          /\ At(t, "landingKept")
          /\ Go(t, "marking") /\ Report(t, "merged")
          /\ UNCHANGED attempt
    /\ UNCHANGED <<arbiterVars, local, gated, runs, faults>>

-----------------------------------------------------------------------------
(* Propose mode: pushProposeBranchWithStaleLeaseRetry and openRequest        *)

\* Nothing to propose when the head was reaped and the work is on main.
PushBranch(t) ==
    /\ Landing(t, "propose")
    /\ IF remote[t] = NoTip /\ OnMain(t, local[t])
       THEN /\ Go(t, "releasing") /\ Report(t, "alreadyOnMain")
            /\ UNCHANGED remote
       ELSE /\ remote' = [remote EXCEPT ![t] = local[t]]
            /\ Go(t, "opening")
            /\ Report(t, "proposed")
    /\ UNCHANGED <<main, local, openPR, lock, surfaced, attempt, gated, runs, faults>>

PushBranchLost(t) ==
    /\ Landing(t, "propose")
    /\ Fault
    /\ remote' \in {remote, [remote EXCEPT ![t] = local[t]]}
    /\ Quit(t, "failed")
    /\ UNCHANGED <<main, local, openPR, lock, surfaced, attempt, gated, runs>>

\* The forge opens a request, or does not (noPR, no provider, a refusal): the
\* lane reports the proposal either way.
OpenRequest(t) ==
    /\ At(t, "opening")
    /\ openPR' \in {openPR, openPR \cup {u \in {t} : remote[u] # NoTip}}
    /\ Go(t, "marking")
    /\ UNCHANGED <<main, local, remote, lock, surfaced, outcome, attempt, gated,
                   runs, faults>>

-----------------------------------------------------------------------------
(* After the integration: prune, release or mark, reap                       *)

\* isProvablyMergedForReap: an ancestor of main, or the same change under a
\* terminal record (a squash).
ProvablyMerged(t, tip) == OnMain(t, tip) \/ (tip.own = "done" /\ Landed(t))

\* deleteMergedHeadBranch, at best effort.
PruneHead(t) ==
    /\ At(t, "pruning")
    /\ \/ UNCHANGED remote
       \/ /\ remote[t] # NoTip /\ ProvablyMerged(t, remote[t])
          /\ remote' = [remote EXCEPT ![t] = NoTip]
    /\ Go(t, "releasing")
    /\ UNCHANGED <<main, local, openPR, lock, surfaced, outcome, attempt, gated,
                   runs, faults>>

\* The work is on main, or a question is: the lock goes.
ReleaseLock(t) ==
    /\ pc[t] \in {"releasing", "lettingGo"}
    /\ \/ lock' = [lock EXCEPT ![t] = "free"] /\ UNCHANGED faults
       \/ Fault /\ UNCHANGED lock
    /\ Go(t, IF At(t, "releasing") THEN "reaping" ELSE "over")
    /\ UNCHANGED <<main, local, remote, openPR, surfaced, outcome, attempt, gated, runs>>

\* Mutant: a proposal counts as durable.
MarkKept_Free(t) == lock' = [lock EXCEPT ![t] = "free"]

\* markLockKeptForProposePr: a lock that is gone stays gone.
MarkKept(t) ==
    lock' = [lock EXCEPT ![t] = IF @ = "free" THEN "free" ELSE "kept"]

KeepLock(t) ==
    /\ At(t, "marking")
    /\ \/ MarkKept(t) /\ UNCHANGED faults
       \/ Fault /\ UNCHANGED lock
    /\ Go(t, "reaping")
    /\ UNCHANGED <<main, local, remote, openPR, surfaced, outcome, attempt, gated, runs>>

\* Mutant: the branch of a completed run is deleted unseen.
OnArbiter_Assumed(t) == TRUE

\* isLocalBranchProvablyOnArbiter.
OnArbiter(t) == ProvablyMerged(t, local[t]) \/ remote[t] = local[t]

\* deleteLocalBranchIfProvablyOnArbiter, unless --no-switch.
ReapBranch(t) ==
    /\ At(t, "reaping")
    /\ \/ UNCHANGED local
       \/ OnArbiter(t) /\ local' = [local EXCEPT ![t] = NoTip]
    /\ Go(t, "over")
    /\ UNCHANGED <<arbiterVars, outcome, attempt, gated, runs, faults>>

-----------------------------------------------------------------------------
(* Needs attention: save the branch, surface the question, release           *)

\* routeToNeedsAttention pushes without force and goes on when that fails.
SaveBranch(t) ==
    /\ At(t, "saving")
    /\ \/ UNCHANGED remote
       \/ remote[t] = NoTip /\ remote' = [remote EXCEPT ![t] = local[t]]
    /\ Go(t, "surfacing")
    /\ UNCHANGED <<main, local, openPR, lock, surfaced, outcome, attempt, gated,
                   runs, faults>>

\* surfaceStuckToNeedsAttention: a landed item has no body left to surface on,
\* and only its lock is released; a surface that cannot land keeps the lock.
Surface(t) ==
    /\ At(t, "surfacing")
    /\ \/ /\ ~Landed(t)
          /\ main' = Append(main, [work |-> Upkeep, tip |-> NoTip])
          /\ surfaced' = surfaced \cup {t}
          /\ Go(t, "lettingGo")
          /\ UNCHANGED faults
       \/ /\ Landed(t)
          /\ Go(t, "lettingGo")
          /\ UNCHANGED <<main, surfaced, faults>>
       \/ /\ Fault
          /\ Go(t, "over")
          /\ UNCHANGED <<main, surfaced>>
    /\ UNCHANGED <<local, remote, openPR, lock, outcome, attempt, gated, runs>>

-----------------------------------------------------------------------------
(* Running the lane again on the branch that was left                        *)

\* complete takes a branch whose body is in done for a committed recovery.
DoneMoved(t) ==
    \/ local[t].own = "done"
    \/ local[t].own = "nothing" /\ t \in Works(1, local[t].base)

Rerun(t) ==
    /\ At(t, "over")
    /\ Gate[t] # "apply"
    /\ local[t] # NoTip
    /\ runs[t] < MaxRuns
    /\ runs' = [runs EXCEPT ![t] = @ + 1]
    /\ attempt' = [attempt EXCEPT ![t] = 0]
    /\ Go(t, IF DoneMoved(t) THEN "recovering" ELSE "working")
    /\ Report(t, "none")
    /\ UNCHANGED <<arbiterVars, local, gated, faults>>

\* Mutants: the retry is not counted, or counted the wrong way.
CountRetry_Not(t) == UNCHANGED attempt
CountRetry_Down(t) == attempt' = [attempt EXCEPT ![t] = @ - 1]

CountRetry(t) == attempt' = [attempt EXCEPT ![t] = @ + 1]

\* recoverAlreadyCommitted, up to its push: work that is on main only gives its
\* lock back; a conflict is retried on a newer main, and never surfaced.
Recover(t) ==
    /\ At(t, "recovering")
    /\ \/ /\ OnMain(t, local[t])
          /\ Go(t, "lettingGo") /\ Report(t, "alreadyOnMain")
          /\ UNCHANGED <<local, attempt>>
       \/ /\ ~OnMain(t, local[t])
          /\ CleanRebase(t)
          /\ Rebased(t, FALSE)
          /\ Go(t, IF Gate[t] = "fresh" THEN "gatingKept" ELSE "landingKept")
          /\ UNCHANGED <<outcome, attempt>>
       \/ /\ ~OnMain(t, local[t])
          /\ FailedRebase(t)
          /\ attempt[t] < RebaseRetries
          /\ CountRetry(t)
          /\ UNCHANGED <<local, pc, outcome>>
       \/ /\ ~OnMain(t, local[t])
          /\ FailedRebase(t)
          /\ attempt[t] = RebaseRetries
          /\ Quit(t, "conflict")
          /\ UNCHANGED <<local, attempt>>
    /\ UNCHANGED <<arbiterVars, gated, runs, faults>>

-----------------------------------------------------------------------------
(* The environment *)

Crash(t) ==
    /\ pc[t] # "over"
    /\ Fault
    /\ Quit(t, "failed")
    /\ UNCHANGED <<arbiterVars, local, attempt, gated, runs>>

\* Another ledger write, or another person's push.
OtherWriter ==
    /\ Cardinality(Upkeeps(Len(main))) < MaxUpkeep
    /\ main' = Append(main, [work |-> Upkeep, tip |-> NoTip])
    /\ UNCHANGED <<local, remote, openPR, lock, surfaced, pc, outcome, attempt,
                   gated, runs, faults>>

\* A human merges the request, as a merge commit or squashed, and the forge
\* may delete its head.
MergePR(t) ==
    /\ t \in openPR
    /\ remote[t] # NoTip
    /\ ~Landed(t)
    /\ ~Conflicting(t, remote[t])
    /\ \E tip \in {remote[t], NoTip} :
        main' = Append(main, [work |-> t, tip |-> tip])
    /\ remote' \in {remote, [remote EXCEPT ![t] = NoTip]}
    /\ openPR' = openPR \ {t}
    /\ UNCHANGED <<local, lock, surfaced, pc, outcome, attempt, gated, runs, faults>>

-----------------------------------------------------------------------------
\* The steps a running lane takes by itself.
LaneStep(t) ==
    \/ CommitWork(t) \/ GateRedInPlace(t) \/ RebaseWork(t) \/ GateTip(t)
    \/ PushMain(t) \/ PushMainRejected(t)
    \/ PushBranch(t) \/ OpenRequest(t)
    \/ PruneHead(t) \/ ReleaseLock(t) \/ KeepLock(t) \/ ReapBranch(t)
    \/ SaveBranch(t) \/ Surface(t) \/ Recover(t)

Next ==
    \/ \E t \in Task :
        \/ LaneStep(t) \/ PushMainLost(t) \/ PushBranchLost(t)
        \/ Crash(t) \/ Rerun(t) \/ MergePR(t)
    \/ OtherWriter

Spec == Init /\ [][Next]_vars

\* A lane that runs goes on; nobody has to merge, to crash or to run it again.
FairSpec == Spec /\ \A t \in Task : WF_vars(LaneStep(t))

-----------------------------------------------------------------------------
(* Properties *)

\* Every variable stays in its set.
TypeOK ==
    /\ main \in Seq(Commit)
    /\ local \in [Task -> Tip \cup {NoTip}]
    /\ remote \in [Task -> Tip \cup {NoTip}]
    /\ openPR \subseteq Task
    /\ lock \in [Task -> {"held", "kept", "free"}]
    /\ surfaced \subseteq Task
    /\ pc \in [Task -> Step]
    /\ outcome \in [Task -> Outcome]
    /\ attempt \in [Task -> Nat]
    /\ gated \in [Task -> SUBSET Nat]
    /\ runs \in [Task -> Nat]
    /\ faults \in Nat

\* The lock covers the work until it is durable: a lock is given back only when
\* the task is on main, or a question about it is, whatever crashed, failed,
\* raced or was run again before (complete.ts, "release after the durable
\* move"; surfaceStuckToNeedsAttention, "surface first, release second").
LockCoversWork ==
    \A t \in Task : lock[t] = "free" => Landed(t) \/ t \in surfaced

\* A branch is deleted only when its work is safe: with the local branch gone
\* the work is on main or on the arbiter's work branch.
WorkIsNeverLost ==
    \A t \in Task : local[t] = NoTip =>
        Landed(t) \/ (remote[t] # NoTip /\ remote[t].own = "done")

\* The Landed-Without-Regate trailer tells the truth: a commit that a CI apply
\* job put on main has it exactly when its tree is not the one the agent job
\* gated, also when later retries brought that tree back.
StampTells ==
    \A t \in Task, k \in DOMAIN main :
        /\ main[k].work = t /\ main[k].tip # NoTip
        /\ Gate[t] = "apply" /\ Mode[t] = "merge"
        => (main[k].tip.stamp <=>
                \A b \in gated[t] : Tree(b) # Tree(main[k].tip.base))

\* Contention alone hardly ever makes a task stuck: one that gave up has lost
\* more races than its retries, each to a commit of its own on main.
GiveUpNeedsLostRaces ==
    \A t \in Task : outcome[t] = "contention" => Len(main) > MaxMergeRetries

\* Every run of a lane ends, however main moves: both retry loops are bounded.
EveryRunEnds == \A t \in Task : pc[t] # "over" ~> pc[t] = "over"

\* A lane that reports the task as merged has it on main.
MergedReportIsTrue ==
    \A t \in Task :
        At(t, "over") /\ outcome[t] = "merged" => Landed(t)

\* main is the abstract log: append-only, each work once, never beside a foe.
Log == INSTANCE MainLog WITH log <- [k \in DOMAIN main |-> main[k].work]
ImplementsMainLog == Log!Spec
=============================================================================
