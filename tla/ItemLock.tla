------------------------------ MODULE ItemLock ------------------------------
(***************************************************************************)
(* The per-item lock of packages/dorfl/src/item-lock.ts and its callers.    *)
(*                                                                          *)
(* The arbiter (a bare git remote) holds one hidden ref per item.  A ref is *)
(* absent or points at a parentless commit whose only content is the lock   *)
(* entry, so the commit IS its content: two runners that build the same     *)
(* entry build the same sha.  Every operation is a fetch of the refs        *)
(* followed by one conditional push, two separate steps here, between which *)
(* any other runner, operator or forge may move.                            *)
(***************************************************************************)
EXTENDS Naturals, FiniteSets

CONSTANTS
    Runner,     \* the processes that run dorfl verbs against one arbiter
    Item,       \* the items (`<type>-<slug>` lock entries)
    Holder,     \* the names a lock entry can carry (resolveHolder)
    HolderOf,   \* [Runner -> Holder]: a CI fleet shares one bot identity
    Action,     \* the lock actions in play, a subset of LockAction
    Leased,     \* the runners that are CI apply jobs (leaseLockReleases)
    Operators,  \* whether anybody runs release-lock, reap or resume
    NoLock,     \* an absent ref
    MaxSince,   \* bound: lock commits one runner stamps
    MaxFaults   \* bound: crashes and failed pushes in a behaviour

LockAction == {"implement", "task", "advance"}

ASSUME ConstantsAssumption ==
    /\ HolderOf \in [Runner -> Holder]
    /\ Action \subseteq LockAction
    /\ Leased \subseteq Runner
    /\ Operators \in BOOLEAN
    /\ MaxSince \in Nat
    /\ MaxFaults \in Nat

\* A lock commit.  `since` is a timestamp in milliseconds: a runner never
\* stamps two commits in the same one, two runners may.
Commit == [entry : Item, action : Action, holder : Holder,
           since : 1 .. MaxSince, kept : BOOLEAN]

ASSUME NoLockAssumption == NoLock \notin Commit

VARIABLES
    lockRef,    \* the arbiter's refs: [Item -> Commit \cup {NoLock}]
    done,       \* items whose body rests in a terminal folder of main
    surfaced,   \* items with needsAnswers and a question sidecar on main
    openPR,     \* items with an open pull request of their work branch
    op,         \* per runner: the step of the verb it runs, and its reads
    hold,       \* per runner: the lock commit it believes it holds
    clock,      \* per runner: the stamp of its last lock commit
    faults      \* crashes and failed pushes so far

vars == <<lockRef, done, surfaced, openPR, op, hold, clock, faults>>
mainVars == <<done, surfaced, openPR>>

Step == {"idle",
         "creating", "takeOverReading", "takingOver", "retrying",
         "confirming", "holding",
         "releasing", "deleting", "marking", "replacing",
         "sweepReading", "sweepClearing",
         "reapReading", "reapClearing", "resumeReading", "resumeClearing"}

\* What a verb carries between its fetch and its push: the item it is about,
\* the commit it saw under the ref and the commit it is about to write.
Op == [step : Step, item : Item \cup {NoLock},
       seen : Commit \cup {NoLock}, built : Commit \cup {NoLock}]

Idle == [step |-> "idle", item |-> NoLock, seen |-> NoLock, built |-> NoLock]

Init ==
    /\ lockRef = [i \in Item |-> NoLock]
    /\ done = {} /\ surfaced = {} /\ openPR = {}
    /\ op = [r \in Runner |-> Idle]
    /\ hold = [r \in Runner |-> NoLock]
    /\ clock = [r \in Runner |-> 0]
    /\ faults = 0

-----------------------------------------------------------------------------
(* One conditional push of a lock ref.  git compares first: a ref that       *)
(* already points at the pushed commit is "up to date", which exits 0        *)
(* whatever the lease says; a lease on another value is rejected.            *)

\* Mutant: a plain forced push, without the lease.
Accepts_NoLease(i, expected, new) == TRUE

Accepts(i, expected, new) ==
    \/ lockRef[i] = expected
    \/ new # NoLock /\ lockRef[i] = new

PushOk(i, expected, new) ==
    /\ Accepts(i, expected, new)
    /\ lockRef' = [lockRef EXCEPT ![i] = new]
    /\ UNCHANGED faults

PushRejected(i, expected, new) ==
    /\ ~Accepts(i, expected, new)
    /\ UNCHANGED <<lockRef, faults>>

\* The transport fails: before the arbiter applied the push, or after it.
PushFaulted(i, expected, new) ==
    /\ faults < MaxFaults
    /\ faults' = faults + 1
    /\ \/ UNCHANGED lockRef
       \/ /\ Accepts(i, expected, new)
          /\ lockRef' = [lockRef EXCEPT ![i] = new]

PushFailed(i, expected, new) ==
    PushRejected(i, expected, new) \/ PushFaulted(i, expected, new)

-----------------------------------------------------------------------------
(* Helpers *)

At(r, s) == op[r].step = s

\* Runner r goes on with its verb at step s, carrying c and b.
Carry(r, s, c, b) ==
    op' = [op EXCEPT ![r] = [step |-> s, item |-> op[r].item,
                             seen |-> c, built |-> b]]
Go(r, s) == Carry(r, s, op[r].seen, op[r].built)
Rest(r) == op' = [op EXCEPT ![r] = Idle]

\* The verb ends and the runner gives up whatever it held.
End(r) == Rest(r) /\ hold' = [hold EXCEPT ![r] = NoLock]

\* Mutant: the clock is read before it ticks.
Stamp_Early(r, i, a) == [entry |-> i, action |-> a, holder |-> HolderOf[r],
                         since |-> clock[r], kept |-> FALSE]

\* buildLockCommit for a fresh lock: now, by me, not kept.
Stamp(r, i, a) == [entry |-> i, action |-> a, holder |-> HolderOf[r],
                   since |-> clock[r] + 1, kept |-> FALSE]
Tick(r) == clock[r] < MaxSince /\ clock' = [clock EXCEPT ![r] = @ + 1]

-----------------------------------------------------------------------------
(* Acquire: acquireItemLock, takeOverProposeKeptLock, the claim's re-check   *)

StartAcquire(r, i, a) ==
    /\ op[r] = Idle
    /\ Tick(r)
    /\ op' = [op EXCEPT ![r] = [step |-> "creating", item |-> i,
                                seen |-> NoLock, built |-> Stamp(r, i, a)]]
    /\ UNCHANGED <<lockRef, mainVars, hold, faults>>

\* The push succeeded: only a claim looks at main again under its lock.
Acquired(r) ==
    /\ hold' = [hold EXCEPT ![r] = op[r].built]
    /\ Carry(r, IF op[r].built.action = "implement"
                THEN "confirming" ELSE "holding", NoLock, NoLock)

\* The create-only push.  An advance that answers a merge question goes on to
\* try the take-over when it lost, once.
CreateLock(r) ==
    /\ op[r].step \in {"creating", "retrying"}
    /\ \/ PushOk(op[r].item, NoLock, op[r].built) /\ Acquired(r)
       \/ /\ PushFailed(op[r].item, NoLock, op[r].built)
          /\ \/ Rest(r)
             \/ /\ At(r, "creating")
                /\ op[r].built.action = "advance"
                /\ Go(r, "takeOverReading")
          /\ UNCHANGED hold
    /\ UNCHANGED <<mainVars, clock>>

\* Mutant: the marker is not looked at.
Takeable_Unmarked(c) == c # NoLock /\ c.action = "implement"

\* Only the kept lock of a finished implement build changes hands.
Takeable(c) == c # NoLock /\ c.kept /\ c.action = "implement"

\* fetchHeldEntry; an absent ref is acquired the ordinary way.  A runner at the
\* bound MaxSince stamps nothing more and backs off.
TakeOverRead(r) ==
    /\ At(r, "takeOverReading")
    /\ LET cur == lockRef[op[r].item]
           mine == Stamp(r, op[r].item, "advance") IN
       \/ cur = NoLock /\ Tick(r) /\ Carry(r, "retrying", NoLock, mine)
       \/ Takeable(cur) /\ Tick(r) /\ Carry(r, "takingOver", cur, mine)
       \/ /\ (cur # NoLock /\ ~Takeable(cur)) \/ clock[r] = MaxSince
          /\ Rest(r)
          /\ UNCHANGED clock
    /\ UNCHANGED <<lockRef, mainVars, hold, faults>>

TakeOver(r) ==
    /\ At(r, "takingOver")
    /\ \/ PushOk(op[r].item, op[r].seen, op[r].built) /\ Acquired(r)
       \/ /\ PushFailed(op[r].item, op[r].seen, op[r].built)
          /\ Rest(r)
          /\ UNCHANGED hold
    /\ UNCHANGED <<mainVars, clock>>

\* runClaim reads main again under the lock: a body that is no longer claimable
\* gives the lock back.
Confirm(r) ==
    /\ At(r, "confirming")
    /\ Go(r, IF op[r].item \in done THEN "releasing" ELSE "holding")
    /\ UNCHANGED <<lockRef, mainVars, hold, clock, faults>>

-----------------------------------------------------------------------------
(* What the holder of a lock does to main before it lets go.                 *)

Built(r) == At(r, "holding") /\ hold[r].action # "advance"

\* The durable done-move reached main (or had already): the lock is released
\* after it, never before.
Land(r) ==
    /\ Built(r)
    /\ done' = done \cup {op[r].item}
    /\ surfaced' = surfaced \ {op[r].item}
    /\ openPR' = openPR \ {op[r].item}
    /\ Go(r, "releasing")
    /\ UNCHANGED <<lockRef, hold, clock, faults>>

\* Propose mode: nothing durable on main, so the lock is kept and marked.
OpenPR(r) ==
    /\ Built(r)
    /\ hold[r].action = "implement"
    /\ openPR' = openPR \cup ({op[r].item} \ done)
    /\ Go(r, "marking")
    /\ UNCHANGED <<lockRef, done, surfaced, hold, clock, faults>>

\* surfaceStuckToNeedsAttention: surface first, release second.
Surface(r) ==
    /\ At(r, "holding")
    /\ op[r].item \notin done
    /\ surfaced' = surfaced \cup {op[r].item}
    /\ Go(r, "releasing")
    /\ UNCHANGED <<lockRef, done, openPR, hold, clock, faults>>

\* An advance applies the answers: the sidecar and the flag leave main.
ApplyAnswer(r) ==
    /\ At(r, "holding")
    /\ hold[r].action = "advance"
    /\ op[r].item \in surfaced
    /\ surfaced' = surfaced \ {op[r].item}
    /\ Go(r, "releasing")
    /\ UNCHANGED <<lockRef, done, openPR, hold, clock, faults>>

\* Mutant: the abort returns without the release.
GiveUp_Return(r) ==
    /\ At(r, "holding")
    /\ End(r)
    /\ UNCHANGED <<lockRef, mainVars, clock, faults>>

\* Nothing to do, or an abort that surfaces nothing.
GiveUp(r) ==
    /\ At(r, "holding")
    /\ Go(r, "releasing")
    /\ UNCHANGED <<lockRef, mainVars, hold, clock, faults>>

-----------------------------------------------------------------------------
(* releaseLockEntry: by the holder, or by an operator who holds nothing      *)
(* (release-lock, requeue).                                                  *)

StartOperatorRelease(r, i) ==
    /\ Operators
    /\ op[r] = Idle
    /\ op' = [op EXCEPT ![r] = [step |-> "releasing", item |-> i,
                                seen |-> NoLock, built |-> NoLock]]
    /\ UNCHANGED <<lockRef, mainVars, hold, clock, faults>>

\* Mutant: the lease is never compared.
LeaseRefuses_Never(r, cur) == FALSE

\* Only a leased runner compares the commit it reads with the one it holds.
LeaseRefuses(r, cur) ==
    r \in Leased /\ hold[r] # NoLock /\ cur # hold[r]

ReleaseRead(r) ==
    /\ At(r, "releasing")
    /\ LET cur == lockRef[op[r].item] IN
       \/ (cur = NoLock \/ LeaseRefuses(r, cur)) /\ End(r)
       \/ /\ cur # NoLock
          /\ ~LeaseRefuses(r, cur)
          /\ Carry(r, "deleting", cur, NoLock)
          /\ UNCHANGED hold
    /\ UNCHANGED <<lockRef, mainVars, clock, faults>>

\* The delete is leased on the commit just read, whoever wrote it.
DeleteLock(r) ==
    /\ At(r, "deleting")
    /\ \/ PushOk(op[r].item, op[r].seen, NoLock)
       \/ PushFailed(op[r].item, op[r].seen, NoLock)
    /\ End(r)
    /\ UNCHANGED <<mainVars, clock>>

-----------------------------------------------------------------------------
(* markLockKeptForProposePr *)

Kept(c) == c # NoLock /\ c.kept

\* The same entry, with the mark.
Marked(c) == [entry |-> c.entry, action |-> c.action, holder |-> c.holder,
              since |-> c.since, kept |-> TRUE]

MarkRead(r) ==
    /\ At(r, "marking")
    /\ LET cur == lockRef[op[r].item] IN
       \/ (cur = NoLock \/ LeaseRefuses(r, cur) \/ Kept(cur)) /\ End(r)
       \/ /\ cur # NoLock
          /\ ~LeaseRefuses(r, cur)
          /\ ~Kept(cur)
          /\ Carry(r, "replacing", cur, Marked(cur))
          /\ UNCHANGED hold
    /\ UNCHANGED <<lockRef, mainVars, clock, faults>>

ReplaceKept(r) ==
    /\ At(r, "replacing")
    /\ \/ PushOk(op[r].item, op[r].seen, op[r].built)
       \/ PushFailed(op[r].item, op[r].seen, op[r].built)
    /\ End(r)
    /\ UNCHANGED <<mainVars, clock>>

-----------------------------------------------------------------------------
(* The clearing verbs: each reads the lock and main, in its own order, and   *)
(* ends with a delete leased on the commit it read.                          *)

StartClear(r, i, s, c) ==
    /\ op[r] = Idle
    /\ lockRef[i] # NoLock
    /\ op' = [op EXCEPT ![r] = [step |-> s, item |-> i,
                                seen |-> c, built |-> NoLock]]
    /\ UNCHANGED <<lockRef, mainVars, hold, clock, faults>>

\* reconcileTerminalItemLocks, run by every claim: list the locks ...
SweepRead(r, i) == StartClear(r, i, "sweepReading", lockRef[i])

\* Mutant: the lock of a terminal item is taken for one in flight.
SweepReadMain_Keep(r) ==
    /\ At(r, "sweepReading")
    /\ Rest(r)
    /\ UNCHANGED <<lockRef, mainVars, hold, clock, faults>>

\* ... then fetch main, and clear the locks of terminal items only.
SweepReadMain(r) ==
    /\ At(r, "sweepReading")
    /\ \/ op[r].item \in done /\ Go(r, "sweepClearing")
       \/ op[r].item \notin done /\ Rest(r)
    /\ UNCHANGED <<lockRef, mainVars, hold, clock, faults>>

\* `gc --ledger --reap-stale-locks`: the report's verdict and the main fetch of
\* the re-classification (the two read main one after the other) ...
ReapReadMain(r, i) ==
    /\ Operators
    /\ i \in done \cup surfaced
    /\ StartClear(r, i, "reapReading", NoLock)

\* ... and only then the lock that will be cleared on that verdict.
ReapReadLock(r) ==
    /\ At(r, "reapReading")
    /\ LET cur == lockRef[op[r].item] IN
       \/ cur = NoLock /\ Rest(r)
       \/ cur # NoLock /\ Carry(r, "reapClearing", cur, NoLock)
    /\ UNCHANGED <<lockRef, mainVars, hold, clock, faults>>

\* resumeItemLock reads the lock first and main second.
ResumeRead(r, i) == Operators /\ StartClear(r, i, "resumeReading", lockRef[i])

ResumeReadMain(r) ==
    /\ At(r, "resumeReading")
    /\ \/ op[r].item \in surfaced \ done /\ Go(r, "resumeClearing")
       \/ op[r].item \notin surfaced \ done /\ Rest(r)
    /\ UNCHANGED <<lockRef, mainVars, hold, clock, faults>>

ClearSteps == {"sweepClearing", "reapClearing", "resumeClearing"}

\* leasedDeleteLockRef: a rejected delete is reported, never forced.
ClearLock(r) ==
    /\ op[r].step \in ClearSteps
    /\ \/ PushOk(op[r].item, op[r].seen, NoLock)
       \/ PushFailed(op[r].item, op[r].seen, NoLock)
    /\ Rest(r)
    /\ UNCHANGED <<mainVars, hold, clock>>

-----------------------------------------------------------------------------
(* The environment *)

\* The process dies: what it held stays on the arbiter.
Crash(r) ==
    /\ op[r] # Idle
    /\ faults < MaxFaults
    /\ faults' = faults + 1
    /\ End(r)
    /\ UNCHANGED <<lockRef, mainVars, clock>>

\* A human merges the pull request, which carries the done-move.
MergePR(i) ==
    /\ i \in openPR
    /\ done' = done \cup {i}
    /\ surfaced' = surfaced \ {i}
    /\ openPR' = openPR \ {i}
    /\ UNCHANGED <<lockRef, op, hold, clock, faults>>

-----------------------------------------------------------------------------
\* The steps a started verb takes by itself, once it is past the agent's work.
VerbStep(r) ==
    \/ CreateLock(r) \/ TakeOverRead(r) \/ TakeOver(r) \/ Confirm(r)
    \/ ReleaseRead(r) \/ DeleteLock(r) \/ MarkRead(r) \/ ReplaceKept(r)
    \/ SweepReadMain(r) \/ ReapReadLock(r) \/ ResumeReadMain(r) \/ ClearLock(r)

\* The ways the agent's work under a lock ends.
Outcome(r) ==
    Land(r) \/ OpenPR(r) \/ Surface(r) \/ ApplyAnswer(r) \/ GiveUp(r)

Start(r, i) ==
    \/ \E a \in Action : StartAcquire(r, i, a)
    \/ StartOperatorRelease(r, i)
    \/ SweepRead(r, i) \/ ReapReadMain(r, i) \/ ResumeRead(r, i)

Next ==
    \/ \E r \in Runner :
        \/ VerbStep(r) \/ Outcome(r) \/ Crash(r)
        \/ \E i \in Item : Start(r, i)
    \/ \E i \in Item : MergePR(i)

Spec == Init /\ [][Next]_vars

-----------------------------------------------------------------------------
(* Fairness.  A started verb runs to its end and an agent's work ends; idle  *)
(* runners keep claiming, and every claim sweeps first.                      *)
Fairness ==
    /\ \A r \in Runner : WF_vars(VerbStep(r)) /\ WF_vars(Outcome(r))
    /\ \A r \in Runner, i \in Item : SF_vars(SweepRead(r, i))

FairSpec == Spec /\ Fairness

-----------------------------------------------------------------------------
(* Properties *)

\* Every variable stays in its set.
TypeOK ==
    /\ lockRef \in [Item -> Commit \cup {NoLock}]
    /\ done \subseteq Item
    /\ surfaced \subseteq Item
    /\ openPR \subseteq Item
    /\ op \in [Runner -> Op]
    /\ hold \in [Runner -> Commit \cup {NoLock}]
    /\ clock \in [Runner -> 0 .. MaxSince]
    /\ faults \in 0 .. MaxFaults

\* The runners that work on an item under a lock, and have not let go of it.
WorkSteps == {"confirming", "holding", "marking", "replacing"}
Working(r, i) == op[r].step \in WorkSteps /\ op[r].item = i

\* Mutual exclusion, the reason for the lock: no two runners ever work on the
\* same unfinished item (item-lock.ts, "implement / task / advance on one item
\* are mutually exclusive").
OneWorker ==
    \A i \in Item \ done : \A q, r \in Runner :
        Working(q, i) /\ Working(r, i) => q = r

\* A hold is real: until its item is terminal, the arbiter's ref is the very
\* commit its holder pushed, whatever others swept, took over or marked in the
\* meantime.  releaseHeldItemLock calls the opposite a VANISHED lock.
HoldIsReal ==
    \A r \in Runner :
        hold[r] # NoLock /\ hold[r].entry \notin done
            => lockRef[hold[r].entry] = hold[r]

\* A leased runner (a CI apply job) never removes or rewrites a lock that is
\* not its own, even when an operator cleared its lock and somebody else
\* acquired the item since (leaseLockReleases, expectedSha).
OwnSteps == {"releasing", "deleting", "marking", "replacing"}
LeasedRunnerSparesOthers ==
    [][\A r \in Leased, i \in Item :
          /\ op[r].step \in OwnSteps /\ op[r].item = i /\ hold[r] # NoLock
          /\ op'[r] # op[r] /\ lockRef'[i] # lockRef[i]
          => lockRef[i] = hold[r]]_vars

\* Locks do not leak: a lock that no runner holds is the kept lock of a proposed
\* build, or the lock of a terminal item (which a claim's sweep clears), unless
\* a process died or a push failed.  Only the orphans of crashes need the
\* operator verbs.
NoLockLeaks ==
    faults = 0 => \A i \in Item \ done :
        lockRef[i] # NoLock => Kept(lockRef[i]) \/ \E r \in Runner : hold[r] = lockRef[i]

\* The lock of a terminal item goes away in the end, whoever crashed between
\* the durable move and the release, or never released a propose-kept lock.
TerminalLocksDrain ==
    \A i \in Item : i \in done ~> lockRef[i] = NoLock

\* The arbiter's refs implement the abstract register.
Register == INSTANCE LockRegister WITH LockCommit <- Commit, ref <- lockRef
ImplementsRegister == Register!Spec
=============================================================================
