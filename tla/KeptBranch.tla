----------------------------- MODULE KeptBranch -----------------------------
(***************************************************************************)
(* The kept work branch of one task: how a build that did not land is      *)
(* continued by the next claim, on the same machine or on another one.     *)
(*                                                                         *)
(* A build runs in a job worktree (`do --remote`, `do --isolated`, `run`). *)
(* The worktree belongs to a bare mirror of the arbiter that the machine   *)
(* keeps, its branch IS the mirror's local head, and its path depends only *)
(* on the task: a crash leaves it behind and the next claim on that        *)
(* machine finds it.  Nothing but git refs tells machines of each other:   *)
(*   - the arbiter has the work branch and the lock of the task;           *)
(*   - a mirror has a local head, which a fetch updates unless a worktree  *)
(*     has the branch checked out;                                         *)
(*   - a worktree has files that no commit has.                            *)
(* What is built is a set of pieces, one for each time an agent worked.    *)
(* A commit is the main it is based on, the line it is in (a rebase starts *)
(* a new one) and its pieces: it is an ancestor of the commits of its line *)
(* that have its pieces.                                                   *)
(*                                                                         *)
(* The steps of a run are coarser than its git commands, since at most one *)
(* run of the task is alive and only people, who are told that the run is  *)
(* dead, take a held lock away.  In-place runs and the CI jobs, which have *)
(* no mirror, are not here, nor are proposals, the retries of a plain      *)
(* push, and what a landing does after main has it (module Integration).   *)
(***************************************************************************)
EXTENDS Naturals

CONSTANTS
    Machine,    \* machines, each with a mirror and one worktree path for the task
    NoTip,      \* no commit
    Line,       \* names of lines of commits, more than there are commits in use
    Main,       \* the line of the commits made on main, and not rebased
    MaxPieces,  \* how often an agent works
    MaxMoves,   \* how often others move main
    MaxFaults   \* crashes, and calls to the arbiter that fail

ASSUME ConstantsAssumption == {MaxPieces, MaxMoves, MaxFaults} \subseteq Nat

Piece == 1 .. MaxPieces

Tip == [base : Nat, line : Line \cup {Main}, work : SUBSET Piece]

ASSUME TipAssumption == NoTip \notin Tip /\ Line # {} /\ Main \notin Line

VARIABLES
    version,    \* the commit main is at
    landed,     \* the pieces that main has
    branch,     \* the arbiter's work branch
    lock,       \* the task: free to be claimed, held by a run or by what is left of
                \* one, or stuck, which is to wait for an answer with or without its lock
    pc,         \* where the run on a machine is
    head,       \* the local head of the mirror, which is the HEAD of the worktree
    tree,       \* the worktree: is it there, and which pieces are not committed
    blind,      \* did the run's fetch leave the local head as it was?
    lease,      \* the commit that the run's continue push expects on the arbiter
    made,       \* how many pieces exist
    dropped,    \* the pieces a person has discarded
    faults      \* the faults that happened

arbiter == <<version, landed, branch, lock>>
local == <<pc, head, tree, blind, lease>>
vars == <<arbiter, local, made, dropped, faults>>

-----------------------------------------------------------------------------
(* Commits and worktrees. *)

Work(tip) == IF tip = NoTip THEN {} ELSE tip.work

\* Mutant: the push is forced.
FastForward_Forced(from, to) == TRUE

\* What a plain push accepts: the branch is absent, or an ancestor of the commit.
FastForward(from, to) ==
    from # NoTip =>
        from.line = to.line /\ from.base = to.base /\ from.work \subseteq to.work

LinesInUse ==
    {tip.line : tip \in ({branch} \cup {head[m] : m \in Machine}
                            \cup {lease[m] : m \in Machine}) \ {NoTip}}

NewLine == CHOOSE line \in Line : line \notin LinesInUse \/ Line \subseteq LinesInUse

\* A rebase of a commit onto main: the commit itself if it is there already.
Rebased(tip) ==
    IF tip.base = version
    THEN tip
    ELSE [base |-> version, line |-> NewLine, work |-> tip.work]

NoTree == [there |-> FALSE, dirty |-> {}]
CleanTree == [there |-> TRUE, dirty |-> {}]

\* The commit of a worktree is on main, or is the tip of the arbiter's branch.
Reachable(m) == Work(head[m]) \subseteq landed \/ head[m] = branch

\* Mutant: a clean worktree is taken for a saved one.
Safe_Clean(m) == tree[m].dirty = {}

Safe(m) == tree[m].dirty = {} /\ Reachable(m)

\* Mutant: git forgets the worktree, and its files stay.
RemoveTree_Files(m) ==
    /\ tree' = [tree EXCEPT ![m].there = FALSE]
    /\ head' = [head EXCEPT ![m] = NoTip]

\* The worktree and its local head go together.
RemoveTree(m) ==
    /\ tree' = [tree EXCEPT ![m] = NoTree]
    /\ head' = [head EXCEPT ![m] = NoTip]

\* The teardown of a run that returned, and the one after a failed preparation:
\* only the commit is looked at, not the files.
ReapIfReachable(m) ==
    IF tree[m].there /\ Reachable(m)
    THEN RemoveTree(m)
    ELSE UNCHANGED <<tree, head>>

\* Everything in the worktree, as a commit.
Committed(m) == [head[m] EXCEPT !.work = @ \cup tree[m].dirty]

-----------------------------------------------------------------------------
(* Which runs there are. *)

Alive == \E m \in Machine : pc[m] # "idle"
Landed == landed # {}

Goto(m, label) == pc' = [pc EXCEPT ![m] = label]

\* The onboarding is over: what it remembered is of no use any more.
Leave(m, label) ==
    /\ Goto(m, label)
    /\ blind' = [blind EXCEPT ![m] = FALSE]
    /\ lease' = [lease EXCEPT ![m] = NoTip]

Fault ==
    /\ faults < MaxFaults
    /\ faults' = faults + 1

-----------------------------------------------------------------------------
(* A run, from its claim to its agent. *)

Claim(m) ==
    /\ lock = "free"
    /\ ~Landed
    /\ ~Alive
    /\ lock' = "held"
    /\ Goto(m, "fetch")
    /\ UNCHANGED <<version, landed, branch, head, tree, blind, lease, made, dropped, faults>>

\* The fetch of all heads is refused as a whole while a worktree of the mirror has
\* one of them checked out: the one an earlier run of this task left, or another
\* task's.  The latter and a fetch that fails count as a fault.
Fetch(m) ==
    /\ pc[m] = "fetch"
    /\ \/ /\ tree[m].there
          /\ blind' = [blind EXCEPT ![m] = TRUE]
          /\ UNCHANGED <<head, faults>>
       \/ /\ ~tree[m].there
          /\ blind' = [blind EXCEPT ![m] = FALSE]
          /\ head' = IF branch = NoTip THEN head ELSE [head EXCEPT ![m] = branch]
          /\ UNCHANGED faults
       \/ /\ ~tree[m].there
          /\ Fault
          /\ blind' = [blind EXCEPT ![m] = TRUE]
          /\ UNCHANGED head
    /\ Goto(m, "cut")
    /\ UNCHANGED <<arbiter, tree, lease, made, dropped>>

\* The arbiter does not answer the fetch of main: the run ends, its lock stays held,
\* and what looks like a leaked worktree is reaped.
FetchFails(m) ==
    /\ pc[m] = "fetch"
    /\ Fault
    /\ ReapIfReachable(m)
    /\ Leave(m, "idle")
    /\ UNCHANGED <<arbiter, made, dropped>>

\* The arbiter says whether there is a branch, the local head whether it has work.
Continues(m) == branch # NoTip /\ head[m] # NoTip /\ head[m].work # {}

\* The worktree is cut from the local head; whatever was at its path is removed.
\* The head is rebased, or the rebase conflicts.
CutFromKept(m) ==
    /\ pc[m] = "cut"
    /\ Continues(m)
    /\ tree' = [tree EXCEPT ![m] = CleanTree]
    /\ \/ /\ head' = [head EXCEPT ![m] = Rebased(head[m])]
          /\ lease' = [lease EXCEPT ![m] = head[m]]
          /\ Goto(m, "publish")
          /\ UNCHANGED blind
       \/ /\ head[m].base # version
          /\ Leave(m, "bounce")
          /\ UNCHANGED head
    /\ UNCHANGED <<arbiter, made, dropped, faults>>

CutFresh(m) ==
    /\ pc[m] = "cut"
    /\ ~Continues(m)
    /\ tree[m].there => Safe(m)
    /\ tree' = [tree EXCEPT ![m] = CleanTree]
    /\ head' = [head EXCEPT ![m] = [base |-> version, line |-> Main, work |-> {}]]
    /\ Leave(m, "start")
    /\ UNCHANGED <<arbiter, made, dropped, faults>>

\* A fresh worktree never replaces one that has work the arbiter lacks.
RefuseToClear(m) ==
    /\ pc[m] = "cut"
    /\ ~Continues(m)
    /\ tree[m].there /\ ~Safe(m)
    /\ Leave(m, "idle")
    /\ UNCHANGED <<arbiter, head, tree, made, dropped, faults>>

\* The leased push of the rebased head.
Publish(m) ==
    /\ pc[m] = "publish"
    /\ branch = lease[m]
    /\ branch' = head[m]
    /\ Leave(m, "start")
    /\ UNCHANGED <<version, landed, lock, head, tree, made, dropped, faults>>

\* The push is rejected as stale: look at the arbiter's branch, rebase the local
\* head onto the current main, and push it again, now expecting what is there.
LeaseAgain(m) ==
    /\ pc[m] = "publish"
    /\ branch \notin {NoTip, lease[m]}
    /\ \/ /\ head' = [head EXCEPT ![m] = Rebased(head[m])]
          /\ lease' = [lease EXCEPT ![m] = branch]
          /\ UNCHANGED <<pc, blind>>
       \/ /\ head[m].base # version
          /\ Leave(m, "bounce")
          /\ UNCHANGED head
    /\ UNCHANGED <<arbiter, tree, made, dropped, faults>>

\* Any other failure of the push is bounced.
PublishFails(m) ==
    /\ pc[m] = "publish"
    /\ Fault
    /\ Leave(m, "bounce")
    /\ UNCHANGED <<arbiter, head, tree, made, dropped>>

\* Every build then looks at the arbiter once more, by its tracking ref, and moves
\* its worktree to the branch that is there.  A build that is offline goes on with
\* the rebased branch it could not push.
Start(m) ==
    /\ pc[m] = "start"
    /\ Goto(m, "agent")
    /\ \/ /\ branch = NoTip
          /\ UNCHANGED <<branch, head, faults>>
       \/ /\ branch # NoTip
          /\ head' = [head EXCEPT ![m] = Rebased(branch)]
          /\ \/ branch' = Rebased(branch) /\ UNCHANGED faults
             \/ UNCHANGED branch /\ Fault
    /\ UNCHANGED <<version, landed, lock, tree, blind, lease, made, dropped>>

\* The rebase conflicts: the task is stuck, and nothing is saved.
StartConflicts(m) ==
    /\ pc[m] = "start"
    /\ branch # NoTip
    /\ branch.base # version
    /\ head' = [head EXCEPT ![m] = branch]
    /\ lock' = "stuck"
    /\ Goto(m, "end")
    /\ UNCHANGED <<version, landed, branch, tree, blind, lease, made, dropped, faults>>

\* The agent works, with files in the worktree and in no commit, or changes nothing.
Agent(m) ==
    /\ pc[m] = "agent"
    /\ \/ /\ made < MaxPieces
          /\ made' = made + 1
          /\ tree' = [tree EXCEPT ![m].dirty = @ \cup {made + 1}]
       \/ UNCHANGED <<made, tree>>
    /\ Goto(m, "built")
    /\ UNCHANGED <<arbiter, head, blind, lease, dropped, faults>>

-----------------------------------------------------------------------------
(* How a run ends. *)

\* Everything is committed and pushed, not forced; a push that fails or is refused
\* leaves the commit in the worktree.
SaveWork(m) ==
    LET tip == Committed(m) IN
    /\ head' = [head EXCEPT ![m] = tip]
    /\ tree' = [tree EXCEPT ![m].dirty = {}]
    /\ \/ /\ FastForward(branch, tip) /\ tip.work # {}
          /\ branch' = tip
          /\ UNCHANGED faults
       \/ /\ ~FastForward(branch, tip) \/ tip.work = {}
          /\ UNCHANGED <<branch, faults>>
       \/ /\ Fault
          /\ UNCHANGED branch

\* A failed or stopped agent, a red gate, a blocked review, a conflict.
Bounce(m) ==
    /\ pc[m] \in {"built", "bounce"}
    /\ SaveWork(m)
    /\ lock' = "stuck"
    /\ Goto(m, "end")
    /\ UNCHANGED <<version, landed, blind, lease, made, dropped>>

\* The deadline: whether or not the push went through, the lock is released for
\* the next claim to continue, unless there were too many checkpoints.
Checkpoint(m) ==
    /\ pc[m] = "built"
    /\ SaveWork(m)
    /\ lock' \in {"free", "stuck"}
    /\ Goto(m, "end")
    /\ UNCHANGED <<version, landed, blind, lease, made, dropped>>

\* The completion fails before its commit (a gate that cannot run, a review or a
\* hook that throws), or the agent changed nothing: nothing is saved, and the lock is stuck or stays held.
EndUnsaved(m) ==
    /\ pc[m] = "built"
    /\ lock' \in {"held", "stuck"}
    /\ Goto(m, "end")
    /\ UNCHANGED <<version, landed, branch, head, tree, blind, lease, made, dropped, faults>>

\* The completion commits, and fails before anything is pushed.
EndCommitted(m) ==
    /\ pc[m] = "built"
    /\ Committed(m).work # {}
    /\ head' = [head EXCEPT ![m] = Committed(m)]
    /\ tree' = [tree EXCEPT ![m].dirty = {}]
    /\ lock' \in {"held", "stuck"}
    /\ Goto(m, "end")
    /\ UNCHANGED <<version, landed, branch, blind, lease, made, dropped, faults>>

\* A build without any change against main is a stop, and does not land.
Land(m) ==
    /\ pc[m] = "built"
    /\ Committed(m).work # {}
    /\ head' = [head EXCEPT ![m] = Committed(m)]
    /\ tree' = [tree EXCEPT ![m].dirty = {}]
    /\ landed' = Committed(m).work
    /\ version' = version + 1
    /\ lock' = "free"
    /\ Goto(m, "end")
    /\ UNCHANGED <<branch, blind, lease, made, dropped, faults>>

Teardown(m) ==
    /\ pc[m] = "end"
    /\ ReapIfReachable(m)
    /\ Goto(m, "idle")
    /\ UNCHANGED <<arbiter, blind, lease, made, dropped, faults>>

\* The machine or the process dies; what is on disk stays.
Crash(m) ==
    /\ pc[m] # "idle"
    /\ Fault
    /\ Leave(m, "idle")
    /\ UNCHANGED <<arbiter, head, tree, made, dropped>>

-----------------------------------------------------------------------------
(* People, when no run is alive. *)

\* The work a dead run left in its worktree is saved before anything else.
SaveCrashedRun(m) ==
    /\ tree[m].there /\ ~Safe(m)
    /\ SaveWork(m)

\* `--reconcile`: the arbiter's branch is rebased, or has nothing to rebase.
Reconcile == branch' \in {branch} \cup {Rebased(tip) : tip \in {branch} \ {NoTip}}

\* `requeue` on a machine.  What a dead run left there and cannot be saved keeps the
\* lock.
Requeue(m) ==
    /\ lock # "free"
    /\ ~Alive
    /\ ~Landed
    /\ \/ /\ SaveCrashedRun(m)
          /\ lock' = IF branch' = head'[m] THEN "free" ELSE lock
       \/ /\ ~tree[m].there \/ Safe(m)
          /\ Reconcile
          /\ lock' = "free"
          /\ UNCHANGED <<faults, head, tree>>
    /\ UNCHANGED <<version, landed, pc, blind, lease, made, dropped>>

\* `requeue --reset`, its first push: the branch is gone, the lock is still there
\* (or taken for this).  The second is ReleaseLock.
DropBranch ==
    /\ branch # NoTip
    /\ ~Alive
    /\ ~Landed
    /\ branch' = NoTip
    /\ dropped' = dropped \cup branch.work
    /\ lock' = IF lock = "free" THEN "held" ELSE lock
    /\ UNCHANGED <<version, landed, local, made, faults>>

\* `release-lock`, an answered question, the end of a requeue elsewhere.
ReleaseLock ==
    /\ lock # "free"
    /\ ~Alive
    /\ lock' = "free"
    /\ UNCHANGED <<version, landed, branch, local, made, dropped, faults>>

\* `gc` on a machine where no run is alive.
Gc(m) ==
    /\ pc[m] = "idle"
    /\ tree[m].there
    /\ Safe(m)
    /\ RemoveTree(m)
    /\ UNCHANGED <<arbiter, pc, blind, lease, made, dropped, faults>>

\* Others push to main.
MainMoves ==
    /\ version < MaxMoves
    /\ version' = version + 1
    /\ UNCHANGED <<landed, branch, lock, local, made, dropped, faults>>

-----------------------------------------------------------------------------
(* The specification. *)

Init ==
    /\ version = 0
    /\ landed = {}
    /\ branch = NoTip
    /\ lock = "free"
    /\ pc = [m \in Machine |-> "idle"]
    /\ head = [m \in Machine |-> NoTip]
    /\ tree = [m \in Machine |-> NoTree]
    /\ blind = [m \in Machine |-> FALSE]
    /\ lease = [m \in Machine |-> NoTip]
    /\ made = 0
    /\ dropped = {}
    /\ faults = 0

Onboard(m) ==
    \/ Claim(m) \/ Fetch(m) \/ FetchFails(m)
    \/ CutFromKept(m) \/ CutFresh(m) \/ RefuseToClear(m)
    \/ Publish(m) \/ LeaseAgain(m) \/ PublishFails(m)
    \/ Start(m) \/ StartConflicts(m)

Finish(m) ==
    \/ Agent(m) \/ Bounce(m) \/ Checkpoint(m) \/ EndUnsaved(m) \/ EndCommitted(m)
    \/ Land(m) \/ Teardown(m) \/ Crash(m)

Next ==
    \/ \E m \in Machine : Onboard(m) \/ Finish(m) \/ Requeue(m) \/ Gc(m)
    \/ DropBranch \/ ReleaseLock \/ MainMoves

Spec == Init /\ [][Next]_vars

-----------------------------------------------------------------------------
(* Properties. *)

Label == {"idle", "fetch", "cut", "publish", "start", "agent", "built", "bounce", "end"}

\* The variables have their types.
TypeOK ==
    /\ version \in Nat
    /\ landed \subseteq Piece
    /\ branch \in Tip \cup {NoTip}
    /\ lock \in {"free", "held", "stuck"}
    /\ pc \in [Machine -> Label]
    /\ head \in [Machine -> Tip \cup {NoTip}]
    /\ tree \in [Machine -> {NoTree} \cup [there : {TRUE}, dirty : SUBSET Piece]]
    /\ blind \in [Machine -> BOOLEAN]
    /\ lease \in [Machine -> Tip \cup {NoTip}]
    /\ made \in 0 .. MaxPieces
    /\ dropped \subseteq Piece
    /\ faults \in 0 .. MaxFaults

\* What the arbiter or a person's decision accounts for.
Kept == Work(branch) \cup landed \cup dropped

\* Work that was saved on the arbiter stays there until it lands or a person
\* discards it: a continued branch replaces the one that was kept, with its work.
SavedWorkStays == [][Work(branch) \subseteq Kept']_vars

\* Saved work is replaced only by a machine whose fetch left its local head as it
\* was: a run that fetched the branch it continues never pushes over anybody's work,
\* whatever was rebased, checkpointed, requeued or crashed before.
OnlyAStaleMirrorOverwrites ==
    [][\/ Work(branch) \subseteq Kept'
       \/ \E m \in Machine : pc[m] = "publish" /\ blind[m]]_vars

\* What a worktree has committed and the arbiter lacks is not dropped: not by the
\* next claim at its path, by its fetch, by a teardown, or by gc.
CommittedWorkStays ==
    [][\A m \in Machine :
          tree[m].there => Work(head[m]) \subseteq Work(head'[m]) \cup Kept \cup Kept']_vars
=============================================================================
