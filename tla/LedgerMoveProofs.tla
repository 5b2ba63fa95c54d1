-------------------------- MODULE LedgerMoveProofs --------------------------
(***************************************************************************)
(* Theorems about the moves: what is pushed was planned on the very main it *)
(* replaces, so every move is one atomic step of the abstract ledger.       *)
(***************************************************************************)
EXTENDS LedgerMove, TLAPS

LP == INSTANCE LedgerProofs

-----------------------------------------------------------------------------
(* The inductive invariant *)

\* The steps in which a surface has its item's path.
Under == {"planning", "pushing", "confirming", "outraced", "failed", "retrying"}

\* A main that was fetched is an older main, or this one.
BaseOK(m) ==
    /\ base[m].version \in Nat
    /\ base[m].version <= version
    /\ base[m].version = version => base[m].tree = tree

\* What is about to be pushed was planned, and could be.
PlanOK(m) ==
    At(m, "pushing") =>
        /\ ~AlreadyDone(m, base[m].tree)
        /\ ~CannotMove(m, base[m].tree)

PathOK(m) ==
    /\ Kind[m] = "surface" /\ pc[m] \in Under => path[m] \in Live
    /\ At(m, "locking") => Kind[m] = "promote"

MInv ==
    /\ version \in Nat
    /\ pc \in [Mover -> Step]
    /\ DOMAIN base = Mover /\ DOMAIN path = Mover
    /\ \A m \in Mover : BaseOK(m) /\ PlanOK(m) /\ PathOK(m)

\* What a step may do to main.
MainStep == UNCHANGED main \/ version' = version + 1

\* A mover that does nothing keeps its part of the invariant.
LEMMA Frame ==
    ASSUME MInv, MainStep, NEW x \in Mover,
           pc'[x] = pc[x], base'[x] = base[x], path'[x] = path[x]
    PROVE  BaseOK(x)' /\ PlanOK(x)' /\ PathOK(x)'
<1>1. BaseOK(x) /\ PlanOK(x) /\ PathOK(x) /\ version \in Nat
      BY DEF MInv
<1>2. BaseOK(x)'
      BY <1>1 DEF BaseOK, MainStep, main
<1>3. PlanOK(x)'
      BY <1>1 DEF PlanOK, At, AlreadyDone, CannotMove
<1>4. PathOK(x)'
      BY <1>1 DEF PathOK, At
<1> QED BY <1>2, <1>3, <1>4

\* It is enough to look at the mover that moves.
LEMMA OneMoves ==
    ASSUME MInv, MainStep, NEW m \in Mover, NEW s \in Step,
           pc' = [pc EXCEPT ![m] = s],
           \/ base' = base
           \/ base' = [base EXCEPT ![m] = Here] /\ UNCHANGED main,
           DOMAIN path' = DOMAIN path,
           \A x \in Mover \ {m} : path'[x] = path[x],
           PlanOK(m)', PathOK(m)'
    PROVE  MInv'
<1>1. /\ version \in Nat /\ DOMAIN base = Mover /\ DOMAIN path = Mover
      /\ pc \in [Mover -> Step] /\ BaseOK(m)
      BY DEF MInv
<1>2. /\ version' \in Nat /\ DOMAIN base' = Mover /\ DOMAIN path' = Mover
      /\ pc' \in [Mover -> Step]
      BY <1>1 DEF MainStep, main
<1>3. BaseOK(m)'
  <2>1. CASE base' = base
        BY <1>1, <2>1 DEF BaseOK, MainStep, main
  <2>2. CASE base' = [base EXCEPT ![m] = Here] /\ UNCHANGED main
    <3>1. base'[m] = Here
          BY <1>1, <2>2
    <3> QED BY <1>1, <2>2, <3>1 DEF BaseOK, Here, main
  <2> QED BY <2>1, <2>2
<1>4. ASSUME NEW x \in Mover, x # m
      PROVE  BaseOK(x)' /\ PlanOK(x)' /\ PathOK(x)'
  <2>1. pc'[x] = pc[x] /\ base'[x] = base[x] /\ path'[x] = path[x]
        BY <1>1, <1>4
  <2> QED BY <2>1, Frame
<1> QED BY <1>2, <1>3, <1>4 DEF MInv

\* The others move nobody.
LEMMA NobodyMoves ==
    ASSUME MInv, MainStep, UNCHANGED <<pc, base, path>>
    PROVE  MInv'
<1>1. \A x \in Mover : BaseOK(x)' /\ PlanOK(x)' /\ PathOK(x)'
      BY Frame
<1>2. version' \in Nat
      BY DEF MInv, MainStep, main
<1> QED BY <1>1, <1>2 DEF MInv

-----------------------------------------------------------------------------
(* Every step keeps it *)

LEMMA StartSurfaceInv ==
    ASSUME MInv, NEW m \in Mover, StartSurface(m) PROVE MInv'
<1> DEFINE folder == base'[m].tree[For[m]].folder
<1>1. /\ UNCHANGED main /\ m \in DOMAIN pc /\ m \in DOMAIN path
      /\ base' = base \/ base' = [base EXCEPT ![m] = Here]
      /\ path' = [path EXCEPT ![m] = folder]
      BY DEF StartSurface, MInv, Refresh, Fetch
<1>2. PICK s \in {"planning", "finishing"} :
            pc' = [pc EXCEPT ![m] = s] /\ (s = "planning" => folder \in Live)
      BY DEF StartSurface, Go, Finish
<1>3. path'[m] = folder /\ pc'[m] = s
      BY <1>1, <1>2
<1>4. PlanOK(m)' /\ PathOK(m)'
      BY <1>2, <1>3 DEF PlanOK, PathOK, At, Under
<1>5. DOMAIN path' = DOMAIN path /\ \A x \in Mover \ {m} : path'[x] = path[x]
      BY <1>1
<1>6. s \in Step
      BY DEF Step
<1> QED BY <1>1, <1>2, <1>4, <1>5, <1>6, OneMoves DEF MainStep

\* A step that goes to s and neither finds a path nor begins a push.
LEMMA Goes ==
    ASSUME MInv, MainStep, NEW m \in Mover, NEW s \in Step \ {"pushing", "locking"},
           pc' = [pc EXCEPT ![m] = s],
           \/ base' = base
           \/ base' = [base EXCEPT ![m] = Here] /\ UNCHANGED main,
           UNCHANGED path,
           s \in Under => pc[m] \in Under \/ Kind[m] # "surface"
    PROVE  MInv'
<1>1. pc'[m] = s /\ path'[m] = path[m]
      BY DEF MInv
<1>2. PlanOK(m)'
      BY <1>1 DEF PlanOK, At
<1>3. PathOK(m)'
      BY <1>1 DEF PathOK, At, MInv
<1> QED BY <1>2, <1>3, OneMoves

\* The other moves begin.
LEMMA StartInv ==
    ASSUME MInv, NEW m \in Mover,
           StartPromote(m) \/ StartNote(m) \/ StartCreate(m) \/ StartDrain(m)
    PROVE  MInv'
<1>1. /\ UNCHANGED main /\ UNCHANGED path /\ Kind[m] # "surface"
      /\ base' = base \/ base' = [base EXCEPT ![m] = Here]
      BY DEF StartPromote, StartNote, StartCreate, StartDrain, Refresh, Fetch
<1>2. CASE StartPromote(m)
  <2>1. pc' = [pc EXCEPT ![m] = "locking"] /\ Kind[m] = "promote"
        BY <1>2 DEF StartPromote, Go
  <2>2. pc'[m] = "locking" /\ "locking" \in Step
        BY <2>1 DEF MInv, Step
  <2>3. PlanOK(m)' /\ PathOK(m)'
        BY <2>1, <2>2 DEF PlanOK, PathOK, At, Under
  <2> QED BY <1>1, <2>1, <2>2, <2>3, OneMoves DEF MainStep
<1>3. CASE StartNote(m) \/ StartCreate(m) \/ StartDrain(m)
  <2>1. PICK s \in {"planning", "finishing"} : pc' = [pc EXCEPT ![m] = s]
        BY <1>3 DEF StartNote, StartCreate, StartDrain, Go, Finish
  <2>2. s \in Step \ {"pushing", "locking"}
        BY DEF Step
  <2> QED BY <1>1, <2>1, <2>2, Goes DEF MainStep
<1> QED BY <1>2, <1>3

\* Planning.
LEMMA PlanInv ==
    ASSUME MInv, NEW m \in Mover, Plan(m)
    PROVE  MInv'
<1>1. UNCHANGED <<main, base, path>> /\ pc[m] = "planning"
      BY DEF Plan, At
<1>2. CASE pc' = [pc EXCEPT ![m] = "finishing"]
      BY <1>1, <1>2, Goes DEF MainStep, Step, Under
<1>3. CASE /\ pc' = [pc EXCEPT ![m] = "pushing"]
           /\ ~AlreadyDone(m, base[m].tree) /\ ~CannotMove(m, base[m].tree)
  <2>1. pc'[m] = "pushing"
        BY <1>3 DEF MInv
  <2>2. PlanOK(m)'
        BY <1>1, <1>3 DEF PlanOK, AlreadyDone, CannotMove
  <2>3. PathOK(m)'
        BY <1>1, <2>1 DEF PathOK, At, Under, MInv
  <2>4. "pushing" \in Step
        BY DEF Step
  <2> QED BY <1>1, <1>3, <2>2, <2>3, <2>4, OneMoves DEF MainStep
<1> QED BY <1>2, <1>3 DEF Plan, Go, Finish

\* The rest of an attempt, and what comes after it.
LEMMA MoverInv ==
    ASSUME MInv, NEW m \in Mover,
           LockForPromote(m) \/ Push(m) \/ Confirm(m) \/ Classify(m) \/ Retry(m)
           \/ Conclude(m) \/ Crash(m)
    PROVE  MInv'
<1>1. UNCHANGED path
      BY DEF LockForPromote, Push, Confirm, Classify, Retry, Conclude, Crash
<1>2. CASE LockForPromote(m)
  <2>1. UNCHANGED <<main, base>> /\ Kind[m] # "surface"
        BY <1>2 DEF LockForPromote, MInv, PathOK
  <2>2. PICK s \in {"planning", "finishing", "over"} : pc' = [pc EXCEPT ![m] = s]
        BY <1>2 DEF LockForPromote, Go, Finish
  <2>3. s \in Step \ {"pushing", "locking"}
        BY DEF Step
  <2> QED BY <1>1, <2>1, <2>2, <2>3, Goes DEF MainStep
<1>3. CASE Push(m)
  <2>1. base' = base /\ MainStep /\ pc[m] \in Under
        BY <1>3 DEF Push, Publish, MainStep, main, At, Under
  <2>2. PICK s \in {"confirming", "failed", "outraced"} : pc' = [pc EXCEPT ![m] = s]
        BY <1>3 DEF Push, Go
  <2>3. s \in Step \ {"pushing", "locking"}
        BY DEF Step
  <2> QED BY <1>1, <2>1, <2>2, <2>3, Goes
<1>4. CASE Confirm(m) \/ Classify(m)
  <2>1. UNCHANGED <<main, base>> /\ pc[m] \in Under
        BY <1>4 DEF Confirm, Classify, At, Under
  <2>2. PICK s \in {"retrying", "finishing"} : pc' = [pc EXCEPT ![m] = s]
        BY <1>4 DEF Confirm, Classify, Rejected, Refused, Go, Finish
  <2>3. s \in Step \ {"pushing", "locking"}
        BY DEF Step
  <2> QED BY <1>1, <2>1, <2>2, <2>3, Goes DEF MainStep
<1>5. CASE Retry(m)
  <2>1. /\ UNCHANGED main /\ pc[m] \in Under
        /\ base' = base \/ base' = [base EXCEPT ![m] = Here]
        BY <1>5 DEF Retry, Fetch, At, Under
  <2>2. PICK s \in {"planning", "finishing"} : pc' = [pc EXCEPT ![m] = s]
        BY <1>5 DEF Retry, Go, Finish
  <2>3. s \in Step \ {"pushing", "locking"}
        BY DEF Step
  <2> QED BY <1>1, <2>1, <2>2, <2>3, Goes DEF MainStep
<1>6. CASE Conclude(m) \/ Crash(m)
  <2>1. UNCHANGED <<main, base>> /\ pc' = [pc EXCEPT ![m] = "over"]
        BY <1>6 DEF Conclude, Crash, Go
  <2>2. "over" \in Step \ {"pushing", "locking"} /\ "over" \notin Under
        BY DEF Step, Under
  <2> QED BY <1>1, <2>1, <2>2, Goes DEF MainStep
<1> QED BY <1>2, <1>3, <1>4, <1>5, <1>6

\* The others.
LEMMA OthersInv ==
    ASSUME MInv, NEW i \in Item, Claim(i) \/ Land(i) \/ Answer(i) \/ Apply(i)
    PROVE  MInv'
<1>1. UNCHANGED <<pc, base, path>> /\ MainStep
      BY DEF Claim, Land, Answer, Apply, Commit, MainStep, main
<1> QED BY <1>1, NobodyMoves

\* The invariant is inductive.
LEMMA Inductive == Spec => []MInv
<1>1. Init => MInv
      BY DEF Init, MInv, BaseOK, PlanOK, PathOK, At, Here, Under, Step
<1>2. MInv /\ [Next]_vars => MInv'
  <2> SUFFICES ASSUME MInv, [Next]_vars PROVE MInv'
      OBVIOUS
  <2>1. CASE UNCHANGED vars
    <3>1. UNCHANGED <<pc, base, path>> /\ MainStep
          BY <2>1 DEF vars, main, MainStep
    <3> QED BY <3>1, NobodyMoves
  <2>2. ASSUME NEW m \in Mover, Begin(m) \/ MoverStep(m) \/ Crash(m)
        PROVE  MInv'
        BY <2>2, StartSurfaceInv, StartInv, PlanInv, MoverInv DEF Begin, MoverStep
  <2>3. ASSUME NEW i \in Item, Claim(i) \/ Land(i) \/ Answer(i) \/ Apply(i)
        PROVE  MInv'
        BY <2>3, OthersInv
  <2> QED BY <2>1, <2>2, <2>3 DEF Next
<1> QED BY <1>1, <1>2, PTL DEF Spec

-----------------------------------------------------------------------------
(* The refinement *)

\* The abstract ledger's operators are the ones the moves are made of.
LEMMA SameFiles ==
    /\ L!Live = Live /\ L!Pool = Pool /\ L!Folder = Folder /\ L!Tree = Tree
    /\ \A f : L!Quiet(f) = Quiet(f)
    /\ \A f : L!Answered(f) = Answered(f)
    /\ \A f : L!AllAnswered(f) = AllAnswered(f)
    /\ \A f, r : L!Pending(f, r) = Pending(f, r)
    /\ \A f, r : L!AlreadySurfaced(f, r) = AlreadySurfaced(f, r)
    BY DEF L!Live, Live, L!Pool, Pool, L!Folder, Folder, L!Terminal, Terminal,
        L!Tree, Tree, L!File, File, L!Entry, Entry, L!Quiet, Quiet,
        L!Answered, Answered, L!AllAnswered, AllAnswered, L!Pending, Pending,
        L!AlreadySurfaced, AlreadySurfaced

LEMMA SameMoves ==
    /\ \A t, i, f : L!Put(t, i, f) = Put(t, i, f)
    /\ \A f, r : L!Surfaced(f, r) = Surfaced(f, r)
    /\ \A f : L!Promoted(f) = Promoted(f)
    /\ \A f, m : L!Noted(f, m) = Noted(f, m)
    /\ \A t, i, s, m : L!Minted(t, i, s, m) = Minted(t, i, s, m)
    /\ \A f : L!Drained(f) = Drained(f)
    /\ \A f : L!Folded(f) = Folded(f)
    /\ \A f : L!Merged(f) = Merged(f)
    /\ \A f, k : L!WithAnswer(f, k) = WithAnswer(f, k)
    /\ \A f : L!Resolved(f) = Resolved(f)
    /\ \A f : L!Disposed(f) = Disposed(f)
    BY DEF L!Put, Put, L!Surfaced, Surfaced, L!Promoted, Promoted, L!Noted, Noted,
        L!Minted, Minted, L!CreatedBy, CreatedBy, L!Removed, Removed,
        L!Drained, Drained, L!Drainable, Drainable, L!StaleFlag, StaleFlag,
        L!Terminal, Terminal, L!Answered, Answered, L!Folded, Folded,
        L!Merged, Merged, L!WithAnswer, WithAnswer, L!Resolved, Resolved,
        L!Disposed, Disposed, L!Refiled, Refiled

\* What is pushed on the main it was planned on is the move itself.
LEMMA PublishRefines ==
    ASSUME MInv, NEW m \in Mover, At(m, "pushing"), Publish(m)
    PROVE  L!Next
<1> DEFINE i == For[m]
<1>1. /\ base[m].tree = tree /\ tree' = Planned(m, tree)
      /\ ~AlreadyDone(m, tree) /\ ~CannotMove(m, tree)
      /\ PathOK(m)
      BY DEF Publish, Leased, MInv, BaseOK, PlanOK
<1>2. i \in Item /\ Kind[m] \in Kinds /\ Why[m] \in Reason /\ Source[m] \in Item
      BY ConstantsAssumption
<1>3. CASE Kind[m] = "surface"
  <2>1. tree[i].folder \in Live
        BY <1>1, <1>3 DEF PathOK, At, Under, CannotMove
  <2>2. ~AlreadySurfaced(tree[i], Why[m])
        BY <1>1, <1>3, <2>1 DEF AlreadyDone, CannotMove
  <2>3. tree' = Put(tree, i, Surfaced(tree[i], Why[m]))
        BY <1>1, <1>3 DEF Planned
  <2>4. L!Surface(i, Why[m])
        BY <2>1, <2>2, <2>3, SameFiles, SameMoves DEF L!Surface, L!Change
  <2> QED BY <1>2, <2>4 DEF L!Next
<1>4. CASE Kind[m] = "promote"
  <2>1. tree[i].folder = "backlog"
        BY <1>1, <1>4 DEF AlreadyDone, CannotMove, Pool
  <2>2. tree' = Put(tree, i, Promoted(tree[i]))
        BY <1>1, <1>4 DEF Planned
  <2>3. L!Promote(i)
        BY <2>1, <2>2, SameMoves DEF L!Promote, L!Change
  <2> QED BY <1>2, <2>3 DEF L!Next
<1>5. CASE Kind[m] = "note"
  <2>1. tree[i].folder \in Pool
        BY <1>1, <1>5 DEF CannotMove
  <2>2. tree' = Put(tree, i, Noted(tree[i], m))
        BY <1>1, <1>5 DEF Planned
  <2>3. L!Note(i, m)
        BY <2>1, <2>2, SameFiles, SameMoves DEF L!Note, L!Change
  <2> QED BY <1>2, <2>3 DEF L!Next
<1>6. CASE Kind[m] = "create"
  <2>1. tree[i].folder = "absent" /\ i # Source[m]
        BY <1>1, <1>6, ConstantsAssumption DEF CannotMove
  <2>2. tree' = Minted(tree, i, Source[m], m)
        BY <1>1, <1>6 DEF Planned
  <2>3. L!Create(i, Source[m], m)
        BY <2>1, <2>2, SameMoves DEF L!Create
  <2> QED BY <1>2, <2>3 DEF L!Next
<1>7. CASE Kind[m] = "drain"
  <2>1. tree' = [j \in Item |-> Drained(tree[j])]
        BY <1>1, <1>7 DEF Planned
  <2>2. L!Drain
        BY <2>1, SameMoves DEF L!Drain
  <2> QED BY <2>2 DEF L!Next
<1> QED BY <1>2, <1>3, <1>4, <1>5, <1>6, <1>7 DEF Kinds

\* So is what the others do.
LEMMA OthersRefine ==
    ASSUME NEW i \in Item, Claim(i) \/ Land(i) \/ Answer(i) \/ Apply(i)
    PROVE  L!Next \/ UNCHANGED tree
<1>1. CASE Claim(i)
      BY <1>1 DEF Claim, main
<1>2. CASE Land(i)
  <2>1. L!Land(i)
        BY <1>2, SameFiles, SameMoves DEF Land, Commit, L!Land, L!Change
  <2> QED BY <2>1 DEF L!Next
<1>3. CASE Answer(i)
  <2>1. L!Answer(i)
        BY <1>3, SameMoves DEF Answer, Commit, L!Answer, L!Change
  <2> QED BY <2>1 DEF L!Next
<1>4. CASE Apply(i)
  <2>1. L!Apply(i)
        BY <1>4, SameFiles, SameMoves DEF Apply, Commit, L!Apply, L!Change
  <2> QED BY <2>1 DEF L!Next
<1> QED BY <1>1, <1>2, <1>3, <1>4

\* Every step of the moves is a step of the ledger, or leaves it alone.
LEMMA StepRefines ==
    ASSUME MInv, [Next]_vars
    PROVE  [L!Next]_tree
<1>1. CASE UNCHANGED vars
      BY <1>1 DEF vars
<1>2. ASSUME NEW m \in Mover, Push(m)
      PROVE  L!Next \/ UNCHANGED tree
  <2>1. At(m, "pushing") /\ (Publish(m) \/ UNCHANGED main)
        BY <1>2 DEF Push
  <2> QED BY <2>1, PublishRefines DEF main
<1>3. ASSUME NEW m \in Mover,
             Begin(m) \/ (MoverStep(m) /\ ~Push(m)) \/ Crash(m)
      PROVE  UNCHANGED tree
      BY <1>3 DEF Begin, StartSurface, StartPromote, StartNote, StartCreate,
          StartDrain, MoverStep, LockForPromote, Plan, Confirm, Classify, Retry,
          Conclude, Crash, main
<1>4. ASSUME NEW i \in Item, Claim(i) \/ Land(i) \/ Answer(i) \/ Apply(i)
      PROVE  L!Next \/ UNCHANGED tree
      BY <1>4, OthersRefine
<1>5. ASSUME NEW m \in Mover, Begin(m) \/ MoverStep(m) \/ Crash(m)
      PROVE  L!Next \/ UNCHANGED tree
      BY <1>2, <1>3, <1>5 DEF MoverStep
<1> QED BY <1>1, <1>4, <1>5 DEF Next

\* Every move, with all that is retried, refused, lost or raced, is one atomic
\* step of the abstract ledger.
THEOREM Refinement == Spec => ImplementsLedger
<1>1. Init => L!Init
      BY ConstantsAssumption, SameFiles DEF Init, L!Init
<1>2. MInv /\ [Next]_vars => [L!Next]_tree
      BY StepRefines
<1> QED BY <1>1, <1>2, Inductive, PTL DEF Spec, ImplementsLedger, L!Spec

-----------------------------------------------------------------------------
(* What the ledger promises, the moves keep *)

\* The ledger that was proved about is the one that is implemented.
LEMMA SameNext == L!Next = LP!Next
    BY DEF L!Next, LP!Next, L!Surface, LP!Surface, L!Promote, LP!Promote,
        L!Note, LP!Note, L!Create, LP!Create, L!Land, LP!Land,
        L!Answer, LP!Answer, L!Apply, LP!Apply, L!Drain, LP!Drain,
        L!Change, LP!Change, L!Put, LP!Put, L!Surfaced, LP!Surfaced,
        L!Refiled, LP!Refiled, L!Promoted, LP!Promoted, L!Noted, LP!Noted,
        L!Minted, LP!Minted, L!CreatedBy, LP!CreatedBy, L!Removed, LP!Removed,
        L!Drained, LP!Drained, L!Drainable, LP!Drainable,
        L!StaleFlag, LP!StaleFlag, L!Folded, LP!Folded, L!Merged, LP!Merged,
        L!WithAnswer, LP!WithAnswer, L!Resolved, LP!Resolved,
        L!Disposed, LP!Disposed, L!Answered, LP!Answered,
        L!AllAnswered, LP!AllAnswered, L!Pending, LP!Pending,
        L!AlreadySurfaced, LP!AlreadySurfaced, L!Live, LP!Live,
        L!Pool, LP!Pool, L!Terminal, LP!Terminal

LEMMA SameInit == L!Init = LP!Init
    BY DEF L!Init, LP!Init, L!Tree, LP!Tree, L!File, LP!File, L!Entry, LP!Entry,
        L!Folder, LP!Folder, L!Pool, LP!Pool, L!Terminal, LP!Terminal,
        L!Quiet, LP!Quiet

LEMMA LedgerOfMoves == Spec => LP!Spec
<1>1. L!Init => LP!Init
      BY SameInit
<1>2. [L!Next]_tree => [LP!Next]_tree
      BY SameNext
<1> QED BY <1>1, <1>2, Refinement, PTL DEF ImplementsLedger, L!Spec, LP!Spec

\* Whatever is retried or lost, needsAnswers and the sidecar go together on every
\* live item.
THEOREM FlagGoesWithSidecar == Spec => []FlagIffSidecar
<1>1. LP!FlagIffSidecar => FlagIffSidecar
      BY DEF FlagIffSidecar, L!FlagIffSidecar, LP!FlagIffSidecar,
          L!Live, LP!Live, L!Pool, LP!Pool
<1>2. LP!Spec => []LP!FlagIffSidecar
      BY LP!LedgerFlagIffSidecar, NoOneAssumption
<1> QED BY <1>1, <1>2, LedgerOfMoves, PTL

\* No retry asks a question that is pending.
THEOREM NothingPendsTwice == Spec => []NoDuplicatePending
<1>1. LP!NoDuplicatePending => NoDuplicatePending
      BY DEF NoDuplicatePending, L!NoDuplicatePending, LP!NoDuplicatePending,
          L!Pending, LP!Pending
<1>2. LP!Spec => []LP!NoDuplicatePending
      BY LP!LedgerNoDuplicatePending, NoOneAssumption
<1> QED BY <1>1, <1>2, LedgerOfMoves, PTL

\* No move takes an answer off main that is not applied.
THEOREM AnswersAreKept == Spec => AnswersSurvive
<1>1. [\A i \in Item :
            LP!Answered(tree[i]) /\ ~LP!Answered(tree'[i]) =>
                LP!AllAnswered(tree[i]) \/ tree[i].folder = "observations"]_tree
      => [\A i \in Item :
            L!Answered(tree[i]) /\ ~L!Answered(tree'[i]) =>
                L!AllAnswered(tree[i]) \/ tree[i].folder = "observations"]_tree
      BY DEF L!Answered, LP!Answered, L!AllAnswered, LP!AllAnswered
<1>2. LP!Spec => LP!AnswersSurvive
      BY LP!LedgerAnswersSurvive, NoOneAssumption
<1> QED BY <1>1, <1>2, LedgerOfMoves, PTL
        DEF AnswersSurvive, L!AnswersSurvive, LP!AnswersSurvive

-----------------------------------------------------------------------------
(* Types, and what giving up takes *)

\* The ledger is a ledger.
LEMMA TreeIsTree == Spec => [](tree \in Tree)
<1>1. LP!LInv => tree \in Tree
      BY DEF LP!LInv, Tree, LP!File, File, LP!Entry, Entry, LP!Folder, Folder,
          LP!Pool, Pool, LP!Terminal, Terminal
<1>2. LP!Spec => []LP!LInv
      BY LP!Wellformed, NoOneAssumption
<1> QED BY <1>1, <1>2, LedgerOfMoves, PTL

\* Each attempt of a mover has its own commit of main behind it, or a fault.
Count(m) ==
    /\ base[m].version \in 1 .. version
    /\ pc[m] \in {"idle", "locking"} => attempt[m] = 0
    /\ pc[m] \in Under => base[m].version + faults >= attempt[m] + 1
    /\ pc[m] = "failed" => base[m].version + faults >= attempt[m] + 2
    /\ pc[m] = "outraced" => base[m].version < version
    /\ pc[m] = "confirming" => mine[m] = base[m].version + 1 /\ mine[m] <= version
    /\ pc[m] = "retrying" => version + faults >= attempt[m] + 2
    /\ Kind[m] # "create" /\ outcome[m] = "contended" =>
            version + faults >= MaxAttempts + 1

CInv == TypeOK /\ version >= 1 /\ \A m \in Mover : Count(m)

\* What any step does to the counters.
Grows ==
    /\ version' \in Nat /\ version' >= version
    /\ faults' \in Nat /\ faults' >= faults

LEMMA SumGrows ==
    ASSUME NEW a \in Nat, NEW b \in Nat, NEW c \in Nat, NEW d \in Nat,
           NEW e \in Nat, c >= a, d >= b, a + b >= e
    PROVE  c + d >= e
    OBVIOUS

LEMMA CountFrame ==
    ASSUME CInv, Grows, NEW x \in Mover,
           pc'[x] = pc[x], base'[x] = base[x], mine'[x] = mine[x],
           attempt'[x] = attempt[x], outcome'[x] = outcome[x]
    PROVE  Count(x)'
<1>1. /\ version \in Nat /\ faults \in Nat /\ base[x].version \in Nat
      /\ attempt[x] \in Nat /\ mine[x] \in Nat /\ MaxAttempts \in Nat
      BY ConstantsAssumption DEF CInv, TypeOK
<1>2. Count(x)
      BY DEF CInv
<1>3. (base[x].version \in 1 .. version)'
      BY <1>1, <1>2 DEF Count, Grows
<1>4. (pc[x] \in {"idle", "locking"} => attempt[x] = 0)'
      BY <1>2 DEF Count
<1>5. /\ (pc[x] \in Under => base[x].version + faults >= attempt[x] + 1)'
      /\ (pc[x] = "failed" => base[x].version + faults >= attempt[x] + 2)'
      BY <1>1, <1>2 DEF Count, Grows, Under
<1>6. /\ (pc[x] = "outraced" => base[x].version < version)'
      /\ (pc[x] = "confirming" =>
            mine[x] = base[x].version + 1 /\ mine[x] <= version)'
      /\ (pc[x] = "retrying" => version + faults >= attempt[x] + 2)'
      BY <1>1, <1>2 DEF Count, Grows
<1>7. (Kind[x] # "create" /\ outcome[x] = "contended" =>
            version + faults >= MaxAttempts + 1)'
  <2> SUFFICES ASSUME Kind[x] # "create", outcome'[x] = "contended"
               PROVE  version' + faults' >= MaxAttempts + 1
      OBVIOUS
  <2>1. outcome[x] = "contended"
        OBVIOUS
  <2>2. version + faults >= MaxAttempts + 1
        BY <1>1, <1>2, <2>1 DEF Count
  <2>3. PICK v \in Nat, f \in Nat :
            v = version' /\ f = faults' /\ v >= version /\ f >= faults
        BY DEF Grows
  <2>5. MaxAttempts + 1 \in Nat
        BY <1>1
  <2>6. v \in Nat /\ f \in Nat /\ v >= version /\ f >= faults
        BY <2>3
  <2>7. version \in Nat /\ faults \in Nat
        BY <1>1
  <2>4. v + f >= MaxAttempts + 1
        BY ONLY <2>7, <2>2, <2>5, <2>6, SumGrows
  <2> QED BY <2>3, <2>4
<1> QED BY <1>3, <1>4, <1>5, <1>6, <1>7 DEF Count

\* What a step of a mover leaves in its set.
LEMMA Types ==
    ASSUME CInv, (tree \in Tree)', Grows, NEW m \in Mover, NEW s \in Step,
           NEW o \in Outcome, NEW a \in 0 .. MaxAttempts - 1, NEW v \in Nat,
           lock' \in [Item -> {"free", "run"} \cup Mover],
           pc' = [pc EXCEPT ![m] = s],
           base' = base \/ base' = [base EXCEPT ![m] = Here],
           path' \in [Mover -> Folder],
           mine' = [mine EXCEPT ![m] = v],
           attempt' = [attempt EXCEPT ![m] = a],
           outcome' = [outcome EXCEPT ![m] = o],
           others' = others,
           Count(m)'
    PROVE  CInv'
<1>1. Here \in [version : Nat, tree : Tree]
      BY DEF CInv, TypeOK, Here
<1>2. /\ base \in [Mover -> [version : Nat, tree : Tree]]
      /\ pc \in [Mover -> Step] /\ mine \in [Mover -> Nat]
      /\ attempt \in [Mover -> 0 .. MaxAttempts - 1]
      /\ outcome \in [Mover -> Outcome] /\ others \in Nat
      /\ version \in Nat /\ version >= 1
      BY DEF CInv, TypeOK
<1>3. base' \in [Mover -> [version : Nat, tree : Tree]]
      BY <1>1, <1>2
<1>4. /\ pc' \in [Mover -> Step] /\ mine' \in [Mover -> Nat]
      /\ attempt' \in [Mover -> 0 .. MaxAttempts - 1]
      /\ outcome' \in [Mover -> Outcome] /\ others' \in Nat
      BY <1>2
<1>5. version' \in Nat /\ faults' \in Nat /\ version' >= 1
      BY <1>2 DEF Grows
<1>6. TypeOK'
      BY <1>3, <1>4, <1>5 DEF TypeOK
<1>7. ASSUME NEW x \in Mover, x # m PROVE Count(x)'
  <2>1. /\ pc'[x] = pc[x] /\ base'[x] = base[x] /\ mine'[x] = mine[x]
        /\ attempt'[x] = attempt[x] /\ outcome'[x] = outcome[x]
        BY <1>2, <1>7
  <2> QED BY <2>1, CountFrame
<1> QED BY <1>5, <1>6, <1>7 DEF CInv

\* What each step takes for granted.
LEMMA CountFacts ==
    ASSUME CInv, NEW m \in Mover
    PROVE  /\ Count(m) /\ At(m, pc[m])
           /\ version \in Nat /\ faults \in Nat /\ MaxAttempts \in Nat
           /\ base[m].version \in Nat /\ mine[m] \in Nat
           /\ attempt[m] \in 0 .. MaxAttempts - 1 /\ attempt[m] \in Nat
           /\ outcome[m] \in Outcome /\ pc[m] \in Step
           /\ For[m] \in Item
           /\ mine = [mine EXCEPT ![m] = mine[m]]
           /\ attempt = [attempt EXCEPT ![m] = attempt[m]]
           /\ outcome = [outcome EXCEPT ![m] = outcome[m]]
           /\ m \in DOMAIN pc /\ m \in DOMAIN base /\ m \in DOMAIN mine
           /\ m \in DOMAIN attempt /\ m \in DOMAIN outcome
    BY ConstantsAssumption DEF CInv, TypeOK, At

\* It is enough to know where the mover goes, with which outcome o, attempt a and
\* commit k of its own, on which base b, and what main and the faults come to.
LEMMA Settles ==
    ASSUME CInv, (tree \in Tree)', NEW m \in Mover, NEW s \in Step,
           NEW o \in Outcome, NEW a \in 0 .. MaxAttempts - 1, NEW k \in Nat,
           NEW b \in Nat, NEW v \in Nat, NEW f \in Nat,
           version' = v, faults' = f, v >= version, f >= faults,
           pc' = [pc EXCEPT ![m] = s],
           outcome' = [outcome EXCEPT ![m] = o],
           attempt' = [attempt EXCEPT ![m] = a],
           mine' = [mine EXCEPT ![m] = k],
           \/ base' = base /\ b = base[m].version
           \/ base' = [base EXCEPT ![m] = Here] /\ b = version,
           lock' \in [Item -> {"free", "run"} \cup Mover],
           path' \in [Mover -> Folder], others' = others,
           b \in 1 .. v,
           s \in {"idle", "locking"} => a = 0,
           s \in Under => b + f >= a + 1,
           s = "failed" => b + f >= a + 2,
           s = "outraced" => b < v,
           s = "confirming" => k = b + 1 /\ k <= v,
           s = "retrying" => v + f >= a + 2,
           Kind[m] # "create" /\ o = "contended" => v + f >= MaxAttempts + 1
    PROVE  CInv'
<1>1. m \in DOMAIN pc /\ m \in DOMAIN base /\ m \in DOMAIN mine
      /\ m \in DOMAIN attempt /\ m \in DOMAIN outcome
      BY CountFacts
<1>2. pc'[m] = s /\ outcome'[m] = o /\ attempt'[m] = a /\ mine'[m] = k
      BY <1>1
<1>3. base'[m].version = b
      BY <1>1 DEF Here
<1>4. Count(m)'
      BY <1>2, <1>3 DEF Count
<1>5. Grows
      BY DEF Grows
<1>6. base' = base \/ base' = [base EXCEPT ![m] = Here]
      OBVIOUS
<1> QED BY <1>4, <1>5, <1>6, Types

\* A path that is looked up is a folder.
LEMMA PathType ==
    ASSUME CInv, NEW m \in Mover, StartSurface(m)
    PROVE  path' \in [Mover -> Folder]
<1>1. base' = base \/ base' = [base EXCEPT ![m] = Here]
      BY DEF StartSurface, Refresh, Fetch
<1>2. base'[m].tree \in Tree
  <2>1. tree \in Tree /\ base[m].tree \in Tree /\ m \in DOMAIN base
        BY DEF CInv, TypeOK
  <2> QED BY <1>1, <2>1 DEF Here
<1>3. base'[m].tree[For[m]].folder \in Folder
      BY <1>2, ConstantsAssumption DEF Tree, File
<1>4. path \in [Mover -> Folder]
      BY DEF CInv, TypeOK
<1> QED BY <1>3, <1>4 DEF StartSurface

\* A move begins.
LEMMA BeginCount ==
    ASSUME CInv, (tree \in Tree)', NEW m \in Mover, Begin(m)
    PROVE  CInv'
<1>1. attempt[m] = 0 /\ Count(m)
      BY DEF Begin, StartSurface, StartPromote, StartNote, StartCreate, StartDrain,
          CInv, Count, At
<1>2. UNCHANGED <<version, mine, attempt, others>>
      BY DEF Begin, StartSurface, StartPromote, StartNote, StartCreate, StartDrain,
          main
<1>3. lock' \in [Item -> {"free", "run"} \cup Mover]
  <2>1. lock' = lock \/ lock' = [lock EXCEPT ![For[m]] = m]
        BY DEF Begin, StartSurface, StartPromote, StartNote, StartCreate, StartDrain
  <2> QED BY <2>1 DEF CInv, TypeOK
<1>4. PICK f \in {faults, faults + 1} : faults' = f
      BY DEF Begin, StartSurface, StartPromote, StartNote, StartCreate, StartDrain,
          Refresh, Fetch, Fault
<1>5. path' \in [Mover -> Folder]
  <2>1. StartSurface(m) \/ path' = path
        BY DEF Begin, StartPromote, StartNote, StartCreate, StartDrain
  <2> QED BY <2>1, PathType DEF CInv, TypeOK
<1>6. PICK s \in {"planning", "locking", "finishing"} : pc' = [pc EXCEPT ![m] = s]
      BY DEF Begin, StartSurface, StartPromote, StartNote, StartCreate, StartDrain,
          Go, Finish
<1>7. PICK o \in {outcome[m], "bodyAbsent", "already", "error"} :
            outcome' = [outcome EXCEPT ![m] = o]
      BY CountFacts DEF Begin, StartSurface, StartPromote, StartNote, StartCreate,
          StartDrain, Finish, Report
<1>8. PICK b \in {base[m].version, version} :
            \/ base' = base /\ b = base[m].version
            \/ base' = [base EXCEPT ![m] = Here] /\ b = version
      BY DEF Begin, StartSurface, StartPromote, StartNote, StartCreate, StartDrain,
          Refresh, Fetch
<1>9. /\ version \in Nat /\ version >= 1 /\ faults \in Nat /\ f \in Nat /\ f >= faults
      /\ b \in Nat /\ b \in 1 .. version
      BY <1>1, <1>4, <1>8, CountFacts DEF CInv, Count
<1>10. o \in Outcome /\ s \in Step \ {"failed", "outraced", "confirming", "retrying"}
      BY <1>6, <1>7, CountFacts DEF Outcome, Step
<1>11. Kind[m] # "create" /\ o = "contended" => version + f >= MaxAttempts + 1
      BY <1>1, <1>7, <1>9, CountFacts DEF Count
<1>12. b + f >= attempt[m] + 1
      BY <1>1, <1>9
<1>13. /\ attempt[m] \in 0 .. MaxAttempts - 1 /\ mine[m] \in Nat /\ s \in Step
       /\ attempt' = [attempt EXCEPT ![m] = attempt[m]]
       /\ mine' = [mine EXCEPT ![m] = mine[m]]
      BY <1>2, <1>10, CountFacts
<1>14. /\ version' = version /\ version >= version /\ b \in 1 .. version
       /\ s \in {"idle", "locking"} => attempt[m] = 0
       /\ s \in Under => b + f >= attempt[m] + 1
       /\ s # "failed" /\ s # "outraced" /\ s # "confirming" /\ s # "retrying"
      BY <1>1, <1>2, <1>9, <1>10, <1>12
<1> QED BY <1>3, <1>4, <1>5, <1>6, <1>7, <1>8, <1>9, <1>10, <1>11, <1>13, <1>14,
           <1>2, Settles

\* A step that leaves main, the base, the lock's type and the attempt alone.
LEMMA Proceeds ==
    ASSUME CInv, (tree \in Tree)', NEW m \in Mover, pc[m] \in Under,
           NEW s \in Step \ {"idle", "locking", "failed", "outraced", "confirming"},
           NEW o \in Outcome \ {"contended"}, NEW k \in Nat,
           NEW f \in {faults, faults + 1},
           faults' = f, version' = version,
           pc' = [pc EXCEPT ![m] = s],
           outcome' = outcome \/ outcome' = [outcome EXCEPT ![m] = o],
           mine' = [mine EXCEPT ![m] = k],
           UNCHANGED <<base, path, attempt, others>>,
           lock' \in [Item -> {"free", "run"} \cup Mover],
           s = "retrying" => version + f >= attempt[m] + 2
    PROVE  CInv'
<1>1. /\ version \in Nat /\ faults \in Nat /\ f \in Nat /\ f >= faults
      /\ Count(m) /\ base[m].version \in Nat /\ MaxAttempts \in Nat
      /\ attempt[m] \in Nat
      BY CountFacts
<1>2. PICK q \in {o, outcome[m]} : outcome' = [outcome EXCEPT ![m] = q]
      BY CountFacts
<1>3. q \in Outcome /\ (q = "contended" => outcome[m] = "contended")
      BY <1>2, CountFacts
<1>4. Kind[m] # "create" /\ q = "contended" => version + f >= MaxAttempts + 1
      BY <1>1, <1>3 DEF Count
<1>5. base[m].version + f >= attempt[m] + 1 /\ base[m].version \in 1 .. version
      BY <1>1 DEF Count
<1>6. /\ attempt[m] \in 0 .. MaxAttempts - 1
      /\ attempt' = [attempt EXCEPT ![m] = attempt[m]]
      /\ path' \in [Mover -> Folder] /\ others' = others /\ base' = base
      /\ version >= version
      BY <1>1, CountFacts DEF CInv, TypeOK
<1> QED BY <1>1, <1>2, <1>3, <1>4, <1>5, <1>6, Settles

\* The lock of a step that leaves it alone.
LEMMA LockType ==
    ASSUME CInv, UNCHANGED lock
    PROVE  lock' \in [Item -> {"free", "run"} \cup Mover]
    BY DEF CInv, TypeOK

LEMMA PlanCount ==
    ASSUME CInv, (tree \in Tree)', NEW m \in Mover, Plan(m)
    PROVE  CInv'
<1>1. /\ pc[m] \in Under /\ faults' = faults /\ version' = version
      /\ UNCHANGED <<base, path, attempt, others, lock>>
      /\ mine' = [mine EXCEPT ![m] = 0]
      BY DEF Plan, At, Under, main
<1>2. PICK s \in {"finishing", "pushing"} : pc' = [pc EXCEPT ![m] = s]
      BY DEF Plan, Go, Finish
<1>3. PICK o \in {"landed", "lost", "missing"} :
            outcome' = outcome \/ outcome' = [outcome EXCEPT ![m] = o]
      BY DEF Plan, Finish, Report
<1>4. /\ s \in Step \ {"idle", "locking", "failed", "outraced", "confirming"}
      /\ s # "retrying" /\ o \in Outcome \ {"contended"}
      BY <1>2, <1>3 DEF Step, Outcome
<1> QED BY <1>1, <1>2, <1>3, <1>4, Proceeds, LockType

LEMMA ConfirmCount ==
    ASSUME CInv, (tree \in Tree)', NEW m \in Mover, Confirm(m)
    PROVE  CInv'
<1>1. /\ pc[m] = "confirming" /\ pc[m] \in Under /\ version' = version
      /\ UNCHANGED <<base, path, attempt, others, lock>>
      BY DEF Confirm, At, Under, main
<1>2. mine' = [mine EXCEPT ![m] = mine[m]] /\ mine[m] \in Nat
      BY CountFacts DEF Confirm
<1>3. PICK f \in {faults, faults + 1} : faults' = f
      BY DEF Confirm, Fault
<1>4. PICK s \in {"finishing", "retrying"} :
            /\ pc' = [pc EXCEPT ![m] = s]
            /\ s = "retrying" => version # mine[m]
      BY DEF Confirm, Go, Finish
<1>5. outcome' = outcome \/ outcome' = [outcome EXCEPT ![m] = "landed"]
      BY DEF Confirm, Finish, Report
<1>6. s = "retrying" => version + f >= attempt[m] + 2
      BY <1>1, <1>3, <1>4, CountFacts DEF Count
<1>7. /\ s \in Step \ {"idle", "locking", "failed", "outraced", "confirming"}
      /\ "landed" \in Outcome \ {"contended"}
      BY <1>4 DEF Step, Outcome
<1> QED BY <1>1, <1>2, <1>3, <1>4, <1>5, <1>6, <1>7, Proceeds, LockType

LEMMA ClassifyCount ==
    ASSUME CInv, (tree \in Tree)', NEW m \in Mover, Classify(m)
    PROVE  CInv'
<1>1. /\ pc[m] \in {"failed", "outraced"} /\ pc[m] \in Under /\ version' = version
      /\ UNCHANGED <<base, path, attempt, others, lock>>
      BY DEF Classify, Under, main
<1>2. mine' = [mine EXCEPT ![m] = mine[m]] /\ mine[m] \in Nat
      BY CountFacts DEF Classify
<1>3. PICK f \in {faults, faults + 1} : faults' = f
      BY DEF Classify, Fault
<1>4. PICK s \in {"finishing", "retrying"} : pc' = [pc EXCEPT ![m] = s]
      BY DEF Classify, Rejected, Refused, Go, Finish
<1>5. outcome' = outcome \/ outcome' = [outcome EXCEPT ![m] = "refused"]
      BY DEF Classify, Rejected, Refused, Finish, Report
<1>6. version + f >= attempt[m] + 2
      BY <1>1, <1>3, CountFacts DEF Count
<1>7. /\ s \in Step \ {"idle", "locking", "failed", "outraced", "confirming"}
      /\ "refused" \in Outcome \ {"contended"}
      BY <1>4 DEF Step, Outcome
<1> QED BY <1>1, <1>2, <1>3, <1>4, <1>5, <1>6, <1>7, Proceeds, LockType

LEMMA LockCount ==
    ASSUME CInv, (tree \in Tree)', NEW m \in Mover, LockForPromote(m)
    PROVE  CInv'
<1>1. /\ pc[m] = "locking" /\ attempt[m] = 0 /\ version' = version
      /\ faults' = faults
      /\ UNCHANGED <<base, path, mine, attempt, others>>
      BY CountFacts DEF LockForPromote, At, Count, main
<1>2. lock' \in [Item -> {"free", "run"} \cup Mover]
      BY DEF LockForPromote, CInv, TypeOK
<1>3. PICK s \in {"planning", "finishing", "over"} : pc' = [pc EXCEPT ![m] = s]
      BY DEF LockForPromote, Go, Finish
<1>4. PICK o \in {outcome[m], "missing", "lost"} :
            outcome' = [outcome EXCEPT ![m] = o]
      BY CountFacts DEF LockForPromote, Finish, Report
<1>5. /\ version \in Nat /\ faults \in Nat /\ base[m].version \in Nat
      /\ version >= version /\ faults >= faults /\ Count(m)
      /\ attempt[m] \in 0 .. MaxAttempts - 1 /\ mine[m] \in Nat
      /\ attempt' = [attempt EXCEPT ![m] = attempt[m]]
      /\ mine' = [mine EXCEPT ![m] = mine[m]]
      BY <1>1, CountFacts
<1>6. /\ s \in Step /\ o \in Outcome /\ s \notin {"idle", "locking"}
      /\ s # "failed" /\ s # "outraced" /\ s # "confirming" /\ s # "retrying"
      BY <1>3, <1>4, CountFacts DEF Step, Outcome
<1>7. base[m].version \in 1 .. version
      /\ base[m].version + faults >= attempt[m] + 1
      BY <1>1, <1>5 DEF Count
<1>8. Kind[m] # "create" /\ o = "contended" => version + faults >= MaxAttempts + 1
      BY <1>4, <1>5 DEF Count
<1>9. path' \in [Mover -> Folder] /\ others' = others /\ base' = base
      BY <1>1 DEF CInv, TypeOK
<1> QED BY <1>1, <1>2, <1>3, <1>4, <1>5, <1>6, <1>7, <1>8, <1>9, Settles

LEMMA PushCount ==
    ASSUME CInv, (tree \in Tree)', NEW m \in Mover, Push(m)
    PROVE  CInv'
<1> DEFINE b == base[m].version
           a == attempt[m]
<1>1. /\ pc[m] = "pushing" /\ pc[m] \in Under
      /\ UNCHANGED <<base, path, attempt, outcome, others, lock>>
      BY DEF Push, At, Under
<1>2. /\ version \in Nat /\ faults \in Nat /\ b \in Nat /\ a \in Nat
      /\ MaxAttempts \in Nat /\ mine[m] \in Nat /\ outcome[m] \in Outcome
      /\ a \in 0 .. MaxAttempts - 1 /\ Count(m)
      /\ attempt' = [attempt EXCEPT ![m] = a]
      /\ outcome' = [outcome EXCEPT ![m] = outcome[m]]
      BY <1>1, CountFacts
<1>3. PICK v \in {version, version + 1}, f \in {faults, faults + 1},
           k \in {mine[m], version + 1}, s \in {"confirming", "failed", "outraced"} :
        /\ version' = v /\ faults' = f
        /\ mine' = [mine EXCEPT ![m] = k] /\ pc' = [pc EXCEPT ![m] = s]
        /\ s = "failed" => f = faults + 1
        /\ s = "outraced" => b # version
        /\ s = "confirming" => b = version /\ v = version + 1 /\ k = version + 1
  <2>1. CASE Publish(m) /\ Go(m, "confirming") /\ UNCHANGED faults
        BY <2>1 DEF Publish, Leased, Go
  <2>2. CASE Publish(m) /\ Go(m, "failed") /\ Fault
        BY <2>2 DEF Publish, Go, Fault
  <2>3. CASE ~Leased(m) /\ Go(m, "outraced") /\ UNCHANGED <<main, mine, faults>>
        BY <2>3, CountFacts DEF Leased, Go, main
  <2>4. CASE Go(m, "failed") /\ Fault /\ UNCHANGED <<main, mine>>
        BY <2>4, CountFacts DEF Go, Fault, main
  <2> QED BY <2>1, <2>2, <2>3, <2>4 DEF Push
<1>4. /\ v \in Nat /\ v >= version /\ f \in Nat /\ f >= faults /\ k \in Nat
      /\ s \in Step /\ s \notin {"idle", "locking"} /\ s # "retrying"
      BY <1>2, <1>3 DEF Step
<1>5. b \in 1 .. version /\ b + faults >= a + 1
      BY <1>1, <1>2 DEF Count
<1>6. /\ b \in 1 .. v /\ b + f >= a + 1
      /\ s = "failed" => b + f >= a + 2
      /\ s = "outraced" => b < v
      /\ s = "confirming" => k = b + 1 /\ k <= v
      BY <1>2, <1>3, <1>4, <1>5
<1>7. Kind[m] # "create" /\ outcome[m] = "contended" => v + f >= MaxAttempts + 1
      BY <1>2, <1>3 DEF Count
<1>8. path' \in [Mover -> Folder] /\ others' = others /\ base' = base
      BY <1>1 DEF CInv, TypeOK
<1> QED BY <1>1, <1>2, <1>3, <1>4, <1>6, <1>7, <1>8, Settles, LockType

LEMMA RetryCount ==
    ASSUME CInv, (tree \in Tree)', NEW m \in Mover, Retry(m)
    PROVE  CInv'
<1> DEFINE a == attempt[m]
<1>1. /\ pc[m] = "retrying" /\ pc[m] \in Under /\ version' = version
      /\ UNCHANGED <<lock, path, mine, others>>
      BY DEF Retry, At, Under, main
<1>2. /\ version \in Nat /\ faults \in Nat /\ base[m].version \in Nat /\ a \in Nat
      /\ MaxAttempts \in Nat /\ a \in 0 .. MaxAttempts - 1 /\ Count(m)
      /\ mine[m] \in Nat /\ mine' = [mine EXCEPT ![m] = mine[m]]
      /\ version >= 1 /\ version >= version
      BY <1>1, CountFacts DEF CInv
<1>3. /\ base[m].version \in 1 .. version
      /\ base[m].version + faults >= a + 1
      /\ version + faults >= a + 2
      BY <1>1, <1>2 DEF Count
<1>4. PICK f \in {faults, faults + 1}, s \in {"planning", "finishing"},
           q \in {a, a + 1}, b \in {base[m].version, version},
           o \in {outcome[m], "contended", "error"} :
        /\ faults' = f /\ pc' = [pc EXCEPT ![m] = s]
        /\ attempt' = [attempt EXCEPT ![m] = q]
        /\ outcome' = [outcome EXCEPT ![m] = o]
        /\ \/ base' = base /\ b = base[m].version
           \/ base' = [base EXCEPT ![m] = Here] /\ b = version
        /\ q = a + 1 => ~Exhausted(m)
        /\ b + f >= q + 1
        /\ o = "contended" => o = outcome[m] \/ Exhausted(m) \/ Kind[m] = "create"
  <2>1. CASE /\ Exhausted(m) \/ Kind[m] = "create"
             /\ Finish(m, "contended")
             /\ UNCHANGED <<base, attempt, faults>>
        BY <1>3, <2>1, CountFacts DEF Finish, Go, Report
  <2>2. CASE /\ ~Exhausted(m)
             /\ attempt' = [attempt EXCEPT ![m] = @ + 1]
             /\ Fetch(m) /\ Go(m, "planning")
             /\ UNCHANGED <<outcome, faults>>
    <3>1. version + faults >= (a + 1) + 1
          BY <1>2, <1>3
    <3> QED BY <2>2, <3>1, CountFacts DEF Fetch, Go
  <2>3. CASE /\ ~Exhausted(m) /\ Fault
             /\ attempt' = [attempt EXCEPT ![m] = @ + 1]
             /\ IF Kind[m] = "create" THEN Finish(m, "error")
                ELSE Go(m, "planning") /\ UNCHANGED outcome
             /\ UNCHANGED base
    <3>1. base[m].version + (faults + 1) >= (a + 1) + 1
          BY <1>2, <1>3
    <3> QED BY <2>3, <3>1, CountFacts DEF Finish, Go, Report, Fault
  <2> QED BY <2>1, <2>2, <2>3 DEF Retry
<1>5. /\ f \in Nat /\ f >= faults /\ b \in Nat /\ b \in 1 .. version
      /\ s \in Step /\ s \notin {"idle", "locking"} /\ s # "retrying"
      /\ s # "failed" /\ s # "outraced" /\ s # "confirming"
      BY <1>2, <1>3, <1>4 DEF Step
<1>6. o \in Outcome
      BY <1>4, CountFacts DEF Outcome
<1>7. q \in 0 .. MaxAttempts - 1
      BY <1>2, <1>4 DEF Exhausted
<1>8. Kind[m] # "create" /\ o = "contended" => version + f >= MaxAttempts + 1
  <2>1. Exhausted(m) => version + f >= MaxAttempts + 1
        BY <1>2, <1>3, <1>4 DEF Exhausted
  <2>2. Kind[m] # "create" /\ outcome[m] = "contended" =>
            version + f >= MaxAttempts + 1
        BY <1>2, <1>4 DEF Count
  <2> QED BY <1>4, <2>1, <2>2
<1>9. path' \in [Mover -> Folder] /\ others' = others
      BY <1>1 DEF CInv, TypeOK
<1> QED BY <1>1, <1>2, <1>4, <1>5, <1>6, <1>7, <1>8, <1>9, Settles, LockType

LEMMA EndCount ==
    ASSUME CInv, (tree \in Tree)', NEW m \in Mover, Conclude(m) \/ Crash(m)
    PROVE  CInv'
<1>1. /\ version' = version /\ pc' = [pc EXCEPT ![m] = "over"]
      /\ UNCHANGED <<base, path, mine, attempt, others>>
      BY DEF Conclude, Crash, Go, main
<1>2. lock' \in [Item -> {"free", "run"} \cup Mover]
      BY DEF Conclude, Crash, CInv, TypeOK
<1>3. PICK f \in {faults, faults + 1} : faults' = f
      BY DEF Conclude, Crash, Fault
<1>4. PICK o \in {outcome[m], "none"} : outcome' = [outcome EXCEPT ![m] = o]
      BY CountFacts DEF Conclude, Crash, Report
<1>5. /\ version \in Nat /\ faults \in Nat /\ base[m].version \in Nat
      /\ MaxAttempts \in Nat /\ Count(m)
      /\ attempt[m] \in 0 .. MaxAttempts - 1 /\ mine[m] \in Nat
      /\ attempt' = [attempt EXCEPT ![m] = attempt[m]]
      /\ mine' = [mine EXCEPT ![m] = mine[m]]
      BY <1>1, CountFacts
<1>6. /\ f \in Nat /\ f >= faults /\ version >= version
      /\ base[m].version \in 1 .. version
      BY <1>3, <1>5 DEF Count
<1>7. "over" \in Step /\ "over" \notin Under /\ o \in Outcome
      BY <1>4, CountFacts DEF Step, Under, Outcome
<1>8. Kind[m] # "create" /\ o = "contended" => version + f >= MaxAttempts + 1
      BY <1>3, <1>4, <1>5 DEF Count
<1>9. path' \in [Mover -> Folder] /\ others' = others /\ base' = base
      BY <1>1 DEF CInv, TypeOK
<1> QED BY <1>1, <1>2, <1>3, <1>4, <1>5, <1>6, <1>7, <1>8, <1>9, Settles

LEMMA OthersCount ==
    ASSUME CInv, (tree \in Tree)', NEW i \in Item,
           Claim(i) \/ Land(i) \/ Answer(i) \/ Apply(i)
    PROVE  CInv'
<1>1. /\ UNCHANGED <<pc, base, path, mine, attempt, outcome, faults>>
      /\ version' = version \/ version' = version + 1
      /\ others' = others \/ others' = others + 1
      BY DEF Claim, Land, Answer, Apply, Commit, main
<1>2. lock' \in [Item -> {"free", "run"} \cup Mover]
      BY DEF Claim, Land, Answer, Apply, CInv, TypeOK
<1>3. version \in Nat /\ version >= 1 /\ faults \in Nat /\ others \in Nat
      BY DEF CInv, TypeOK
<1>4. Grows /\ version' \in Nat /\ version' >= 1 /\ others' \in Nat
  <2>1. PICK v \in {version, version + 1}, n \in {others, others + 1} :
            version' = v /\ others' = n
        BY <1>1
  <2>2. v \in Nat /\ v >= 1 /\ v >= version /\ n \in Nat
        BY <1>3, <2>1
  <2> QED BY <1>1, <1>3, <2>1, <2>2 DEF Grows
<1>5. \A x \in Mover : Count(x)'
      BY <1>1, <1>4, CountFrame
<1>6. TypeOK'
      BY <1>1, <1>2, <1>4 DEF CInv, TypeOK
<1> QED BY <1>4, <1>5, <1>6 DEF CInv

LEMMA Counted == Spec => []CInv
<1>1. Init => CInv
  <2> SUFFICES ASSUME Init PROVE CInv
      OBVIOUS
  <2>1. TypeOK
        BY ConstantsAssumption DEF Init, TypeOK, Here, Step, Outcome, Folder
  <2>2. \A m \in Mover : Count(m)
        BY DEF Init, Count, Here, Under
  <2> QED BY <2>1, <2>2 DEF CInv, Init
<1>2. CInv /\ (tree \in Tree)' /\ [Next]_vars => CInv'
  <2> SUFFICES ASSUME CInv, (tree \in Tree)', [Next]_vars PROVE CInv'
      OBVIOUS
  <2>1. CASE UNCHANGED vars
        BY <2>1 DEF vars, CInv, TypeOK, Count
  <2>2. ASSUME NEW m \in Mover, Begin(m) \/ MoverStep(m) \/ Crash(m)
        PROVE  CInv'
        BY <2>2, BeginCount, LockCount, PlanCount, PushCount, ConfirmCount,
            ClassifyCount, RetryCount, EndCount DEF MoverStep
  <2>3. ASSUME NEW i \in Item, Claim(i) \/ Land(i) \/ Answer(i) \/ Apply(i)
        PROVE  CInv'
        BY <2>3, OthersCount
  <2> QED BY <2>1, <2>2, <2>3 DEF Next
<1> QED BY <1>1, <1>2, TreeIsTree, PTL DEF Spec

\* Every variable stays in its set; no move is planned more often than its loop
\* has attempts.
THEOREM TypeCorrect == Spec => []TypeOK
<1>1. CInv => TypeOK
      BY DEF CInv
<1> QED BY <1>1, Counted, PTL

\* A tree-less move that gives up has seen main move, or a fault, as often as it
\* has attempts.
THEOREM GivingUpTakesRaces == Spec => []GiveUpNeedsRaces
<1>1. CInv => GiveUpNeedsRaces
  <2> SUFFICES ASSUME CInv, NEW m \in Mover, Kind[m] # "create",
                      outcome[m] = "contended"
               PROVE  version - 1 + faults >= MaxAttempts
      BY DEF GiveUpNeedsRaces
  <2>1. /\ version \in Nat /\ faults \in Nat /\ MaxAttempts \in Nat /\ Count(m)
        BY CountFacts
  <2>2. version + faults >= MaxAttempts + 1
        BY <2>1 DEF Count
  <2> QED BY <2>1, <2>2
<1> QED BY <1>1, Counted, PTL

-----------------------------------------------------------------------------
(* The locks *)

\* A lock that a mover has is one it took, and gives back at its end but for a
\* question that is not on main.
Returns(m) ==
    /\ pc[m] # "failed"
    /\ Kind[m] = "surface" /\ pc[m] \in {"finishing", "over"} =>
            outcome[m] \in {"landed", "bodyAbsent", "missing", "contended"}
    /\ lock[For[m]] = m =>
            /\ Kind[m] \in {"surface", "promote"}
            /\ pc[m] \notin {"idle", "locking"}
            /\ pc[m] = "over" =>
                  Kind[m] = "surface" /\ outcome[m] \in {"missing", "contended"}

RInv == faults = 0 => \A m \in Mover : Returns(m)

\* A mover that does not move, whose lock nobody hands to it.
LEMMA ReturnsFrame ==
    ASSUME NEW x \in Mover, Returns(x), pc'[x] = pc[x], outcome'[x] = outcome[x],
           lock'[For[x]] = x => lock[For[x]] = x
    PROVE  Returns(x)'
    BY DEF Returns

\* The mover that moves is the only one that may get a lock.
LEMMA OneReturns ==
    ASSUME CInv, RInv, NEW m \in Mover, NEW s \in Step, NEW o \in Outcome,
           pc' = [pc EXCEPT ![m] = s], outcome' = [outcome EXCEPT ![m] = o],
           NEW l \in {"free", m, lock[For[m]]},
           lock' = lock \/ lock' = [lock EXCEPT ![For[m]] = l],
           faults' = 0 => faults = 0 /\ Returns(m)'
    PROVE  RInv'
<1> SUFFICES ASSUME faults' = 0, NEW x \in Mover, x # m PROVE Returns(x)'
      BY DEF RInv
<1>1. Returns(x) /\ x \notin {"free", "run"}
      BY ConstantsAssumption DEF RInv
<1>2. pc'[x] = pc[x] /\ outcome'[x] = outcome[x]
      BY DEF CInv, TypeOK
<1>3. lock'[For[x]] = x => lock[For[x]] = x
  <2>1. For[x] \in Item /\ For[m] \in Item /\ DOMAIN lock = Item
        BY ConstantsAssumption DEF CInv, TypeOK
  <2> QED BY <1>1, <2>1
<1> QED BY <1>1, <1>2, <1>3, ReturnsFrame

\* What a step knows of its mover, and where it goes.
LEMMA Lockers ==
    ASSUME CInv, NEW m \in Mover, NEW s \in Step, Go(m, s), RInv,
           NEW o \in Outcome, outcome' = [outcome EXCEPT ![m] = o],
           NEW l \in {"free", m, lock[For[m]]},
           lock' = lock \/ lock' = [lock EXCEPT ![For[m]] = l],
           faults' = 0 => faults = 0,
           s # "failed" \/ faults' # 0,
           Kind[m] = "surface" /\ s \in {"finishing", "over"} /\ faults' = 0 =>
              o \in {"landed", "bodyAbsent", "missing", "contended"},
           lock'[For[m]] = m /\ faults' = 0 =>
              /\ Kind[m] \in {"surface", "promote"}
              /\ s \notin {"idle", "locking"}
              /\ s = "over" => Kind[m] = "surface" /\ o \in {"missing", "contended"}
    PROVE  RInv'
<1>1. pc'[m] = s /\ outcome'[m] = o
      BY DEF Go, CInv, TypeOK
<1>2. faults' = 0 => Returns(m)'
      BY <1>1 DEF Returns
<1> QED BY <1>2, OneReturns DEF Go

LEMMA Faults ==
    ASSUME CInv, Fault PROVE faults' # 0
    BY DEF CInv, TypeOK, Fault

LEMMA BeginReturns ==
    ASSUME CInv, RInv, NEW m \in Mover, Begin(m) PROVE RInv'
<1>1. faults \in Nat /\ (faults' = 0 => faults = 0)
      BY Faults DEF CInv, TypeOK, Begin, StartSurface, StartPromote, StartNote,
          StartCreate, StartDrain, Refresh, Fault
<1>2. /\ outcome = [outcome EXCEPT ![m] = outcome[m]] /\ outcome[m] \in Outcome
      /\ For[m] \in Item /\ DOMAIN lock = Item /\ pc[m] = "idle"
      BY CountFacts, ConstantsAssumption DEF CInv, TypeOK, Begin, StartSurface,
          StartPromote, StartNote, StartCreate, StartDrain, At
<1>3. faults = 0 => lock[For[m]] # m
      BY <1>2 DEF RInv, Returns
<1>4. CASE StartSurface(m)
  <2>1. PICK s \in {"planning", "finishing"}, o \in {outcome[m], "bodyAbsent"} :
            Go(m, s) /\ outcome' = [outcome EXCEPT ![m] = o]
            /\ (s = "finishing" => o = "bodyAbsent")
        BY <1>2, <1>4 DEF StartSurface, Finish, Report
  <2>2. Kind[m] = "surface" /\ lock' = [lock EXCEPT ![For[m]] = m]
        BY <1>4 DEF StartSurface
  <2>3. s \in Step /\ o \in Outcome
        BY <1>2 DEF Step, Outcome
  <2> QED BY <1>1, <2>1, <2>2, <2>3, Lockers
<1>5. CASE StartPromote(m) \/ StartNote(m) \/ StartDrain(m) \/ StartCreate(m)
  <2>1. lock' = lock /\ Kind[m] # "surface"
        BY <1>5 DEF StartPromote, StartNote, StartCreate, StartDrain
  <2>2. PICK s \in {"locking", "planning", "finishing"},
             o \in {outcome[m], "already", "error"} :
            Go(m, s) /\ outcome' = [outcome EXCEPT ![m] = o]
        BY <1>2, <1>5 DEF StartPromote, StartNote, StartCreate, StartDrain, Finish,
            Report
  <2>3. s \in Step /\ o \in Outcome
        BY <1>2 DEF Step, Outcome
  <2> QED BY <1>1, <1>3, <2>1, <2>2, <2>3, Lockers
<1> QED BY <1>4, <1>5 DEF Begin

LEMMA LockReturns ==
    ASSUME CInv, RInv, NEW m \in Mover, LockForPromote(m), Kind[m] = "promote"
    PROVE  RInv'
<1>1. /\ outcome = [outcome EXCEPT ![m] = outcome[m]] /\ outcome[m] \in Outcome
      /\ pc[m] = "locking" /\ faults' = faults
      BY CountFacts DEF LockForPromote, At
<1>2. faults = 0 => lock[For[m]] # m
      BY <1>1 DEF RInv, Returns
<1>3. CASE lock[For[m]] # "free"
  <2>1. lock' = lock /\ Go(m, "over") /\ Report(m, "lost")
        BY <1>3 DEF LockForPromote
  <2> QED BY <1>1, <1>2, <2>1, Lockers DEF Report, Step, Outcome
<1>4. CASE lock[For[m]] = "free"
  <2>1. PICK s \in {"planning", "finishing"}, o \in {outcome[m], "missing"} :
            Go(m, s) /\ outcome' = [outcome EXCEPT ![m] = o]
        BY <1>1, <1>4 DEF LockForPromote, Finish, Report
  <2>2. s \in Step /\ o \in Outcome
        BY <1>1 DEF Step, Outcome
  <2>3. lock' = [lock EXCEPT ![For[m]] = m]
        BY <1>4 DEF LockForPromote
  <2> QED BY <1>1, <2>1, <2>2, <2>3, Lockers
<1> QED BY <1>3, <1>4

\* Between its first plan and its end a mover keeps what it has.
LEMMA MovesOn ==
    ASSUME CInv, RInv, NEW m \in Mover, NEW s \in Step, NEW o \in Outcome, Go(m, s),
           outcome' = [outcome EXCEPT ![m] = o], lock' = lock,
           pc[m] \notin {"idle", "locking"},
           s \notin {"idle", "locking", "over"},
           faults' = 0 => faults = 0,
           s # "failed" \/ faults' # 0,
           s = "finishing" /\ Kind[m] = "surface" /\ faults' = 0 =>
              o \in {"landed", "missing", "contended"}
    PROVE  RInv'
<1>1. lock'[For[m]] = m /\ faults' = 0 => Kind[m] \in {"surface", "promote"}
      BY DEF RInv, Returns
<1> QED BY <1>1, Lockers

LEMMA AttemptReturns ==
    ASSUME CInv, RInv, NEW m \in Mover,
           Plan(m) \/ Push(m) \/ Confirm(m) \/ Retry(m)
    PROVE  RInv'
<1>1. /\ outcome = [outcome EXCEPT ![m] = outcome[m]] /\ outcome[m] \in Outcome
      /\ pc[m] \notin {"idle", "locking"} /\ lock' = lock
      BY CountFacts DEF Plan, Push, Confirm, Retry, At
<1>2. faults' = 0 => faults = 0
      BY Faults DEF Plan, Push, Confirm, Retry
<1>3. {"pushing", "confirming", "retrying", "outraced", "failed", "finishing",
       "planning"} \subseteq Step
      BY DEF Step
<1>4. {"landed", "missing", "lost", "contended", "error"} \subseteq Outcome
      BY DEF Outcome
<1>5. CASE Plan(m)
  <2>1. PICK s \in {"pushing", "finishing"}, o \in {outcome[m], "landed", "missing", "lost"} :
            /\ Go(m, s) /\ outcome' = [outcome EXCEPT ![m] = o]
            /\ s = "finishing" /\ Kind[m] = "surface" => o \in {"landed", "missing"}
        BY <1>1, <1>5 DEF Plan, Finish, Report
  <2> QED BY <1>1, <1>2, <1>3, <1>4, <2>1, MovesOn
<1>6. CASE Push(m)
  <2>1. PICK s \in {"confirming", "failed", "outraced"} : Go(m, s) /\ (s = "failed" => Fault)
        BY <1>6 DEF Push
  <2>2. outcome' = outcome
        BY <1>6 DEF Push
  <2> QED BY <1>1, <1>2, <1>3, <2>1, <2>2, Faults, MovesOn
<1>7. CASE Confirm(m)
  <2>1. PICK s \in {"retrying", "finishing"}, o \in {outcome[m], "landed"} :
            /\ Go(m, s) /\ outcome' = [outcome EXCEPT ![m] = o]
            /\ s = "finishing" => o = "landed"
        BY <1>1, <1>7 DEF Confirm, Finish, Report
  <2> QED BY <1>1, <1>2, <1>3, <1>4, <2>1, MovesOn
<1>8. CASE Retry(m)
  <2>1. PICK s \in {"planning", "finishing"}, o \in {outcome[m], "contended", "error"} :
            /\ Go(m, s) /\ outcome' = [outcome EXCEPT ![m] = o]
            /\ s = "finishing" /\ Kind[m] = "surface" => o = "contended"
        BY <1>1, <1>8 DEF Retry, Finish, Report
  <2> QED BY <1>1, <1>2, <1>3, <1>4, <2>1, MovesOn
<1> QED BY <1>5, <1>6, <1>7, <1>8

\* Without faults a push that is outraced lost to a commit of main.
LEMMA ClassifyReturns ==
    ASSUME CInv, RInv, NEW m \in Mover, Classify(m)
    PROVE  RInv'
<1>1. /\ outcome = [outcome EXCEPT ![m] = outcome[m]] /\ outcome[m] \in Outcome
      /\ pc[m] \in {"outraced", "failed"} /\ lock' = lock /\ Count(m)
      /\ version \in Nat /\ base[m].version \in Nat
      BY CountFacts DEF Classify
<1>2. faults' = 0 => faults = 0
      BY Faults DEF Classify
<1>3. PICK s \in {"retrying", "finishing"}, o \in {outcome[m], "refused"} :
          Go(m, s) /\ outcome' = [outcome EXCEPT ![m] = o]
      BY <1>1 DEF Classify, Rejected, Refused, Finish, Report
<1>4. faults' = 0 => pc[m] = "outraced" /\ version # base[m].version
      BY <1>1, <1>2 DEF RInv, Returns, Count
<1>5. faults' = 0 => s = "retrying"
  <2> SUFFICES ASSUME faults' = 0 PROVE s = "retrying"
        OBVIOUS
  <2>1. Go(m, "retrying")
        BY <1>4, Faults DEF Classify, Rejected
  <2>2. pc'[m] = "retrying" /\ pc'[m] = s
        BY <1>3, <2>1 DEF Go, CInv, TypeOK
  <2> QED BY <2>2
<1>6. s \in Step /\ o \in Outcome
      BY <1>1 DEF Step, Outcome
<1> QED BY <1>1, <1>2, <1>3, <1>5, <1>6, MovesOn

LEMMA EndReturns ==
    ASSUME CInv, RInv, NEW m \in Mover, Conclude(m) \/ Crash(m)
    PROVE  RInv'
<1>1. CASE Crash(m)
      BY <1>1, Faults DEF Crash, RInv
<1>2. CASE Conclude(m)
  <2>1. /\ outcome = [outcome EXCEPT ![m] = outcome[m]] /\ outcome[m] \in Outcome
        /\ pc[m] = "finishing" /\ outcome' = outcome /\ Go(m, "over")
        /\ m \notin {"free", "run"} /\ For[m] \in Item /\ DOMAIN lock = Item
        BY <1>2, CountFacts, ConstantsAssumption DEF Conclude, At, CInv, TypeOK
  <2>2. faults' = 0 => faults = 0
        BY <1>2, Faults DEF Conclude
  <2>3. lock' = lock \/ lock' = [lock EXCEPT ![For[m]] = "free"]
        BY <1>2 DEF Conclude
  <2>4. faults = 0 => Returns(m)
        BY DEF RInv
  <2>5. lock'[For[m]] = m /\ faults' = 0 =>
            Kind[m] = "surface" /\ outcome[m] \in {"missing", "contended"}
    <3> SUFFICES ASSUME lock'[For[m]] = m, faults' = 0
                 PROVE  Kind[m] = "surface" /\ outcome[m] \in {"missing", "contended"}
          OBVIOUS
    <3>1. lock' = lock /\ ~GivesBack(m)
          BY <1>2, <2>1, Faults DEF Conclude
    <3> QED BY <2>1, <2>2, <2>4, <3>1 DEF Returns, GivesBack
  <2>6. Kind[m] = "surface" /\ faults' = 0 =>
            outcome[m] \in {"landed", "bodyAbsent", "missing", "contended"}
        BY <2>1, <2>2, <2>4 DEF Returns
  <2>7. "over" \in Step
        BY DEF Step
  <2> QED BY <2>1, <2>2, <2>3, <2>5, <2>6, <2>7, Lockers
<1> QED BY <1>1, <1>2

LEMMA OthersReturn ==
    ASSUME CInv, RInv, NEW i \in Item,
           Claim(i) \/ Land(i) \/ Answer(i) \/ Apply(i)
    PROVE  RInv'
<1>1. UNCHANGED <<pc, outcome, faults>>
      BY DEF Claim, Land, Answer, Apply, Commit
<1>2. PICK l \in {"free", "run"} : lock' = lock \/ lock' = [lock EXCEPT ![i] = l]
      BY DEF Claim, Land, Answer, Apply
<1>3. ASSUME NEW x \in Mover, lock'[For[x]] = x PROVE lock[For[x]] = x
      BY <1>2, <1>3, ConstantsAssumption DEF CInv, TypeOK
<1> QED BY <1>1, <1>3, ReturnsFrame DEF RInv

LEMMA Returned == Spec => []RInv
<1>1. Init => RInv
  <2> SUFFICES ASSUME Init, NEW m \in Mover PROVE Returns(m)
        BY DEF RInv
  <2>1. For[m] \in Item /\ m \notin {"free", "run"}
        BY ConstantsAssumption
  <2> QED BY <2>1 DEF Init, Returns
<1>2. CInv /\ MInv /\ RInv /\ [Next]_vars => RInv'
  <2> SUFFICES ASSUME CInv, MInv, RInv, [Next]_vars PROVE RInv'
        OBVIOUS
  <2>1. CASE UNCHANGED vars
        BY <2>1 DEF vars, RInv, Returns
  <2>2. ASSUME NEW m \in Mover, LockForPromote(m) PROVE Kind[m] = "promote"
        BY <2>2 DEF LockForPromote, MInv, PathOK
  <2>3. ASSUME NEW m \in Mover, Begin(m) \/ MoverStep(m) \/ Crash(m)
        PROVE  RInv'
        BY <2>2, <2>3, BeginReturns, LockReturns, AttemptReturns, ClassifyReturns,
            EndReturns DEF MoverStep
  <2>4. ASSUME NEW i \in Item, Claim(i) \/ Land(i) \/ Answer(i) \/ Apply(i)
        PROVE  RInv'
        BY <2>4, OthersReturn
  <2> QED BY <2>1, <2>3, <2>4 DEF Next
<1> QED BY <1>1, <1>2, Counted, Inductive, PTL DEF Spec

\* When no fault happens, a move that is over holds the item's lock only because
\* its question is not on main.
THEOREM LocksAreReturned == Spec => []LocksComeBack
<1>1. RInv => LocksComeBack
      BY DEF RInv, Returns, LocksComeBack, At
<1> QED BY <1>1, Returned, PTL

-----------------------------------------------------------------------------
(* Every move ends *)

\* How far a step is from the end of a move, retries apart.
Depth(s) ==
    CASE s = "over" -> 0
      [] s = "finishing" -> 1
      [] s = "retrying" -> 2
      [] s \in {"confirming", "outraced", "failed"} -> 3
      [] s = "pushing" -> 4
      [] s = "planning" -> 5
      [] s = "locking" -> 6
      [] s = "idle" -> 7

\* How many steps a mover may still take.
Left(m) == 4 * (MaxAttempts - 1 - attempt[m]) + Depth(pc[m])

LeftIsBounded == \A m \in Mover : Left(m) \in 0 .. 4 * (MaxAttempts - 1) + 7

MovesGetShorter ==
    \A m \in Mover :
        /\ Begin(m) \/ MoverStep(m) \/ Crash(m) => Left(m)' < Left(m)
        /\ Left(m)' <= Left(m)

LEMMA DepthType ==
    ASSUME NEW s \in Step
    PROVE  Depth(s) \in 0 .. 7
    BY DEF Depth, Step

\* A step of a mover comes nearer to its end, or plans once more.
LEMMA MoverAdvances ==
    ASSUME CInv, NEW m \in Mover, Begin(m) \/ MoverStep(m) \/ Crash(m)
    PROVE  \/ attempt'[m] = attempt[m] /\ Depth(pc'[m]) < Depth(pc[m])
           \/ /\ attempt'[m] = attempt[m] + 1 /\ attempt[m] + 1 < MaxAttempts
              /\ Depth(pc'[m]) <= Depth(pc[m]) + 3
<1> USE DEF CInv, TypeOK, At, Go, Finish, Rejected
<1>1. CASE Begin(m)
      BY <1>1 DEF Begin, StartSurface, StartPromote, StartNote, StartCreate, StartDrain,
          Depth
<1>2. CASE LockForPromote(m) \/ Plan(m)
      BY <1>2 DEF LockForPromote, Plan, Depth
<1>3. CASE Push(m) \/ Confirm(m)
      BY <1>3 DEF Push, Confirm, Depth
<1>4. CASE Classify(m)
      BY <1>4 DEF Classify, Refused, Depth
<1>5. CASE Retry(m)
  <2>1. attempt[m] \in Nat /\ MaxAttempts \in Nat /\ Depth(pc[m]) = 2
        BY <1>5, ConstantsAssumption DEF Retry, Depth
  <2>2. CASE attempt' = attempt /\ pc'[m] = "finishing"
    <3>1. Depth(pc'[m]) = 1
          BY <2>2 DEF Depth
    <3> QED BY <2>1, <2>2, <3>1
  <2>3. CASE /\ attempt' = [attempt EXCEPT ![m] = @ + 1] /\ ~Exhausted(m)
             /\ pc'[m] \in {"finishing", "planning"}
    <3>1. attempt'[m] = attempt[m] + 1 /\ attempt[m] + 1 < MaxAttempts
          BY <2>1, <2>3 DEF Exhausted
    <3>2. Depth(pc'[m]) \in {1, 5}
          BY <2>3 DEF Depth
    <3> QED BY <2>1, <3>1, <3>2
  <2> QED BY <1>5, <2>2, <2>3 DEF Retry
<1>6. CASE Conclude(m)
      BY <1>6 DEF Conclude, Depth
<1>7. CASE Crash(m)
  <2>1. pc[m] \in Step \ {"idle", "over"} /\ Depth(pc'[m]) = 0 /\ attempt' = attempt
        BY <1>7 DEF Crash, Depth
  <2>2. Depth(pc[m]) \in 1 .. 6
        BY <2>1 DEF Depth, Step
  <2> QED BY <2>1, <2>2
<1> QED BY <1>1, <1>2, <1>3, <1>4, <1>5, <1>6, <1>7 DEF MoverStep

\* What a step of others leaves of a mover.
LEMMA Waits ==
    ASSUME CInv, [Next]_vars, NEW m \in Mover
    PROVE  \/ Begin(m) \/ MoverStep(m) \/ Crash(m)
           \/ pc'[m] = pc[m] /\ attempt'[m] = attempt[m]
<1>1. ASSUME NEW x \in Mover, x # m, Begin(x) \/ MoverStep(x) \/ Crash(x)
      PROVE  pc'[m] = pc[m] /\ attempt'[m] = attempt[m]
  <2>1. PICK s \in Step : pc' = [pc EXCEPT ![x] = s]
        BY <1>1 DEF Begin, StartSurface, StartPromote, StartNote, StartCreate,
            StartDrain, MoverStep, LockForPromote, Plan, Push, Confirm, Classify, Retry,
            Conclude, Crash, Go, Finish, Rejected, Refused, Step
  <2>2. attempt' = attempt \/ attempt' = [attempt EXCEPT ![x] = @ + 1]
        BY <1>1 DEF Begin, StartSurface, StartPromote, StartNote, StartCreate,
            StartDrain, MoverStep, LockForPromote, Plan, Push, Confirm, Classify, Retry,
            Conclude, Crash
  <2> QED BY <1>1, <2>1, <2>2 DEF CInv, TypeOK
<1>2. ASSUME NEW i \in Item, Claim(i) \/ Land(i) \/ Answer(i) \/ Apply(i)
      PROVE  pc' = pc /\ attempt' = attempt
      BY <1>2 DEF Claim, Land, Answer, Apply, Commit
<1>3. CASE UNCHANGED vars
      BY <1>3 DEF vars
<1> QED BY <1>1, <1>2, <1>3 DEF Next

LEMMA LeftStep ==
    ASSUME CInv, CInv', [Next]_vars, NEW m \in Mover
    PROVE  /\ Begin(m) \/ MoverStep(m) \/ Crash(m) => Left(m)' < Left(m)
           /\ Left(m)' <= Left(m)
<1>1. /\ attempt[m] \in 0 .. MaxAttempts - 1 /\ attempt'[m] \in 0 .. MaxAttempts - 1
      /\ MaxAttempts \in Nat
      /\ Depth(pc[m]) \in 0 .. 7 /\ Depth(pc'[m]) \in 0 .. 7
      BY DepthType, ConstantsAssumption DEF CInv, TypeOK
<1>2. CASE Begin(m) \/ MoverStep(m) \/ Crash(m)
  <2>1. \/ attempt'[m] = attempt[m] /\ Depth(pc'[m]) < Depth(pc[m])
        \/ attempt'[m] = attempt[m] + 1 /\ Depth(pc'[m]) <= Depth(pc[m]) + 3
        BY <1>2, MoverAdvances
  <2>2. Left(m)' < Left(m)
        BY <1>1, <2>1 DEF Left
  <2>3. Left(m)' \in Nat /\ Left(m) \in Nat
        BY <1>1 DEF Left
  <2> QED BY <2>2, <2>3
<1>3. CASE /\ ~(Begin(m) \/ MoverStep(m) \/ Crash(m))
           /\ pc'[m] = pc[m] /\ attempt'[m] = attempt[m]
      BY <1>1, <1>3 DEF Left
<1> QED BY <1>2, <1>3, Waits

\* Every move ends, whoever pushes to main and however often: from its first step
\* on each step of a mover, whether it goes on, is refused, retries or dies, lowers
\* Left, which is a natural number below four times its attempts, and no step of
\* anybody raises it.
THEOREM MovesAreBounded == Spec => []LeftIsBounded /\ [][MovesGetShorter]_vars
<1>1. CInv => LeftIsBounded
  <2> SUFFICES ASSUME CInv, NEW m \in Mover
               PROVE  Left(m) \in 0 .. 4 * (MaxAttempts - 1) + 7
      BY DEF LeftIsBounded
  <2>1. /\ attempt[m] \in 0 .. MaxAttempts - 1 /\ MaxAttempts \in Nat
        /\ Depth(pc[m]) \in 0 .. 7
        BY DepthType, ConstantsAssumption DEF CInv, TypeOK
  <2> QED BY <2>1 DEF Left
<1>2. CInv /\ CInv' /\ [Next]_vars => MovesGetShorter
      BY LeftStep DEF MovesGetShorter
<1> QED BY <1>1, <1>2, Counted, PTL DEF Spec

-----------------------------------------------------------------------------
(* The locks are the register that the per-item lock implements *)

Locks == {"free", "run"} \cup Mover

NoCommit == [entry |-> "none", action |-> "none", holder |-> "none", since |-> 0,
             kept |-> FALSE]

\* The lock commit of an item: a surface works under the lock of the build that
\* bounced, a promote under an advance of its own.
CommitOf(i, l) ==
    IF l = "free" THEN NoCommit
    ELSE [entry |-> i,
          action |-> IF l # "run" /\ Kind[l] = "promote" THEN "advance"
                                                         ELSE "implement",
          holder |-> "anyone", since |-> 0, kept |-> FALSE]

Refs == [i \in Item |-> CommitOf(i, lock[i])]

Register ==
    INSTANCE LockRegister
    WITH LockCommit <- {CommitOf(p[1], p[2]) : p \in Item \X Locks},
         NoLock <- NoCommit, ref <- Refs

\* What a step does to the locks.
LockMoves ==
    \/ lock' = lock
    \/ \E i \in Item :
          \/ lock' = [lock EXCEPT ![i] = "free"]
          \/ \E l \in {"run"} \cup Mover :
                lock[i] = "free" /\ lock' = [lock EXCEPT ![i] = l]
    \/ \E m \in Mover :
          /\ Kind[m] = "surface" /\ lock[For[m]] = "run"
          /\ lock' = [lock EXCEPT ![For[m]] = m]

LEMMA LockMovesSo == ASSUME [Next]_vars PROVE LockMoves
<1> USE ConstantsAssumption DEF LockMoves
<1>1. ASSUME NEW m \in Mover, Begin(m)
      PROVE  LockMoves
  <2>1. CASE StartSurface(m)
        BY <2>1 DEF StartSurface
  <2>2. CASE StartPromote(m) \/ StartNote(m) \/ StartCreate(m) \/ StartDrain(m)
        BY <2>2 DEF StartPromote, StartNote, StartCreate, StartDrain
  <2> QED BY <1>1, <2>1, <2>2 DEF Begin
<1>2. ASSUME NEW m \in Mover, MoverStep(m) \/ Crash(m)
      PROVE  LockMoves
  <2>1. CASE LockForPromote(m) \/ Conclude(m)
        BY <2>1 DEF LockForPromote, Conclude
  <2>2. CASE Plan(m) \/ Push(m) \/ Confirm(m) \/ Classify(m) \/ Retry(m) \/ Crash(m)
        BY <2>2 DEF Plan, Push, Confirm, Classify, Retry, Crash
  <2> QED BY <1>2, <2>1, <2>2 DEF MoverStep
<1>3. ASSUME NEW i \in Item, Claim(i) \/ Land(i) \/ Answer(i) \/ Apply(i)
      PROVE  LockMoves
  <2>1. CASE Claim(i) \/ Land(i)
        BY <2>1 DEF Claim, Land
  <2>2. CASE Answer(i) \/ Apply(i)
        BY <2>2 DEF Answer, Apply
  <2> QED BY <1>3, <2>1, <2>2
<1>4. CASE UNCHANGED vars
      BY <1>4 DEF vars
<1> QED BY <1>1, <1>2, <1>3, <1>4 DEF Next

LEMMA RegisterMoves ==
    ASSUME lock \in [Item -> Locks], lock' \in [Item -> Locks], LockMoves
    PROVE  Register!Next \/ Refs' = Refs
<1> USE DEF Locks
<1>1. ASSUME NEW i \in Item, NEW l \in Locks, lock' = [lock EXCEPT ![i] = l]
      PROVE  Refs' = [Refs EXCEPT ![i] = CommitOf(i, l)]
      BY <1>1 DEF Refs
<1>2. ASSUME NEW i \in Item, NEW l \in Locks \ {"free"}
      PROVE  CommitOf(i, l) # NoCommit /\ Register!Fresh(i, CommitOf(i, l))
  <2>1. CommitOf(i, l).action # "none" /\ NoCommit.action = "none"
        BY <1>2 DEF CommitOf, NoCommit
  <2>2. CommitOf(i, l).entry = i /\ ~CommitOf(i, l).kept
        BY <1>2 DEF CommitOf
  <2> QED BY <2>1, <2>2 DEF Register!Fresh
<1>3. ASSUME NEW i \in Item, lock' = [lock EXCEPT ![i] = "free"], lock[i] # "free"
      PROVE  Register!Next
  <2>1. Refs' = [Refs EXCEPT ![i] = NoCommit]
        BY <1>1, <1>3 DEF CommitOf
  <2>2. lock[i] \in Locks \ {"free"} /\ Refs[i] = CommitOf(i, lock[i])
        BY <1>3 DEF Refs
  <2>3. Refs[i] # NoCommit
        BY <1>2, <2>2
  <2> QED BY <2>1, <2>3 DEF Register!Next, Register!Drop
<1>4. ASSUME NEW i \in Item, NEW l \in Locks \ {"free"}, lock[i] = "free",
             lock' = [lock EXCEPT ![i] = l]
      PROVE  Register!Next
  <2>1. Refs[i] = NoCommit /\ Refs' = [Refs EXCEPT ![i] = CommitOf(i, l)]
        BY <1>1, <1>4 DEF Refs, CommitOf
  <2>2. CommitOf(i, l) \in {CommitOf(p[1], p[2]) : p \in Item \X Locks}
    <3>1. <<i, l>> \in Item \X Locks
          OBVIOUS
    <3> QED BY <3>1
  <2>3. Register!Grab(i, CommitOf(i, l))
        BY <1>2, <2>1 DEF Register!Grab
  <2> QED BY <2>2, <2>3 DEF Register!Next
<1>5. ASSUME NEW m \in Mover, Kind[m] = "surface", lock[For[m]] = "run",
             lock' = [lock EXCEPT ![For[m]] = m]
      PROVE  Refs' = Refs
  <2>1. For[m] \in Item /\ m \notin {"free", "run"}
        BY ConstantsAssumption
  <2>2. CommitOf(For[m], m) = CommitOf(For[m], "run")
        BY <1>5, <2>1 DEF CommitOf
  <2>3. Refs' = [Refs EXCEPT ![For[m]] = CommitOf(For[m], m)]
        BY <1>1, <1>5, <2>1
  <2>4. Refs[For[m]] = CommitOf(For[m], "run")
        BY <1>5, <2>1 DEF Refs
  <2> QED BY <2>2, <2>3, <2>4 DEF Refs
<1>6. CASE lock' = lock
      BY <1>6 DEF Refs
<1>7. ASSUME NEW i \in Item, lock' = [lock EXCEPT ![i] = "free"], lock[i] = "free"
      PROVE  Refs' = Refs
  <2>1. lock' = lock
        BY <1>7
  <2> QED BY <2>1 DEF Refs
<1>8. {"run"} \cup Mover \subseteq Locks \ {"free"}
      BY ConstantsAssumption
<1> QED BY <1>3, <1>4, <1>5, <1>6, <1>7, <1>8 DEF LockMoves

\* Whose lock it is: a held one is dropped, or passes from a bounced build to the
\* surface of its own item.
HeldLocksStay ==
    \A i \in Item :
        lock[i] # "free" =>
            \/ lock'[i] \in {lock[i], "free"}
            \/ lock[i] = "run" /\ lock'[i] \in Mover
               /\ Kind[lock'[i]] = "surface" /\ For[lock'[i]] = i

LEMMA LockMovesSpareHolders ==
    ASSUME lock \in [Item -> Locks], LockMoves
    PROVE  HeldLocksStay
<1>1. \A m \in Mover : For[m] \in Item
      BY ConstantsAssumption
<1> QED BY <1>1 DEF LockMoves, HeldLocksStay

\* Moves, claims and lands treat the locks as the per-item lock lets them
\* (ItemLock implements the same LockRegister): a held lock is dropped, by whom
\* the code lets, and never overwritten; the surface works under the lock of the
\* build whose bounce it tells of.
THEOREM LockDiscipline == Spec => Register!Spec /\ [][HeldLocksStay]_vars
<1>1. Init => Register!Init
      BY DEF Init, Refs, CommitOf, Register!Init
<1>2. CInv => lock \in [Item -> Locks]
      BY DEF CInv, TypeOK, Locks
<1>3. CInv /\ CInv' /\ [Next]_vars => [Register!Next]_Refs /\ HeldLocksStay
  <2> SUFFICES ASSUME CInv, CInv', [Next]_vars
               PROVE  [Register!Next]_Refs /\ HeldLocksStay
      OBVIOUS
  <2>1. lock' \in [Item -> Locks]
        BY DEF CInv, TypeOK, Locks
  <2> QED BY <1>2, <2>1, LockMovesSo, RegisterMoves, LockMovesSpareHolders
<1> HIDE DEF HeldLocksStay
<1> QED BY <1>1, <1>3, Counted, PTL DEF Spec, Register!Spec
=============================================================================
