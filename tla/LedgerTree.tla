----------------------------- MODULE LedgerTree -----------------------------
(***************************************************************************)
(* The work ledger as it stands on the arbiter's main, and what one commit  *)
(* does to it.  An item is a file; the folder it is in is its status, its   *)
(* frontmatter has the needsAnswers flag, and a sidecar file beside it has  *)
(* the questions asked about it.                                            *)
(***************************************************************************)
EXTENDS Naturals, Sequences

CONSTANTS
    Item,       \* slugs
    Reason,     \* what a question asks, its text and context
    Mover,      \* the processes that write moves
    NoOne

ASSUME NoOneAssumption == NoOne \notin Mover

\* Where a file may be: in a folder of the tasks, among the observations, minted
\* from an observation, or nowhere.
Pool == {"backlog", "ready"}
Terminal == {"done", "cancelled"}
Folder == Pool \cup Terminal \cup {"observations", "minted", "absent"}

\* Where a bounced item's body is looked for (BOUNCE_BODY_PROBE_ORDER).
Live == Pool \cup {"observations"}

Entry == [reason : Reason, answered : BOOLEAN]

\* One item: an empty sidecar is no sidecar file; `notes` are the requeue notes in
\* its body, `by` who created it.
File == [folder : Folder, flag : BOOLEAN, sidecar : Seq(Entry),
         notes : Seq(Mover), by : Mover \cup {NoOne}]

Tree == [Item -> File]

Put(tree, i, file) == [tree EXCEPT ![i] = file]

\* A file in another folder, with other question state.
Refiled(file, folder, flag, sidecar) ==
    [folder |-> folder, flag |-> flag, sidecar |-> sidecar,
     notes |-> file.notes, by |-> file.by]

Answered(file) == \E k \in DOMAIN file.sidecar : file.sidecar[k].answered
AllAnswered(file) ==
    file.sidecar # <<>> /\ \A k \in DOMAIN file.sidecar : file.sidecar[k].answered

\* Nothing is asked yet.
Quiet(file) == ~file.flag /\ file.sidecar = <<>> /\ file.notes = <<>>

Pending(file, r) ==
    {k \in DOMAIN file.sidecar :
        file.sidecar[k].reason = r /\ ~file.sidecar[k].answered}

-----------------------------------------------------------------------------
(* The moves *)

\* Mutant: a surface that landed before is not recognised.
AlreadySurfaced_Never(file, r) == FALSE

\* bounceAlreadySurfaced.
AlreadySurfaced(file, r) == file.flag /\ Pending(file, r) # {}

\* prepareTreelessSurfaceCommit: the flag and the question in one commit.  An apply
\* that asks on does the same.
Surfaced(file, r) ==
    Refiled(file, file.folder, TRUE,
            Append(file.sidecar, [reason |-> r, answered |-> FALSE]))

Promoted(file) == Refiled(file, "ready", file.flag, file.sidecar)

Noted(file, m) ==
    [folder |-> file.folder, flag |-> file.flag, sidecar |-> file.sidecar,
     notes |-> Append(file.notes, m), by |-> file.by]

CreatedBy(m) ==
    [folder |-> "minted", flag |-> FALSE, sidecar |-> <<>>, notes |-> <<>>,
     by |-> m]

Removed(file) == Refiled(file, "absent", FALSE, <<>>)

\* createAttempt: the new file and the removal of the observation it was minted
\* from, with its sidecar, if it is still there.
Minted(tree, i, source, m) ==
    [j \in Item |->
        IF j = i THEN CreatedBy(m)
        ELSE IF j = source /\ tree[j].folder = "observations" THEN Removed(tree[j])
        ELSE tree[j]]

\* Mutants: a stranded answer is drained with the questions; the folder the body
\* is in is not looked at.
Drainable_Answered(file) == file.folder \in Terminal /\ file.sidecar # <<>>
Drainable_Live(file) == file.sidecar # <<>> /\ ~Answered(file)

\* A terminal item's questions, none of them answered.
Drainable(file) ==
    file.folder \in Terminal /\ file.sidecar # <<>> /\ ~Answered(file)

\* A completed item whose flag has no sidecar (collectStrandedTerminalFlags).
StaleFlag(file) == file.folder = "done" /\ file.flag /\ file.sidecar = <<>>

\* prepareTerminalQuestionDrainCommit: a cancelled item keeps its flag.
Drained(file) ==
    IF Drainable(file) \/ StaleFlag(file)
    THEN Refiled(file, file.folder, file.flag /\ file.folder # "done", <<>>)
    ELSE file

\* A landing folds the item's own question residue in, unless somebody answered.
Folded(file) ==
    IF Answered(file) THEN Refiled(file, "done", file.flag, file.sidecar)
                      ELSE Refiled(file, "done", FALSE, <<>>)

\* Merged on the forge: the done-move alone.
Merged(file) == Refiled(file, "done", file.flag, file.sidecar)

\* A human's edit of the sidecar.
WithAnswer(file, k) ==
    Refiled(file, file.folder, file.flag,
            [file.sidecar EXCEPT ![k] =
                [reason |-> file.sidecar[k].reason, answered |-> TRUE]])

\* applyAtomic: the flag cleared and the sidecar deleted in one commit.
Resolved(file) == Refiled(file, file.folder, FALSE, <<>>)

\* disposeToTerminal and disposeObservationByDeletion: the flag stays in a file
\* that moves.
Disposed(file) ==
    IF file.folder = "observations"
    THEN Removed(file) ELSE Refiled(file, "cancelled", file.flag, <<>>)
=============================================================================
