------------------------------- MODULE Ledger -------------------------------
(***************************************************************************)
(* What the ledger promises: every change of main is one whole move, made   *)
(* on the ledger as it stands at that moment.                               *)
(***************************************************************************)
EXTENDS LedgerTree

VARIABLE tree

Change(i, file) == tree' = Put(tree, i, file)

Init == tree \in Tree /\ \A i \in Item : Quiet(tree[i])

Surface(i, r) ==
    /\ tree[i].folder \in Live
    /\ ~AlreadySurfaced(tree[i], r)
    /\ Change(i, Surfaced(tree[i], r))

Promote(i) == tree[i].folder = "backlog" /\ Change(i, Promoted(tree[i]))

Note(i, m) == tree[i].folder \in Pool /\ Change(i, Noted(tree[i], m))

Create(i, source, m) ==
    /\ i # source /\ tree[i].folder = "absent"
    /\ tree' = Minted(tree, i, source, m)

Drain == tree' = [i \in Item |-> Drained(tree[i])]

Land(i) ==
    /\ tree[i].folder \in Pool
    /\ \/ Change(i, Folded(tree[i]))
       \/ Change(i, Merged(tree[i]))

Answer(i) ==
    \E k \in DOMAIN tree[i].sidecar : Change(i, WithAnswer(tree[i], k))

Apply(i) ==
    /\ AllAnswered(tree[i])
    /\ tree[i].folder \in Live \cup {"done"}
    /\ \/ Change(i, Resolved(tree[i]))
       \/ Change(i, Disposed(tree[i]))
       \/ \E r \in Reason : Change(i, Surfaced(tree[i], r))

Next ==
    \/ \E i \in Item :
        \/ \E r \in Reason : Surface(i, r)
        \/ \E m \in Mover, source \in Item : Note(i, m) \/ Create(i, source, m)
        \/ Promote(i) \/ Land(i) \/ Answer(i) \/ Apply(i)
    \/ Drain

Spec == Init /\ [][Next]_tree

-----------------------------------------------------------------------------
(* Properties *)

\* needsAnswers and the sidecar file go together on every item that is not
\* terminal, so that no item waits for an answer nobody was asked for, and none
\* is built with a question open (needs-attention.ts, "the needsAnswers <=>
\* sidecar invariant").
FlagIffSidecar ==
    \A i \in Item :
        tree[i].folder \in Live => (tree[i].flag <=> tree[i].sidecar # <<>>)

\* A question is never pending twice on one item, however often its move was
\* retried.
NoDuplicatePending ==
    \A i \in Item, r \in Reason :
        \A j, k \in Pending(tree[i], r) : j = k

\* A human's answer leaves main only with every question of its item answered,
\* or with an observation that was minted into something else.
AnswersSurvive ==
    [][\A i \in Item :
        Answered(tree[i]) /\ ~Answered(tree'[i]) =>
            AllAnswered(tree[i]) \/ tree[i].folder = "observations"]_tree
=============================================================================
