---------------------------- MODULE LedgerProofs ----------------------------
(***************************************************************************)
(* Theorems about the abstract ledger.                                      *)
(***************************************************************************)
EXTENDS Ledger, TLAPS

\* What holds of each file.  A file that is not there, or new, has no questions.
FileOK(f) ==
    /\ f \in File
    /\ f.folder \in Live => (f.flag <=> f.sidecar # <<>>)
    /\ f.folder \in {"absent", "minted"} => f.sidecar = <<>>
    /\ \A r \in Reason : \A j, k \in Pending(f, r) : j = k

LInv == tree \in [Item -> File] /\ \A i \in Item : FileOK(tree[i])

\* What a change of one file does to its answers.
AnswersKept(f, g) ==
    Answered(f) /\ ~Answered(g) => AllAnswered(f) \/ f.folder = "observations"

-----------------------------------------------------------------------------
(* What each move does to a file *)

\* A file with the folder and question state it is given is a file.
LEMMA RefiledType ==
    ASSUME NEW f \in File, NEW folder \in Folder, NEW flag \in BOOLEAN,
           NEW s \in Seq(Entry)
    PROVE  /\ Refiled(f, folder, flag, s) \in File
           /\ Refiled(f, folder, flag, s).folder = folder
           /\ Refiled(f, folder, flag, s).flag = flag
           /\ Refiled(f, folder, flag, s).sidecar = s
    BY DEF Refiled, File

\* A sidecar with an answer put in has the same entries, one of them answered.
LEMMA AnswerType ==
    ASSUME NEW s \in Seq(Entry), NEW k \in DOMAIN s
    PROVE  LET t == [s EXCEPT ![k] = [reason |-> s[k].reason, answered |-> TRUE]]
           IN  /\ t \in Seq(Entry)
               /\ DOMAIN t = DOMAIN s
               /\ t # <<>>
               /\ \A j \in DOMAIN s :
                    /\ t[j].reason = s[j].reason
                    /\ t[j].answered <=> s[j].answered \/ j = k
<1> DEFINE e == [reason |-> s[k].reason, answered |-> TRUE]
           t == [s EXCEPT ![k] = e]
<1>1. \A j \in DOMAIN s : s[j] \in Entry
      OBVIOUS
<1>2. e \in Entry /\ e.reason = s[k].reason /\ e.answered = TRUE
      BY <1>1 DEF Entry
<1>3. t \in Seq(Entry) /\ DOMAIN t = DOMAIN s
      BY <1>2
<1>4. t # <<>>
      BY <1>3
<1>5. ASSUME NEW j \in DOMAIN s
      PROVE  t[j].reason = s[j].reason /\ (t[j].answered <=> s[j].answered \/ j = k)
  <2>1. CASE j = k
        BY <2>1, <1>2
  <2>2. CASE j # k
        BY <2>2
  <2> QED BY <2>1, <2>2
<1> QED BY <1>3, <1>4, <1>5

\* A move that clears the questions of a file keeps it well formed.
LEMMA ClearedOK ==
    ASSUME NEW f \in File, NEW folder \in Folder, NEW flag \in BOOLEAN,
           folder \in Live => ~flag
    PROVE  /\ FileOK(Refiled(f, folder, flag, <<>>))
           /\ ~Answered(Refiled(f, folder, flag, <<>>))
<1> DEFINE g == Refiled(f, folder, flag, <<>>)
<1>1. <<>> \in Seq(Entry)
      OBVIOUS
<1>2. g \in File /\ g.folder = folder /\ g.flag = flag /\ g.sidecar = <<>>
      BY <1>1 DEF Refiled, File
<1>3. DOMAIN g.sidecar = {}
      BY <1>2
<1>4. \A r \in Reason : Pending(g, r) = {}
      BY <1>3 DEF Pending
<1>5. FileOK(g)
      BY <1>2, <1>4 DEF FileOK
<1> QED BY <1>3, <1>5 DEF Answered

\* One that keeps them, with another folder or flag, does so too.
LEMMA MovedOK ==
    ASSUME NEW f, FileOK(f), NEW folder \in Folder, NEW flag \in BOOLEAN,
           folder \in Live => (flag <=> f.sidecar # <<>>),
           folder \in {"absent", "minted"} => f.sidecar = <<>>
    PROVE  /\ FileOK(Refiled(f, folder, flag, f.sidecar))
           /\ Answered(Refiled(f, folder, flag, f.sidecar)) <=> Answered(f)
<1> DEFINE g == Refiled(f, folder, flag, f.sidecar)
<1>1. f \in File /\ f.sidecar \in Seq(Entry)
      BY DEF FileOK, File
<1>2. g \in File /\ g.folder = folder /\ g.flag = flag /\ g.sidecar = f.sidecar
      BY <1>1, RefiledType
<1>3. \A r \in Reason : Pending(g, r) = Pending(f, r)
      BY <1>2 DEF Pending
<1>4. FileOK(g)
      BY <1>2, <1>3 DEF FileOK
<1> QED BY <1>2, <1>4 DEF Answered

\* A note changes no question.
LEMMA NotedOK ==
    ASSUME NEW f, FileOK(f), NEW m \in Mover
    PROVE  FileOK(Noted(f, m)) /\ (Answered(Noted(f, m)) <=> Answered(f))
<1> DEFINE g == Noted(f, m)
<1>1. f \in File /\ f.notes \in Seq(Mover)
      BY DEF FileOK, File
<1>2. Append(f.notes, m) \in Seq(Mover)
      BY <1>1
<1>3. /\ g \in File
      /\ g.folder = f.folder /\ g.flag = f.flag /\ g.sidecar = f.sidecar
      BY <1>1, <1>2 DEF Noted, File
<1>4. \A r \in Reason : Pending(g, r) = Pending(f, r)
      BY <1>3 DEF Pending
<1>5. FileOK(g)
      BY <1>3, <1>4 DEF FileOK
<1> QED BY <1>3, <1>5 DEF Answered

\* What is created has no questions.
LEMMA CreatedOK ==
    ASSUME NEW m \in Mover
    PROVE  FileOK(CreatedBy(m))
<1>1. CreatedBy(m) \in File /\ CreatedBy(m).sidecar = <<>>
      BY DEF CreatedBy, File, Folder
<1>2. \A r \in Reason : Pending(CreatedBy(m), r) = {}
      BY <1>1 DEF Pending
<1> QED BY <1>1, <1>2 DEF FileOK, CreatedBy, Live, Pool

\* A question is asked with its flag, and only when it is not pending.
LEMMA SurfacedOK ==
    ASSUME NEW f, FileOK(f), NEW r \in Reason,
           f.folder \notin {"absent", "minted"}, Pending(f, r) = {}
    PROVE  FileOK(Surfaced(f, r)) /\ (Answered(f) => Answered(Surfaced(f, r)))
<1> DEFINE e == [reason |-> r, answered |-> FALSE]
           s == Append(f.sidecar, e)
           g == Surfaced(f, r)
<1>1. f \in File /\ f.sidecar \in Seq(Entry) /\ f.folder \in Folder
      BY DEF FileOK, File
<1>2. e \in Entry
      BY DEF Entry
<1>3. /\ s \in Seq(Entry) /\ s # <<>>
      /\ DOMAIN s = DOMAIN f.sidecar \cup {Len(f.sidecar) + 1}
      /\ \A k \in DOMAIN f.sidecar : s[k] = f.sidecar[k]
      /\ s[Len(f.sidecar) + 1] = e
      /\ Len(f.sidecar) + 1 \notin DOMAIN f.sidecar
      BY <1>1, <1>2
<1>4. g \in File /\ g.folder = f.folder /\ g.flag = TRUE /\ g.sidecar = s
      BY <1>1, <1>3 DEF Surfaced, Refiled, File
<1>5. ASSUME NEW x \in Reason
      PROVE  \A j, k \in Pending(g, x) : j = k
  <2>1. CASE x = r
    <3>1. Pending(g, x) \subseteq {Len(f.sidecar) + 1}
          BY <1>3, <1>4, <2>1 DEF Pending
    <3> QED BY <3>1
  <2>2. CASE x # r
    <3>1. Pending(g, x) \subseteq Pending(f, x)
          BY <1>3, <1>4, <2>2 DEF Pending
    <3> QED BY <3>1 DEF FileOK
  <2> QED BY <2>1, <2>2
<1>6. FileOK(g)
      BY <1>3, <1>4, <1>5 DEF FileOK
<1>7. Answered(f) => Answered(g)
      BY <1>3, <1>4 DEF Answered
<1> QED BY <1>6, <1>7

\* An answer makes one question less pending.
LEMMA WithAnswerOK ==
    ASSUME NEW f, FileOK(f), NEW k \in DOMAIN f.sidecar
    PROVE  FileOK(WithAnswer(f, k)) /\ Answered(WithAnswer(f, k))
<1> DEFINE s == [f.sidecar EXCEPT ![k] =
                    [reason |-> f.sidecar[k].reason, answered |-> TRUE]]
           g == WithAnswer(f, k)
<1>1. /\ f \in File /\ f.sidecar \in Seq(Entry)
      /\ f.folder \in Folder /\ f.flag \in BOOLEAN
      BY DEF FileOK, File
<1>2. /\ s \in Seq(Entry) /\ DOMAIN s = DOMAIN f.sidecar /\ s # <<>>
      /\ \A j \in DOMAIN f.sidecar :
            /\ s[j].reason = f.sidecar[j].reason
            /\ s[j].answered <=> f.sidecar[j].answered \/ j = k
      BY <1>1, AnswerType
<1>3. g \in File /\ g.folder = f.folder /\ g.flag = f.flag /\ g.sidecar = s
      BY <1>1, <1>2 DEF WithAnswer, Refiled, File
<1>4. f.sidecar # <<>>
      BY <1>1
<1>5. \A r \in Reason : Pending(g, r) \subseteq Pending(f, r)
      BY <1>2, <1>3 DEF Pending
<1>6. FileOK(g)
  <2>1. g.folder \in Live => (g.flag <=> g.sidecar # <<>>)
        BY <1>2, <1>3, <1>4 DEF FileOK
  <2>2. g.folder \notin {"absent", "minted"}
        BY <1>3, <1>4 DEF FileOK
  <2>3. \A r \in Reason : \A i, j \in Pending(g, r) : i = j
        BY <1>5 DEF FileOK
  <2> QED BY <1>3, <2>1, <2>2, <2>3 DEF FileOK
<1>7. Answered(g)
      BY <1>2, <1>3 DEF Answered
<1> QED BY <1>6, <1>7

-----------------------------------------------------------------------------
(* What each move does to the ledger *)

\* What a step promises.
GoodStep ==
    /\ tree' \in [Item -> File]
    /\ \A i \in Item : FileOK(tree'[i]) /\ AnswersKept(tree[i], tree'[i])

\* It is enough to look at the one file that changes.
LEMMA ChangeOK ==
    ASSUME LInv, NEW i \in Item, NEW g, Change(i, g), FileOK(g),
           AnswersKept(tree[i], g)
    PROVE  GoodStep
<1>1. g \in File
      BY DEF FileOK
<1>2. tree' = [tree EXCEPT ![i] = g] /\ tree \in [Item -> File]
      BY DEF LInv, Change, Put
<1>3. tree' \in [Item -> File]
      BY <1>1, <1>2
<1>4. ASSUME NEW j \in Item
      PROVE  FileOK(tree'[j]) /\ AnswersKept(tree[j], tree'[j])
  <2>1. CASE j = i
        BY <1>2, <2>1
  <2>2. CASE j # i
        BY <1>2, <2>2 DEF LInv, AnswersKept
  <2> QED BY <2>1, <2>2
<1> QED BY <1>3, <1>4 DEF GoodStep

\* The facts about a file that every case below uses.
LEMMA FileFacts ==
    ASSUME LInv, NEW i \in Item
    PROVE  /\ FileOK(tree[i])
           /\ tree[i] \in File
           /\ tree[i].folder \in Folder
           /\ tree[i].flag \in BOOLEAN
    BY DEF LInv, FileOK, File

\* A surface.
LEMMA SurfaceStep ==
    ASSUME LInv, NEW i \in Item, NEW r \in Reason, Surface(i, r)
    PROVE  GoodStep
<1> DEFINE f == tree[i]
<1>1. FileOK(f) /\ f \in File
      BY FileFacts
<1>2. Pending(f, r) = {}
  <2>1. SUFFICES ASSUME Pending(f, r) # {} PROVE FALSE
        OBVIOUS
  <2>2. f.sidecar # <<>>
        BY <2>1 DEF Pending
  <2>3. f.flag
        BY <1>1, <2>2 DEF FileOK, Surface
  <2> QED BY <2>1, <2>3 DEF Surface, AlreadySurfaced
<1>3. f.folder \notin {"absent", "minted"}
      BY DEF Surface, Live, Pool
<1>4. FileOK(Surfaced(f, r)) /\ (Answered(f) => Answered(Surfaced(f, r)))
      BY <1>1, <1>2, <1>3, SurfacedOK
<1> QED BY <1>4, ChangeOK DEF Surface, AnswersKept

\* A promotion.
LEMMA PromoteStep ==
    ASSUME LInv, NEW i \in Item, Promote(i)
    PROVE  GoodStep
<1> DEFINE f == tree[i]
<1>1. FileOK(f) /\ f.folder = "backlog" /\ f.flag \in BOOLEAN
      BY FileFacts DEF Promote
<1>2. f.flag <=> f.sidecar # <<>>
      BY <1>1 DEF FileOK, Live, Pool
<1>3. FileOK(Promoted(f)) /\ (Answered(Promoted(f)) <=> Answered(f))
      BY <1>1, <1>2, MovedOK DEF Promoted, Folder, Pool
<1> QED BY <1>3, ChangeOK DEF Promote, AnswersKept

\* A requeue note.
LEMMA NoteStep ==
    ASSUME LInv, NEW i \in Item, NEW m \in Mover, Note(i, m)
    PROVE  GoodStep
<1>1. FileOK(Noted(tree[i], m))
      /\ (Answered(Noted(tree[i], m)) <=> Answered(tree[i]))
      BY FileFacts, NotedOK
<1> QED BY <1>1, ChangeOK DEF Note, AnswersKept

\* A create: the new file had no questions, and its source was an observation.
LEMMA CreateStep ==
    ASSUME LInv, NEW i \in Item, NEW source \in Item, NEW m \in Mover,
           Create(i, source, m)
    PROVE  GoodStep
<1> DEFINE f == tree[source]
<1>1. tree' = Minted(tree, i, source, m) /\ tree \in [Item -> File]
      BY DEF Create, LInv
<1>2. FileOK(CreatedBy(m))
      BY CreatedOK
<1>3. ~Answered(tree[i])
  <2>1. tree[i].sidecar = <<>>
        BY FileFacts DEF Create, FileOK
  <2> QED BY <2>1 DEF Answered
<1>4. FileOK(Removed(f))
      BY FileFacts, ClearedOK DEF Removed, Folder, Live, Pool
<1>5. ASSUME NEW j \in Item
      PROVE  FileOK(tree'[j]) /\ AnswersKept(tree[j], tree'[j])
  <2>1. CASE j = i
        BY <1>1, <1>2, <1>3, <2>1 DEF Minted, AnswersKept
  <2>2. CASE j # i /\ j = source /\ tree[j].folder = "observations"
        BY <1>1, <1>4, <2>2 DEF Minted, AnswersKept
  <2>3. CASE j # i /\ ~(j = source /\ tree[j].folder = "observations")
        BY <1>1, <2>3, FileFacts DEF Minted, AnswersKept
  <2> QED BY <2>1, <2>2, <2>3
<1>6. tree' \in [Item -> File]
  <2>1. \A j \in Item : tree'[j] \in File
        BY <1>5 DEF FileOK
  <2> QED BY <1>1, <2>1 DEF Minted
<1> QED BY <1>5, <1>6 DEF GoodStep

\* A drain: it takes nothing that anybody answered.
LEMMA DrainStep ==
    ASSUME LInv, Drain
    PROVE  GoodStep
<1>1. ASSUME NEW j \in Item
      PROVE  FileOK(Drained(tree[j])) /\ AnswersKept(tree[j], Drained(tree[j]))
  <2> DEFINE f == tree[j]
  <2>1. FileOK(f) /\ f \in File /\ f.folder \in Folder /\ f.flag \in BOOLEAN
        BY FileFacts
  <2>2. CASE Drainable(f) \/ StaleFlag(f)
    <3>1. f.folder \notin Live /\ ~Answered(f)
          BY <2>2 DEF Drainable, StaleFlag, Terminal, Live, Pool, Answered
    <3>2. (f.flag /\ f.folder # "done") \in BOOLEAN
          OBVIOUS
    <3>3. FileOK(Drained(f))
          BY <2>1, <2>2, <3>1, <3>2, ClearedOK DEF Drained
    <3> QED BY <3>1, <3>3 DEF AnswersKept
  <2>3. CASE ~(Drainable(f) \/ StaleFlag(f))
        BY <2>1, <2>3 DEF Drained, AnswersKept
  <2> QED BY <2>2, <2>3
<1>2. tree' = [j \in Item |-> Drained(tree[j])]
      BY DEF Drain
<1>3. \A j \in Item : Drained(tree[j]) \in File
      BY <1>1 DEF FileOK
<1>4. tree' \in [Item -> File]
      BY <1>2, <1>3
<1> QED BY <1>1, <1>2, <1>4 DEF GoodStep

\* A landing.
LEMMA LandStep ==
    ASSUME LInv, NEW i \in Item, Land(i)
    PROVE  GoodStep
<1> DEFINE f == tree[i]
<1>1. FileOK(f) /\ f \in File /\ f.flag \in BOOLEAN
      BY FileFacts
<1>2. "done" \in Folder \ (Live \cup {"absent", "minted"})
      BY DEF Folder, Live, Pool, Terminal
<1>3. FileOK(Refiled(f, "done", f.flag, f.sidecar))
      /\ (Answered(Refiled(f, "done", f.flag, f.sidecar)) <=> Answered(f))
      BY <1>1, <1>2, MovedOK
<1>4. FileOK(Refiled(f, "done", FALSE, <<>>))
      BY <1>1, <1>2, ClearedOK
<1>5. FileOK(Folded(f)) /\ AnswersKept(f, Folded(f))
      BY <1>3, <1>4 DEF Folded, AnswersKept
<1>6. FileOK(Merged(f)) /\ AnswersKept(f, Merged(f))
      BY <1>3 DEF Merged, AnswersKept
<1> QED BY <1>5, <1>6, ChangeOK DEF Land

\* A human's answer.
LEMMA AnswerStep ==
    ASSUME LInv, NEW i \in Item, Answer(i)
    PROVE  GoodStep
<1>1. PICK k \in DOMAIN tree[i].sidecar : Change(i, WithAnswer(tree[i], k))
      BY DEF Answer
<1>2. FileOK(WithAnswer(tree[i], k)) /\ Answered(WithAnswer(tree[i], k))
      BY FileFacts, WithAnswerOK
<1> QED BY <1>1, <1>2, ChangeOK DEF AnswersKept

\* An apply: every question of the item has its answer.
LEMMA ApplyStep ==
    ASSUME LInv, NEW i \in Item, Apply(i)
    PROVE  GoodStep
<1> DEFINE f == tree[i]
<1>1. FileOK(f) /\ f \in File /\ f.folder \in Folder /\ f.flag \in BOOLEAN
      BY FileFacts
<1>2. AllAnswered(f) /\ f.folder \in Live \cup {"done"}
      BY DEF Apply
<1>3. \A g : AnswersKept(f, g)
      BY <1>2 DEF AnswersKept
<1>4. CASE Change(i, Resolved(f))
  <2>1. FileOK(Resolved(f))
        BY <1>1, ClearedOK DEF Resolved
  <2> QED BY <1>3, <1>4, <2>1, ChangeOK
<1>5. CASE Change(i, Disposed(f))
  <2>1. FileOK(Refiled(f, "absent", FALSE, <<>>))
        BY <1>1, ClearedOK DEF Folder
  <2>2. FileOK(Refiled(f, "cancelled", f.flag, <<>>))
        BY <1>1, ClearedOK DEF Folder, Terminal, Live, Pool
  <2>3. FileOK(Disposed(f))
        BY <2>1, <2>2 DEF Disposed, Removed
  <2> QED BY <1>3, <1>5, <2>3, ChangeOK
<1>6. ASSUME NEW r \in Reason, Change(i, Surfaced(f, r))
      PROVE  GoodStep
  <2>1. Pending(f, r) = {}
        BY <1>2 DEF AllAnswered, Pending
  <2>2. f.folder \notin {"absent", "minted"}
        BY <1>2 DEF Live, Pool
  <2>3. FileOK(Surfaced(f, r))
        BY <1>1, <2>1, <2>2, SurfacedOK
  <2> QED BY <1>3, <1>6, <2>3, ChangeOK
<1> QED BY <1>4, <1>5, <1>6 DEF Apply

-----------------------------------------------------------------------------
(* The theorems *)

\* At first nobody asks anything.
LEMMA InitOK ==
    ASSUME Init PROVE LInv
<1>1. ASSUME NEW i \in Item PROVE FileOK(tree[i])
  <2>1. tree[i] \in File /\ ~tree[i].flag /\ tree[i].sidecar = <<>>
        BY DEF Init, Tree, Quiet
  <2>2. \A r \in Reason : Pending(tree[i], r) = {}
        BY <2>1 DEF Pending
  <2> QED BY <2>1, <2>2 DEF FileOK
<1> QED BY <1>1 DEF Init, Tree, LInv

\* Every step keeps the files well formed and the answers on main.
LEMMA StepOK ==
    ASSUME LInv, Next
    PROVE  GoodStep
<1>1. CASE Drain
      BY <1>1, DrainStep
<1>2. ASSUME NEW i \in Item, NEW r \in Reason, Surface(i, r) PROVE GoodStep
      BY <1>2, SurfaceStep
<1>3. ASSUME NEW i \in Item, NEW m \in Mover, Note(i, m) PROVE GoodStep
      BY <1>3, NoteStep
<1>4. ASSUME NEW i \in Item, NEW m \in Mover, NEW source \in Item,
             Create(i, source, m)
      PROVE  GoodStep
      BY <1>4, CreateStep
<1>5. ASSUME NEW i \in Item, Promote(i) \/ Land(i) \/ Answer(i) \/ Apply(i)
      PROVE  GoodStep
      BY <1>5, PromoteStep, LandStep, AnswerStep, ApplyStep
<1> QED BY <1>1, <1>2, <1>3, <1>4, <1>5 DEF Next

\* The files of the ledger are always well formed.
LEMMA Wellformed == Spec => []LInv
<1>1. Init => LInv
      BY InitOK
<1>2. LInv /\ [Next]_tree => LInv'
  <2>1. LInv /\ Next => LInv'
        BY StepOK DEF GoodStep, LInv
  <2>2. LInv /\ UNCHANGED tree => LInv'
        BY DEF LInv
  <2> QED BY <2>1, <2>2
<1> QED BY <1>1, <1>2, PTL DEF Spec

\* needsAnswers and the sidecar go together on every live item, whatever moves
\* are made in whatever order.
THEOREM LedgerFlagIffSidecar == Spec => []FlagIffSidecar
<1>1. LInv => FlagIffSidecar
      BY DEF LInv, FileOK, FlagIffSidecar
<1> QED BY <1>1, Wellformed, PTL

\* No question is pending twice.
THEOREM LedgerNoDuplicatePending == Spec => []NoDuplicatePending
<1>1. LInv => NoDuplicatePending
      BY DEF LInv, FileOK, NoDuplicatePending
<1> QED BY <1>1, Wellformed, PTL

\* No answer leaves main unapplied.
THEOREM LedgerAnswersSurvive == Spec => AnswersSurvive
<1>1. LInv /\ [Next]_tree => [\A i \in Item :
                Answered(tree[i]) /\ ~Answered(tree'[i]) =>
                    AllAnswered(tree[i]) \/ tree[i].folder = "observations"]_tree
      BY StepOK DEF GoodStep, AnswersKept
<1> QED BY <1>1, Wellformed, PTL DEF Spec, AnswersSurvive
=============================================================================
