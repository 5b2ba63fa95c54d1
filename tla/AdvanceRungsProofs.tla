-------------------------- MODULE AdvanceRungsProofs --------------------------
(***************************************************************************)
(* What holds of AdvanceRungs for every set of ticks, local and CI, and for *)
(* every number of builds, questions and faults.                            *)
(*                                                                          *)
(* A copy of the item, wherever it is kept, has at most one merge question  *)
(* that waits (OneMerge): it is a copy of main, or what a rung made of one, *)
(* and a rung asks for a merge again only when all is answered.             *)
(*                                                                          *)
(* BookInv adds what a tick knows of the item it read (ReadInv), what the   *)
(* answers on main say of the branch (HumanInv) and which items can have a  *)
(* branch or an artifact (KindInv); every step then changes the sidecar as  *)
(* a step of the abstract book does.  AskedInv adds what the only local     *)
(* tick knows while it acts under its lock (Holds).                         *)
(***************************************************************************)
EXTENDS AdvanceRungs, SequenceTheorems, WellFoundedInduction, TLAPS

OneMerge(f) ==
    \A i, j \in DOMAIN f.asked :
        (Waits(f, i, "merge") /\ Waits(f, j, "merge")) => i = j

TickInv(t) ==
    /\ OneMerge(saw[t]) /\ OneMerge(result[t])
    /\ pc[t] \in {"idle", "lock", "agent"} => product[t] = "none"
    /\ product[t] = "restale" => Rung(saw[t]) = "apply"

AskerInv == asker.pc = "publish" => NoMergeQuestion(asker.saw)

IInv ==
    /\ TypeOK
    /\ OneMerge(file)
    /\ \A t \in Tick : TickInv(t)
    /\ AskerInv

-----------------------------------------------------------------------------
(* Items *)

LEMMA VerbKinds == DOMAIN Verbs = {"open", "stuck", "merge"}
  BY DEF Verbs

Place == {"ready", "done", "cancelled", "inbox", "gone"}

\* An item moved, and an item with another sidecar and flag.
LEMMA MovedItem ==
    ASSUME NEW f \in Item, NEW place \in Place
    PROVE  /\ [f EXCEPT !.place = place] \in Item
           /\ [f EXCEPT !.place = place].asked = f.asked
  BY DEF Item, Place

LEMMA FlaggedItem ==
    ASSUME NEW f \in Item, NEW flag \in BOOLEAN, NEW asked \in Seq(Entry)
    PROVE  /\ [f EXCEPT !.asked = asked, !.flag = flag] \in Item
           /\ [f EXCEPT !.asked = asked, !.flag = flag].asked = asked
  BY DEF Item

\* An item whose answers are recorded, and one that is cancelled.
LEMMA RecordedItem ==
    ASSUME NEW f \in Item, NEW triaged \in BOOLEAN
    PROVE  [f EXCEPT !.asked = <<>>, !.flag = FALSE, !.triaged = triaged] \in Item
<1>1. <<>> \in Seq(Entry)
  OBVIOUS
<1> QED
  BY <1>1 DEF Item

LEMMA CancelledItem ==
    ASSUME NEW f \in Item
    PROVE  [f EXCEPT !.place = "cancelled", !.asked = <<>>] \in Item
<1>1. <<>> \in Seq(Entry)
  OBVIOUS
<1> QED
  BY <1>1 DEF Item

LEMMA QuestionIsEntry ==
    ASSUME NEW a \in DOMAIN Verbs
    PROVE  Question(a) \in Entry
  BY DEF Question, Entry

LEMMA AppendFacts ==
    ASSUME NEW f \in Item, NEW a \in DOMAIN Verbs
    PROVE  /\ Append1(f, a) \in Item
           /\ Append1(f, a).asked = Append(f.asked, Question(a))
<1>1. f.asked \in Seq(Entry) /\ Append(f.asked, Question(a)) \in Seq(Entry)
  BY QuestionIsEntry DEF Item
<1>2. Append1(f, a) = [f EXCEPT !.asked = Append(f.asked, Question(a)), !.flag = TRUE]
  BY DEF Append1
<1>3. TRUE \in BOOLEAN
  OBVIOUS
<1> DEFINE asked == Append(f.asked, Question(a))
<1>4. /\ [f EXCEPT !.asked = asked, !.flag = TRUE] \in Item
      /\ [f EXCEPT !.asked = asked, !.flag = TRUE].asked = asked
  <2>1. asked \in Seq(Entry)
    BY <1>1
  <2> HIDE DEF asked
  <2> QED
    BY <1>3, <2>1, FlaggedItem
<1> QED
  BY <1>2, <1>4

LEMMA NoItemFacts == NoItem \in Item /\ OneMerge(NoItem)
  BY DEF NoItem, Item, OneMerge

LEMMA CopyIsItem ==
    ASSUME NEW f \in Item, NEW p \in Product
    PROVE  Copy(f, p) \in Item
<1>1. Recorded(f) \in Item
  <2>1. (~IsTask(f)) \in BOOLEAN
    BY DEF IsTask
  <2> QED
    BY <2>1, RecordedItem DEF Recorded
<1>2. Cancelled(f) \in Item
  BY CancelledItem DEF Cancelled
<1>3. Append1(f, "open") \in Item /\ Append1(f, "merge") \in Item
  BY AppendFacts, VerbKinds
<1> QED
  BY <1>1, <1>2, <1>3, NoItemFacts DEF Copy, Product

LEMMA OntoIsItem ==
    ASSUME NEW old \in Item, NEW new \in Item, file \in Item
    PROVE  Onto(old, new) \in Item /\ Onto(old, new).asked = new.asked
  BY DEF Onto, Item

LEMMA AppendOneMerge ==
    ASSUME NEW f \in Item, NEW a \in DOMAIN Verbs, OneMerge(f),
           a # "merge" \/ \A i \in DOMAIN f.asked : ~Waits(f, i, "merge")
    PROVE  OneMerge(Append1(f, a))
<1>1. f.asked \in Seq(Entry) /\ Append1(f, a).asked = Append(f.asked, Question(a))
  BY AppendFacts DEF Item
<1>2. /\ DOMAIN Append1(f, a).asked = DOMAIN f.asked \cup {Len(f.asked) + 1}
      /\ \A i \in DOMAIN f.asked : Append1(f, a).asked[i] = f.asked[i]
      /\ Append1(f, a).asked[Len(f.asked) + 1] = Question(a)
  BY <1>1, QuestionIsEntry
<1>3. Question(a).ask = a
  BY DEF Question
<1> QED
  BY <1>2, <1>3 DEF OneMerge, Waits

LEMMA ApplyIsAnswered ==
    ASSUME NEW f \in Item, Rung(f) = "apply"
    PROVE  AllAnswered(f)
  BY DEF Rung, Gated, Present, Item

LEMMA CopyOneMerge ==
    ASSUME NEW f \in Item, NEW p \in Product, OneMerge(f),
           p = "restale" => Rung(f) = "apply"
    PROVE  OneMerge(Copy(f, p))
<1>1. OneMerge(Recorded(f)) /\ OneMerge(Cancelled(f))
  BY DEF Recorded, Cancelled, OneMerge, Item
<1>2. OneMerge(Append1(f, "open"))
  BY AppendOneMerge, VerbKinds
<1>3. p = "restale" => OneMerge(Append1(f, "merge"))
  BY AppendOneMerge, ApplyIsAnswered, VerbKinds DEF AllAnswered, Waits
<1> QED
  BY <1>1, <1>2, <1>3, NoItemFacts DEF Copy, Product

LEMMA ProductsFacts ==
    ASSUME NEW f \in Item, NEW b \in Branch, NEW p \in Products(f, b)
    PROVE  /\ p \in Product
           /\ p = "restale" => Rung(f) = "apply"
<1>1. Verb(f, "stuck") \in {"reset", "cancel"} => Verb(f, "stuck") \in Product
  BY DEF Product
<1>2. p \in TriageProducts(f) \cup SurfaceProducts \cup ApplyProducts(f, b)
  BY DEF Products
<1>3. p \in Product
  BY <1>2 DEF TriageProducts, SurfaceProducts, ApplyProducts, DecisionProducts,
              MergeProducts, StuckProducts, Product
<1>4. "restale" \notin TriageProducts(f) \cup SurfaceProducts
  BY DEF TriageProducts, SurfaceProducts
<1> QED
  BY <1>3, <1>4 DEF Products

LEMMA SurfaceFacts ==
    ASSUME file \in Item, OneMerge(file), Surface
    PROVE  file' \in Item /\ OneMerge(file)'
<1>1. Append1(file, "stuck") \in Item /\ OneMerge(Append1(file, "stuck"))
  BY AppendFacts, AppendOneMerge, VerbKinds
<1> QED
  BY <1>1 DEF Surface, OneMerge, Waits

LEMMA LandFacts ==
    ASSUME file \in Item, OneMerge(file), Land
    PROVE  /\ file' \in Item /\ OneMerge(file)' /\ file'.asked = file.asked
           /\ branch' \in Branch /\ request' \in BOOLEAN /\ minted' = minted
<1>1. /\ branch' \in Branch /\ request' \in BOOLEAN /\ minted' = minted
  BY DEF Land, NoBranch, Branch
<1>2. file' = file \/ file' = [file EXCEPT !.place = "done"]
  BY DEF Land, Item
<1>4. file' \in Item /\ file'.asked = file.asked
  BY <1>2, MovedItem DEF Place
<1> QED
  BY <1>1, <1>4 DEF OneMerge, Waits

LEMMA EffectFacts ==
    ASSUME TypeOK, OneMerge(file), NEW p, Effect(p)
    PROVE  /\ file' \in Item /\ OneMerge(file)'
           /\ branch' \in Branch /\ request' \in BOOLEAN /\ minted' \subseteq Slug
<1>1. CASE p = "mint" /\ Mint
  BY <1>1, NoItemFacts DEF Mint, CreateItem, TypeOK, OneMerge, Waits
<1>2. CASE p = "reset" /\ DropBranch
  BY <1>2 DEF DropBranch, NoBranch, Branch, TypeOK, OneMerge, Waits
<1>3. CASE UNCHANGED <<file, branch, request, minted>>
  BY <1>3 DEF TypeOK, OneMerge, Waits
<1> QED
  BY <1>1, <1>2, <1>3 DEF Effect

-----------------------------------------------------------------------------
(* The steps *)

Pcs == {"idle", "lock", "agent", "act", "record", "publish", "release"}

\* The parts of the type invariant.
ArbiterOK ==
    /\ file \in Item /\ branch \in Branch /\ request \in BOOLEAN
    /\ lock \in [by : Tick \cup {"nobody", "builder", "left"}, kept : BOOLEAN]
    /\ minted \subseteq Slug

TickOK ==
    /\ pc \in [Tick -> Pcs]
    /\ saw \in [Tick -> Item]
    /\ seenTip \in [Tick -> Branch]
    /\ product \in [Tick -> Product]
    /\ result \in [Tick -> Item]
    /\ stale \in [Tick -> BOOLEAN]

OtherOK ==
    /\ builds \in 0..MaxBuilds
    /\ asker \in [pc : {"idle", "publish"}, saw : Item]
    /\ faults \in 0..MaxFaults

LEMMA TypeParts == TypeOK <=> ArbiterOK /\ TickOK /\ OtherOK
  BY DEF TypeOK, ArbiterOK, TickOK, OtherOK, Pcs

\* The others know what they knew.
OthersSame(t) ==
    \A u \in Tick \ {t} :
        pc'[u] = pc[u] /\ saw'[u] = saw[u] /\ product'[u] = product[u] /\ result'[u] = result[u]

LEMMA Combine ==
    ASSUME IInv, ArbiterOK', TickOK', OtherOK', OneMerge(file)', AskerInv',
           NEW t \in Tick, TickInv(t)', OthersSame(t)
    PROVE  IInv'
<1>1. TypeOK'
  BY TypeParts DEF TypeOK, ArbiterOK, TickOK, OtherOK, Pcs
<1>2. ASSUME NEW u \in Tick \ {t}  PROVE TickInv(u)'
  <2>1. TickInv(u)
    BY DEF IInv
  <2> QED
    BY <1>2, <2>1 DEF OthersSame, TickInv, OneMerge, Waits, Rung, Gated, Present,
                      IsTask, AllAnswered
<1> QED
  BY <1>1, <1>2 DEF IInv

LEMMA EndFacts ==
    ASSUME TypeOK, NEW t \in Tick, End(t)
    PROVE  TickOK' /\ TickInv(t)' /\ OthersSame(t)
<1>1. TickOK'
  BY NoItemFacts DEF End, Goto, TypeOK, TickOK, Pcs, NoBranch, Branch, Product
<1>2. /\ pc'[t] = "idle" /\ saw'[t] = NoItem /\ product'[t] = "none" /\ result'[t] = NoItem
      /\ OthersSame(t)
  BY DEF End, Goto, OthersSame, TypeOK
<1>3. TickInv(t)'
  BY <1>2, NoItemFacts DEF TickInv, OneMerge, Waits
<1> QED
  BY <1>1, <1>2, <1>3

\* A step that leaves main's item alone.
LEMMA FileSame ==
    ASSUME IInv, file' = file
    PROVE  OneMerge(file)'
  BY DEF IInv, OneMerge, Waits

LEMMA ClassifyKeeps ==
    ASSUME IInv, NEW t \in Tick, Classify(t)
    PROVE  IInv'
<1> USE DEF Classify, Goto, Fault
<1>1. TypeOK /\ ArbiterOK /\ TickOK /\ OtherOK /\ OneMerge(file) /\ TickInv(t) /\ AskerInv
  BY TypeParts DEF IInv
<1>2. OtherOK' /\ AskerInv'
  BY <1>1, ConstantsAssumption DEF OtherOK, AskerInv, NoMergeQuestion
<1>3. ArbiterOK'
  BY <1>1 DEF ArbiterOK, NoLock
<1>4. OneMerge(file)'
  BY FileSame
<1>5. TickOK' /\ OthersSame(t)
  BY <1>1 DEF ArbiterOK, TickOK, Pcs, OthersSame, KeptMergeTip, NoBranch, Branch
<1>6. TickInv(t)'
  BY <1>1 DEF TickOK, TickInv, OneMerge, Waits, Pcs
<1> QED
  BY <1>2, <1>3, <1>4, <1>5, <1>6, Combine

LEMMA ClassifyAtBaseKeeps ==
    ASSUME IInv, NEW t \in Tick, ClassifyAtBase(t)
    PROVE  IInv'
<1> USE DEF ClassifyAtBase, Goto, Fault
<1>1. TypeOK /\ ArbiterOK /\ TickOK /\ OtherOK /\ OneMerge(file) /\ TickInv(t) /\ AskerInv
  BY TypeParts DEF IInv
<1>2. OtherOK' /\ AskerInv'
  BY <1>1, ConstantsAssumption DEF OtherOK, AskerInv, NoMergeQuestion
<1>3. ArbiterOK'
  BY <1>1 DEF ArbiterOK, NoLock
<1>4. OneMerge(file)'
  BY FileSame
<1>5. TickOK' /\ OthersSame(t)
  BY <1>1 DEF ArbiterOK, TickOK, Pcs, OthersSame, KeptMergeTip, NoBranch, Branch
<1>6. TickInv(t)'
  BY <1>1 DEF TickOK, TickInv, OneMerge, Waits, Pcs
<1> QED
  BY <1>2, <1>3, <1>4, <1>5, <1>6, Combine

LEMMA LockKeeps ==
    ASSUME IInv, NEW t \in Tick, Lock(t)
    PROVE  IInv'
<1> USE DEF Lock, Goto, Fault
<1>1. TypeOK /\ ArbiterOK /\ TickOK /\ OtherOK /\ OneMerge(file) /\ TickInv(t) /\ AskerInv
  BY TypeParts DEF IInv
<1>2. OtherOK' /\ AskerInv'
  BY <1>1, ConstantsAssumption DEF OtherOK, AskerInv, NoMergeQuestion
<1>3. ArbiterOK'
  BY <1>1 DEF ArbiterOK
<1>4. OneMerge(file)'
  BY FileSame
<1>5. TickOK' /\ OthersSame(t)
  BY <1>1 DEF TickOK, Pcs, OthersSame
<1>6. TickInv(t)'
  BY <1>1 DEF TickOK, TickInv, OneMerge, Waits
<1> QED
  BY <1>2, <1>3, <1>4, <1>5, <1>6, Combine

LEMMA LostKeeps ==
    ASSUME IInv, NEW t \in Tick, Lost(t)
    PROVE  IInv'
<1> USE DEF Lost, Goto, Fault
<1>1. TypeOK /\ ArbiterOK /\ TickOK /\ OtherOK /\ OneMerge(file) /\ TickInv(t) /\ AskerInv
  BY TypeParts DEF IInv
<1>2. OtherOK' /\ AskerInv'
  BY <1>1, ConstantsAssumption DEF OtherOK, AskerInv, NoMergeQuestion
<1>3. ArbiterOK'
  BY <1>1 DEF ArbiterOK, NoLock
<1>4. OneMerge(file)'
  BY FileSame
<1>5. TickOK' /\ TickInv(t)' /\ OthersSame(t)
  BY <1>1, EndFacts
<1> QED
  BY <1>2, <1>3, <1>4, <1>5, Combine

LEMMA NotOwnerKeeps ==
    ASSUME IInv, NEW t \in Tick, NotOwner(t)
    PROVE  IInv'
<1> USE DEF NotOwner, Goto, Fault
<1>1. TypeOK /\ ArbiterOK /\ TickOK /\ OtherOK /\ OneMerge(file) /\ TickInv(t) /\ AskerInv
  BY TypeParts DEF IInv
<1>2. OtherOK' /\ AskerInv'
  BY <1>1, ConstantsAssumption DEF OtherOK, AskerInv, NoMergeQuestion
<1>3. ArbiterOK'
  BY <1>1 DEF ArbiterOK, NoLock
<1>4. OneMerge(file)'
  BY FileSame
<1>5. TickOK' /\ TickInv(t)' /\ OthersSame(t)
  BY <1>1, EndFacts
<1> QED
  BY <1>2, <1>3, <1>4, <1>5, Combine

LEMMA StaleLeaseKeeps ==
    ASSUME IInv, NEW t \in Tick, StaleLease(t)
    PROVE  IInv'
<1> USE DEF StaleLease, Goto, Fault
<1>1. TypeOK /\ ArbiterOK /\ TickOK /\ OtherOK /\ OneMerge(file) /\ TickInv(t) /\ AskerInv
  BY TypeParts DEF IInv
<1>2. OtherOK' /\ AskerInv'
  BY <1>1, ConstantsAssumption DEF OtherOK, AskerInv, NoMergeQuestion
<1>3. ArbiterOK'
  BY <1>1 DEF ArbiterOK, NoLock
<1>4. OneMerge(file)'
  BY FileSame
<1>5. TickOK' /\ TickInv(t)' /\ OthersSame(t)
  BY <1>1, EndFacts
<1> QED
  BY <1>2, <1>3, <1>4, <1>5, Combine

LEMMA DieKeeps ==
    ASSUME IInv, NEW t \in Tick, Die(t)
    PROVE  IInv'
<1> USE DEF Die, Goto, Fault
<1>1. TypeOK /\ ArbiterOK /\ TickOK /\ OtherOK /\ OneMerge(file) /\ TickInv(t) /\ AskerInv
  BY TypeParts DEF IInv
<1>2. OtherOK' /\ AskerInv'
  BY <1>1, ConstantsAssumption DEF OtherOK, AskerInv, NoMergeQuestion
<1>3. ArbiterOK'
  BY <1>1 DEF ArbiterOK, NoLock
<1>4. OneMerge(file)'
  BY FileSame
<1>5. TickOK' /\ TickInv(t)' /\ OthersSame(t)
  BY <1>1, EndFacts
<1> QED
  BY <1>2, <1>3, <1>4, <1>5, Combine

LEMMA SurfaceItemKeeps ==
    ASSUME IInv, NEW t \in Tick, SurfaceItem(t)
    PROVE  IInv'
<1> USE DEF SurfaceItem, Goto, Fault
<1>1. TypeOK /\ ArbiterOK /\ TickOK /\ OtherOK /\ OneMerge(file) /\ TickInv(t) /\ AskerInv
  BY TypeParts DEF IInv
<1>2. OtherOK' /\ AskerInv'
  BY <1>1, ConstantsAssumption DEF OtherOK, AskerInv, NoMergeQuestion
<1>3. ArbiterOK'
  BY <1>1, SurfaceFacts DEF ArbiterOK, NoLock
<1>4. OneMerge(file)'
  BY <1>1, SurfaceFacts DEF ArbiterOK
<1>5. TickOK' /\ TickInv(t)' /\ OthersSame(t)
  BY <1>1, EndFacts
<1> QED
  BY <1>2, <1>3, <1>4, <1>5, Combine

LEMMA ApplyMergeFailsKeeps ==
    ASSUME IInv, NEW t \in Tick, ApplyMergeFails(t)
    PROVE  IInv'
<1> USE DEF ApplyMergeFails, Goto, Fault
<1>1. TypeOK /\ ArbiterOK /\ TickOK /\ OtherOK /\ OneMerge(file) /\ TickInv(t) /\ AskerInv
  BY TypeParts DEF IInv
<1>2. OtherOK' /\ AskerInv'
  BY <1>1, ConstantsAssumption DEF OtherOK, AskerInv, NoMergeQuestion
<1>3. ArbiterOK'
  BY <1>1, SurfaceFacts DEF ArbiterOK, NoLock
<1>4. OneMerge(file)'
  BY <1>1, SurfaceFacts, FileSame DEF ArbiterOK
<1>5. TickOK' /\ TickInv(t)' /\ OthersSame(t)
  BY <1>1, EndFacts
<1> QED
  BY <1>2, <1>3, <1>4, <1>5, Combine

LEMMA ActKeeps ==
    ASSUME IInv, NEW t \in Tick, Act(t)
    PROVE  IInv'
<1> USE DEF Act, Goto, Fault
<1>1. TypeOK /\ ArbiterOK /\ TickOK /\ OtherOK /\ OneMerge(file) /\ TickInv(t) /\ AskerInv
  BY TypeParts DEF IInv
<1>2. OtherOK' /\ AskerInv'
  BY <1>1, ConstantsAssumption DEF OtherOK, AskerInv, NoMergeQuestion
<1> PICK p \in Products(saw[t], branch) :
           /\ IF p = "land" THEN Land ELSE Effect(p)
           /\ result' = [result EXCEPT ![t] = Copy(saw[t], p)]
  OBVIOUS
<1>p. /\ saw[t] \in Item /\ branch \in Branch /\ p \in Product
      /\ p = "restale" => Rung(saw[t]) = "apply"
  BY <1>1, ProductsFacts DEF ArbiterOK, TickOK
<1>3. ArbiterOK'
  BY <1>1, LandFacts, EffectFacts DEF ArbiterOK
<1>4. OneMerge(file)'
  BY <1>1, LandFacts, EffectFacts DEF ArbiterOK
<1>c. Copy(saw[t], p) \in Item /\ OneMerge(Copy(saw[t], p))
  BY <1>1, <1>p, CopyIsItem, CopyOneMerge DEF TickInv
<1>5. TickOK' /\ OthersSame(t)
  BY <1>1, <1>c DEF TickOK, Pcs, OthersSame
<1>6. TickInv(t)'
  BY <1>1, <1>c DEF TickOK, TickInv, OneMerge, Waits, Rung, Gated, Present, IsTask,
                    AllAnswered
<1> QED
  BY <1>2, <1>3, <1>4, <1>5, <1>6, Combine

LEMMA ActFailsKeeps ==
    ASSUME IInv, NEW t \in Tick, ActFails(t)
    PROVE  IInv'
<1> USE DEF ActFails, Goto, Fault
<1>1. TypeOK /\ ArbiterOK /\ TickOK /\ OtherOK /\ OneMerge(file) /\ TickInv(t) /\ AskerInv
  BY TypeParts DEF IInv
<1>2. OtherOK' /\ AskerInv'
  BY <1>1, ConstantsAssumption DEF OtherOK, AskerInv, NoMergeQuestion
<1>3. ArbiterOK'
  BY <1>1 DEF ArbiterOK, NoLock
<1>4. OneMerge(file)'
  BY FileSame
<1>5. TickOK' /\ OthersSame(t)
  BY <1>1 DEF TickOK, Pcs, OthersSame
<1>6. TickInv(t)'
  BY <1>1 DEF TickOK, TickInv, OneMerge, Waits, Rung, Gated, Present,
              IsTask, AllAnswered
<1> QED
  BY <1>2, <1>3, <1>4, <1>5, <1>6, Combine

LEMMA ActBouncesKeeps ==
    ASSUME IInv, NEW t \in Tick, ActBounces(t)
    PROVE  IInv'
<1> USE DEF ActBounces, Goto, Fault
<1>1. TypeOK /\ ArbiterOK /\ TickOK /\ OtherOK /\ OneMerge(file) /\ TickInv(t) /\ AskerInv
  BY TypeParts DEF IInv
<1>2. OtherOK' /\ AskerInv'
  BY <1>1, ConstantsAssumption DEF OtherOK, AskerInv, NoMergeQuestion
<1>3. ArbiterOK'
  BY <1>1, SurfaceFacts DEF ArbiterOK, NoLock
<1>4. OneMerge(file)'
  BY <1>1, SurfaceFacts DEF ArbiterOK
<1>5. TickOK' /\ OthersSame(t)
  BY <1>1 DEF TickOK, Pcs, OthersSame
<1>6. TickInv(t)'
  BY <1>1 DEF TickOK, TickInv, OneMerge, Waits, Rung, Gated, Present,
              IsTask, AllAnswered
<1> QED
  BY <1>2, <1>3, <1>4, <1>5, <1>6, Combine

LEMMA AgentKeeps ==
    ASSUME IInv, NEW t \in Tick, Agent(t)
    PROVE  IInv'
<1> USE DEF Agent, Goto, Fault
<1>1. TypeOK /\ ArbiterOK /\ TickOK /\ OtherOK /\ OneMerge(file) /\ TickInv(t) /\ AskerInv
  BY TypeParts DEF IInv
<1>2. OtherOK' /\ AskerInv'
  BY <1>1, ConstantsAssumption DEF OtherOK, AskerInv, NoMergeQuestion
<1>3. ArbiterOK'
  BY <1>1 DEF ArbiterOK, NoLock
<1>4. OneMerge(file)'
  BY FileSame
<1>p. \/ product'[t] = "none"
      \/ product'[t] = "failed"
      \/ product'[t] \in Products(saw[t], seenTip[t])
  BY <1>1 DEF TickOK, TickInv
<1>q. /\ product'[t] \in Product
      /\ product'[t] = "restale" => Rung(saw[t]) = "apply"
  BY <1>1, <1>p, ProductsFacts DEF TickOK, Product
<1>5. TickOK' /\ OthersSame(t)
  BY <1>1, <1>q DEF TickOK, Pcs, OthersSame
<1>6. TickInv(t)'
  BY <1>1, <1>q DEF TickOK, TickInv, OneMerge, Waits, Rung, Gated, Present, IsTask,
                    AllAnswered
<1> QED
  BY <1>2, <1>3, <1>4, <1>5, <1>6, Combine

LEMMA ApplyMergeKeeps ==
    ASSUME IInv, NEW t \in Tick, ApplyMerge(t)
    PROVE  IInv'
<1> USE DEF ApplyMerge, Goto, Fault
<1>1. TypeOK /\ ArbiterOK /\ TickOK /\ OtherOK /\ OneMerge(file) /\ TickInv(t) /\ AskerInv
  BY TypeParts DEF IInv
<1>2. OtherOK' /\ AskerInv'
  BY <1>1, ConstantsAssumption DEF OtherOK, AskerInv, NoMergeQuestion
<1>3. ArbiterOK'
  BY <1>1, LandFacts DEF ArbiterOK
<1>4. OneMerge(file)'
  BY <1>1, LandFacts, FileSame DEF ArbiterOK
<1>5. TickOK' /\ OthersSame(t)
  BY <1>1 DEF TickOK, Pcs, OthersSame
<1>6. TickInv(t)'
  BY <1>1 DEF TickOK, TickInv, OneMerge, Waits, Rung, Gated, Present,
              IsTask, AllAnswered
<1> QED
  BY <1>2, <1>3, <1>4, <1>5, <1>6, Combine

LEMMA RunRungKeeps ==
    ASSUME IInv, NEW t \in Tick, RunRung(t)
    PROVE  IInv'
<1> USE DEF RunRung, Goto, Fault
<1>1. TypeOK /\ ArbiterOK /\ TickOK /\ OtherOK /\ OneMerge(file) /\ TickInv(t) /\ AskerInv
  BY TypeParts DEF IInv
<1>2. OtherOK' /\ AskerInv'
  BY <1>1, ConstantsAssumption DEF OtherOK, AskerInv, NoMergeQuestion
<1> PICK p \in IF product[t] = "none" THEN Products(file, branch) ELSE {product[t]} :
           /\ IF p = "land" THEN UNCHANGED <<file, branch, request, minted>> ELSE Effect(p)
           /\ result' = [result EXCEPT ![t] = Copy(file, p)]
  OBVIOUS
<1>p. /\ file \in Item /\ branch \in Branch /\ p \in Product
      /\ p = "restale" => Rung(file) = "apply"
      /\ product[t] = "restale" => Rung(file) = "apply"
  BY <1>1, ProductsFacts DEF ArbiterOK, TickOK, TickInv, SameRung
<1>3. ArbiterOK'
  BY <1>1, EffectFacts DEF ArbiterOK
<1>4. OneMerge(file)'
  BY <1>1, EffectFacts, FileSame DEF ArbiterOK
<1>c. Copy(file, p) \in Item /\ OneMerge(Copy(file, p))
  BY <1>1, <1>p, CopyIsItem, CopyOneMerge
<1>5. TickOK' /\ OthersSame(t)
  BY <1>1, <1>c, <1>p DEF TickOK, Pcs, OthersSame
<1>6. TickInv(t)'
  BY <1>1, <1>c, <1>p DEF TickOK, TickInv, OneMerge, Waits, Rung, Gated, Present,
                          IsTask, AllAnswered
<1> QED
  BY <1>2, <1>3, <1>4, <1>5, <1>6, Combine

LEMMA RungStaleKeeps ==
    ASSUME IInv, NEW t \in Tick, RungStale(t)
    PROVE  IInv'
<1> USE DEF RungStale, Goto, Fault
<1>1. TypeOK /\ ArbiterOK /\ TickOK /\ OtherOK /\ OneMerge(file) /\ TickInv(t) /\ AskerInv
  BY TypeParts DEF IInv
<1>2. OtherOK' /\ AskerInv'
  BY <1>1, ConstantsAssumption DEF OtherOK, AskerInv, NoMergeQuestion
<1>3. ArbiterOK'
  BY <1>1 DEF ArbiterOK, NoLock
<1>4. OneMerge(file)'
  BY FileSame
<1>5. TickOK' /\ OthersSame(t)
  BY <1>1 DEF TickOK, Pcs, OthersSame
<1>6. TickInv(t)'
  BY <1>1 DEF TickOK, TickInv, OneMerge, Waits, Rung, Gated, Present,
              IsTask, AllAnswered
<1> QED
  BY <1>2, <1>3, <1>4, <1>5, <1>6, Combine

LEMMA PublishKeeps ==
    ASSUME IInv, NEW t \in Tick, Publish(t)
    PROVE  IInv'
<1> USE DEF Publish, Goto, Fault
<1>1. TypeOK /\ ArbiterOK /\ TickOK /\ OtherOK /\ OneMerge(file) /\ TickInv(t) /\ AskerInv
  BY TypeParts DEF IInv
<1>2. OtherOK' /\ AskerInv'
  BY <1>1, ConstantsAssumption DEF OtherOK, AskerInv, NoMergeQuestion
<1>3. ArbiterOK' /\ OneMerge(file)'
  <2>1. CASE file' = file
    BY <1>1, <2>1, FileSame DEF ArbiterOK
  <2>2. CASE file' = Onto(saw[t], result[t])
    <3>1. file' \in Item /\ file'.asked = result[t].asked
      BY <1>1, <2>2, OntoIsItem DEF ArbiterOK, TickOK
    <3> QED
      BY <1>1, <3>1 DEF ArbiterOK, TickInv, OneMerge, Waits
  <2> QED
    BY <2>1, <2>2
<1>4. CASE t \in Ci
  <2>1. TickOK' /\ OthersSame(t)
    BY <1>1, <1>4 DEF TickOK, Pcs, OthersSame
  <2>2. TickInv(t)'
    BY <1>1, <1>4 DEF TickOK, TickInv, OneMerge, Waits, Rung, Gated, Present, IsTask,
                      AllAnswered
  <2> QED
    BY <1>2, <1>3, <2>1, <2>2, Combine
<1>5. CASE t \notin Ci
  <2>1. TickOK' /\ TickInv(t)' /\ OthersSame(t)
    BY <1>1, <1>5, EndFacts
  <2> QED
    BY <1>2, <1>3, <2>1, Combine
<1> QED
  BY <1>4, <1>5

LEMMA ReleaseKeeps ==
    ASSUME IInv, NEW t \in Tick, Release(t)
    PROVE  IInv'
<1> USE DEF Release, Goto, Fault
<1>1. TypeOK /\ ArbiterOK /\ TickOK /\ OtherOK /\ OneMerge(file) /\ TickInv(t) /\ AskerInv
  BY TypeParts DEF IInv
<1>2. OtherOK' /\ AskerInv'
  BY <1>1, ConstantsAssumption DEF OtherOK, AskerInv, NoMergeQuestion
<1>3. ArbiterOK' /\ OneMerge(file)'
  BY <1>1, FileSame DEF ArbiterOK, Freed, NoLock
<1>4. CASE t \in Ci
  <2>1. TickOK' /\ TickInv(t)' /\ OthersSame(t)
    BY <1>1, <1>4, EndFacts
  <2> QED
    BY <1>2, <1>3, <2>1, Combine
<1>5. CASE t \notin Ci
  <2>1. TickOK' /\ OthersSame(t)
    BY <1>1, <1>5 DEF TickOK, Pcs, OthersSame
  <2>2. TickInv(t)'
    BY <1>1, <1>5 DEF TickOK, TickInv, OneMerge, Waits, Rung, Gated, Present, IsTask,
                      AllAnswered
  <2> QED
    BY <1>2, <1>3, <2>1, <2>2, Combine
<1> QED
  BY <1>4, <1>5

LEMMA InitEstablishes == Init => IInv
<1> SUFFICES ASSUME Init  PROVE IInv
  OBVIOUS
<1>1. file \in Item /\ file.asked = <<>>
  BY DEF Init, Item
<1>2. ArbiterOK
  BY <1>1 DEF Init, ArbiterOK, NoLock, NoBranch, Branch
<1>3. TickOK
  BY NoItemFacts DEF Init, TickOK, Pcs, NoBranch, Branch, Product
<1>4. OtherOK
  BY ConstantsAssumption, NoItemFacts DEF Init, OtherOK
<1>5. OneMerge(file)
  BY <1>1 DEF OneMerge
<1>6. \A t \in Tick : TickInv(t)
  BY NoItemFacts DEF Init, TickInv
<1> QED
  BY <1>2, <1>3, <1>4, <1>5, <1>6, TypeParts DEF Init, IInv, AskerInv

\* A step of nobody's tick.
LEMMA Elsewhere ==
    ASSUME IInv, ArbiterOK', OtherOK', OneMerge(file)', AskerInv', UNCHANGED tick
    PROVE  IInv'
<1>1. TypeOK'
  BY DEF IInv, TypeOK, ArbiterOK, OtherOK, tick
<1>2. \A t \in Tick : TickInv(t)'
  BY DEF IInv, tick, TickInv, OneMerge, Waits, Rung, Gated, Present, IsTask, AllAnswered
<1> QED
  BY <1>1, <1>2 DEF IInv

LEMMA AskReadKeeps ==
    ASSUME IInv, AskRead
    PROVE  IInv'
<1>1. ArbiterOK' /\ OtherOK' /\ AskerInv'
  BY TypeParts DEF IInv, AskRead, ArbiterOK, OtherOK, AskerInv, NoMergeQuestion
<1>2. OneMerge(file)'
  BY FileSame DEF AskRead
<1> QED
  BY <1>1, <1>2, Elsewhere DEF AskRead

LEMMA AskPublishKeeps ==
    ASSUME IInv, AskPublish
    PROVE  IInv'
<1>1. ArbiterOK /\ OtherOK /\ OneMerge(file) /\ asker.saw \in Item
      /\ NoMergeQuestion(asker.saw)
  BY TypeParts DEF IInv, AskPublish, AskerInv, OtherOK
<1>2. \A f \in Item : NoMergeQuestion(f) =>
          OneMerge(Append1(f, "merge")) /\ Append1(f, "merge") \in Item
  <2> SUFFICES ASSUME NEW f \in Item, NoMergeQuestion(f)
               PROVE  OneMerge(Append1(f, "merge")) /\ Append1(f, "merge") \in Item
    OBVIOUS
  <2>1. OneMerge(f) /\ \A i \in DOMAIN f.asked : ~Waits(f, i, "merge")
    BY DEF NoMergeQuestion, OneMerge, Waits
  <2> QED
    BY <2>1, AppendFacts, AppendOneMerge, VerbKinds
<1>6. OneMerge(file)'
  <2>1. CASE file' = Onto(asker.saw, Append1(asker.saw, "merge"))
    <3> DEFINE new == Append1(asker.saw, "merge")
    <3>1. new \in Item /\ OneMerge(new)
      BY <1>1, <1>2
    <3>2. file' = Onto(asker.saw, new)
      BY <2>1
    <3> HIDE DEF new
    <3>3. file'.asked = new.asked
      BY <1>1, <3>1, <3>2, OntoIsItem DEF ArbiterOK
    <3> QED
      BY <3>1, <3>3 DEF OneMerge, Waits
  <2>2. CASE OnlyAnswered(asker.saw.asked, file.asked) /\ file' = Append1(file, "merge")
    <3>1. file \in Item /\ file.asked \in Seq(Entry) /\ asker.saw.asked \in Seq(Entry)
      BY <1>1 DEF ArbiterOK, Item
    <3>2. NoMergeQuestion(file)
      BY <1>1, <2>2, <3>1 DEF OnlyAnswered, NoMergeQuestion, Question
    <3>3. OneMerge(Append1(file, "merge"))
      BY <1>2, <3>1, <3>2
    <3> QED
      BY <2>2, <3>3 DEF OneMerge, Waits
  <2>3. CASE file' = file
    BY <2>3, FileSame
  <2> QED
    BY <2>1, <2>2, <2>3 DEF AskPublish
<1>7. file' \in Item
  <2>1. CASE file' = Onto(asker.saw, Append1(asker.saw, "merge"))
    BY <1>1, <1>2, <2>1, OntoIsItem DEF ArbiterOK
  <2>2. CASE OnlyAnswered(asker.saw.asked, file.asked) /\ file' = Append1(file, "merge")
    BY <1>1, <2>2, AppendFacts, VerbKinds DEF ArbiterOK
  <2>3. CASE file' = file
    BY <1>1, <2>3 DEF ArbiterOK
  <2> QED
    BY <2>1, <2>2, <2>3 DEF AskPublish
<1>8. ArbiterOK' /\ OtherOK' /\ AskerInv'
  BY <1>1, <1>7, NoItemFacts DEF AskPublish, ArbiterOK, OtherOK, AskerInv
<1> QED
  BY <1>6, <1>8, Elsewhere DEF AskPublish

LEMMA BuilderKeeps ==
    ASSUME IInv, Claim \/ Propose \/ Bounce
    PROVE  IInv'
<1>1. ArbiterOK /\ OtherOK /\ OneMerge(file) /\ AskerInv
  BY TypeParts DEF IInv
<1>2. OtherOK' /\ AskerInv' /\ UNCHANGED tick
  BY <1>1, ConstantsAssumption DEF Claim, Propose, Bounce, OtherOK, AskerInv, NoMergeQuestion
<1>3. CASE Claim \/ Propose
  <2>1. builds \in Nat
    BY <1>1, ConstantsAssumption DEF OtherOK
  <2>2. ArbiterOK'
    <3>1. CASE Claim
      BY <1>1, <3>1 DEF Claim, ArbiterOK
    <3>2. CASE Propose
      <4>1. [tip |-> "done", gen |-> builds] \in Branch
        BY <2>1 DEF Branch
      <4>2. [lock EXCEPT !.kept = TRUE] \in [by : Tick \cup {"nobody", "builder", "left"},
                                            kept : BOOLEAN]
        BY <1>1 DEF ArbiterOK
      <4> QED
        BY <1>1, <3>2, <4>1, <4>2 DEF Propose, ArbiterOK
    <3> QED
      BY <1>3, <3>1, <3>2
  <2>3. OneMerge(file)'
    BY <1>3, FileSame DEF Claim, Propose
  <2> QED
    BY <1>2, <2>2, <2>3, Elsewhere
<1>4. CASE Bounce
  <2>1. builds \in Nat
    BY <1>1, ConstantsAssumption DEF OtherOK
  <2>2. file' \in Item /\ OneMerge(file)'
    BY <1>1, <1>4, SurfaceFacts DEF Bounce, ArbiterOK
  <2>3. ArbiterOK'
    BY <1>1, <1>4, <2>1, <2>2 DEF Bounce, ArbiterOK, Branch, NoLock
  <2> QED
    BY <1>2, <2>2, <2>3, Elsewhere
<1> QED
  BY <1>3, <1>4

\* An answer keeps the sidecar but for the entry it answers.
LEMMA AnswerFacts ==
    ASSUME TypeOK, Answer
    PROVE  /\ file' \in Item
           /\ DOMAIN file'.asked = DOMAIN file.asked
           /\ \A i \in DOMAIN file.asked :
                 file'.asked[i] # file.asked[i] =>
                     file.asked[i].answer = "none" /\ file'.asked[i].answer # "none"
<1>1. PICK k \in DOMAIN file.asked :
        /\ file.asked[k].answer = "none"
        /\ \E a \in Verbs[file.asked[k].ask] :
              file' = [file EXCEPT !.asked[k] =
                         [@ EXCEPT !.answer = a, !.gen = branch.gen, !.crossed = Building]]
  BY DEF Answer
<1>2. PICK a \in Verbs[file.asked[k].ask] :
        file' = [file EXCEPT !.asked[k] =
                   [@ EXCEPT !.answer = a, !.gen = branch.gen, !.crossed = Building]]
  BY <1>1
<1> DEFINE e == [file.asked[k] EXCEPT !.answer = a, !.gen = branch.gen, !.crossed = Building]
<1>3. file.asked \in Seq(Entry) /\ file.asked[k] \in Entry /\ branch.gen \in Nat
  BY DEF TypeOK, Item, Branch
<1>4. file.asked[k].ask \in DOMAIN Verbs
  BY <1>3 DEF Entry
<1>5. a \in UNION {Verbs[b] : b \in DOMAIN Verbs} /\ a # "none"
  BY <1>2, <1>4 DEF Verbs
<1>6. Building \in BOOLEAN
  BY DEF Building
<1>7. e \in Entry /\ e.answer = a
  BY <1>3, <1>5, <1>6 DEF Entry
<1>8. file' = [file EXCEPT !.asked = [file.asked EXCEPT ![k] = e]]
  BY <1>2, <1>3 DEF TypeOK, Item
<1> HIDE DEF e
<1>9. /\ [file.asked EXCEPT ![k] = e] \in Seq(Entry)
      /\ DOMAIN [file.asked EXCEPT ![k] = e] = DOMAIN file.asked
      /\ \A i \in DOMAIN file.asked : i # k => [file.asked EXCEPT ![k] = e][i] = file.asked[i]
      /\ [file.asked EXCEPT ![k] = e][k] = e
  BY <1>1, <1>3, <1>7
<1>10. file' \in Item /\ file'.asked = [file.asked EXCEPT ![k] = e]
  BY <1>8, <1>9 DEF TypeOK, Item
<1> QED
  BY <1>1, <1>5, <1>7, <1>9, <1>10

LEMMA AnswerKeeps ==
    ASSUME IInv, Answer
    PROVE  IInv'
<1>1. TypeOK /\ ArbiterOK /\ OtherOK /\ OneMerge(file) /\ AskerInv
  BY TypeParts DEF IInv
<1>2. ArbiterOK' /\ OtherOK' /\ AskerInv' /\ UNCHANGED tick
  BY <1>1, AnswerFacts DEF Answer, ArbiterOK, OtherOK, AskerInv, NoMergeQuestion
<1>3. OneMerge(file)'
  BY <1>1, AnswerFacts DEF OneMerge, Waits
<1> QED
  BY <1>2, <1>3, Elsewhere

LEMMA RequestKeeps ==
    ASSUME IInv, CloseRequest \/ MergeRequest \/ Reconcile \/ Clear
    PROVE  IInv'
<1>1. TypeOK /\ ArbiterOK /\ OtherOK /\ OneMerge(file) /\ AskerInv
  BY TypeParts DEF IInv
<1>2. OtherOK' /\ AskerInv' /\ UNCHANGED tick
  BY <1>1 DEF CloseRequest, MergeRequest, Reconcile, Clear, OtherOK, AskerInv, NoMergeQuestion
<1>3. CASE MergeRequest
  BY <1>1, <1>2, <1>3, LandFacts, Elsewhere DEF MergeRequest, ArbiterOK
<1>4. CASE CloseRequest \/ Reconcile \/ Clear
  <2>1. file' = file /\ branch' = branch /\ minted' = minted
        /\ request' \in {request, FALSE} /\ lock' \in {lock, NoLock}
    BY <1>4 DEF CloseRequest, Reconcile, Clear
  <2>2. ArbiterOK'
    <3>1. file' \in Item /\ branch' \in Branch /\ minted' \subseteq Slug
      BY <1>1, <2>1 DEF ArbiterOK
    <3>2. request' \in BOOLEAN
      BY <1>1, <2>1 DEF ArbiterOK
    <3>3. lock' \in [by : Tick \cup {"nobody", "builder", "left"}, kept : BOOLEAN]
      <4>1. lock \in [by : Tick \cup {"nobody", "builder", "left"}, kept : BOOLEAN]
        BY <1>1 DEF ArbiterOK
      <4>2. NoLock \in [by : Tick \cup {"nobody", "builder", "left"}, kept : BOOLEAN]
        BY DEF NoLock
      <4> QED
        BY <2>1, <4>1, <4>2
    <3> QED
      BY <3>1, <3>2, <3>3 DEF ArbiterOK
  <2> QED
    BY <1>2, <2>1, <2>2, FileSame, Elsewhere
<1> QED
  BY <1>3, <1>4

LEMMA Inductive == IInv /\ [Next]_vars => IInv'
<1> SUFFICES ASSUME IInv, [Next]_vars  PROVE IInv'
  OBVIOUS
<1>1. CASE \E t \in Tick : Classify(t) \/ ClassifyAtBase(t) \/ Lock(t) \/ Lost(t) \/ Die(t)
  BY <1>1, ClassifyKeeps, ClassifyAtBaseKeeps, LockKeeps, LostKeeps, DieKeeps
<1>2. CASE \E t \in Tick : TickStep(t)
  BY <1>2, ActKeeps, ActFailsKeeps, ActBouncesKeeps, NotOwnerKeeps, AgentKeeps,
     SurfaceItemKeeps, ApplyMergeKeeps, StaleLeaseKeeps, ApplyMergeFailsKeeps,
     RunRungKeeps, RungStaleKeeps, PublishKeeps, ReleaseKeeps DEF TickStep
<1>3. CASE AskRead \/ AskPublish
  BY <1>3, AskReadKeeps, AskPublishKeeps
<1>4. CASE Claim \/ Propose \/ Bounce \/ Answer
  BY <1>4, BuilderKeeps, AnswerKeeps
<1>5. CASE CloseRequest \/ MergeRequest \/ Reconcile \/ Clear
  BY <1>5, RequestKeeps
<1>6. CASE UNCHANGED vars
  <2>1. ArbiterOK' /\ OtherOK' /\ AskerInv' /\ UNCHANGED tick /\ file' = file
    BY <1>6, TypeParts DEF vars, IInv, ArbiterOK, OtherOK, AskerInv, NoMergeQuestion
  <2> QED
    BY <2>1, FileSame, Elsewhere
<1> QED
  BY <1>1, <1>2, <1>3, <1>4, <1>5, <1>6 DEF Next

LEMMA Invariance == Spec => []IInv
  BY InitEstablishes, Inductive, PTL DEF Spec

-----------------------------------------------------------------------------
(* The theorems *)

\* Every variable stays in its set, for every set of ticks and all bounds.
THEOREM TypeCorrect == Spec => []TypeOK
<1>1. IInv => TypeOK
  BY DEF IInv
<1> QED
  BY <1>1, Invariance, PTL

\* At most one merge question of the item waits on main, however many ticks and
\* passes ask.
THEOREM OneMergeQuestionWaits == Spec => []OneMergeQuestion
<1>1. IInv => OneMergeQuestion
  BY DEF IInv, OneMerge, OneMergeQuestion
<1> QED
  BY <1>1, Invariance, PTL

\* Steps that leave the answers on main where they are.
LEMMA AnswersStay ==
    ASSUME TypeOK, NEW i \in DOMAIN file.asked, file.asked[i].answer # "none",
           \/ file'.asked = file.asked
           \/ \E q \in Entry : file'.asked = Append(file.asked, q)
    PROVE  ~AnswerGone(i)
<1>1. file.asked \in Seq(Entry)
  BY DEF TypeOK, Item
<1>2. CASE file'.asked = file.asked
  BY <1>2 DEF AnswerGone
<1>3. ASSUME NEW q \in Entry, file'.asked = Append(file.asked, q)
      PROVE  ~AnswerGone(i)
  BY <1>1, <1>3 DEF AnswerGone
<1> QED
  BY <1>2, <1>3

LEMMA SurfaceStays ==
    ASSUME TypeOK, Surface
    PROVE  \/ file'.asked = file.asked
           \/ \E q \in Entry : file'.asked = Append(file.asked, q)
<1>1. file \in Item
  BY DEF TypeOK
<1> QED
  BY <1>1, AppendFacts, QuestionIsEntry, VerbKinds DEF Surface

LEMMA LandStays ==
    ASSUME TypeOK, IInv, Land
    PROVE  file'.asked = file.asked
  BY LandFacts DEF IInv, TypeOK

LEMMA MovesOn ==
    ASSUME TypeOK, NEW t \in Tick, NEW step \in Pcs, pc[t] # step,
           Goto(t, step) \/ (step = "idle" /\ End(t))
    PROVE  pc'[t] # pc[t]
  BY DEF TypeOK, Goto, End

\* A step of a tick takes an answer off main only if the tick read it.
LEMMA TicksRead ==
    ASSUME IInv, NEW t \in Tick,
           Classify(t) \/ ClassifyAtBase(t) \/ Lock(t) \/ Lost(t) \/ TickStep(t) \/ Die(t),
           NEW i \in DOMAIN file.asked, AnswerGone(i)
    PROVE  ReadByATick
<1>1. TypeOK /\ file.asked[i].answer # "none"
  BY DEF IInv, AnswerGone
<1>2. file'.asked # file.asked
  BY <1>1, AnswersStay
<1>3. ~Surface
  BY <1>1, AnswersStay, SurfaceStays
<1>4. ~Land
  BY <1>1, <1>2, LandStays
<1>5. \/ Act(t) \/ RunRung(t) \/ Publish(t)
  BY <1>2, <1>3, <1>4 DEF Classify, ClassifyAtBase, Lock, Lost, TickStep, Die,
     ActFails, ActBounces, NotOwner, Agent, SurfaceItem, ApplyMerge, StaleLease,
     ApplyMergeFails, RungStale, Release
<1>6. CASE Act(t)
  <2>1. t \in Local /\ pc'[t] # pc[t]
    BY <1>1, <1>6, MovesOn DEF Act, Pcs
  <2>2. \E p : Effect(p) /\ p = "mint"
    BY <1>2, <1>4, <1>6 DEF Act, Effect, DropBranch
  <2>3. minted' # minted
    BY <1>1, <1>2, <2>2 DEF Effect, Mint, CreateItem, TypeOK
  <2> QED
    BY <2>1, <2>3 DEF ReadByATick
<1>7. CASE RunRung(t)
  <2>1. pc'[t] # pc[t]
    BY <1>1, <1>7, MovesOn DEF RunRung, AtRung, Pcs
  <2>2. saw'[t] = file
    BY <1>1, <1>7 DEF RunRung, TypeOK
  <2> QED
    BY <2>1, <2>2 DEF ReadByATick
<1>8. CASE Publish(t)
  <2>1. pc'[t] # pc[t]
    BY <1>1, <1>8, MovesOn DEF Publish, Pcs
  <2>2. Rebases(saw[t], result[t])
    BY <1>2, <1>8 DEF Publish
  <2>3. file \in Item /\ saw[t] \in Item
    BY <1>1 DEF TypeOK
  <2>4. saw[t].place \in Place
    BY <2>3 DEF Item, Place
  <2>5. saw[t].asked = file.asked
    BY <2>2, <2>3, <2>4, MovedItem DEF Rebases
  <2> QED
    BY <2>1, <2>5 DEF ReadByATick
<1> QED
  BY <1>5, <1>6, <1>7, <1>8

\* Nobody else takes an answer off main.
LEMMA OthersKeepAnswers ==
    ASSUME IInv,
           \/ AskRead \/ AskPublish \/ Claim \/ Propose \/ Bounce
           \/ Answer \/ CloseRequest \/ MergeRequest \/ Reconcile \/ Clear
           \/ UNCHANGED vars,
           NEW i \in DOMAIN file.asked, file.asked[i].answer # "none"
    PROVE  ~AnswerGone(i)
<1>1. TypeOK /\ file \in Item
  BY DEF IInv, TypeOK
<1>2. CASE AskPublish
  <2>1. CASE Rebases(asker.saw, Append1(asker.saw, "merge"))
             /\ file' = Onto(asker.saw, Append1(asker.saw, "merge"))
    <3>1. asker.saw \in Item /\ Append1(asker.saw, "merge") \in Item
          /\ Append1(asker.saw, "merge").asked = Append(asker.saw.asked, Question("merge"))
      BY <1>1, AppendFacts, VerbKinds DEF TypeOK
    <3>2. asker.saw.place \in Place
      BY <3>1 DEF Item, Place
    <3>3. asker.saw.asked = file.asked
      BY <1>1, <2>1, <3>2, MovedItem DEF Rebases
    <3>4. file'.asked = Append(file.asked, Question("merge"))
      BY <1>1, <2>1, <3>1, <3>3, OntoIsItem
    <3> QED
      BY <1>1, <3>4, AnswersStay, QuestionIsEntry, VerbKinds
  <2>2. CASE file' = Append1(file, "merge")
    BY <1>1, <2>2, AppendFacts, AnswersStay, QuestionIsEntry, VerbKinds
  <2>3. CASE file' = file
    BY <1>1, <2>3, AnswersStay
  <2> QED
    BY <1>2, <2>1, <2>2, <2>3 DEF AskPublish
<1>3. CASE Bounce
  BY <1>1, <1>3, SurfaceStays, AnswersStay DEF Bounce
<1>4. CASE Answer
  BY <1>1, <1>4, AnswerFacts DEF AnswerGone
<1>5. CASE MergeRequest
  BY <1>1, <1>5, LandStays, AnswersStay DEF MergeRequest
<1>6. CASE file' = file
  BY <1>1, <1>6, AnswersStay
<1> QED
  BY <1>2, <1>3, <1>4, <1>5, <1>6
     DEF AskRead, Claim, Propose, CloseRequest, Reconcile, Clear, vars

\* An answer leaves main only by a tick that read it, or with an observation that
\* becomes an artifact.
THEOREM AnswersAreNotLost == Spec => NoAnswerIsLost
<1>1. IInv /\ [Next]_vars =>
        [(\E i \in DOMAIN file.asked : AnswerGone(i)) => ReadByATick]_vars
  <2> SUFFICES ASSUME IInv, [Next]_vars, NEW i \in DOMAIN file.asked, AnswerGone(i)
               PROVE  ReadByATick
    OBVIOUS
  <2>1. file.asked[i].answer # "none"
    BY DEF AnswerGone
  <2> QED
    BY <2>1, TicksRead, OthersKeepAnswers DEF Next
<1> QED
  BY <1>1, Invariance, PTL DEF Spec, NoAnswerIsLost

-----------------------------------------------------------------------------
(* What ticks read and make *)

\* The rungs a tick goes on with.
Does == {"triage-observation", "surface", "apply"}

\* A copy made of one that was read has its questions, or one more, or none.
Derived(f, g) ==
    \/ g.asked = <<>>
    \/ g.asked = f.asked /\ g.flag = f.flag
    \/ \E a \in {"open", "merge"} :
          g.asked = Append(f.asked, Question(a)) /\ g.flag = TRUE

\* The rungs a tick goes on with leave no question that waits.
LEMMA ActedIsAnswered ==
    ASSUME NEW f \in Item, Rung(f) \in Does
    PROVE  AllAnswered(f)
<1>1. CASE Rung(f) = "apply"
  BY <1>1, ApplyIsAnswered
<1>2. CASE Rung(f) \in {"triage-observation", "surface"}
  <2>1. f.asked = <<>>
    BY <1>2 DEF Rung, Gated, Present, Item
  <2> QED
    BY <2>1 DEF AllAnswered
<1> QED
  BY <1>1, <1>2 DEF Does

LEMMA CopyIsDerived ==
    ASSUME NEW f \in Item, NEW p \in Product
    PROVE  /\ Derived(f, Copy(f, p))
           /\ p \notin {"mint", "auto", "dispose", "cancel"} => Copy(f, p).place = f.place
           /\ p \in {"auto", "dispose"} => Copy(f, p).place = "gone"
           /\ p \in {"mint"} => Copy(f, p).place = f.place
           /\ p = "cancel" => Copy(f, p).place = "cancelled"
<1>1. /\ Recorded(f).asked = <<>> /\ Recorded(f).place = f.place
      /\ Cancelled(f).asked = <<>> /\ Cancelled(f).place = "cancelled"
      /\ NoItem.asked = <<>> /\ NoItem.place = "gone"
  BY DEF Recorded, Cancelled, NoItem, Item
<1>2. \A a \in {"open", "merge"} :
          /\ Append1(f, a).asked = Append(f.asked, Question(a))
          /\ Append1(f, a).flag = TRUE
          /\ Append1(f, a).place = f.place
  <2> SUFFICES ASSUME NEW a \in {"open", "merge"}
               PROVE  /\ Append1(f, a).asked = Append(f.asked, Question(a))
                      /\ Append1(f, a).flag = TRUE
                      /\ Append1(f, a).place = f.place
    OBVIOUS
  <2>1. Append1(f, a).asked = Append(f.asked, Question(a))
    BY AppendFacts, VerbKinds
  <2>2. f = [place |-> f.place, flag |-> f.flag, triaged |-> f.triaged, asked |-> f.asked]
    BY DEF Item
  <2>3. Append1(f, a).flag = TRUE /\ Append1(f, a).place = f.place
    BY <2>2 DEF Append1
  <2> QED
    BY <2>1, <2>3
<1> QED
  BY <1>1, <1>2 DEF Copy, Product, Derived

\* What a rung can come to on a task, and on an observation.
LEMMA ProductsKind ==
    ASSUME NEW f \in Item, NEW b \in Branch, NEW p \in Products(f, b)
    PROVE  /\ p \in {"mint", "auto", "dispose"} => ~IsTask(f)
           /\ p = "cancel" => IsTask(f)
           /\ p = "land" => Verb(f, "merge") = "merge"
           /\ p = "reset" => /\ ~NeedsAgent(f, b)
                             /\ ~HasVerb(f, "merge") /\ Verb(f, "stuck") = "reset"
<1>1. \/ Rung(f) = "triage-observation" /\ p \in TriageProducts(f)
      \/ Rung(f) = "surface" /\ p \in SurfaceProducts
      \/ Rung(f) = "apply" /\ p \in ApplyProducts(f, b)
  BY DEF Products
<1>2. CASE Rung(f) = "triage-observation" /\ p \in TriageProducts(f)
  BY <1>2 DEF TriageProducts, Rung, Gated, Present, Item
<1>3. CASE Rung(f) = "surface" /\ p \in SurfaceProducts
  BY <1>3 DEF SurfaceProducts
<1>4. CASE Rung(f) = "apply" /\ p \in ApplyProducts(f, b)
  <2>1. CASE ~IsTask(f)
    BY <1>4, <2>1 DEF ApplyProducts, DecisionProducts
  <2>2. CASE IsTask(f) /\ HasVerb(f, "merge")
    BY <1>4, <2>2 DEF ApplyProducts, MergeProducts
  <2>3. CASE IsTask(f) /\ ~HasVerb(f, "merge")
    BY <1>4, <2>3 DEF ApplyProducts, StuckProducts, NeedsAgent, Verb
  <2> QED
    BY <2>1, <2>2, <2>3
<1> QED
  BY <1>1, <1>2, <1>3, <1>4

\* Indices have a largest one: the distances to the end have a smallest one.
LEMMA LargestIndex ==
    ASSUME NEW n \in Nat, NEW I, I \subseteq 1 .. n, I # {}
    PROVE  \E k \in I : \A j \in I : j <= k
<1> DEFINE Less == {ss \in Nat \X Nat : ss[1] < ss[2]}
           D == {n - i : i \in I}
<1>1. IsWellFoundedOn(Less, Nat)
  BY NatLessThanWellFounded DEF OpToRel
<1>i. \A i \in I : i \in Nat /\ n - i \in Nat
  OBVIOUS
<1>2. D \subseteq Nat /\ D # {}
  BY <1>i
<1>l. \A m, d \in Nat : m < d => <<m, d>> \in Less
  OBVIOUS
<1>3. PICK d \in D : \A m \in D : <<m, d>> \notin Less
  <2> HIDE DEF D, Less
  <2> QED
    BY <1>1, <1>2, WFMin
<1>4. \A m \in D : d <= m
  <2> SUFFICES ASSUME NEW m \in D  PROVE d <= m
    OBVIOUS
  <2>1. m \in Nat /\ d \in Nat /\ ~(m < d)
    <3> HIDE DEF D, Less
    <3> QED
      BY <1>2, <1>3, <1>l
  <2> QED
    BY <2>1
<1>5. PICK k \in I : d = n - k
  BY <1>3
<1>6. ASSUME NEW j \in I  PROVE j <= k
  <2>1. n - j \in D /\ j \in Int /\ k \in Int
    OBVIOUS
  <2>2. d <= n - j
    BY <1>4, <2>1
  <2> HIDE DEF D
  <2> QED
    BY <1>5, <2>1, <2>2
<1> QED
  BY <1>6

\* The entry that decides is one of the answered entries.
LEMMA DecidingIsAnswered ==
    ASSUME NEW f \in Item, NEW a, HasVerb(f, a)
    PROVE  \E i \in DOMAIN f.asked :
              Deciding(f, a) = f.asked[i] /\ f.asked[i].answer # "none"
<1> DEFINE I == {i \in DOMAIN f.asked : f.asked[i].ask = a}
<1>1. DOMAIN f.asked = 1 .. Len(f.asked) /\ Len(f.asked) \in Nat
  BY DEF Item
<1>2. I # {} /\ I \subseteq 1 .. Len(f.asked)
  BY <1>1 DEF HasVerb
<1>3. PICK k \in I : \A j \in I : j <= k
  <2> HIDE DEF I
  <2> QED
    BY <1>1, <1>2, LargestIndex
<1>4. \E i \in DOMAIN f.asked :
          /\ f.asked[i].ask = a
          /\ \A j \in DOMAIN f.asked : f.asked[j].ask = a => j <= i
  BY <1>3
<1> DEFINE i0 == CHOOSE i \in DOMAIN f.asked :
          /\ f.asked[i].ask = a
          /\ \A j \in DOMAIN f.asked : f.asked[j].ask = a => j <= i
<1>5. i0 \in DOMAIN f.asked /\ f.asked[i0].ask = a
  BY <1>4
<1>6. Deciding(f, a) = f.asked[i0]
  BY DEF Deciding
<1>7. f.asked[i0].answer # "none"
  BY <1>5 DEF HasVerb, Pending, Waits
<1> QED
  BY <1>5, <1>6, <1>7

-----------------------------------------------------------------------------
(* The sidecar on main *)

\* Who answered saw the branch that is there, or a builder was at work; a
\* builder only starts on an item that nobody is asked about.
Met(e) == e.answer # "none" => e.crossed \/ e.gen = branch.gen

HumanInv ==
    /\ file.asked # <<>> => file.flag
    /\ Building => \A i \in DOMAIN file.asked :
          file.asked[i].answer # "none" => file.asked[i].crossed
    /\ branch # NoBranch => \A i \in DOMAIN file.asked : Met(file.asked[i])

\* Only a task is built, and an observation that became an artifact is gone.
KindInv ==
    /\ Building \/ branch # NoBranch => IsTask(file)
    /\ minted # {} => file.place = "gone"

\* What a tick read, what it made of it, and what its agent may have said.
ReadInv(t) ==
    /\ AllAnswered(saw[t])
    /\ pc[t] # "idle" =>
          Present(saw[t]) /\ Rung(saw[t]) \in Does /\ (IsTask(saw[t]) <=> IsTask(file))
    /\ Derived(saw[t], result[t])
    /\ pc[t] = "idle" => result[t].asked = <<>>
    /\ pc[t] = "publish" \/ (pc[t] = "release" /\ t \in Local)
          => (IsTask(result[t]) <=> IsTask(saw[t]))
    /\ product[t] \in {"mint", "auto", "dispose"} => ~IsTask(saw[t])
    /\ product[t] = "cancel" => IsTask(saw[t])
    /\ product[t] # "reset"
    /\ pc[t] = "record" => product[t] = "land"
    /\ pc[t] \in {"agent", "record"} => t \in Ci

BookInv == IInv /\ HumanInv /\ KindInv /\ \A t \in Tick : ReadInv(t)

\* Main gains a question, an answer, or loses a sidecar that is answered, or one
\* whose item became an artifact.
Asked(a) ==
    /\ a = "merge" => \A i \in DOMAIN file.asked : ~Waits(file, i, "merge")
    /\ file'.asked = Append(file.asked, Question(a))
    /\ file'.flag = TRUE
    /\ minted' = minted

Minted(s) ==
    /\ s \notin minted
    /\ minted' = minted \cup {s}
    /\ file' = NoItem

BookStep ==
    \/ file'.asked = file.asked /\ file'.flag = file.flag /\ minted' = minted
    \/ file'.asked = <<>> /\ AllAnswered(file) /\ minted' = minted
    \/ \E a \in DOMAIN Verbs : Asked(a)
    \/ \E s \in Slug : Minted(s)
    \/ Answer

\* The item stays a task, or one that is none, and does not come back.
SameKind ==
    /\ IsTask(file') <=> IsTask(file)
    /\ file.place = "gone" => file'.place = "gone"

FileStep == BookStep /\ SameKind

LEMMA FileStays ==
    ASSUME file' = file, minted' = minted
    PROVE  FileStep
  BY DEF FileStep, BookStep, SameKind

LEMMA QuestionAdded ==
    ASSUME TypeOK, NEW a \in DOMAIN Verbs, NEW f \in Item,
           f.asked = file.asked, f.place = file.place, file' = Append1(f, a), minted' = minted,
           a = "merge" => \A i \in DOMAIN file.asked : ~Waits(file, i, "merge")
    PROVE  FileStep
<1>1. file'.asked = Append(file.asked, Question(a))
  BY AppendFacts
<1>2. f = [place |-> f.place, flag |-> f.flag, triaged |-> f.triaged, asked |-> f.asked]
  BY DEF Item
<1>3. file'.flag = TRUE /\ file'.place = file.place
  BY <1>2 DEF Append1
<1>4. Asked(a)
  BY <1>1, <1>3 DEF Asked
<1> QED
  BY <1>3, <1>4 DEF FileStep, BookStep, SameKind, IsTask

LEMMA SurfaceIsAStep ==
    ASSUME TypeOK, Surface, minted' = minted
    PROVE  FileStep
<1>1. file \in Item
  BY DEF TypeOK
<1> QED
  BY <1>1, FileStays, QuestionAdded, VerbKinds DEF Surface

LEMMA LandIsAStep ==
    ASSUME TypeOK, KindInv, Land
    PROVE  FileStep
<1>1. file \in Item /\ minted' = minted
  BY DEF TypeOK, Land
<1>2. CASE branch.tip = "none"
  BY <1>1, <1>2, FileStays DEF Land
<1>3. CASE branch.tip # "none"
  <2>1. IsTask(file)
    BY <1>3 DEF KindInv, NoBranch
  <2>2. file' = [file EXCEPT !.place = IF branch.tip = "done" THEN "done" ELSE file.place]
    BY <1>1, <1>3 DEF Land
  <2>3. /\ file'.asked = file.asked /\ file'.flag = file.flag
        /\ file'.place \in {"done", file.place}
    BY <1>1, <2>2 DEF Item
  <2> QED
    BY <1>1, <2>1, <2>3 DEF FileStep, BookStep, SameKind, IsTask
<1> QED
  BY <1>2, <1>3

LEMMA EffectIsAStep ==
    ASSUME TypeOK, KindInv, NEW p, Effect(p), p = "mint" => ~IsTask(file)
    PROVE  FileStep
<1>1. CASE p = "mint"
  <2>1. PICK s \in Slug : IF s \in minted THEN UNCHANGED <<file, minted>> ELSE CreateItem(s)
    BY <1>1 DEF Effect, Mint
  <2>2. CASE s \in minted
    BY <2>1, <2>2, FileStays
  <2>3. CASE s \notin minted
    <3>1. Minted(s)
      BY <2>1, <2>3 DEF CreateItem, Minted
    <3>2. SameKind
      BY <1>1, <3>1 DEF Minted, SameKind, IsTask, NoItem
    <3> QED
      BY <3>1, <3>2 DEF FileStep, BookStep
  <2> QED
    BY <2>2, <2>3
<1>2. CASE p # "mint"
  BY <1>2, FileStays DEF Effect, DropBranch
<1> QED
  BY <1>1, <1>2

\* What rebases was made of the sidecar that is on main.
LEMMA RebasedFacts ==
    ASSUME file \in Item, NEW old \in Item, NEW new \in Item, Rebases(old, new)
    PROVE  /\ old.asked = file.asked /\ old.flag = file.flag /\ Present(file)
           /\ Onto(old, new).asked = new.asked /\ Onto(old, new).flag = new.flag
           /\ Onto(old, new).place =
                IF old.place = new.place THEN file.place ELSE new.place
<1>1. [file EXCEPT !.place = old.place] = old
  BY DEF Rebases
<1>2. file = [place |-> file.place, flag |-> file.flag, triaged |-> file.triaged,
              asked |-> file.asked]
  BY DEF Item
<1>3. new = [place |-> new.place, flag |-> new.flag, triaged |-> new.triaged,
             asked |-> new.asked]
  BY DEF Item
<1>4. old.asked = file.asked /\ old.flag = file.flag
  BY <1>1, <1>2
<1>5. Onto(old, new) = [new EXCEPT !.place = IF old.place = new.place THEN file.place ELSE @]
  BY <1>3 DEF Onto
<1> QED
  BY <1>3, <1>4, <1>5 DEF Rebases

LEMMA PublishIsAStep ==
    ASSUME BookInv, NEW t \in Tick, Publish(t)
    PROVE  FileStep
<1>1. /\ file \in Item /\ saw[t] \in Item /\ result[t] \in Item /\ ReadInv(t)
      /\ pc[t] = "publish" /\ minted' = minted
  BY DEF BookInv, IInv, TypeOK, Publish
<1>2. CASE file' = file
  BY <1>1, <1>2, FileStays
<1>3. CASE Rebases(saw[t], result[t]) /\ file' = Onto(saw[t], result[t])
  <2>1. /\ saw[t].asked = file.asked /\ saw[t].flag = file.flag /\ Present(file)
        /\ file'.asked = result[t].asked /\ file'.flag = result[t].flag
        /\ file'.place = IF saw[t].place = result[t].place THEN file.place ELSE result[t].place
    BY <1>1, <1>3, RebasedFacts
  <2>2. SameKind
    BY <1>1, <2>1 DEF SameKind, ReadInv, IsTask, Present
  <2>3. AllAnswered(file)
    BY <1>1, <2>1 DEF ReadInv, AllAnswered
  <2>4. Derived(saw[t], result[t])
    BY <1>1 DEF ReadInv
  <2>5. CASE result[t].asked = <<>>
    BY <1>1, <2>1, <2>2, <2>3, <2>5 DEF FileStep, BookStep
  <2>6. CASE result[t].asked = saw[t].asked /\ result[t].flag = saw[t].flag
    BY <1>1, <2>1, <2>2, <2>6 DEF FileStep, BookStep
  <2>7. CASE \E a \in {"open", "merge"} :
               result[t].asked = Append(saw[t].asked, Question(a)) /\ result[t].flag = TRUE
    <3>1. PICK a \in {"open", "merge"} :
               result[t].asked = Append(saw[t].asked, Question(a)) /\ result[t].flag = TRUE
      BY <2>7
    <3>2. Asked(a)
      BY <1>1, <2>1, <2>3, <3>1 DEF Asked, AllAnswered, Waits
    <3> QED
      BY <2>2, <3>2, VerbKinds DEF FileStep, BookStep
  <2> QED
    BY <2>4, <2>5, <2>6, <2>7 DEF Derived
<1> QED
  BY <1>2, <1>3 DEF Publish

LEMMA AskPublishIsAStep ==
    ASSUME BookInv, AskPublish
    PROVE  FileStep
<1>1. /\ file \in Item /\ asker.saw \in Item /\ NoMergeQuestion(asker.saw) /\ TypeOK
      /\ minted' = minted
  BY DEF BookInv, IInv, TypeOK, AskerInv, AskPublish
<1>2. CASE file' = file
  BY <1>1, <1>2, FileStays
<1>3. CASE Rebases(asker.saw, Append1(asker.saw, "merge"))
           /\ file' = Onto(asker.saw, Append1(asker.saw, "merge"))
  <2> DEFINE new == Append1(asker.saw, "merge")
  <2>1. new \in Item /\ new.asked = Append(asker.saw.asked, Question("merge"))
    BY <1>1, AppendFacts, VerbKinds
  <2>2. asker.saw = [place |-> asker.saw.place, flag |-> asker.saw.flag,
                     triaged |-> asker.saw.triaged, asked |-> asker.saw.asked]
    BY <1>1 DEF Item
  <2>3. new.flag = TRUE /\ new.place = asker.saw.place
    BY <2>2 DEF Append1
  <2>4. Rebases(asker.saw, new) /\ file' = Onto(asker.saw, new)
    BY <1>3
  <2> HIDE DEF new
  <2>5. /\ asker.saw.asked = file.asked /\ file'.asked = new.asked /\ file'.flag = new.flag
        /\ file'.place = file.place
    BY <1>1, <2>1, <2>3, <2>4, RebasedFacts
  <2>6. Asked("merge")
    BY <1>1, <2>1, <2>3, <2>5 DEF Asked, NoMergeQuestion, Waits
  <2> QED
    BY <2>5, <2>6, VerbKinds DEF FileStep, BookStep, SameKind, IsTask
<1>4. CASE OnlyAnswered(asker.saw.asked, file.asked) /\ file' = Append1(file, "merge")
  <2>1. asker.saw.asked \in Seq(Entry) /\ file.asked \in Seq(Entry)
    BY <1>1 DEF Item
  <2>2. \A i \in DOMAIN file.asked : ~Waits(file, i, "merge")
    BY <1>1, <1>4, <2>1 DEF OnlyAnswered, NoMergeQuestion, Waits, Question
  <2> QED
    BY <1>1, <1>4, <2>2, QuestionAdded, VerbKinds
<1> QED
  BY <1>2, <1>3, <1>4 DEF AskPublish

LEMMA AnswerIsAStep ==
    ASSUME TypeOK, Answer
    PROVE  /\ FileStep
           /\ file'.flag = file.flag /\ file'.place = file.place
           /\ minted' = minted /\ branch' = branch /\ lock' = lock
           /\ \A i \in DOMAIN file.asked : file'.asked[i] # file.asked[i] =>
                 file'.asked[i].gen = branch.gen /\ file'.asked[i].crossed = Building
<1>1. PICK k \in DOMAIN file.asked :
        /\ file.asked[k].answer = "none"
        /\ \E a \in Verbs[file.asked[k].ask] :
              file' = [file EXCEPT !.asked[k] =
                         [@ EXCEPT !.answer = a, !.gen = branch.gen, !.crossed = Building]]
  BY DEF Answer
<1>2. PICK a \in Verbs[file.asked[k].ask] :
        file' = [file EXCEPT !.asked[k] =
                   [@ EXCEPT !.answer = a, !.gen = branch.gen, !.crossed = Building]]
  BY <1>1
<1>3. file \in Item /\ file.asked \in Seq(Entry) /\ file.asked[k] \in Entry
  BY DEF TypeOK, Item
<1> DEFINE e == [file.asked[k] EXCEPT !.answer = a, !.gen = branch.gen, !.crossed = Building]
<1>4. e.gen = branch.gen /\ e.crossed = Building
  BY <1>3 DEF Entry
<1>5. file = [place |-> file.place, flag |-> file.flag, triaged |-> file.triaged,
              asked |-> file.asked]
  BY <1>3 DEF Item
<1>6. file' = [file EXCEPT !.asked = [file.asked EXCEPT ![k] = e]]
  BY <1>2, <1>5
<1> HIDE DEF e
<1>7. /\ file'.flag = file.flag /\ file'.place = file.place
      /\ file'.asked = [file.asked EXCEPT ![k] = e]
  BY <1>5, <1>6
<1>8. \A i \in DOMAIN file.asked :
         file'.asked[i] = IF i = k THEN e ELSE file.asked[i]
  BY <1>3, <1>7
<1>9. minted' = minted /\ branch' = branch /\ lock' = lock
  BY DEF Answer
<1>10. FileStep
  BY <1>7 DEF FileStep, BookStep, SameKind, IsTask
<1> QED
  BY <1>4, <1>7, <1>8, <1>9, <1>10

-----------------------------------------------------------------------------
(* What each step does to the sidecar *)

\* The branch changes to a new build only while a builder is at work, and a
\* builder starts on an item that is not flagged.
BranchStep == branch' \in {branch, NoBranch} \/ Building
BuildStep == Building' => Building \/ (~file.flag /\ file.place = "ready" /\ file' = file)

MainStep == FileStep /\ BranchStep /\ BuildStep

\* The other ticks go on with what they knew.
OthersKeep(t) ==
    \A u \in Tick \ {t} :
        /\ pc'[u] = pc[u] /\ saw'[u] = saw[u] /\ product'[u] = product[u]
        /\ result'[u] = result[u] /\ stale'[u] = stale[u]

\* The entries that are answered after a step were answered before, or are the
\* one that was answered by it.
LEMMA AnsweredAfter ==
    ASSUME TypeOK, BookStep, TypeOK', NEW i \in DOMAIN file'.asked,
           file'.asked[i].answer # "none"
    PROVE  \/ i \in DOMAIN file.asked /\ file'.asked[i] = file.asked[i]
           \/ /\ Answer /\ branch' = branch /\ lock' = lock
              /\ file'.asked[i].gen = branch.gen /\ file'.asked[i].crossed = Building
<1>1. file.asked \in Seq(Entry) /\ file'.asked \in Seq(Entry)
  BY DEF TypeOK, Item
<1>2. CASE \E a \in DOMAIN Verbs : Asked(a)
  <2>1. PICK a \in DOMAIN Verbs : file'.asked = Append(file.asked, Question(a))
    BY <1>2 DEF Asked
  <2>2. Question(a).answer = "none" /\ Question(a) \in Entry
    BY QuestionIsEntry DEF Question
  <2>3. i # Len(file.asked) + 1
    <3>1. file'.asked[Len(file.asked) + 1] = Question(a)
      BY <1>1, <2>1, <2>2
    <3> QED
      BY <2>2, <3>1
  <2> QED
    BY <1>1, <2>1, <2>2, <2>3
<1>3. CASE Answer
  BY <1>3, AnswerFacts, AnswerIsAStep
<1>4. CASE file'.asked = file.asked \/ file'.asked = <<>>
  BY <1>4
<1> QED
  BY <1>2, <1>3, <1>4 DEF BookStep, Minted, NoItem

LEMMA MainKept ==
    ASSUME BookInv, MainStep, TypeOK'
    PROVE  HumanInv' /\ KindInv'
<1>1. /\ TypeOK /\ HumanInv /\ KindInv /\ BookStep /\ SameKind /\ BranchStep /\ BuildStep
      /\ file.asked \in Seq(Entry)
  BY DEF BookInv, IInv, MainStep, FileStep, TypeOK, Item
<1>2. (file.asked # <<>> => file.flag)'
  BY <1>1, AnswerIsAStep, AnswerFacts DEF BookStep, HumanInv, Asked, Minted, NoItem
<1>3. ASSUME Building', NEW i \in DOMAIN file'.asked, file'.asked[i].answer # "none"
      PROVE  file'.asked[i].crossed
  <2>1. CASE i \in DOMAIN file.asked /\ file'.asked[i] = file.asked[i]
    <3>1. Building
      BY <1>1, <1>3, <2>1 DEF BuildStep, HumanInv
    <3> QED
      BY <1>1, <1>3, <2>1, <3>1 DEF HumanInv
  <2>2. CASE lock' = lock /\ file'.asked[i].crossed = Building
    BY <1>3, <2>2 DEF Building
  <2> QED
    BY <1>1, <1>3, <2>1, <2>2, AnsweredAfter
<1>4. ASSUME branch' # NoBranch, NEW i \in DOMAIN file'.asked
      PROVE  Met(file.asked[i])'
  <2> SUFFICES ASSUME file'.asked[i].answer # "none"
               PROVE  file'.asked[i].crossed \/ file'.asked[i].gen = branch'.gen
    BY DEF Met
  <2>1. CASE i \in DOMAIN file.asked /\ file'.asked[i] = file.asked[i]
    <3>1. CASE Building
      BY <1>1, <2>1, <3>1 DEF HumanInv
    <3>2. CASE branch' = branch
      BY <1>1, <1>4, <2>1, <3>2 DEF HumanInv, Met
    <3> QED
      BY <1>1, <1>4, <3>1, <3>2 DEF BranchStep
  <2>2. CASE branch' = branch /\ file'.asked[i].gen = branch.gen
    BY <2>2
  <2> QED
    BY <1>1, <2>1, <2>2, AnsweredAfter
<1>5. HumanInv'
  BY <1>2, <1>3, <1>4 DEF HumanInv
<1>6. KindInv'
  <2>1. Building' \/ branch' # NoBranch => IsTask(file)
    BY <1>1 DEF BuildStep, BranchStep, KindInv, IsTask
  <2>2. minted' # {} => file'.place = "gone"
    BY <1>1, AnswerIsAStep DEF BookStep, Asked, Minted, NoItem, KindInv, SameKind
  <2> QED
    BY <1>1, <2>1, <2>2 DEF KindInv, SameKind
<1> QED
  BY <1>5, <1>6

\* A tick that makes no step still knows what is true of the item.
LEMMA ReaderKept ==
    ASSUME SameKind, NEW u \in Tick, ReadInv(u), pc'[u] = pc[u], saw'[u] = saw[u],
           product'[u] = product[u], result'[u] = result[u]
    PROVE  ReadInv(u)'
  BY DEF SameKind, ReadInv, AllAnswered, Present, IsTask, Rung, Gated, Derived, Question

LEMMA BookKept ==
    ASSUME BookInv, IInv', MainStep, NEW t \in Tick, ReadInv(t)', OthersKeep(t)
    PROVE  BookInv'
<1>1. HumanInv' /\ KindInv'
  BY MainKept DEF IInv
<1>2. ASSUME NEW u \in Tick \ {t}  PROVE ReadInv(u)'
  BY ReaderKept DEF BookInv, MainStep, FileStep, OthersKeep
<1> QED
  BY <1>1, <1>2 DEF BookInv

\* A step of nobody's tick.
LEMMA BookKeptElsewhere ==
    ASSUME BookInv, IInv', MainStep, UNCHANGED tick
    PROVE  BookInv'
<1>1. HumanInv' /\ KindInv'
  BY MainKept DEF IInv
<1>2. ASSUME NEW u \in Tick  PROVE ReadInv(u)'
  BY ReaderKept DEF BookInv, MainStep, FileStep, tick
<1> QED
  BY <1>1, <1>2 DEF BookInv

\* The lock goes to no builder.
LEMMA NoBuilderStarts ==
    ASSUME TypeOK,
           \/ lock' \in {lock, NoLock, [lock EXCEPT !.by = "left"], [lock EXCEPT !.kept = TRUE]}
           \/ \E t \in Tick : lock' = [by |-> t, kept |-> FALSE]
    PROVE  BuildStep
  BY ConstantsAssumption DEF TypeOK, BuildStep, Building, NoLock, Tick

LEMMA EndReads ==
    ASSUME TypeOK, NEW t \in Tick, End(t)
    PROVE  ReadInv(t)' /\ OthersKeep(t)
<1>1. /\ pc'[t] = "idle" /\ saw'[t] = NoItem /\ product'[t] = "none" /\ result'[t] = NoItem
      /\ OthersKeep(t)
  BY DEF End, Goto, OthersKeep, TypeOK
<1>2. NoItem.asked = <<>>
  BY DEF NoItem
<1> QED
  BY <1>1, <1>2 DEF ReadInv, AllAnswered, Derived

\* What is known of a tick that makes a step.
LEMMA Known ==
    ASSUME BookInv, NEW t \in Tick
    PROVE  /\ IInv /\ TypeOK /\ HumanInv /\ KindInv /\ ReadInv(t) /\ TickInv(t)
           /\ file \in Item /\ saw[t] \in Item /\ result[t] \in Item
           /\ branch \in Branch /\ seenTip[t] \in Branch /\ product[t] \in Product
  BY DEF BookInv, IInv, TypeOK

LEMMA QuietReads ==
    ASSUME BookInv, NEW t \in Tick,
           \/ Classify(t) \/ ClassifyAtBase(t) \/ Lock(t) \/ Agent(t) \/ RungStale(t)
           \/ ActFails(t)
    PROVE  MainStep /\ ReadInv(t)' /\ OthersKeep(t)
<1>k. /\ IInv /\ TypeOK /\ HumanInv /\ KindInv /\ ReadInv(t) /\ TickInv(t)
      /\ file \in Item /\ saw[t] \in Item /\ result[t] \in Item
      /\ branch \in Branch /\ seenTip[t] \in Branch /\ product[t] \in Product
  BY Known
<1>1. file' = file /\ minted' = minted /\ branch' = branch
  BY <1>k DEF Classify, ClassifyAtBase, Lock, Agent, RungStale, ActFails
<1>2. BuildStep
  BY <1>k, NoBuilderStarts DEF Classify, ClassifyAtBase, Lock, Agent, RungStale, ActFails
<1>3. MainStep
  BY <1>k, <1>1, <1>2, FileStays DEF MainStep, BranchStep
<1>4. OthersKeep(t)
  BY <1>k DEF OthersKeep, TypeOK, Classify, ClassifyAtBase, Lock, Agent, RungStale, ActFails, Goto
<1>5. CASE Classify(t) \/ ClassifyAtBase(t)
  <2>1. /\ saw'[t] = file /\ pc'[t] = "lock" /\ product'[t] = product[t] /\ result'[t] = result[t]
        /\ pc[t] = "idle" /\ Present(file) /\ Rung(file) \in Does
    BY <1>k, <1>5 DEF Classify, ClassifyAtBase, Goto, TypeOK, Does
  <2>2. AllAnswered(file)
    BY <1>k, <2>1, ActedIsAnswered
  <2>9. ReadInv(t)'
    BY <1>k, <1>1, <2>1, <2>2 DEF ReadInv, TickInv, Derived, AllAnswered, Present, IsTask, Rung, Gated, Question
  <2> QED
    BY <1>3, <1>4, <2>9
<1>6. CASE Lock(t)
  <2>1. /\ saw'[t] = saw[t] /\ product'[t] = product[t] /\ result'[t] = result[t]
        /\ pc[t] = "lock" /\ pc'[t] = IF t \in Ci THEN "agent" ELSE "act"
    BY <1>k, <1>6 DEF Lock, Goto, TypeOK
  <2>9. ReadInv(t)'
    BY <1>k, <1>1, <2>1 DEF ReadInv, Derived, AllAnswered, Present, IsTask, Rung, Gated, Question
  <2> QED
    BY <1>3, <1>4, <2>9
<1>7. CASE Agent(t)
  <2>1. /\ saw'[t] = saw[t] /\ result'[t] = result[t] /\ t \in Ci
        /\ pc[t] = "agent" /\ pc'[t] = "act"
    BY <1>k, <1>7 DEF Agent, Goto, TypeOK
  <2>2. \/ product'[t] \in {"none", "failed"}
        \/ NeedsAgent(saw[t], seenTip[t]) /\ product'[t] \in Products(saw[t], seenTip[t])
    BY <1>k, <1>7, <2>1 DEF Agent, TypeOK, TickInv
  <2>3. /\ product'[t] \in {"mint", "auto", "dispose"} => ~IsTask(saw[t])
        /\ product'[t] = "cancel" => IsTask(saw[t])
        /\ product'[t] # "reset"
    BY <1>k, <2>2, ProductsKind
  <2>9. ReadInv(t)'
    BY <1>k, <1>1, <2>1, <2>3 DEF ReadInv, Derived, AllAnswered, Present, IsTask, Rung, Gated, Question
  <2> QED
    BY <1>3, <1>4, <2>9
<1>8. CASE RungStale(t)
  <2>1. /\ saw'[t] = saw[t] /\ product'[t] = product[t] /\ result'[t] = result[t]
        /\ t \notin Local /\ pc[t] # "idle" /\ pc'[t] = "release"
    BY <1>k, <1>8, ConstantsAssumption DEF RungStale, AtRung, Goto, TypeOK
  <2>9. ReadInv(t)'
    BY <1>k, <1>1, <2>1 DEF ReadInv, Derived, AllAnswered, Present, IsTask, Rung, Gated, Question
  <2> QED
    BY <1>3, <1>4, <2>9
<1>9. CASE ActFails(t)
  <2>1. /\ saw'[t] = saw[t] /\ product'[t] = product[t] /\ result'[t] = saw[t]
        /\ pc[t] = "act" /\ pc'[t] = "release"
    BY <1>k, <1>9 DEF ActFails, Goto, TypeOK
  <2>9. ReadInv(t)'
    BY <1>k, <1>1, <2>1 DEF ReadInv, Derived, AllAnswered, Present, IsTask, Rung, Gated, Question
  <2> QED
    BY <1>3, <1>4, <2>9
<1> QED
  BY <1>k, <1>3, <1>4, <1>5, <1>6, <1>7, <1>8, <1>9

\* A tick that ends.
LEMMA EndingReads ==
    ASSUME BookInv, NEW t \in Tick,
           Lost(t) \/ NotOwner(t) \/ SurfaceItem(t) \/ StaleLease(t) \/ ApplyMergeFails(t) \/ Die(t)
    PROVE  MainStep /\ ReadInv(t)' /\ OthersKeep(t)
<1>k. /\ IInv /\ TypeOK /\ HumanInv /\ KindInv /\ ReadInv(t) /\ TickInv(t)
      /\ file \in Item /\ saw[t] \in Item /\ result[t] \in Item
      /\ branch \in Branch /\ seenTip[t] \in Branch /\ product[t] \in Product
  BY Known
<1>1. End(t) /\ branch' = branch /\ minted' = minted
  BY <1>k DEF Lost, NotOwner, SurfaceItem, StaleLease, ApplyMergeFails, Die
<1>2. BuildStep
  BY <1>k, NoBuilderStarts DEF Lost, NotOwner, SurfaceItem, StaleLease, ApplyMergeFails, Die
<1>3. file' = file \/ Surface
  BY <1>k DEF Lost, NotOwner, SurfaceItem, StaleLease, ApplyMergeFails, Die
<1>4. FileStep
  BY <1>k, <1>1, <1>3, FileStays, SurfaceIsAStep
<1> QED
  BY <1>k, <1>1, <1>2, <1>4, EndReads DEF MainStep, BranchStep

\* A tick that did its rung on a copy, and has made its own of it.
LEMMA MadeReads ==
    ASSUME NEW t, NEW s, NEW r, saw'[t] = s, result'[t] = r, pc'[t] \in {"release", "publish"},
           AllAnswered(s), Present(s), Rung(s) \in Does, IsTask(s) <=> IsTask(file'),
           Derived(s, r), IsTask(r) <=> IsTask(s),
           product'[t] \in {"mint", "auto", "dispose"} => ~IsTask(s),
           product'[t] = "cancel" => IsTask(s), product'[t] # "reset"
    PROVE  ReadInv(t)'
<1>1. AllAnswered(saw[t])'
  BY DEF AllAnswered
<1>2. Present(saw[t])' /\ (Rung(saw[t]) \in Does)' /\ (IsTask(saw[t]) <=> IsTask(file))'
  BY DEF Present, Rung, Gated, IsTask, AllAnswered
<1>3. Derived(saw[t], result[t])'
  BY DEF Derived, Question
<1>4. (IsTask(result[t]) <=> IsTask(saw[t]))'
  BY DEF IsTask
<1>5. ((product[t] \in {"mint", "auto", "dispose"} => ~IsTask(saw[t]))
        /\ (product[t] = "cancel" => IsTask(saw[t])))'
  BY DEF IsTask
<1> QED
  BY <1>1, <1>2, <1>3, <1>4, <1>5 DEF ReadInv

LEMMA ActReads ==
    ASSUME BookInv, NEW t \in Tick, Act(t)
    PROVE  MainStep /\ ReadInv(t)' /\ OthersKeep(t)
<1>k. /\ IInv /\ TypeOK /\ HumanInv /\ KindInv /\ ReadInv(t) /\ TickInv(t)
      /\ file \in Item /\ saw[t] \in Item /\ result[t] \in Item
      /\ branch \in Branch /\ seenTip[t] \in Branch /\ product[t] \in Product
  BY Known
<1>1. PICK p \in Products(saw[t], branch) :
           /\ IF p = "land" THEN Land ELSE Effect(p)
           /\ result' = [result EXCEPT ![t] = Copy(saw[t], p)]
  BY <1>k DEF Act
<1>2. /\ p \in {"mint", "auto", "dispose"} => ~IsTask(saw[t])
      /\ p = "cancel" => IsTask(saw[t])
      /\ p \in Product
  BY <1>k, ProductsKind, ProductsFacts
<1>3. /\ pc[t] = "act" /\ t \in Local /\ lock' = lock
      /\ pc'[t] = "release" /\ saw'[t] = saw[t] /\ product'[t] = product[t]
      /\ result'[t] = Copy(saw[t], p) /\ OthersKeep(t)
  BY <1>k, <1>1 DEF Act, Goto, TypeOK, OthersKeep
<1>4. IsTask(saw[t]) <=> IsTask(file)
  BY <1>k, <1>3 DEF ReadInv
<1>5. FileStep
  BY <1>k, <1>1, <1>2, <1>4, LandIsAStep, EffectIsAStep
<1>6. branch' \in {branch, NoBranch}
  BY <1>k, <1>1 DEF Land, Effect, Mint, DropBranch
<1>7. MainStep
  BY <1>k, <1>3, <1>5, <1>6, NoBuilderStarts DEF MainStep, BranchStep
<1>8. Derived(saw[t], Copy(saw[t], p)) /\ (IsTask(Copy(saw[t], p)) <=> IsTask(saw[t]))
  BY <1>k, <1>2, CopyIsDerived DEF IsTask
<1>9. IsTask(file') <=> IsTask(file)
  BY <1>k, <1>5 DEF FileStep, SameKind
<1>10. ReadInv(t)'
  <2>1. /\ AllAnswered(saw[t]) /\ Present(saw[t]) /\ Rung(saw[t]) \in Does
        /\ product[t] \in {"mint", "auto", "dispose"} => ~IsTask(saw[t])
        /\ product[t] = "cancel" => IsTask(saw[t])
        /\ product[t] # "reset"
    BY <1>k, <1>3 DEF ReadInv
  <2>2. IsTask(saw[t]) <=> IsTask(file')
    BY <1>4, <1>9
  <2> QED
    BY <1>3, <1>8, <2>1, <2>2, MadeReads
<1> QED
  BY <1>k, <1>3, <1>7, <1>10

LEMMA ActBouncesReads ==
    ASSUME BookInv, NEW t \in Tick, ActBounces(t)
    PROVE  MainStep /\ ReadInv(t)' /\ OthersKeep(t)
<1>k. /\ IInv /\ TypeOK /\ HumanInv /\ KindInv /\ ReadInv(t) /\ TickInv(t)
      /\ file \in Item /\ saw[t] \in Item /\ result[t] \in Item
      /\ branch \in Branch /\ seenTip[t] \in Branch /\ product[t] \in Product
  BY Known
<1>1. /\ pc[t] = "act" /\ t \in Local /\ lock' = NoLock /\ minted' = minted /\ branch' = branch
      /\ pc'[t] = "release" /\ saw'[t] = saw[t] /\ product'[t] = product[t]
      /\ result'[t] = saw[t] /\ OthersKeep(t) /\ Surface
  BY <1>k DEF ActBounces, Goto, TypeOK, OthersKeep
<1>2. FileStep
  BY <1>k, <1>1, SurfaceIsAStep
<1>3. MainStep
  BY <1>k, <1>1, <1>2, NoBuilderStarts DEF MainStep, BranchStep
<1>4. IsTask(file') <=> IsTask(file)
  BY <1>k, <1>2 DEF FileStep, SameKind
<1>5. ReadInv(t)'
  BY <1>k, <1>1, <1>4 DEF ReadInv, Derived, AllAnswered, Present, IsTask, Rung, Gated, Question
<1> QED
  BY <1>k, <1>1, <1>3, <1>5

LEMMA ApplyMergeReads ==
    ASSUME BookInv, NEW t \in Tick, ApplyMerge(t)
    PROVE  MainStep /\ ReadInv(t)' /\ OthersKeep(t)
<1>k. /\ IInv /\ TypeOK /\ HumanInv /\ KindInv /\ ReadInv(t) /\ TickInv(t)
      /\ file \in Item /\ saw[t] \in Item /\ result[t] \in Item
      /\ branch \in Branch /\ seenTip[t] \in Branch /\ product[t] \in Product
  BY Known
<1>1. /\ pc[t] = "act" /\ t \in Ci /\ t \notin Local /\ lock' = lock /\ product[t] = "land"
      /\ pc'[t] \in {"release", "record"} /\ saw'[t] = saw[t] /\ product'[t] = product[t]
      /\ result'[t] = saw[t] /\ OthersKeep(t)
  BY <1>k, ConstantsAssumption DEF ApplyMerge, Goto, TypeOK, OthersKeep
<1>2. FileStep
  BY <1>k, LandIsAStep, FileStays DEF ApplyMerge
<1>3. branch' \in {branch, NoBranch}
  BY <1>k DEF ApplyMerge, Land
<1>4. MainStep
  BY <1>k, <1>1, <1>2, <1>3, NoBuilderStarts DEF MainStep, BranchStep
<1>5. IsTask(file') <=> IsTask(file)
  BY <1>k, <1>2 DEF FileStep, SameKind
<1>6. ReadInv(t)'
  BY <1>k, <1>1, <1>5 DEF ReadInv, Derived, AllAnswered, Present, IsTask, Rung, Gated, Question
<1> QED
  BY <1>k, <1>1, <1>4, <1>6

LEMMA RunRungReads ==
    ASSUME BookInv, NEW t \in Tick, RunRung(t)
    PROVE  MainStep /\ ReadInv(t)' /\ OthersKeep(t)
<1>k. /\ IInv /\ TypeOK /\ HumanInv /\ KindInv /\ ReadInv(t) /\ TickInv(t)
      /\ file \in Item /\ saw[t] \in Item /\ result[t] \in Item
      /\ branch \in Branch /\ seenTip[t] \in Branch /\ product[t] \in Product
  BY Known
<1>1. PICK p \in IF product[t] = "none" THEN Products(file, branch) ELSE {product[t]} :
           /\ IF p = "land" THEN UNCHANGED <<file, branch, request, minted>> ELSE Effect(p)
           /\ result' = [result EXCEPT ![t] = Copy(file, p)]
  BY <1>k DEF RunRung
<1>2. /\ pc[t] # "idle" /\ t \in Ci /\ t \notin Local /\ lock' = lock
      /\ pc'[t] = "publish" /\ saw'[t] = file /\ product'[t] = product[t]
      /\ result'[t] = Copy(file, p) /\ OthersKeep(t)
      /\ Present(file) /\ Rung(file) = Rung(saw[t])
  BY <1>k, <1>1, ConstantsAssumption DEF RunRung, AtRung, SameRung, Goto, TypeOK, OthersKeep
<1>3. (IsTask(saw[t]) <=> IsTask(file)) /\ Rung(file) \in Does
  BY <1>k, <1>2 DEF ReadInv
<1>4. /\ p \in {"mint", "auto", "dispose"} => ~IsTask(file)
      /\ p = "cancel" => IsTask(file)
      /\ p \in Product
  <2>1. CASE product[t] = "none"
    BY <1>k, <1>1, <2>1, ProductsKind, ProductsFacts
  <2>2. CASE product[t] # "none"
    BY <1>k, <1>1, <1>3, <2>2 DEF ReadInv
  <2> QED
    BY <1>k, <2>1, <2>2
<1>5. FileStep
  BY <1>k, <1>1, <1>4, FileStays, EffectIsAStep
<1>6. branch' \in {branch, NoBranch}
  BY <1>k, <1>1 DEF Effect, Mint, DropBranch
<1>7. MainStep
  BY <1>k, <1>2, <1>5, <1>6, NoBuilderStarts DEF MainStep, BranchStep
<1>8. Derived(file, Copy(file, p)) /\ (IsTask(Copy(file, p)) <=> IsTask(file))
  BY <1>k, <1>4, CopyIsDerived DEF IsTask
<1>9. IsTask(file') <=> IsTask(file)
  BY <1>k, <1>5 DEF FileStep, SameKind
<1>10. AllAnswered(file)
  BY <1>k, <1>3, ActedIsAnswered
<1>11. ReadInv(t)'
  <2>1. /\ product[t] \in {"mint", "auto", "dispose"} => ~IsTask(file)
        /\ product[t] = "cancel" => IsTask(file)
        /\ product[t] # "reset"
    BY <1>k, <1>3 DEF ReadInv
  <2>2. IsTask(file) <=> IsTask(file')
    BY <1>9
  <2> QED
    BY <1>2, <1>3, <1>8, <1>10, <2>1, <2>2, MadeReads
<1> QED
  BY <1>k, <1>2, <1>7, <1>11

LEMMA PublishReads ==
    ASSUME BookInv, NEW t \in Tick, Publish(t) \/ Release(t)
    PROVE  MainStep /\ ReadInv(t)' /\ OthersKeep(t)
<1>k. /\ IInv /\ TypeOK /\ HumanInv /\ KindInv /\ ReadInv(t) /\ TickInv(t)
      /\ file \in Item /\ saw[t] \in Item /\ result[t] \in Item
      /\ branch \in Branch /\ seenTip[t] \in Branch /\ product[t] \in Product
  BY Known
<1>1. branch' = branch /\ minted' = minted /\ lock' \in {lock, NoLock}
  BY <1>k DEF Publish, Release, Freed
<1>2. FileStep
  BY <1>k, <1>1, PublishIsAStep, FileStays DEF Release
<1>3. MainStep
  BY <1>k, <1>1, <1>2, NoBuilderStarts DEF MainStep, BranchStep
<1>4. CASE End(t)
  BY <1>k, <1>3, <1>4, EndReads
<1>5. CASE ~End(t)
  <2>1. /\ pc[t] \in {"publish", "release"} /\ t \in Tick
        /\ \/ t \in Ci /\ t \notin Local /\ pc'[t] = "release"
           \/ t \in Local /\ pc[t] = "release" /\ pc'[t] = "publish"
        /\ saw'[t] = saw[t] /\ product'[t] = product[t] /\ result'[t] = result[t]
        /\ OthersKeep(t)
    BY <1>k, <1>5, ConstantsAssumption DEF Publish, Release, Goto, TypeOK, OthersKeep, Tick
  <2>2. IsTask(file') <=> IsTask(file)
    BY <1>k, <1>2 DEF FileStep, SameKind
  <2>3. ReadInv(t)'
    BY <1>k, <2>1, <2>2 DEF ReadInv, Derived, AllAnswered, Present, IsTask, Rung, Gated, Question
  <2> QED
    BY <1>k, <1>3, <2>1, <2>3
<1> QED
  BY <1>k, <1>4, <1>5

LEMMA ElsewhereMain ==
    ASSUME BookInv,
           \/ AskRead \/ AskPublish \/ Claim \/ Propose \/ Bounce
           \/ Answer \/ CloseRequest \/ MergeRequest \/ Reconcile \/ Clear
           \/ UNCHANGED vars
    PROVE  MainStep /\ UNCHANGED tick
<1>1. TypeOK /\ HumanInv /\ KindInv
  BY DEF BookInv, IInv
<1>2. UNCHANGED tick
  BY DEF AskRead, AskPublish, Claim, Propose, Bounce, Answer, CloseRequest, MergeRequest,
         Reconcile, Clear, vars
<1>3. CASE AskPublish
  BY <1>1, <1>2, <1>3, AskPublishIsAStep, NoBuilderStarts
     DEF AskPublish, MainStep, BranchStep
<1>4. CASE Claim
  <2>1. file' = file /\ minted' = minted /\ branch' = branch
        /\ ~file.flag /\ file.place = "ready"
    BY <1>4 DEF Claim
  <2> QED
    BY <1>2, <2>1, FileStays DEF MainStep, BranchStep, BuildStep
<1>5. CASE Propose
  BY <1>1, <1>2, <1>5, FileStays, NoBuilderStarts DEF Propose, MainStep, BranchStep
<1>6. CASE Bounce
  BY <1>1, <1>2, <1>6, SurfaceIsAStep, NoBuilderStarts DEF Bounce, MainStep, BranchStep
<1>7. CASE Answer
  BY <1>1, <1>2, <1>7, AnswerIsAStep, NoBuilderStarts DEF MainStep, BranchStep
<1>8. CASE MergeRequest
  <2>1. branch' \in {branch, NoBranch} /\ lock' = lock /\ Land
    BY <1>8 DEF MergeRequest, Land
  <2> QED
    BY <1>1, <1>2, <2>1, LandIsAStep, NoBuilderStarts DEF MainStep, BranchStep
<1>9. CASE AskRead \/ CloseRequest \/ Reconcile \/ Clear \/ UNCHANGED vars
  <2>1. file' = file /\ minted' = minted /\ branch' = branch /\ lock' \in {lock, NoLock}
    BY <1>9 DEF AskRead, CloseRequest, Reconcile, Clear, vars
  <2> QED
    BY <1>1, <1>2, <2>1, FileStays, NoBuilderStarts DEF MainStep, BranchStep
<1> QED
  BY <1>3, <1>4, <1>5, <1>6, <1>7, <1>8, <1>9

\* A step of one tick.
StepOf(t) ==
    \/ Classify(t) \/ ClassifyAtBase(t) \/ Lock(t) \/ Lost(t) \/ TickStep(t) \/ Die(t)

LEMMA TickReads ==
    ASSUME BookInv, NEW t \in Tick, StepOf(t)
    PROVE  MainStep /\ ReadInv(t)' /\ OthersKeep(t)
<1>1. CASE \/ Classify(t) \/ ClassifyAtBase(t) \/ Lock(t) \/ Agent(t) \/ RungStale(t)
           \/ ActFails(t)
  BY <1>1, QuietReads
<1>2. CASE Lost(t) \/ NotOwner(t) \/ SurfaceItem(t) \/ StaleLease(t) \/ ApplyMergeFails(t)
           \/ Die(t)
  BY <1>2, EndingReads
<1>3. CASE Act(t) \/ ActBounces(t)
  BY <1>3, ActReads, ActBouncesReads
<1>4. CASE ApplyMerge(t) \/ RunRung(t)
  BY <1>4, ApplyMergeReads, RunRungReads
<1>5. CASE Publish(t) \/ Release(t)
  BY <1>5, PublishReads
<1> QED
  BY <1>1, <1>2, <1>3, <1>4, <1>5 DEF StepOf, TickStep

LEMMA StepCases ==
    ASSUME [Next]_vars
    PROVE  \/ \E t \in Tick : StepOf(t)
           \/ AskRead \/ AskPublish \/ Claim \/ Propose \/ Bounce
           \/ Answer \/ CloseRequest \/ MergeRequest \/ Reconcile \/ Clear
           \/ UNCHANGED vars
  BY DEF Next, StepOf

LEMMA BookInductive ==
    ASSUME BookInv, [Next]_vars
    PROVE  BookInv' /\ MainStep
<1>1. IInv'
  BY Inductive DEF BookInv
<1>2. ASSUME NEW t \in Tick, StepOf(t)
      PROVE  BookInv' /\ MainStep
  BY <1>1, <1>2, TickReads, BookKept
<1>3. ASSUME \/ AskRead \/ AskPublish \/ Claim \/ Propose \/ Bounce
             \/ Answer \/ CloseRequest \/ MergeRequest \/ Reconcile \/ Clear
             \/ UNCHANGED vars
      PROVE  BookInv' /\ MainStep
  BY <1>1, <1>3, ElsewhereMain, BookKeptElsewhere
<1> QED
  BY <1>2, <1>3, StepCases

LEMMA BookStarts == Init => BookInv
<1> SUFFICES ASSUME Init  PROVE BookInv
  OBVIOUS
<1>1. IInv
  BY InitEstablishes
<1>2. /\ file.asked = <<>> /\ branch = NoBranch /\ ~Building /\ minted = {}
  BY DEF Init, Building, NoLock
<1>3. HumanInv /\ KindInv
  BY <1>2 DEF HumanInv, KindInv
<1>4. ASSUME NEW t \in Tick  PROVE ReadInv(t)
  <2>1. pc[t] = "idle" /\ saw[t] = NoItem /\ product[t] = "none" /\ result[t] = NoItem
    BY DEF Init
  <2>2. NoItem.asked = <<>>
    BY DEF NoItem
  <2> QED
    BY <2>1, <2>2 DEF ReadInv, AllAnswered, Derived
<1> QED
  BY <1>1, <1>3, <1>4 DEF BookInv

LEMMA BookAlways == Spec => []BookInv
<1>1. BookInv /\ [Next]_vars => BookInv'
  BY BookInductive
<1> QED
  BY <1>1, BookStarts, PTL DEF Spec

-----------------------------------------------------------------------------
(* The refinement of the abstract book *)

\* What a sidecar is in the abstract book.
BookOf(s) == [i \in DOMAIN s |-> [ask |-> s[i].ask, answer |-> s[i].answer]]
Told == [ask : DOMAIN Verbs, answer : {"none"} \cup UNION {Verbs[a] : a \in DOMAIN Verbs}]

LEMMA BookOfFacts ==
    ASSUME NEW s \in Seq(Entry)
    PROVE  /\ BookOf(s) \in Seq(Told) /\ Len(BookOf(s)) = Len(s)
           /\ \A i \in DOMAIN s : BookOf(s)[i] = [ask |-> s[i].ask, answer |-> s[i].answer]
<1>1. DOMAIN s = 1 .. Len(s) /\ Len(s) \in Nat /\ \A i \in DOMAIN s : s[i] \in Entry
  OBVIOUS
<1>2. BookOf(s) \in [1 .. Len(s) -> Told]
  BY <1>1 DEF BookOf, Told, Entry
<1>3. BookOf(s) \in Seq(Told)
  BY <1>1, <1>2, SeqDef
<1> QED
  BY <1>1, <1>2, <1>3 DEF BookOf

LEMMA BookOfAppend ==
    ASSUME NEW s \in Seq(Entry), NEW e \in Entry
    PROVE  BookOf(Append(s, e)) =
             Append(BookOf(s), [ask |-> e.ask, answer |-> e.answer])
<1> DEFINE r == Append(s, e)
           x == [ask |-> e.ask, answer |-> e.answer]
<1>1. /\ r \in Seq(Entry) /\ Len(r) = Len(s) + 1 /\ r[Len(s) + 1] = e
      /\ \A i \in 1 .. Len(s) : r[i] = s[i]
      /\ DOMAIN r = 1 .. Len(s) + 1 /\ DOMAIN s = 1 .. Len(s) /\ Len(s) \in Nat
  OBVIOUS
<1>2. x \in Told
  BY DEF Entry, Told
<1> HIDE DEF r, x
<1>3. /\ BookOf(s) \in Seq(Told) /\ Len(BookOf(s)) = Len(s)
      /\ \A i \in DOMAIN s : BookOf(s)[i] = [ask |-> s[i].ask, answer |-> s[i].answer]
  BY BookOfFacts
<1>4. Append(BookOf(s), x) =
        [i \in 1 .. Len(s) + 1 |-> IF i = Len(s) + 1 THEN x ELSE BookOf(s)[i]]
  <2> DEFINE q == BookOf(s)
  <2>1. q \in Seq(Told) /\ Len(q) = Len(s)
    BY <1>3
  <2> HIDE DEF q
  <2>2. /\ Append(q, x) \in Seq(Told) /\ Len(Append(q, x)) = Len(q) + 1
        /\ \A i \in 1 .. Len(q) : Append(q, x)[i] = q[i]
        /\ Append(q, x)[Len(q) + 1] = x
    BY <1>2, <2>1, AppendProperties
  <2> DEFINE p == Append(q, x)
             g == [i \in 1 .. Len(q) + 1 |-> IF i = Len(q) + 1 THEN x ELSE q[i]]
  <2>3. p \in [1 .. Len(q) + 1 -> Told]
    <3>1. p \in Seq(Told) /\ Len(p) = Len(q) + 1
      BY <2>2
    <3> HIDE DEF p
    <3>2. p \in [1 .. Len(p) -> Told]
      BY <3>1
    <3> QED
      BY <3>1, <3>2
  <2>4. \A i \in 1 .. Len(q) + 1 : p[i] = g[i]
    BY <1>1, <2>1, <2>2
  <2>5. p = [i \in 1 .. Len(q) + 1 |-> p[i]]
    <3> HIDE DEF p
    <3> QED
      BY <2>3
  <2>6. p = g
    <3> HIDE DEF p
    <3> QED
      BY <2>4, <2>5
  <2> QED
    BY <2>1, <2>6 DEF q
<1>5. BookOf(r) =
        [i \in 1 .. Len(s) + 1 |-> IF i = Len(s) + 1 THEN x ELSE BookOf(s)[i]]
  BY <1>1, <1>3 DEF BookOf, x
<1>6. BookOf(r) = Append(BookOf(s), x)
  BY <1>4, <1>5
<1> QED
  BY <1>6 DEF r, x

LEMMA AnswerReplies ==
    ASSUME TypeOK, Answer
    PROVE  \E i \in DOMAIN file.asked : \E a \in Verbs[file.asked[i].ask] : Book!Reply(i, a)
<1>1. PICK k \in DOMAIN file.asked :
        /\ file.asked[k].answer = "none"
        /\ \E a \in Verbs[file.asked[k].ask] :
              file' = [file EXCEPT !.asked[k] =
                         [@ EXCEPT !.answer = a, !.gen = branch.gen, !.crossed = Building]]
  BY DEF Answer
<1>2. PICK a \in Verbs[file.asked[k].ask] :
        file' = [file EXCEPT !.asked[k] =
                   [@ EXCEPT !.answer = a, !.gen = branch.gen, !.crossed = Building]]
  BY <1>1
<1>3. file \in Item /\ file.asked \in Seq(Entry) /\ file.asked[k] \in Entry
  BY DEF TypeOK, Item
<1> DEFINE e == [file.asked[k] EXCEPT !.answer = a, !.gen = branch.gen, !.crossed = Building]
<1>4. e.ask = file.asked[k].ask /\ e.answer = a
  BY <1>3 DEF Entry
<1>5. file = [place |-> file.place, flag |-> file.flag, triaged |-> file.triaged,
              asked |-> file.asked]
  BY <1>3 DEF Item
<1>6. file' = [file EXCEPT !.asked = [file.asked EXCEPT ![k] = e]]
  BY <1>2, <1>5
<1> HIDE DEF e
<1>7. file'.asked = [file.asked EXCEPT ![k] = e]
  BY <1>5, <1>6
<1>8. /\ DOMAIN file'.asked = DOMAIN file.asked
      /\ \A i \in DOMAIN file.asked :
            file'.asked[i] = IF i = k THEN e ELSE file.asked[i]
  BY <1>3, <1>7
<1>9. [i \in DOMAIN file'.asked |->
          [ask |-> file'.asked[i].ask, answer |-> file'.asked[i].answer]]
        = [[i \in DOMAIN file.asked |->
              [ask |-> file.asked[i].ask, answer |-> file.asked[i].answer]]
           EXCEPT ![k].answer = a]
  BY <1>4, <1>8
<1>10. minted' = minted
  BY DEF Answer
<1>11. Book!Reply(k, a)
  BY <1>1, <1>9, <1>10 DEF Book!Reply, Book!Open
<1> QED
  BY <1>2, <1>11

LEMMA BookSteps ==
    ASSUME TypeOK, BookStep
    PROVE  \/ Book!Next
           \/ UNCHANGED <<BookOf(file.asked), minted>>
<1>1. file.asked \in Seq(Entry) /\ \A s \in Seq(Entry) : DOMAIN s = 1 .. Len(s)
  BY DEF TypeOK, Item
<1>2. CASE file'.asked = file.asked /\ minted' = minted
  BY <1>2 DEF BookOf
<1>3. CASE file'.asked = <<>> /\ AllAnswered(file) /\ minted' = minted
  <2>1. [i \in DOMAIN file'.asked |->
          [ask |-> file'.asked[i].ask, answer |-> file'.asked[i].answer]] = <<>>
    BY <1>3
  <2>2. Book!Close
    BY <1>3, <2>1 DEF Book!Close, Book!Open, AllAnswered
  <2> QED
    BY <2>2 DEF Book!Next
<1>4. ASSUME NEW a \in DOMAIN Verbs, Asked(a)
      PROVE  Book!Next
  <2>1. Question(a) \in Entry /\ Question(a).ask = a /\ Question(a).answer = "none"
    BY QuestionIsEntry DEF Question
  <2>2. file'.asked = Append(file.asked, Question(a))
    BY <1>4 DEF Asked
  <2>3. BookOf(file'.asked) = Append(BookOf(file.asked), [ask |-> a, answer |-> "none"])
    BY <1>1, <2>1, <2>2, BookOfAppend
  <2>4. Book!Ask(a)
    BY <1>4, <2>3 DEF Book!Ask, Book!Open, Asked, Waits, BookOf
  <2> QED
    BY <2>4 DEF Book!Next
<1>5. ASSUME NEW s \in Slug, Minted(s)
      PROVE  Book!Next
  <2>1. file'.asked = <<>>
    BY <1>5 DEF Minted, NoItem
  <2>2. [i \in DOMAIN file'.asked |->
          [ask |-> file'.asked[i].ask, answer |-> file'.asked[i].answer]] = <<>>
    BY <2>1
  <2>3. Book!Become(s)
    BY <1>5, <2>2 DEF Book!Become, Minted
  <2> QED
    BY <2>3 DEF Book!Next
<1>6. CASE Answer
  <2>1. PICK i \in DOMAIN file.asked :
             \E a \in Verbs[file.asked[i].ask] : Book!Reply(i, a)
    BY <1>6, AnswerReplies
  <2> QED
    BY <2>1 DEF Book!Next
<1> QED
  BY <1>2, <1>3, <1>4, <1>5, <1>6 DEF BookStep

\* Questions are only added to the sidecar on main, an answer stays as it was
\* given, and what waits for its answer leaves main only with an observation that
\* becomes an artifact, however many ticks, passes, builders and people work on
\* the item: the rungs implement the abstract book.
THEOREM Refinement == Spec => ImplementsQuestionBook
<1>1. Init => Book!Init
  BY DEF Init, Book!Init
<1>2. BookInv /\ [Next]_vars => [Book!Next]_<<BookOf(file.asked), minted>>
  <2> SUFFICES ASSUME BookInv, [Next]_vars
               PROVE  Book!Next \/ UNCHANGED <<BookOf(file.asked), minted>>
    OBVIOUS
  <2>1. TypeOK /\ BookStep
    BY BookInductive DEF BookInv, IInv, MainStep, FileStep
  <2> QED
    BY <2>1, BookSteps
<1> QED
  BY <1>1, <1>2, BookAlways, PTL DEF Spec, ImplementsQuestionBook, Book!Spec, BookOf

-----------------------------------------------------------------------------
(* What a tick lands, deletes and mints *)

\* While the only local tick acts, it has its lock, so no builder is at work and
\* nobody mints: what it read before the lock is true of the branch still, if it
\* was true when it locked.
Holds(t) ==
    t \in Local /\ pc[t] = "act" =>
        /\ lock = [by |-> t, kept |-> FALSE]
        /\ ~stale[t] =>
             /\ minted = {}
             /\ branch # NoBranch => \A i \in DOMAIN saw[t].asked : Met(saw[t].asked[i])

AskedInv == BookInv /\ \A t \in Tick : Holds(t)

\* There is at most one local tick.
OneLocal == \A t, u \in Local : t = u

\* Nobody else gets at the lock of a local tick that acts, or mints meanwhile.
LEMMA LockIsKept ==
    ASSUME OneLocal, BookInv, [Next]_vars, NEW t \in Local, pc[t] = "act", ~StepOf(t),
           lock = [by |-> t, kept |-> FALSE]
    PROVE  lock' = lock /\ minted' = minted
<1>1. /\ t \in Tick /\ lock.by = t /\ ~lock.kept
      /\ t \notin {"nobody", "builder", "left"} /\ ~Building /\ lock # NoLock
  BY ConstantsAssumption DEF Tick, Building, NoLock
<1>2. ASSUME NEW u \in Tick, StepOf(u)
      PROVE  lock' = lock /\ minted' = minted
  <2>1. u # t /\ u \notin Local /\ ~Owns(u) /\ ~MayLock(saw[u])
    BY <1>1, <1>2 DEF OneLocal, Owns, MayLock
  <2>2. Freed(u) = lock
    BY <2>1 DEF Freed
  <2>3. pc[u] = "record" => product[u] = "land"
    BY DEF BookInv, ReadInv
  <2>4. CASE RunRung(u)
    <3>1. product[u] = "land"
      BY <2>1, <2>3, <2>4 DEF RunRung, AtRung
    <3> QED
      BY <2>4, <3>1 DEF RunRung
  <2> QED
    BY <1>2, <2>1, <2>2, <2>4 DEF StepOf, TickStep, Classify, ClassifyAtBase, Lock, Lost, Act,
       ActFails, ActBounces, NotOwner, Agent, SurfaceItem, ApplyMerge, StaleLease,
       ApplyMergeFails, RungStale, Publish, Release, Die
<1>3. ASSUME \/ AskRead \/ AskPublish \/ Claim \/ Propose \/ Bounce
             \/ Answer \/ CloseRequest \/ MergeRequest \/ Reconcile \/ Clear
             \/ UNCHANGED vars
      PROVE  lock' = lock /\ minted' = minted
  BY <1>1, <1>3 DEF AskRead, AskPublish, Claim, Propose, Bounce, Answer, CloseRequest,
     MergeRequest, Land, Reconcile, Clear, vars
<1> QED
  BY <1>2, <1>3, StepCases

\* A local tick comes to act only by its lock.
LEMMA ComesToAct ==
    ASSUME BookInv, NEW t \in Local, StepOf(t), pc'[t] = "act"
    PROVE  Lock(t)
<1>1. TypeOK /\ t \in Tick /\ t \notin Ci
  BY ConstantsAssumption DEF BookInv, IInv, Tick
<1>2. ASSUME End(t) \/ Goto(t, "lock") \/ Goto(t, "release") \/ Goto(t, "publish")
             \/ Goto(t, "record")
      PROVE  FALSE
  BY <1>1, <1>2 DEF End, Goto, TypeOK
<1> QED
  BY <1>1, <1>2 DEF StepOf, TickStep, Classify, ClassifyAtBase, Lost, Act,
     ActFails, ActBounces, NotOwner, Agent, SurfaceItem, ApplyMerge, StaleLease,
     ApplyMergeFails, RunRung, AtRung, RungStale, Publish, Release, Die

\* Who makes no step knows what they knew.
LEMMA StillKnows ==
    ASSUME BookInv, [Next]_vars, NEW t \in Tick, ~StepOf(t)
    PROVE  pc'[t] = pc[t] /\ saw'[t] = saw[t] /\ stale'[t] = stale[t]
<1>1. ASSUME NEW u \in Tick, StepOf(u)
      PROVE  pc'[t] = pc[t] /\ saw'[t] = saw[t] /\ stale'[t] = stale[t]
  <2>1. u # t
    BY <1>1
  <2> QED
    BY <1>1, <2>1, TickReads DEF OthersKeep
<1> QED
  BY <1>1, StepCases, ElsewhereMain DEF tick

LEMMA HoldsKept ==
    ASSUME OneLocal, AskedInv, [Next]_vars, NEW t \in Local, pc'[t] = "act"
    PROVE  Holds(t)'
<1>1. BookInv /\ MainStep /\ t \in Tick /\ TypeOK /\ HumanInv /\ KindInv /\ ReadInv(t)
  BY BookInductive DEF AskedInv, BookInv, IInv, Tick
<1>2. CASE StepOf(t)
  <2>1. Lock(t) /\ t \notin Ci
    BY <1>1, <1>2, ComesToAct, ConstantsAssumption
  <2>2. /\ pc[t] = "lock" /\ lock' = [by |-> t, kept |-> FALSE] /\ saw'[t] = saw[t]
        /\ stale'[t] = (saw[t] # file) /\ branch' = branch /\ minted' = minted
    BY <1>1, <2>1 DEF Lock, TypeOK
  <2>3. ASSUME saw[t] = file
        PROVE  /\ minted = {}
               /\ branch # NoBranch => \A i \in DOMAIN saw[t].asked : Met(saw[t].asked[i])
    BY <1>1, <2>2, <2>3 DEF ReadInv, Present, KindInv, HumanInv
  <2> QED
    BY <2>2, <2>3 DEF Holds, Met
<1>3. CASE ~StepOf(t)
  <2>1. pc[t] = "act" /\ saw'[t] = saw[t] /\ stale'[t] = stale[t]
    BY <1>1, <1>3, StillKnows
  <2>2. Holds(t) /\ lock = [by |-> t, kept |-> FALSE]
    BY <1>1, <2>1 DEF AskedInv, Holds
  <2>3. lock' = lock /\ minted' = minted
    BY <1>1, <1>3, <2>1, <2>2, LockIsKept
  <2>4. branch' \in {branch, NoBranch}
    <3>1. ~Building
      BY <2>2, <1>1, ConstantsAssumption DEF Building, Tick
    <3> QED
      BY <1>1, <3>1 DEF MainStep, BranchStep
  <2> QED
    BY <2>1, <2>2, <2>3, <2>4 DEF Holds, Met
<1> QED
  BY <1>2, <1>3

LEMMA AskedAlways ==
    ASSUME OneLocal
    PROVE  Spec => []AskedInv
<1>1. Init => AskedInv
  <2> SUFFICES ASSUME Init  PROVE AskedInv
    OBVIOUS
  <2>1. \A t \in Tick : pc[t] = "idle"
    BY DEF Init
  <2> QED
    BY <2>1, BookStarts DEF AskedInv, Holds
<1>2. AskedInv /\ [Next]_vars => AskedInv'
  <2> SUFFICES ASSUME AskedInv, [Next]_vars  PROVE AskedInv'
    OBVIOUS
  <2>1. BookInv'
    BY BookInductive DEF AskedInv
  <2>2. ASSUME NEW t \in Tick  PROVE Holds(t)'
    <3>1. CASE t \in Local /\ pc'[t] = "act"
      BY <3>1, HoldsKept
    <3>2. CASE ~(t \in Local /\ pc'[t] = "act")
      BY <3>2 DEF Holds
    <3> QED
      BY <3>1, <3>2
  <2> QED
    BY <2>1, <2>2 DEF AskedInv
<1> QED
  BY <1>1, <1>2, PTL DEF Spec

\* The answer of a copy that says to merge or to reset.
LEMMA GroundIsMet ==
    ASSUME NEW f \in Item, branch # NoBranch, \A i \in DOMAIN f.asked : Met(f.asked[i]),
           \/ Verb(f, "merge") = "merge"
           \/ ~HasVerb(f, "merge") /\ Verb(f, "stuck") = "reset",
           NEW g, g = IF HasVerb(f, "merge") THEN Deciding(f, "merge") ELSE Deciding(f, "stuck")
    PROVE  g.crossed \/ g.gen = branch.gen
<1>1. \E a : HasVerb(f, a) /\ g = Deciding(f, a)
  BY DEF Verb
<1>2. \E i \in DOMAIN f.asked : g = f.asked[i] /\ f.asked[i].answer # "none"
  BY <1>1, DecidingIsAnswered
<1> QED
  BY <1>2 DEF Met

LEMMA ActsWell ==
    ASSUME AskedInv, NEW t \in Tick, StepOf(t), ~stale[t]
    PROVE  /\ branch' # branch /\ pc[t] \in {"act", "record"}
                => Ground(t).crossed \/ Ground(t).gen = branch.gen
           /\ minted' # minted => minted = {}
<1>1. BookInv /\ Holds(t)
  BY DEF AskedInv
<1>2. /\ TypeOK /\ HumanInv /\ KindInv /\ ReadInv(t)
      /\ file \in Item /\ saw[t] \in Item /\ branch \in Branch
  BY <1>1, Known
<1>3. CASE Act(t)
  <2>1. PICK p \in Products(saw[t], branch) : IF p = "land" THEN Land ELSE Effect(p)
    BY <1>3 DEF Act
  <2>2. pc[t] = "act" /\ t \in Local /\ t \notin Ci
    BY <1>3, ConstantsAssumption DEF Act
  <2>3. minted = {} /\ (branch # NoBranch => \A i \in DOMAIN saw[t].asked : Met(saw[t].asked[i]))
    BY <1>1, <2>2 DEF Holds
  <2>4. ASSUME branch' # branch
        PROVE  Ground(t).crossed \/ Ground(t).gen = branch.gen
    <3>1. p \in {"land", "reset"} /\ branch # NoBranch
      BY <2>1, <2>4 DEF Land, Effect, Mint, DropBranch
    <3>2. \/ Verb(saw[t], "merge") = "merge"
          \/ ~HasVerb(saw[t], "merge") /\ Verb(saw[t], "stuck") = "reset"
      BY <1>2, <3>1, ProductsKind
    <3>3. Ground(t) = IF HasVerb(saw[t], "merge") THEN Deciding(saw[t], "merge")
                      ELSE Deciding(saw[t], "stuck")
      BY <2>2 DEF Ground
    <3> QED
      BY <1>2, <2>3, <3>1, <3>2, <3>3, GroundIsMet
  <2> QED
    BY <2>3, <2>4
<1>4. CASE ApplyMerge(t)
  <2>1. t \in Ci /\ minted' = minted
    BY <1>4 DEF ApplyMerge, Land
  <2>2. ASSUME branch' # branch
        PROVE  Ground(t).crossed \/ Ground(t).gen = branch.gen
    <3>1. MergeStands /\ branch # NoBranch
      BY <1>4, <2>2 DEF ApplyMerge, Land
    <3>2. Verb(file, "merge") = "merge"
      BY <3>1 DEF MergeStands, AnswersMerge
    <3>3. Ground(t) = IF HasVerb(file, "merge") THEN Deciding(file, "merge")
                      ELSE Deciding(file, "stuck")
      BY <2>1 DEF Ground
    <3>4. \A i \in DOMAIN file.asked : Met(file.asked[i])
      BY <1>2, <3>1 DEF HumanInv
    <3> QED
      BY <1>2, <3>1, <3>2, <3>3, <3>4, GroundIsMet
  <2> QED
    BY <2>1, <2>2
<1>5. CASE RunRung(t)
  <2>1. PICK p \in IF product[t] = "none" THEN Products(file, branch) ELSE {product[t]} :
             IF p = "land" THEN UNCHANGED <<file, branch, request, minted>> ELSE Effect(p)
    BY <1>5 DEF RunRung
  <2>2. t \in Ci /\ Present(file)
    BY <1>5 DEF RunRung, AtRung, SameRung
  <2>3. minted = {}
    BY <1>2, <2>2 DEF KindInv, Present
  <2>4. ASSUME branch' # branch
        PROVE  Ground(t).crossed \/ Ground(t).gen = branch.gen
    <3>1. p = "reset" /\ branch # NoBranch
      BY <2>1, <2>4 DEF Effect, Mint, DropBranch
    <3>2. p \in Products(file, branch)
      BY <1>2, <2>1, <3>1 DEF ReadInv
    <3>3. ~HasVerb(file, "merge") /\ Verb(file, "stuck") = "reset"
      BY <1>2, <3>1, <3>2, ProductsKind
    <3>4. Ground(t) = IF HasVerb(file, "merge") THEN Deciding(file, "merge")
                      ELSE Deciding(file, "stuck")
      BY <2>2 DEF Ground
    <3>5. \A i \in DOMAIN file.asked : Met(file.asked[i])
      BY <1>2, <3>1 DEF HumanInv
    <3> QED
      BY <1>2, <3>1, <3>3, <3>4, <3>5, GroundIsMet
  <2> QED
    BY <2>3, <2>4
<1>6. CASE ~Act(t) /\ ~ApplyMerge(t) /\ ~RunRung(t)
  BY <1>6 DEF StepOf, TickStep, Classify, ClassifyAtBase, Lock, Lost, ActFails, ActBounces,
     NotOwner, Agent, SurfaceItem, StaleLease, ApplyMergeFails, RungStale, Publish, Release, Die
<1> QED
  BY <1>3, <1>4, <1>5, <1>6

\* With at most one local tick, and any CI runs beside it: what a tick lands or
\* deletes is the build the human could see when they answered, unless a builder
\* held the item at that moment or main moved between the tick's read and its
\* lock, and an observation becomes one artifact, but for the latter.
THEOREM AskedWorkIsActedOn ==
    ASSUME OneLocal
    PROVE  Spec => ActsOnAskedWork
<1>1. AskedInv /\ [Next]_vars =>
        [\A t \in Tick : ~stale[t] =>
           /\ TouchesBranch(t) => Ground(t).crossed \/ Ground(t).gen = branch.gen
           /\ pc[t] \in {"act", "record"} /\ pc'[t] # pc[t] /\ minted' # minted
                => minted = {}]_vars
  <2> SUFFICES ASSUME AskedInv, [Next]_vars, NEW t \in Tick, ~stale[t], pc'[t] # pc[t]
               PROVE  /\ TouchesBranch(t) => Ground(t).crossed \/ Ground(t).gen = branch.gen
                      /\ minted' # minted => minted = {}
    BY DEF TouchesBranch
  <2>1. StepOf(t)
    BY StillKnows DEF AskedInv
  <2> QED
    BY <2>1, ActsWell DEF TouchesBranch
<1> QED
  BY <1>1, AskedAlways, PTL DEF Spec, ActsOnAskedWork

-----------------------------------------------------------------------------
(* The lock is the register that the per-item lock implements *)

Locks == [by : Tick \cup {"nobody", "builder", "left"}, kept : BOOLEAN]

\* The lock commit of the item: a tick's advance, whether it lives or not, or a
\* builder's implement.
CommitOf(l) ==
    [entry |-> "item",
     action |-> IF l.by = "nobody" THEN "none"
                ELSE IF l.by = "builder" THEN "implement" ELSE "advance",
     holder |-> "anyone", since |-> 0, kept |-> l.kept]

Register ==
    INSTANCE LockRegister
    WITH Item <- {"item"}, LockCommit <- {CommitOf(l) : l \in Locks},
         NoLock <- CommitOf(NoLock), ref <- [i \in {"item"} |-> CommitOf(lock)]

\* Only a builder's lock is kept for a pull request.
KeptByBuilder == lock.kept => lock.by = "builder"

\* What a step does to the lock.
LockMoves ==
    \/ lock' \in {lock, NoLock}
    \/ lock.by \in Tick /\ lock' = [lock EXCEPT !.by = "left"]
    \/ Building /\ lock' = [lock EXCEPT !.kept = TRUE]
    \/ lock = NoLock /\ lock' = [by |-> "builder", kept |-> FALSE]
    \/ /\ lock = NoLock \/ lock.kept
       /\ \E t \in Tick : lock' = [by |-> t, kept |-> FALSE]

LEMMA LockMovesSo == ASSUME [Next]_vars PROVE LockMoves
<1> USE DEF LockMoves
<1>1. ASSUME NEW t \in Tick, StepOf(t)
      PROVE  LockMoves
  <2>1. CASE Classify(t) \/ ClassifyAtBase(t) \/ Lost(t) \/ Act(t) \/ ActFails(t)
    BY <2>1 DEF Classify, ClassifyAtBase, Lost, Act, ActFails
  <2>2. CASE Lock(t)
    BY <2>2 DEF Lock, MayLock
  <2>3. CASE ActBounces(t) \/ NotOwner(t) \/ Agent(t) \/ SurfaceItem(t) \/ ApplyMerge(t)
    BY <2>3 DEF ActBounces, NotOwner, Agent, SurfaceItem, ApplyMerge
  <2>4. CASE StaleLease(t) \/ Die(t)
    BY <2>4 DEF StaleLease, Die, Owns
  <2>5. CASE ApplyMergeFails(t) \/ RunRung(t) \/ RungStale(t) \/ Publish(t) \/ Release(t)
    BY <2>5 DEF ApplyMergeFails, RunRung, RungStale, Publish, Release, Freed
  <2> QED
    BY <1>1, <2>1, <2>2, <2>3, <2>4, <2>5 DEF StepOf, TickStep
<1>2. CASE Claim \/ Propose \/ Bounce \/ Reconcile \/ Clear
  BY <1>2 DEF Claim, Propose, Bounce, Reconcile, Clear
<1>3. CASE AskRead \/ AskPublish \/ Answer \/ CloseRequest \/ MergeRequest \/ UNCHANGED vars
  BY <1>3 DEF AskRead, AskPublish, Answer, CloseRequest, MergeRequest, vars
<1> QED
  BY <1>1, <1>2, <1>3, StepCases

LEMMA LockIsTyped == Spec => [](lock \in Locks)
<1>1. TypeOK => lock \in Locks
  BY DEF TypeOK, Locks
<1> QED
  BY <1>1, TypeCorrect, PTL

LEMMA KeptAlways == Spec => []KeptByBuilder
<1>1. Init => KeptByBuilder
  BY DEF Init, KeptByBuilder, NoLock
<1>2. lock \in Locks /\ KeptByBuilder /\ [Next]_vars => KeptByBuilder'
  <2> SUFFICES ASSUME lock \in Locks, KeptByBuilder, [Next]_vars
               PROVE  KeptByBuilder'
    OBVIOUS
  <2>1. LockMoves
    BY LockMovesSo
  <2> QED
    BY <2>1, ConstantsAssumption DEF LockMoves, KeptByBuilder, Locks, NoLock, Building, Tick
<1> QED
  BY <1>1, <1>2, LockIsTyped, PTL DEF Spec

LEMMA RegisterMoves ==
    ASSUME lock \in Locks, lock' \in Locks, KeptByBuilder, LockMoves
    PROVE  Register!Next \/ CommitOf(lock') = CommitOf(lock)
<1> DEFINE c == CommitOf(lock)
           d == CommitOf(lock')
           ref == [i \in {"item"} |-> c]
           none == CommitOf(NoLock)
<1>1. /\ c \in {CommitOf(l) : l \in Locks} /\ d \in {CommitOf(l) : l \in Locks}
      /\ ref["item"] = c /\ [i \in {"item"} |-> d] = [ref EXCEPT !["item"] = d]
  OBVIOUS
<1>2. none = [entry |-> "item", action |-> "none", holder |-> "anyone", since |-> 0,
              kept |-> FALSE]
  BY DEF CommitOf, NoLock
<1>3. lock # NoLock => c # none
  <2>1. lock.by # "nobody" => c.action # "none"
    BY DEF CommitOf
  <2>2. lock.by = "nobody" => c.kept = lock.kept /\ lock = [by |-> lock.by, kept |-> lock.kept]
    BY DEF CommitOf, Locks
  <2> QED
    BY <1>2, <2>1, <2>2 DEF NoLock
<1>4. CASE lock' = NoLock /\ lock # NoLock
  <2>1. Register!Drop("item")
    BY <1>1, <1>3, <1>4 DEF Register!Drop
  <2> QED
    BY <2>1 DEF Register!Next
<1>5. CASE lock.by \in Tick /\ lock' = [lock EXCEPT !.by = "left"]
  BY <1>5, ConstantsAssumption DEF CommitOf, Tick, Locks
<1>6. CASE Building /\ lock' = [lock EXCEPT !.kept = TRUE]
  <2>1. lock # NoLock /\ lock'.by = "builder" /\ lock'.kept
    BY <1>6 DEF Building, NoLock, Locks
  <2>2. Register!MarkKept("item", d)
    BY <1>1, <1>3, <1>6, <2>1 DEF Register!MarkKept, CommitOf, Building
  <2> QED
    BY <1>1, <2>2 DEF Register!Next
<1>7. ASSUME NEW b \in Tick \cup {"builder"}, lock' = [by |-> b, kept |-> FALSE],
             lock = NoLock
      PROVE  Register!Next
  <2>1. Register!Fresh("item", d)
    BY <1>7 DEF Register!Fresh, CommitOf
  <2>2. Register!Grab("item", d)
    BY <1>1, <1>7, <2>1 DEF Register!Grab
  <2> QED
    BY <1>1, <2>2 DEF Register!Next
<1>8. ASSUME NEW t \in Tick, lock' = [by |-> t, kept |-> FALSE], lock.kept
      PROVE  Register!Next
  <2>1. Register!Fresh("item", d)
    BY <1>8 DEF Register!Fresh, CommitOf
  <2>2. lock.by = "builder" /\ lock # NoLock
    BY <1>8 DEF KeptByBuilder, NoLock
  <2>3. c.kept /\ c.action = "implement"
    BY <1>8, <2>2 DEF CommitOf
  <2>4. Register!TakeOver("item", d)
    BY <1>1, <1>3, <2>1, <2>2, <2>3 DEF Register!TakeOver
  <2> QED
    BY <1>1, <2>4 DEF Register!Next
<1> QED
  BY <1>4, <1>5, <1>6, <1>7, <1>8 DEF LockMoves

\* Whose lock it is: a lock that is not kept changes hands by being dropped only, or
\* stays behind a tick that died.
HeldLocksStay ==
    lock # NoLock /\ ~lock.kept =>
        \/ lock'.by \in {lock.by, "nobody"}
        \/ lock.by \in Tick /\ lock'.by = "left"

LEMMA LockMovesSpareHolders ==
    ASSUME lock \in Locks, LockMoves
    PROVE  HeldLocksStay
<1>1. lock = [by |-> lock.by, kept |-> lock.kept]
  BY DEF Locks
<1> QED
  BY <1>1 DEF LockMoves, HeldLocksStay, NoLock, Locks

\* Ticks, builders and clean-ups treat the lock as the per-item lock lets them
\* (ItemLock implements the same LockRegister): a held lock is only dropped,
\* marked as kept, or taken over by an advance after a build was proposed; no tick
\* and no builder has another's lock in the step after.
THEOREM LockDiscipline == Spec => Register!Spec /\ [][HeldLocksStay]_vars
<1>1. Init => Register!Init
  BY DEF Init, Register!Init
<1>2. /\ lock \in Locks /\ (lock \in Locks)' /\ KeptByBuilder /\ [Next]_vars
      => [Register!Next]_([i \in {"item"} |-> CommitOf(lock)])
  BY LockMovesSo, RegisterMoves
<1>3. lock \in Locks /\ [Next]_vars => HeldLocksStay
  BY LockMovesSo, LockMovesSpareHolders
<1> HIDE DEF HeldLocksStay
<1> QED
  BY <1>1, <1>2, <1>3, LockIsTyped, KeptAlways, PTL DEF Spec, Register!Spec

-----------------------------------------------------------------------------
(* Every tick ends *)

\* How far a step is from the end of a tick.  A local tick frees its lock before
\* it publishes, an apply job after.
Depth(t, s) ==
    CASE s = "idle" -> 0
      [] s = "release" -> IF t \in Local THEN 3 ELSE 1
      [] s = "publish" -> 2
      [] s = "record" -> 3
      [] s = "act" -> 4
      [] s = "agent" -> 5
      [] s = "lock" -> 6

Left(t) == Depth(t, pc[t])

TicksGetShorter ==
    \A t \in Tick :
        /\ Lock(t) \/ Lost(t) \/ TickStep(t) \/ Die(t) => Left(t)' < Left(t)
        /\ Left(t)' > Left(t) => pc[t] = "idle"

LEMMA DepthType ==
    ASSUME NEW t \in Tick, NEW s \in Pcs
    PROVE  Depth(t, s) \in 0 .. 6
  BY DEF Depth, Pcs

\* What a tick does brings it nearer to its end.
LEMMA TickAdvances ==
    ASSUME pc \in [Tick -> Pcs], NEW t \in Tick, Lock(t) \/ Lost(t) \/ TickStep(t) \/ Die(t)
    PROVE  Depth(t, pc'[t]) < Depth(t, pc[t])
<1>1. t \in Local <=> t \notin Ci
  BY ConstantsAssumption DEF Tick
<1>2. ASSUME End(t), pc[t] # "idle"
      PROVE  Depth(t, pc'[t]) < Depth(t, pc[t])
  <2>1. pc'[t] = "idle" /\ pc[t] \in Pcs
    BY <1>2 DEF End, Goto
  <2> QED
    BY <1>2, <2>1 DEF Depth, Pcs
<1>3. CASE \/ Lost(t) \/ NotOwner(t) \/ SurfaceItem(t) \/ StaleLease(t)
           \/ ApplyMergeFails(t)
  BY <1>2, <1>3 DEF Lost, NotOwner, SurfaceItem, StaleLease, ApplyMergeFails
<1>4. CASE Die(t)
  BY <1>2, <1>4 DEF Die
<1>5. CASE Lock(t)
  <2>1. pc[t] = "lock" /\ pc'[t] \in {"agent", "act"}
    BY <1>5 DEF Lock, Goto
  <2> QED
    BY <2>1 DEF Depth
<1>6. CASE Act(t) \/ ActFails(t) \/ ActBounces(t)
  <2>1. pc[t] = "act" /\ pc'[t] = "release"
    BY <1>6 DEF Act, ActFails, ActBounces, Goto
  <2> QED
    BY <2>1 DEF Depth
<1>7. CASE Agent(t)
  <2>1. pc[t] = "agent" /\ pc'[t] = "act"
    BY <1>7 DEF Agent, Goto
  <2> QED
    BY <2>1 DEF Depth
<1>8. CASE ApplyMerge(t)
  <2>1. pc[t] = "act" /\ pc'[t] \in {"release", "record"}
    BY <1>8 DEF ApplyMerge, Goto
  <2> QED
    BY <2>1 DEF Depth
<1>9. CASE RunRung(t) \/ RungStale(t)
  <2>1. t \notin Local /\ pc[t] \in {"act", "record"} /\ pc'[t] \in {"publish", "release"}
    BY <1>1, <1>9 DEF RunRung, RungStale, AtRung, Goto
  <2> QED
    BY <2>1 DEF Depth
<1>10. CASE Publish(t)
  <2>1. CASE t \in Ci
    <3>1. pc[t] = "publish" /\ pc'[t] = "release" /\ t \notin Local
      BY <1>1, <1>10, <2>1 DEF Publish, Goto
    <3> QED
      BY <3>1 DEF Depth
  <2>2. CASE t \notin Ci
    BY <1>2, <1>10, <2>2 DEF Publish
  <2> QED
    BY <2>1, <2>2
<1>11. CASE Release(t)
  <2>1. CASE t \notin Ci
    <3>1. pc[t] = "release" /\ pc'[t] = "publish" /\ t \in Local
      BY <1>1, <1>11, <2>1 DEF Release, Goto
    <3> QED
      BY <3>1 DEF Depth
  <2>2. CASE t \in Ci
    BY <1>2, <1>11, <2>2 DEF Release
  <2> QED
    BY <2>1, <2>2
<1> QED
  BY <1>3, <1>4, <1>5, <1>6, <1>7, <1>8, <1>9, <1>10, <1>11 DEF TickStep

\* Every tick ends after at most six of its steps, whoever else ticks, builds,
\* answers or clears its lock: each step lowers Left, and only an idle tick starts
\* another.  Nothing a tick finds changed under it sends it back to an earlier
\* step; a lost race ends it, and the next tick looks again.
THEOREM TicksAreBounded ==
    Spec => [](\A t \in Tick : Left(t) \in 0 .. 6) /\ [][TicksGetShorter]_vars
<1>1. BookInv => pc \in [Tick -> Pcs]
  BY TypeParts DEF BookInv, IInv, TickOK
<1>2. BookInv => \A t \in Tick : Left(t) \in 0 .. 6
  BY <1>1, DepthType DEF Left
<1>3. BookInv /\ BookInv' /\ [Next]_vars => TicksGetShorter
  <2> SUFFICES ASSUME BookInv, BookInv', [Next]_vars, NEW t \in Tick
               PROVE  /\ Lock(t) \/ Lost(t) \/ TickStep(t) \/ Die(t) => Left(t)' < Left(t)
                      /\ Left(t)' > Left(t) => pc[t] = "idle"
    BY DEF TicksGetShorter
  <2>1. pc[t] \in Pcs /\ pc'[t] \in Pcs
    BY <1>1, BookInductive DEF BookInv, IInv, TypeOK, Pcs
  <2>2. Depth(t, pc[t]) \in Nat /\ Depth(t, pc'[t]) \in Nat
    BY <2>1, DepthType
  <2>3. CASE Lock(t) \/ Lost(t) \/ TickStep(t) \/ Die(t)
    <3>1. Depth(t, pc'[t]) < Depth(t, pc[t])
      BY <1>1, <2>3, TickAdvances
    <3> QED
      BY <2>2, <3>1 DEF Left
  <2>4. CASE Classify(t) \/ ClassifyAtBase(t)
    BY <2>3, <2>4 DEF Classify, ClassifyAtBase
  <2>5. CASE ~StepOf(t)
    <3>1. pc'[t] = pc[t]
      BY <2>5, StillKnows
    <3> QED
      BY <2>2, <2>5, <3>1 DEF Left, StepOf
  <2> QED
    BY <2>3, <2>4, <2>5 DEF StepOf
<1> HIDE DEF Left, TicksGetShorter
<1>4. Spec => [](\A t \in Tick : Left(t) \in 0 .. 6)
  BY <1>2, BookAlways, PTL
<1>5. Spec => [][TicksGetShorter]_vars
  BY <1>3, BookAlways, PTL DEF Spec
<1> QED
  BY <1>4, <1>5
=============================================================================
