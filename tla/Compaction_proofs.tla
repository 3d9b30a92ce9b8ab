-------------------------- MODULE Compaction_proofs --------------------------
(***************************************************************************)
(* Safety of compaction, for chains of any length, any number of retries,   *)
(* passes, claims and turns, and every limit of the tracker.                *)
(*                                                                         *)
(* The two files together never know less than before (Known only grows,    *)
(* until a write of MEMORY.md ends half-way).  That is what the order of    *)
(* the two writes buys, and what lets an aside read them without a lock.    *)
(***************************************************************************)
EXTENDS Compaction, SequenceTheorems, FiniteSetTheorems, WellFoundedInduction, TLAPS

Turns == [id : Ids, kind : Kinds]

Texts == {"short", "full", "synthetic"}

(* Documents, their counters without a bound. *)
Contents ==
  [covers : SUBSET Ids, cycle : Nat, major : Nat, size : Nat,
   live : SUBSET Claims, resolved : SUBSET Claims,
   text : {"none"} \cup Texts, by : {"none", "major", "replace"}]

Passes ==
  [doc : Contents, new : Contents, cut : Seq(Turns), rest : Seq(Turns),
   major : BOOLEAN, forced : BOOLEAN, append : BOOLEAN, level : Nat,
   attempt : 0 .. Retries, calls : Nat, denied : Nat, text : {""} \cup Texts]

Bounds == [turns : 0 .. MaxTurns, passes : 0 .. MaxPasses, faults : Nat]

TypeInv ==
  /\ log \in Seq(Turns) /\ memory \in Contents
  /\ closed \subseteq Claims
  /\ failed \in [1 .. Levels -> BOOLEAN]
  /\ pc \in Steps /\ pass \in Passes
  /\ pc \in {"level", "ask"} => pass.level \in 1 .. Levels
  /\ aside \in [pc : {"idle", "first", "second", "asked"}, due : SUBSET Nat]
  /\ used \in Bounds
  /\ gone \subseteq Claims /\ last \in {"none", "major", "minor"}
  /\ split \subseteq Ids /\ hollow \subseteq Ids /\ wrecked \in BOOLEAN

(* A pass that has not stored its document yet, and one that has taken its part
   of the log. *)
Summing == pc \in {"claims", "claimsTorn", "level", "ask", "store"}
Parting == Summing \/ pc \in {"storeTorn", "rewrite"}

(* A document counts at most as many passes as there were. *)
Within(doc, n) == doc.cycle <= n /\ doc.major <= n /\ doc.size <= n + 1
Under(doc, n) == doc.cycle < n /\ doc.major < n /\ doc.size <= n

CountInv ==
  /\ Within(memory, used.passes)
  /\ Within(pass.doc, used.passes) /\ Within(pass.new, used.passes)
  /\ Summing => Under(pass.doc, used.passes) /\ Under(pass.new, used.passes)

(* Live claims are neither resolved nor gone, in the file and in the documents
   that may be written to it. *)
Alive(doc, over) == doc.live \cap (doc.resolved \cup over) = {}

ClaimInv ==
  /\ Alive(memory, gone)
  /\ Summing => Alive(pass.doc, gone)
  /\ pc \in {"wakeTorn", "claimsTorn"} => Alive(pass.new, gone)
  /\ pc = "storeTorn" =>
       Alive(pass.new, IF pass.major \/ ~pass.append THEN {} ELSE gone)

(* No major document is a fragment. *)
Whole(doc) == doc.by = "major" => doc.text # "short"

TextInv ==
  /\ Whole(memory) /\ Whole(pass.doc) /\ Whole(pass.new)
  /\ pc = "store" => Valid(pass.text, pass.major)

(* After a major pass a document that is not empty says so, and the next one is
   forced, in all of its steps. *)
Marked(doc) == doc = Empty \/ AfterMajor(doc)

MajorInv ==
  /\ last = "major" =>
       Marked(memory) /\ (pc \in {"wakeTorn", "claimsTorn"} => Marked(pass.new))
  /\ pc \in {"storeTorn", "rewrite"} /\ pass.major => Marked(pass.new)
  /\ Summing /\ pass.major /\ last = "major" => pass.forced

-----------------------------------------------------------------------------
(* A call is followed by its response, and a response comes behind its call
   unless a boundary parted them and it is off. *)
Shape(turns, off) ==
  \A i \in 1 .. Len(turns) :
    /\ turns[i].kind = "call" =>
         /\ i < Len(turns) /\ turns[i + 1].kind = "response"
         /\ turns[i + 1].id = turns[i].id + 1
    /\ turns[i].kind = "response" =>
         IF i = 1 THEN turns[i].id \in off ELSE turns[i - 1].kind = "call"

(* The pass has the log in two parts; of the older one, everything is shown to
   the model that is not cut off. *)
PartInv ==
  /\ Shape(log, CutOff)
  /\ Parting =>
       /\ IdsOf(log) \subseteq IdsOf(pass.cut) \cup IdsOf(pass.rest)
       /\ IdsOf(pass.cut) \subseteq Shown(pass.cut) \cup CutOff
       /\ Shown(pass.cut) \subseteq Ids
       /\ Shape(pass.rest, CutOff)

(* What MEMORY.md tells, and while it is torn, what is about to be written. *)
Told ==
  IF ~Torn THEN memory.covers
  ELSE IF pc = "storeTorn" /\ pass.text = "synthetic"
    THEN pass.new.covers \cup pass.doc.covers \cup Shown(pass.cut)
  ELSE pass.new.covers

Known == Told \cup CutOff \cup hollow

(* The document in hand has what MEMORY.md has, and what is stored has more. *)
CopyInv ==
  /\ pc = "claims" => pass.doc = memory
  /\ Summing /\ pc # "claimsTorn" /\ ~wrecked => pass.doc.covers = memory.covers
  /\ pc = "storeTorn" =>
       /\ pass.text # ""
       /\ pass.text # "synthetic" => pass.doc.covers \cup Shown(pass.cut) \subseteq pass.new.covers
  /\ pc = "rewrite" => Shown(pass.cut) \subseteq memory.covers \cup hollow

KnownInv == wrecked \/ 1 .. used.turns \subseteq IdsOf(log) \cup Known

AsideInv ==
  /\ aside.pc \in {"first", "second"} => aside.due \subseteq 1 .. used.turns
  /\ aside.pc = "second" => wrecked \/ aside.due \subseteq Known
  /\ AsideMissesNothing

IInv ==
  TypeInv /\ CountInv /\ ClaimInv /\ TextInv /\ MajorInv /\ PartInv /\ CopyInv
  /\ KnownInv /\ AsideInv

-----------------------------------------------------------------------------
(* Sequences of turns. *)

LEMMA LeastNat == ASSUME NEW T \in SUBSET Nat, T # {} PROVE \E m \in T : \A k \in T : m <= k
<1>1. OpToRel(<, Nat) = {ss \in Nat \X Nat : ss[1] < ss[2]}
  BY DEF OpToRel
<1>2. PICK m \in T : \A k \in T : ~ (<<k, m>> \in OpToRel(<, Nat))
  BY NatLessThanWellFounded, WFMin
<1>3. ASSUME NEW k \in T PROVE m <= k
  <2>1. ~ (<<k, m>> \in {ss \in Nat \X Nat : ss[1] < ss[2]})
    BY <1>1, <1>2
  <2> QED
    BY <2>1
<1> QED
  BY <1>3

(* A boundary is in the log. *)
LEMMA BoundaryIs ==
  ASSUME NEW turns \in Seq(Turns), NEW n \in 1 .. Len(turns)
  PROVE  Boundary(turns, n) \in 1 .. Len(turns)
<1> DEFINE stops == {i \in n .. Len(turns) : OfModel(turns[i]) \/ i = Len(turns)}
<1>1. Len(turns) \in Nat /\ stops \subseteq 1 .. Len(turns) /\ Len(turns) \in stops
  OBVIOUS
<1>2. stops \in SUBSET Nat /\ stops # {}
  BY <1>1
<1> HIDE DEF stops
<1>3. \E i \in stops : \A j \in stops : i <= j
  BY <1>2, LeastNat
<1>4. (CHOOSE i \in stops : \A j \in stops : i <= j) \in stops
  BY <1>3
<1> QED
  BY <1>1, <1>4 DEF Boundary, stops

LEMMA ShapeGrows ==
  ASSUME NEW turns, NEW off, NEW more, off \subseteq more, Shape(turns, off)
  PROVE  Shape(turns, more)
  BY DEF Shape

(* Parting a log hides a call from its response, and nothing else. *)
Parts(turns, cut, rest, off) ==
  /\ cut \in Seq(Turns) /\ rest \in Seq(Turns)
  /\ IdsOf(turns) \subseteq IdsOf(cut) \cup IdsOf(rest)
  /\ IdsOf(cut) \subseteq Shown(cut) \cup off
  /\ Shown(cut) \subseteq Ids
  /\ Shape(rest, off)

LEMMA Parted ==
  ASSUME NEW turns \in Seq(Turns), NEW b \in 1 .. Len(turns), NEW more, Shape(turns, more),
         turns[b].kind = "call" => turns[b].id \in more /\ turns[b].id + 1 \in more
  PROVE  Parts(turns, SubSeq(turns, 1, b), SubSeq(turns, b + 1, Len(turns)), more)
<1> DEFINE cut == SubSeq(turns, 1, b)
           rest == SubSeq(turns, b + 1, Len(turns))
<1>1. Len(turns) \in Nat /\ DOMAIN turns = 1 .. Len(turns)
  OBVIOUS
<1>2. /\ cut \in Seq(Turns) /\ Len(cut) = b /\ DOMAIN cut = 1 .. b
      /\ \A i \in 1 .. b : cut[i] = turns[i]
  OBVIOUS
<1>3. /\ rest \in Seq(Turns) /\ Len(rest) = Len(turns) - b
      /\ \A i \in 1 .. Len(turns) - b : rest[i] = turns[b + i]
  <2>1. CASE b = Len(turns)
    BY <2>1
  <2>2. CASE b < Len(turns)
    BY <2>2
  <2> QED
    BY <2>1, <2>2
<1> HIDE DEF cut, rest
<1>4. DOMAIN rest = 1 .. Len(turns) - b
  BY <1>3
<1>5. IdsOf(turns) \subseteq IdsOf(cut) \cup IdsOf(rest)
  <2> SUFFICES ASSUME NEW i \in 1 .. Len(turns)
               PROVE  turns[i].id \in IdsOf(cut) \cup IdsOf(rest)
    BY <1>1 DEF IdsOf
  <2>1. CASE i <= b
    <3>1. i \in 1 .. b /\ cut[i] = turns[i] /\ i \in DOMAIN cut
      BY <1>1, <1>2, <2>1
    <3> QED
      BY <3>1 DEF IdsOf
  <2>2. CASE i > b
    <3>1. i - b \in 1 .. Len(turns) - b /\ b + (i - b) = i
      BY <1>1, <2>2
    <3>2. rest[i - b] = turns[i]
      BY <1>3, <3>1
    <3> QED
      BY <1>4, <3>1, <3>2 DEF IdsOf
  <2> QED
    BY <1>1, <2>1, <2>2
<1>6. IdsOf(cut) \subseteq Shown(cut) \cup more
  <2> SUFFICES ASSUME NEW i \in 1 .. b, cut[i].id \notin more
               PROVE  cut[i].id \in Shown(cut)
    BY <1>2 DEF IdsOf
  <2>1. cut[i].kind = "call" => i < b /\ cut[i + 1].kind = "response"
    BY <1>1, <1>2 DEF Shape
  <2>2. cut[i].kind = "response" => i > 1 /\ cut[i - 1].kind = "call"
    BY <1>1, <1>2 DEF Shape
  <2> QED
    BY <1>2, <2>1, <2>2 DEF Shown
<1>7. Shown(cut) \subseteq Ids
  <2>1. ASSUME NEW i \in 1 .. b PROVE cut[i].id \in Ids
    <3>1. cut[i] \in Turns
      BY <1>2, ElementOfSeq
    <3> QED
      BY <3>1 DEF Turns
  <2> QED
    BY <1>2, <2>1 DEF Shown
<1>8. Shape(rest, more)
  <2> SUFFICES ASSUME NEW i \in 1 .. Len(turns) - b
               PROVE  /\ rest[i].kind = "call" =>
                           /\ i < Len(turns) - b /\ rest[i + 1].kind = "response"
                           /\ rest[i + 1].id = rest[i].id + 1
                      /\ rest[i].kind = "response" =>
                           IF i = 1 THEN rest[i].id \in more ELSE rest[i - 1].kind = "call"
    BY <1>3 DEF Shape
  <2>1. b + i \in 1 .. Len(turns) /\ rest[i] = turns[b + i] /\ b + i # 1
    BY <1>1, <1>3
  <2>2. ASSUME rest[i].kind = "call"
        PROVE  /\ i < Len(turns) - b /\ rest[i + 1].kind = "response"
               /\ rest[i + 1].id = rest[i].id + 1
    <3>1. /\ b + i < Len(turns) /\ turns[b + i + 1].kind = "response"
          /\ turns[b + i + 1].id = turns[b + i].id + 1
      BY <2>1, <2>2 DEF Shape
    <3>2. i + 1 \in 1 .. Len(turns) - b /\ b + (i + 1) = b + i + 1
      BY <1>1, <3>1
    <3>3. rest[i + 1] = turns[b + i + 1]
      BY <1>3, <3>2
    <3> QED
      BY <1>1, <2>1, <3>1, <3>3
  <2>3. ASSUME rest[i].kind = "response"
        PROVE  IF i = 1 THEN rest[i].id \in more ELSE rest[i - 1].kind = "call"
    <3>1. turns[b + i - 1].kind = "call"
      BY <2>1, <2>3 DEF Shape
    <3>2. CASE i = 1
      <4>1. turns[b].kind = "call" /\ turns[b + 1].id = turns[b].id + 1
        BY <3>1, <3>2 DEF Shape
      <4> QED
        BY <2>1, <3>2, <4>1
    <3>3. CASE i # 1
      <4>1. i - 1 \in 1 .. Len(turns) - b /\ b + (i - 1) = b + i - 1
        BY <1>1, <3>3
      <4> QED
        BY <1>3, <3>1, <3>3, <4>1
    <3> QED
      BY <3>2, <3>3
  <2> QED
    BY <2>2, <2>3
<1> QED
  BY <1>2, <1>3, <1>5, <1>6, <1>7, <1>8 DEF Parts, cut, rest

-----------------------------------------------------------------------------
(* The records, field by field. *)

LEMMA ConstantsAre ==
  /\ Levels \in Nat \ {0} /\ Retries \in Nat /\ MaxToolTurns \in Nat /\ MajorEvery \in Nat
  /\ MemoryMax \in Nat /\ MaxTurns \in Nat /\ MaxPasses \in Nat /\ MaxDenied \in Nat
  /\ MaxFaults \in Nat /\ Tight \in BOOLEAN
  BY CompactionAssumption

LEMMA EmptyIs ==
  /\ Empty \in Contents /\ Empty.covers = {} /\ Empty.cycle = 0 /\ Empty.major = 0
  /\ Empty.size = 0 /\ Empty.live = {} /\ Empty.by = "none" /\ Empty.resolved = {}
  BY DEF Empty, Contents

LEMMA EmptyWithin == ASSUME NEW n \in Nat PROVE Within(Empty, n)
  BY DEF Empty, Within

LEMMA NoPassIs ==
  /\ NoPass \in Passes /\ NoPass.doc = Empty /\ NoPass.new = Empty
  /\ NoPass.attempt = 0
<1>1. 0 \in 0 .. Retries /\ <<>> \in Seq(Turns)
  BY ConstantsAre
<1> QED
  BY <1>1, EmptyIs DEF NoPass, Passes

Fields ==
  /\ used.turns \in Nat /\ used.passes \in Nat
  /\ used.turns \in 0 .. MaxTurns /\ used.passes \in 0 .. MaxPasses /\ used.faults \in Nat
  /\ pass.doc \in Contents /\ pass.new \in Contents
  /\ pass.cut \in Seq(Turns) /\ pass.rest \in Seq(Turns)
  /\ pass.major \in BOOLEAN /\ pass.append \in BOOLEAN /\ pass.level \in Nat
  /\ pass.attempt \in 0 .. Retries /\ pass.calls \in Nat /\ pass.denied \in Nat
  /\ pass.text \in {""} \cup Texts
  /\ log \in Seq(Turns) /\ memory \in Contents

LEMMA FieldTypes == TypeInv => Fields
<1> SUFFICES ASSUME TypeInv PROVE Fields
  OBVIOUS
<1>1. used.turns \in 0 .. MaxTurns /\ used.passes \in 0 .. MaxPasses /\ used.faults \in Nat
  BY DEF TypeInv, Bounds
<1>2. used.turns \in Nat /\ used.passes \in Nat
  BY <1>1, ConstantsAre
<1> QED
  BY <1>1, <1>2 DEF TypeInv, Fields, Passes

LEMMA DocumentTypes ==
  ASSUME NEW doc \in Contents
  PROVE  /\ doc.covers \subseteq Ids /\ doc.cycle \in Nat /\ doc.major \in Nat /\ doc.size \in Nat
         /\ doc.live \subseteq Claims /\ doc.resolved \subseteq Claims
         /\ doc.text \in {"none"} \cup Texts /\ doc.by \in {"none", "major", "replace"}
  BY DEF Contents

(* Reconciling keeps everything of a document but moves claims. *)
LEMMA ReconciledIs ==
  ASSUME NEW doc \in Contents, closed \subseteq Claims
  PROVE  LET new == Reconciled(doc) IN
         /\ new \in Contents
         /\ new.covers = doc.covers /\ new.cycle = doc.cycle /\ new.major = doc.major
         /\ new.size = doc.size /\ new.by = doc.by /\ new.text = doc.text
         /\ new.live \subseteq doc.live /\ new.live \cap closed = {}
         /\ new.resolved \subseteq doc.resolved \cup closed
         /\ new.resolved = doc.resolved \cup (doc.live \cap closed)
  BY DocumentTypes DEF Reconciled, Stale, Contents

-----------------------------------------------------------------------------
(* A pass that ends, however it does. *)
LEMMA StopStep ==
  ASSUME IInv, TypeInv', pc' = "idle", pass' = NoPass,
         UNCHANGED <<log, memory, aside, gone, last, split, hollow>>,
         used'.turns = used.turns, used'.passes = used.passes,
         wrecked' \/ (wrecked' = wrecked /\ ~Torn)
  PROVE  IInv'
<1> Fields
  BY FieldTypes DEF IInv
<1> USE DEF Fields
<1>1. CountInv'
  <2>1. Within(Empty, used.passes) /\ Within(memory, used.passes)
    <3>1. Within(Empty, used.passes)
      BY EmptyWithin
    <3>2. Within(memory, used.passes)
      BY DEF IInv, CountInv
    <3> QED
      BY <3>1, <3>2
  <2> QED
    BY <2>1, NoPassIs DEF CountInv, Summing
<1>2. ClaimInv'
  BY DEF IInv, ClaimInv, Alive, Summing
<1>3. TextInv' /\ MajorInv'
  BY EmptyIs, NoPassIs DEF IInv, TextInv, Whole, MajorInv, Marked, AfterMajor, Summing
<1>4. CutOff' = CutOff
  BY DEF CutOff
<1>5. PartInv'
  BY <1>4 DEF IInv, PartInv, Parting, Summing
<1>6. CopyInv'
  BY DEF CopyInv, Summing
<1>7. wrecked' \/ Known' = Known
  BY <1>4 DEF Known, Told, Torn
<1>8. wrecked => wrecked'
  OBVIOUS
<1>9. KnownInv' /\ AsideInv'
  BY <1>7, <1>8 DEF IInv, KnownInv, AsideInv, AsideMissesNothing
<1> QED
  BY <1>1, <1>2, <1>3, <1>5, <1>6, <1>9 DEF IInv

(* The walk over the chain: only the pass itself changes. *)
SamePart ==
  /\ pass'.doc = pass.doc /\ pass'.new = pass.new /\ pass'.cut = pass.cut
  /\ pass'.rest = pass.rest /\ pass'.major = pass.major /\ pass'.forced = pass.forced
  /\ pass'.append = pass.append

LEMMA WalkStep ==
  ASSUME IInv, TypeInv', pc \in {"claims", "level", "ask"}, pc' \in {"level", "ask", "store"},
         SamePart,
         UNCHANGED <<log, memory, aside, ghosts>>,
         used'.turns = used.turns, used'.passes = used.passes,
         pc' = "store" => Valid(pass'.text, pass'.major)
  PROVE  IInv'
<1> Fields
  BY FieldTypes DEF IInv
<1> USE DEF Fields, SamePart, ghosts
<1>1. CountInv'
  BY DEF IInv, CountInv, Within, Under, Summing
<1>2. ClaimInv'
  BY DEF IInv, ClaimInv, Alive, Summing
<1>3. TextInv' /\ MajorInv'
  BY DEF IInv, TextInv, Whole, MajorInv, Marked, AfterMajor, Summing
<1>4. CutOff' = CutOff
  BY DEF CutOff
<1>5. PartInv'
  BY <1>4 DEF IInv, PartInv, Parting, Summing
<1>6. CopyInv'
  BY DEF IInv, CopyInv, Summing
<1>7. Known' = Known
  BY <1>4 DEF Known, Told, Torn
<1>8. KnownInv' /\ AsideInv'
  BY <1>7 DEF IInv, KnownInv, AsideInv, AsideMissesNothing
<1> QED
  BY <1>1, <1>2, <1>3, <1>5, <1>6, <1>8 DEF IInv

-----------------------------------------------------------------------------
(* The walk, action by action. *)

SameCount == used' \in Bounds /\ used'.turns = used.turns /\ used'.passes = used.passes

LEMMA FaultIs == TypeInv /\ (Fault \/ UNCHANGED used) => SameCount
  BY DEF TypeInv, Fault, Bounds, SameCount

Walks ==
  /\ pass' \in Passes
  /\ \/ pc' = "idle" /\ pass' = NoPass
     \/ /\ pc' \in {"level", "ask"} /\ SamePart /\ pass'.level \in 1 .. Levels
     \/ pc' = "store" /\ SamePart /\ Valid(pass'.text, pass'.major)

LEMMA WalkDone ==
  ASSUME IInv, pc \in {"level", "ask"}, Walks, UNCHANGED <<log, memory, closed, aside, ghosts>>,
         failed' \in [1 .. Levels -> BOOLEAN], SameCount
  PROVE  IInv'
<1>1. TypeInv'
  BY DEF IInv, TypeInv, Walks, SameCount, Steps, ghosts
<1>2. CASE pc' = "idle"
  <2>1. ~Torn
    BY DEF Torn
  <2> QED
    BY <1>1, <1>2, <2>1, StopStep DEF Walks, SameCount, ghosts
<1>3. CASE pc' # "idle"
  BY <1>1, <1>3, WalkStep DEF Walks, SameCount
<1> QED
  BY <1>2, <1>3

LEMMA NextLevelWalks == IInv /\ pc \in {"level", "ask"} /\ NextLevel => Walks
<1> SUFFICES ASSUME IInv, pc \in {"level", "ask"}, NextLevel PROVE Walks
  OBVIOUS
<1>1. CASE pass.level < Levels
  <2>1. pass' = [pass EXCEPT !.level = @ + 1, !.text = ""] /\ pc' = "level" /\ pass \in Passes
    BY <1>1 DEF NextLevel, IInv, TypeInv
  <2>2. pass.level \in 1 .. Levels /\ pass.level \in Nat
    BY <2>1 DEF IInv, TypeInv, Passes
  <2>3. PICK l \in Nat : l = pass.level + 1
    BY <2>2
  <2>4. pass' = [pass EXCEPT !.level = l, !.text = ""]
    BY <2>1, <2>3
  <2>5. pass' \in Passes
    BY <2>1, <2>3, <2>4 DEF Passes
  <2>6. SamePart /\ pass'.level = l
    BY <2>1, <2>4 DEF Passes, SamePart
  <2> QED
    BY <1>1, <2>1, <2>2, <2>3, <2>5, <2>6, ConstantsAre DEF Walks
<1>2. CASE ~(pass.level < Levels)
  BY <1>2, NoPassIs DEF NextLevel, Fail, Walks
<1> QED
  BY <1>1, <1>2

LEMMA Attempts == 0 \in 0 .. Retries /\ \A n \in 0 .. Retries : Again(n) => n + 1 \in 0 .. Retries
  BY ConstantsAre DEF Again

LEMMA Successor == ASSUME NEW n \in Nat PROVE \E m \in Nat : m = n + 1
  OBVIOUS

LEMMA OneMorePass == ASSUME NEW k \in 0 .. MaxPasses, k < MaxPasses PROVE k + 1 \in 0 .. MaxPasses
  BY ConstantsAre

LEMMA WithinLater ==
  ASSUME NEW doc \in Contents, NEW k \in Nat, Within(doc, k)
  PROVE  Within(doc, k + 1) /\ Under(doc, k + 1)
<1>1. doc.cycle \in Nat /\ doc.major \in Nat /\ doc.size \in Nat
  BY DocumentTypes
<1> QED
  BY <1>1 DEF Within, Under

LEMMA OneMoreIs == ASSUME NEW n \in Nat PROVE OneMore(n) \in Nat
  BY ConstantsAre DEF OneMore

LEMMA RunEndsWalks ==
  ASSUME IInv, pc = "ask", NEW text \in {""} \cup Texts, RunEnds(text)
  PROVE  Walks
<1>1. pass \in Passes /\ pass.level \in 1 .. Levels /\ pass.attempt \in 0 .. Retries /\ pass.calls \in Nat
  BY DEF IInv, TypeInv, Passes
<1>2. CASE Valid(text, pass.major)
  <2>1. /\ pc' = "store"
        /\ pass' = [pass EXCEPT !.text = text, !.level = 0, !.attempt = 0, !.calls = 0, !.denied = 0]
    BY <1>2 DEF RunEnds
  <2>2. pass' \in Passes
    BY <1>1, <2>1, Attempts DEF Passes
  <2>3. SamePart /\ pass'.text = text
    BY <1>1, <2>1 DEF Passes, SamePart
  <2> QED
    BY <1>2, <2>1, <2>2, <2>3 DEF Walks, SamePart
<1>3. CASE ~Valid(text, pass.major) /\ Again(pass.attempt)
  <2>1. /\ pc' = "ask"
        /\ pass' = [pass EXCEPT !.attempt = @ + 1, !.calls = OneMore(@), !.denied = 0, !.text = ""]
    BY <1>3 DEF RunEnds
  <2>2. PICK a \in 0 .. Retries : a = pass.attempt + 1
    BY <1>1, <1>3, Attempts
  <2>3. PICK c \in Nat : c = OneMore(pass.calls)
    BY <1>1, OneMoreIs
  <2>4. pass' = [pass EXCEPT !.attempt = a, !.calls = c, !.denied = 0, !.text = ""]
    BY <2>1, <2>2, <2>3
  <2>5. pass' \in Passes
    BY <1>1, <2>2, <2>3, <2>4 DEF Passes
  <2>6. SamePart /\ pass'.level = pass.level
    BY <1>1, <2>4 DEF Passes, SamePart
  <2> QED
    BY <1>1, <2>1, <2>5, <2>6 DEF Walks
<1>4. CASE ~Valid(text, pass.major) /\ ~Again(pass.attempt)
  BY <1>4, NextLevelWalks DEF RunEnds
<1> QED
  BY <1>2, <1>3, <1>4

Walking ==
  \/ SkipLevel \/ LoadLevel \/ Synthetic
  \/ \E said \in {"", "short", "full"} : Reply(said)
  \/ \E said \in {"", "short"} : Denied(said)
  \/ \E qualifying, hint \in BOOLEAN : RunFails(qualifying, hint)

LEMMA WalkingStep == IInv /\ Walking => IInv'
<1> SUFFICES ASSUME IInv, Walking PROVE IInv'
  OBVIOUS
<1>1. /\ pass \in Passes /\ pass.calls \in Nat /\ pass.denied \in Nat /\ pass.text \in {""} \cup Texts
      /\ pc \in {"level", "ask"} => pass.level \in 1 .. Levels
      /\ failed \in [1 .. Levels -> BOOLEAN] /\ TypeInv
  BY DEF IInv, TypeInv, Passes
<1>2. CASE SkipLevel
  <2>1. SameCount
    BY <1>1, <1>2, FaultIs DEF SkipLevel
  <2>2. Walks
    BY <1>2, NextLevelWalks DEF SkipLevel
  <2> QED
    BY <1>1, <1>2, <2>1, <2>2, WalkDone DEF SkipLevel
<1>3. CASE LoadLevel
  <2>1. SameCount
    BY <1>1, <1>3, FaultIs DEF LoadLevel
  <2>2. pass' = [pass EXCEPT !.attempt = 0, !.calls = 0, !.denied = 0, !.text = ""]
    BY <1>3 DEF LoadLevel
  <2>3. pass' \in Passes
    BY <1>1, <2>2, Attempts DEF Passes
  <2>4. SamePart /\ pass'.level = pass.level
    BY <1>1, <2>2 DEF Passes, SamePart
  <2>5. Walks
    BY <1>1, <1>3, <2>3, <2>4 DEF LoadLevel, Walks
  <2> QED
    BY <1>1, <1>3, <2>1, <2>5, WalkDone DEF LoadLevel
<1>4. CASE Synthetic
  <2>1. SameCount
    BY <1>1, <1>4, FaultIs DEF Synthetic
  <2>2. Walks
    BY <1>4, RunEndsWalks DEF Synthetic, Texts
  <2> QED
    BY <1>1, <1>4, <2>1, <2>2, WalkDone DEF Synthetic
<1>5. ASSUME NEW said \in {"", "short", "full"}, Reply(said) PROVE IInv'
  <2>1. SameCount
    BY <1>1, <1>5, FaultIs DEF Reply
  <2>2. RunEnds(IF said = "" THEN pass.text ELSE said) /\ pc = "ask"
    BY <1>5 DEF Reply
  <2>3. (IF said = "" THEN pass.text ELSE said) \in {""} \cup Texts
    BY <1>1 DEF Texts
  <2>4. Walks
    BY <2>2, <2>3, RunEndsWalks
  <2> QED
    BY <1>1, <1>5, <2>1, <2>4, WalkDone DEF Reply
<1>6. ASSUME NEW said \in {"", "short"}, Denied(said) PROVE IInv'
  <2>1. SameCount
    BY <1>1, <1>6, FaultIs DEF Denied
  <2>2. PICK c \in Nat : c = OneMore(pass.calls)
    BY <1>1, OneMoreIs
  <2>3. PICK d \in Nat : d = pass.denied + 1
    BY <1>1, Successor
  <2>4. PICK t \in {""} \cup Texts : t = IF said = "" THEN pass.text ELSE said
    BY <1>1 DEF Texts
  <2>5. pass' = [pass EXCEPT !.calls = c, !.denied = d, !.text = t]
    BY <1>6, <2>2, <2>3, <2>4 DEF Denied
  <2>6. pass' \in Passes
    BY <1>1, <2>2, <2>3, <2>4, <2>5 DEF Passes
  <2>7. SamePart /\ pass'.level = pass.level
    BY <1>1, <2>5 DEF Passes, SamePart
  <2>8. Walks
    BY <1>1, <1>6, <2>6, <2>7 DEF Denied, Walks
  <2> QED
    BY <1>1, <1>6, <2>1, <2>8, WalkDone DEF Denied
<1>7. ASSUME NEW qualifying \in BOOLEAN, NEW hint \in BOOLEAN, RunFails(qualifying, hint) PROVE IInv'
  <2>1. SameCount /\ failed' \in [1 .. Levels -> BOOLEAN]
    <3>1. Marks(pass.level, hint)
      BY <1>7 DEF RunFails
    <3>2. CASE hint
      BY <1>1, <3>1, <3>2, FaultIs DEF Marks
    <3>3. CASE ~hint
      BY <1>1, <3>1, <3>3, FaultIs DEF Marks
    <3> QED
      BY <3>2, <3>3
  <2>2. Walks
    <3>1. CASE qualifying /\ pass.text = "" /\ pass.level < Levels
      BY <1>7, <3>1, NextLevelWalks DEF RunFails
    <3>2. CASE ~(qualifying /\ pass.text = "" /\ pass.level < Levels)
      BY <1>7, <3>2, NoPassIs DEF RunFails, Fail, Walks
    <3> QED
      BY <3>1, <3>2
  <2> QED
    BY <1>1, <1>7, <2>1, <2>2, WalkDone DEF RunFails
<1> QED
  BY <1>2, <1>3, <1>4, <1>5, <1>6, <1>7 DEF Walking

(* What ends a pass from outside. *)
LEMMA EndingStep == IInv /\ (GiveUp \/ StoreFails \/ RewriteFails \/ Crash) => IInv'
<1> SUFFICES ASSUME IInv, GiveUp \/ StoreFails \/ RewriteFails \/ Crash PROVE IInv'
  OBVIOUS
<1>1. /\ pc' = "idle" /\ pass' = NoPass /\ Fault
      /\ UNCHANGED <<log, memory, closed, failed, aside, gone, last, split, hollow>>
  BY DEF GiveUp, StoreFails, RewriteFails, Crash, Fail, ghosts
<1>2. wrecked' \in BOOLEAN /\ (wrecked' \/ (wrecked' = wrecked /\ ~Torn))
  BY DEF GiveUp, StoreFails, RewriteFails, Crash, ghosts, Torn, IInv, TypeInv
<1>3. SameCount
  BY <1>1, FaultIs DEF IInv
<1>4. TypeInv'
  BY <1>1, <1>2, <1>3, NoPassIs DEF IInv, TypeInv, Steps, SameCount
<1> QED
  BY <1>1, <1>2, <1>3, <1>4, StopStep DEF SameCount

-----------------------------------------------------------------------------
(* Between passes. *)

LEMMA WorldStep == IInv /\ (CloseClaim \/ QuotaResets \/ UNCHANGED vars) => IInv'
<1> SUFFICES ASSUME IInv, CloseClaim \/ QuotaResets \/ UNCHANGED vars PROVE IInv'
  OBVIOUS
<1>1. UNCHANGED <<log, memory, pc, pass, aside, used, gone, last, split, hollow, wrecked>>
  BY DEF CloseClaim, QuotaResets, vars, files, ghosts
<1>2. closed' \subseteq Claims /\ failed' \in [1 .. Levels -> BOOLEAN]
  <2>1. CASE CloseClaim
    BY <2>1 DEF CloseClaim, IInv, TypeInv
  <2>2. CASE QuotaResets
    BY <2>2 DEF QuotaResets, IInv, TypeInv
  <2>3. CASE UNCHANGED vars
    BY <2>3 DEF vars, IInv, TypeInv
  <2> QED
    BY <2>1, <2>2, <2>3
<1>3. TypeInv'
  BY <1>1, <1>2 DEF IInv, TypeInv
<1>4. CountInv' /\ ClaimInv' /\ TextInv' /\ MajorInv'
  BY <1>1 DEF IInv, CountInv, ClaimInv, TextInv, MajorInv, Summing
<1>5. CutOff' = CutOff /\ Known' = Known
  BY <1>1 DEF Known, Told, Torn, CutOff
<1>6. PartInv' /\ CopyInv'
  BY <1>1, <1>5 DEF IInv, PartInv, CopyInv, Parting, Summing
<1>7. KnownInv' /\ AsideInv'
  BY <1>1, <1>5 DEF IInv, KnownInv, AsideInv, AsideMissesNothing
<1> QED
  BY <1>3, <1>4, <1>6, <1>7 DEF IInv

(* In an exchange a call is followed by its response. *)
LEMMA ExchangesAre ==
  ASSUME NEW exchange \in Exchanges
  PROVE  /\ Len(exchange) \in 1 .. 3 /\ DOMAIN exchange = 1 .. Len(exchange)
         /\ \A i \in 1 .. Len(exchange) :
              /\ exchange[i] \in Kinds
              /\ exchange[i] = "call" => i < Len(exchange) /\ exchange[i + 1] = "response"
              /\ exchange[i] = "response" => i > 1 /\ exchange[i - 1] = "call"
<1>1. CASE exchange = <<"user">>
  BY <1>1 DEF Kinds
<1>2. CASE exchange = <<"user", "model">>
  <2>1. Len(exchange) = 2 /\ DOMAIN exchange = 1 .. 2 /\ 1 .. 2 = {1, 2}
    BY <1>2
  <2> QED
    BY <1>2, <2>1 DEF Kinds
<1>3. CASE exchange = <<"user", "call", "response">>
  <2>1. Len(exchange) = 3 /\ DOMAIN exchange = 1 .. 3 /\ 1 .. 3 = {1, 2, 3}
    BY <1>3
  <2>2. /\ exchange[1] = "user" /\ exchange[2] = "call" /\ exchange[3] = "response"
        /\ 2 + 1 = 3 /\ 3 - 1 = 2 /\ 2 < 3 /\ 3 > 1
    BY <1>3
  <2> QED
    BY <2>1, <2>2 DEF Kinds
<1> QED
  BY <1>1, <1>2, <1>3 DEF Exchanges

LEMMA AppendStep == ASSUME IInv, NEW exchange \in Exchanges, AppendTurns(exchange) PROVE IInv'
<1> Fields
  BY FieldTypes DEF IInv
<1> DEFINE n == Len(exchange)
           L == Len(log)
           u == used.turns
           new == [i \in DOMAIN exchange |-> Turn(used.turns + i, exchange[i])]
<1>1. n \in Nat /\ L \in Nat /\ u \in Nat
  <2>1. n \in 1 .. 3
    BY ExchangesAre
  <2>2. log \in Seq(Turns) /\ used.turns \in Nat
    BY DEF Fields
  <2> QED
    BY <2>1, <2>2
<1>2. /\ \A i \in 1 .. n : new[i] = Turn(u + i, exchange[i])
      /\ new \in Seq(Turns) /\ Len(new) = n
  <2>1. DOMAIN exchange = 1 .. n
    BY ExchangesAre
  <2>2. u + n <= MaxTurns
    BY DEF AppendTurns
  <2>3. ASSUME NEW i \in 1 .. n PROVE Turn(u + i, exchange[i]) \in Turns
    <3>1. u + i \in Ids
      BY <1>1, <2>2, ConstantsAre DEF Ids
    <3>2. exchange[i] \in Kinds
      BY ExchangesAre
    <3> QED
      BY <3>1, <3>2 DEF Turn, Turns
  <2>4. new = [i \in 1 .. n |-> Turn(u + i, exchange[i])]
    BY <2>1
  <2> HIDE DEF new
  <2>5. new \in [1 .. n -> Turns] /\ n \in Nat
    BY <1>1, <2>3, <2>4
  <2>6. new \in Seq(Turns)
    BY <2>5, SeqDef
  <2>7. Len(new) = n
    BY <1>1, <2>4, <2>6
  <2> QED
    BY <2>4, <2>6, <2>7
<1>3. log' = log \o new
  BY DEF AppendTurns
<1> HIDE DEF n, L, u, new
<1>4. /\ log' \in Seq(Turns) /\ Len(log') = L + n
      /\ \A i \in 1 .. L : log'[i] = log[i]
      /\ \A i \in 1 .. n : log'[L + i] = Turn(u + i, exchange[i])
  <2>1. /\ log' \in Seq(Turns) /\ Len(log') = L + n
        /\ \A i \in 1 .. L + n : log'[i] = IF i <= L THEN log[i] ELSE new[i - L]
    <3>1. log \in Seq(Turns) /\ new \in Seq(Turns)
      BY <1>2 DEF Fields
    <3> QED
      BY <1>2, <1>3, <3>1, ConcatProperties DEF L
  <2>2. \A i \in 1 .. L : log'[i] = log[i]
    BY <1>1, <2>1
  <2>3. ASSUME NEW i \in 1 .. n PROVE log'[L + i] = Turn(u + i, exchange[i])
    <3>1. L + i \in 1 .. L + n /\ ~(L + i <= L) /\ (L + i) - L = i
      BY <1>1
    <3>2. log'[L + i] = new[i]
      BY <2>1, <3>1
    <3> QED
      BY <1>2, <3>2
  <2> QED
    BY <2>1, <2>2, <2>3
<1>5. /\ pc = "idle" /\ UNCHANGED <<memory, closed, failed, pc, pass, aside, ghosts>>
      /\ used'.turns = u + n /\ used'.passes = used.passes /\ used' \in Bounds
  <2>1. used' = [used EXCEPT !.turns = @ + Len(exchange)] /\ u + n <= MaxTurns
    BY DEF AppendTurns, u, n
  <2>2. u + n \in 0 .. MaxTurns /\ used.turns + Len(exchange) = u + n
    BY <1>1, <2>1, ConstantsAre DEF u, n
  <2>3. used'.turns = u + n /\ used'.passes = used.passes /\ used' \in Bounds
    BY <2>1, <2>2 DEF IInv, TypeInv, Bounds
  <2> QED
    BY <2>3 DEF AppendTurns
<1>6. TypeInv'
  BY <1>4, <1>5 DEF IInv, TypeInv, ghosts
<1>7. CountInv' /\ ClaimInv' /\ TextInv' /\ MajorInv'
  BY <1>5 DEF IInv, CountInv, ClaimInv, TextInv, MajorInv, Summing, ghosts
<1>8. CutOff' = CutOff /\ Known' = Known
  BY <1>5 DEF Known, Told, Torn, CutOff, ghosts
<1>9. Shape(log', CutOff)
  <2>0. Shape(log, CutOff)
    BY DEF IInv, PartInv
  <2>1. ASSUME NEW i \in 1 .. L
        PROVE  /\ log'[i].kind = "call" =>
                    /\ i < L + n /\ log'[i + 1].kind = "response"
                    /\ log'[i + 1].id = log'[i].id + 1
               /\ log'[i].kind = "response" =>
                    IF i = 1 THEN log'[i].id \in CutOff ELSE log'[i - 1].kind = "call"
    <3>1. log'[i] = log[i] /\ (i + 1 \in 1 .. L => log'[i + 1] = log[i + 1])
          /\ (i - 1 \in 1 .. L => log'[i - 1] = log[i - 1])
      BY <1>4
    <3>2. (i < L => i + 1 \in 1 .. L /\ i < L + n) /\ (i # 1 => i - 1 \in 1 .. L)
      BY <1>1
    <3>3. /\ log[i].kind = "call" =>
               /\ i < L /\ log[i + 1].kind = "response" /\ log[i + 1].id = log[i].id + 1
          /\ log[i].kind = "response" =>
               IF i = 1 THEN log[i].id \in CutOff ELSE log[i - 1].kind = "call"
      BY <2>0 DEF Shape, L
    <3> QED
      BY <3>1, <3>2, <3>3
  <2>2. ASSUME NEW i \in 1 .. n
        PROVE  /\ log'[L + i].kind = "call" =>
                    /\ L + i < L + n /\ log'[(L + i) + 1].kind = "response"
                    /\ log'[(L + i) + 1].id = log'[L + i].id + 1
               /\ log'[L + i].kind = "response" =>
                    L + i # 1 /\ log'[(L + i) - 1].kind = "call"
    <3>1. log'[L + i].kind = exchange[i] /\ log'[L + i].id = u + i
      <4>1. log'[L + i] = Turn(u + i, exchange[i])
        BY <1>4
      <4> QED
        BY <4>1 DEF Turn
    <3>2. ASSUME exchange[i] = "call"
          PROVE  /\ L + i < L + n /\ log'[(L + i) + 1].kind = "response"
                 /\ log'[(L + i) + 1].id = log'[L + i].id + 1
      <4>1. i < n /\ exchange[i + 1] = "response"
        BY <3>2, ExchangesAre DEF n
      <4>2. i + 1 \in 1 .. n /\ (L + i) + 1 = L + (i + 1) /\ u + (i + 1) = (u + i) + 1 /\ L + i < L + n
        BY <1>1, <4>1
      <4>3. log'[L + (i + 1)] = Turn(u + (i + 1), exchange[i + 1])
        BY <1>4, <4>2
      <4> QED
        BY <3>1, <4>1, <4>2, <4>3 DEF Turn
    <3>3. ASSUME exchange[i] = "response"
          PROVE  L + i # 1 /\ log'[(L + i) - 1].kind = "call"
      <4>1. i > 1 /\ exchange[i - 1] = "call"
        BY <3>3, ExchangesAre DEF n
      <4>2. i - 1 \in 1 .. n /\ (L + i) - 1 = L + (i - 1) /\ L + i # 1
        BY <1>1, <4>1
      <4>3. log'[L + (i - 1)] = Turn(u + (i - 1), exchange[i - 1])
        BY <1>4, <4>2
      <4> QED
        BY <4>1, <4>2, <4>3 DEF Turn
    <3> QED
      BY <3>1, <3>2, <3>3
  <2>3. ASSUME NEW i \in 1 .. L + n, i \notin 1 .. L
        PROVE  \E j \in 1 .. n : i = L + j
    <3>1. i - L \in 1 .. n /\ i = L + (i - L)
      BY <1>1, <2>3
    <3> QED
      BY <3>1
  <2>4. Len(log') = L + n
    BY <1>4
  <2>5. ASSUME NEW i \in 1 .. L + n
        PROVE  /\ log'[i].kind = "call" =>
                    /\ i < L + n /\ log'[i + 1].kind = "response"
                    /\ log'[i + 1].id = log'[i].id + 1
               /\ log'[i].kind = "response" =>
                    IF i = 1 THEN log'[i].id \in CutOff ELSE log'[i - 1].kind = "call"
    <3>1. CASE i \in 1 .. L
      BY <2>1, <3>1
    <3>2. CASE i \notin 1 .. L
      <4>1. PICK j \in 1 .. n : i = L + j
        BY <2>3, <3>2
      <4> QED
        BY <2>2, <4>1
    <3> QED
      BY <3>1, <3>2
  <2> QED
    BY <2>4, <2>5 DEF Shape
<1>10. PartInv' /\ CopyInv'
  BY <1>5, <1>8, <1>9 DEF PartInv, CopyInv, Parting, Summing
<1>11. 1 .. u \subseteq 1 .. u + n /\ IdsOf(log) \subseteq IdsOf(log')
       /\ 1 .. u + n \subseteq 1 .. u \cup IdsOf(log')
  <2>1. DOMAIN log' = 1 .. L + n /\ DOMAIN log = 1 .. L
    <3>1. log \in Seq(Turns) /\ log' \in Seq(Turns) /\ Len(log') = L + n
      BY <1>4 DEF Fields
    <3> QED
      BY <3>1, LenProperties DEF L
  <2>2. IdsOf(log) \subseteq IdsOf(log')
    <3> SUFFICES ASSUME NEW i \in 1 .. L PROVE log[i].id \in IdsOf(log')
      BY <2>1 DEF IdsOf
    <3>1. i \in 1 .. L + n /\ log'[i] = log[i]
      BY <1>1, <1>4
    <3> QED
      BY <2>1, <3>1 DEF IdsOf
  <2>3. ASSUME NEW k \in 1 .. u + n, k \notin 1 .. u PROVE k \in IdsOf(log')
    <3>1. PICK i \in 1 .. n : k = u + i
      <4>1. k - u \in 1 .. n /\ k = u + (k - u)
        BY <1>1, <2>3
      <4> QED
        BY <4>1
    <3>2. L + i \in 1 .. L + n
      BY <1>1
    <3>3. log'[L + i].id = k
      <4>1. log'[L + i] = Turn(u + i, exchange[i])
        BY <1>4
      <4> QED
        BY <3>1, <4>1 DEF Turn
    <3> QED
      BY <2>1, <3>2, <3>3 DEF IdsOf
  <2>4. 1 .. u \subseteq 1 .. u + n
    BY <1>1
  <2> QED
    BY <2>2, <2>3, <2>4
<1>12. KnownInv'
  <2>1. wrecked \/ 1 .. u \subseteq IdsOf(log) \cup Known
    BY DEF IInv, KnownInv, u
  <2>2. wrecked' = wrecked /\ used'.turns = u + n
    BY <1>5 DEF ghosts
  <2> QED
    BY <1>8, <1>11, <2>1, <2>2 DEF KnownInv
<1>13. AsideInv'
  <2>1. aside' = aside /\ wrecked' = wrecked /\ used'.turns = u + n
    BY <1>5 DEF ghosts
  <2>2. aside.pc \in {"first", "second"} => aside.due \subseteq 1 .. u
    BY DEF IInv, AsideInv, u
  <2> QED
    BY <1>8, <1>11, <2>1, <2>2 DEF IInv, AsideInv, AsideMissesNothing
<1> QED
  BY <1>6, <1>7, <1>10, <1>12, <1>13 DEF IInv

-----------------------------------------------------------------------------
(* Claims are reconciled when a turn reads the session, and in a pass. *)

LEMMA WakeStep == IInv /\ Wake => IInv'
<1> SUFFICES ASSUME IInv, Wake PROVE IInv'
  OBVIOUS
<1> Fields
  BY FieldTypes DEF IInv
<1> DEFINE new == Reconciled(memory)
<1>1. /\ pc = "idle" /\ pc' = "wakeTorn" /\ memory' = Empty
      /\ pass' = [NoPass EXCEPT !.new = new]
      /\ UNCHANGED <<log, closed, failed, aside, used, gone, last, split, hollow, wrecked>>
  BY DEF Wake, ghosts
<1>2. /\ new \in Contents
      /\ new.covers = memory.covers /\ new.cycle = memory.cycle /\ new.major = memory.major
      /\ new.size = memory.size /\ new.by = memory.by /\ new.text = memory.text
      /\ new.live \subseteq memory.live /\ new.live \cap closed = {}
      /\ new.resolved \subseteq memory.resolved \cup closed
  BY ReconciledIs DEF IInv, TypeInv
<1>3. memory # Empty
  BY EmptyIs DEF Wake, Stale
<1> HIDE DEF new
<1>4. pass' \in Passes /\ pass'.new = new /\ pass'.doc = Empty
  BY <1>1, <1>2, NoPassIs DEF Passes
<1>5. TypeInv'
  BY <1>1, <1>4, EmptyIs DEF IInv, TypeInv, Steps
<1>6. CountInv'
  <2>1. Within(Empty, used.passes) /\ Within(new, used.passes)
    <3>1. Within(Empty, used.passes)
      BY EmptyWithin DEF Fields
    <3>2. Within(new, used.passes)
      BY <1>2 DEF IInv, CountInv, Within
    <3> QED
      BY <3>1, <3>2
  <2> QED
    BY <1>1, <1>4, <2>1 DEF CountInv, Summing
<1>7. ClaimInv'
  BY <1>1, <1>2, <1>4, EmptyIs DEF IInv, ClaimInv, Alive, Summing
<1>8. TextInv'
  BY <1>1, <1>2, <1>4, EmptyIs DEF IInv, TextInv, Whole
<1>9. MajorInv'
  BY <1>1, <1>2, <1>3, <1>4 DEF IInv, MajorInv, Marked, AfterMajor, Summing
<1>10. CutOff' = CutOff
  BY <1>1 DEF CutOff
<1>11. PartInv' /\ CopyInv'
  BY <1>1, <1>10 DEF IInv, PartInv, CopyInv, Parting, Summing
<1>12. Known' = Known
  BY <1>1, <1>2, <1>4, <1>10 DEF Known, Told, Torn
<1>13. KnownInv' /\ AsideInv'
  BY <1>1, <1>12 DEF IInv, KnownInv, AsideInv, AsideMissesNothing
<1> QED
  BY <1>5, <1>6, <1>7, <1>8, <1>9, <1>11, <1>13 DEF IInv

LEMMA WakeWriteStep == IInv /\ WakeWrite => IInv'
<1> SUFFICES ASSUME IInv, WakeWrite PROVE IInv'
  OBVIOUS
<1> Fields
  BY FieldTypes DEF IInv
<1>1. /\ pc = "wakeTorn" /\ pc' = "idle" /\ memory' = pass.new /\ pass' = NoPass
      /\ gone' = gone \cup pass.new.resolved
      /\ UNCHANGED <<log, closed, failed, aside, used, last, split, hollow, wrecked>>
  BY DEF WakeWrite
<1>2. pass.new \in Contents /\ pass.new.resolved \subseteq Claims
  BY DocumentTypes DEF Fields
<1>3. TypeInv'
  BY <1>1, <1>2, NoPassIs DEF IInv, TypeInv, Steps
<1>4. CountInv'
  <2>1. Within(Empty, used.passes) /\ Within(pass.new, used.passes)
    BY EmptyWithin DEF Fields, IInv, CountInv
  <2> QED
    BY <1>1, <2>1, NoPassIs DEF CountInv, Summing
<1>5. ClaimInv'
  BY <1>1 DEF IInv, ClaimInv, Alive, Summing
<1>6. TextInv'
  BY <1>1, NoPassIs, EmptyIs DEF IInv, TextInv, Whole
<1>7. MajorInv'
  BY <1>1 DEF IInv, MajorInv, Summing
<1>8. CutOff' = CutOff
  BY <1>1 DEF CutOff
<1>9. PartInv' /\ CopyInv'
  BY <1>1, <1>8 DEF IInv, PartInv, CopyInv, Parting, Summing
<1>10. Known' = Known
  BY <1>1, <1>8 DEF Known, Told, Torn
<1>11. KnownInv' /\ AsideInv'
  BY <1>1, <1>10 DEF IInv, KnownInv, AsideInv, AsideMissesNothing
<1> QED
  BY <1>3, <1>4, <1>5, <1>6, <1>7, <1>9, <1>11 DEF IInv

(* A pass whose level is set to the first one. *)
LEMMA FirstLevel ==
  ASSUME TypeInv, NEW doc \in Contents, NEW new \in Contents,
         pass' = [pass EXCEPT !.doc = doc, !.new = new, !.level = 1]
  PROVE  /\ pass' \in Passes /\ pass'.level \in 1 .. Levels
         /\ pass'.doc = doc /\ pass'.new = new /\ pass'.cut = pass.cut
         /\ pass'.rest = pass.rest /\ pass'.major = pass.major /\ pass'.forced = pass.forced
         /\ pass'.append = pass.append /\ pass'.text = pass.text
<1>1. pass \in Passes
  BY DEF TypeInv
<1>2. pass' \in Passes
  BY <1>1 DEF Passes
<1>3. pass'.level = 1 /\ 1 \in 1 .. Levels
  <2>1. pass'.level = 1
    BY <1>1 DEF Passes
  <2>2. 1 \in 1 .. Levels
    BY ConstantsAre
  <2> QED
    BY <2>1, <2>2
<1> QED
  BY <1>1, <1>2, <1>3 DEF Passes

LEMMA ReconcileStep == IInv /\ ReconcileClaims => IInv'
<1> SUFFICES ASSUME IInv, ReconcileClaims PROVE IInv'
  OBVIOUS
<1> Fields
  BY FieldTypes DEF IInv
<1>1. /\ pc = "claims" /\ pass \in Passes
      /\ UNCHANGED <<log, closed, failed, aside, used, gone, last, split, hollow, wrecked>>
  BY DEF ReconcileClaims, ghosts, IInv, TypeInv
<1>2. CASE Stale(pass.doc) = {}
  <2>1. pc' = "level" /\ pass' = [pass EXCEPT !.level = 1] /\ memory' = memory
    BY <1>2 DEF ReconcileClaims
  <2>2. pass' \in Passes
    BY <1>1, <2>1 DEF Passes
  <2>3. SamePart /\ pass'.level = 1
    BY <1>1, <2>1 DEF Passes, SamePart
  <2>4. 1 \in 1 .. Levels
    BY ConstantsAre
  <2>5. TypeInv'
    BY <1>1, <2>1, <2>2, <2>3, <2>4 DEF IInv, TypeInv, Steps
  <2> QED
    BY <1>1, <2>1, <2>3, <2>5, WalkStep DEF ghosts
<1>3. CASE Stale(pass.doc) # {}
  <2> DEFINE new == Reconciled(pass.doc)
  <2>1. pc' = "claimsTorn" /\ memory' = Empty /\ pass' = [pass EXCEPT !.new = new]
    BY <1>3 DEF ReconcileClaims
  <2>2. /\ new \in Contents
        /\ new.covers = pass.doc.covers /\ new.cycle = pass.doc.cycle
        /\ new.major = pass.doc.major /\ new.size = pass.doc.size
        /\ new.by = pass.doc.by /\ new.text = pass.doc.text
        /\ new.live \subseteq pass.doc.live /\ new.live \cap closed = {}
        /\ new.resolved \subseteq pass.doc.resolved \cup closed
    BY ReconciledIs DEF IInv, TypeInv, Fields
  <2>3. pass.doc # Empty /\ pass.doc = memory
    BY <1>1, <1>3, EmptyIs DEF Stale, IInv, CopyInv
  <2> HIDE DEF new
  <2>4. pass' \in Passes
    BY <1>1, <2>1, <2>2 DEF Passes
  <2>5. /\ pass'.new = new /\ pass'.doc = pass.doc /\ pass'.cut = pass.cut
        /\ pass'.rest = pass.rest /\ pass'.major = pass.major /\ pass'.forced = pass.forced
    BY <1>1, <2>1 DEF Passes
  <2>6. TypeInv'
    BY <1>1, <2>1, <2>4, EmptyIs DEF IInv, TypeInv, Steps
  <2>7. CountInv'
    <3>1. Under(pass.doc, used.passes) /\ Within(pass.doc, used.passes)
      BY <1>1 DEF IInv, CountInv, Summing
    <3>2. Under(new, used.passes) /\ Within(new, used.passes)
      BY <2>2, <3>1 DEF Under, Within
    <3>3. Within(Empty, used.passes)
      BY EmptyWithin DEF Fields
    <3> QED
      BY <1>1, <2>1, <2>5, <3>1, <3>2, <3>3 DEF CountInv
  <2>8. ClaimInv'
    BY <1>1, <2>1, <2>2, <2>5, EmptyIs DEF IInv, ClaimInv, Alive, Summing
  <2>9. TextInv'
    BY <1>1, <2>1, <2>2, <2>5, EmptyIs DEF IInv, TextInv, Whole
  <2>10. MajorInv'
    BY <1>1, <2>1, <2>2, <2>3, <2>5 DEF IInv, MajorInv, Marked, AfterMajor, Summing
  <2>11. CutOff' = CutOff
    BY <1>1 DEF CutOff
  <2>12. PartInv' /\ CopyInv'
    BY <1>1, <2>1, <2>5, <2>11 DEF IInv, PartInv, CopyInv, Parting, Summing
  <2>13. Known' = Known
    BY <1>1, <2>1, <2>2, <2>3, <2>5, <2>11 DEF Known, Told, Torn
  <2>14. KnownInv' /\ AsideInv'
    BY <1>1, <2>13 DEF IInv, KnownInv, AsideInv, AsideMissesNothing
  <2> QED
    BY <2>6, <2>7, <2>8, <2>9, <2>10, <2>12, <2>14 DEF IInv
<1> QED
  BY <1>2, <1>3

LEMMA ClaimsWriteStep == IInv /\ ClaimsWrite => IInv'
<1> SUFFICES ASSUME IInv, ClaimsWrite PROVE IInv'
  OBVIOUS
<1> Fields
  BY FieldTypes DEF IInv
<1>1. /\ pc = "claimsTorn" /\ pc' = "level" /\ memory' = pass.new
      /\ pass' = [pass EXCEPT !.doc = pass.new, !.level = 1]
      /\ gone' = gone \cup pass.new.resolved
      /\ UNCHANGED <<log, closed, failed, aside, used, last, split, hollow, wrecked>>
  BY DEF ClaimsWrite, InHand
<1>2. pass \in Passes /\ pass.new \in Contents /\ pass.new.resolved \subseteq Claims
  BY DocumentTypes DEF Fields, IInv, TypeInv
<1>3. pass' \in Passes
  BY <1>1, <1>2 DEF Passes
<1>4. /\ pass'.new = pass.new /\ pass'.doc = pass.new /\ pass'.cut = pass.cut
      /\ pass'.rest = pass.rest /\ pass'.major = pass.major /\ pass'.forced = pass.forced
      /\ pass'.level = 1
  BY <1>1, <1>2 DEF Passes
<1>5. 1 \in 1 .. Levels
  BY ConstantsAre
<1>6. TypeInv'
  BY <1>1, <1>2, <1>3, <1>4, <1>5 DEF IInv, TypeInv, Steps
<1>7. CountInv'
  BY <1>1, <1>4 DEF IInv, CountInv, Summing
<1>8. ClaimInv'
  BY <1>1, <1>4 DEF IInv, ClaimInv, Alive, Summing
<1>9. TextInv'
  BY <1>1, <1>4 DEF IInv, TextInv, Whole
<1>10. MajorInv'
  BY <1>1, <1>4 DEF IInv, MajorInv, Summing
<1>11. CutOff' = CutOff
  BY <1>1 DEF CutOff
<1>12. PartInv' /\ CopyInv'
  BY <1>1, <1>4, <1>11 DEF IInv, PartInv, CopyInv, Parting, Summing
<1>13. Known' = Known
  BY <1>1, <1>4, <1>11 DEF Known, Told, Torn
<1>14. KnownInv' /\ AsideInv'
  BY <1>1, <1>13 DEF IInv, KnownInv, AsideInv, AsideMissesNothing
<1> QED
  BY <1>6, <1>7, <1>8, <1>9, <1>10, <1>12, <1>14 DEF IInv

LEMMA ClaimsWriteFailsStep == IInv /\ ClaimsWriteFails => IInv'
<1> SUFFICES ASSUME IInv, ClaimsWriteFails PROVE IInv'
  OBVIOUS
<1>1. /\ pc = "claimsTorn" /\ pc' = "level" /\ wrecked' = TRUE
      /\ pass' = [pass EXCEPT !.level = 1]
      /\ UNCHANGED <<log, memory, closed, failed, aside, gone, last, split, hollow>>
  BY DEF ClaimsWriteFails
<1>2. pass \in Passes /\ SameCount
  BY FaultIs DEF IInv, TypeInv, ClaimsWriteFails
<1>3. pass' \in Passes
  BY <1>1, <1>2 DEF Passes
<1>4. /\ pass'.new = pass.new /\ pass'.doc = pass.doc /\ pass'.cut = pass.cut
      /\ pass'.rest = pass.rest /\ pass'.major = pass.major /\ pass'.forced = pass.forced
      /\ pass'.level = 1
  BY <1>1, <1>2 DEF Passes
<1>5. 1 \in 1 .. Levels
  BY ConstantsAre
<1>6. TypeInv'
  BY <1>1, <1>2, <1>3, <1>4, <1>5 DEF IInv, TypeInv, Steps, SameCount
<1>7. CountInv'
  BY <1>1, <1>2, <1>4 DEF IInv, CountInv, Summing, SameCount
<1>8. ClaimInv'
  BY <1>1, <1>4 DEF IInv, ClaimInv, Alive, Summing
<1>9. TextInv'
  BY <1>1, <1>4 DEF IInv, TextInv, Whole
<1>10. MajorInv'
  BY <1>1, <1>4 DEF IInv, MajorInv, Summing
<1>11. CutOff' = CutOff
  BY <1>1 DEF CutOff
<1>12. PartInv' /\ CopyInv'
  BY <1>1, <1>4, <1>11 DEF IInv, PartInv, CopyInv, Parting, Summing
<1>13. KnownInv' /\ AsideInv'
  BY <1>1, <1>2 DEF IInv, KnownInv, AsideInv, AsideMissesNothing, SameCount
<1> QED
  BY <1>6, <1>7, <1>8, <1>9, <1>10, <1>12, <1>13 DEF IInv

-----------------------------------------------------------------------------
(* A pass begins: it has the document and both parts of the log. *)
LEMMA StartStep ==
  ASSUME IInv, NEW force \in BOOLEAN, NEW forceMajor \in BOOLEAN, NEW append \in BOOLEAN,
         NEW n \in DOMAIN log, StartPass(force, forceMajor, append, n)
  PROVE  IInv'
<1> Fields
  BY FieldTypes DEF IInv
<1>1. PICK b : b = Boundary(log, n)
  OBVIOUS
<1>2. b \in 1 .. Len(log)
  <2>1. log \in Seq(Turns)
    BY DEF Fields
  <2>2. DOMAIN log = 1 .. Len(log)
    BY <2>1, LenProperties
  <2> QED
    BY <1>1, <2>1, <2>2, BoundaryIs
<1>3. PICK cut : cut = SubSeq(log, 1, b)
  OBVIOUS
<1>4. PICK rest : rest = SubSeq(log, b + 1, Len(log))
  OBVIOUS
<1>5. PICK major : major = (forceMajor \/ IsMajor(memory))
  OBVIOUS
<1>6. PICK forced : forced = (major /\ ~IsMajor(memory))
  OBVIOUS
<1>7. PICK adds : adds = (append \/ major)
  OBVIOUS
<1>8. major \in BOOLEAN /\ forced \in BOOLEAN /\ adds \in BOOLEAN
  BY <1>5, <1>6, <1>7 DEF IsMajor
<1>9. /\ pc = "idle" /\ pc' = "claims" /\ used.passes < MaxPasses
      /\ used' = [used EXCEPT !.passes = @ + 1]
      /\ pass' = [NoPass EXCEPT !.doc = memory, !.cut = cut, !.rest = rest, !.major = major,
                                !.forced = forced, !.append = adds]
      /\ split' = IF log[b].kind = "call" THEN split \cup {log[b].id} ELSE split
      /\ UNCHANGED <<log, memory, closed, failed, aside, gone, last, hollow, wrecked>>
  BY <1>1, <1>3, <1>4, <1>5, <1>6, <1>7 DEF StartPass
<1>10. CutOff \subseteq CutOff'
  BY <1>9 DEF CutOff
<1>11. Shape(log, CutOff')
  <2>1. Shape(log, CutOff)
    BY DEF IInv, PartInv
  <2> QED
    BY <1>10, <2>1, ShapeGrows
<1>12. Parts(log, cut, rest, CutOff')
  <2>1. log[b].kind = "call" => log[b].id \in CutOff' /\ log[b].id + 1 \in CutOff'
    BY <1>9 DEF CutOff
  <2>2. PICK more : more = CutOff'
    OBVIOUS
  <2>3. Shape(log, more) /\ (log[b].kind = "call" => log[b].id \in more /\ log[b].id + 1 \in more)
    BY <1>11, <2>1, <2>2
  <2>4. log \in Seq(Turns)
    BY DEF Fields
  <2>5. Parts(log, cut, rest, more)
    BY <1>2, <1>3, <1>4, <2>3, <2>4, Parted
  <2> QED
    BY <2>2, <2>5
<1>13. /\ pass'.doc = memory /\ pass'.new = Empty /\ pass'.cut = cut /\ pass'.rest = rest
       /\ pass'.major = major /\ pass'.forced = forced
  <2>1. NoPass \in Passes /\ NoPass.new = Empty
    BY NoPassIs
  <2> QED
    BY <1>9, <2>1 DEF Passes
<1>14. pass' \in Passes
  <2>1. NoPass \in Passes /\ memory \in Contents
    BY NoPassIs DEF Fields
  <2> QED
    BY <1>8, <1>9, <1>12, <2>1 DEF Passes, Parts
<1>15. used' \in Bounds /\ used'.passes = used.passes + 1 /\ used'.turns = used.turns
  <2>1. PICK m \in Nat : m = used.passes + 1
    BY Successor DEF Fields
  <2>2. m \in 0 .. MaxPasses
    <3>1. used.passes \in 0 .. MaxPasses
      BY DEF Fields
    <3> QED
      BY <1>9, <2>1, <3>1, OneMorePass
  <2>3. used' = [used EXCEPT !.passes = m] /\ used \in Bounds
    BY <1>9, <2>1 DEF IInv, TypeInv
  <2> QED
    BY <2>1, <2>2, <2>3 DEF Bounds
<1>16. split' \subseteq Ids
  <2>1. log[b] \in Turns
    <3>1. log \in Seq(Turns)
      BY DEF Fields
    <3> QED
      BY <1>2, <3>1, ElementOfSeq
  <2> QED
    BY <1>9, <2>1 DEF IInv, TypeInv, Turns
<1>17. TypeInv'
  BY <1>9, <1>14, <1>15, <1>16 DEF IInv, TypeInv, Steps
<1>18. CountInv'
  <2>1. Within(memory, used.passes) /\ used.passes \in Nat /\ memory \in Contents
    BY DEF IInv, CountInv, Fields
  <2>2. Within(memory, used.passes + 1) /\ Under(memory, used.passes + 1)
    BY <2>1, WithinLater
  <2>3. Within(Empty, used.passes + 1) /\ Under(Empty, used.passes + 1)
    BY <2>1, EmptyIs, EmptyWithin, WithinLater
  <2> QED
    BY <1>9, <1>13, <1>15, <2>2, <2>3 DEF CountInv
<1>19. ClaimInv'
  BY <1>9, <1>13 DEF IInv, ClaimInv
<1>20. TextInv'
  BY <1>9, <1>13, EmptyIs DEF IInv, TextInv, Whole
<1>21. MajorInv'
  <2>1. last = "major" => Marked(memory)
    BY DEF IInv, MajorInv
  <2>2. Marked(memory) => ~IsMajor(memory)
    BY DEF Marked, IsMajor
  <2> QED
    BY <1>6, <1>9, <1>13, <2>1, <2>2 DEF MajorInv
<1>22. PartInv'
  BY <1>9, <1>11, <1>12, <1>13 DEF PartInv, Parts
<1>23. CopyInv'
  BY <1>9, <1>13 DEF CopyInv
<1>24. Known \subseteq Known'
  BY <1>9, <1>10 DEF Known, Told, Torn
<1>25. KnownInv' /\ AsideInv'
  BY <1>9, <1>15, <1>24 DEF IInv, KnownInv, AsideInv, AsideMissesNothing
<1> QED
  BY <1>17, <1>18, <1>19, <1>20, <1>21, <1>22, <1>23, <1>25 DEF IInv

-----------------------------------------------------------------------------
(* The two writes. *)

(* What a summary makes of the document in hand. *)
LEMMA DocumentsAre ==
  ASSUME TypeInv, pass.text \in Texts, Valid(pass.text, pass.major), Under(pass.doc, used.passes),
         Alive(pass.doc, gone), Whole(pass.doc), Shown(pass.cut) \subseteq Ids,
         NEW doc \in Documents(pass, pass.text)
  PROVE  /\ doc \in Contents /\ Within(doc, used.passes)
         /\ Alive(doc, IF pass.major \/ ~pass.append THEN {} ELSE gone)
         /\ Whole(doc) /\ (pass.major => AfterMajor(doc))
         /\ pass.text # "synthetic" => pass.doc.covers \cup Shown(pass.cut) \subseteq doc.covers
<1> DEFINE old == pass.doc
           told == Sources(pass, pass.text)
           kept == SUBSET (old.live \cup old.resolved)
           whole == [covers |-> told, cycle |-> 0, major |-> 0, size |-> 1, live |-> {},
                     resolved |-> {}, text |-> pass.text, by |-> "replace"]
<1>1. /\ old \in Contents /\ used.passes \in Nat /\ pass.major \in BOOLEAN /\ pass.append \in BOOLEAN
  BY FieldTypes DEF Fields
<1>2. /\ old.covers \subseteq Ids /\ old.cycle \in Nat /\ old.major \in Nat /\ old.size \in Nat
      /\ old.live \subseteq Claims /\ old.resolved \subseteq Claims
  BY <1>1, DocumentTypes
<1>3. old.cycle < used.passes /\ old.major < used.passes /\ old.size <= used.passes
  BY DEF Under
<1>4. told \subseteq Ids
  BY <1>2 DEF Sources
<1>5. pass.text # "synthetic" => old.covers \cup Shown(pass.cut) \subseteq told
  BY DEF Sources
<1>6. CASE pass.major
  <2>1. doc \in {[whole EXCEPT !.cycle = old.cycle + 1, !.major = old.cycle + 1,
                               !.live = claims, !.by = "major"] : claims \in kept}
    BY <1>6 DEF Documents
  <2>2. PICK claims \in kept :
          doc = [whole EXCEPT !.cycle = old.cycle + 1, !.major = old.cycle + 1,
                              !.live = claims, !.by = "major"]
    BY <2>1
  <2>3. /\ doc = [covers |-> told, cycle |-> old.cycle + 1, major |-> old.cycle + 1, size |-> 1,
                  live |-> claims, resolved |-> {}, text |-> pass.text, by |-> "major"]
    BY <2>2
  <2> HIDE DEF old, told, whole
  <2>4. PICK c \in Nat : c = old.cycle + 1 /\ c <= used.passes /\ c > 0
    BY <1>1, <1>2, <1>3
  <2>5. claims \subseteq Claims
    BY <1>2
  <2>6. doc \in Contents
    BY <1>4, <2>3, <2>4, <2>5 DEF Contents
  <2>7. /\ doc.covers = told /\ doc.cycle = c /\ doc.major = c /\ doc.size = 1
        /\ doc.resolved = {} /\ doc.text = pass.text
    BY <2>3, <2>4
  <2>8. Within(doc, used.passes)
    BY <1>1, <2>4, <2>7 DEF Within
  <2>9. Alive(doc, {}) /\ AfterMajor(doc)
    BY <2>4, <2>7 DEF Alive, AfterMajor
  <2>10. Whole(doc)
    BY <1>6, <2>7 DEF Whole, Valid
  <2> QED
    BY <1>5, <1>6, <2>6, <2>7, <2>8, <2>9, <2>10 DEF old
<1>7. CASE ~pass.major /\ pass.append
  <2>1. doc = [old EXCEPT !.covers = @ \cup told, !.cycle = @ + 1, !.size = @ + 1]
    BY <1>7 DEF Documents
  <2> HIDE DEF old, told, whole
  <2>2. PICK c \in Nat : c = old.cycle + 1 /\ c <= used.passes
    BY <1>1, <1>2, <1>3
  <2>3. PICK m \in Nat : m = old.size + 1 /\ m <= used.passes + 1
    BY <1>1, <1>2, <1>3
  <2>4. PICK covers \in SUBSET Ids : covers = old.covers \cup told
    BY <1>2, <1>4
  <2>5. doc = [old EXCEPT !.covers = covers, !.cycle = c, !.size = m]
    BY <2>1, <2>2, <2>3, <2>4
  <2>6. doc \in Contents
    BY <1>1, <2>5 DEF Contents
  <2>7. /\ doc.covers = covers /\ doc.cycle = c /\ doc.major = old.major /\ doc.size = m
        /\ doc.live = old.live /\ doc.resolved = old.resolved /\ doc.text = old.text
        /\ doc.by = old.by
    BY <1>1, <2>5 DEF Contents
  <2>8. Within(doc, used.passes)
    BY <1>1, <1>2, <1>3, <2>2, <2>3, <2>7 DEF Within
  <2>9. Alive(doc, gone) /\ Whole(doc)
    BY <2>7 DEF Alive, Whole, old
  <2> QED
    BY <1>5, <1>7, <2>4, <2>6, <2>7, <2>8, <2>9 DEF old
<1>8. CASE ~pass.major /\ ~pass.append
  <2>1. doc \in {[whole EXCEPT !.live = claims] : claims \in kept}
    BY <1>8 DEF Documents
  <2>2. PICK claims \in kept : doc = [whole EXCEPT !.live = claims]
    BY <2>1
  <2>3. doc = [covers |-> told, cycle |-> 0, major |-> 0, size |-> 1, live |-> claims,
               resolved |-> {}, text |-> pass.text, by |-> "replace"]
    BY <2>2
  <2> HIDE DEF old, told, whole
  <2>4. claims \subseteq Claims
    BY <1>2
  <2>5. doc \in Contents
    BY <1>4, <2>3, <2>4 DEF Contents
  <2>6. doc.covers = told /\ doc.by = "replace" /\ doc.resolved = {}
        /\ doc.cycle = 0 /\ doc.major = 0 /\ doc.size = 1
    BY <2>3
  <2>7. Within(doc, used.passes)
    BY <1>1, <2>6 DEF Within
  <2>8. Alive(doc, {}) /\ Whole(doc)
    BY <2>6 DEF Alive, Whole
  <2> QED
    BY <1>5, <1>8, <2>5, <2>6, <2>7, <2>8 DEF old
<1> QED
  BY <1>1, <1>6, <1>7, <1>8

LEMMA StoreStep == IInv /\ Store => IInv'
<1> SUFFICES ASSUME IInv, Store PROVE IInv'
  OBVIOUS
<1> Fields
  BY FieldTypes DEF IInv
<1>1. /\ pc = "store" /\ UNCHANGED <<log, closed, failed, aside, used, gone, last, split, hollow, wrecked>>
  BY DEF Store, ghosts
<1>2. Valid(pass.text, pass.major) /\ pass.text # "" /\ pass.text \in Texts
  BY <1>1 DEF Fields, IInv, TextInv, Valid
<1>3. PICK doc \in Documents(pass, pass.text) : pass' = [pass EXCEPT !.new = doc]
  BY <1>2 DEF Store
<1>4. pc' = "storeTorn" /\ memory' = Empty
  BY <1>2 DEF Store
<1>5. Shown(pass.cut) \subseteq Ids
  BY <1>1 DEF IInv, PartInv, Parting, Summing
<1>6. /\ doc \in Contents /\ Within(doc, used.passes)
      /\ Alive(doc, IF pass.major \/ ~pass.append THEN {} ELSE gone)
      /\ Whole(doc) /\ (pass.major => AfterMajor(doc))
      /\ pass.text # "synthetic" => pass.doc.covers \cup Shown(pass.cut) \subseteq doc.covers
  <2>1. TypeInv /\ Under(pass.doc, used.passes) /\ Alive(pass.doc, gone) /\ Whole(pass.doc)
    BY <1>1 DEF IInv, CountInv, ClaimInv, TextInv, Summing
  <2> QED
    BY <1>2, <1>5, <2>1, DocumentsAre
<1>7. pass \in Passes
  BY DEF IInv, TypeInv
<1>8. pass' \in Passes
  BY <1>3, <1>6, <1>7 DEF Passes
<1>9. /\ pass'.new = doc /\ pass'.doc = pass.doc /\ pass'.cut = pass.cut
      /\ pass'.rest = pass.rest /\ pass'.major = pass.major /\ pass'.append = pass.append
      /\ pass'.text = pass.text
  BY <1>3, <1>7 DEF Passes
<1>10. TypeInv'
  BY <1>1, <1>4, <1>8, EmptyIs DEF IInv, TypeInv, Steps
<1>11. CountInv'
  <2>1. Within(Empty, used.passes) /\ Within(pass.doc, used.passes)
    BY EmptyWithin DEF Fields, IInv, CountInv
  <2> QED
    BY <1>1, <1>4, <1>6, <1>9, <2>1 DEF CountInv, Summing
<1>12. ClaimInv'
  <2>1. Alive(Empty, gone)
    BY EmptyIs DEF Alive
  <2> QED
    BY <1>1, <1>4, <1>6, <1>9, <2>1 DEF ClaimInv, Summing
<1>13. TextInv'
  <2>1. Whole(Empty) /\ Whole(pass.doc)
    BY EmptyIs DEF Whole, IInv, TextInv
  <2> QED
    BY <1>4, <1>6, <1>9, <2>1 DEF TextInv
<1>14. MajorInv'
  BY <1>1, <1>4, <1>6, <1>9 DEF MajorInv, Marked, Summing
<1>15. CutOff' = CutOff
  BY <1>1 DEF CutOff
<1>16. PartInv'
  BY <1>1, <1>4, <1>9, <1>15 DEF IInv, PartInv, Parting, Summing
<1>17. CopyInv'
  BY <1>2, <1>4, <1>6, <1>9 DEF CopyInv, Summing
<1>18. wrecked \/ Known \subseteq Known'
  <2>1. wrecked \/ pass.doc.covers = memory.covers
    BY <1>1 DEF IInv, CopyInv, Summing
  <2>2. Told = memory.covers
    BY <1>1 DEF Told, Torn
  <2>3. pass.doc.covers \subseteq Told'
    BY <1>4, <1>6, <1>9 DEF Told, Torn
  <2> QED
    BY <1>1, <1>15, <2>1, <2>2, <2>3 DEF Known
<1>19. KnownInv' /\ AsideInv'
  BY <1>1, <1>18 DEF IInv, KnownInv, AsideInv, AsideMissesNothing
<1> QED
  BY <1>10, <1>11, <1>12, <1>13, <1>14, <1>16, <1>17, <1>19 DEF IInv

LEMMA StoreWriteStep == IInv /\ StoreWrite => IInv'
<1> SUFFICES ASSUME IInv, StoreWrite PROVE IInv'
  OBVIOUS
<1> Fields
  BY FieldTypes DEF IInv
<1>1. /\ pc = "storeTorn" /\ pc' = "rewrite" /\ memory' = pass.new
      /\ gone' = (IF pass.major \/ ~pass.append THEN gone \ pass.new.live ELSE gone)
      /\ last' = (IF pass.major THEN "major" ELSE "minor")
      /\ hollow' = (IF pass.text = "synthetic"
                      THEN hollow \cup pass.doc.covers \cup Shown(pass.cut) ELSE hollow)
      /\ UNCHANGED <<log, closed, failed, pass, aside, used, split, wrecked>>
  BY DEF StoreWrite
<1>2. pass.new \in Contents /\ pass.doc.covers \subseteq Ids /\ Shown(pass.cut) \subseteq Ids
  BY <1>1, DocumentTypes DEF Fields, IInv, PartInv, Parting
<1>3. TypeInv'
  BY <1>1, <1>2 DEF IInv, TypeInv, Steps
<1>4. CountInv'
  BY <1>1 DEF IInv, CountInv, Summing
<1>5. ClaimInv'
  BY <1>1 DEF IInv, ClaimInv, Alive, Summing
<1>6. TextInv'
  BY <1>1 DEF IInv, TextInv
<1>7. MajorInv'
  BY <1>1 DEF IInv, MajorInv, Summing
<1>8. CutOff' = CutOff
  BY <1>1 DEF CutOff
<1>9. PartInv'
  BY <1>1, <1>8 DEF IInv, PartInv, Parting
<1>10. CopyInv'
  BY <1>1 DEF IInv, CopyInv, Summing
<1>11. Known \subseteq Known'
  BY <1>1, <1>8 DEF Known, Told, Torn
<1>12. KnownInv' /\ AsideInv'
  BY <1>1, <1>11 DEF IInv, KnownInv, AsideInv, AsideMissesNothing
<1> QED
  BY <1>3, <1>4, <1>5, <1>6, <1>7, <1>9, <1>10, <1>12 DEF IInv

(* The younger part, with a notice behind it or without. *)
LEMMA RestIs ==
  ASSUME NEW rest \in Seq(Turns), NEW off, Shape(rest, off),
         NEW new, new = (IF rest = <<>> THEN <<>> ELSE rest \o <<Notice>>)
  PROVE  new \in Seq(Turns) /\ Shape(new, off) /\ IdsOf(rest) \subseteq IdsOf(new)
<1>1. CASE rest = <<>>
  <2>1. new = <<>> /\ new \in Seq(Turns) /\ Len(new) = 0 /\ 1 .. 0 = {}
    BY <1>1
  <2> QED
    BY <1>1, <2>1 DEF Shape
<1>2. CASE rest # <<>>
  <2>1. Notice \in Turns /\ Notice.kind = "notice"
    BY ConstantsAre DEF Notice, Turn, Turns, Ids, Kinds
  <2>2. PICK L \in Nat : L = Len(rest)
    OBVIOUS
  <2>3. /\ new \in Seq(Turns) /\ Len(new) = L + 1
        /\ \A i \in 1 .. L : new[i] = rest[i]
        /\ new[L + 1] = Notice
    BY <1>2, <2>1, <2>2
  <2>4. Shape(new, off)
    <3> SUFFICES ASSUME NEW i \in 1 .. L + 1
                 PROVE  /\ new[i].kind = "call" =>
                             /\ i < L + 1 /\ new[i + 1].kind = "response"
                             /\ new[i + 1].id = new[i].id + 1
                        /\ new[i].kind = "response" =>
                             IF i = 1 THEN new[i].id \in off ELSE new[i - 1].kind = "call"
      BY <2>3 DEF Shape
    <3>1. CASE i = L + 1
      BY <2>1, <2>3, <3>1
    <3>2. CASE i # L + 1
      <4>1. i \in 1 .. L /\ (i < L => i + 1 \in 1 .. L) /\ i < L + 1 /\ (i # 1 => i - 1 \in 1 .. L)
        BY <2>2, <3>2
      <4>2. /\ rest[i].kind = "call" =>
                 /\ i < L /\ rest[i + 1].kind = "response" /\ rest[i + 1].id = rest[i].id + 1
            /\ rest[i].kind = "response" =>
                 IF i = 1 THEN rest[i].id \in off ELSE rest[i - 1].kind = "call"
        BY <2>2, <4>1 DEF Shape
      <4> QED
        BY <2>3, <4>1, <4>2
    <3> QED
      BY <3>1, <3>2
  <2>5. DOMAIN rest = 1 .. L /\ DOMAIN new = 1 .. L + 1 /\ 1 .. L \subseteq 1 .. L + 1
    BY <2>2, <2>3
  <2>6. IdsOf(rest) \subseteq IdsOf(new)
    BY <2>3, <2>5 DEF IdsOf
  <2> QED
    BY <2>3, <2>4, <2>6
<1> QED
  BY <1>1, <1>2

LEMMA RewriteStep == IInv /\ Rewrite => IInv'
<1> SUFFICES ASSUME IInv, Rewrite PROVE IInv'
  OBVIOUS
<1> Fields
  BY FieldTypes DEF IInv
<1>1. /\ pc = "rewrite" /\ pc' = "idle" /\ pass' = NoPass
      /\ log' = (IF pass.rest = <<>> THEN <<>> ELSE pass.rest \o <<Notice>>)
      /\ UNCHANGED <<memory, closed, failed, aside, used, gone, last, split, hollow, wrecked>>
  BY DEF Rewrite, ghosts
<1>2. CutOff' = CutOff
  BY <1>1 DEF CutOff
<1>3. log' \in Seq(Turns) /\ Shape(log', CutOff) /\ IdsOf(pass.rest) \subseteq IdsOf(log')
  <2>1. pass.rest \in Seq(Turns) /\ Shape(pass.rest, CutOff)
    BY <1>1 DEF Fields, IInv, PartInv, Parting
  <2> QED
    BY <1>1, <2>1, RestIs
<1>4. TypeInv'
  BY <1>1, <1>3, NoPassIs DEF IInv, TypeInv, Steps
<1>5. CountInv'
  <2>1. Within(Empty, used.passes) /\ Within(memory, used.passes)
    BY EmptyWithin DEF Fields, IInv, CountInv
  <2> QED
    BY <1>1, <2>1, NoPassIs DEF CountInv, Summing
<1>6. ClaimInv'
  BY <1>1 DEF IInv, ClaimInv, Alive, Summing
<1>7. TextInv'
  BY <1>1, NoPassIs, EmptyIs DEF IInv, TextInv, Whole
<1>8. MajorInv'
  BY <1>1 DEF IInv, MajorInv, Summing
<1>9. PartInv' /\ CopyInv'
  BY <1>1, <1>2, <1>3 DEF PartInv, CopyInv, Parting, Summing
<1>10. Known' = Known
  BY <1>1, <1>2 DEF Known, Told, Torn
<1>11. IdsOf(log) \subseteq IdsOf(log') \cup Known
  <2>1. /\ IdsOf(log) \subseteq IdsOf(pass.cut) \cup IdsOf(pass.rest)
        /\ IdsOf(pass.cut) \subseteq Shown(pass.cut) \cup CutOff
        /\ Shown(pass.cut) \subseteq memory.covers \cup hollow
    BY <1>1 DEF IInv, PartInv, CopyInv, Parting
  <2>2. Told = memory.covers
    BY <1>1 DEF Told, Torn
  <2> QED
    BY <1>3, <2>1, <2>2 DEF Known
<1>12. KnownInv' /\ AsideInv'
  BY <1>1, <1>10, <1>11 DEF IInv, KnownInv, AsideInv, AsideMissesNothing
<1> QED
  BY <1>4, <1>5, <1>6, <1>7, <1>8, <1>9, <1>12 DEF IInv

-----------------------------------------------------------------------------
(* The aside. *)

LEMMA AsideStep == IInv /\ (AsideBegin \/ AsideFirst \/ AsideSecond) => IInv'
<1> SUFFICES ASSUME IInv, AsideBegin \/ AsideFirst \/ AsideSecond PROVE IInv'
  OBVIOUS
<1> Fields
  BY FieldTypes DEF IInv
<1>1. UNCHANGED <<log, memory, closed, failed, pc, pass, used, gone, last, split, hollow, wrecked>>
  BY DEF AsideBegin, AsideFirst, AsideSecond, files, ghosts
<1>2. CutOff' = CutOff /\ Known' = Known
  BY <1>1 DEF CutOff, Known, Told, Torn
<1>3. aside \in [pc : {"idle", "first", "second", "asked"}, due : SUBSET Nat]
  BY DEF IInv, TypeInv
<1>4. ReadOrder[1] = "log" /\ ReadOrder[2] = "memory"
  BY DEF ReadOrder
<1>5. /\ aside' \in [pc : {"idle", "first", "second", "asked"}, due : SUBSET Nat]
      /\ AsideInv'
  <2>1. CASE AsideBegin
    <3>1. aside' = [aside EXCEPT !.pc = "first", !.due = 1 .. used.turns]
      BY <2>1 DEF AsideBegin
    <3>2. 1 .. used.turns \subseteq Nat
      <4>1. used.turns \in Nat
        BY DEF Fields
      <4> QED
        BY <4>1
    <3>3. aside'.pc = "first" /\ aside'.due = 1 .. used.turns
      BY <1>3, <3>1
    <3>4. aside' \in [pc : {"idle", "first", "second", "asked"}, due : SUBSET Nat]
      BY <1>3, <3>1, <3>2
    <3> QED
      BY <1>1, <3>3, <3>4 DEF AsideInv, AsideMissesNothing
  <2>2. CASE AsideFirst
    <3>1. aside.pc = "first" /\ aside' = [pc |-> "second", due |-> aside.due \ IdsOf(log)]
      BY <1>4, <2>2 DEF AsideFirst, LeftDue
    <3>2. wrecked \/ aside.due \ IdsOf(log) \subseteq Known
      BY <3>1 DEF IInv, AsideInv, KnownInv
    <3>3. aside.due \ IdsOf(log) \in SUBSET Nat
      BY <1>3
    <3>4. aside' \in [pc : {"idle", "first", "second", "asked"}, due : SUBSET Nat]
      BY <3>1, <3>3
    <3>5. aside.due \ IdsOf(log) \subseteq 1 .. used.turns
      BY <3>1 DEF IInv, AsideInv
    <3> QED
      BY <1>1, <1>2, <3>1, <3>2, <3>4, <3>5 DEF AsideInv, AsideMissesNothing
  <2>3. CASE AsideSecond
    <3>1. aside.pc = "second" /\ aside' = [pc |-> "asked", due |-> LeftDue("memory")]
      BY <1>4, <2>3 DEF AsideSecond
    <3>2. LeftDue("memory") = {}
      BY <3>1 DEF IInv, AsideInv, LeftDue, Known, Told
    <3>3. aside' \in [pc : {"idle", "first", "second", "asked"}, due : SUBSET Nat]
      BY <3>1, <3>2
    <3> QED
      BY <3>1, <3>2, <3>3 DEF AsideInv, AsideMissesNothing
  <2> QED
    BY <2>1, <2>2, <2>3
<1>6. TypeInv'
  BY <1>1, <1>5 DEF IInv, TypeInv
<1>7. CountInv' /\ ClaimInv' /\ TextInv' /\ MajorInv'
  BY <1>1 DEF IInv, CountInv, ClaimInv, TextInv, MajorInv, Summing
<1>8. PartInv' /\ CopyInv' /\ KnownInv'
  BY <1>1, <1>2 DEF IInv, PartInv, CopyInv, Parting, Summing, KnownInv
<1> QED
  BY <1>5, <1>6, <1>7, <1>8 DEF IInv

-----------------------------------------------------------------------------
LEMMA StepIInv == IInv /\ [Next]_vars => IInv'
<1> SUFFICES ASSUME IInv, [Next]_vars PROVE IInv'
  OBVIOUS
<1>1. CASE PassStep
  BY <1>1, ReconcileStep, ClaimsWriteStep, WalkingStep, StoreStep, StoreWriteStep, RewriteStep,
     WakeWriteStep DEF PassStep, Walking
<1>2. CASE \E exchange \in Exchanges : AppendTurns(exchange)
  BY <1>2, AppendStep
<1>3. CASE CloseClaim \/ QuotaResets \/ Wake \/ UNCHANGED vars
  BY <1>3, WorldStep, WakeStep
<1>4. CASE \E force, forceMajor, append \in BOOLEAN, n \in DOMAIN log :
             StartPass(force, forceMajor, append, n)
  BY <1>4, StartStep
<1>5. CASE GiveUp \/ ClaimsWriteFails \/ StoreFails \/ RewriteFails \/ Crash
  BY <1>5, EndingStep, ClaimsWriteFailsStep
<1>6. CASE AsideBegin \/ AsideFirst \/ AsideSecond
  BY <1>6, AsideStep
<1> QED
  BY <1>1, <1>2, <1>3, <1>4, <1>5, <1>6 DEF Next

LEMMA InitIInv == Init => IInv
<1> SUFFICES ASSUME Init PROVE IInv
  OBVIOUS
<1>1. PICK live \in SUBSET Claims :
        memory = IF live = {} THEN Empty ELSE [Empty EXCEPT !.live = live, !.size = 1]
  BY DEF Init
<1>2. /\ memory \in Contents /\ memory.cycle = 0 /\ memory.major = 0 /\ memory.size <= 1
      /\ memory.by = "none" /\ memory.covers = {}
  <2>1. CASE live = {}
    BY <1>1, <2>1, EmptyIs
  <2>2. CASE live # {}
    <3>1. memory = [Empty EXCEPT !.live = live, !.size = 1]
      BY <1>1, <2>2
    <3>2. /\ memory.cycle = 0 /\ memory.major = 0 /\ memory.size = 1
          /\ memory.by = "none" /\ memory.covers = {}
      BY <3>1 DEF Empty
    <3>3. memory \in Contents
      BY <3>1, EmptyIs DEF Contents
    <3> QED
      BY <3>2, <3>3
  <2> QED
    BY <2>1, <2>2
<1>3. used.turns = 0 /\ used.passes = 0 /\ used \in Bounds
  BY ConstantsAre DEF Init, Bounds
<1>4. aside = [pc |-> "idle", due |-> {}] /\ pc = "idle" /\ pass = NoPass /\ log = <<>>
  BY DEF Init, NoAside
<1>5. TypeInv
  <2>1. log \in Seq(Turns) /\ aside \in [pc : {"idle", "first", "second", "asked"}, due : SUBSET Nat]
    BY <1>4
  <2>2. failed \in [1 .. Levels -> BOOLEAN]
    BY DEF Init
  <2> QED
    BY <1>2, <1>3, <1>4, <2>1, <2>2, NoPassIs DEF Init, TypeInv, Steps
<1>6. CountInv
  <2>1. Within(Empty, 0) /\ Within(memory, 0)
    BY <1>2, EmptyWithin DEF Within
  <2> QED
    BY <1>3, <1>4, <2>1, NoPassIs DEF CountInv, Summing
<1>7. ClaimInv /\ TextInv
  <2>1. memory.resolved = {}
    BY <1>1 DEF Empty
  <2> QED
    BY <1>2, <1>4, <2>1, NoPassIs, EmptyIs DEF Init, ClaimInv, Alive, TextInv, Whole, Summing
<1>8. MajorInv
  BY <1>4 DEF Init, MajorInv, Summing
<1>9. Shape(log, CutOff)
  <2>1. Len(log) = 0 /\ 1 .. 0 = {}
    BY <1>4
  <2> QED
    BY <2>1 DEF Shape
<1>10. PartInv /\ CopyInv
  BY <1>4, <1>9 DEF PartInv, CopyInv, Parting, Summing
<1>11. KnownInv
  BY <1>3 DEF KnownInv
<1>12. AsideInv
  BY <1>4 DEF AsideInv, AsideMissesNothing
<1> QED
  BY <1>5, <1>6, <1>7, <1>8, <1>10, <1>11, <1>12 DEF IInv

(* Every reachable state satisfies the inductive invariant. *)
THEOREM Invariance == Spec => []IInv
<1> QED
  BY InitIInv, StepIInv, PTL DEF Spec

(* Every turn is in the log or was made a part of MEMORY.md, but for what a
   boundary parted, a synthetic answer swallowed or a half-written file lost. *)
THEOREM NothingIsForgotten == Spec => []NothingForgotten
<1>1. IInv => NothingForgotten
  <2> SUFFICES ASSUME IInv, ~wrecked, ~Torn
               PROVE  1 .. used.turns \subseteq IdsOf(log) \cup memory.covers \cup CutOff \cup hollow
    BY DEF NothingForgotten
  <2>1. 1 .. used.turns \subseteq IdsOf(log) \cup Known
    BY DEF IInv, KnownInv
  <2> QED
    BY <2>1 DEF Known, Told
<1> QED
  BY <1>1, Invariance, PTL

(* No refusal or fragment becomes the whole document in a major pass, and all
   counters stay in their bounds. *)
THEOREM DocumentsAreSound == Spec => []DocumentSound
<1>1. IInv => DocumentSound
  <2> SUFFICES ASSUME IInv PROVE DocumentSound
    OBVIOUS
  <2> Fields
    BY FieldTypes DEF IInv
  <2>1. ASSUME NEW doc \in Contents, Within(doc, used.passes) PROVE doc \in Docs
    <3>1. /\ doc.cycle \in Nat /\ doc.major \in Nat /\ doc.size \in Nat
          /\ used.passes \in Nat /\ used.passes <= MaxPasses
      <4>1. used.passes \in Nat /\ used.passes \in 0 .. MaxPasses
        BY DEF Fields
      <4>2. used.passes <= MaxPasses
        BY <4>1, ConstantsAre
      <4> QED
        BY <2>1, <4>1, <4>2, DocumentTypes
    <3>2. doc.cycle \in 0 .. MaxPasses /\ doc.major \in 0 .. MaxPasses /\ doc.size \in 0 .. MaxPasses + 1
      BY <2>1, <3>1, ConstantsAre DEF Within
    <3> QED
      BY <3>2 DEF Contents, Docs, Texts
  <2>2. memory \in Docs /\ pass.doc \in Docs /\ pass.new \in Docs
    BY <2>1 DEF IInv, CountInv, Fields
  <2>3. \A i \in DOMAIN log : log[i] \in [id : Ids, kind : Kinds]
    <3>1. log \in Seq(Turns)
      BY DEF Fields
    <3>2. \A i \in DOMAIN log : log[i] \in Turns
      BY <3>1
    <3> QED
      BY <3>2 DEF Turns
  <2>4. TypeOK
    BY <2>2, <2>3 DEF IInv, TypeInv, TypeOK, Fields
  <2>5. WholeDocumentIsReal
    BY DEF IInv, TextInv, Whole, WholeDocumentIsReal
  <2> QED
    BY <2>4, <2>5 DEF DocumentSound
<1> QED
  BY <1>1, Invariance, PTL

(* A major pass behind a major pass was asked for. *)
THEOREM MajorPassesAlternate == Spec => []MajorsAlternate
<1>1. IInv => MajorsAlternate
  BY DEF IInv, MajorInv, Summing, MajorsAlternate
<1> QED
  BY <1>1, Invariance, PTL

(* A resolved claim comes back only in a text that replaces the document. *)
THEOREM ResolvedClaimsStay == Spec => []ResolvedStays
<1>1. IInv => ResolvedStays
  BY DEF IInv, ClaimInv, Alive, ResolvedStays
<1> QED
  BY <1>1, Invariance, PTL

(* An aside is shown all that was there when it began, without the lock. *)
THEOREM AsidesMissNothing == Spec => []AsideMissesNothing
<1>1. IInv => AsideMissesNothing
  BY DEF IInv, AsideInv
<1> QED
  BY <1>1, Invariance, PTL
=============================================================================
