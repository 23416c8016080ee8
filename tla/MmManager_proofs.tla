--------------------------- MODULE MmManager_proofs ---------------------------
(***************************************************************************)
(* Proofs about the memory manager, for every number of frames, pages,     *)
(* spaces, regions and sections and every span of a leaf table.            *)
(***************************************************************************)
EXTENDS MmManager, FiniteSetTheorems, WellFoundedInduction, TLAPS

RegionKinds == {"lazy", "wired", "guard", "section"}
RegionRecords ==
  [base : Nat, size : Nat, kind : RegionKinds, bits : SUBSET AccessBits, section : Nat]
SpaceRecords ==
  [inUse : BOOLEAN, root : Nat, nextUserBase : Nat, regions : Seq(RegionRecords), runs : BOOLEAN]
SectionRecords == [inUse : BOOLEAN, refs : Nat, rights : SUBSET MapRights, pages : Seq(Frames)]
PteRecords == [frame : Nat, bits : SUBSET AccessBits]

States ==
  [used : SUBSET Frames, refs : [Frames -> Nat], nextScan : Nat,
   table : [Tables -> Nat], huge : BOOLEAN, pte : [Pages -> PteRecords],
   owner : [Pages -> Nat], reached : SUBSET Pages,
   space : [Spaces -> SpaceRecords], section : [Sections -> SectionRecords],
   leaked : SUBSET Frames, ok : BOOLEAN]

(* What the assumption on the constants says of the sets made from them. *)
LEMMA MmFacts ==
  /\ FrameCount \in Nat \ {0} /\ PageCount \in Nat \ {0} /\ TableSpan \in Nat \ {0}
  /\ MaxSpaces \in Nat \ {0} /\ MaxRegions \in Nat \ {0} /\ MaxSections \in Nat \ {0}
  /\ MaxSectionPages \in Nat \ {0}
  /\ NoFrame \in Nat /\ NoFrame \notin Frames /\ Untracked \notin Frames /\ Frames \subseteq Nat
  /\ Untracked # NoFrame /\ Untracked \in Nat /\ UserBase \in Nat /\ UserBase < PageCount
<1>1. /\ FrameCount \in Nat \ {0} /\ PageCount \in Nat \ {0} /\ TableSpan \in Nat \ {0}
      /\ MaxSpaces \in Nat \ {0} /\ MaxRegions \in Nat \ {0} /\ MaxSections \in Nat \ {0}
      /\ MaxSectionPages \in Nat \ {0} /\ UserBase \in Nat /\ UserBase < PageCount
  BY MmConstants DEF UserBase
<1> QED BY <1>1 DEF NoFrame, Untracked, Frames

(* The records of a free slot are typed. *)
LEMMA EmptyRecords ==
  /\ NoSpace \in SpaceRecords /\ NoSpace.inUse = FALSE /\ NoSpace.regions = <<>>
  /\ NoSpace.nextUserBase = UserBase /\ NoSpace.runs = FALSE
  /\ NoSection \in SectionRecords /\ NoSection.inUse = FALSE /\ NoSection.refs = 0
  /\ NoSection.rights = {} /\ NoSection.pages = <<>>
<1>1. <<>> \in Seq(RegionRecords) /\ <<>> \in Seq(Frames)
  OBVIOUS
<1>2. /\ NoSpace.inUse = FALSE /\ NoSpace.regions = <<>> /\ NoSpace.nextUserBase = UserBase
      /\ NoSpace.runs = FALSE
  BY DEF NoSpace
<1>3. /\ NoSection.inUse = FALSE /\ NoSection.refs = 0 /\ NoSection.rights = {}
      /\ NoSection.pages = <<>>
  BY DEF NoSection
<1>4. NoSpace \in SpaceRecords
  BY <1>1, MmFacts DEF NoSpace, SpaceRecords
<1>5. NoSection \in SectionRecords
  BY <1>1 DEF NoSection, SectionRecords
<1> QED BY <1>2, <1>3, <1>4, <1>5

(* Integer division is monotonic: a user page has a leaf table. *)
LEMMA Quotients ==
  ASSUME NEW a \in Nat, NEW b \in Nat, a <= b, NEW d \in Nat \ {0}
  PROVE  a \div d \in Nat /\ b \div d \in Nat /\ a \div d <= b \div d
<1>1. /\ a \div d \in Nat /\ (a \div d) * d <= a /\ a < (a \div d) * d + d
      /\ b \div d \in Nat /\ (b \div d) * d <= b /\ b < (b \div d) * d + d
  OBVIOUS
<1> DEFINE p == a \div d
           q == b \div d
<1>2. p \in Nat /\ q \in Nat /\ p * d <= b /\ b < q * d + d
  BY <1>1
<1> HIDE DEF p, q
<1>3. q * d \in Nat /\ (q + 1) * d = q * d + d
  BY <1>2
<1>4. q + 1 <= p => (q + 1) * d <= p * d
  BY <1>2
<1>5. p <= q
  BY <1>2, <1>3, <1>4
<1> QED BY <1>2, <1>5 DEF p, q

(* Every user page has a leaf table. *)
LEMMA TableOfPage ==
  ASSUME NEW v \in Pages
  PROVE  v \div TableSpan \in Tables
<1>1. v \in Nat /\ PageCount - 1 \in Nat /\ v <= PageCount - 1
  BY MmFacts DEF Pages
<1> QED BY <1>1, MmFacts, Quotients DEF Tables

(* The sets whose members are counted are finite. *)
LEMMA FiniteFacts ==
  /\ IsFiniteSet(Pages) /\ IsFiniteSet(Tables) /\ IsFiniteSet(Spaces)
  /\ IsFiniteSet(Sections \X (1 .. MaxSectionPages))
  /\ IsFiniteSet(Spaces \X (1 .. MaxRegions))
<1>1. PageCount - 1 \in Nat /\ 0 <= PageCount - 1
  BY MmFacts
<1>2. (PageCount - 1) \div TableSpan \in Nat
  BY <1>1, MmFacts, Quotients
<1>3. IsFiniteSet(Pages) /\ IsFiniteSet(Tables) /\ IsFiniteSet(Spaces)
  <2>1. \A n \in Nat : IsFiniteSet(0 .. n) /\ IsFiniteSet(1 .. n)
    BY FS_Interval
  <2> QED BY <1>1, <1>2, <2>1, MmFacts DEF Pages, Tables, Spaces
<1>4. IsFiniteSet(Sections) /\ IsFiniteSet(1 .. MaxSectionPages) /\ IsFiniteSet(1 .. MaxRegions)
  BY MmFacts, FS_Interval DEF Sections
<1> QED BY <1>3, <1>4, FS_Product

(* Well-ordering, from the library's theorem on the natural numbers. *)
LEMMA SmallestMember ==
  ASSUME NEW S, S \subseteq Nat, S # {}
  PROVE  \E p \in S : \A q \in S : p <= q
<1> DEFINE R == {ss \in Nat \X Nat : ss[1] < ss[2]}
<1>1. IsWellFoundedOn(R, Nat)
  <2>1. OpToRel(<, Nat) = R
    BY Zenon DEF OpToRel
  <2> QED BY <2>1, NatLessThanWellFounded, Zenon
<1>2. PICK p \in S : \A q \in S : ~ (<<q, p>> \in R)
  <2> HIDE DEF R
  <2> QED BY <1>1, WFMin
<1>3. ASSUME NEW r \in S PROVE p <= r
  <2>1. r \in Nat /\ p \in Nat /\ ~ (<<r, p>> \in R)
    BY <1>2
  <2>2. ~ (r < p)
    BY <2>1
  <2> QED BY <2>1, <2>2
<1> QED BY <1>3

(* The first-fit choice of a scan is one of its candidates. *)
LEMMA FirstIsMember ==
  ASSUME NEW S, S \subseteq Nat, S # {}
  PROVE  (CHOOSE s \in S : \A r \in S : s <= r) \in S
BY SmallestMember

(* A loop that keeps a property at every turn has it at the end. *)
LEMMA Iteration ==
  ASSUME NEW n \in Nat, NEW S, 0 \in S, \A k \in 1 .. n : k - 1 \in S => k \in S
  PROVE  \A k \in 0 .. n : k \in S
<1> DEFINE D == {k \in 0 .. n : k \notin S}
<1> SUFFICES ASSUME D # {} PROVE FALSE
  OBVIOUS
<1>1. D \subseteq Nat
  OBVIOUS
<1>2. PICK m \in D : \A q \in D : m <= q
  <2> HIDE DEF D
  <2> QED BY <1>1, SmallestMember
<1>3. m \in 1 .. n /\ m - 1 \in 0 .. n /\ m - 1 < m
  BY <1>2
<1>4. m - 1 \in S
  BY <1>2, <1>3
<1> QED BY <1>2, <1>3, <1>4

(* The scan of MmpAllocPageInternal finds a free frame if there is one. *)
LEMMA NextFitFree ==
  ASSUME NEW m \in States, FreeFrames(m) # {}
  PROVE  NextFit(m) \in FreeFrames(m)
<1> DEFINE far(f) == (f + FrameCount - m.nextScan) % FrameCount
           D == {far(f) : f \in FreeFrames(m)}
<1>1. m.nextScan \in Nat
  BY DEF States
<1>2. \A f \in FreeFrames(m) : far(f) \in Nat
  <2> SUFFICES ASSUME NEW f \in FreeFrames(m) PROVE far(f) \in Nat
    OBVIOUS
  <2>1. f \in Nat
    BY MmFacts DEF FreeFrames
  <2> QED BY <1>1, <2>1, MmFacts
<1> HIDE DEF far
<1>3. D \subseteq Nat /\ D # {}
  BY <1>2
<1>4. PICK d \in D : \A e \in D : d <= e
  <2> HIDE DEF D
  <2> QED BY <1>3, SmallestMember
<1>5. \E f \in FreeFrames(m) : \A g \in FreeFrames(m) : far(f) <= far(g)
  BY <1>4
<1> QED BY <1>5 DEF NextFit, far

-----------------------------------------------------------------------------
(***************************************************************************)
(* Counting the uses of a frame.  Between two operations of a routine some *)
(* references belong to no table yet: extra[f] is how many of frame f.     *)
(***************************************************************************)
One(p) == IF p THEN 1 ELSE 0
PteUse(m, f) == {v \in Pages : v >= UserBase /\ m.pte[v].frame = f}
SectionUse(m, f) ==
  {p \in Sections \X (1 .. MaxSectionPages) :
     p[2] \in DOMAIN m.section[p[1]].pages /\ m.section[p[1]].pages[p[2]] = f}
TableUse(m, f) == {t \in Tables : m.table[t] = f}
RootUse(m, f) == {a \in Spaces : m.space[a].inUse /\ m.space[a].root = f}
UsesIn(m, f) ==
  Cardinality(PteUse(m, f)) + Cardinality(SectionUse(m, f))
  + Cardinality(TableUse(m, f)) + Cardinality(RootUse(m, f))

Extras == [Frames -> Nat]
NoExtra == [f \in Frames |-> 0]
Counted(m, extra) ==
  \A f \in Frames : /\ m.refs[f] = UsesIn(m, f) + One(f \in m.leaked) + extra[f]
                    /\ f \in m.used <=> m.refs[f] > 0

SectionFrames(m, s) == {m.section[s].pages[i] : i \in DOMAIN m.section[s].pages}
ViewsOf(m, s) ==
  {p \in Spaces \X (1 .. MaxRegions) :
     p[2] \in DOMAIN m.space[p[1]].regions /\ m.space[p[1]].regions[p[2]].section = s}

(* A frame of a section is nothing else, and is mapped only if the section *)
(* has a view.                                                             *)
Exclusive(m) ==
  \A s \in Sections : \A f \in SectionFrames(m, s) :
    /\ TableUse(m, f) = {} /\ RootUse(m, f) = {} /\ f \notin m.leaked
    /\ \A r \in Sections : r # s => f \notin SectionFrames(m, r)
    /\ PteUse(m, f) # {} => ViewsOf(m, s) # {}

(* A section has a reference for its handle and one for each view. *)
SectionsHeld(m) ==
  \A s \in Sections :
    /\ Len(m.section[s].pages) <= MaxSectionPages
    /\ m.section[s].refs >= One(m.section[s].rights # {}) + Cardinality(ViewsOf(m, s))
    /\ ~ m.section[s].inUse => m.section[s] = NoSection

SpacesTidy(m) ==
  \A a \in Spaces : /\ ~ m.space[a].inUse => m.space[a] = NoSpace
                    /\ Len(m.space[a].regions) <= MaxRegions

FramesOK(m, extra) ==
  /\ m \in States /\ extra \in Extras
  /\ Counted(m, extra) /\ Exclusive(m) /\ SectionsHeld(m) /\ SpacesTidy(m)

(* The counts of the uses of a frame are natural numbers. *)
LEMMA UseFinite ==
  ASSUME NEW m, NEW f
  PROVE  /\ IsFiniteSet(PteUse(m, f)) /\ Cardinality(PteUse(m, f)) \in Nat
         /\ IsFiniteSet(SectionUse(m, f)) /\ Cardinality(SectionUse(m, f)) \in Nat
         /\ IsFiniteSet(TableUse(m, f)) /\ Cardinality(TableUse(m, f)) \in Nat
         /\ IsFiniteSet(RootUse(m, f)) /\ Cardinality(RootUse(m, f)) \in Nat
<1>1. /\ PteUse(m, f) \subseteq Pages /\ TableUse(m, f) \subseteq Tables
      /\ RootUse(m, f) \subseteq Spaces
      /\ SectionUse(m, f) \subseteq Sections \X (1 .. MaxSectionPages)
  BY DEF PteUse, SectionUse, TableUse, RootUse
<1>2. /\ IsFiniteSet(PteUse(m, f)) /\ IsFiniteSet(SectionUse(m, f))
      /\ IsFiniteSet(TableUse(m, f)) /\ IsFiniteSet(RootUse(m, f))
  BY <1>1, FiniteFacts, FS_Subset
<1> QED BY <1>2, FS_CardinalityType

(* So is the count of the views of a section. *)
LEMMA ViewsFinite ==
  ASSUME NEW m, NEW s
  PROVE  IsFiniteSet(ViewsOf(m, s)) /\ Cardinality(ViewsOf(m, s)) \in Nat
<1>1. ViewsOf(m, s) \subseteq Spaces \X (1 .. MaxRegions)
  BY DEF ViewsOf
<1> QED BY <1>1, FiniteFacts, FS_Subset, FS_CardinalityType

(* Two finite sets that agree but for one element. *)
LEMMA OneChange ==
  ASSUME NEW A, NEW B, NEW d, IsFiniteSet(A), IsFiniteSet(B), A \ {d} = B \ {d}
  PROVE  Cardinality(B) + One(d \in A) = Cardinality(A) + One(d \in B)
<1>0. Cardinality(A) \in Nat /\ Cardinality(B) \in Nat
  BY FS_CardinalityType
<1>1. CASE d \in A /\ d \notin B
  <2>1. B = A \ {d}
    BY <1>1
  <2>2. Cardinality(B) = Cardinality(A) - 1
    BY <1>1, <2>1, FS_RemoveElement
  <2> QED BY <1>0, <1>1, <2>2 DEF One
<1>2. CASE d \notin A /\ d \in B
  <2>1. A = B \ {d}
    BY <1>2
  <2>2. Cardinality(A) = Cardinality(B) - 1
    BY <1>2, <2>1, FS_RemoveElement
  <2> QED BY <1>0, <1>2, <2>2 DEF One
<1>3. CASE (d \in A <=> d \in B)
  <2>1. A = B
    BY <1>3
  <2> QED BY <1>0, <2>1 DEF One
<1> QED BY <1>1, <1>2, <1>3

(* A frame without references is in no table. *)
Unused(m, f) ==
  /\ PteUse(m, f) = {} /\ SectionUse(m, f) = {} /\ TableUse(m, f) = {} /\ RootUse(m, f) = {}
  /\ f \notin m.leaked

(* Natural numbers whose sum is zero are zero. *)
LEMMA ZeroSum ==
  ASSUME NEW a \in Nat, NEW b \in Nat, NEW c \in Nat, NEW d \in Nat, NEW e \in Nat, NEW g \in Nat,
         a + b + c + d + e + g = 0
  PROVE  a = 0 /\ b = 0 /\ c = 0 /\ d = 0 /\ e = 0 /\ g = 0
OBVIOUS

(* A frame that the bitmap calls free is in no table and no section. *)
LEMMA FreeIsUnused ==
  ASSUME NEW m, NEW extra, FramesOK(m, extra), NEW f \in Frames, f \notin m.used
  PROVE  /\ Unused(m, f) /\ extra[f] = 0
         /\ \A s \in Sections : f \notin SectionFrames(m, s)
<1>1. /\ m.refs[f] = UsesIn(m, f) + One(f \in m.leaked) + extra[f]
      /\ ~ (m.refs[f] > 0) /\ m.refs[f] \in Nat /\ extra[f] \in Nat
  BY DEF FramesOK, Counted, States, Extras
<1>2. One(f \in m.leaked) \in Nat /\ (f \in m.leaked => One(f \in m.leaked) = 1)
  BY DEF One
<1>3. /\ Cardinality(PteUse(m, f)) = 0 /\ Cardinality(SectionUse(m, f)) = 0
      /\ Cardinality(TableUse(m, f)) = 0 /\ Cardinality(RootUse(m, f)) = 0
      /\ One(f \in m.leaked) = 0 /\ extra[f] = 0
  <2> DEFINE a == Cardinality(PteUse(m, f))
             b == Cardinality(SectionUse(m, f))
             c == Cardinality(TableUse(m, f))
             d == Cardinality(RootUse(m, f))
             e == One(f \in m.leaked)
             g == extra[f]
  <2>1. a \in Nat /\ b \in Nat /\ c \in Nat /\ d \in Nat /\ e \in Nat /\ g \in Nat
    BY <1>1, <1>2, UseFinite
  <2>2. a + b + c + d + e + g = 0
    BY <1>1, <2>1 DEF UsesIn
  <2> HIDE DEF a, b, c, d, e, g
  <2>3. a = 0 /\ b = 0 /\ c = 0 /\ d = 0 /\ e = 0 /\ g = 0
    BY <2>1, <2>2, ZeroSum
  <2> QED BY <2>3 DEF a, b, c, d, e, g
<1>4. Unused(m, f)
  BY <1>2, <1>3, UseFinite, FS_EmptySet DEF Unused
<1>5. ASSUME NEW s \in Sections, f \in SectionFrames(m, s) PROVE FALSE
  <2>1. PICK i \in DOMAIN m.section[s].pages : f = m.section[s].pages[i]
    BY <1>5 DEF SectionFrames
  <2>2. m.section[s].pages \in Seq(Frames) /\ Len(m.section[s].pages) <= MaxSectionPages
    BY DEF FramesOK, SectionsHeld, States, SectionRecords
  <2>3. i \in 1 .. MaxSectionPages
    BY <2>1, <2>2, MmFacts
  <2>4. <<s, i>> \in SectionUse(m, f)
    BY <2>1, <2>3 DEF SectionUse
  <2> QED BY <1>4, <2>4 DEF Unused
<1> QED BY <1>3, <1>4, <1>5

(* All but the counts. *)
SameUses(m, x) ==
  /\ x.table = m.table /\ x.pte = m.pte /\ x.owner = m.owner /\ x.space = m.space
  /\ x.section = m.section /\ x.leaked = m.leaked /\ x.reached = m.reached

(* What the counts depend on: the tables, the sections and the spaces. *)
LEMMA SameUsesCount ==
  ASSUME NEW m, NEW x, SameUses(m, x)
  PROVE  /\ \A f : UsesIn(x, f) = UsesIn(m, f)
         /\ Exclusive(m) => Exclusive(x)
         /\ SectionsHeld(m) => SectionsHeld(x)
         /\ SpacesTidy(m) => SpacesTidy(x)
<1>1. \A f : /\ PteUse(x, f) = PteUse(m, f) /\ SectionUse(x, f) = SectionUse(m, f)
             /\ TableUse(x, f) = TableUse(m, f) /\ RootUse(x, f) = RootUse(m, f)
  BY DEF SameUses, PteUse, SectionUse, TableUse, RootUse
<1>2. \A s : SectionFrames(x, s) = SectionFrames(m, s) /\ ViewsOf(x, s) = ViewsOf(m, s)
  BY DEF SameUses, SectionFrames, ViewsOf
<1>3. \A f : UsesIn(x, f) = UsesIn(m, f)
  BY <1>1 DEF UsesIn
<1>4. Exclusive(m) => Exclusive(x)
  BY <1>1, <1>2 DEF Exclusive, SameUses
<1>5. SectionsHeld(m) => SectionsHeld(x)
  BY <1>2 DEF SectionsHeld, SameUses
<1>6. SpacesTidy(m) => SpacesTidy(x)
  BY DEF SpacesTidy, SameUses
<1> QED BY <1>3, <1>4, <1>5, <1>6

(* A change of anything else keeps the frames in order. *)
LEMMA FramesStay ==
  ASSUME NEW m, NEW extra, FramesOK(m, extra), NEW x \in States, SameUses(m, x),
         x.used = m.used, x.refs = m.refs
  PROVE  FramesOK(x, extra)
<1>1. Counted(x, extra)
  BY SameUsesCount DEF FramesOK, Counted, SameUses
<1> QED BY <1>1, SameUsesCount DEF FramesOK

(* Setting the status changes nothing else. *)
LEMMA OkEffect ==
  ASSUME NEW m \in States, NEW x, x = Ok(m) \/ x = Fail(m)
  PROVE  x \in States /\ SameUses(m, x) /\ x.used = m.used /\ x.refs = m.refs
         /\ x.nextScan = m.nextScan
BY DEF Ok, Fail, States, SameUses

(* The frames stay in order when the status is set. *)
LEMMA OkFrames ==
  ASSUME NEW m, NEW extra, FramesOK(m, extra)
  PROVE  FramesOK(Ok(m), extra) /\ FramesOK(Fail(m), extra) /\ Ok(m).ok /\ ~ Fail(m).ok
<1>1. m \in States
  BY DEF FramesOK
<1>2. Ok(m).ok = TRUE /\ Fail(m).ok = FALSE
  BY <1>1 DEF Ok, Fail, States
<1> QED BY <1>1, <1>2, OkEffect, FramesStay

(* MmAllocPage gives its caller the only reference to a free frame. *)
LEMMA AllocEffect ==
  ASSUME NEW m \in States, FreeFrames(m) # {}
  PROVE  /\ NextFit(m) \in Frames /\ NextFit(m) \notin m.used
         /\ MmAllocPage(m) \in States
         /\ SameUses(m, MmAllocPage(m)) /\ MmAllocPage(m).ok = TRUE
         /\ MmAllocPage(m).used = m.used \cup {NextFit(m)}
         /\ MmAllocPage(m).refs = [m.refs EXCEPT ![NextFit(m)] = 1]
<1> DEFINE g == NextFit(m)
<1>1. g \in Frames /\ g \notin m.used
  BY NextFitFree DEF FreeFrames
<1> HIDE DEF g
<1>2. PageAfter(g) \in Nat
  <2>1. g + 1 \in Nat
    BY <1>1, MmFacts
  <2> QED BY <2>1, MmFacts DEF PageAfter
<1>3. MmAllocPage(m) = [m EXCEPT !.used = @ \cup {g}, !.refs[g] = 1,
                                 !.nextScan = PageAfter(g), !.ok = TRUE]
  BY DEF MmAllocPage, g
<1> DEFINE x == [m EXCEPT !.used = @ \cup {g}, !.refs[g] = 1,
                          !.nextScan = PageAfter(g), !.ok = TRUE]
<1>4. /\ SameUses(m, x) /\ x.ok = TRUE /\ x.used = m.used \cup {g}
      /\ x.refs = [m.refs EXCEPT ![g] = 1]
  BY DEF States, SameUses
<1>5. x \in States
  <2>1. m.used \cup {g} \in SUBSET Frames /\ [m.refs EXCEPT ![g] = 1] \in [Frames -> Nat]
    BY <1>1 DEF States
  <2> QED BY <1>2, <2>1 DEF States
<1> HIDE DEF x
<1> QED BY <1>1, <1>3, <1>4, <1>5 DEF g, x

(* MmAllocPage returns a frame that nothing uses, with one reference that  *)
(* belongs to the caller.                                                  *)
LEMMA AllocFrames ==
  ASSUME NEW m, NEW extra, FramesOK(m, extra), FreeFrames(m) # {}
  PROVE  /\ FramesOK(MmAllocPage(m), [extra EXCEPT ![NextFit(m)] = 1])
         /\ NextFit(m) \in Frames /\ extra[NextFit(m)] = 0 /\ Unused(m, NextFit(m))
         /\ \A s \in Sections : NextFit(m) \notin SectionFrames(m, s)
<1> DEFINE g == NextFit(m)
           x == MmAllocPage(m)
           more == [extra EXCEPT ![g] = 1]
<1>1. /\ m \in States /\ g \in Frames /\ g \notin m.used /\ x \in States /\ SameUses(m, x)
      /\ x.used = m.used \cup {g} /\ x.refs = [m.refs EXCEPT ![g] = 1]
  BY AllocEffect DEF FramesOK
<1> HIDE DEF g, x
<1>2. Unused(m, g) /\ extra[g] = 0 /\ \A s \in Sections : g \notin SectionFrames(m, s)
  BY <1>1, FreeIsUnused
<1>3. more \in Extras /\ more[g] = 1 /\ \A f \in Frames : f # g => more[f] = extra[f]
  BY <1>1 DEF FramesOK, Extras
<1>4. UsesIn(m, g) = 0 /\ One(g \in m.leaked) = 0
  BY <1>2, FS_EmptySet DEF Unused, UsesIn, One
<1> HIDE DEF more
<1>5. ASSUME NEW f \in Frames
      PROVE  /\ x.refs[f] = UsesIn(x, f) + One(f \in x.leaked) + more[f]
             /\ f \in x.used <=> x.refs[f] > 0
  <2>1. UsesIn(x, f) = UsesIn(m, f) /\ x.leaked = m.leaked
    BY <1>1, SameUsesCount DEF SameUses
  <2>2. CASE f = g
    BY <1>1, <1>3, <1>4, <2>1, <2>2 DEF States
  <2>3. CASE f # g
    <3>1. x.refs[f] = m.refs[f] /\ (f \in x.used <=> f \in m.used)
      BY <1>1, <2>3 DEF States
    <3> QED BY <1>3, <2>1, <2>3, <3>1 DEF FramesOK, Counted
  <2> QED BY <2>2, <2>3
<1>6. Counted(x, more)
  BY <1>5 DEF Counted
<1>7. FramesOK(x, more)
  BY <1>1, <1>3, <1>6, SameUsesCount DEF FramesOK
<1> QED BY <1>1, <1>2, <1>7 DEF g, x, more

(* A reference taken and passed on. *)
LEMMA ExtraBack ==
  ASSUME NEW extra \in Extras, NEW g \in Frames, extra[g] = 0
  PROVE  /\ [extra EXCEPT ![g] = 1] \in Extras /\ [extra EXCEPT ![g] = 1][g] > 0
         /\ [[extra EXCEPT ![g] = 1] EXCEPT ![g] = @ - 1] = extra
<1> DEFINE more == [extra EXCEPT ![g] = 1]
           back == [more EXCEPT ![g] = @ - 1]
<1>1. more \in [Frames -> Nat] /\ more[g] = 1 /\ \A f \in Frames : f # g => more[f] = extra[f]
  BY DEF Extras
<1> HIDE DEF more
<1>2. back \in [Frames -> Int] /\ back[g] = 0 /\ \A f \in Frames : f # g => back[f] = more[f]
  BY <1>1
<1> HIDE DEF back
<1>3. \A f \in Frames : back[f] = extra[f]
  BY <1>1, <1>2
<1>4. extra = [f \in Frames |-> extra[f]] /\ back = [f \in Frames |-> back[f]]
  BY <1>2 DEF Extras
<1>5. back = extra
  BY <1>3, <1>4
<1> QED BY <1>1, <1>5 DEF more, back, Extras

(* The caller's reference to a frame becomes a leaf table's. *)
LEMMA TableTakes ==
  ASSUME NEW m, NEW extra, FramesOK(m, extra), NEW g \in Frames, extra[g] > 0,
         NEW t \in Tables, m.table[t] = NoFrame,
         \A s \in Sections : g \notin SectionFrames(m, s)
  PROVE  FramesOK([m EXCEPT !.table[t] = g], [extra EXCEPT ![g] = @ - 1])
<1> DEFINE x == [m EXCEPT !.table[t] = g]
           less == [extra EXCEPT ![g] = @ - 1]
<1>1. /\ m \in States /\ m.table \in [Tables -> Nat]
      /\ extra \in [Frames -> Nat]
  BY DEF FramesOK, States, Extras
<1>2. /\ x.table = [m.table EXCEPT ![t] = g] /\ x.pte = m.pte /\ x.space = m.space
      /\ x.section = m.section /\ x.leaked = m.leaked /\ x.used = m.used /\ x.refs = m.refs
  BY <1>1 DEF States
<1>3. x \in States
  <2>1. [m.table EXCEPT ![t] = g] \in [Tables -> Nat]
    BY <1>1, MmFacts
  <2> QED BY <1>1, <2>1 DEF States
<1>4. less \in Extras /\ \A f \in Frames : less[f] + One(f = g) = extra[f]
  BY <1>1 DEF Extras, One
<1> HIDE DEF x, less
<1>5. /\ \A f : PteUse(x, f) = PteUse(m, f) /\ SectionUse(x, f) = SectionUse(m, f)
                /\ RootUse(x, f) = RootUse(m, f)
      /\ \A s : SectionFrames(x, s) = SectionFrames(m, s) /\ ViewsOf(x, s) = ViewsOf(m, s)
  BY <1>2 DEF PteUse, SectionUse, RootUse, SectionFrames, ViewsOf
<1>6. ASSUME NEW f \in Frames
      PROVE  /\ Cardinality(TableUse(x, f)) = Cardinality(TableUse(m, f)) + One(f = g)
             /\ f # g => TableUse(x, f) = TableUse(m, f)
  <2>1. TableUse(m, f) \ {t} = TableUse(x, f) \ {t}
    BY <1>1, <1>2 DEF TableUse
  <2>2. t \notin TableUse(m, f) /\ (t \in TableUse(x, f) <=> f = g)
    BY <1>1, <1>2, MmFacts DEF TableUse
  <2>3. Cardinality(TableUse(x, f)) + One(t \in TableUse(m, f))
          = Cardinality(TableUse(m, f)) + One(t \in TableUse(x, f))
    BY <2>1, UseFinite, OneChange
  <2>4. One(t \in TableUse(m, f)) = 0 /\ One(t \in TableUse(x, f)) = One(f = g)
    BY <2>2 DEF One
  <2> QED BY <2>1, <2>2, <2>3, <2>4, UseFinite
<1>7. Counted(x, less)
  <2> SUFFICES ASSUME NEW f \in Frames
               PROVE  /\ x.refs[f] = UsesIn(x, f) + One(f \in x.leaked) + less[f]
                      /\ f \in x.used <=> x.refs[f] > 0
    BY DEF Counted
  <2>1. UsesIn(x, f) = UsesIn(m, f) + One(f = g) /\ UsesIn(m, f) \in Nat
    BY <1>5, <1>6, UseFinite DEF UsesIn, One
  <2>2. less[f] \in Nat /\ One(f = g) \in Nat /\ One(f \in m.leaked) \in Nat
    BY <1>4 DEF Extras, One
  <2> QED BY <1>2, <1>4, <2>1, <2>2 DEF FramesOK, Counted
<1>8. Exclusive(x)
  <2>1. \A s \in Sections : SectionFrames(m, s) \subseteq Frames
    BY <1>1 DEF SectionFrames, States, SectionRecords
  <2> QED BY <1>2, <1>5, <1>6, <2>1 DEF FramesOK, Exclusive
<1>9. SectionsHeld(x) /\ SpacesTidy(x)
  BY <1>2, <1>5 DEF FramesOK, SectionsHeld, SpacesTidy
<1> QED BY <1>3, <1>4, <1>7, <1>8, <1>9 DEF FramesOK, x, less

(* MmpWalkToPte with CreateMissing, whether or not it succeeds. *)
LEMMA WalkFrames ==
  ASSUME NEW m, NEW extra, FramesOK(m, extra), NEW v \in Pages
  PROVE  /\ FramesOK(MmpWalkToPte(m, v), extra)
         /\ MmpWalkToPte(m, v).pte = m.pte /\ MmpWalkToPte(m, v).owner = m.owner
         /\ MmpWalkToPte(m, v).space = m.space /\ MmpWalkToPte(m, v).section = m.section
         /\ MmpWalkToPte(m, v).leaked = m.leaked /\ MmpWalkToPte(m, v).reached = m.reached
<1> DEFINE t == v \div TableSpan
           x == MmpWalkToPte(m, v)
<1>1. m \in States /\ t \in Tables
  BY TableOfPage DEF FramesOK
<1> HIDE DEF t
<1>2. x = IF m.huge THEN Fail(m)
          ELSE IF m.table[t] # NoFrame THEN Ok(m)
          ELSE IF FreeFrames(m) = {} THEN Fail(m)
          ELSE [MmAllocPage(m) EXCEPT !.table[t] = NextFit(m)]
  BY DEF MmpWalkToPte, t
<1> HIDE DEF x
<1>3. CASE x = Ok(m) \/ x = Fail(m)
  <2>1. SameUses(m, x)
    BY <1>1, <1>3, OkEffect
  <2> QED BY <1>3, <2>1, OkFrames DEF x, SameUses
<1>4. CASE /\ m.table[t] = NoFrame /\ FreeFrames(m) # {}
           /\ x = [MmAllocPage(m) EXCEPT !.table[t] = NextFit(m)]
  <2> DEFINE y == MmAllocPage(m)
             g == NextFit(m)
             more == [extra EXCEPT ![g] = 1]
  <2>1. /\ FramesOK(y, more) /\ g \in Frames /\ extra[g] = 0
        /\ \A s \in Sections : g \notin SectionFrames(m, s)
    BY <1>4, AllocFrames
  <2>2. y \in States /\ SameUses(m, y)
    BY <1>1, <1>4, AllocEffect
  <2> HIDE DEF y, g
  <2>3. \A s \in Sections : g \notin SectionFrames(y, s)
    BY <2>1, <2>2 DEF SectionFrames, SameUses
  <2>4. /\ more[g] > 0 /\ [more EXCEPT ![g] = @ - 1] = extra
    BY <2>1, ExtraBack DEF FramesOK
  <2>5. y.table[t] = NoFrame
    BY <1>4, <2>2 DEF SameUses
  <2> HIDE DEF more
  <2>6. FramesOK([y EXCEPT !.table[t] = g], extra)
    BY <1>1, <2>1, <2>3, <2>4, <2>5, TableTakes
  <2>7. x = [y EXCEPT !.table[t] = g]
    BY <1>4 DEF y, g
  <2>8. /\ x.pte = y.pte /\ x.owner = y.owner /\ x.space = y.space /\ x.section = y.section
        /\ x.leaked = y.leaked /\ x.reached = y.reached
    BY <2>2, <2>7 DEF States
  <2> QED BY <2>2, <2>6, <2>7, <2>8 DEF SameUses, x
<1> QED BY <1>2, <1>3, <1>4

(* MmpReleasePage of a frame that has references. *)
LEMMA ReleaseEffect ==
  ASSUME NEW m \in States, NEW g \in Nat, g \in Frames => m.refs[g] > 0,
         \A f \in Frames : f \in m.used <=> m.refs[f] > 0
  PROVE  /\ MmpReleasePage(m, g) \in States /\ SameUses(m, MmpReleasePage(m, g))
         /\ MmpReleasePage(m, g).ok = m.ok
         /\ \A f \in Frames :
              /\ MmpReleasePage(m, g).refs[f] + One(f = g) = m.refs[f]
              /\ f \in MmpReleasePage(m, g).used <=> MmpReleasePage(m, g).refs[f] > 0
<1>0. m.refs \in [Frames -> Nat] /\ m.used \in SUBSET Frames
  BY DEF States
<1>1. CASE g \notin Frames
  BY <1>0, <1>1 DEF MmpReleasePage, SameUses, One
<1>2. CASE g \in Frames /\ m.refs[g] = 1
  <2> DEFINE x == [m EXCEPT !.used = @ \ {g}, !.refs[g] = 0]
  <2>1. MmpReleasePage(m, g) = x
    BY <1>0, <1>2 DEF MmpReleasePage, MmFreePage
  <2>2. /\ x.used = m.used \ {g} /\ x.refs = [m.refs EXCEPT ![g] = 0] /\ SameUses(m, x)
        /\ x.ok = m.ok
    BY DEF States, SameUses
  <2>3. m.used \ {g} \in SUBSET Frames /\ [m.refs EXCEPT ![g] = 0] \in [Frames -> Nat]
    BY <1>0
  <2>4. x \in States
    BY <2>3 DEF States
  <2> HIDE DEF x
  <2>5. \A f \in Frames : x.refs[f] + One(f = g) = m.refs[f] /\ (f \in x.used <=> x.refs[f] > 0)
    <3>1. x.refs[g] = 0 /\ g \notin x.used /\ One(g = g) = 1
      BY <1>0, <1>2, <2>2 DEF One
    <3>2. \A f \in Frames : f # g => x.refs[f] = m.refs[f] /\ m.refs[f] \in Nat /\ One(f = g) = 0
      BY <1>0, <2>2 DEF One
    <3>3. \A f \in Frames : f # g => (f \in x.used <=> f \in m.used)
      BY <2>2
    <3> QED BY <1>2, <3>1, <3>2, <3>3
  <2> QED BY <2>1, <2>2, <2>4, <2>5
<1>3. CASE g \in Frames /\ m.refs[g] > 1
  <2> DEFINE x == [m EXCEPT !.refs[g] = @ - 1]
  <2>1. MmpReleasePage(m, g) = x
    BY <1>0, <1>3 DEF MmpReleasePage
  <2>2. /\ x.used = m.used /\ x.refs = [m.refs EXCEPT ![g] = @ - 1] /\ SameUses(m, x)
        /\ x.ok = m.ok
    BY DEF States, SameUses
  <2>3. [m.refs EXCEPT ![g] = @ - 1] \in [Frames -> Nat]
    BY <1>0, <1>3
  <2>4. x \in States
    BY <2>3 DEF States
  <2> HIDE DEF x
  <2>5. \A f \in Frames : x.refs[f] + One(f = g) = m.refs[f] /\ (f \in x.used <=> x.refs[f] > 0)
    BY <1>0, <1>3, <2>2 DEF One
  <2> QED BY <2>1, <2>2, <2>4, <2>5
<1>4. g \in Frames => m.refs[g] = 1 \/ m.refs[g] > 1
  BY <1>0
<1> QED BY <1>1, <1>2, <1>3, <1>4

(* What MmAsMapPage does to the entry and to the counts. *)
Maps(m, x, a, v, f, bits) ==
  /\ x.pte = [m.pte EXCEPT ![v] = [frame |-> f, bits |-> bits]]
  /\ x.owner = [m.owner EXCEPT ![v] = a]
  /\ x.space = m.space /\ x.section = m.section /\ x.leaked = m.leaked /\ x.ok = TRUE
  /\ x.reached = m.reached \ {v}

(* MmAsMapPage either fails in MmpWalkToPte or hands one of the caller's   *)
(* references to the entry and releases the old frame.                     *)
LEMMA MapFrames ==
  ASSUME NEW m, NEW extra, FramesOK(m, extra), NEW f \in Frames, extra[f] > 0,
         NEW v \in Pages, v >= UserBase, NEW a \in Spaces, NEW bits \in SUBSET AccessBits,
         \A s \in Sections : f \in SectionFrames(m, s) => ViewsOf(m, s) # {}
  PROVE  \/ /\ MmAsMapPage(m, a, v, f, bits) = MmpWalkToPte(m, v)
            /\ ~ MmpWalkToPte(m, v).ok
         \/ /\ FramesOK(MmAsMapPage(m, a, v, f, bits), [extra EXCEPT ![f] = @ - 1])
            /\ Maps(m, MmAsMapPage(m, a, v, f, bits), a, v, f, bits)
<1> DEFINE w == MmpWalkToPte(m, v)
           old == w.pte[v].frame
           y == MmpReleasePage(w, old)
           e == [frame |-> f, bits |-> bits]
           x == [y EXCEPT !.pte[v] = e, !.owner[v] = a, !.reached = @ \ {v}]
           less == [extra EXCEPT ![f] = @ - 1]
<1>1. /\ FramesOK(w, extra) /\ w.pte = m.pte /\ w.owner = m.owner /\ w.space = m.space
      /\ w.section = m.section /\ w.leaked = m.leaked /\ w.reached = m.reached
  BY WalkFrames
<1> HIDE DEF w
<1>2. CASE ~ w.ok
  BY <1>2 DEF MmAsMapPage, w
<1>3. CASE w.ok
  <2>1. /\ w \in States /\ w.pte \in [Pages -> PteRecords] /\ w.owner \in [Pages -> Nat]
        /\ old \in Nat /\ extra \in [Frames -> Nat] /\ w.refs \in [Frames -> Nat] /\ w.ok = TRUE
    BY <1>1, <1>3 DEF FramesOK, States, PteRecords, Extras
  <2>2. old \in Frames => w.refs[old] > 0
    <3> SUFFICES ASSUME old \in Frames PROVE w.refs[old] > 0
      OBVIOUS
    <3>1. v \in PteUse(w, old)
      BY DEF PteUse
    <3> HIDE DEF old
    <3>2. Cardinality(PteUse(w, old)) > 0
      BY <3>1, UseFinite, FS_EmptySet
    <3>3. UsesIn(w, old) > 0 /\ UsesIn(w, old) \in Nat
      BY <3>2, UseFinite DEF UsesIn
    <3>4. One(old \in w.leaked) \in Nat /\ extra[old] \in Nat
      BY <2>1 DEF One
    <3> QED BY <1>1, <3>3, <3>4 DEF FramesOK, Counted
  <2>3. /\ y \in States /\ SameUses(w, y) /\ y.ok = TRUE
        /\ \A h \in Frames : /\ y.refs[h] + One(h = old) = w.refs[h]
                             /\ h \in y.used <=> y.refs[h] > 0
    <3>1. \A h \in Frames : h \in w.used <=> w.refs[h] > 0
      BY <1>1 DEF FramesOK, Counted
    <3> HIDE DEF old
    <3> QED BY <2>1, <2>2, <3>1, ReleaseEffect
  <2>4. MmAsMapPage(m, a, v, f, bits) = x
    BY <1>3 DEF MmAsMapPage, w
  <2> HIDE DEF y
  <2>5. /\ x.pte = [y.pte EXCEPT ![v] = e] /\ x.owner = [y.owner EXCEPT ![v] = a]
        /\ x.space = y.space /\ x.section = y.section /\ x.leaked = y.leaked /\ x.ok = y.ok
        /\ x.table = y.table /\ x.used = y.used /\ x.refs = y.refs
        /\ x.reached = y.reached \ {v}
    BY <2>3 DEF States
  <2>6. e \in PteRecords /\ e.frame = f /\ e.bits = bits
    BY MmFacts DEF PteRecords
  <2> HIDE DEF e
  <2>7. x \in States
    <3>1. y.pte \in [Pages -> PteRecords] /\ y.owner \in [Pages -> Nat]
      BY <2>1, <2>3 DEF SameUses
    <3>2. [y.pte EXCEPT ![v] = e] \in [Pages -> PteRecords]
      BY <2>6, <3>1
    <3>3. [y.owner EXCEPT ![v] = a] \in [Pages -> Nat]
      BY <3>1, MmFacts DEF Spaces
    <3>4. y.reached \ {v} \in SUBSET Pages
      BY <2>3 DEF States
    <3> QED BY <2>3, <3>2, <3>3, <3>4 DEF States
  <2> HIDE DEF x
  <2>8. /\ Maps(m, x, a, v, f, bits) /\ x.table = w.table /\ x.pte = [w.pte EXCEPT ![v] = e]
        /\ x.space = w.space /\ x.section = w.section /\ x.leaked = w.leaked
    BY <1>1, <2>3, <2>5 DEF Maps, SameUses, e
  <2>9. less \in Extras /\ \A h \in Frames : less[h] + One(h = f) = extra[h]
    BY <2>1 DEF Extras, One
  <2> HIDE DEF less
  <2>10. /\ \A h : /\ TableUse(x, h) = TableUse(w, h) /\ SectionUse(x, h) = SectionUse(w, h)
                   /\ RootUse(x, h) = RootUse(w, h)
         /\ \A s : SectionFrames(x, s) = SectionFrames(w, s) /\ ViewsOf(x, s) = ViewsOf(w, s)
    BY <2>8 DEF TableUse, SectionUse, RootUse, SectionFrames, ViewsOf
  <2>11. ASSUME NEW h \in Frames
         PROVE  /\ Cardinality(PteUse(x, h)) + One(h = old) = Cardinality(PteUse(w, h)) + One(h = f)
                /\ h # f => PteUse(x, h) \subseteq PteUse(w, h)
    <3>1. PteUse(w, h) \ {v} = PteUse(x, h) \ {v}
      BY <2>1, <2>8 DEF PteUse
    <3>2. (v \in PteUse(w, h) <=> h = old) /\ (v \in PteUse(x, h) <=> h = f)
      BY <2>1, <2>6, <2>8 DEF PteUse
    <3>3. Cardinality(PteUse(x, h)) + One(v \in PteUse(w, h))
            = Cardinality(PteUse(w, h)) + One(v \in PteUse(x, h))
      BY <3>1, UseFinite, OneChange
    <3>4. One(v \in PteUse(w, h)) = One(h = old) /\ One(v \in PteUse(x, h)) = One(h = f)
      BY <3>2 DEF One
    <3> QED BY <3>1, <3>2, <3>3, <3>4
  <2> HIDE DEF old
  <2>12. Counted(x, less)
    <3> SUFFICES ASSUME NEW h \in Frames
                 PROVE  /\ x.refs[h] = UsesIn(x, h) + One(h \in x.leaked) + less[h]
                        /\ h \in x.used <=> x.refs[h] > 0
      BY DEF Counted
    <3>1. /\ UsesIn(x, h) + One(h = old) = UsesIn(w, h) + One(h = f)
          /\ UsesIn(w, h) \in Nat /\ UsesIn(x, h) \in Nat
      BY <2>10, <2>11, UseFinite DEF UsesIn, One
    <3>2. /\ less[h] \in Nat /\ One(h = f) \in Nat /\ One(h = old) \in Nat
          /\ One(h \in w.leaked) \in Nat /\ y.refs[h] \in Nat
      BY <2>3, <2>9 DEF Extras, One, States
    <3>3. w.refs[h] = UsesIn(w, h) + One(h \in w.leaked) + extra[h]
      BY <1>1 DEF FramesOK, Counted
    <3>4. y.refs[h] + One(h = old) = w.refs[h] /\ less[h] + One(h = f) = extra[h]
      BY <2>3, <2>9
    <3>5. y.refs[h] = UsesIn(x, h) + One(h \in w.leaked) + less[h]
      BY <3>1, <3>2, <3>3, <3>4
    <3> QED BY <2>3, <2>5, <2>8, <3>5
  <2>13. Exclusive(x)
    <3>1. \A s \in Sections : SectionFrames(w, s) \subseteq Frames
      BY <2>1 DEF SectionFrames, States, SectionRecords
    <3>2. \A s \in Sections : f \in SectionFrames(w, s) => ViewsOf(w, s) # {}
      BY <1>1 DEF SectionFrames, ViewsOf
    <3> QED BY <1>1, <2>8, <2>10, <2>11, <3>1, <3>2 DEF FramesOK, Exclusive
  <2>14. SectionsHeld(x) /\ SpacesTidy(x)
    BY <1>1, <2>8, <2>10 DEF FramesOK, SectionsHeld, SpacesTidy
  <2>15. FramesOK(x, less)
    BY <2>7, <2>9, <2>12, <2>13, <2>14 DEF FramesOK
  <2> QED BY <2>4, <2>8, <2>15 DEF less
<1> QED BY <1>2, <1>3

-----------------------------------------------------------------------------
(***************************************************************************)
(* The routines that map anonymous pages.                                  *)
(***************************************************************************)
(* The caller loses its reference to a frame. *)
LEMMA FrameLost ==
  ASSUME NEW m, NEW extra, FramesOK(m, extra), NEW g \in Frames, extra[g] > 0,
         g \notin m.leaked, \A s \in Sections : g \notin SectionFrames(m, s)
  PROVE  FramesOK([m EXCEPT !.leaked = @ \cup {g}], [extra EXCEPT ![g] = @ - 1])
<1> DEFINE x == [m EXCEPT !.leaked = @ \cup {g}]
           less == [extra EXCEPT ![g] = @ - 1]
<1>1. m \in States /\ extra \in [Frames -> Nat] /\ m.leaked \in SUBSET Frames
  BY DEF FramesOK, States, Extras
<1>2. /\ x.table = m.table /\ x.pte = m.pte /\ x.space = m.space
      /\ x.section = m.section /\ x.leaked = m.leaked \cup {g} /\ x.used = m.used /\ x.refs = m.refs
  BY <1>1 DEF States
<1>3. x \in States
  <2>1. m.leaked \cup {g} \in SUBSET Frames
    BY <1>1
  <2> QED BY <1>1, <2>1 DEF States
<1>4. less \in Extras /\ \A f \in Frames : less[f] + One(f = g) = extra[f]
  BY <1>1 DEF Extras, One
<1> HIDE DEF x, less
<1>5. /\ \A f : /\ PteUse(x, f) = PteUse(m, f) /\ SectionUse(x, f) = SectionUse(m, f)
                /\ RootUse(x, f) = RootUse(m, f) /\ TableUse(x, f) = TableUse(m, f)
      /\ \A s : SectionFrames(x, s) = SectionFrames(m, s) /\ ViewsOf(x, s) = ViewsOf(m, s)
  BY <1>2 DEF PteUse, SectionUse, RootUse, TableUse, SectionFrames, ViewsOf
<1>6. Counted(x, less)
  <2> SUFFICES ASSUME NEW f \in Frames
               PROVE  /\ x.refs[f] = UsesIn(x, f) + One(f \in x.leaked) + less[f]
                      /\ f \in x.used <=> x.refs[f] > 0
    BY DEF Counted
  <2>1. UsesIn(x, f) = UsesIn(m, f) /\ UsesIn(m, f) \in Nat
    BY <1>5, UseFinite DEF UsesIn
  <2>2. less[f] \in Nat /\ One(f \in x.leaked) = One(f \in m.leaked) + One(f = g)
    BY <1>2, <1>4 DEF Extras, One
  <2>3. One(f = g) \in Nat /\ One(f \in m.leaked) \in Nat
    BY DEF One
  <2>4. /\ m.refs[f] = UsesIn(m, f) + One(f \in m.leaked) + extra[f]
        /\ f \in m.used <=> m.refs[f] > 0
    BY DEF FramesOK, Counted
  <2>5. extra[f] = less[f] + One(f = g)
    BY <1>4
  <2>6. m.refs[f] = UsesIn(m, f) + (One(f \in m.leaked) + One(f = g)) + less[f]
    BY <2>1, <2>2, <2>3, <2>4, <2>5
  <2> QED BY <1>2, <2>1, <2>2, <2>4, <2>6
<1>7. Exclusive(x)
  BY <1>2, <1>5 DEF FramesOK, Exclusive
<1>8. SectionsHeld(x) /\ SpacesTidy(x)
  BY <1>2, <1>5 DEF FramesOK, SectionsHeld, SpacesTidy
<1> QED BY <1>3, <1>4, <1>6, <1>7, <1>8 DEF FramesOK, x, less

(* What no failure of a mapping changes, and one page that was wired. *)
SameMaps(m, x) ==
  /\ x.pte = m.pte /\ x.owner = m.owner /\ x.space = m.space /\ x.section = m.section
  /\ x.reached = m.reached
Wires(m, x, a, v, bits) ==
  \E f \in Frames :
    /\ x.pte = [m.pte EXCEPT ![v] = [frame |-> f, bits |-> bits]]
    /\ x.owner = [m.owner EXCEPT ![v] = a]
    /\ x.space = m.space /\ x.section = m.section /\ x.reached = m.reached \ {v}

(* Between two calls no routine holds a reference. *)
LEMMA NoExtraTyped == NoExtra \in Extras /\ \A f \in Frames : NoExtra[f] = 0
BY DEF NoExtra, Extras

(* A wiring that fails maps nothing: the frame it got is leaked. *)
LEMMA WirePageFails ==
  ASSUME NEW m, FramesOK(m, NoExtra), NEW v \in Pages, NEW a, NEW bits,
         NEW x, x = WirePage(m, a, v, bits), ~ x.ok
  PROVE  FramesOK(x, NoExtra) /\ SameMaps(m, x)
<1> DEFINE f == NextFit(m)
           y == MmAllocPage(m)
           w == MmpWalkToPte(y, v)
           p == MmAsMapPage(y, a, v, f, bits)
           more == [NoExtra EXCEPT ![f] = 1]
<1>0. m \in States
  BY DEF FramesOK
<1>1. CASE FreeFrames(m) = {}
  <2>1. x = Fail(m)
    BY <1>1 DEF WirePage
  <2>2. SameUses(m, x) /\ FramesOK(x, NoExtra)
    BY <1>0, <2>1, OkFrames, OkEffect
  <2> QED BY <2>2 DEF SameMaps, SameUses
<1>2. CASE FreeFrames(m) # {}
  <2>1. x = IF p.ok THEN p ELSE [p EXCEPT !.leaked = @ \cup {f}]
    BY <1>2 DEF WirePage
  <2>2. /\ FramesOK(y, more) /\ f \in Frames /\ NoExtra[f] = 0 /\ Unused(m, f)
        /\ \A s \in Sections : f \notin SectionFrames(m, s)
    BY <1>2, AllocFrames
  <2>3. SameUses(m, y)
    BY <1>0, <1>2, AllocEffect
  <2>4. more[f] > 0 /\ [more EXCEPT ![f] = @ - 1] = NoExtra
    BY <2>2, NoExtraTyped, ExtraBack
  <2> HIDE DEF y, f, more
  <2>5. /\ FramesOK(w, more) /\ w.pte = y.pte /\ w.owner = y.owner /\ w.space = y.space
        /\ w.section = y.section /\ w.leaked = y.leaked /\ w.reached = y.reached
    BY <2>2, WalkFrames
  <2>6. ~ p.ok
    BY <2>1
  <2> HIDE DEF w
  <2>7. p = w
    <3>1. CASE ~ w.ok
      BY <3>1 DEF MmAsMapPage, w
    <3>2. CASE w.ok
      <4>1. w \in States /\ w.ok = TRUE
        BY <2>5, <3>2 DEF FramesOK, States
      <4>2. PICK z : z = MmpReleasePage(w, w.pte[v].frame)
        OBVIOUS
      <4>3. p = [z EXCEPT !.pte[v] = [frame |-> f, bits |-> bits], !.owner[v] = a,
                          !.reached = @ \ {v}]
        BY <3>2, <4>2 DEF MmAsMapPage, w
      <4>4. "ok" \in DOMAIN z /\ z.ok = TRUE
        BY <4>1, <4>2 DEF MmpReleasePage, MmFreePage, States
      <4>5. p.ok = TRUE
        BY <4>3, <4>4
      <4> QED BY <2>6, <4>5
    <3> QED BY <3>1, <3>2
  <2>8. x = [w EXCEPT !.leaked = @ \cup {f}]
    BY <2>1, <2>6, <2>7
  <2>9. f \notin w.leaked /\ \A s \in Sections : f \notin SectionFrames(w, s)
    BY <2>2, <2>3, <2>5 DEF Unused, SameUses, SectionFrames
  <2>10. FramesOK(x, NoExtra)
    BY <2>2, <2>4, <2>5, <2>8, <2>9, FrameLost
  <2>11. /\ x.pte = w.pte /\ x.owner = w.owner /\ x.space = w.space /\ x.section = w.section
         /\ x.reached = w.reached
    BY <2>5, <2>8 DEF FramesOK, States
  <2> QED BY <2>3, <2>5, <2>10, <2>11 DEF SameMaps, SameUses
<1> QED BY <1>1, <1>2

(* Wiring one page leaves the counts exact. *)
LEMMA WirePageFrames ==
  ASSUME NEW m, FramesOK(m, NoExtra), NEW v \in Pages, v >= UserBase, NEW a \in Spaces,
         NEW bits \in SUBSET AccessBits, NEW x, x = WirePage(m, a, v, bits)
  PROVE  /\ FramesOK(x, NoExtra)
         /\ (~ x.ok /\ SameMaps(m, x)) \/ (x.ok /\ Wires(m, x, a, v, bits))
<1> DEFINE f == NextFit(m)
           y == MmAllocPage(m)
           p == MmAsMapPage(y, a, v, f, bits)
           more == [NoExtra EXCEPT ![f] = 1]
<1>0. m \in States
  BY DEF FramesOK
<1>1. CASE ~ x.ok
  BY <1>1, WirePageFails
<1>2. CASE x.ok
  <2>0. FreeFrames(m) # {}
    <3>1. Fail(m).ok = FALSE
      BY <1>0 DEF Fail, States
    <3> QED BY <1>2, <3>1 DEF WirePage
  <2>1. x = IF p.ok THEN p ELSE [p EXCEPT !.leaked = @ \cup {f}]
    BY <2>0 DEF WirePage
  <2>2. /\ FramesOK(y, more) /\ f \in Frames /\ NoExtra[f] = 0
        /\ \A s \in Sections : f \notin SectionFrames(m, s)
    BY <2>0, AllocFrames
  <2>3. SameUses(m, y)
    BY <1>0, <2>0, AllocEffect
  <2>4. more[f] > 0 /\ [more EXCEPT ![f] = @ - 1] = NoExtra
    BY <2>2, NoExtraTyped, ExtraBack
  <2> HIDE DEF y, f, more
  <2>5. \A s \in Sections : f \notin SectionFrames(y, s)
    BY <2>2, <2>3 DEF SectionFrames, SameUses
  <2>6. \/ p = MmpWalkToPte(y, v) /\ ~ MmpWalkToPte(y, v).ok
        \/ FramesOK(p, NoExtra) /\ Maps(y, p, a, v, f, bits)
    BY <2>2, <2>4, <2>5, MapFrames
  <2>7. CASE p = MmpWalkToPte(y, v) /\ ~ MmpWalkToPte(y, v).ok
    <3>1. p \in States /\ ~ p.ok
      BY <2>2, <2>7, WalkFrames DEF FramesOK
    <3> HIDE DEF p
    <3>2. x.ok = p.ok
      BY <2>1, <3>1 DEF States
    <3> QED BY <1>2, <3>1, <3>2
  <2>8. CASE FramesOK(p, NoExtra) /\ Maps(y, p, a, v, f, bits)
    <3>1. p.ok /\ x = p
      BY <2>1, <2>8 DEF Maps
    <3>2. Wires(m, x, a, v, bits)
      BY <2>2, <2>3, <2>8, <3>1 DEF Wires, Maps, SameUses
    <3> QED BY <1>2, <2>8, <3>1, <3>2
  <2> QED BY <2>6, <2>7, <2>8
<1> QED BY <1>1, <1>2

(* What protecting pages may change: the rights of pages in the image, and *)
(* of pages that are then reached.                                         *)
Protects(m, x, image) ==
  /\ x.owner = m.owner /\ x.space = m.space /\ x.section = m.section
  /\ m.reached \subseteq x.reached
  /\ \A u \in Pages : /\ x.pte[u].frame = m.pte[u].frame
                      /\ x.pte[u].bits = m.pte[u].bits \/ u \in image \/ u \in x.reached

(* MmAsProtectPage *)
LEMMA ProtectFrames ==
  ASSUME NEW m, FramesOK(m, NoExtra), NEW image, NEW v \in Pages, NEW bits \in SUBSET AccessBits,
         NEW x, x = MmAsProtectPage(m, image, v, bits)
  PROVE  FramesOK(x, NoExtra) /\ Protects(m, x, image)
<1>0. m \in States /\ m.pte \in [Pages -> PteRecords] /\ m.reached \in SUBSET Pages
  BY DEF FramesOK, States
<1>1. CASE x = Fail(m)
  <2>1. SameUses(m, x)
    BY <1>0, <1>1, OkEffect
  <2> QED BY <1>1, <2>1, OkFrames DEF SameUses, Protects
<1>2. CASE x = [m EXCEPT !.pte[v].bits = bits, !.reached = @ \cup ({v} \ image), !.ok = TRUE]
  <2> DEFINE e == [m.pte[v] EXCEPT !.bits = bits]
  <2>1. m.pte[v] \in PteRecords
    BY <1>0
  <2>2. e \in PteRecords /\ e.frame = m.pte[v].frame /\ e.bits = bits
    BY <2>1 DEF PteRecords
  <2>3. /\ x.pte = [m.pte EXCEPT ![v] = e] /\ x.owner = m.owner /\ x.space = m.space
        /\ x.section = m.section /\ x.table = m.table /\ x.leaked = m.leaked
        /\ x.used = m.used /\ x.refs = m.refs /\ x.reached = m.reached \cup ({v} \ image)
    BY <1>0, <1>2 DEF States
  <2>4. x \in States
    <3>1. [m.pte EXCEPT ![v] = e] \in [Pages -> PteRecords]
      BY <1>0, <2>2
    <3>2. m.reached \cup ({v} \ image) \in SUBSET Pages
      BY <1>0
    <3> QED BY <1>0, <1>2, <3>1, <3>2 DEF States
  <2> HIDE DEF e
  <2>5. \A u \in Pages : /\ x.pte[u].frame = m.pte[u].frame
                         /\ x.pte[u].bits = m.pte[u].bits \/ u = v
    BY <1>0, <2>2, <2>3
  <2>6. /\ \A f : /\ PteUse(x, f) = PteUse(m, f) /\ SectionUse(x, f) = SectionUse(m, f)
                  /\ RootUse(x, f) = RootUse(m, f) /\ TableUse(x, f) = TableUse(m, f)
        /\ \A s : SectionFrames(x, s) = SectionFrames(m, s) /\ ViewsOf(x, s) = ViewsOf(m, s)
    BY <2>3, <2>5 DEF PteUse, SectionUse, RootUse, TableUse, SectionFrames, ViewsOf
  <2>7. Counted(x, NoExtra)
    BY <2>3, <2>6 DEF FramesOK, Counted, UsesIn
  <2>8. Exclusive(x) /\ SectionsHeld(x) /\ SpacesTidy(x)
    BY <2>3, <2>6 DEF FramesOK, Exclusive, SectionsHeld, SpacesTidy
  <2>9. Protects(m, x, image)
    BY <2>3, <2>5 DEF Protects
  <2> QED BY <2>4, <2>7, <2>8, <2>9, NoExtraTyped DEF FramesOK
<1> QED BY <1>1, <1>2 DEF MmAsProtectPage

SpaceAdded(m, x, a) ==
  \E f \in Frames :
    x.space = [m.space EXCEPT ![a] = [NoSpace EXCEPT !.inUse = TRUE, !.root = f]]

(* MmCreateAddressSpace in a slot that is free. *)
LEMMA SpaceFrames ==
  ASSUME NEW m, FramesOK(m, NoExtra), NEW a \in Spaces, ~ m.space[a].inUse,
         NEW x, x = MmCreateAddressSpace(m, a)
  PROVE  /\ FramesOK(x, NoExtra)
         /\ x.pte = m.pte /\ x.owner = m.owner /\ x.section = m.section
         /\ x.reached = m.reached
         /\ (~ x.ok /\ x.space = m.space) \/ (x.ok /\ SpaceAdded(m, x, a))
<1>0. m \in States /\ m.space \in [Spaces -> SpaceRecords]
  BY DEF FramesOK, States
<1>1. CASE FreeFrames(m) = {}
  <2>1. x = Fail(m)
    BY <1>1 DEF MmCreateAddressSpace
  <2>2. SameUses(m, x) /\ FramesOK(x, NoExtra) /\ ~ x.ok
    BY <1>0, <2>1, OkFrames, OkEffect
  <2> QED BY <2>2 DEF SameUses
<1>2. CASE FreeFrames(m) # {}
  <2> DEFINE g == NextFit(m)
             y == MmAllocPage(m)
             more == [NoExtra EXCEPT ![g] = 1]
             new == [NoSpace EXCEPT !.inUse = TRUE, !.root = g]
  <2>1. x = [y EXCEPT !.space[a] = new]
    BY <1>2 DEF MmCreateAddressSpace
  <2>2. /\ FramesOK(y, more) /\ g \in Frames /\ NoExtra[g] = 0 /\ Unused(m, g)
        /\ \A s \in Sections : g \notin SectionFrames(m, s)
    BY <1>2, AllocFrames
  <2>3. SameUses(m, y) /\ y \in States /\ y.ok = TRUE
    BY <1>0, <1>2, AllocEffect
  <2>4. \A f \in Frames : more[f] = One(f = g)
    BY <2>2 DEF NoExtra, One
  <2> HIDE DEF y, g, more
  <2>5. /\ new.inUse = TRUE /\ new.root = g /\ new.regions = <<>> /\ new \in SpaceRecords
    <3>1. g \in Nat
      BY <2>2, MmFacts
    <3> QED BY <3>1, EmptyRecords DEF SpaceRecords
  <2>n. m.space[a] = NoSpace /\ m.space[a].regions = <<>>
    <3>1. m.space[a] = NoSpace
      BY DEF FramesOK, SpacesTidy
    <3> QED BY <3>1, EmptyRecords
  <2>w. \E f \in Frames :
          [m.space EXCEPT ![a] = new] = [m.space EXCEPT ![a] = [NoSpace EXCEPT !.inUse = TRUE, !.root = f]]
    BY <2>2
  <2> HIDE DEF new
  <2>6. /\ x.space = [m.space EXCEPT ![a] = new] /\ x.pte = m.pte /\ x.owner = m.owner
        /\ x.section = m.section /\ x.table = m.table /\ x.leaked = m.leaked
        /\ x.used = y.used /\ x.refs = y.refs /\ x.ok = TRUE /\ x.reached = m.reached
    BY <2>1, <2>3 DEF States, SameUses
  <2>s. SpaceAdded(m, x, a)
    BY <2>6, <2>w DEF SpaceAdded
  <2>7. x \in States
    <3>1. [m.space EXCEPT ![a] = new] \in [Spaces -> SpaceRecords]
      BY <1>0, <2>5
    <3> QED BY <2>1, <2>3, <3>1 DEF States, SameUses
  <2>8. /\ \A f : /\ PteUse(x, f) = PteUse(m, f) /\ SectionUse(x, f) = SectionUse(m, f)
                  /\ TableUse(x, f) = TableUse(m, f)
        /\ \A s : SectionFrames(x, s) = SectionFrames(m, s)
    BY <2>6 DEF PteUse, SectionUse, TableUse, SectionFrames
  <2>9. \A b \in Spaces : x.space[b].regions = m.space[b].regions
    BY <1>0, <2>5, <2>6, <2>n
  <2>10. \A s : ViewsOf(x, s) = ViewsOf(m, s)
    BY <2>9 DEF ViewsOf
  <2>11. ASSUME NEW f \in Frames
         PROVE  /\ Cardinality(RootUse(x, f)) = Cardinality(RootUse(m, f)) + One(f = g)
                /\ f # g => RootUse(x, f) = RootUse(m, f)
    <3>1. RootUse(m, f) \ {a} = RootUse(x, f) \ {a}
      BY <1>0, <2>6 DEF RootUse
    <3>2. a \notin RootUse(m, f) /\ (a \in RootUse(x, f) <=> f = g)
      BY <1>0, <2>5, <2>6 DEF RootUse
    <3>3. Cardinality(RootUse(x, f)) + One(a \in RootUse(m, f))
            = Cardinality(RootUse(m, f)) + One(a \in RootUse(x, f))
      BY <3>1, UseFinite, OneChange
    <3>4. One(a \in RootUse(m, f)) = 0 /\ One(a \in RootUse(x, f)) = One(f = g)
      BY <3>2 DEF One
    <3> QED BY <3>1, <3>2, <3>3, <3>4, UseFinite
  <2>12. Counted(x, NoExtra)
    <3> SUFFICES ASSUME NEW f \in Frames
                 PROVE  /\ x.refs[f] = UsesIn(x, f) + One(f \in x.leaked) + NoExtra[f]
                        /\ f \in x.used <=> x.refs[f] > 0
      BY DEF Counted
    <3>1. UsesIn(x, f) = UsesIn(m, f) + One(f = g) /\ UsesIn(m, f) \in Nat
      BY <2>8, <2>11, UseFinite DEF UsesIn, One
    <3>2. /\ y.refs[f] = UsesIn(y, f) + One(f \in y.leaked) + more[f]
          /\ f \in y.used <=> y.refs[f] > 0
      BY <2>2 DEF FramesOK, Counted
    <3>3. UsesIn(y, f) = UsesIn(m, f) /\ y.leaked = m.leaked
      BY <2>3, SameUsesCount DEF SameUses
    <3>4. One(f = g) \in Nat /\ One(f \in m.leaked) \in Nat
      BY DEF One
    <3> QED BY <2>4, <2>6, <3>1, <3>2, <3>3, <3>4, NoExtraTyped
  <2>13. Exclusive(x)
    <3>1. \A s \in Sections : SectionFrames(m, s) \subseteq Frames
      BY <1>0 DEF SectionFrames, States, SectionRecords
    <3> QED BY <2>2, <2>6, <2>8, <2>10, <2>11, <3>1 DEF FramesOK, Exclusive
  <2>14. SectionsHeld(x)
    BY <2>6, <2>10 DEF FramesOK, SectionsHeld
  <2>15. SpacesTidy(x)
    BY <1>0, <2>5, <2>6, <2>9 DEF FramesOK, SpacesTidy
  <2> QED BY <2>6, <2>7, <2>12, <2>13, <2>14, <2>15, <2>s, NoExtraTyped DEF FramesOK
<1> QED BY <1>1, <1>2

(* Appending to a sequence adds one index and keeps the others. *)
LEMMA AppendFacts ==
  ASSUME NEW S, NEW q \in Seq(S), NEW e \in S
  PROVE  /\ Append(q, e) \in Seq(S) /\ Len(Append(q, e)) = Len(q) + 1 /\ Len(q) \in Nat
         /\ Append(q, e)[Len(q) + 1] = e /\ Len(q) + 1 \in DOMAIN Append(q, e)
         /\ \A i \in DOMAIN q : i \in DOMAIN Append(q, e) /\ Append(q, e)[i] = q[i]
         /\ \A i \in DOMAIN Append(q, e) : i \in DOMAIN q \/ i = Len(q) + 1
         /\ Len(q) + 1 \notin DOMAIN q
OBVIOUS

(* What AddRegion changes. *)
NewRegion(m, a, n, kind, bits, sec) ==
  [base |-> m.space[a].nextUserBase, size |-> n, kind |-> kind, bits |-> bits, section |-> sec]
Extends(m, x, a, n, kind, bits, sec) ==
  /\ x.space[a].nextUserBase = m.space[a].nextUserBase + n
  /\ x.space[a].regions = Append(m.space[a].regions, NewRegion(m, a, n, kind, bits, sec))
  /\ x.space[a].inUse = m.space[a].inUse /\ x.space[a].runs = m.space[a].runs
  /\ \A b \in Spaces : b # a => x.space[b] = m.space[b]
  /\ x.pte = m.pte /\ x.owner = m.owner /\ x.section = m.section /\ x.ok = TRUE
  /\ x.reached = m.reached

(* AddRegion changes the region list and nextUserBase, and no frame. *)
LEMMA AddRegionEffect ==
  ASSUME NEW m \in States, NEW a \in Spaces, NEW n \in Nat, NEW kind \in RegionKinds,
         NEW bits \in SUBSET AccessBits, NEW sec \in Nat,
         NEW x, x = AddRegion(m, a, n, kind, bits, sec)
  PROVE  /\ x \in States /\ Extends(m, x, a, n, kind, bits, sec)
         /\ x.used = m.used /\ x.refs = m.refs /\ x.table = m.table /\ x.leaked = m.leaked
         /\ x.space[a].root = m.space[a].root
<1> DEFINE s == m.space[a]
           r == NewRegion(m, a, n, kind, bits, sec)
           t == [s EXCEPT !.nextUserBase = s.nextUserBase + n, !.regions = Append(@, r)]
<1>1. m.space \in [Spaces -> SpaceRecords] /\ s \in SpaceRecords
  BY DEF States
<1>2. r \in RegionRecords
  BY <1>1 DEF NewRegion, RegionRecords, SpaceRecords
<1> HIDE DEF r
<1>3. s.regions \in Seq(RegionRecords) /\ s.nextUserBase \in Nat
  BY <1>1 DEF SpaceRecords
<1>4. Append(s.regions, r) \in Seq(RegionRecords) /\ s.nextUserBase + n \in Nat
  BY <1>2, <1>3
<1>5. /\ t \in SpaceRecords /\ t.nextUserBase = s.nextUserBase + n
      /\ t.regions = Append(s.regions, r) /\ t.inUse = s.inUse /\ t.runs = s.runs /\ t.root = s.root
  BY <1>1, <1>4 DEF SpaceRecords
<1>6. x = [m EXCEPT !.space = [m.space EXCEPT ![a] = t], !.ok = TRUE]
  <2>1. x = [m EXCEPT !.space[a].nextUserBase = s.nextUserBase + n,
                      !.space[a].regions = Append(@, r), !.ok = TRUE]
    BY DEF AddRegion, r, NewRegion
  <2> QED BY <1>1, <2>1 DEF States, SpaceRecords
<1> HIDE DEF t
<1>7. /\ x.space = [m.space EXCEPT ![a] = t] /\ x.pte = m.pte /\ x.owner = m.owner
      /\ x.section = m.section /\ x.table = m.table /\ x.leaked = m.leaked
      /\ x.used = m.used /\ x.refs = m.refs /\ x.ok = TRUE /\ x.reached = m.reached
  BY <1>6 DEF States
<1>8. x \in States
  <2>1. [m.space EXCEPT ![a] = t] \in [Spaces -> SpaceRecords]
    BY <1>1, <1>5
  <2> QED BY <1>6, <2>1 DEF States
<1>9. x.space[a] = t /\ \A b \in Spaces : b # a => x.space[b] = m.space[b]
  BY <1>1, <1>7
<1> QED BY <1>5, <1>7, <1>8, <1>9 DEF Extends, r

(* A region may be added if its section has a reference for the view. *)
LEMMA AddRegionFrames ==
  ASSUME NEW m, FramesOK(m, NoExtra), NEW a \in Spaces, m.space[a].inUse,
         Len(m.space[a].regions) < MaxRegions,
         NEW n \in Nat, NEW kind \in RegionKinds, NEW bits \in SUBSET AccessBits, NEW sec \in Nat,
         sec \in Sections => m.section[sec].refs >= One(m.section[sec].rights # {})
                                                    + Cardinality(ViewsOf(m, sec)) + 1,
         NEW x, x = AddRegion(m, a, n, kind, bits, sec)
  PROVE  FramesOK(x, NoExtra) /\ Extends(m, x, a, n, kind, bits, sec)
<1> DEFINE d == <<a, Len(m.space[a].regions) + 1>>
           r == NewRegion(m, a, n, kind, bits, sec)
<1>1. m \in States
  BY DEF FramesOK
<1>2. /\ x \in States /\ Extends(m, x, a, n, kind, bits, sec)
      /\ x.used = m.used /\ x.refs = m.refs /\ x.table = m.table /\ x.leaked = m.leaked
      /\ x.space[a].root = m.space[a].root
  BY <1>1, AddRegionEffect
<1>3. /\ \A f : /\ PteUse(x, f) = PteUse(m, f) /\ SectionUse(x, f) = SectionUse(m, f)
                /\ RootUse(x, f) = RootUse(m, f) /\ TableUse(x, f) = TableUse(m, f)
      /\ \A s : SectionFrames(x, s) = SectionFrames(m, s)
  <2>1. \A b \in Spaces : x.space[b].inUse = m.space[b].inUse /\ x.space[b].root = m.space[b].root
    BY <1>2 DEF Extends
  <2> QED BY <1>2, <2>1 DEF PteUse, SectionUse, RootUse, TableUse, SectionFrames, Extends
<1>4. Counted(x, NoExtra)
  BY <1>2, <1>3 DEF FramesOK, Counted, UsesIn
<1>5. r.section = sec /\ m.space[a].regions \in Seq(RegionRecords) /\ r \in RegionRecords
  BY <1>1 DEF NewRegion, States, SpaceRecords, RegionRecords
<1> HIDE DEF r
<1>a. x.space[a].regions = Append(m.space[a].regions, r)
  BY <1>2 DEF Extends, r
<1>6. /\ x.space[a].regions = Append(m.space[a].regions, r)
      /\ Len(x.space[a].regions) = Len(m.space[a].regions) + 1
      /\ x.space[a].regions[Len(m.space[a].regions) + 1] = r
      /\ \A i \in DOMAIN m.space[a].regions :
           i \in DOMAIN x.space[a].regions /\ x.space[a].regions[i] = m.space[a].regions[i]
      /\ \A i \in DOMAIN x.space[a].regions :
           i \in DOMAIN m.space[a].regions \/ i = Len(m.space[a].regions) + 1
  BY <1>a, <1>5, AppendFacts
<1>7. ASSUME NEW s PROVE /\ ViewsOf(m, s) \subseteq ViewsOf(x, s)
                         /\ ViewsOf(x, s) \subseteq ViewsOf(m, s) \cup {d}
                         /\ d \notin ViewsOf(m, s) /\ (d \in ViewsOf(x, s) => s = sec)
  <2>1. ASSUME NEW p \in Spaces \X (1 .. MaxRegions), p \in ViewsOf(m, s) PROVE p \in ViewsOf(x, s)
    <3>1. CASE p[1] # a
      BY <1>2, <2>1, <3>1 DEF ViewsOf, Extends
    <3>2. CASE p[1] = a
      <4>1. p[2] \in DOMAIN m.space[a].regions /\ m.space[a].regions[p[2]].section = s
        BY <2>1, <3>2 DEF ViewsOf
      <4> QED BY <1>6, <3>2, <4>1 DEF ViewsOf
    <3> QED BY <3>1, <3>2
  <2>2. ASSUME NEW p \in Spaces \X (1 .. MaxRegions), p \in ViewsOf(x, s)
        PROVE p \in ViewsOf(m, s) \/ (p = d /\ s = sec)
    <3>1. CASE p[1] # a
      BY <1>2, <2>2, <3>1 DEF ViewsOf, Extends
    <3>2. CASE p[1] = a /\ p[2] \in DOMAIN m.space[a].regions
      BY <1>6, <2>2, <3>2 DEF ViewsOf
    <3>3. CASE p[1] = a /\ p[2] = Len(m.space[a].regions) + 1
      <4>1. p = d
        BY <3>3
      <4>2. x.space[a].regions[p[2]] = r
        BY <1>6, <3>3
      <4>3. x.space[a].regions[p[2]].section = s
        BY <2>2, <3>3 DEF ViewsOf
      <4> QED BY <1>5, <4>1, <4>2, <4>3
    <3> QED BY <1>6, <2>2, <3>1, <3>2, <3>3 DEF ViewsOf
  <2>3. d \notin ViewsOf(m, s)
    <3>1. Len(m.space[a].regions) + 1 \notin DOMAIN m.space[a].regions
      BY <1>5, AppendFacts
    <3> QED BY <3>1 DEF ViewsOf
  <2> QED BY <2>1, <2>2, <2>3 DEF ViewsOf
<1>8. Exclusive(x)
  BY <1>2, <1>3, <1>7 DEF FramesOK, Exclusive
<1>9. SectionsHeld(x)
  <2> SUFFICES ASSUME NEW s \in Sections
               PROVE  x.section[s].refs >= One(x.section[s].rights # {}) + Cardinality(ViewsOf(x, s))
    BY <1>2 DEF FramesOK, SectionsHeld, Extends
  <2>1. x.section = m.section
    BY <1>2 DEF Extends
  <2>2. /\ m.section[s].refs >= One(m.section[s].rights # {}) + Cardinality(ViewsOf(m, s))
        /\ m.section[s].refs \in Nat
    BY <1>1 DEF FramesOK, SectionsHeld, States, SectionRecords
  <2>3. Cardinality(ViewsOf(x, s)) <= Cardinality(ViewsOf(m, s)) + One(s = sec)
    <3>1. Cardinality(ViewsOf(x, s)) + One(d \in ViewsOf(m, s))
            = Cardinality(ViewsOf(m, s)) + One(d \in ViewsOf(x, s))
      BY <1>7, ViewsFinite, OneChange
    <3>2. One(d \in ViewsOf(m, s)) = 0 /\ One(d \in ViewsOf(x, s)) <= One(s = sec)
          /\ One(d \in ViewsOf(x, s)) \in Nat /\ One(s = sec) \in Nat
      BY <1>7 DEF One
    <3> QED BY <3>1, <3>2, ViewsFinite
  <2>4. One(m.section[s].rights # {}) \in Nat /\ One(s = sec) \in Nat /\ (s # sec => One(s = sec) = 0)
        /\ (s = sec => One(s = sec) = 1)
    BY DEF One
  <2>5. CASE s = sec
    BY <2>1, <2>2, <2>3, <2>4, <2>5, ViewsFinite
  <2>6. CASE s # sec
    BY <2>1, <2>2, <2>3, <2>4, <2>6, ViewsFinite
  <2> QED BY <2>5, <2>6
<1>10. SpacesTidy(x)
  <2>1. x.space[a].inUse
    BY <1>2 DEF Extends
  <2>2. Len(x.space[a].regions) <= MaxRegions
    BY <1>5, <1>6, MmFacts
  <2> QED BY <1>2, <2>1, <2>2 DEF FramesOK, SpacesTidy, Extends
<1> QED BY <1>2, <1>4, <1>8, <1>9, <1>10, NoExtraTyped DEF FramesOK

-----------------------------------------------------------------------------
(***************************************************************************)
(* The loops.                                                              *)
(***************************************************************************)
WireStep(y, a, base, k, bits) == IF ~ y.ok THEN y ELSE WirePage(y, a, base + k - 1, bits)

WireRun(g, m, a, base, n, bits) ==
  /\ g[0] = Ok(m) /\ g[n] = WirePages(m, a, base, n, bits)
  /\ \A k \in 1 .. n : g[k] = WireStep(g[k - 1], a, base, k, bits)

(* The wiring loop as a sequence of states, one for each turn. *)
LEMMA WireLoop ==
  ASSUME NEW m, NEW a, NEW base, NEW n \in Nat, NEW bits
  PROVE  \E g : WireRun(g, m, a, base, n, bits)
<1> DEFINE Runs(g, j) ==
             g = [k \in 0 .. j |-> IF k = 0 THEN Ok(m) ELSE WireStep(g[k - 1], a, base, k, bits)]
           S == {j \in Nat : \E g : Runs(g, j)}
<1>1. 0 \in S
  <2>1. Runs([k \in 0 .. 0 |-> Ok(m)], 0)
    OBVIOUS
  <2> QED BY <2>1
<1>2. ASSUME NEW j \in 1 .. n, j - 1 \in S PROVE j \in S
  <2>1. PICK g : Runs(g, j - 1)
    BY <1>2
  <2> DEFINE h == [k \in 0 .. j |-> IF k < j THEN g[k] ELSE WireStep(g[j - 1], a, base, j, bits)]
  <2>2. ASSUME NEW k \in 0 .. j
        PROVE  h[k] = IF k = 0 THEN Ok(m) ELSE WireStep(h[k - 1], a, base, k, bits)
    <3>1. CASE k = j
      BY <3>1
    <3>2. CASE k < j
      <4>1. k \in 0 .. (j - 1)
        BY <3>2
      <4>2. g[k] = IF k = 0 THEN Ok(m) ELSE WireStep(g[k - 1], a, base, k, bits)
        BY <2>1, <4>1
      <4>3. h[k] = g[k] /\ (k # 0 => h[k - 1] = g[k - 1])
        BY <3>2
      <4> HIDE DEF h
      <4> QED BY <4>2, <4>3
    <3> QED BY <3>1, <3>2
  <2>3. h = [k \in 0 .. j |-> h[k]]
    OBVIOUS
  <2> HIDE DEF h
  <2>4. Runs(h, j)
    BY <2>2, <2>3
  <2> QED BY <2>4
<1>3. n \in S
  <2> HIDE DEF S
  <2> QED BY <1>1, <1>2, Iteration
<1>4. PICK g : g = CHOOSE h : Runs(h, n)
  OBVIOUS
<1>5. Runs(g, n)
  <2>1. \E h : Runs(h, n)
    BY <1>3
  <2> HIDE DEF Runs
  <2> QED BY <1>4, <2>1
<1>6. WirePages(m, a, base, n, bits) = g[n]
  BY <1>4 DEF WirePages, WireStep
<1>7. g[0] = Ok(m) /\ \A k \in 1 .. n : g[k] = WireStep(g[k - 1], a, base, k, bits)
  BY <1>5
<1>8. WireRun(g, m, a, base, n, bits)
  BY <1>6, <1>7 DEF WireRun
<1> QED BY <1>8

(* A failure ends it. *)
LEMMA WireFails ==
  ASSUME NEW m, NEW a, NEW base \in Nat, NEW n \in Nat, NEW bits,
         NEW y, y = WirePage(Ok(m), a, base, bits), ~ y.ok, Ok(m).ok
  PROVE  n # 0 => WirePages(m, a, base, n, bits) = y
<1>1. PICK g : WireRun(g, m, a, base, n, bits)
  BY WireLoop
<1> DEFINE S == {k \in Nat : k >= 1 => g[k] = y}
<1>2. 0 \in S
  OBVIOUS
<1>3. ASSUME NEW k \in 1 .. n, k - 1 \in S PROVE k \in S
  <2>1. g[k] = WireStep(g[k - 1], a, base, k, bits)
    BY <1>1 DEF WireRun
  <2>2. CASE k = 1
    <3>1. base + 1 - 1 = base /\ g[1 - 1] = Ok(m)
      BY <1>1 DEF WireRun
    <3>2. g[1] = y
      BY <2>1, <2>2, <3>1 DEF WireStep
    <3> QED BY <2>2, <3>2
  <2>3. CASE k # 1
    <3>1. g[k - 1] = y
      BY <1>3, <2>3
    <3>2. g[k] = y
      BY <2>1, <3>1 DEF WireStep
    <3> QED BY <3>2
  <2> QED BY <2>2, <2>3
<1>4. \A k \in 0 .. n : k \in S
  <2> HIDE DEF S
  <2> QED BY <1>2, <1>3, Iteration
<1>5. n # 0 => g[n] = y
  <2>1. n \in S
    BY <1>4
  <2> QED BY <2>1
<1> QED BY <1>1, <1>5 DEF WireRun

ProtectStep(y, image, first, k, bits) == MmAsProtectPage(y, image, first + k - 1, bits)
ProtectRun(g, m, image, first, n, bits) ==
  /\ g[0] = m /\ g[n] = ProtectSection(m, image, first, n, bits)
  /\ \A k \in 1 .. n : g[k] = ProtectStep(g[k - 1], image, first, k, bits)

(* The same for the loop over the pages of a section of an image. *)
LEMMA ProtectLoop ==
  ASSUME NEW m, NEW image, NEW first, NEW n \in Nat, NEW bits
  PROVE  \E g : ProtectRun(g, m, image, first, n, bits)
<1> DEFINE Runs(g, j) ==
             g = [k \in 0 .. j |-> IF k = 0 THEN m ELSE ProtectStep(g[k - 1], image, first, k, bits)]
           S == {j \in Nat : \E g : Runs(g, j)}
<1>1. 0 \in S
  <2>1. Runs([k \in 0 .. 0 |-> m], 0)
    OBVIOUS
  <2> QED BY <2>1
<1>2. ASSUME NEW j \in 1 .. n, j - 1 \in S PROVE j \in S
  <2>1. PICK g : Runs(g, j - 1)
    BY <1>2
  <2> DEFINE h == [k \in 0 .. j |-> IF k < j THEN g[k] ELSE ProtectStep(g[j - 1], image, first, j, bits)]
  <2>2. ASSUME NEW k \in 0 .. j
        PROVE  h[k] = IF k = 0 THEN m ELSE ProtectStep(h[k - 1], image, first, k, bits)
    <3>1. CASE k = j
      BY <3>1
    <3>2. CASE k < j
      <4>1. k \in 0 .. (j - 1)
        BY <3>2
      <4>2. g[k] = IF k = 0 THEN m ELSE ProtectStep(g[k - 1], image, first, k, bits)
        BY <2>1, <4>1
      <4>3. h[k] = g[k] /\ (k # 0 => h[k - 1] = g[k - 1])
        BY <3>2
      <4> HIDE DEF h
      <4> QED BY <4>2, <4>3
    <3> QED BY <3>1, <3>2
  <2>3. h = [k \in 0 .. j |-> h[k]]
    OBVIOUS
  <2> HIDE DEF h
  <2>4. Runs(h, j)
    BY <2>2, <2>3
  <2> QED BY <2>4
<1>3. n \in S
  <2> HIDE DEF S
  <2> QED BY <1>1, <1>2, Iteration
<1>4. PICK g : g = CHOOSE h : Runs(h, n)
  OBVIOUS
<1>5. Runs(g, n)
  <2>1. \E h : Runs(h, n)
    BY <1>3
  <2> HIDE DEF Runs
  <2> QED BY <1>4, <2>1
<1>6. ProtectSection(m, image, first, n, bits) = g[n]
  BY <1>4 DEF ProtectSection, ProtectStep
<1>7. g[0] = m /\ \A k \in 1 .. n : g[k] = ProtectStep(g[k - 1], image, first, k, bits)
  BY <1>5
<1> QED BY <1>6, <1>7 DEF ProtectRun

SectionStep(y, base, n, sections, k) ==
  ProtectSection(y, base .. base + n - 1, base + sections[k].start, sections[k].span,
                 sections[k].bits)

SectionRun(g, m, base, pages, sections, n) ==
  /\ g[0] = m /\ (n = Len(sections) => ProtectSections(m, base, pages, sections) = Ok(g[n]))
  /\ \A k \in 1 .. n : g[k] = SectionStep(g[k - 1], base, pages, sections, k)

(* The same for the loop over its sections. *)
LEMMA SectionLoop ==
  ASSUME NEW m, NEW base, NEW pages, NEW sections, NEW n \in Nat
  PROVE  \E g : SectionRun(g, m, base, pages, sections, n)
<1> DEFINE Runs(g, j) ==
             g = [k \in 0 .. j |-> IF k = 0 THEN m ELSE SectionStep(g[k - 1], base, pages, sections, k)]
           S == {j \in Nat : \E g : Runs(g, j)}
<1>1. 0 \in S
  <2>1. Runs([k \in 0 .. 0 |-> m], 0)
    OBVIOUS
  <2> QED BY <2>1
<1>2. ASSUME NEW j \in 1 .. n, j - 1 \in S PROVE j \in S
  <2>1. PICK g : Runs(g, j - 1)
    BY <1>2
  <2> DEFINE h == [k \in 0 .. j |-> IF k < j THEN g[k] ELSE SectionStep(g[j - 1], base, pages, sections, j)]
  <2>2. ASSUME NEW k \in 0 .. j
        PROVE  h[k] = IF k = 0 THEN m ELSE SectionStep(h[k - 1], base, pages, sections, k)
    <3>1. CASE k = j
      BY <3>1
    <3>2. CASE k < j
      <4>1. k \in 0 .. (j - 1)
        BY <3>2
      <4>2. g[k] = IF k = 0 THEN m ELSE SectionStep(g[k - 1], base, pages, sections, k)
        BY <2>1, <4>1
      <4>3. h[k] = g[k] /\ (k # 0 => h[k - 1] = g[k - 1])
        BY <3>2
      <4> HIDE DEF h
      <4> QED BY <4>2, <4>3
    <3> QED BY <3>1, <3>2
  <2>3. h = [k \in 0 .. j |-> h[k]]
    OBVIOUS
  <2> HIDE DEF h
  <2>4. Runs(h, j)
    BY <2>2, <2>3
  <2> QED BY <2>4
<1>3. n \in S
  <2> HIDE DEF S
  <2> QED BY <1>1, <1>2, Iteration
<1>4. PICK g : g = CHOOSE h : Runs(h, n)
  OBVIOUS
<1>5. Runs(g, n)
  <2>1. \E h : Runs(h, n)
    BY <1>3
  <2> HIDE DEF Runs
  <2> QED BY <1>4, <2>1
<1>6. n = Len(sections) => ProtectSections(m, base, pages, sections) = Ok(g[n])
  BY <1>4 DEF ProtectSections, SectionStep
<1>7. g[0] = m /\ \A k \in 1 .. n : g[k] = SectionStep(g[k - 1], base, pages, sections, k)
  BY <1>5
<1> QED BY <1>6, <1>7 DEF SectionRun

EmptySection(m, s) == [m EXCEPT !.section[s] = [NoSection EXCEPT !.inUse = TRUE, !.refs = 1]]
FillStep(y, s) ==
  IF ~ y.ok THEN y
  ELSE IF FreeFrames(y) = {} THEN Fail(DropSection(y, s))
  ELSE [MmAllocPage(y) EXCEPT !.section[s].pages = Append(@, NextFit(y))]

(* The same for the loop that allocates the pages of a section. *)
LEMMA FillLoop ==
  ASSUME NEW m, NEW s, NEW n \in Nat
  PROVE  \E g : /\ g[0] = Ok(EmptySection(m, s)) /\ AddSectionPages(m, s, n) = g[n]
                /\ \A k \in 1 .. n : g[k] = FillStep(g[k - 1], s)
<1> DEFINE Runs(g, j) ==
             g = [k \in 0 .. j |-> IF k = 0 THEN Ok(EmptySection(m, s)) ELSE FillStep(g[k - 1], s)]
           S == {j \in Nat : \E g : Runs(g, j)}
<1>1. 0 \in S
  <2>1. Runs([k \in 0 .. 0 |-> Ok(EmptySection(m, s))], 0)
    OBVIOUS
  <2> QED BY <2>1
<1>2. ASSUME NEW j \in 1 .. n, j - 1 \in S PROVE j \in S
  <2>1. PICK g : Runs(g, j - 1)
    BY <1>2
  <2> DEFINE h == [k \in 0 .. j |-> IF k < j THEN g[k] ELSE FillStep(g[j - 1], s)]
  <2>2. ASSUME NEW k \in 0 .. j
        PROVE  h[k] = IF k = 0 THEN Ok(EmptySection(m, s)) ELSE FillStep(h[k - 1], s)
    <3>1. CASE k = j
      BY <3>1
    <3>2. CASE k < j
      <4>1. k \in 0 .. (j - 1)
        BY <3>2
      <4>2. g[k] = IF k = 0 THEN Ok(EmptySection(m, s)) ELSE FillStep(g[k - 1], s)
        BY <2>1, <4>1
      <4>3. h[k] = g[k] /\ (k # 0 => h[k - 1] = g[k - 1])
        BY <3>2
      <4> HIDE DEF h
      <4> QED BY <4>2, <4>3
    <3> QED BY <3>1, <3>2
  <2>3. h = [k \in 0 .. j |-> h[k]]
    OBVIOUS
  <2> HIDE DEF h
  <2>4. Runs(h, j)
    BY <2>2, <2>3
  <2> QED BY <2>4
<1>3. n \in S
  <2> HIDE DEF S
  <2> QED BY <1>1, <1>2, Iteration
<1>4. PICK g : g = CHOOSE h : Runs(h, n)
  OBVIOUS
<1>5. Runs(g, n)
  <2>1. \E h : Runs(h, n)
    BY <1>3
  <2> HIDE DEF Runs
  <2> QED BY <1>4, <2>1
<1>6. AddSectionPages(m, s, n) = g[n]
  BY <1>4 DEF AddSectionPages, FillStep, EmptySection
<1>7. g[0] = Ok(EmptySection(m, s)) /\ \A k \in 1 .. n : g[k] = FillStep(g[k - 1], s)
  BY <1>5
<1> QED BY <1>6, <1>7

-----------------------------------------------------------------------------
(***************************************************************************)
(* The regions of a space.                                                 *)
(***************************************************************************)
Within(r, v) == r.base <= v /\ v < r.base + r.size

RegionOK(m, a, r) ==
  /\ UserBase <= r.base /\ r.base + r.size <= m.space[a].nextUserBase
  /\ r.kind = "section" => /\ r.section \in Sections /\ m.section[r.section].inUse
                           /\ r.size = Len(m.section[r.section].pages)
  /\ \A v \in Pages : Within(r, v) =>
       /\ r.kind = "wired" => m.pte[v].frame # NoFrame
       /\ m.owner[v] = a =>
            /\ v \notin m.reached => m.pte[v].bits \subseteq r.bits
            /\ r.kind = "section" => m.pte[v].frame = m.section[r.section].pages[v - r.base + 1]

(* Every region is in order, no page is in two of them, and all end below  *)
(* nextUserBase; a slot that is free owns no page.                         *)
SpaceOK(m, a) ==
  /\ m.space[a].nextUserBase <= PageCount
  /\ \A i \in DOMAIN m.space[a].regions : RegionOK(m, a, m.space[a].regions[i])
  /\ \A i, j \in DOMAIN m.space[a].regions : \A v \in Pages :
       Within(m.space[a].regions[i], v) /\ Within(m.space[a].regions[j], v) => i = j
  /\ ~ m.space[a].inUse => \A v \in Pages : m.owner[v] # a

RegionsOK(m) == \A a \in Spaces : SpaceOK(m, a)

(* A space owns no page above its last region.  Only a wiring that failed  *)
(* half way breaks this, in a space that never runs.                       *)
Below(m, a) == \A v \in Pages : m.owner[v] = a => v < m.space[a].nextUserBase
Settled(m) ==
  \A a \in Spaces : m.space[a].runs => Below(m, a) /\ UserBase <= m.space[a].nextUserBase

(* Regions depend only on entries, owners, sections and spaces. *)
LEMMA SameMapsRegions ==
  ASSUME NEW m, NEW x, SameMaps(m, x)
  PROVE  /\ RegionsOK(m) => RegionsOK(x)
         /\ Settled(m) => Settled(x)
         /\ \A a : Below(m, a) => Below(x, a)
<1>1. \A a, r : RegionOK(m, a, r) => RegionOK(x, a, r)
  BY DEF SameMaps, RegionOK
<1>2. \A a : SpaceOK(m, a) => SpaceOK(x, a)
  BY <1>1 DEF SameMaps, SpaceOK
<1> QED BY <1>2 DEF SameMaps, RegionsOK, Settled, Below

(* Mapping a page above a space's regions disturbs no region. *)
LEMMA WireRegions ==
  ASSUME NEW m \in States, RegionsOK(m), NEW x, NEW a \in Spaces, NEW v \in Pages,
         NEW bits \in SUBSET AccessBits, Wires(m, x, a, v, bits), m.space[a].inUse,
         v >= m.space[a].nextUserBase
  PROVE  /\ RegionsOK(x) /\ x.space = m.space /\ x.section = m.section
         /\ x.pte[v].bits = bits /\ x.pte[v].frame # NoFrame /\ x.owner[v] = a
         /\ \A u \in Pages : u # v => x.pte[u] = m.pte[u] /\ x.owner[u] = m.owner[u]
<1>1. PICK f \in Frames :
        /\ x.pte = [m.pte EXCEPT ![v] = [frame |-> f, bits |-> bits]]
        /\ x.owner = [m.owner EXCEPT ![v] = a]
        /\ x.space = m.space /\ x.section = m.section /\ x.reached = m.reached \ {v}
  BY DEF Wires
<1>2. m.pte \in [Pages -> PteRecords] /\ m.owner \in [Pages -> Nat]
  BY DEF States
<1>3. /\ x.pte[v].bits = bits /\ x.pte[v].frame # NoFrame /\ x.owner[v] = a
      /\ \A u \in Pages : u # v => x.pte[u] = m.pte[u] /\ x.owner[u] = m.owner[u]
  BY <1>1, <1>2, MmFacts
<1>4. ASSUME NEW b \in Spaces PROVE SpaceOK(x, b)
  <2>1. SpaceOK(m, b) /\ m.space[b].nextUserBase \in Nat
    BY DEF RegionsOK, States, SpaceRecords
  <2>2. ASSUME NEW i \in DOMAIN x.space[b].regions PROVE RegionOK(x, b, x.space[b].regions[i])
    <3> DEFINE r == m.space[b].regions[i]
    <3>1. RegionOK(m, b, r) /\ r \in RegionRecords /\ x.space[b].regions[i] = r
      BY <1>1, <2>1, <2>2 DEF SpaceOK, States, SpaceRecords
    <3> HIDE DEF r
    <3>2. b = a => ~ Within(r, v)
      BY <2>1, <3>1 DEF Within, RegionOK, RegionRecords, Pages
    <3>3. ASSUME NEW u \in Pages, Within(r, u)
          PROVE  /\ r.kind = "wired" => x.pte[u].frame # NoFrame
                 /\ x.owner[u] = b =>
                      /\ u \notin x.reached => x.pte[u].bits \subseteq r.bits
                      /\ r.kind = "section" =>
                           x.pte[u].frame = x.section[r.section].pages[u - r.base + 1]
      <4>1. CASE u # v
        BY <1>1, <1>3, <3>1, <3>3, <4>1 DEF RegionOK
      <4>2. CASE u = v
        BY <1>3, <3>2, <3>3, <4>2
      <4> QED BY <4>1, <4>2
    <3> QED BY <1>1, <3>1, <3>3 DEF RegionOK
  <2>3. ~ x.space[b].inUse => \A u \in Pages : x.owner[u] # b
    BY <1>1, <1>3, <2>1 DEF SpaceOK
  <2> QED BY <1>1, <2>1, <2>2, <2>3 DEF SpaceOK
<1> QED BY <1>1, <1>3, <1>4 DEF RegionsOK

(* A region added above the others: the pages its space already owns there *)
(* have to be what the region says.                                        *)
LEMMA AddedRegions ==
  ASSUME NEW m \in States, RegionsOK(m), NEW x, NEW a \in Spaces, NEW n \in Nat,
         NEW kind \in RegionKinds, NEW bits \in SUBSET AccessBits, NEW sec \in Nat,
         Extends(m, x, a, n, kind, bits, sec),
         UserBase <= m.space[a].nextUserBase, m.space[a].nextUserBase + n <= PageCount,
         kind = "section" => /\ sec \in Sections /\ m.section[sec].inUse
                             /\ n = Len(m.section[sec].pages),
         \A v \in Pages :
           (m.space[a].nextUserBase <= v /\ v < m.space[a].nextUserBase + n) =>
           /\ kind = "wired" => m.pte[v].frame # NoFrame /\ m.pte[v].bits = bits
           /\ kind # "wired" => m.owner[v] # a
  PROVE  RegionsOK(x)
<1> DEFINE r == NewRegion(m, a, n, kind, bits, sec)
           q == m.space[a].regions
           top == m.space[a].nextUserBase
<1>1. /\ q \in Seq(RegionRecords) /\ top \in Nat
  BY DEF States, SpaceRecords
<1>2. /\ r \in RegionRecords /\ r.base = top /\ r.size = n /\ r.kind = kind
      /\ r.bits = bits /\ r.section = sec
  BY <1>1 DEF NewRegion, RegionRecords
<1> HIDE DEF r
<1>3. /\ x.space[a].regions = Append(q, r) /\ x.space[a].nextUserBase = top + n
      /\ x.space[a].inUse = m.space[a].inUse
      /\ x.pte = m.pte /\ x.owner = m.owner /\ x.section = m.section /\ x.reached = m.reached
      /\ \A b \in Spaces : b # a => x.space[b] = m.space[b]
  BY DEF Extends, r
<1> HIDE DEF q, top
<1>4. ASSUME NEW b \in Spaces, b # a PROVE SpaceOK(x, b)
  <2>0. SpaceOK(m, b) /\ x.space[b] = m.space[b]
    BY <1>3, <1>4 DEF RegionsOK
  <2>1. \A s : RegionOK(m, b, s) => RegionOK(x, b, s)
    BY <1>3, <2>0 DEF RegionOK
  <2> QED BY <1>3, <2>0, <2>1 DEF SpaceOK
<1>5. SpaceOK(m, a)
  BY DEF RegionsOK
<1>6. RegionOK(x, a, r)
  <2>1. ASSUME NEW v \in Pages, Within(r, v)
        PROVE  /\ kind = "wired" => m.pte[v].frame # NoFrame /\ m.pte[v].bits = bits
               /\ kind # "wired" => m.owner[v] # a
    BY <1>2, <2>1 DEF Within, top
  <2>2. kind = "wired" => kind # "section"
    OBVIOUS
  <2>3. UserBase <= r.base /\ r.base + r.size <= x.space[a].nextUserBase
    BY <1>1, <1>2, <1>3 DEF top
  <2> QED BY <1>2, <1>3, <2>1, <2>2, <2>3 DEF RegionOK
<1>7. ASSUME NEW i \in DOMAIN q
      PROVE  /\ RegionOK(x, a, q[i]) /\ q[i] \in RegionRecords /\ q[i].base + q[i].size <= top
  <2>1. q[i] \in RegionRecords /\ RegionOK(m, a, q[i])
    BY <1>1, <1>5, <1>7 DEF SpaceOK, q
  <2>2. q[i].base + q[i].size <= top /\ q[i].base + q[i].size \in Nat
    BY <2>1 DEF RegionOK, RegionRecords, top
  <2>3. q[i].base + q[i].size <= x.space[a].nextUserBase
    BY <1>1, <1>3, <2>2
  <2> QED BY <1>3, <2>1, <2>2, <2>3 DEF RegionOK
<1>8. /\ \A i \in DOMAIN q : i \in DOMAIN Append(q, r) /\ Append(q, r)[i] = q[i]
      /\ \A i \in DOMAIN Append(q, r) : i \in DOMAIN q \/ i = Len(q) + 1
      /\ Append(q, r)[Len(q) + 1] = r
  BY <1>1, <1>2, AppendFacts
<1>9. \A i \in DOMAIN Append(q, r) : RegionOK(x, a, Append(q, r)[i])
  BY <1>6, <1>7, <1>8
<1>10. ASSUME NEW i \in DOMAIN Append(q, r), NEW j \in DOMAIN Append(q, r), NEW v \in Pages,
              Within(Append(q, r)[i], v), Within(Append(q, r)[j], v)
       PROVE  i = j
  <2>0. v \in Nat
    BY DEF Pages
  <2>1. \A k \in DOMAIN q : ~ (Within(q[k], v) /\ Within(r, v))
    BY <1>1, <1>2, <1>7, <2>0 DEF Within, RegionRecords
  <2>2. \A k, l \in DOMAIN q : Within(q[k], v) /\ Within(q[l], v) => k = l
    BY <1>5 DEF SpaceOK, q
  <2> QED BY <1>8, <1>10, <2>1, <2>2
<1>11. SpaceOK(x, a)
  <2>1. x.space[a].nextUserBase <= PageCount
    BY <1>3 DEF top
  <2>2. ~ x.space[a].inUse => \A v \in Pages : x.owner[v] # a
    BY <1>3, <1>5 DEF SpaceOK
  <2> QED BY <1>3, <1>9, <1>10, <2>1, <2>2 DEF SpaceOK
<1> QED BY <1>4, <1>11 DEF RegionsOK

(* After k turns of the loop that wires a region at base. *)
WireInv(m, y, a, base, k, bits) ==
  /\ FramesOK(y, NoExtra) /\ RegionsOK(y)
  /\ y.space = m.space /\ y.section = m.section
  /\ \A u \in Pages : u < base => y.pte[u] = m.pte[u] /\ y.owner[u] = m.owner[u]
  /\ \A u \in Pages : y.owner[u] # a => y.owner[u] = m.owner[u]
  /\ y.ok => \A u \in Pages :
       /\ (base <= u /\ u < base + k) =>
            y.owner[u] = a /\ y.pte[u].bits = bits /\ y.pte[u].frame # NoFrame
       /\ u >= base + k => y.owner[u] = m.owner[u]
  /\ (~ y.ok /\ k <= 1) => y.owner = m.owner

(* WireInv holds after the last turn: a smallest turn that breaks it is    *)
(* impossible.                                                             *)
LEMMA WirePagesOK ==
  ASSUME NEW m, FramesOK(m, NoExtra), RegionsOK(m), NEW a \in Spaces, m.space[a].inUse,
         NEW n \in Nat, NEW bits \in SUBSET AccessBits,
         NEW base, base = m.space[a].nextUserBase, UserBase <= base, base + n <= PageCount
  PROVE  WireInv(m, WirePages(m, a, base, n, bits), a, base, n, bits)
<1>0. PICK g : WireRun(g, m, a, base, n, bits)
  BY WireLoop
<1>1. /\ g[0] = Ok(m) /\ g[n] = WirePages(m, a, base, n, bits)
      /\ \A k \in 1 .. n : g[k] = WireStep(g[k - 1], a, base, k, bits)
  BY <1>0 DEF WireRun
<1> DEFINE S == {k \in Nat : WireInv(m, g[k], a, base, k, bits)}
<1>2. m \in States /\ base \in Nat
  BY DEF FramesOK, States, SpaceRecords
<1>3. 0 \in S
  <2>1. FramesOK(g[0], NoExtra) /\ g[0].ok /\ SameUses(m, g[0])
    BY <1>1, <1>2, OkFrames, OkEffect
  <2>2. SameMaps(m, g[0])
    BY <2>1 DEF SameUses, SameMaps
  <2>3. RegionsOK(g[0])
    BY <2>2, SameMapsRegions
  <2>4. \A u \in Pages : ~ (base <= u /\ u < base + 0)
    BY <1>2 DEF Pages
  <2>5. WireInv(m, g[0], a, base, 0, bits)
    BY <2>1, <2>2, <2>3, <2>4 DEF WireInv, SameMaps
  <2> QED BY <2>5
<1>4. ASSUME NEW k \in 1 .. n, k - 1 \in S PROVE k \in S
  <2> DEFINE y == g[k - 1]
             x == g[k]
             v == base + k - 1
  <2>1. WireInv(m, y, a, base, k - 1, bits) /\ x = WireStep(y, a, base, k, bits) /\ k \in Nat
    BY <1>1, <1>4
  <2>2. v \in Pages /\ v >= base /\ v = base + (k - 1) /\ v >= UserBase
    BY <1>2, MmFacts DEF Pages
  <2> HIDE DEF y, x, v
  <2>3. CASE ~ y.ok
    <3>1. x = y
      BY <2>1, <2>3 DEF WireStep
    <3>2. k <= 1 => k - 1 <= 1
      OBVIOUS
    <3>3. WireInv(m, x, a, base, k, bits)
      BY <2>1, <2>3, <3>1, <3>2 DEF WireInv
    <3> QED BY <2>1, <3>3 DEF x
  <2>4. CASE y.ok
    <3>1. x = WirePage(y, a, v, bits)
      BY <2>1, <2>4 DEF WireStep, v
    <3>2. FramesOK(y, NoExtra) /\ RegionsOK(y) /\ y.space = m.space /\ y.section = m.section
      BY <2>1 DEF WireInv
    <3>3. /\ FramesOK(x, NoExtra)
          /\ \/ ~ x.ok /\ SameMaps(y, x)
             \/ x.ok /\ Wires(y, x, a, v, bits)
      BY <2>2, <3>1, <3>2, WirePageFrames
    <3>4. CASE ~ x.ok /\ SameMaps(y, x)
      <4>1. RegionsOK(x)
        BY <3>2, <3>4, SameMapsRegions
      <4>2. k <= 1 => y.owner = m.owner
        <5>1. ASSUME k <= 1 PROVE y.owner = m.owner
          <6>1. k - 1 = 0
            BY <5>1
          <6>2. y = g[0]
            BY <6>1 DEF y
          <6>3. SameUses(m, g[0])
            BY <1>1, <1>2, OkEffect
          <6> QED BY <6>2, <6>3 DEF SameUses
        <5> QED BY <5>1
      <4>3. WireInv(m, x, a, base, k, bits)
        BY <2>1, <3>3, <3>4, <4>1, <4>2 DEF WireInv, SameMaps
      <4> QED BY <2>1, <4>3 DEF x
    <3>5. CASE x.ok /\ Wires(y, x, a, v, bits)
      <4>1. y \in States /\ y.space[a].inUse /\ v >= y.space[a].nextUserBase
        BY <2>2, <3>2 DEF FramesOK
      <4>2. /\ RegionsOK(x) /\ x.space = y.space /\ x.section = y.section
            /\ x.pte[v].bits = bits /\ x.pte[v].frame # NoFrame /\ x.owner[v] = a
            /\ \A u \in Pages : u # v => x.pte[u] = y.pte[u] /\ x.owner[u] = y.owner[u]
        <5>1. /\ v \in Pages /\ RegionsOK(y) /\ Wires(y, x, a, v, bits)
          BY <2>2, <3>2, <3>5
        <5> QED BY <4>1, <5>1, WireRegions
      <4>3. ASSUME NEW u \in Pages
            PROVE  /\ u < base => x.pte[u] = m.pte[u] /\ x.owner[u] = m.owner[u]
                   /\ x.owner[u] # a => x.owner[u] = m.owner[u]
                   /\ (base <= u /\ u < base + k) =>
                        x.owner[u] = a /\ x.pte[u].bits = bits /\ x.pte[u].frame # NoFrame
                   /\ u >= base + k => x.owner[u] = m.owner[u]
        <5>1. CASE u = v
          <6>1. ~ (u < base) /\ ~ (u >= base + k)
            BY <1>2, <2>1, <2>2, <5>1 DEF Pages
          <6> QED BY <4>2, <5>1, <6>1
        <5>2. CASE u # v
          <6>1. x.pte[u] = y.pte[u] /\ x.owner[u] = y.owner[u]
            BY <4>2, <5>2
          <6>2. /\ (base <= u /\ u < base + k) => (base <= u /\ u < base + (k - 1))
                /\ u >= base + k => u >= base + (k - 1)
            BY <1>2, <2>1, <2>2, <5>2 DEF Pages
          <6> QED BY <2>1, <2>4, <6>1, <6>2 DEF WireInv
        <5> QED BY <5>1, <5>2
      <4>4. WireInv(m, x, a, base, k, bits)
        BY <3>2, <3>3, <3>5, <4>2, <4>3 DEF WireInv
      <4> QED BY <2>1, <4>4 DEF x
    <3> QED BY <3>3, <3>4, <3>5
  <2> QED BY <2>3, <2>4
<1>5. n \in S
  <2> HIDE DEF S
  <2> QED BY <1>3, <1>4, Iteration
<1> QED BY <1>1, <1>5

(* MmMapAnonymous: a wired region has all its pages, or is not there. *)
Grows(m, x, a, n, kind, bits) ==
  /\ Below(x, a)
  /\ x.space[a].nextUserBase = m.space[a].nextUserBase + n
  /\ x.space[a].regions = Append(m.space[a].regions, NewRegion(m, a, n, kind, bits, 0))
  /\ \A u \in Pages : u < m.space[a].nextUserBase => x.owner[u] = m.owner[u]
  /\ kind = "wired" =>
       \A u \in Pages : (m.space[a].nextUserBase <= u /\ u < m.space[a].nextUserBase + n) =>
         x.owner[u] = a

(* MmMapAnonymous keeps the state sound, whether it succeeds or fails half *)
(* way.                                                                    *)
LEMMA MapAnonymousOK ==
  ASSUME NEW m, FramesOK(m, NoExtra), RegionsOK(m), Settled(m),
         NEW a \in Spaces, m.space[a].inUse, Below(m, a), NEW n \in Nat,
         NEW kind \in {"lazy", "wired", "guard"}, NEW bits \in SUBSET AccessBits,
         UserBase <= m.space[a].nextUserBase, m.space[a].nextUserBase + n <= PageCount,
         kind = "wired" /\ m.space[a].runs => n <= 1,
         NEW x, x = MmMapAnonymous(m, a, n, kind, bits)
  PROVE  /\ FramesOK(x, NoExtra) /\ RegionsOK(x) /\ Settled(x)
         /\ \A b \in Spaces : /\ x.space[b].runs = m.space[b].runs
                              /\ x.space[b].inUse = m.space[b].inUse
         /\ x.ok => Grows(m, x, a, n, kind, bits)
<1> DEFINE base == m.space[a].nextUserBase
           w == IF kind = "wired" THEN WirePages(m, a, base, n, bits) ELSE Ok(m)
<1>0. /\ m \in States /\ base \in Nat /\ m.space[a].regions \in Seq(RegionRecords)
  BY DEF FramesOK, States, SpaceRecords
<1>1. CASE x = Fail(m)
  <2>1. SameUses(m, x) /\ FramesOK(x, NoExtra) /\ ~ x.ok
    BY <1>0, <1>1, OkFrames, OkEffect
  <2>2. SameMaps(m, x)
    BY <2>1 DEF SameUses, SameMaps
  <2> QED BY <2>1, <2>2, SameMapsRegions DEF SameMaps
<1>2. CASE /\ Len(m.space[a].regions) < MaxRegions
           /\ x = IF w.ok THEN AddRegion(w, a, n, kind, bits, 0) ELSE w
  <2>1. /\ FramesOK(w, NoExtra) /\ RegionsOK(w) /\ w.space = m.space /\ w.section = m.section
        /\ \A u \in Pages : u < base => w.owner[u] = m.owner[u]
        /\ \A u \in Pages : w.owner[u] # a => w.owner[u] = m.owner[u]
        /\ (~ w.ok /\ n <= 1) => w.owner = m.owner
        /\ kind # "wired" => w.owner = m.owner /\ w.ok
        /\ w.ok => \A u \in Pages :
             /\ (kind = "wired" /\ base <= u /\ u < base + n) =>
                  w.owner[u] = a /\ w.pte[u].bits = bits /\ w.pte[u].frame # NoFrame
             /\ u >= base + n => w.owner[u] = m.owner[u]
    <3>1. CASE kind = "wired"
      <4>1. WireInv(m, w, a, base, n, bits)
        BY <3>1, WirePagesOK
      <4> HIDE DEF w, base
      <4> QED BY <3>1, <4>1 DEF WireInv
    <3>2. CASE kind # "wired"
      <4>1. w = Ok(m)
        BY <3>2
      <4>2. SameUses(m, w) /\ FramesOK(w, NoExtra) /\ w.ok
        BY <1>0, <4>1, OkFrames, OkEffect
      <4>3. SameMaps(m, w)
        BY <4>2 DEF SameUses, SameMaps
      <4>4. RegionsOK(w)
        BY <4>3, SameMapsRegions
      <4> HIDE DEF w, base
      <4> QED BY <3>2, <4>2, <4>3, <4>4 DEF SameMaps
    <3> QED BY <3>1, <3>2
  <2> HIDE DEF w
  <2>2. \A b \in Spaces : b # a /\ w.space[b].runs =>
          Below(w, b) /\ UserBase <= w.space[b].nextUserBase
    BY <2>1 DEF Settled, Below
  <2>3. CASE ~ w.ok
    <3>1. x = w
      BY <1>2, <2>3
    <3>2. w.space[a].runs => Below(w, a)
      BY <2>1, <2>3 DEF Below
    <3> QED BY <2>1, <2>2, <2>3, <3>1, <3>2 DEF Settled
  <2>4. CASE w.ok
    <3>1. x = AddRegion(w, a, n, kind, bits, 0) /\ w \in States
      BY <1>2, <2>1, <2>4 DEF FramesOK
    <3>2. FramesOK(x, NoExtra) /\ Extends(w, x, a, n, kind, bits, 0)
      <4>1. 0 \notin Sections /\ 0 \in Nat /\ kind \in RegionKinds
        BY DEF Sections, RegionKinds
      <4>2. w.space[a].inUse /\ Len(w.space[a].regions) < MaxRegions
        BY <1>2, <2>1
      <4> QED BY <2>1, <3>1, <4>1, <4>2, AddRegionFrames
    <3>3. \A v \in Pages : (base <= v /\ v < base + n) =>
             /\ kind = "wired" => w.pte[v].frame # NoFrame /\ w.pte[v].bits = bits
             /\ kind # "wired" => w.owner[v] # a
      <4> SUFFICES ASSUME NEW v \in Pages, base <= v, v < base + n, kind # "wired"
                   PROVE  w.owner[v] # a
        BY <2>1, <2>4
      <4>1. v \in Nat /\ ~ (v < base)
        BY <1>0 DEF Pages
      <4> QED BY <2>1, <4>1 DEF Below
    <3>4. RegionsOK(x)
      <4>1. kind \in RegionKinds /\ kind # "section" /\ 0 \in Nat
        BY DEF RegionKinds
      <4>2. /\ UserBase <= w.space[a].nextUserBase /\ w.space[a].nextUserBase + n <= PageCount
            /\ \A v \in Pages :
                 (w.space[a].nextUserBase <= v /\ v < w.space[a].nextUserBase + n) =>
                 /\ kind = "wired" => w.pte[v].frame # NoFrame /\ w.pte[v].bits = bits
                 /\ kind # "wired" => w.owner[v] # a
        BY <2>1, <3>3
      <4> QED BY <2>1, <3>1, <3>2, <4>1, <4>2, AddedRegions
    <3>5. /\ x.owner = w.owner /\ x.space[a].nextUserBase = base + n
          /\ x.space[a].regions = Append(m.space[a].regions, NewRegion(m, a, n, kind, bits, 0))
          /\ \A b \in Spaces : b # a => x.space[b] = m.space[b]
          /\ x.space[a].runs = m.space[a].runs /\ x.space[a].inUse = m.space[a].inUse
      BY <2>1, <3>2 DEF Extends, NewRegion
    <3> HIDE DEF base
    <3>6. Below(x, a)
      <4> SUFFICES ASSUME NEW u \in Pages, x.owner[u] = a PROVE u < base + n
        BY <3>5 DEF Below
      <4>1. u \in Nat /\ base \in Nat
        BY <1>0 DEF Pages
      <4>2. ASSUME u >= base + n PROVE FALSE
        <5>1. m.owner[u] = a
          BY <2>1, <2>4, <3>5, <4>2
        <5>2. u < base
          BY <5>1 DEF Below, base
        <5> QED BY <4>1, <4>2, <5>2
      <4> QED BY <4>1, <4>2
    <3>7. Settled(x)
      <4>1. UserBase <= base + n
        BY <1>0, MmFacts DEF base
      <4> QED BY <2>1, <2>2, <3>5, <3>6, <4>1 DEF Settled, Below
    <3>8. Grows(m, x, a, n, kind, bits)
      BY <2>1, <2>4, <3>5, <3>6 DEF Grows, base
    <3>9. \A b \in Spaces : /\ x.space[b].runs = m.space[b].runs
                            /\ x.space[b].inUse = m.space[b].inUse
      BY <3>5
    <3> QED BY <3>2, <3>4, <3>7, <3>8, <3>9
  <2> QED BY <2>3, <2>4
<1>3. Len(m.space[a].regions) >= MaxRegions \/ Len(m.space[a].regions) < MaxRegions
  <2>1. \A q \in Seq(RegionRecords) : Len(q) \in Nat
    OBVIOUS
  <2>2. Len(m.space[a].regions) \in Nat /\ MaxRegions \in Nat
    BY <1>0, <2>1, MmFacts
  <2> QED BY <2>2
<1> QED BY <1>1, <1>2, <1>3 DEF MmMapAnonymous

-----------------------------------------------------------------------------
(***************************************************************************)
(* Sections.                                                               *)
(***************************************************************************)
KeepsSpaces(m, x) ==
  /\ x.pte = m.pte /\ x.owner = m.owner /\ x.space = m.space /\ x.reached = m.reached

(* A step that keeps spaces and owners keeps views and settledness. *)
LEMMA KeepsSpacesSettled ==
  ASSUME NEW m, NEW x, KeepsSpaces(m, x)
  PROVE  /\ \A s : ViewsOf(x, s) = ViewsOf(m, s)
         /\ Settled(m) => Settled(x)
BY DEF KeepsSpaces, ViewsOf, Settled, Below

(* A region of kind section is a view. *)
LEMMA RegionIsView ==
  ASSUME NEW m \in States, SpacesTidy(m), NEW a \in Spaces, NEW i \in DOMAIN m.space[a].regions,
         NEW s, m.space[a].regions[i].section = s
  PROVE  ViewsOf(m, s) # {}
<1>1. m.space[a].regions \in Seq(RegionRecords) /\ Len(m.space[a].regions) <= MaxRegions
  BY DEF States, SpaceRecords, SpacesTidy
<1>2. \A q \in Seq(RegionRecords) : Len(q) \in Nat /\ DOMAIN q = 1 .. Len(q)
  OBVIOUS
<1>3. i \in 1 .. Len(m.space[a].regions) /\ Len(m.space[a].regions) \in Nat
  BY <1>1, <1>2
<1> DEFINE n == Len(m.space[a].regions)
<1>4. n \in Nat /\ i \in 1 .. n /\ n <= MaxRegions
  BY <1>1, <1>3
<1> HIDE DEF n
<1>5. i \in 1 .. MaxRegions
  BY <1>4, MmFacts
<1>6. <<a, i>> \in ViewsOf(m, s)
  BY <1>5 DEF ViewsOf
<1> QED BY <1>6

(* Sections other than s keep what the regions say of them. *)
LEMMA SectionChangeRegions ==
  ASSUME NEW m \in States, SpacesTidy(m), RegionsOK(m), NEW x, KeepsSpaces(m, x),
         NEW s \in Sections, \A r \in Sections : r # s => x.section[r] = m.section[r],
         \/ ViewsOf(m, s) = {}
         \/ x.section[s].inUse /\ x.section[s].pages = m.section[s].pages
  PROVE  RegionsOK(x)
<1>1. ASSUME NEW a \in Spaces, NEW i \in DOMAIN m.space[a].regions
      PROVE  RegionOK(x, a, m.space[a].regions[i])
  <2> DEFINE r == m.space[a].regions[i]
  <2>1. RegionOK(m, a, r)
    BY DEF RegionsOK, SpaceOK
  <2>2. r.section # s \/ (x.section[s].inUse /\ x.section[s].pages = m.section[s].pages)
    BY RegionIsView
  <2> HIDE DEF r
  <2>3. r.section \in Sections =>
          /\ x.section[r.section].pages = m.section[r.section].pages
          /\ m.section[r.section].inUse => x.section[r.section].inUse
    BY <2>2
  <2>4. x.pte = m.pte /\ x.owner = m.owner /\ x.space = m.space /\ x.reached = m.reached
    BY DEF KeepsSpaces
  <2>5. RegionOK(x, a, r)
    BY <2>1, <2>3, <2>4 DEF RegionOK
  <2> QED BY <2>5 DEF r
<1>2. ASSUME NEW a \in Spaces PROVE SpaceOK(x, a)
  BY <1>1 DEF KeepsSpaces, RegionsOK, SpaceOK
<1> QED BY <1>2 DEF RegionsOK

(* References and rights of a section may change as its views allow. *)
LEMMA SetSectionOK ==
  ASSUME NEW m, FramesOK(m, NoExtra), RegionsOK(m), NEW s \in Sections,
         NEW t \in SectionRecords, t.inUse, t.pages = m.section[s].pages,
         t.refs >= One(t.rights # {}) + Cardinality(ViewsOf(m, s)),
         NEW x, x = [m EXCEPT !.section[s] = t]
  PROVE  FramesOK(x, NoExtra) /\ RegionsOK(x) /\ KeepsSpaces(m, x)
<1>1. m \in States /\ m.section \in [Sections -> SectionRecords]
  BY DEF FramesOK, States
<1>2. /\ x.section = [m.section EXCEPT ![s] = t] /\ x.pte = m.pte /\ x.owner = m.owner
      /\ x.space = m.space /\ x.table = m.table /\ x.leaked = m.leaked
      /\ x.used = m.used /\ x.refs = m.refs /\ x.reached = m.reached
  BY <1>1 DEF States
<1>3. x \in States
  <2>1. [m.section EXCEPT ![s] = t] \in [Sections -> SectionRecords]
    BY <1>1
  <2> QED BY <1>1, <2>1 DEF States
<1>4. /\ x.section[s] = t /\ \A r \in Sections : r # s => x.section[r] = m.section[r]
      /\ \A r \in Sections : x.section[r].pages = m.section[r].pages
  BY <1>1, <1>2
<1>5. \A f : /\ PteUse(x, f) = PteUse(m, f) /\ SectionUse(x, f) = SectionUse(m, f)
             /\ RootUse(x, f) = RootUse(m, f) /\ TableUse(x, f) = TableUse(m, f)
  <2>1. \A p \in Sections \X (1 .. MaxSectionPages) :
          x.section[p[1]].pages = m.section[p[1]].pages
    BY <1>4
  <2> QED BY <1>2, <2>1 DEF PteUse, SectionUse, RootUse, TableUse
<1>6. /\ \A r \in Sections : SectionFrames(x, r) = SectionFrames(m, r)
      /\ \A r : ViewsOf(x, r) = ViewsOf(m, r)
  <2>1. \A r \in Sections : SectionFrames(x, r) = SectionFrames(m, r)
    BY <1>4 DEF SectionFrames
  <2>2. x.space = m.space
    BY <1>2
  <2>3. \A r : ViewsOf(x, r) = ViewsOf(m, r)
    BY <2>2 DEF ViewsOf
  <2> QED BY <2>1, <2>3
<1>7. Counted(x, NoExtra)
  BY <1>2, <1>5 DEF FramesOK, Counted, UsesIn
<1>8. Exclusive(x) /\ SpacesTidy(x)
  BY <1>2, <1>5, <1>6 DEF FramesOK, Exclusive, SpacesTidy
<1>9. SectionsHeld(x)
  BY <1>4, <1>6 DEF FramesOK, SectionsHeld
<1>10. KeepsSpaces(m, x)
  BY <1>2 DEF KeepsSpaces
<1>11. RegionsOK(x)
  BY <1>1, <1>4, <1>10, SectionChangeRegions DEF FramesOK
<1> QED BY <1>3, <1>4, <1>7, <1>8, <1>9, <1>10, <1>11, NoExtraTyped DEF FramesOK

(* Sequence z is q with g at its end. *)
LongerBy(q, z, g) ==
  /\ Len(q) \in Nat /\ Len(z) = Len(q) + 1
  /\ DOMAIN q = 1 .. Len(q) /\ DOMAIN z = 1 .. Len(z)
  /\ z[Len(q) + 1] = g /\ \A i \in DOMAIN q : z[i] = q[i]

(* A sequence with one more element, as the use counts see it. *)
LEMMA AppendIsLonger ==
  ASSUME NEW S, NEW q \in Seq(S), NEW g \in S
  PROVE  LongerBy(q, Append(q, g), g)
BY DEF LongerBy

TakesFrame(m, x, s, g) ==
  /\ KeepsSpaces(m, x) /\ x.table = m.table /\ x.leaked = m.leaked /\ x.ok = TRUE
  /\ \A f \in Frames : x.refs[f] = m.refs[f] + One(f = g) /\ (f \in x.used <=> x.refs[f] > 0)
  /\ x.section[s].inUse = m.section[s].inUse /\ x.section[s].refs = m.section[s].refs
  /\ x.section[s].rights = m.section[s].rights
  /\ \A r \in Sections : r # s => x.section[r] = m.section[r]
  /\ LongerBy(m.section[s].pages, x.section[s].pages, g)

FrameAdded(m, x, s, g) ==
  /\ \A r \in Sections : r # s => SectionFrames(x, r) = SectionFrames(m, r)
  /\ SectionFrames(x, s) = SectionFrames(m, s) \cup {g}
  /\ \A f \in Frames :
       Cardinality(SectionUse(x, f)) = Cardinality(SectionUse(m, f)) + One(f = g)

(* A page added to a section is one more use of its frame, and of no       *)
(* other.                                                                  *)
LEMMA TakesFrameUse ==
  ASSUME NEW m, NEW x, NEW s \in Sections, NEW g, TakesFrame(m, x, s, g),
         Len(m.section[s].pages) < MaxSectionPages
  PROVE  FrameAdded(m, x, s, g)
<1> DEFINE q == m.section[s].pages
           z == x.section[s].pages
           n == Len(q)
           d == <<s, n + 1>>
<1>1. /\ n \in Nat /\ DOMAIN q = 1 .. n /\ DOMAIN z = 1 .. (n + 1)
      /\ z[n + 1] = g /\ \A i \in DOMAIN q : z[i] = q[i]
  BY DEF TakesFrame, LongerBy
<1>2. n < MaxSectionPages
  OBVIOUS
<1>3. \A r \in Sections : r # s => x.section[r] = m.section[r]
  BY DEF TakesFrame
<1>4. /\ SectionFrames(x, s) = {z[i] : i \in DOMAIN z}
      /\ SectionFrames(m, s) = {q[i] : i \in DOMAIN q}
      /\ \A r \in Sections : r # s => SectionFrames(x, r) = SectionFrames(m, r)
  BY <1>3 DEF SectionFrames
<1>5. ASSUME NEW f
      PROVE  /\ \A p \in Sections \X (1 .. MaxSectionPages) :
                  p[1] = s => /\ p \in SectionUse(m, f) <=> p[2] \in DOMAIN q /\ q[p[2]] = f
                              /\ p \in SectionUse(x, f) <=> p[2] \in DOMAIN z /\ z[p[2]] = f
             /\ \A p \in Sections \X (1 .. MaxSectionPages) :
                  p[1] # s => (p \in SectionUse(m, f) <=> p \in SectionUse(x, f))
  BY <1>3 DEF SectionUse
<1> HIDE DEF q, z, n
<1>6. SectionFrames(x, s) = SectionFrames(m, s) \cup {g}
  BY <1>1, <1>4
<1>7. d \in Sections \X (1 .. MaxSectionPages)
  <2>1. n + 1 \in 1 .. MaxSectionPages
    BY <1>1, <1>2, MmFacts
  <2> QED BY <2>1
<1>8. ASSUME NEW f \in Frames
      PROVE  Cardinality(SectionUse(x, f)) = Cardinality(SectionUse(m, f)) + One(f = g)
  <2>1. ASSUME NEW p \in Sections \X (1 .. MaxSectionPages), p # d
        PROVE  p \in SectionUse(x, f) <=> p \in SectionUse(m, f)
    <3>1. CASE p[1] # s
      BY <1>5, <3>1
    <3>2. CASE p[1] = s
      <4>1. p[2] # n + 1
        BY <2>1, <3>2
      <4>2. p[2] \in DOMAIN z <=> p[2] \in DOMAIN q
        BY <1>1, <4>1
      <4> QED BY <1>1, <1>5, <3>2, <4>2
    <3> QED BY <3>1, <3>2
  <2>2. SectionUse(m, f) \ {d} = SectionUse(x, f) \ {d}
    BY <2>1 DEF SectionUse
  <2>3. d[1] = s /\ d[2] = n + 1
    OBVIOUS
  <2> HIDE DEF d
  <2>4. d \notin SectionUse(m, f) /\ (d \in SectionUse(x, f) <=> f = g)
    BY <1>1, <1>5, <1>7, <2>3
  <2>5. Cardinality(SectionUse(x, f)) + One(d \in SectionUse(m, f))
          = Cardinality(SectionUse(m, f)) + One(d \in SectionUse(x, f))
    BY <2>2, UseFinite, OneChange
  <2>6. One(d \in SectionUse(m, f)) = 0 /\ One(d \in SectionUse(x, f)) = One(f = g)
    BY <2>4 DEF One
  <2> QED BY <2>5, <2>6, UseFinite
<1> QED BY <1>4, <1>6, <1>8 DEF FrameAdded

(* A section without views gets one more page. *)
LEMMA SectionTakes ==
  ASSUME NEW m, FramesOK(m, NoExtra), RegionsOK(m), NEW s \in Sections, NEW g \in Frames,
         m.section[s].inUse, Len(m.section[s].pages) < MaxSectionPages, ViewsOf(m, s) = {},
         Unused(m, g), \A r \in Sections : g \notin SectionFrames(m, r),
         NEW x \in States, TakesFrame(m, x, s, g)
  PROVE  FramesOK(x, NoExtra) /\ RegionsOK(x)
<1>0. m \in States
  BY DEF FramesOK
<1>1. /\ KeepsSpaces(m, x) /\ x.table = m.table /\ x.leaked = m.leaked
      /\ \A f \in Frames : x.refs[f] = m.refs[f] + One(f = g) /\ (f \in x.used <=> x.refs[f] > 0)
      /\ x.section[s].inUse = m.section[s].inUse /\ x.section[s].refs = m.section[s].refs
      /\ x.section[s].rights = m.section[s].rights
      /\ \A r \in Sections : r # s => x.section[r] = m.section[r]
      /\ Len(m.section[s].pages) \in Nat
      /\ Len(x.section[s].pages) = Len(m.section[s].pages) + 1
  BY DEF TakesFrame, LongerBy
<1>2. /\ \A r \in Sections : r # s => SectionFrames(x, r) = SectionFrames(m, r)
      /\ SectionFrames(x, s) = SectionFrames(m, s) \cup {g}
      /\ \A f \in Frames :
           Cardinality(SectionUse(x, f)) = Cardinality(SectionUse(m, f)) + One(f = g)
  <2>1. FrameAdded(m, x, s, g)
    BY TakesFrameUse
  <2> QED BY <2>1 DEF FrameAdded
<1>3. /\ \A f : /\ PteUse(x, f) = PteUse(m, f) /\ RootUse(x, f) = RootUse(m, f)
                /\ TableUse(x, f) = TableUse(m, f)
      /\ \A r : ViewsOf(x, r) = ViewsOf(m, r)
  BY <1>1 DEF KeepsSpaces, PteUse, RootUse, TableUse, ViewsOf
<1>4. Counted(x, NoExtra)
  <2> SUFFICES ASSUME NEW f \in Frames
               PROVE  x.refs[f] = UsesIn(x, f) + One(f \in x.leaked) + NoExtra[f]
    BY <1>1 DEF Counted
  <2>1. /\ Cardinality(SectionUse(x, f)) = Cardinality(SectionUse(m, f)) + One(f = g)
        /\ One(f = g) \in Nat /\ One(f \in m.leaked) \in Nat
    BY <1>2 DEF One
  <2>2. UsesIn(x, f) = UsesIn(m, f) + One(f = g) /\ UsesIn(m, f) \in Nat
    <3> DEFINE p == Cardinality(PteUse(m, f))
               q == Cardinality(SectionUse(m, f))
               t == Cardinality(TableUse(m, f))
               u == Cardinality(RootUse(m, f))
               k == One(f = g)
    <3>1. p \in Nat /\ q \in Nat /\ t \in Nat /\ u \in Nat /\ k \in Nat
      BY <2>1, UseFinite
    <3>2. UsesIn(m, f) = p + q + t + u
      BY DEF UsesIn
    <3>3. UsesIn(x, f) = p + (q + k) + t + u
      BY <1>3, <2>1 DEF UsesIn
    <3> HIDE DEF p, q, t, u, k
    <3>4. p + (q + k) + t + u = (p + q + t + u) + k /\ p + q + t + u \in Nat
      BY <3>1
    <3>5. k = One(f = g)
      BY DEF k
    <3> QED BY <3>2, <3>3, <3>4, <3>5
  <2>3. m.refs[f] = UsesIn(m, f) + One(f \in m.leaked) + NoExtra[f] /\ NoExtra[f] = 0
    BY NoExtraTyped DEF FramesOK, Counted
  <2>4. x.refs[f] = m.refs[f] + One(f = g) /\ x.leaked = m.leaked
    BY <1>1
  <2> QED BY <2>1, <2>2, <2>3, <2>4
<1>5. Exclusive(x)
  <2> SUFFICES ASSUME NEW r \in Sections, NEW f \in SectionFrames(x, r)
               PROVE  /\ TableUse(x, f) = {} /\ RootUse(x, f) = {} /\ f \notin x.leaked
                      /\ \A u \in Sections : u # r => f \notin SectionFrames(x, u)
                      /\ PteUse(x, f) # {} => ViewsOf(x, r) # {}
    BY DEF Exclusive
  <2>1. CASE f = g
    <3>1. r = s
      BY <1>2, <2>1
    <3> QED BY <1>1, <1>2, <1>3, <2>1, <3>1 DEF Unused
  <2>2. CASE f # g
    <3>1. f \in SectionFrames(m, r)
      BY <1>2, <2>2
    <3>2. /\ TableUse(m, f) = {} /\ RootUse(m, f) = {} /\ f \notin m.leaked
          /\ \A u \in Sections : u # r => f \notin SectionFrames(m, u)
          /\ PteUse(m, f) # {} => ViewsOf(m, r) # {}
      BY <3>1 DEF FramesOK, Exclusive
    <3> QED BY <1>1, <1>2, <1>3, <2>2, <3>2
  <2> QED BY <2>1, <2>2
<1>6. SectionsHeld(x)
  <2> SUFFICES ASSUME NEW r \in Sections
               PROVE  /\ Len(x.section[r].pages) <= MaxSectionPages
                      /\ x.section[r].refs >= One(x.section[r].rights # {})
                                              + Cardinality(ViewsOf(x, r))
                      /\ ~ x.section[r].inUse => x.section[r] = NoSection
    BY DEF SectionsHeld
  <2>1. CASE r = s
    <3>1. Len(x.section[s].pages) <= MaxSectionPages
      BY <1>1, MmFacts
    <3> QED BY <1>1, <1>3, <2>1, <3>1 DEF FramesOK, SectionsHeld
  <2>2. CASE r # s
    BY <1>1, <1>3, <2>2 DEF FramesOK, SectionsHeld
  <2> QED BY <2>1, <2>2
<1>7. SpacesTidy(x)
  BY <1>1 DEF KeepsSpaces, FramesOK, SpacesTidy
<1>8. RegionsOK(x)
  BY <1>0, <1>1, SectionChangeRegions DEF FramesOK
<1> QED BY <1>4, <1>5, <1>6, <1>7, <1>8, NoExtraTyped DEF FramesOK

(* One turn of the filling loop gives the section a fresh frame. *)
LEMMA FillEffect ==
  ASSUME NEW m, FramesOK(m, NoExtra), FreeFrames(m) # {}, NEW s \in Sections,
         NEW x, x = [MmAllocPage(m) EXCEPT !.section[s].pages = Append(@, NextFit(m))]
  PROVE  x \in States /\ TakesFrame(m, x, s, NextFit(m))
<1> DEFINE g == NextFit(m)
           y == MmAllocPage(m)
           q == m.section[s].pages
           t == [m.section[s] EXCEPT !.pages = Append(q, g)]
<1>0. /\ m \in States /\ m.section \in [Sections -> SectionRecords] /\ q \in Seq(Frames)
      /\ m.section[s] \in SectionRecords /\ m.refs \in [Frames -> Nat]
  BY DEF FramesOK, States, SectionRecords
<1>1. /\ g \in Frames /\ g \notin m.used /\ y \in States /\ SameUses(m, y) /\ y.ok = TRUE
      /\ y.used = m.used \cup {g} /\ y.refs = [m.refs EXCEPT ![g] = 1]
  BY <1>0, AllocEffect
<1>2. x = [y EXCEPT !.section[s].pages = Append(@, g)]
  OBVIOUS
<1> HIDE DEF y, g
<1>3. Append(q, g) \in Seq(Frames) /\ LongerBy(q, Append(q, g), g)
  BY <1>0, <1>1, AppendIsLonger, AppendFacts
<1>4. /\ t \in SectionRecords /\ t.inUse = m.section[s].inUse /\ t.refs = m.section[s].refs
      /\ t.rights = m.section[s].rights /\ t.pages = Append(q, g)
  BY <1>0, <1>3 DEF SectionRecords
<1>5. x = [y EXCEPT !.section = [m.section EXCEPT ![s] = t]]
  BY <1>1, <1>2 DEF States, SameUses
<1> HIDE DEF t, q
<1>6. [m.section EXCEPT ![s] = t] \in [Sections -> SectionRecords]
  BY <1>0, <1>4
<1>7. /\ x.section = [m.section EXCEPT ![s] = t] /\ x.pte = y.pte /\ x.owner = y.owner
      /\ x.space = y.space /\ x.table = y.table /\ x.leaked = y.leaked
      /\ x.used = y.used /\ x.refs = y.refs /\ x.ok = y.ok /\ x.reached = y.reached
  <2> DEFINE sections == [m.section EXCEPT ![s] = t]
  <2>1. y \in States /\ x = [y EXCEPT !.section = sections]
    BY <1>1, <1>5
  <2> HIDE DEF sections
  <2>2. x.section = sections
    BY <2>1 DEF States
  <2>3. x.pte = y.pte /\ x.owner = y.owner /\ x.reached = y.reached
    BY <2>1 DEF States
  <2>4. x.space = y.space /\ x.table = y.table
    BY <2>1 DEF States
  <2>5. x.leaked = y.leaked /\ x.used = y.used /\ x.refs = y.refs /\ x.ok = y.ok
    BY <2>1 DEF States
  <2> QED BY <2>2, <2>3, <2>4, <2>5 DEF sections
<1>8. x \in States
  <2> DEFINE sections == [m.section EXCEPT ![s] = t]
  <2>1. y \in States /\ x = [y EXCEPT !.section = sections] /\ sections \in [Sections -> SectionRecords]
    BY <1>1, <1>5, <1>6
  <2> HIDE DEF sections
  <2> QED BY <2>1 DEF States
<1>9. x.section[s] = t /\ \A r \in Sections : r # s => x.section[r] = m.section[r]
  BY <1>0, <1>7
<1>10. ASSUME NEW f \in Frames
       PROVE  x.refs[f] = m.refs[f] + One(f = g) /\ (f \in x.used <=> x.refs[f] > 0)
  <2>1. m.refs[f] \in Nat /\ (f \in m.used <=> m.refs[f] > 0)
    BY <1>0 DEF FramesOK, Counted
  <2>2. CASE f = g
    <3>1. m.refs[f] = 0 /\ One(f = g) = 1 /\ x.refs[f] = 1 /\ f \in x.used
      BY <1>0, <1>1, <1>7, <2>1, <2>2 DEF One
    <3> QED BY <3>1
  <2>3. CASE f # g
    <3>1. x.refs[f] = m.refs[f] /\ One(f = g) = 0 /\ (f \in x.used <=> f \in m.used)
      BY <1>0, <1>1, <1>7, <2>3 DEF One
    <3> QED BY <2>1, <3>1
  <2> QED BY <2>2, <2>3
<1>11. TakesFrame(m, x, s, g)
  <2>1. KeepsSpaces(m, x) /\ x.table = m.table /\ x.leaked = m.leaked /\ x.ok = TRUE
    BY <1>1, <1>7 DEF SameUses, KeepsSpaces
  <2>2. LongerBy(m.section[s].pages, x.section[s].pages, g)
    BY <1>3, <1>4, <1>9 DEF q
  <2> QED BY <1>4, <1>9, <1>10, <2>1, <2>2 DEF TakesFrame
<1> QED BY <1>8, <1>11 DEF g

(* MmpDeleteSectionObject frees the pages whatever their counts; without a *)
(* view of the section nothing else uses them.                             *)
LEMMA DeleteEffect ==
  ASSUME NEW m \in States, NEW s \in Sections, NEW x, x = MmpDeleteSectionObject(m, s)
  PROVE  /\ x \in States /\ KeepsSpaces(m, x) /\ x.table = m.table /\ x.leaked = m.leaked
         /\ x.ok = m.ok
         /\ x.section[s] = NoSection /\ \A r \in Sections : r # s => x.section[r] = m.section[r]
         /\ \A f \in Frames : f \in SectionFrames(m, s) => x.refs[f] = 0 /\ f \notin x.used
         /\ \A f \in Frames : f \notin SectionFrames(m, s) =>
              x.refs[f] = m.refs[f] /\ (f \in x.used <=> f \in m.used)
<1> DEFINE F == SectionFrames(m, s)
           R == [f \in Frames |-> IF f \in F THEN 0 ELSE m.refs[f]]
           T == [m.section EXCEPT ![s] = NoSection]
<1>0. m.section \in [Sections -> SectionRecords] /\ m.refs \in [Frames -> Nat] /\ m.used \subseteq Frames
  BY DEF States
<1>1. R \in [Frames -> Nat] /\ m.used \ F \in SUBSET Frames
      /\ \A f \in Frames : R[f] = IF f \in F THEN 0 ELSE m.refs[f]
  BY <1>0
<1>2. T \in [Sections -> SectionRecords] /\ T[s] = NoSection
      /\ \A r \in Sections : r # s => T[r] = m.section[r]
  BY <1>0, EmptyRecords
<1>3. x = [[m EXCEPT !.used = @ \ F, !.refs = R] EXCEPT !.section[s] = NoSection]
  BY DEF MmpDeleteSectionObject, FreeAll, SectionFrames
<1> DEFINE y == [m EXCEPT !.used = m.used \ F, !.refs = R]
<1>4. y.section = m.section /\ y \in States
  <2> HIDE DEF F, R
  <2> QED BY <1>1 DEF States
<1>5. x = [m EXCEPT !.used = m.used \ F, !.refs = R, !.section = T]
  <2> HIDE DEF F, R
  <2> QED BY <1>3, <1>4 DEF States
<1> HIDE DEF F, R, T
<1>6. /\ x \in States /\ x.used = m.used \ F /\ x.refs = R /\ x.section = T /\ x.pte = m.pte
      /\ x.owner = m.owner /\ x.space = m.space /\ x.table = m.table /\ x.leaked = m.leaked
      /\ x.ok = m.ok /\ x.reached = m.reached
  BY <1>1, <1>2, <1>5 DEF States
<1> QED BY <1>1, <1>2, <1>6 DEF KeepsSpaces, F

(* MmpDeleteSectionObject frees frames only when no view is left, so none  *)
(* is mapped.                                                              *)
LEMMA DeleteOK ==
  ASSUME NEW m, FramesOK(m, NoExtra), RegionsOK(m), NEW s \in Sections, ViewsOf(m, s) = {},
         NEW x, x = MmpDeleteSectionObject(m, s)
  PROVE  FramesOK(x, NoExtra) /\ RegionsOK(x) /\ KeepsSpaces(m, x)
<1> DEFINE F == SectionFrames(m, s)
<1>0. m \in States
  BY DEF FramesOK
<1>1. /\ x \in States /\ KeepsSpaces(m, x) /\ x.table = m.table /\ x.leaked = m.leaked
      /\ x.section[s] = NoSection /\ \A r \in Sections : r # s => x.section[r] = m.section[r]
      /\ \A f \in Frames : f \in F => x.refs[f] = 0 /\ f \notin x.used
      /\ \A f \in Frames : f \notin F => x.refs[f] = m.refs[f] /\ (f \in x.used <=> f \in m.used)
  BY <1>0, DeleteEffect
<1>2. /\ \A f : /\ PteUse(x, f) = PteUse(m, f) /\ RootUse(x, f) = RootUse(m, f)
                /\ TableUse(x, f) = TableUse(m, f)
      /\ \A r : ViewsOf(x, r) = ViewsOf(m, r)
  BY <1>1 DEF KeepsSpaces, PteUse, RootUse, TableUse, ViewsOf
<1>3. /\ SectionFrames(x, s) = {}
      /\ \A r \in Sections : r # s => SectionFrames(x, r) = SectionFrames(m, r)
  <2>1. DOMAIN x.section[s].pages = {}
    BY <1>1, EmptyRecords
  <2> QED BY <1>1, <2>1 DEF SectionFrames
<1>4. ASSUME NEW f, f \notin F PROVE SectionUse(x, f) = SectionUse(m, f)
  <2>1. ASSUME NEW p \in Sections \X (1 .. MaxSectionPages)
        PROVE  p \in SectionUse(x, f) <=> p \in SectionUse(m, f)
    <3>1. CASE p[1] # s
      BY <1>1, <3>1 DEF SectionUse
    <3>2. CASE p[1] = s
      <4>1. p \notin SectionUse(m, f)
        BY <1>4, <3>2 DEF SectionUse, SectionFrames
      <4>2. p \notin SectionUse(x, f)
        BY <1>3, <3>2 DEF SectionUse, SectionFrames
      <4> QED BY <4>1, <4>2
    <3> QED BY <3>1, <3>2
  <2> QED BY <2>1 DEF SectionUse
<1>5. ASSUME NEW f \in F
      PROVE  /\ PteUse(x, f) = {} /\ RootUse(x, f) = {} /\ TableUse(x, f) = {}
             /\ SectionUse(x, f) = {} /\ f \notin x.leaked
  <2>1. /\ TableUse(m, f) = {} /\ RootUse(m, f) = {} /\ f \notin m.leaked
        /\ \A r \in Sections : r # s => f \notin SectionFrames(m, r)
        /\ PteUse(m, f) = {}
    BY <1>5 DEF FramesOK, Exclusive
  <2>2. ASSUME NEW p \in Sections \X (1 .. MaxSectionPages), p \in SectionUse(x, f) PROVE FALSE
    <3>1. f \in SectionFrames(x, p[1])
      BY <2>2 DEF SectionUse, SectionFrames
    <3> QED BY <1>3, <2>1, <3>1
  <2>3. SectionUse(x, f) = {}
    BY <2>2 DEF SectionUse
  <2> QED BY <1>1, <1>2, <2>1, <2>3
<1> HIDE DEF F
<1>6. Counted(x, NoExtra)
  <2> SUFFICES ASSUME NEW f \in Frames
               PROVE  /\ x.refs[f] = UsesIn(x, f) + One(f \in x.leaked) + NoExtra[f]
                      /\ f \in x.used <=> x.refs[f] > 0
    BY DEF Counted
  <2>1. CASE f \in F
    <3>1. UsesIn(x, f) = 0 /\ One(f \in x.leaked) = 0
      BY <1>5, <2>1, FS_EmptySet DEF UsesIn, One
    <3> QED BY <1>1, <2>1, <3>1, NoExtraTyped
  <2>2. CASE f \notin F
    <3>1. UsesIn(x, f) = UsesIn(m, f)
      BY <1>2, <1>4, <2>2 DEF UsesIn
    <3> QED BY <1>1, <2>2, <3>1 DEF FramesOK, Counted
  <2> QED BY <2>1, <2>2
<1>7. Exclusive(x)
  BY <1>1, <1>2, <1>3 DEF FramesOK, Exclusive
<1>8. SectionsHeld(x)
  <2> SUFFICES ASSUME NEW r \in Sections
               PROVE  /\ Len(x.section[r].pages) <= MaxSectionPages
                      /\ x.section[r].refs >= One(x.section[r].rights # {})
                                              + Cardinality(ViewsOf(x, r))
                      /\ ~ x.section[r].inUse => x.section[r] = NoSection
    BY DEF SectionsHeld
  <2>1. CASE r = s
    <3>1. Cardinality(ViewsOf(x, s)) = 0
      BY <1>2, FS_EmptySet
    <3>2. x.section[s].refs = 0 /\ One(x.section[s].rights # {}) = 0 /\ x.section[s].pages = <<>>
      BY <1>1, EmptyRecords DEF One
    <3>3. Len(<<>>) = 0
      OBVIOUS
    <3> QED BY <1>1, <2>1, <3>1, <3>2, <3>3, MmFacts
  <2>2. CASE r # s
    BY <1>1, <1>2, <2>2 DEF FramesOK, SectionsHeld
  <2> QED BY <2>1, <2>2
<1>9. SpacesTidy(x)
  BY <1>1 DEF KeepsSpaces, FramesOK, SpacesTidy
<1>10. RegionsOK(x)
  BY <1>0, <1>1, SectionChangeRegions DEF FramesOK
<1> QED BY <1>1, <1>6, <1>7, <1>8, <1>9, <1>10, NoExtraTyped DEF FramesOK

(* A reference more than the handle's and the views' may be dropped. *)
LEMMA DropOK ==
  ASSUME NEW m, FramesOK(m, NoExtra), RegionsOK(m), NEW s \in Sections, m.section[s].inUse,
         m.section[s].refs >= 1 + One(m.section[s].rights # {}) + Cardinality(ViewsOf(m, s)),
         NEW x, x = DropSection(m, s)
  PROVE  FramesOK(x, NoExtra) /\ RegionsOK(x) /\ KeepsSpaces(m, x)
<1>0. m.section[s] \in SectionRecords
  BY DEF FramesOK, States
<1>1. /\ m.section[s].refs \in Nat /\ Cardinality(ViewsOf(m, s)) \in Nat
      /\ One(m.section[s].rights # {}) \in Nat
  BY <1>0, ViewsFinite DEF SectionRecords, One
<1>2. CASE m.section[s].refs = 1
  <2>1. Cardinality(ViewsOf(m, s)) = 0
    BY <1>1, <1>2
  <2>2. ViewsOf(m, s) = {}
    BY <2>1, ViewsFinite, FS_EmptySet
  <2>3. x = MmpDeleteSectionObject(m, s)
    BY <1>2 DEF DropSection
  <2> QED BY <2>2, <2>3, DeleteOK
<1>3. CASE m.section[s].refs # 1
  <2> DEFINE t == [m.section[s] EXCEPT !.refs = @ - 1]
  <2>1. m.section[s].refs - 1 \in Nat
        /\ m.section[s].refs - 1 >= One(m.section[s].rights # {}) + Cardinality(ViewsOf(m, s))
    BY <1>1
  <2>2. /\ t \in SectionRecords /\ t.inUse = m.section[s].inUse /\ t.pages = m.section[s].pages
        /\ t.rights = m.section[s].rights /\ t.refs = m.section[s].refs - 1
    BY <1>0, <2>1 DEF SectionRecords
  <2>3. x = [m EXCEPT !.section[s] = t]
    BY <1>3 DEF DropSection, FramesOK, States
  <2> HIDE DEF t
  <2>4. t.refs >= One(t.rights # {}) + Cardinality(ViewsOf(m, s)) /\ t.inUse
    BY <2>1, <2>2
  <2> QED BY <2>2, <2>3, <2>4, SetSectionOK
<1> QED BY <1>2, <1>3

(* The regions stay in order when the status is set. *)
LEMMA OkRegions ==
  ASSUME NEW m \in States, NEW x, x = Ok(m) \/ x = Fail(m)
  PROVE  /\ KeepsSpaces(m, x) /\ x.section = m.section
         /\ RegionsOK(m) => RegionsOK(x)
         /\ Settled(m) => Settled(x)
<1>1. SameUses(m, x)
  BY OkEffect
<1>2. SameMaps(m, x) /\ KeepsSpaces(m, x)
  BY <1>1 DEF SameUses, SameMaps, KeepsSpaces
<1> QED BY <1>2, SameMapsRegions DEF SameMaps

(* A slot that is free has no view. *)
LEMMA FreeSectionNoViews ==
  ASSUME NEW m, FramesOK(m, NoExtra), NEW s \in Sections, ~ m.section[s].inUse
  PROVE  m.section[s] = NoSection /\ ViewsOf(m, s) = {}
<1>1. m.section[s] = NoSection
  BY DEF FramesOK, SectionsHeld
<1>2. /\ m.section[s].refs = 0
      /\ m.section[s].refs >= One(m.section[s].rights # {}) + Cardinality(ViewsOf(m, s))
  BY <1>1, EmptyRecords DEF FramesOK, SectionsHeld
<1>3. One(m.section[s].rights # {}) \in Nat
  BY DEF One
<1>4. Cardinality(ViewsOf(m, s)) = 0
  BY <1>2, <1>3, ViewsFinite
<1> QED BY <1>1, <1>4, ViewsFinite, FS_EmptySet

(* Taking a section slot uses no frame yet. *)
LEMMA EmptySectionOK ==
  ASSUME NEW m, FramesOK(m, NoExtra), RegionsOK(m), NEW s \in Sections, ~ m.section[s].inUse,
         NEW y, y = EmptySection(m, s)
  PROVE  /\ FramesOK(y, NoExtra) /\ RegionsOK(y) /\ KeepsSpaces(m, y)
         /\ y.section[s].inUse /\ y.section[s].refs = 1 /\ y.section[s].rights = {}
         /\ y.section[s].pages = <<>>
<1> DEFINE t == [NoSection EXCEPT !.inUse = TRUE, !.refs = 1]
<1>1. m.section[s] = NoSection /\ ViewsOf(m, s) = {}
  BY FreeSectionNoViews
<1>2. /\ t \in SectionRecords /\ t.inUse /\ t.refs = 1 /\ t.rights = {} /\ t.pages = <<>>
  BY EmptyRecords DEF SectionRecords
<1>3. y = [m EXCEPT !.section[s] = t]
  BY DEF EmptySection
<1> HIDE DEF t
<1>4. t.refs >= One(t.rights # {}) + Cardinality(ViewsOf(m, s)) /\ t.pages = m.section[s].pages
  <2>1. One(t.rights # {}) = 0 /\ Cardinality(ViewsOf(m, s)) = 0
    BY <1>1, <1>2, FS_EmptySet DEF One
  <2>2. NoSection.pages = <<>>
    BY EmptyRecords
  <2> QED BY <1>1, <1>2, <2>1, <2>2
<1>5. FramesOK(y, NoExtra) /\ RegionsOK(y) /\ KeepsSpaces(m, y) /\ y.section[s] = t
  <2>1. t \in SectionRecords /\ t.inUse
    BY <1>2
  <2>2. FramesOK(y, NoExtra) /\ RegionsOK(y) /\ KeepsSpaces(m, y)
    BY <1>3, <1>4, <2>1, SetSectionOK
  <2>3. y.section[s] = t
    BY <1>3 DEF FramesOK, States
  <2> QED BY <2>2, <2>3
<1> QED BY <1>2, <1>5

(* After k pages of a new section. *)
FillInv(m, y, s, k) ==
  /\ FramesOK(y, NoExtra) /\ RegionsOK(y) /\ KeepsSpaces(m, y)
  /\ y.ok => /\ y.section[s].inUse /\ y.section[s].refs = 1 /\ y.section[s].rights = {}
             /\ Len(y.section[s].pages) = k

(* FillInv holds after the last turn, also when memory runs out before. *)
LEMMA FillOK ==
  ASSUME NEW m, FramesOK(m, NoExtra), RegionsOK(m), NEW s \in Sections, ~ m.section[s].inUse,
         NEW n \in Nat, n <= MaxSectionPages
  PROVE  FillInv(m, AddSectionPages(m, s, n), s, n)
<1>1. PICK g : /\ g[0] = Ok(EmptySection(m, s)) /\ AddSectionPages(m, s, n) = g[n]
               /\ \A k \in 1 .. n : g[k] = FillStep(g[k - 1], s)
  BY FillLoop
<1> DEFINE S == {k \in Nat : FillInv(m, g[k], s, k)}
<1>2. m.section[s] = NoSection /\ ViewsOf(m, s) = {}
  BY FreeSectionNoViews
<1>3. 0 \in S
  <2> DEFINE y == EmptySection(m, s)
  <2>4. /\ FramesOK(y, NoExtra) /\ RegionsOK(y) /\ KeepsSpaces(m, y)
        /\ y.section[s].inUse /\ y.section[s].refs = 1 /\ y.section[s].rights = {}
        /\ y.section[s].pages = <<>>
    BY EmptySectionOK
  <2> HIDE DEF y
  <2>5. y \in States
    BY <2>4 DEF FramesOK
  <2>6. /\ FramesOK(g[0], NoExtra) /\ RegionsOK(g[0]) /\ KeepsSpaces(y, g[0])
        /\ g[0].section = y.section
    BY <1>1, <2>4, <2>5, OkFrames, OkRegions DEF y
  <2>7. Len(g[0].section[s].pages) = 0
    <3>1. g[0].section[s].pages = <<>>
      BY <2>4, <2>6
    <3> QED BY <3>1
  <2>8. FillInv(m, g[0], s, 0)
    BY <2>4, <2>6, <2>7 DEF FillInv, KeepsSpaces
  <2> QED BY <2>8
<1>4. ASSUME NEW k \in 1 .. n, k - 1 \in S PROVE k \in S
  <2> DEFINE y == g[k - 1]
             x == g[k]
  <2>1. FillInv(m, y, s, k - 1) /\ x = FillStep(y, s) /\ k \in Nat
    BY <1>1, <1>4
  <2> HIDE DEF y, x
  <2>2. /\ FramesOK(y, NoExtra) /\ RegionsOK(y) /\ KeepsSpaces(m, y) /\ y \in States
        /\ ViewsOf(y, s) = {}
    BY <1>2, <2>1, KeepsSpacesSettled DEF FillInv, FramesOK
  <2>3. CASE ~ y.ok
    <3>1. x = y
      BY <2>1, <2>3 DEF FillStep
    <3>2. FillInv(m, x, s, k)
      BY <2>1, <2>3, <3>1 DEF FillInv
    <3> QED BY <2>1, <3>2 DEF x
  <2>4. CASE y.ok
    <3>0. /\ y.section[s].inUse /\ y.section[s].refs = 1 /\ y.section[s].rights = {}
          /\ Len(y.section[s].pages) = k - 1
      BY <2>1, <2>4 DEF FillInv
    <3>1. CASE FreeFrames(y) = {}
      <4> DEFINE z == DropSection(y, s)
      <4>1. x = Fail(z)
        BY <2>1, <2>4, <3>1 DEF FillStep
      <4>2. y.section[s].refs >= 1 + One(y.section[s].rights # {}) + Cardinality(ViewsOf(y, s))
        <5>1. One(y.section[s].rights # {}) = 0 /\ Cardinality(ViewsOf(y, s)) = 0
          BY <2>2, <3>0, FS_EmptySet DEF One
        <5> QED BY <3>0, <5>1
      <4>3. FramesOK(z, NoExtra) /\ RegionsOK(z) /\ KeepsSpaces(y, z)
        BY <2>2, <3>0, <4>2, DropOK
      <4> HIDE DEF z
      <4>4. z \in States
        BY <4>3 DEF FramesOK
      <4>5. /\ FramesOK(x, NoExtra) /\ RegionsOK(x) /\ KeepsSpaces(z, x) /\ ~ x.ok
        BY <4>1, <4>3, <4>4, OkFrames, OkRegions
      <4>6. FillInv(m, x, s, k)
        BY <2>2, <4>3, <4>5 DEF FillInv, KeepsSpaces
      <4> QED BY <2>1, <4>6 DEF x
    <3>2. CASE FreeFrames(y) # {}
      <4>1. x = [MmAllocPage(y) EXCEPT !.section[s].pages = Append(@, NextFit(y))]
        BY <2>1, <2>4, <3>2 DEF FillStep
      <4>2. x \in States /\ TakesFrame(y, x, s, NextFit(y))
        BY <2>2, <3>2, <4>1, FillEffect
      <4>3. /\ NextFit(y) \in Frames /\ Unused(y, NextFit(y))
            /\ \A r \in Sections : NextFit(y) \notin SectionFrames(y, r)
        BY <2>2, <3>2, AllocFrames
      <4>4. Len(y.section[s].pages) < MaxSectionPages
        BY <3>0, MmFacts
      <4>5. FramesOK(x, NoExtra) /\ RegionsOK(x)
        BY <2>2, <3>0, <4>2, <4>3, <4>4, SectionTakes
      <4>6. /\ KeepsSpaces(y, x) /\ x.section[s].inUse = y.section[s].inUse
            /\ x.section[s].refs = y.section[s].refs /\ x.section[s].rights = y.section[s].rights
            /\ Len(x.section[s].pages) = Len(y.section[s].pages) + 1
        BY <4>2 DEF TakesFrame, LongerBy
      <4>7. Len(x.section[s].pages) = k
        BY <2>1, <3>0, <4>6
      <4>8. FillInv(m, x, s, k)
        BY <2>2, <3>0, <4>5, <4>6, <4>7 DEF FillInv, KeepsSpaces
      <4> QED BY <2>1, <4>8 DEF x
    <3> QED BY <3>1, <3>2
  <2> QED BY <2>3, <2>4
<1>5. n \in S
  <2> HIDE DEF S
  <2> QED BY <1>3, <1>4, Iteration
<1> QED BY <1>1, <1>5

-----------------------------------------------------------------------------
(***************************************************************************)
(* The loader's last loop: the image is the first region of its space.     *)
(***************************************************************************)
ImageFirst(m, a, base, n) ==
  /\ 1 \in DOMAIN m.space[a].regions
  /\ m.space[a].regions[1].base = base /\ m.space[a].regions[1].size = n
  /\ m.space[a].regions[1].bits = AccessBits
  /\ \A v \in Pages : v \in base .. base + n - 1 => m.owner[v] = a

SectionRows == [start : Nat, span : Nat, bits : SUBSET AccessBits]
SectionsFit(base, sections) ==
  \A i \in DOMAIN sections : base + sections[i].start + sections[i].span <= PageCount

ProtectInv(m, y, image) == FramesOK(y, NoExtra) /\ Protects(m, y, image)

(* Protecting more pages protects. *)
LEMMA ProtectsMore ==
  ASSUME NEW m, NEW y, NEW x, NEW image, Protects(m, y, image), Protects(y, x, image)
  PROVE  Protects(m, x, image)
<1>1. x.owner = m.owner /\ x.space = m.space /\ x.section = m.section /\ m.reached \subseteq x.reached
  BY DEF Protects
<1>2. ASSUME NEW u \in Pages
      PROVE  /\ x.pte[u].frame = m.pte[u].frame
             /\ x.pte[u].bits = m.pte[u].bits \/ u \in image \/ u \in x.reached
  BY DEF Protects
<1> QED BY <1>1, <1>2 DEF Protects

(* Setting the protection of a section changes no frame and no owner. *)
LEMMA ProtectSectionOK ==
  ASSUME NEW m, FramesOK(m, NoExtra), NEW image, NEW first \in Nat, NEW n \in Nat,
         first + n <= PageCount, NEW bits \in SUBSET AccessBits
  PROVE  ProtectInv(m, ProtectSection(m, image, first, n, bits), image)
<1>0. PICK g : ProtectRun(g, m, image, first, n, bits)
  BY ProtectLoop
<1>1. /\ g[0] = m /\ g[n] = ProtectSection(m, image, first, n, bits)
      /\ \A k \in 1 .. n : g[k] = MmAsProtectPage(g[k - 1], image, first + k - 1, bits)
  BY <1>0 DEF ProtectRun, ProtectStep
<1> DEFINE S == {k \in Nat : ProtectInv(m, g[k], image)}
<1>2. 0 \in S
  BY <1>1 DEF ProtectInv, Protects
<1>3. ASSUME NEW k \in 1 .. n, k - 1 \in S PROVE k \in S
  <2> DEFINE y == g[k - 1]
             x == g[k]
             v == first + k - 1
  <2>1. ProtectInv(m, y, image) /\ x = MmAsProtectPage(y, image, v, bits) /\ k \in Nat
    BY <1>1, <1>3
  <2>2. v \in Pages
    BY MmFacts DEF Pages
  <2> HIDE DEF y, x, v
  <2>3. FramesOK(y, NoExtra) /\ Protects(m, y, image)
    BY <2>1 DEF ProtectInv
  <2>4. FramesOK(x, NoExtra) /\ Protects(y, x, image)
    BY <2>1, <2>2, <2>3, ProtectFrames
  <2>5. ProtectInv(m, x, image)
    BY <2>3, <2>4, ProtectsMore DEF ProtectInv
  <2> QED BY <2>1, <2>5 DEF x
<1>4. n \in S
  <2> HIDE DEF S
  <2> QED BY <1>2, <1>3, Iteration
<1> QED BY <1>1, <1>4

(* The same for all sections of an image. *)
LEMMA ProtectSectionsOK ==
  ASSUME NEW m, FramesOK(m, NoExtra), NEW base \in Nat, NEW n \in Nat,
         NEW sections \in Seq(SectionRows), SectionsFit(base, sections),
         NEW image, image = base .. base + n - 1
  PROVE  ProtectInv(m, ProtectSections(m, base, n, sections), image)
<1>0. PICK c \in Nat : c = Len(sections) /\ DOMAIN sections = 1 .. c
  OBVIOUS
<1>g. PICK g : SectionRun(g, m, base, n, sections, c)
  BY SectionLoop
<1>1. /\ g[0] = m /\ ProtectSections(m, base, n, sections) = Ok(g[c])
      /\ \A k \in 1 .. c : g[k] = SectionStep(g[k - 1], base, n, sections, k)
  BY <1>0, <1>g DEF SectionRun
<1> DEFINE S == {k \in Nat : ProtectInv(m, g[k], image)}
<1>2. 0 \in S
  BY <1>1 DEF ProtectInv, Protects
<1>3. ASSUME NEW k \in 1 .. c, k - 1 \in S PROVE k \in S
  <2> DEFINE y == g[k - 1]
             x == g[k]
  <2>1. ProtectInv(m, y, image) /\ x = SectionStep(y, base, n, sections, k) /\ k \in Nat
    BY <1>1, <1>3
  <2> HIDE DEF y, x
  <2>2. sections[k] \in SectionRows /\ base + sections[k].start + sections[k].span <= PageCount
    BY <1>0 DEF SectionsFit
  <2> DEFINE first == base + sections[k].start
             span == sections[k].span
             bits == sections[k].bits
  <2>3. first \in Nat /\ span \in Nat /\ bits \in SUBSET AccessBits /\ first + span <= PageCount
    BY <2>2 DEF SectionRows
  <2>4. x = ProtectSection(y, image, first, span, bits)
    BY <2>1 DEF SectionStep
  <2> HIDE DEF first, span, bits
  <2>5. FramesOK(y, NoExtra) /\ Protects(m, y, image)
    BY <2>1 DEF ProtectInv
  <2>6. FramesOK(x, NoExtra) /\ Protects(y, x, image)
    BY <2>3, <2>4, <2>5, ProtectSectionOK DEF ProtectInv
  <2>7. ProtectInv(m, x, image)
    BY <2>5, <2>6, ProtectsMore DEF ProtectInv
  <2> QED BY <2>1, <2>7 DEF x
<1>4. c \in S
  <2> HIDE DEF S
  <2> QED BY <1>2, <1>3, Iteration
<1>5. FramesOK(g[c], NoExtra) /\ g[c] \in States /\ Protects(m, g[c], image)
  BY <1>4 DEF ProtectInv, FramesOK
<1>6. FramesOK(Ok(g[c]), NoExtra) /\ SameUses(g[c], Ok(g[c]))
  BY <1>5, OkFrames, OkEffect
<1>7. ProtectInv(m, Ok(g[c]), image)
  BY <1>5, <1>6 DEF ProtectInv, Protects, SameUses
<1> QED BY <1>0, <1>1, <1>7

(* It keeps the regions in order: a page whose rights change is in the     *)
(* image, which is the first region of its space, or is reached.           *)
LEMMA ProtectOK ==
  ASSUME NEW m, FramesOK(m, NoExtra), RegionsOK(m), Settled(m), NEW a \in Spaces,
         NEW base \in Nat, NEW n \in Nat, NEW sections \in Seq(SectionRows),
         SectionsFit(base, sections), ImageFirst(m, a, base, n),
         NEW x, x = ProtectSections(m, base, n, sections)
  PROVE  /\ FramesOK(x, NoExtra) /\ RegionsOK(x) /\ Settled(x)
         /\ x.owner = m.owner /\ x.space = m.space
<1> DEFINE image == base .. base + n - 1
<1>1. ProtectInv(m, x, image)
  BY ProtectSectionsOK
<1> HIDE DEF image
<1>2. /\ FramesOK(x, NoExtra)
      /\ x.owner = m.owner /\ x.space = m.space /\ x.section = m.section
      /\ m.reached \subseteq x.reached
      /\ \A u \in Pages : /\ x.pte[u].frame = m.pte[u].frame
                          /\ x.pte[u].bits = m.pte[u].bits \/ u \in image \/ u \in x.reached
  BY <1>1 DEF ProtectInv, Protects
<1>3. \A u \in Pages : x.pte[u].bits \subseteq AccessBits
  BY <1>2 DEF FramesOK, States, PteRecords
<1>4. ASSUME NEW b \in Spaces, NEW i \in DOMAIN m.space[b].regions
      PROVE  RegionOK(x, b, m.space[b].regions[i])
  <2> DEFINE r == m.space[b].regions[i]
  <2>1. RegionOK(m, b, r)
    BY DEF RegionsOK, SpaceOK
  <2>2. ASSUME NEW v \in Pages, Within(r, v), m.owner[v] = b, v \notin x.reached
        PROVE  x.pte[v].bits \subseteq r.bits
    <3>1. CASE v \in image
      <4>1. b = a
        BY <2>2, <3>1 DEF ImageFirst, image
      <4>2. Within(m.space[a].regions[1], v)
        BY <3>1 DEF ImageFirst, Within, Pages, image
      <4>3. i = 1
        BY <2>2, <4>1, <4>2 DEF ImageFirst, RegionsOK, SpaceOK
      <4>4. r.bits = AccessBits
        BY <4>1, <4>3 DEF ImageFirst
      <4> QED BY <1>3, <4>4
    <3>2. CASE v \notin image
      <4>1. x.pte[v].bits = m.pte[v].bits /\ v \notin m.reached
        BY <1>2, <2>2, <3>2
      <4> QED BY <2>1, <2>2, <4>1 DEF RegionOK
    <3> QED BY <3>1, <3>2
  <2> HIDE DEF r
  <2>3. RegionOK(x, b, r)
    BY <1>2, <2>1, <2>2 DEF RegionOK
  <2> QED BY <2>3 DEF r
<1>5. RegionsOK(x)
  <2> SUFFICES ASSUME NEW b \in Spaces PROVE SpaceOK(x, b)
    BY DEF RegionsOK
  <2>1. SpaceOK(m, b)
    BY DEF RegionsOK
  <2> QED BY <1>2, <1>4, <2>1 DEF SpaceOK
<1>6. Settled(x)
  BY <1>2 DEF Settled, Below
<1> QED BY <1>2, <1>5, <1>6

-----------------------------------------------------------------------------
(***************************************************************************)
(* The state between two calls.                                            *)
(***************************************************************************)
Sound(m) == FramesOK(m, NoExtra) /\ RegionsOK(m) /\ Settled(m)

(* Setting the status keeps a state sound. *)
LEMMA SoundOk ==
  ASSUME NEW m, Sound(m)
  PROVE  Sound(Ok(m)) /\ Sound(Fail(m)) /\ m \in States /\ Ok(m).space = m.space
<1>1. m \in States
  BY DEF Sound, FramesOK
<1>2. KeepsSpaces(m, Ok(m))
  BY <1>1, OkRegions
<1> QED BY <1>1, <1>2, OkFrames, OkRegions DEF Sound, KeepsSpaces

Fresh(m, a) ==
  /\ m.space[a].inUse /\ m.space[a].regions = <<>> /\ m.space[a].runs = FALSE
  /\ \A v \in Pages : m.owner[v] # a

(* A new address space owns no page yet. *)
LEMMA CreateSpaceOK ==
  ASSUME NEW m, Sound(m), NEW a \in Spaces, ~ m.space[a].inUse,
         NEW x, x = MmCreateAddressSpace(m, a)
  PROVE  /\ Sound(x)
         /\ x.ok => Fresh(x, a) /\ x.space[a].nextUserBase = UserBase
<1>0. m \in States /\ m.space \in [Spaces -> SpaceRecords]
  BY DEF Sound, FramesOK, States
<1>1. /\ FramesOK(x, NoExtra)
      /\ x.pte = m.pte /\ x.owner = m.owner /\ x.section = m.section /\ x.reached = m.reached
      /\ (~ x.ok /\ x.space = m.space) \/ (x.ok /\ SpaceAdded(m, x, a))
  <2>1. FramesOK(m, NoExtra)
    BY DEF Sound
  <2> QED BY <2>1, SpaceFrames
<1>2. CASE ~ x.ok /\ x.space = m.space
  <2>1. SameMaps(m, x)
    BY <1>1, <1>2 DEF SameMaps
  <2> QED BY <1>1, <1>2, <2>1, SameMapsRegions DEF Sound
<1>3. CASE x.ok /\ SpaceAdded(m, x, a)
  <2>1. PICK f \in Frames :
          x.space = [m.space EXCEPT ![a] = [NoSpace EXCEPT !.inUse = TRUE, !.root = f]]
    BY <1>3 DEF SpaceAdded
  <2> DEFINE t == [NoSpace EXCEPT !.inUse = TRUE, !.root = f]
  <2>2. t.inUse /\ t.nextUserBase = UserBase /\ t.regions = <<>> /\ t.runs = FALSE
    BY EmptyRecords DEF SpaceRecords
  <2> HIDE DEF t
  <2>3. x.space[a] = t /\ \A b \in Spaces : b # a => x.space[b] = m.space[b]
    BY <1>0, <2>1 DEF t
  <2>4. \A v \in Pages : m.owner[v] # a
    BY DEF Sound, RegionsOK, SpaceOK
  <2>5. Fresh(x, a)
    BY <1>1, <2>2, <2>3, <2>4 DEF Fresh
  <2>6. SpaceOK(x, a)
    <3>1. DOMAIN x.space[a].regions = {}
      BY <2>2, <2>3
    <3>2. x.space[a].nextUserBase <= PageCount
      BY <2>2, <2>3, MmFacts
    <3> QED BY <2>2, <2>3, <3>1, <3>2 DEF SpaceOK
  <2>7. ASSUME NEW b \in Spaces, b # a PROVE SpaceOK(x, b)
    <3>1. SpaceOK(m, b) /\ x.space[b] = m.space[b]
      BY <2>3, <2>7 DEF Sound, RegionsOK
    <3>2. \A r : RegionOK(m, b, r) => RegionOK(x, b, r)
      BY <1>1, <3>1 DEF RegionOK
    <3> QED BY <1>1, <3>1, <3>2 DEF SpaceOK
  <2>8. RegionsOK(x)
    BY <2>6, <2>7 DEF RegionsOK
  <2>9. Settled(x)
    BY <1>1, <2>2, <2>3 DEF Sound, Settled, Below
  <2> QED BY <1>1, <2>2, <2>3, <2>5, <2>8, <2>9 DEF Sound
<1> QED BY <1>1, <1>2, <1>3

(* How nextUserBase and the state of its process may change in a space. *)
Restarted(m, a, t) ==
  /\ m.space[a].inUse /\ t \in SpaceRecords /\ t.inUse = m.space[a].inUse
  /\ t.root = m.space[a].root /\ t.regions = m.space[a].regions
  /\ \/ t.nextUserBase = m.space[a].nextUserBase
     \/ m.space[a].regions = <<>> /\ t.nextUserBase <= PageCount
  /\ t.runs => /\ UserBase <= t.nextUserBase
               /\ \A v \in Pages : m.owner[v] = a => v < t.nextUserBase

Respaced(m, x, a, t) == x = [m EXCEPT !.space[a] = t]

(* Such a change keeps the state sound. *)
LEMMA SetSpaceOK ==
  ASSUME NEW m, Sound(m), NEW a \in Spaces, NEW t, Restarted(m, a, t),
         NEW x, Respaced(m, x, a, t)
  PROVE  Sound(x) /\ x.space[a] = t /\ x.owner = m.owner
<1>0. m \in States /\ m.space \in [Spaces -> SpaceRecords] /\ m.space[a] \in SpaceRecords
  BY DEF Sound, FramesOK, States
<1>1. /\ t \in SpaceRecords /\ t.inUse = m.space[a].inUse /\ t.root = m.space[a].root
      /\ t.regions = m.space[a].regions
  BY DEF Restarted
<1>u. m.space[a].inUse
  BY DEF Restarted
<1>2. x = [m EXCEPT !.space = [m.space EXCEPT ![a] = t]]
  BY <1>0 DEF States, Respaced
<1>3. /\ x.space = [m.space EXCEPT ![a] = t] /\ x.pte = m.pte /\ x.owner = m.owner
      /\ x.section = m.section /\ x.table = m.table /\ x.leaked = m.leaked
      /\ x.used = m.used /\ x.refs = m.refs /\ x.reached = m.reached /\ x.ok = m.ok
  BY <1>0, <1>2 DEF States
<1>4. x \in States
  <2>1. [m.space EXCEPT ![a] = t] \in [Spaces -> SpaceRecords]
    BY <1>0, <1>1
  <2> QED BY <1>0, <1>2, <2>1 DEF States
<1>5. \A b \in Spaces : /\ x.space[b].inUse = m.space[b].inUse /\ x.space[b].root = m.space[b].root
                        /\ x.space[b].regions = m.space[b].regions
                        /\ b # a => x.space[b] = m.space[b]
  BY <1>0, <1>1, <1>3
<1>6. /\ \A f : /\ PteUse(x, f) = PteUse(m, f) /\ SectionUse(x, f) = SectionUse(m, f)
                /\ RootUse(x, f) = RootUse(m, f) /\ TableUse(x, f) = TableUse(m, f)
      /\ \A s : SectionFrames(x, s) = SectionFrames(m, s) /\ ViewsOf(x, s) = ViewsOf(m, s)
  BY <1>3, <1>5 DEF PteUse, SectionUse, RootUse, TableUse, SectionFrames, ViewsOf
<1>7. Counted(x, NoExtra)
  <2>1. Counted(m, NoExtra) /\ \A f : UsesIn(x, f) = UsesIn(m, f)
    BY <1>6 DEF Sound, FramesOK, UsesIn
  <2>2. x.refs = m.refs /\ x.used = m.used /\ x.leaked = m.leaked
    BY <1>3
  <2> QED BY <2>1, <2>2 DEF Counted
<1>8. Exclusive(x) /\ SectionsHeld(x)
  <2>1. Exclusive(m) /\ SectionsHeld(m)
    BY DEF Sound, FramesOK
  <2>2. x.leaked = m.leaked /\ x.section = m.section
    BY <1>3
  <2>3. Exclusive(x)
    BY <1>6, <2>1, <2>2 DEF Exclusive
  <2>4. SectionsHeld(x)
    BY <1>6, <2>1, <2>2 DEF SectionsHeld
  <2> QED BY <2>3, <2>4
<1>9. SpacesTidy(x)
  <2>1. SpacesTidy(m)
    BY DEF Sound, FramesOK
  <2>2. ASSUME NEW b \in Spaces PROVE /\ ~ x.space[b].inUse => x.space[b] = NoSpace
                                     /\ Len(x.space[b].regions) <= MaxRegions
    BY <1>5, <1>u, <2>1 DEF SpacesTidy
  <2> QED BY <2>2 DEF SpacesTidy
<1>10. RegionsOK(x)
  <2> SUFFICES ASSUME NEW b \in Spaces PROVE SpaceOK(x, b)
    BY DEF RegionsOK
  <2>1. SpaceOK(m, b)
        /\ x.space[b].regions = m.space[b].regions /\ x.space[b].inUse = m.space[b].inUse
    BY <1>5 DEF Sound, RegionsOK
  <2>8. x.space[b].nextUserBase = m.space[b].nextUserBase
        \/ (x.space[b].regions = <<>> /\ x.space[b].nextUserBase <= PageCount)
    BY <1>0, <1>3, <1>5 DEF Restarted
  <2>2. \A r : x.space[b].nextUserBase = m.space[b].nextUserBase /\ RegionOK(m, b, r)
               => RegionOK(x, b, r)
    BY <1>3, <2>1 DEF RegionOK
  <2>3. x.owner = m.owner
    BY <1>3
  <2>4. x.space[b].nextUserBase <= PageCount
    BY <2>1, <2>8 DEF SpaceOK
  <2>5. \A i \in DOMAIN x.space[b].regions : RegionOK(x, b, x.space[b].regions[i])
    <3>1. x.space[b].regions = <<>> => DOMAIN x.space[b].regions = {}
      OBVIOUS
    <3> QED BY <2>1, <2>2, <2>8, <3>1 DEF SpaceOK
  <2>6. \A i, j \in DOMAIN x.space[b].regions : \A v \in Pages :
          Within(x.space[b].regions[i], v) /\ Within(x.space[b].regions[j], v) => i = j
    BY <2>1 DEF SpaceOK
  <2>7. ~ x.space[b].inUse => \A v \in Pages : x.owner[v] # b
    BY <2>1, <2>3 DEF SpaceOK
  <2> QED BY <2>4, <2>5, <2>6, <2>7 DEF SpaceOK
<1>11. x.space[a] = t
  BY <1>0, <1>3
<1>12. Settled(x)
  <2>1. ASSUME NEW b \in Spaces, x.space[b].runs
        PROVE  Below(x, b) /\ UserBase <= x.space[b].nextUserBase
    <3>1. CASE b = a
      BY <1>3, <1>11, <2>1, <3>1 DEF Restarted, Below
    <3>2. CASE b # a
      BY <1>3, <1>5, <2>1, <3>2 DEF Sound, Settled, Below
    <3> QED BY <3>1, <3>2
  <2> QED BY <2>1 DEF Settled
<1> QED BY <1>3, <1>12, <1>4, <1>7, <1>8, <1>9, <1>10, <1>11, NoExtraTyped DEF Sound, FramesOK

(* The process of a space starts to run. *)
LEMMA StartOK ==
  ASSUME NEW m, Sound(m), NEW a \in Spaces, m.space[a].inUse, Below(m, a),
         UserBase <= m.space[a].nextUserBase, NEW x, x = [m EXCEPT !.space[a].runs = TRUE]
  PROVE  Sound(x)
<1> DEFINE t == [m.space[a] EXCEPT !.runs = TRUE]
<1>0. m \in States /\ m.space \in [Spaces -> SpaceRecords] /\ m.space[a] \in SpaceRecords
  BY DEF Sound, FramesOK, States
<1>1. /\ t \in SpaceRecords /\ t.inUse = m.space[a].inUse /\ t.root = m.space[a].root
      /\ t.nextUserBase = m.space[a].nextUserBase /\ t.regions = m.space[a].regions
  BY <1>0 DEF SpaceRecords
<1>2. Respaced(m, x, a, t)
  BY <1>0 DEF States, Respaced
<1> HIDE DEF t
<1>3. Restarted(m, a, t)
  BY <1>1 DEF Restarted, Below
<1> QED BY <1>2, <1>3, SetSpaceOK

(* A new space is given the base of its image. *)
PlacedAt(m, x, a, base) == base <= PageCount /\ x = [m EXCEPT !.space[a].nextUserBase = base]

LEMMA PlacedOK ==
  ASSUME NEW m, Sound(m), NEW a \in Spaces, Fresh(m, a), NEW base \in Nat,
         NEW x, PlacedAt(m, x, a, base)
  PROVE  Sound(x) /\ Fresh(x, a) /\ x.space[a].nextUserBase = base
<1>1. PICK t : t = [m.space[a] EXCEPT !.nextUserBase = base]
  OBVIOUS
<1>2. m \in States /\ m.space \in [Spaces -> SpaceRecords] /\ m.space[a] \in SpaceRecords
  BY DEF Sound, FramesOK, States
<1>3. /\ t \in SpaceRecords /\ t.inUse = m.space[a].inUse /\ t.root = m.space[a].root
      /\ t.nextUserBase = base /\ t.regions = m.space[a].regions /\ t.runs = m.space[a].runs
  BY <1>1, <1>2 DEF SpaceRecords
<1>4. Respaced(m, x, a, t)
  BY <1>1, <1>2 DEF States, Respaced, PlacedAt
<1>5. Restarted(m, a, t)
  BY <1>3 DEF Restarted, Fresh, PlacedAt
<1>6. Sound(x) /\ x.space[a] = t /\ x.owner = m.owner
  BY <1>4, <1>5, SetSpaceOK
<1> QED BY <1>3, <1>6 DEF Fresh

(* What a successful MmAsMapPage did, entry by entry. *)
LEMMA MapsEffect ==
  ASSUME NEW m \in States, NEW x, NEW a, NEW v \in Pages, NEW f \in Frames, NEW bits,
         Maps(m, x, a, v, f, bits)
  PROVE  /\ x.pte[v].bits = bits /\ x.pte[v].frame = f /\ f # NoFrame /\ x.owner[v] = a
         /\ \A u \in Pages : u # v => x.pte[u] = m.pte[u] /\ x.owner[u] = m.owner[u]
         /\ x.space = m.space /\ x.section = m.section
<1>1. m.pte \in [Pages -> PteRecords] /\ m.owner \in [Pages -> Nat]
  BY DEF States
<1> QED BY <1>1, MmFacts DEF Maps

(* What the region's section holds at a page of its view. *)
Shown(m, r, v, f) == r.kind = "section" => f = m.section[r.section].pages[v - r.base + 1]

(* A page fault maps a page of one region as the region says. *)
LEMMA MapRegions ==
  ASSUME NEW m \in States, RegionsOK(m), Settled(m), NEW x, NEW a \in Spaces, m.space[a].inUse,
         NEW v \in Pages, NEW f \in Frames, NEW i \in DOMAIN m.space[a].regions,
         NEW r \in RegionRecords, r = m.space[a].regions[i],
         Within(r, v), Maps(m, x, a, v, f, r.bits),
         Shown(m, r, v, f)
  PROVE  RegionsOK(x) /\ Settled(x)
<1>3. /\ x.pte[v].bits = r.bits /\ x.pte[v].frame = f /\ f # NoFrame /\ x.owner[v] = a
      /\ \A u \in Pages : u # v => x.pte[u] = m.pte[u] /\ x.owner[u] = m.owner[u]
      /\ x.space = m.space /\ x.section = m.section
  BY MapsEffect
<1>r. x.reached = m.reached \ {v}
  BY DEF Maps
<1>4. ASSUME NEW b \in Spaces, NEW j \in DOMAIN m.space[b].regions
      PROVE  RegionOK(x, b, m.space[b].regions[j])
  <2> DEFINE q == m.space[b].regions[j]
  <2>1. RegionOK(m, b, q)
    BY DEF RegionsOK, SpaceOK
  <2>2. b = a /\ Within(q, v) => q = r
    BY DEF RegionsOK, SpaceOK
  <2> HIDE DEF q
  <2>3. ASSUME NEW u \in Pages, Within(q, u)
        PROVE  /\ q.kind = "wired" => x.pte[u].frame # NoFrame
               /\ x.owner[u] = b =>
                    /\ u \notin x.reached => x.pte[u].bits \subseteq q.bits
                    /\ Shown(x, q, u, x.pte[u].frame)
    <3>1. CASE u # v
      <4>1. /\ q.kind = "wired" => m.pte[u].frame # NoFrame
            /\ m.owner[u] = b => /\ u \notin m.reached => m.pte[u].bits \subseteq q.bits
                                 /\ Shown(m, q, u, m.pte[u].frame)
        BY <2>1, <2>3 DEF RegionOK, Shown
      <4>2. /\ x.pte[u] = m.pte[u] /\ x.owner[u] = m.owner[u] /\ x.section = m.section
            /\ u \notin x.reached => u \notin m.reached
        BY <1>3, <1>r, <3>1
      <4>3. Shown(m, q, u, m.pte[u].frame) => Shown(x, q, u, x.pte[u].frame)
        BY <4>2 DEF Shown
      <4> QED BY <4>1, <4>2, <4>3
    <3>2. CASE u = v /\ b # a
      BY <1>3, <3>2
    <3>3. CASE u = v /\ b = a
      <4>1. q = r
        BY <2>2, <2>3, <3>3
      <4>2. Shown(x, r, v, f)
        BY <1>3 DEF Shown
      <4> QED BY <1>3, <3>3, <4>1, <4>2
    <3> QED BY <3>1, <3>2, <3>3
  <2>4. RegionOK(x, b, q)
    BY <1>3, <2>1, <2>3 DEF RegionOK, Shown
  <2> QED BY <2>4 DEF q
<1>5. ASSUME NEW b \in Spaces PROVE SpaceOK(x, b)
  <2>1. SpaceOK(m, b)
    BY DEF RegionsOK
  <2>2. ~ x.space[b].inUse => \A u \in Pages : x.owner[u] # b
    BY <1>3, <2>1 DEF SpaceOK
  <2> QED BY <1>3, <1>4, <2>1, <2>2 DEF SpaceOK
<1>6. v < m.space[a].nextUserBase
  <2>1. RegionOK(m, a, r) /\ m.space[a].nextUserBase \in Nat
    BY DEF RegionsOK, SpaceOK, States, SpaceRecords
  <2>2. r.base \in Nat /\ r.size \in Nat /\ v \in Nat
    BY DEF RegionRecords, Pages
  <2>3. v < r.base + r.size /\ r.base + r.size <= m.space[a].nextUserBase
    BY <2>1 DEF RegionOK, Within
  <2> QED BY <2>1, <2>2, <2>3
<1>7. Settled(x)
  BY <1>3, <1>6 DEF Settled, Below
<1> QED BY <1>5, <1>7 DEF RegionsOK

(* MmpRetainPage of a section's page: the caller gets a reference. *)
LEMMA RetainFrames ==
  ASSUME NEW m, FramesOK(m, NoExtra), NEW s \in Sections, NEW f \in SectionFrames(m, s),
         NEW x, x = MmpRetainPage(m, f)
  PROVE  /\ FramesOK(x, [NoExtra EXCEPT ![f] = 1]) /\ SameUses(m, x) /\ f \in Frames
<1> DEFINE more == [NoExtra EXCEPT ![f] = 1]
<1>0. /\ m \in States /\ m.refs \in [Frames -> Nat] /\ m.section[s].pages \in Seq(Frames)
      /\ Len(m.section[s].pages) <= MaxSectionPages
  BY DEF FramesOK, States, SectionRecords, SectionsHeld
<1>1. PICK i \in DOMAIN m.section[s].pages : f = m.section[s].pages[i]
  BY DEF SectionFrames
<1>2. f \in Frames /\ i \in 1 .. MaxSectionPages
  <2>1. \A q \in Seq(Frames) : Len(q) \in Nat /\ DOMAIN q = 1 .. Len(q) /\ \A j \in DOMAIN q : q[j] \in Frames
    OBVIOUS
  <2> DEFINE n == Len(m.section[s].pages)
  <2>2. n \in Nat /\ i \in 1 .. n /\ n <= MaxSectionPages /\ f \in Frames
    BY <1>0, <1>1, <2>1
  <2> HIDE DEF n
  <2> QED BY <2>2, MmFacts
<1>3. <<s, i>> \in SectionUse(m, f)
  BY <1>1, <1>2 DEF SectionUse
<1>4. m.refs[f] > 0 /\ m.refs[f] \in Nat
  <2>1. Cardinality(SectionUse(m, f)) > 0
    BY <1>3, UseFinite, FS_EmptySet
  <2>2. UsesIn(m, f) > 0 /\ UsesIn(m, f) \in Nat
    BY <2>1, UseFinite DEF UsesIn
  <2>3. One(f \in m.leaked) \in Nat
    BY DEF One
  <2>4. m.refs[f] = UsesIn(m, f) + One(f \in m.leaked) + NoExtra[f] /\ NoExtra[f] = 0
    BY <1>2, NoExtraTyped DEF FramesOK, Counted
  <2> QED BY <2>2, <2>3, <2>4
<1>5. x = [m EXCEPT !.refs[f] = @ + 1]
  BY <1>4 DEF MmpRetainPage
<1>6. x.refs = [m.refs EXCEPT ![f] = m.refs[f] + 1] /\ x.used = m.used /\ SameUses(m, x)
  BY <1>0, <1>5 DEF States, SameUses
<1>7. x \in States
  <2>1. [m.refs EXCEPT ![f] = m.refs[f] + 1] \in [Frames -> Nat]
    <3>1. m.refs[f] + 1 \in Nat
      BY <1>4
    <3> QED BY <1>0, <1>2, <3>1
  <2>2. x = [m EXCEPT !.refs = [m.refs EXCEPT ![f] = m.refs[f] + 1]]
    BY <1>0, <1>5 DEF States
  <2> QED BY <1>0, <2>1, <2>2 DEF States
<1>8. more \in Extras /\ \A h \in Frames : more[h] = One(h = f)
  BY <1>2 DEF Extras, NoExtra, One
<1> HIDE DEF more
<1>9. Counted(x, more)
  <2> SUFFICES ASSUME NEW h \in Frames
               PROVE  /\ x.refs[h] = UsesIn(x, h) + One(h \in x.leaked) + more[h]
                      /\ h \in x.used <=> x.refs[h] > 0
    BY DEF Counted
  <2>1. UsesIn(x, h) = UsesIn(m, h) /\ x.leaked = m.leaked
    BY <1>6, SameUsesCount DEF SameUses
  <2>2. /\ m.refs[h] = UsesIn(m, h) + One(h \in m.leaked) + NoExtra[h] /\ NoExtra[h] = 0
        /\ h \in m.used <=> m.refs[h] > 0
    BY NoExtraTyped DEF FramesOK, Counted
  <2>3. UsesIn(m, h) \in Nat
    BY UseFinite DEF UsesIn
  <2>4. One(h \in m.leaked) \in Nat
    BY DEF One
  <2>5. CASE h = f
    <3>1. more[h] = 1 /\ x.refs[h] = m.refs[h] + 1
      BY <1>0, <1>6, <1>8, <2>5 DEF One
    <3> QED BY <1>4, <1>6, <2>1, <2>2, <2>3, <2>4, <2>5, <3>1
  <2>6. CASE h # f
    <3>1. more[h] = 0 /\ x.refs[h] = m.refs[h]
      BY <1>0, <1>6, <1>8, <2>6 DEF One
    <3> QED BY <1>6, <2>1, <2>2, <3>1
  <2> QED BY <2>5, <2>6
<1>10. Exclusive(x) /\ SectionsHeld(x) /\ SpacesTidy(x)
  BY <1>6, SameUsesCount DEF FramesOK
<1> QED BY <1>2, <1>6, <1>7, <1>8, <1>9, <1>10 DEF FramesOK, more

(* Regions added after the image leave it first. *)
LEMMA ImageStays ==
  ASSUME NEW m, FramesOK(m, NoExtra), NEW x, NEW a \in Spaces, NEW n \in Nat, NEW k \in Nat,
         NEW kind \in {"lazy", "wired", "guard"}, NEW bits \in SUBSET AccessBits,
         NEW base \in Nat, Grows(m, x, a, k, kind, bits), ImageFirst(m, a, base, n),
         base + n <= m.space[a].nextUserBase
  PROVE  Below(x, a) /\ ImageFirst(x, a, base, n)
<1> DEFINE r == NewRegion(m, a, k, kind, bits, 0)
           q == m.space[a].regions
<1>1. /\ q \in Seq(RegionRecords) /\ m.space[a].nextUserBase \in Nat
  BY DEF FramesOK, States, SpaceRecords
<1>2. r \in RegionRecords
  BY <1>1 DEF NewRegion, RegionRecords, RegionKinds
<1>3. x.space[a].regions = Append(q, r)
  BY DEF Grows
<1> HIDE DEF r
<1>4. 1 \in DOMAIN Append(q, r) /\ Append(q, r)[1] = q[1]
  <2>1. 1 \in DOMAIN q
    BY DEF ImageFirst
  <2> HIDE DEF q
  <2> QED BY <1>1, <1>2, <2>1, AppendFacts
<1>5. \A v \in Pages : v \in base .. base + n - 1 => x.owner[v] = a
  <2> SUFFICES ASSUME NEW v \in Pages, v \in base .. base + n - 1 PROVE x.owner[v] = a
    OBVIOUS
  <2>1. v < m.space[a].nextUserBase
    BY <1>1 DEF Pages
  <2> QED BY <2>1 DEF Grows, ImageFirst
<1> QED BY <1>3, <1>4, <1>5 DEF ImageFirst, Grows

-----------------------------------------------------------------------------
(***************************************************************************)
(* The actions.                                                            *)
(***************************************************************************)
(* An image below MM_USER_BASE whose first page cannot be wired is not     *)
(* mapped at all.                                                          *)
LEMMA LowImageFails ==
  ASSUME NEW m, Sound(m), m.ok = TRUE, NEW a \in Spaces, NEW n \in Nat, NEW bits,
         NEW base \in Pages, base = m.space[a].nextUserBase, m.space[a].regions = <<>>,
         ~ WirePage(m, a, base, bits).ok,
         NEW x, x = MmMapAnonymous(m, a, n, "wired", bits)
  PROVE  n # 0 => Sound(x) /\ ~ x.ok
<1> DEFINE y == WirePage(m, a, base, bits)
<1>0. m \in States /\ base \in Nat
  BY DEF Sound, FramesOK, Pages
<1>1. FramesOK(y, NoExtra) /\ SameMaps(m, y)
  BY WirePageFails DEF Sound
<1>2. Ok(m) = m
  BY <1>0 DEF Ok, States
<1>3. n # 0 => WirePages(m, a, base, n, bits) = y
  <2>1. y = WirePage(Ok(m), a, base, bits) /\ ~ y.ok /\ Ok(m).ok
    BY <1>2
  <2> HIDE DEF y
  <2> QED BY <1>0, <2>1, WireFails
<1> SUFFICES ASSUME n # 0 PROVE Sound(x) /\ ~ x.ok
  OBVIOUS
<1>7. WirePages(m, a, base, n, bits) = y
  BY <1>3
<1>8. ~ (Len(m.space[a].regions) >= MaxRegions)
  <2>1. Len(<<>>) = 0
    OBVIOUS
  <2> QED BY <2>1, MmFacts
<1>9. x = y
  BY <1>7, <1>8 DEF MmMapAnonymous
<1>10. RegionsOK(y) /\ Settled(y)
  BY <1>1, SameMapsRegions DEF Sound
<1> QED BY <1>1, <1>9, <1>10 DEF Sound

(* PsSpawnUserKpeFromBuffer keeps the state sound wherever it fails, as    *)
(* long as no image is mapped below MM_USER_BASE.                          *)
LEMMA SpawnStep ==
  ASSUME Sound(mm), NEW base \in Pages, NEW n \in Nat \ {0}, NEW sections \in Seq(SectionRows),
         NEW end, PsSpawnUserKpeFromBuffer(base, n, sections, end), machine' = "up"
  PROVE  Sound(mm')
<1> DEFINE free    == {b \in Spaces : ~ mm.space[b].inUse}
           a       == CHOOSE f \in free : \A g \in free : f <= g
           created == MmCreateAddressSpace(mm, a)
           placed  == [created EXCEPT !.space[a].nextUserBase = base]
           image   == MmMapAnonymous(placed, a, n, "wired", AccessBits)
           guard   == MmMapAnonymous(image, a, 1, "guard", {})
           stack   == MmMapAnonymous(guard, a, 1, "wired", {"W"})
           guarded == ProtectSections(stack, base, n, sections)
           mapping == free # {} /\ created.ok /\ end # "base"
           wired   == WirePage(placed, a, base, AccessBits)
           last    == IF free = {} THEN mm
                      ELSE IF ~ mapping THEN created
                      ELSE IF ~ image.ok THEN image
                      ELSE IF ~ guard.ok THEN guard
                      ELSE IF ~ stack.ok \/ end = "finalize" THEN stack
                      ELSE PsCreateUserThread(guarded, a, base, n, end)
<1>1. /\ mm' = Ok(last) /\ base + n + 2 <= PageCount /\ SectionsFit(base, sections)
      /\ ~ (mapping /\ base < UserBase /\ wired.ok)
  <2>1. /\ mm' = Ok(last) /\ base + n + 2 <= PageCount /\ SectionsFit(base, sections)
        /\ machine' = IF mapping /\ base < UserBase /\ wired.ok THEN "overlaid" ELSE "up"
    BY DEF PsSpawnUserKpeFromBuffer, SectionsFit
  <2> HIDE DEF mapping, wired, last
  <2> QED BY <2>1
<1>2. free # {} => a \in free
  <2>1. free \subseteq Nat
    BY DEF Spaces
  <2> HIDE DEF free
  <2> QED BY <2>1, FirstIsMember
<1>3. n \in Nat /\ 1 \in Nat /\ {"W"} \in SUBSET AccessBits
      /\ {} \in SUBSET AccessBits /\ AccessBits \in SUBSET AccessBits
  BY DEF AccessBits
<1>n. base \in Nat /\ base <= PageCount /\ PageCount \in Nat
  BY MmFacts DEF Pages
<1> SUFFICES Sound(last)
  BY <1>1, SoundOk
<1>4. CASE free = {}
  BY <1>4
<1>5. CASE free # {}
  <2>1. a \in Spaces /\ ~ mm.space[a].inUse
    BY <1>2, <1>5
  <2>2. /\ Sound(created)
        /\ created.ok => Fresh(created, a)
    <3> HIDE DEF free, a
    <3> QED BY <2>1, CreateSpaceOK
  <2>3. CASE ~ created.ok \/ end = "base"
    <3> HIDE DEF free, a, created, image, guard, stack, guarded
    <3> QED BY <1>5, <2>2, <2>3
  <2>4. CASE created.ok /\ end # "base"
    <3>m. mapping
      BY <1>5, <2>4
    <3> HIDE DEF free, a, created, mapping
    <3>1. /\ Sound(placed) /\ placed.space[a].inUse /\ placed.space[a].nextUserBase = base
          /\ placed.space[a].regions = <<>> /\ placed.space[a].runs = FALSE
          /\ Below(placed, a) /\ placed.ok = TRUE
      <4>1. Sound(created) /\ Fresh(created, a)
        BY <2>2, <2>4
      <4>p. PlacedAt(created, placed, a, base)
        BY <1>n DEF PlacedAt
      <4>2. Sound(placed) /\ Fresh(placed, a) /\ placed.space[a].nextUserBase = base
        <5>1. a \in Spaces
          BY <2>1
        <5>2. base \in Nat
          BY <1>n
        <5> HIDE DEF placed, image, guard, stack, guarded, wired, last
        <5>3. \A x : PlacedAt(created, x, a, base) =>
                       Sound(x) /\ Fresh(x, a) /\ x.space[a].nextUserBase = base
          BY <4>1, <5>1, <5>2, PlacedOK
        <5> QED BY <4>p, <5>3
      <4>3. created.ok = TRUE
        BY <2>4, <4>1 DEF Sound, FramesOK, States
      <4>4. placed.ok = TRUE
        BY <4>1, <4>3 DEF Sound, FramesOK, States
      <4> HIDE DEF placed
      <4> QED BY <4>2, <4>4 DEF Fresh, Below
    <3> HIDE DEF placed
    <3>l. CASE base < UserBase
      <4>1. ~ WirePage(placed, a, base, AccessBits).ok
        BY <1>1, <3>m, <3>l
      <4>2. Sound(image) /\ ~ image.ok
        BY <1>3, <2>1, <3>1, <4>1, LowImageFails
      <4> HIDE DEF image, guard, stack, guarded
      <4> QED BY <1>5, <3>m, <4>2
    <3>u. CASE UserBase <= base
      <4>1. /\ Sound(image)
            /\ image.space[a].inUse /\ image.space[a].runs = FALSE
            /\ image.ok => Grows(placed, image, a, n, "wired", AccessBits)
        <5>1. UserBase <= placed.space[a].nextUserBase /\ placed.space[a].nextUserBase + n <= PageCount
          BY <1>1, <1>3, <1>n, <3>1, <3>u, MmFacts
        <5>2. /\ FramesOK(image, NoExtra) /\ RegionsOK(image) /\ Settled(image)
              /\ \A b \in Spaces : /\ image.space[b].runs = placed.space[b].runs
                                   /\ image.space[b].inUse = placed.space[b].inUse
              /\ image.ok => Grows(placed, image, a, n, "wired", AccessBits)
          BY <1>3, <2>1, <3>1, <5>1, MapAnonymousOK DEF Sound
        <5> QED BY <2>1, <3>1, <5>2 DEF Sound
      <4> HIDE DEF image
      <4>2. CASE ~ image.ok
        BY <1>5, <3>m, <4>1, <4>2
      <4>3. CASE image.ok
        <5>1. /\ Below(image, a) /\ image.space[a].nextUserBase = base + n
              /\ ImageFirst(image, a, base, n)
          <6>1. Grows(placed, image, a, n, "wired", AccessBits)
            BY <4>1, <4>3
          <6>2. Below(image, a) /\ image.space[a].nextUserBase = base + n
            BY <3>1, <6>1 DEF Grows
          <6> DEFINE r == NewRegion(placed, a, n, "wired", AccessBits, 0)
          <6>3. r.base = base /\ r.size = n /\ r.bits = AccessBits
            BY <3>1 DEF NewRegion
          <6>4. image.space[a].regions = Append(<<>>, r)
            BY <3>1, <6>1 DEF Grows
          <6> HIDE DEF r
          <6>5. 1 \in DOMAIN image.space[a].regions /\ image.space[a].regions[1] = r
            BY <6>4
          <6>6. ASSUME NEW v \in Pages, v \in base .. base + n - 1 PROVE image.owner[v] = a
            <7>1. base <= v /\ v < base + n
              BY <1>3, <1>n, <6>6 DEF Pages
            <7> QED BY <3>1, <6>1, <7>1 DEF Grows
          <6> QED BY <6>2, <6>3, <6>5, <6>6 DEF ImageFirst
        <5>2. /\ Sound(guard)
              /\ guard.space[a].inUse /\ guard.space[a].runs = FALSE
              /\ guard.ok => Grows(image, guard, a, 1, "guard", {})
          <6>1. UserBase <= image.space[a].nextUserBase /\ image.space[a].nextUserBase + 1 <= PageCount
            BY <1>1, <1>3, <1>n, <3>u, <5>1, MmFacts
          <6>2. /\ FramesOK(guard, NoExtra) /\ RegionsOK(guard) /\ Settled(guard)
                /\ \A b \in Spaces : /\ guard.space[b].runs = image.space[b].runs
                                     /\ guard.space[b].inUse = image.space[b].inUse
                /\ guard.ok => Grows(image, guard, a, 1, "guard", {})
            BY <1>3, <2>1, <4>1, <5>1, <6>1, MapAnonymousOK DEF Sound
          <6> QED BY <2>1, <4>1, <6>2 DEF Sound
        <5> HIDE DEF guard
        <5>3. CASE ~ guard.ok
          BY <1>5, <3>m, <4>3, <5>2, <5>3
        <5>4. CASE guard.ok
          <6>1. /\ Below(guard, a) /\ guard.space[a].nextUserBase = base + n + 1
                /\ ImageFirst(guard, a, base, n)
            <7>1. Grows(image, guard, a, 1, "guard", {}) /\ FramesOK(image, NoExtra)
              BY <4>1, <5>2, <5>4 DEF Sound
            <7>2. base + n <= image.space[a].nextUserBase
              BY <1>3, <1>n, <5>1
            <7>3. Below(guard, a) /\ ImageFirst(guard, a, base, n)
              BY <1>3, <1>n, <2>1, <5>1, <7>1, <7>2, ImageStays
            <7>4. guard.space[a].nextUserBase = base + n + 1
              BY <5>1, <7>1 DEF Grows
            <7> QED BY <7>3, <7>4
          <6>2. /\ Sound(stack)
                /\ stack.space[a].inUse /\ stack.space[a].runs = FALSE
                /\ stack.ok => Grows(guard, stack, a, 1, "wired", {"W"})
            <7>1. UserBase <= guard.space[a].nextUserBase /\ guard.space[a].nextUserBase + 1 <= PageCount
              BY <1>1, <1>3, <1>n, <3>u, <6>1, MmFacts
            <7>2. /\ FramesOK(stack, NoExtra) /\ RegionsOK(stack) /\ Settled(stack)
                  /\ \A b \in Spaces : /\ stack.space[b].runs = guard.space[b].runs
                                       /\ stack.space[b].inUse = guard.space[b].inUse
                  /\ stack.ok => Grows(guard, stack, a, 1, "wired", {"W"})
              BY <1>3, <2>1, <5>2, <6>1, <7>1, MapAnonymousOK DEF Sound
            <7> QED BY <2>1, <5>2, <7>2 DEF Sound
          <6> HIDE DEF stack
          <6>3. CASE ~ stack.ok \/ end = "finalize"
            BY <1>5, <3>m, <4>3, <5>4, <6>2, <6>3
          <6>4. CASE stack.ok /\ end # "finalize"
            <7>1. Below(stack, a) /\ ImageFirst(stack, a, base, n) /\ UserBase <= stack.space[a].nextUserBase
              <8>1. Grows(guard, stack, a, 1, "wired", {"W"}) /\ FramesOK(guard, NoExtra)
                BY <5>2, <6>2, <6>4 DEF Sound
              <8>2. base + n <= guard.space[a].nextUserBase
                BY <1>3, <1>n, <6>1
              <8>3. Below(stack, a) /\ ImageFirst(stack, a, base, n)
                BY <1>3, <1>n, <2>1, <6>1, <8>1, <8>2, ImageStays
              <8>4. stack.space[a].nextUserBase = base + n + 1 + 1
                BY <6>1, <8>1 DEF Grows
              <8>5. UserBase <= base + n + 1 + 1
                BY <1>3, <1>n, <3>u, MmFacts
              <8> QED BY <8>3, <8>4, <8>5
            <7>2. /\ FramesOK(guarded, NoExtra) /\ RegionsOK(guarded) /\ Settled(guarded)
                  /\ guarded.owner = stack.owner /\ guarded.space = stack.space
              BY <1>1, <1>3, <1>n, <2>1, <6>2, <7>1, ProtectOK DEF Sound
            <7>3. /\ Sound(guarded) /\ guarded.space[a].inUse /\ Below(guarded, a)
                  /\ UserBase <= guarded.space[a].nextUserBase
              BY <6>2, <7>1, <7>2 DEF Sound, Below
            <7> HIDE DEF guarded
            <7>4. last = PsCreateUserThread(guarded, a, base, n, end)
              BY <1>5, <3>m, <4>3, <5>4, <6>4
            <7>5. Sound(PsCreateUserThread(guarded, a, base, n, end))
              BY <2>1, <7>3, StartOK DEF PsCreateUserThread
            <7> QED BY <7>4, <7>5
          <6> QED BY <6>3, <6>4
        <5> QED BY <5>3, <5>4
      <4> QED BY <4>2, <4>3
    <3> QED BY <1>n, <3>l, <3>u, MmFacts
  <2> QED BY <2>3, <2>4
<1> QED BY <1>4, <1>5

(* A space that runs is in use, and owns no page above its regions. *)
LEMMA RunningInUse ==
  ASSUME NEW m, Sound(m), NEW a \in Spaces, m.space[a].runs
  PROVE  m.space[a].inUse /\ Below(m, a) /\ UserBase <= m.space[a].nextUserBase
<1>1. Below(m, a) /\ UserBase <= m.space[a].nextUserBase
  BY DEF Sound, Settled
<1>2. ASSUME ~ m.space[a].inUse PROVE FALSE
  <2>1. m.space[a] = NoSpace
    BY <1>2 DEF Sound, FramesOK, SpacesTidy
  <2> QED BY <2>1, EmptyRecords
<1> QED BY <1>1, <1>2

(* The action that maps anonymous memory keeps the state sound. *)
LEMMA MapMemoryStep ==
  ASSUME Sound(mm), NEW a \in Spaces, NEW n \in 1 .. PageCount,
         NEW kind \in {"lazy", "wired", "guard"}, NEW bits \in {{}, {"W"}, {"W", "X"}},
         MapMemory(a, n, kind, bits)
  PROVE  Sound(mm')
<1> DEFINE x == MmMapAnonymous(mm, a, n, kind, bits)
<1>1. /\ mm' = Ok(x) /\ mm.space[a].runs /\ mm.space[a].nextUserBase + n <= PageCount
      /\ kind = "wired" => n = 1
  BY DEF MapMemory, Fits
<1>2. /\ mm.space[a].inUse /\ Below(mm, a) /\ UserBase <= mm.space[a].nextUserBase
      /\ n \in Nat /\ bits \in SUBSET AccessBits
  BY <1>1, RunningInUse DEF AccessBits
<1>3. kind = "wired" /\ mm.space[a].runs => n <= 1
  BY <1>1
<1>4. FramesOK(x, NoExtra) /\ RegionsOK(x) /\ Settled(x)
  BY <1>1, <1>2, <1>3, MapAnonymousOK DEF Sound
<1> HIDE DEF x
<1> QED BY <1>1, <1>4, SoundOk DEF Sound

(* So does MmCreateSectionHandle, on every one of its error paths. *)
LEMMA CreateSectionStep ==
  ASSUME Sound(mm), NEW n \in 1 .. PageCount, NEW rights \in (SUBSET MapRights) \ {{}},
         NEW inserted \in BOOLEAN, MmCreateSectionHandle(n, rights, inserted)
  PROVE  Sound(mm')
<1> DEFINE free   == {r \in Sections : ~ mm.section[r].inUse}
           s      == CHOOSE f \in free : \A g \in free : f <= g
           filled == AddSectionPages(mm, s, n)
           last   == IF free = {} THEN mm
                     ELSE IF ~ filled.ok THEN filled
                     ELSE IF ~ inserted THEN DropSection(filled, s)
                     ELSE [filled EXCEPT !.section[s].rights = rights]
<1>1. mm' = Ok(last) /\ n <= MaxSectionPages /\ n \in Nat
  <2>1. mm' = Ok(last)
    BY Zenon DEF MmCreateSectionHandle
  <2>2. n <= MaxSectionPages
    BY Zenon DEF MmCreateSectionHandle
  <2> HIDE DEF last
  <2> QED BY <2>1, <2>2
<1>2. free # {} => s \in free
  <2>1. free \subseteq Nat
    BY DEF Sections
  <2> HIDE DEF free
  <2> QED BY <2>1, FirstIsMember
<1> SUFFICES Sound(last)
  BY <1>1, SoundOk
<1>3. CASE free = {}
  BY <1>3
<1>4. CASE free # {}
  <2>1. s \in Sections /\ ~ mm.section[s].inUse
    BY <1>2, <1>4
  <2> HIDE DEF free, s
  <2>2. FillInv(mm, filled, s, n)
    BY <1>1, <2>1, FillOK DEF Sound
  <2> HIDE DEF filled
  <2>3. /\ FramesOK(filled, NoExtra) /\ RegionsOK(filled) /\ KeepsSpaces(mm, filled)
        /\ filled.ok => /\ filled.section[s].inUse /\ filled.section[s].refs = 1
                        /\ filled.section[s].rights = {}
    BY <2>2 DEF FillInv
  <2>4. Sound(filled) /\ ViewsOf(filled, s) = {}
    <3>1. ViewsOf(mm, s) = {}
      BY <2>1, FreeSectionNoViews DEF Sound
    <3> QED BY <2>3, <3>1, KeepsSpacesSettled DEF Sound
  <2>5. Cardinality(ViewsOf(filled, s)) = 0
    BY <2>4, FS_EmptySet
  <2>6. CASE ~ filled.ok
    BY <1>4, <2>4, <2>6
  <2>7. CASE filled.ok /\ ~ inserted
    <3> DEFINE x == DropSection(filled, s)
    <3>1. filled.section[s].refs >= 1 + One(filled.section[s].rights # {})
                                    + Cardinality(ViewsOf(filled, s))
      <4>1. One(filled.section[s].rights # {}) = 0
        BY <2>3, <2>7 DEF One
      <4> QED BY <2>3, <2>5, <2>7, <4>1
    <3>2. FramesOK(x, NoExtra) /\ RegionsOK(x) /\ KeepsSpaces(filled, x)
      BY <2>1, <2>3, <2>7, <3>1, DropOK
    <3> HIDE DEF x
    <3>3. Sound(x)
      BY <2>4, <3>2, KeepsSpacesSettled DEF Sound
    <3> QED BY <1>4, <2>7, <3>3 DEF x
  <2>8. CASE filled.ok /\ inserted
    <3> DEFINE t == [filled.section[s] EXCEPT !.rights = rights]
               x == [filled EXCEPT !.section[s] = t]
    <3>1. filled \in States /\ filled.section[s] \in SectionRecords
      BY <2>1, <2>3 DEF FramesOK, States
    <3>2. /\ t \in SectionRecords /\ t.inUse = filled.section[s].inUse /\ t.refs = 1
          /\ t.rights = rights /\ t.pages = filled.section[s].pages
      BY <2>3, <2>8, <3>1 DEF SectionRecords
    <3>3. last = x
      <4>1. last = [filled EXCEPT !.section[s].rights = rights]
        BY <1>4, <2>8
      <4> QED BY <3>1, <4>1 DEF States
    <3> HIDE DEF t, last
    <3>4. /\ t \in SectionRecords /\ t.inUse /\ t.pages = filled.section[s].pages
          /\ t.refs >= One(t.rights # {}) + Cardinality(ViewsOf(filled, s))
      <4>1. One(t.rights # {}) <= 1 /\ One(t.rights # {}) \in Nat
        BY DEF One
      <4> QED BY <2>3, <2>5, <2>8, <3>2, <4>1
    <3>5. FramesOK(x, NoExtra) /\ RegionsOK(x) /\ KeepsSpaces(filled, x)
      BY <2>1, <2>3, <3>4, SetSectionOK
    <3> HIDE DEF x
    <3> QED BY <2>4, <3>3, <3>5, KeepsSpacesSettled DEF Sound
  <2> QED BY <2>6, <2>7, <2>8
<1> QED BY <1>3, <1>4

(* So does MmMapSectionHandle, which keeps the reference it took. *)
LEMMA MapSectionStep ==
  ASSUME Sound(mm), NEW a \in Spaces, NEW s \in Sections, NEW bits \in {{}, {"W"}},
         MmMapSectionHandle(a, s, bits)
  PROVE  Sound(mm')
<1> DEFINE n == Len(mm.section[s].pages)
           t == [mm.section[s] EXCEPT !.refs = @ + 1]
           y == [mm EXCEPT !.section[s] = t]
<1>0. /\ mm \in States /\ mm.section[s] \in SectionRecords /\ mm.section[s].refs \in Nat
      /\ mm.section[s].pages \in Seq(Frames) /\ mm.space[a].regions \in Seq(RegionRecords)
      /\ mm.space[a].nextUserBase \in Nat
  BY DEF Sound, FramesOK, States, SectionRecords, SpaceRecords
<1>1. mm.space[a].runs /\ mm.space[a].nextUserBase + n <= PageCount
  BY DEF MmMapSectionHandle, Fits
<1>2. /\ mm.space[a].inUse /\ Below(mm, a) /\ bits \in SUBSET AccessBits /\ n \in Nat
      /\ UserBase <= mm.space[a].nextUserBase
  <2>1. \A q \in Seq(Frames) : Len(q) \in Nat
    OBVIOUS
  <2> QED BY <1>0, <1>1, <2>1, RunningInUse DEF AccessBits
<1>3. CASE mm' = mm
  BY <1>3
<1>4. CASE /\ ~ (Len(mm.space[a].regions) >= MaxRegions)
           /\ Wanted(bits) \subseteq mm.section[s].rights
           /\ mm' = AddRegion(TakeViewReference(mm, s), a, n, "section", bits, s)
  <2>1. mm.section[s].rights # {}
    BY <1>4 DEF Wanted, MapRights
  <2>2. mm.section[s].inUse
    <3>1. ~ mm.section[s].inUse => mm.section[s] = NoSection
      BY DEF Sound, FramesOK, SectionsHeld
    <3> QED BY <2>1, <3>1, EmptyRecords
  <2>3. /\ t \in SectionRecords /\ t.inUse = mm.section[s].inUse /\ t.refs = mm.section[s].refs + 1
        /\ t.rights = mm.section[s].rights /\ t.pages = mm.section[s].pages
    BY <1>0 DEF SectionRecords
  <2>4. mm' = AddRegion(y, a, n, "section", bits, s)
    <3>1. TakeViewReference(mm, s) = y
      BY <1>0 DEF TakeViewReference, States
    <3> QED BY <1>4, <3>1
  <2> HIDE DEF t
  <2>5. /\ mm.section[s].refs >= One(mm.section[s].rights # {}) + Cardinality(ViewsOf(mm, s))
        /\ One(mm.section[s].rights # {}) \in Nat
    BY DEF Sound, FramesOK, SectionsHeld, One
  <2>6. /\ t.refs >= One(t.rights # {}) + Cardinality(ViewsOf(mm, s)) + 1
        /\ t.refs >= One(t.rights # {}) + Cardinality(ViewsOf(mm, s))
    BY <1>0, <2>3, <2>5, ViewsFinite
  <2>7. FramesOK(y, NoExtra) /\ RegionsOK(y) /\ KeepsSpaces(mm, y)
    <3>1. t \in SectionRecords /\ t.inUse /\ t.pages = mm.section[s].pages
      BY <2>2, <2>3
    <3> QED BY <2>6, <3>1, SetSectionOK DEF Sound
  <2>8. y.section[s] = t
    BY <1>0 DEF States
  <2> HIDE DEF y
  <2>9. /\ y.space = mm.space /\ y.owner = mm.owner /\ y.pte = mm.pte /\ y \in States
        /\ ViewsOf(y, s) = ViewsOf(mm, s) /\ Settled(y)
    BY <2>7, KeepsSpacesSettled DEF KeepsSpaces, FramesOK, Sound
  <2> HIDE DEF n
  <2>10. FramesOK(mm', NoExtra) /\ Extends(y, mm', a, n, "section", bits, s)
    <3>1. s \in Nat /\ "section" \in RegionKinds
      BY DEF Sections, RegionKinds
    <3>2. y.space[a].inUse /\ Len(y.space[a].regions) < MaxRegions
      <4>1. \A q \in Seq(RegionRecords) : Len(q) \in Nat
        OBVIOUS
      <4>2. Len(mm.space[a].regions) \in Nat
        BY <1>0, <4>1
      <4> QED BY <1>2, <1>4, <2>9, <4>2, MmFacts
    <3>3. y.section[s].refs >= One(y.section[s].rights # {}) + Cardinality(ViewsOf(y, s)) + 1
      BY <2>6, <2>8, <2>9
    <3> QED BY <1>2, <2>4, <2>7, <3>1, <3>2, <3>3, AddRegionFrames
  <2>11. RegionsOK(mm')
    <3>1. s \in Nat /\ "section" \in RegionKinds /\ "section" # "wired"
      BY DEF Sections, RegionKinds
    <3>2. y.section[s].inUse /\ n = Len(y.section[s].pages)
      BY <2>2, <2>3, <2>8 DEF n
    <3>3. y.space[a].nextUserBase + n <= PageCount /\ UserBase <= y.space[a].nextUserBase
      BY <1>1, <1>2, <2>9 DEF n
    <3>4. ASSUME NEW v \in Pages, y.space[a].nextUserBase <= v PROVE y.owner[v] # a
      <4>1. v \in Nat /\ mm.space[a].nextUserBase <= v
        BY <2>9, <3>4 DEF Pages
      <4>2. mm.owner[v] = a => v < mm.space[a].nextUserBase
        BY <1>2 DEF Below
      <4> QED BY <1>0, <2>9, <4>1, <4>2
    <3> QED BY <1>2, <2>7, <2>9, <2>10, <3>1, <3>2, <3>3, <3>4, AddedRegions
  <2>12. Settled(mm')
    <3> SUFFICES ASSUME NEW b \in Spaces, mm'.space[b].runs
                 PROVE  Below(mm', b) /\ UserBase <= mm'.space[b].nextUserBase
      BY DEF Settled
    <3>1. mm'.owner = mm.owner
      BY <2>9, <2>10 DEF Extends
    <3>2. CASE b # a
      BY <2>9, <2>10, <3>1, <3>2 DEF Extends, Sound, Settled, Below
    <3>3. CASE b = a
      <4>1. mm'.space[a].nextUserBase = mm.space[a].nextUserBase + n
        BY <2>9, <2>10 DEF Extends
      <4>2. ASSUME NEW v \in Pages, mm.owner[v] = a PROVE v < mm.space[a].nextUserBase + n
        <5>1. v < mm.space[a].nextUserBase /\ v \in Nat
          BY <1>2, <4>2 DEF Below, Pages
        <5> QED BY <1>0, <1>2, <5>1
      <4>3. UserBase <= mm.space[a].nextUserBase + n
        BY <1>0, <1>2, MmFacts
      <4> QED BY <3>1, <3>3, <4>1, <4>2, <4>3 DEF Below
    <3> QED BY <3>2, <3>3
  <2> QED BY <2>10, <2>11, <2>12 DEF Sound
<1> QED BY <1>3, <1>4 DEF MmMapSectionHandle

(* So does closing a handle, which deletes the section only with the last  *)
(* reference.                                                              *)
LEMMA CloseSectionStep ==
  ASSUME Sound(mm), NEW s \in Sections, CloseSection(s)
  PROVE  Sound(mm')
<1> DEFINE t == [mm.section[s] EXCEPT !.rights = {}]
           y == [mm EXCEPT !.section[s] = t]
           x == DropSection(y, s)
<1>0. mm \in States /\ mm.section[s] \in SectionRecords /\ mm.section[s].refs \in Nat
  BY DEF Sound, FramesOK, States, SectionRecords
<1>1. mm.section[s].rights # {} /\ mm' = Ok(x)
  <2>1. [mm EXCEPT !.section[s].rights = {}] = y
    BY <1>0 DEF States
  <2> QED BY <2>1 DEF CloseSection
<1>2. mm.section[s].inUse
  <2>1. ~ mm.section[s].inUse => mm.section[s] = NoSection
    BY DEF Sound, FramesOK, SectionsHeld
  <2> QED BY <1>1, <2>1, EmptyRecords
<1>3. /\ t \in SectionRecords /\ t.inUse = mm.section[s].inUse /\ t.refs = mm.section[s].refs
      /\ t.rights = {} /\ t.pages = mm.section[s].pages
  BY <1>0 DEF SectionRecords
<1> HIDE DEF t
<1>4. t.refs >= 1 + Cardinality(ViewsOf(mm, s)) /\ One(t.rights # {}) = 0
  <2>1. /\ mm.section[s].refs >= One(mm.section[s].rights # {}) + Cardinality(ViewsOf(mm, s))
        /\ One(mm.section[s].rights # {}) = 1
    BY <1>1 DEF Sound, FramesOK, SectionsHeld, One
  <2> QED BY <1>3, <2>1 DEF One
<1>5. FramesOK(y, NoExtra) /\ RegionsOK(y) /\ KeepsSpaces(mm, y)
  <2>1. t \in SectionRecords /\ t.inUse /\ t.pages = mm.section[s].pages
    BY <1>2, <1>3
  <2>2. t.refs >= One(t.rights # {}) + Cardinality(ViewsOf(mm, s))
    BY <1>0, <1>3, <1>4, ViewsFinite
  <2> QED BY <2>1, <2>2, SetSectionOK DEF Sound
<1>6. y.section[s] = t
  BY <1>0 DEF States
<1> HIDE DEF y
<1>7. ViewsOf(y, s) = ViewsOf(mm, s) /\ Settled(y)
  BY <1>5, KeepsSpacesSettled DEF Sound
<1>8. FramesOK(x, NoExtra) /\ RegionsOK(x) /\ KeepsSpaces(y, x)
  <2>1. y.section[s].inUse
    BY <1>2, <1>3, <1>6
  <2>2. y.section[s].refs >= 1 + One(y.section[s].rights # {}) + Cardinality(ViewsOf(y, s))
    BY <1>4, <1>6, <1>7, ViewsFinite
  <2> QED BY <1>5, <2>1, <2>2, DropOK
<1> HIDE DEF x
<1>9. Sound(x)
  BY <1>7, <1>8, KeepsSpacesSettled DEF Sound
<1> QED BY <1>1, <1>9, SoundOk

(* The page fault maps a frame that the handler holds a reference to. *)
LEMMA FaultMaps ==
  ASSUME Sound(mm), NEW a \in Spaces, mm.space[a].inUse, NEW v \in Pages, NEW f \in Frames,
         NEW i \in DOMAIN mm.space[a].regions, NEW r \in RegionRecords,
         r = mm.space[a].regions[i], Within(r, v), Shown(mm, r, v, f),
         NEW y, FramesOK(y, [NoExtra EXCEPT ![f] = 1]), SameUses(mm, y),
         \A s \in Sections : f \in SectionFrames(mm, s) => ViewsOf(mm, s) # {},
         NEW h, h = MmAsMapPage(y, a, v, f, r.bits)
  PROVE  h \in States /\ RegionsOK(h) /\ (h.ok => Sound(h))
<1> DEFINE more == [NoExtra EXCEPT ![f] = 1]
<1>0. mm \in States /\ RegionsOK(mm) /\ Settled(mm) /\ FramesOK(mm, NoExtra)
  BY DEF Sound, FramesOK
<1>1. more[f] > 0 /\ [more EXCEPT ![f] = @ - 1] = NoExtra
  BY NoExtraTyped, ExtraBack
<1>2. FramesOK(y, more)
  OBVIOUS
<1> HIDE DEF more
<1>3. \A s \in Sections : f \in SectionFrames(y, s) => ViewsOf(y, s) # {}
  <2>1. y.section = mm.section /\ y.space = mm.space
    BY DEF SameUses
  <2>2. \A s : SectionFrames(y, s) = SectionFrames(mm, s) /\ ViewsOf(y, s) = ViewsOf(mm, s)
    <3>1. \A s : SectionFrames(y, s) = SectionFrames(mm, s)
      BY <2>1 DEF SectionFrames
    <3>2. \A s : ViewsOf(y, s) = ViewsOf(mm, s)
      BY <2>1 DEF ViewsOf
    <3> QED BY <3>1, <3>2
  <2> QED BY <2>2
<1>4. r.bits \in SUBSET AccessBits /\ v >= UserBase
  <2>1. UserBase <= r.base
    BY <1>0 DEF RegionsOK, SpaceOK, RegionOK
  <2>2. r.base \in Nat /\ v \in Nat /\ r.base <= v
    BY DEF RegionRecords, Within, Pages
  <2> QED BY <2>1, <2>2, MmFacts DEF RegionRecords
<1>5. \/ h = MmpWalkToPte(y, v) /\ ~ MmpWalkToPte(y, v).ok
      \/ FramesOK(h, NoExtra) /\ Maps(y, h, a, v, f, r.bits)
  BY <1>1, <1>2, <1>3, <1>4, MapFrames
<1>6. CASE h = MmpWalkToPte(y, v) /\ ~ MmpWalkToPte(y, v).ok
  <2>1. /\ FramesOK(h, more) /\ h.pte = y.pte /\ h.owner = y.owner /\ h.space = y.space
        /\ h.section = y.section /\ h.reached = y.reached
    BY <1>2, <1>6, WalkFrames
  <2>2. SameMaps(mm, h)
    BY <2>1 DEF SameMaps, SameUses
  <2> QED BY <1>0, <1>6, <2>1, <2>2, SameMapsRegions DEF FramesOK
<1>7. CASE FramesOK(h, NoExtra) /\ Maps(y, h, a, v, f, r.bits)
  <2>1. Maps(mm, h, a, v, f, r.bits)
    BY <1>7 DEF Maps, SameUses
  <2>2. RegionsOK(h) /\ Settled(h)
    BY <1>0, <2>1, MapRegions
  <2> QED BY <1>7, <2>2 DEF Sound, FramesOK
<1> QED BY <1>5, <1>6, <1>7

(* A fault that is mended leaves the state sound; one that is not keeps    *)
(* the regions.                                                            *)
LEMMA FaultHandled ==
  ASSUME Sound(mm), NEW a \in Spaces, mm.space[a].runs, NEW v \in Pages, NEW access,
         NEW h, h = MmHandlePageFault(a, v, access)
  PROVE  h \in States /\ RegionsOK(h) /\ (h.ok => Sound(h))
<1> DEFINE i == CHOOSE j \in MmpFindRegion(a, v) : TRUE
           r == mm.space[a].regions[i]
           p == mm.section[r.section].pages[v - r.base + 1]
           f == NextFit(mm)
<1>0. mm \in States /\ RegionsOK(mm) /\ FramesOK(mm, NoExtra) /\ mm.space[a].inUse
  BY RunningInUse DEF Sound, FramesOK
<1>1. \/ h = Fail(mm)
      \/ /\ MmpFindRegion(a, v) # {} /\ r.kind = "section"
         /\ ~ (v - r.base >= Len(mm.section[r.section].pages))
         /\ h = MmAsMapPage(MmpRetainPage(mm, p), a, v, p, r.bits)
      \/ /\ MmpFindRegion(a, v) # {} /\ r.kind # "section" /\ FreeFrames(mm) # {}
         /\ h = MmAsMapPage(MmAllocPage(mm), a, v, f, r.bits)
  BY DEF MmHandlePageFault
<1>2. CASE h = Fail(mm)
  <2>1. ~ h.ok /\ FramesOK(h, NoExtra) /\ RegionsOK(h)
    BY <1>0, <1>2, OkFrames, OkRegions
  <2> QED BY <2>1 DEF FramesOK
<1>3. ASSUME MmpFindRegion(a, v) # {}
      PROVE  /\ i \in DOMAIN mm.space[a].regions /\ r \in RegionRecords /\ Within(r, v)
             /\ RegionOK(mm, a, r)
  <2>1. i \in MmpFindRegion(a, v)
    BY <1>3
  <2> HIDE DEF i
  <2>2. i \in DOMAIN mm.space[a].regions /\ Within(r, v)
    BY <2>1 DEF MmpFindRegion, Within
  <2>3. r \in RegionRecords
    BY <1>0, <2>2 DEF States, SpaceRecords
  <2> QED BY <1>0, <2>2, <2>3 DEF RegionsOK, SpaceOK
<1> HIDE DEF i
<1>4. CASE /\ MmpFindRegion(a, v) # {} /\ r.kind = "section"
           /\ ~ (v - r.base >= Len(mm.section[r.section].pages))
           /\ h = MmAsMapPage(MmpRetainPage(mm, p), a, v, p, r.bits)
  <2> DEFINE y == MmpRetainPage(mm, p)
             s == r.section
  <2>1. s \in Sections
    BY <1>3, <1>4 DEF RegionOK
  <2>2. p \in SectionFrames(mm, s)
    <3> DEFINE n == Len(mm.section[s].pages)
    <3>1. mm.section[s].pages \in Seq(Frames)
      BY <1>0, <2>1 DEF States, SectionRecords
    <3>2. \A q \in Seq(Frames) : Len(q) \in Nat /\ DOMAIN q = 1 .. Len(q)
      OBVIOUS
    <3>3. n \in Nat /\ DOMAIN mm.section[s].pages = 1 .. n
      BY <3>1, <3>2
    <3>4. r \in RegionRecords /\ Within(r, v) /\ ~ (v - r.base >= n)
      BY <1>3, <1>4
    <3> DEFINE b == r.base
    <3> HIDE DEF n, r
    <3>5. b \in Nat /\ v \in Nat /\ b <= v
      BY <3>4 DEF RegionRecords, Pages, Within
    <3>6. ~ (v - b >= n)
      BY <3>4
    <3> HIDE DEF b
    <3>7. v - b + 1 \in 1 .. n
      BY <3>3, <3>5, <3>6
    <3> QED BY <3>3, <3>7 DEF SectionFrames, b
  <2>3. ViewsOf(mm, s) # {}
    BY <1>0, <1>3, <1>4, RegionIsView DEF FramesOK
  <2>4. Shown(mm, r, v, p)
    BY DEF Shown
  <2> HIDE DEF p, r, s
  <2>5. FramesOK(y, [NoExtra EXCEPT ![p] = 1]) /\ SameUses(mm, y) /\ p \in Frames
    BY <1>0, <2>1, <2>2, RetainFrames
  <2>6. \A u \in Sections : p \in SectionFrames(mm, u) => ViewsOf(mm, u) # {}
    BY <1>0, <2>1, <2>2, <2>3 DEF FramesOK, Exclusive
  <2>7. h = MmAsMapPage(y, a, v, p, r.bits)
    BY <1>4
  <2> HIDE DEF y
  <2>8. r = mm.space[a].regions[i]
    BY DEF r
  <2> QED BY <1>0, <1>3, <1>4, <2>4, <2>5, <2>6, <2>7, <2>8, FaultMaps
<1>5. CASE /\ MmpFindRegion(a, v) # {} /\ r.kind # "section" /\ FreeFrames(mm) # {}
           /\ h = MmAsMapPage(MmAllocPage(mm), a, v, f, r.bits)
  <2> DEFINE y == MmAllocPage(mm)
  <2>1. /\ FramesOK(y, [NoExtra EXCEPT ![f] = 1]) /\ f \in Frames
        /\ \A s \in Sections : f \notin SectionFrames(mm, s)
    BY <1>0, <1>5, AllocFrames
  <2>2. SameUses(mm, y)
    BY <1>0, <1>5, AllocEffect
  <2>3. Shown(mm, r, v, f)
    BY <1>5 DEF Shown
  <2>4. h = MmAsMapPage(y, a, v, f, r.bits) /\ r = mm.space[a].regions[i]
    BY <1>5
  <2> HIDE DEF y, f, r
  <2> QED BY <1>0, <1>3, <1>5, <2>1, <2>2, <2>3, <2>4, FaultMaps
<1> QED BY <1>1, <1>2, <1>4, <1>5

(* The boot: no frame is in use but the root table of the system process.  *)
Empty(m) ==
  /\ m \in States /\ m.used = {} /\ m.leaked = {}
  /\ \A f \in Frames : m.refs[f] = 0
  /\ \A t \in Tables : m.table[t] = NoFrame
  /\ \A v \in Pages : (v >= UserBase => m.pte[v].frame \notin Frames) /\ m.owner[v] = Nobody
  /\ \A a \in Spaces : m.space[a] = NoSpace
  /\ \A s \in Sections : m.section[s] = NoSection

(* A state without regions and sections, whose tables use their own        *)
(* frames, is sound.                                                       *)
LEMMA EmptySound ==
  ASSUME NEW m, Empty(m)
  PROVE  Sound(m) /\ FreeFrames(m) # {}
<1>1. \A a \in Spaces : /\ m.space[a] = NoSpace /\ m.space[a].inUse = FALSE
                        /\ m.space[a].regions = <<>> /\ m.space[a].nextUserBase = UserBase
                        /\ m.space[a].runs = FALSE
  BY EmptyRecords DEF Empty
<1>2. \A s \in Sections : /\ m.section[s] = NoSection /\ m.section[s].inUse = FALSE
                          /\ m.section[s].refs = 0 /\ m.section[s].rights = {}
                          /\ m.section[s].pages = <<>>
  BY EmptyRecords DEF Empty
<1>3. DOMAIN <<>> = {} /\ Len(<<>>) = 0
  OBVIOUS
<1>4. ASSUME NEW f \in Frames
      PROVE  /\ PteUse(m, f) = {} /\ TableUse(m, f) = {} /\ RootUse(m, f) = {}
             /\ SectionUse(m, f) = {}
  <2>1. PteUse(m, f) = {} /\ TableUse(m, f) = {}
    BY MmFacts DEF Empty, PteUse, TableUse
  <2>2. RootUse(m, f) = {}
    BY <1>1 DEF RootUse
  <2>3. \A p \in Sections \X (1 .. MaxSectionPages) : DOMAIN m.section[p[1]].pages = {}
    BY <1>2, <1>3
  <2>4. SectionUse(m, f) = {}
    BY <2>3 DEF SectionUse
  <2> QED BY <2>1, <2>2, <2>4
<1>5. \A s \in Sections : SectionFrames(m, s) = {}
  BY <1>2, <1>3 DEF SectionFrames
<1>6. \A s : ViewsOf(m, s) = {}
  <2>1. \A p \in Spaces \X (1 .. MaxRegions) : DOMAIN m.space[p[1]].regions = {}
    BY <1>1, <1>3
  <2> QED BY <2>1 DEF ViewsOf
<1>7. Counted(m, NoExtra)
  <2> SUFFICES ASSUME NEW f \in Frames
               PROVE  /\ m.refs[f] = UsesIn(m, f) + One(f \in m.leaked) + NoExtra[f]
                      /\ f \in m.used <=> m.refs[f] > 0
    BY DEF Counted
  <2>1. UsesIn(m, f) = 0 /\ One(f \in m.leaked) = 0
    <3>1. /\ Cardinality(PteUse(m, f)) = 0 /\ Cardinality(TableUse(m, f)) = 0
          /\ Cardinality(RootUse(m, f)) = 0 /\ Cardinality(SectionUse(m, f)) = 0
      BY <1>4, FS_EmptySet
    <3>2. f \notin m.leaked
      BY DEF Empty
    <3> QED BY <3>1, <3>2 DEF UsesIn, One
  <2>2. m.refs[f] = 0 /\ f \notin m.used
    BY DEF Empty
  <2> QED BY <2>1, <2>2, NoExtraTyped
<1>8. Exclusive(m)
  BY <1>5 DEF Exclusive
<1>9. SectionsHeld(m)
  <2>1. \A s : Cardinality(ViewsOf(m, s)) = 0
    BY <1>6, FS_EmptySet
  <2> QED BY <1>2, <1>3, <2>1, MmFacts DEF SectionsHeld, One
<1>10. SpacesTidy(m)
  BY <1>1, <1>3, MmFacts DEF SpacesTidy
<1>11. RegionsOK(m)
  <2> SUFFICES ASSUME NEW a \in Spaces PROVE SpaceOK(m, a)
    BY DEF RegionsOK
  <2>1. DOMAIN m.space[a].regions = {} /\ m.space[a].nextUserBase <= PageCount
    BY <1>1, <1>3, MmFacts
  <2>2. \A v \in Pages : m.owner[v] # a
    BY DEF Empty, Nobody, Spaces
  <2> QED BY <2>1, <2>2 DEF SpaceOK
<1>12. Settled(m)
  BY <1>1 DEF Settled
<1>13. FreeFrames(m) # {}
  <2>1. 0 \in Frames
    BY MmFacts DEF Frames
  <2> QED BY <2>1 DEF Empty, FreeFrames
<1> QED BY <1>7, <1>8, <1>9, <1>10, <1>11, <1>12, <1>13, NoExtraTyped DEF Sound, FramesOK, Empty

BootState(firmware) ==
  [used |-> {}, refs |-> [f \in Frames |-> 0], nextScan |-> 0,
   table |-> [t \in Tables |-> NoFrame], huge |-> firmware = "huge",
   pte |-> [v \in Pages |-> FirmwareEntry(firmware, v)],
   owner |-> [v \in Pages |-> Nobody], reached |-> {},
   space |-> [a \in Spaces |-> NoSpace],
   section |-> [s \in Sections |-> NoSection],
   leaked |-> {}, ok |-> TRUE]

(* The identity map names a frame of its own only below MM_USER_BASE. *)
LEMMA FirmwareTyped ==
  ASSUME NEW firmware, NEW v \in Pages
  PROVE  /\ FirmwareEntry(firmware, v) \in PteRecords
         /\ v >= UserBase => FirmwareEntry(firmware, v).frame \notin Frames
<1> DEFINE e == FirmwareEntry(firmware, v)
<1>0. v \in Nat /\ UserBase \in Nat /\ AccessBits \in SUBSET AccessBits /\ {} \in SUBSET AccessBits
  BY MmFacts DEF Pages
<1>1. CASE v < UserBase
  <2>1. e = [frame |-> v, bits |-> AccessBits]
    BY <1>1 DEF FirmwareEntry
  <2>2. e \in PteRecords
    BY <1>0, <2>1 DEF PteRecords
  <2> QED BY <1>0, <1>1, <2>2
<1>2. CASE ~ (v < UserBase) /\ firmware = "low"
  <2>1. e = [frame |-> NoFrame, bits |-> {}]
    BY <1>2 DEF FirmwareEntry, NotPresent
  <2> HIDE DEF e
  <2>2. e \in PteRecords /\ e.frame = NoFrame
    BY <1>0, <2>1, MmFacts DEF PteRecords
  <2> QED BY <2>2, MmFacts DEF e
<1>3. CASE ~ (v < UserBase) /\ firmware # "low"
  <2>1. e = [frame |-> Untracked, bits |-> AccessBits]
    BY <1>3 DEF FirmwareEntry
  <2> HIDE DEF e
  <2>2. e \in PteRecords /\ e.frame = Untracked
    BY <1>0, <2>1, MmFacts DEF PteRecords
  <2> QED BY <2>2, MmFacts DEF e
<1> QED BY <1>1, <1>2, <1>3

(* MmInitialize starts in such a state. *)
LEMMA BootEmpty ==
  ASSUME NEW firmware
  PROVE  Empty(BootState(firmware))
<1> DEFINE e == [v \in Pages |-> FirmwareEntry(firmware, v)]
           h == firmware = "huge"
           m == BootState(firmware)
<1>1. /\ e \in [Pages -> PteRecords]
      /\ \A v \in Pages : v >= UserBase => e[v].frame \notin Frames
  BY FirmwareTyped
<1>h. h \in BOOLEAN
  OBVIOUS
<1>2. m = [used |-> {}, refs |-> [f \in Frames |-> 0], nextScan |-> 0,
           table |-> [t \in Tables |-> NoFrame], huge |-> h, pte |-> e,
           owner |-> [v \in Pages |-> Nobody], reached |-> {},
           space |-> [a \in Spaces |-> NoSpace],
           section |-> [s \in Sections |-> NoSection], leaked |-> {}, ok |-> TRUE]
  BY Zenon DEF BootState
<1> HIDE DEF e, m, h
<1>3. /\ m.used = {} /\ m.refs = [f \in Frames |-> 0]
      /\ m.table = [t \in Tables |-> NoFrame] /\ m.pte = e
      /\ m.owner = [v \in Pages |-> Nobody] /\ m.space = [a \in Spaces |-> NoSpace]
      /\ m.section = [s \in Sections |-> NoSection] /\ m.leaked = {}
  BY <1>2
<1>4. m \in States
  <2>1. /\ [f \in Frames |-> 0] \in [Frames -> Nat]
        /\ [t \in Tables |-> NoFrame] \in [Tables -> Nat]
        /\ [v \in Pages |-> Nobody] \in [Pages -> Nat]
        /\ [a \in Spaces |-> NoSpace] \in [Spaces -> SpaceRecords]
        /\ [s \in Sections |-> NoSection] \in [Sections -> SectionRecords]
    BY MmFacts, EmptyRecords DEF Nobody
  <2> QED BY <1>1, <1>h, <1>2, <2>1 DEF States
<1>5. Empty(m)
  BY <1>1, <1>3, <1>4 DEF Empty
<1> QED BY <1>5 DEF m

(* After the system process has its address space, the state is sound. *)
LEMMA BootSound ==
  ASSUME MmInitialize
  PROVE  Sound(mm)
<1>1. PICK firmware \in FirmwareMaps :
        mm = [MmCreateAddressSpace(BootState(firmware), System) EXCEPT !.space[System].runs = TRUE]
  BY Zenon DEF MmInitialize, BootState
<1> DEFINE m == BootState(firmware)
           x == MmCreateAddressSpace(m, System)
<1>2. Empty(m) /\ m \in States
  BY BootEmpty DEF Empty
<1>3. System \in Spaces
  BY MmFacts DEF System, Spaces
<1> HIDE DEF m
<1>4. Sound(m) /\ FreeFrames(m) # {} /\ ~ m.space[System].inUse
  BY <1>2, <1>3, EmptySound, EmptyRecords DEF Empty
<1>5. x.ok
  <2>1. MmAllocPage(m) \in States /\ MmAllocPage(m).ok = TRUE
    BY <1>2, <1>4, AllocEffect
  <2>2. x = [MmAllocPage(m) EXCEPT
               !.space[System] = [NoSpace EXCEPT !.inUse = TRUE, !.root = NextFit(m)]]
    BY <1>4 DEF MmCreateAddressSpace
  <2> QED BY <2>1, <2>2 DEF States
<1>6. /\ Sound(x) /\ x.space[System].inUse /\ Below(x, System)
      /\ UserBase <= x.space[System].nextUserBase
  <2>1. Sound(x) /\ Fresh(x, System) /\ x.space[System].nextUserBase = UserBase
    BY <1>3, <1>4, <1>5, CreateSpaceOK
  <2> QED BY <2>1, MmFacts DEF Fresh, Below
<1>7. mm = [x EXCEPT !.space[System].runs = TRUE]
  BY <1>1 DEF m
<1> HIDE DEF x
<1> QED BY <1>3, <1>6, <1>7, StartOK

-----------------------------------------------------------------------------
(* What holds after every action.  A fault that is not mended halts the    *)
(* machine in the middle of the handler, where counts may be open; an      *)
(* image mapped below MM_USER_BASE ends all that is known.                 *)
MmInv ==
  /\ machine \in {"up", "halted", "overlaid"}
  /\ machine # "overlaid" => mm \in States /\ RegionsOK(mm)
  /\ machine = "up" => Sound(mm)

(* A sound state is typed. *)
LEMMA SoundStates ==
  ASSUME NEW m, Sound(m)
  PROVE  m \in States /\ RegionsOK(m)
BY DEF Sound, FramesOK

(* The fault handler keeps the invariant, whether it mends the fault or    *)
(* halts.                                                                  *)
LEMMA FaultStep ==
  ASSUME MmInv, NEW a \in Spaces, NEW v \in Pages, NEW access, MmpOnPageFault(a, v, access)
  PROVE  MmInv'
<1>1. Sound(mm) /\ mm.space[a].runs
  BY DEF MmInv, MmpOnPageFault
<1> DEFINE h == MmHandlePageFault(a, v, access)
<1>2. CASE mm' = Ok(h) /\ machine' = IF h.ok THEN "up" ELSE "halted"
  <2>1. h \in States /\ RegionsOK(h) /\ (h.ok => Sound(h))
    BY <1>1, FaultHandled
  <2> HIDE DEF h
  <2>2. Ok(h) \in States /\ RegionsOK(Ok(h))
    BY <2>1, OkEffect, OkRegions
  <2>3. h.ok => Sound(Ok(h))
    BY <2>1, SoundOk
  <2>4. mm' \in States /\ RegionsOK(mm') /\ (machine' = "up" => Sound(mm'))
        /\ machine' \in {"up", "halted"} /\ machine' # "overlaid"
    BY <1>2, <2>2, <2>3
  <2> QED BY <2>4 DEF MmInv
<1>3. CASE mm' = mm /\ machine' = "halted"
  <2>1. mm' \in States /\ RegionsOK(mm') /\ (machine' = "up" => Sound(mm'))
        /\ machine' \in {"up", "halted"} /\ machine' # "overlaid"
    BY <1>1, <1>3, SoundStates
  <2> QED BY <2>1 DEF MmInv
<1> QED BY <1>2, <1>3 DEF MmpOnPageFault

(* An action that leaves the machine up has to show soundness only. *)
LEMMA StepSound ==
  ASSUME Sound(mm'), Up
  PROVE  MmInv'
<1>1. mm' \in States /\ RegionsOK(mm') /\ machine' = "up"
  BY SoundStates DEF Up
<1> QED BY <1>1 DEF MmInv

(* Every action keeps the invariant. *)
LEMMA MmInvInductive ==
  ASSUME MmInv, [MmNext]_mmVars
  PROVE  MmInv'
<1>0. ASSUME Up PROVE Sound(mm)
  BY <1>0 DEF Up, MmInv
<1>1. ASSUME NEW base \in Pages, NEW n \in 1 .. MaxImagePages, NEW sections \in Seq(SectionRows),
             NEW end, PsSpawnUserKpeFromBuffer(base, n, sections, end)
      PROVE  MmInv'
  <2>1. machine = "up" /\ machine' \in {"up", "overlaid"} /\ Sound(mm)
    <3>1. machine = "up"
      BY <1>1 DEF PsSpawnUserKpeFromBuffer
    <3>2. machine' \in {"up", "overlaid"}
      BY <1>1, Zenon DEF PsSpawnUserKpeFromBuffer
    <3> QED BY <3>1, <3>2 DEF MmInv
  <2>2. CASE machine' = "overlaid"
    BY <2>2 DEF MmInv
  <2>3. CASE machine' = "up"
    <3>1. n \in Nat \ {0}
      BY MmConstants
    <3>2. Sound(mm')
      BY <1>1, <2>1, <2>3, <3>1, SpawnStep
    <3>3. Up
      BY <2>1, <2>3 DEF Up
    <3> QED BY <3>2, <3>3, StepSound
  <2> QED BY <2>1, <2>2, <2>3
<1>2. ASSUME NEW a \in Spaces, NEW n \in 1 .. PageCount, NEW kind \in {"lazy", "wired", "guard"},
             NEW bits \in {{}, {"W"}, {"W", "X"}}, MapMemory(a, n, kind, bits)
      PROVE  MmInv'
  <2>1. Up
    BY <1>2 DEF MapMemory
  <2> QED BY <1>0, <1>2, <2>1, MapMemoryStep, StepSound
<1>3. ASSUME NEW n \in 1 .. PageCount, NEW rights \in (SUBSET MapRights) \ {{}},
             NEW inserted \in BOOLEAN, MmCreateSectionHandle(n, rights, inserted)
      PROVE  MmInv'
  <2>1. Up
    BY <1>3 DEF MmCreateSectionHandle
  <2> QED BY <1>0, <1>3, <2>1, CreateSectionStep, StepSound
<1>4. ASSUME NEW a \in Spaces, NEW s \in Sections, NEW bits \in {{}, {"W"}},
             MmMapSectionHandle(a, s, bits)
      PROVE  MmInv'
  <2>1. Up
    BY <1>4 DEF MmMapSectionHandle
  <2> QED BY <1>0, <1>4, <2>1, MapSectionStep, StepSound
<1>5. ASSUME NEW s \in Sections, CloseSection(s)
      PROVE  MmInv'
  <2>1. Up
    BY <1>5 DEF CloseSection
  <2> QED BY <1>0, <1>5, <2>1, CloseSectionStep, StepSound
<1>6. ASSUME NEW a \in Spaces, NEW v \in Pages, NEW access \in {"read", "W", "X"},
             MmpOnPageFault(a, v, access)
      PROVE  MmInv'
  BY <1>6, FaultStep
<1>7. CASE UNCHANGED mmVars
  BY <1>7 DEF MmInv, mmVars
<1>8. ASSUME NEW base \in Pages, NEW n \in 1 .. MaxImagePages, NEW end,
             PsSpawnUserKpeFromBuffer(base, n, <<>>, end)
      PROVE  MmInv'
  <2>1. <<>> \in Seq(SectionRows)
    OBVIOUS
  <2> QED BY <1>1, <1>8, <2>1
<1>9. ASSUME NEW base \in Pages, NEW n \in 1 .. MaxImagePages, NEW end,
             NEW sections \in SectionTables, PsSpawnUserKpeFromBuffer(base, n, sections, end)
      PROVE  MmInv'
  <2>1. sections \in Seq(SectionRows)
    BY MmConstants DEF SectionRows
  <2> QED BY <1>1, <1>9, <2>1
<1> QED BY <1>2, <1>3, <1>4, <1>5, <1>6, <1>7, <1>8, <1>9 DEF MmNext

(* The invariant holds in every reachable state. *)
LEMMA MmInvHolds == MmSpec => []MmInv
<1>1. MmInitialize => MmInv
  <2> SUFFICES ASSUME MmInitialize PROVE MmInv
    OBVIOUS
  <2>1. Sound(mm) /\ machine = "up"
    BY BootSound DEF MmInitialize
  <2> QED BY <2>1, SoundStates DEF MmInv
<1>2. MmInv /\ [MmNext]_mmVars => MmInv'
  BY MmInvInductive
<1> QED BY <1>1, <1>2, PTL DEF MmSpec

-----------------------------------------------------------------------------
(* A page of a region is a page of the user range, and the region is in    *)
(* order.                                                                  *)
LEMMA RegionPages ==
  ASSUME MmInv, Intact, NEW a \in Spaces, NEW r \in RegionsOf(a), NEW v \in PagesOf(r)
  PROVE  RegionOK(mm, a, r) /\ v \in Pages /\ Within(r, v) /\ r \in RegionRecords
<1>1. mm \in States /\ SpaceOK(mm, a)
  BY DEF MmInv, Intact, RegionsOK
<1>2. mm.space[a] \in SpaceRecords
  BY <1>1 DEF States
<1>3. mm.space[a].nextUserBase \in Nat /\ mm.space[a].regions \in Seq(RegionRecords)
  BY <1>2 DEF SpaceRecords
<1>4. PICK i \in DOMAIN mm.space[a].regions : r = mm.space[a].regions[i]
  BY DEF RegionsOf
<1>5. r \in RegionRecords
  BY <1>3, <1>4
<1>6. RegionOK(mm, a, r)
  BY <1>1, <1>4 DEF SpaceOK
<1>7. r.base \in Nat /\ r.size \in Nat
  BY <1>5 DEF RegionRecords
<1>8. r.base + r.size <= mm.space[a].nextUserBase /\ mm.space[a].nextUserBase <= PageCount
  BY <1>1, <1>6 DEF RegionOK, SpaceOK
<1>9. v \in Nat /\ Within(r, v)
  BY <1>7 DEF PagesOf, Within
<1>10. PageCount \in Nat
  BY MmFacts
<1>11. v \in Pages
  BY <1>3, <1>7, <1>8, <1>9, <1>10 DEF Pages, Within
<1> QED BY <1>5, <1>6, <1>9, <1>11

(* Reference counts are exact for any number of frames, pages, spaces and  *)
(* sections: MmAllocPage, MmpRetainPage, MmpReleasePage and MmFreePage     *)
(* keep refs[f] equal to the entries, section pages and tables that use f, *)
(* plus one if a failed wiring has lost it, and a frame is marked used     *)
(* exactly while its count is above zero.  Images may be linked anywhere   *)
(* and name any sections; it holds until one of them is mapped below       *)
(* MM_USER_BASE, which PsSpawnUserKpeFromBuffer does not refuse.           *)
THEOREM FramesCountedExactly == MmSpec => []FrameCountsExact
<1>1. MmInv => FrameCountsExact
  <2> SUFFICES ASSUME MmInv, machine = "up", NEW f \in Frames
               PROVE  /\ mm.refs[f] = Uses(f) + (IF f \in mm.leaked THEN 1 ELSE 0)
                      /\ f \in mm.used <=> mm.refs[f] > 0
    BY DEF FrameCountsExact
  <2>1. Counted(mm, NoExtra)
    BY DEF MmInv, Sound, FramesOK
  <2>2. Uses(f) = UsesIn(mm, f)
    BY DEF Uses, UsesIn, PteUse, SectionUse, TableUse, RootUse
  <2>3. UsesIn(mm, f) \in Nat
    <3>1. /\ Cardinality(PteUse(mm, f)) \in Nat /\ Cardinality(SectionUse(mm, f)) \in Nat
          /\ Cardinality(TableUse(mm, f)) \in Nat /\ Cardinality(RootUse(mm, f)) \in Nat
      BY UseFinite
    <3> QED BY <3>1 DEF UsesIn
  <2>4. mm.refs[f] = UsesIn(mm, f) + One(f \in mm.leaked) + 0 /\ (f \in mm.used <=> mm.refs[f] > 0)
    BY <2>1 DEF Counted, NoExtra
  <2>5. One(f \in mm.leaked) = (IF f \in mm.leaked THEN 1 ELSE 0) /\ One(f \in mm.leaked) \in Nat
    BY DEF One
  <2> QED BY <2>2, <2>3, <2>4, <2>5
<1> QED BY <1>1, MmInvHolds, PTL

(* A view made by MmMapSectionHandle shows its section for as long as it   *)
(* exists: the section outlives its handle, and each page that the space   *)
(* has mapped holds the section's own frame at that offset, whatever       *)
(* failed wirings and other spaces did to the shared leaf tables.          *)
THEOREM ViewsShowSections == MmSpec => []ViewsShowTheSection
<1>1. MmInv => ViewsShowTheSection
  <2> SUFFICES ASSUME MmInv, Intact, NEW a \in Spaces, NEW r \in RegionsOf(a), r.kind = "section"
               PROVE  /\ mm.section[r.section].inUse
                      /\ \A v \in PagesOf(r) : mm.owner[v] = a =>
                           mm.pte[v].frame = mm.section[r.section].pages[v - r.base + 1]
    BY DEF ViewsShowTheSection
  <2>1. mm.section[r.section].inUse
    <3>1. SpaceOK(mm, a)
      BY DEF MmInv, Intact, RegionsOK
    <3> QED BY <3>1 DEF RegionsOf, SpaceOK, RegionOK
  <2>2. ASSUME NEW v \in PagesOf(r), mm.owner[v] = a
        PROVE  mm.pte[v].frame = mm.section[r.section].pages[v - r.base + 1]
    <3>1. RegionOK(mm, a, r) /\ v \in Pages /\ Within(r, v)
      BY RegionPages
    <3> QED BY <2>2, <3>1 DEF RegionOK
  <2> QED BY <2>1, <2>2
<1> QED BY <1>1, MmInvHolds, PTL

(* Every page of a wired region is present: MmMapAnonymous counts the      *)
(* region only when all of its pages are mapped, and nothing that another  *)
(* space does to the tables they share takes one of them away.             *)
THEOREM WiredRegionsPresent == MmSpec => []WiredMeansPresent
<1>1. MmInv => WiredMeansPresent
  <2> SUFFICES ASSUME MmInv, Intact, NEW a \in Spaces, NEW r \in RegionsOf(a), r.kind = "wired",
                      NEW v \in PagesOf(r)
               PROVE  mm.pte[v].frame # NoFrame
    BY DEF WiredMeansPresent
  <2>1. RegionOK(mm, a, r) /\ v \in Pages /\ Within(r, v)
    BY RegionPages
  <2> QED BY <2>1 DEF RegionOK
<1> QED BY <1>1, MmInvHolds, PTL

(* An entry that a space made never allows more than the region the space  *)
(* has there, after every mapping, protection change and page fault.       *)
(* Excepted are the pages that the section of an image reached from        *)
(* outside the image, for the loader checks no VirtualSize, and only until *)
(* they are mapped again.                                                  *)
THEOREM EntriesWithinRegions == MmSpec => []EntryWithinRegion
<1>1. MmInv => EntryWithinRegion
  <2> SUFFICES ASSUME MmInv, Intact, NEW a \in Spaces, NEW r \in RegionsOf(a), NEW v \in PagesOf(r),
                      mm.owner[v] = a, v \notin mm.reached
               PROVE  mm.pte[v].bits \subseteq r.bits
    BY DEF EntryWithinRegion
  <2>1. RegionOK(mm, a, r) /\ v \in Pages /\ Within(r, v)
    BY RegionPages
  <2> QED BY <2>1 DEF RegionOK
<1> QED BY <1>1, MmInvHolds, PTL
===============================================================================
