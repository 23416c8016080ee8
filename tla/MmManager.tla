------------------------------ MODULE MmManager ------------------------------
(***************************************************************************)
(* The memory manager of kernel/mm/init.c: page frames and their reference *)
(* counts, page tables, address spaces with their regions, sections, the   *)
(* page-fault handler, and the loader of kernel/ps/init.c as the client    *)
(* that builds address spaces.                                             *)
(*                                                                         *)
(* Every address space starts with a copy of all 512 root entries of the   *)
(* kernel's table, and the kernel is linked low, so root entry 0 is        *)
(* present.  All the pages of the model lie under that entry: every        *)
(* address space reaches the same lower tables.  pte is therefore one      *)
(* function for all spaces.  An image linked under another root entry has  *)
(* tables of its own, as one on pages that no other space uses.            *)
(*                                                                         *)
(* Page LowPages is the first one from MM_USER_BASE up.  The pages before  *)
(* it are some that the firmware's identity map gives to the frames of the *)
(* model: page v names frame v, for the kernel only.  An image may be      *)
(* linked there too.  MmAsMapPage then releases frames that were never     *)
(* mapped, and what they hold, tables among it, may be overwritten: the    *)
(* model ends there, with machine = "overlaid".                            *)
(*                                                                         *)
(* One leaf table per TableSpan pages stands for the chain of tables       *)
(* MmpWalkToPte builds.  Regions of type PHYS and copy-on-write regions    *)
(* are left out: no caller creates one.                                    *)
(***************************************************************************)
EXTENDS Naturals, FiniteSets, Sequences

CONSTANTS
  FrameCount,     \* gMmTrackedPages, less the frames reserved at boot
  PageCount,      \* bound: how many pages there are
  LowPages,       \* bound: how many of them lie below MM_USER_BASE
  TableSpan,      \* pages under one leaf table
  MaxSpaces,      \* MM_MAX_ADDRESS_SPACES
  MaxRegions,     \* MM_MAX_VA_REGIONS
  MaxSections,    \* MM_MAX_SECTION_OBJECTS
  MaxSectionPages,\* MM_MAX_SECTION_PAGES
  MaxImagePages,  \* bound: SizeOfImage in pages
  SectionTables,  \* the sections of an image: first page, pages, rights
  FirmwareMaps    \* how the firmware's identity map may look

AccessBits == {"W", "X"}          \* MM_PTE_WRITABLE and not MM_PTE_NX

ASSUME MmConstants ==
  /\ {FrameCount, PageCount, TableSpan, MaxSpaces, MaxRegions, MaxSections,
      MaxSectionPages, MaxImagePages} \subseteq Nat \ {0}
  /\ SectionTables \subseteq Seq([start : Nat, span : Nat, bits : SUBSET AccessBits])
  /\ LowPages \in Nat /\ LowPages <= FrameCount /\ LowPages < PageCount /\ LowPages % TableSpan = 0
  /\ FirmwareMaps \subseteq {"low", "large", "huge"}

Frames    == 0 .. FrameCount - 1
NoFrame   == FrameCount           \* not present
Untracked == FrameCount + 1       \* memory above MM_MAX_TRACKED_PAGES
Pages     == 0 .. PageCount - 1
UserBase  == LowPages             \* MM_USER_BASE
Tables    == 0 .. (PageCount - 1) \div TableSpan
Spaces    == 1 .. MaxSpaces
System    == 1                    \* the space of the system process
Nobody    == 0
Sections  == 1 .. MaxSections
MapRights == {"MAP_READ", "MAP_WRITE"}

VARIABLES
  mm,         \* all of the memory manager's state, see MmInitialize
  machine     \* "up", "halted" after a fatal page fault, or "overlaid"

mmVars == <<mm, machine>>

NotPresent == [frame |-> NoFrame, bits |-> {}]
NoSection  == [inUse |-> FALSE, refs |-> 0, rights |-> {}, pages |-> <<>>]
NoSpace    == [inUse |-> FALSE, root |-> NoFrame, nextUserBase |-> UserBase,
              regions |-> <<>>, runs |-> FALSE]

-----------------------------------------------------------------------------
(* Operations on the state; each sets ok to say whether it succeeded. *)
Fail(m) == [m EXCEPT !.ok = FALSE]
Ok(m)   == [m EXCEPT !.ok = TRUE]

(* MmpAllocPageInternal: next fit from the page after the last one given. *)
FreeFrames(m) == Frames \ m.used
NextFit(m) ==
  CHOOSE f \in FreeFrames(m) : \A g \in FreeFrames(m) :
    (f + FrameCount - m.nextScan) % FrameCount <= (g + FrameCount - m.nextScan) % FrameCount

PageAfter(f) == (f + 1) % FrameCount

MmAllocPage(m) ==
  IF FreeFrames(m) = {} THEN Fail(m)
  ELSE [m EXCEPT !.used = @ \cup {NextFit(m)}, !.refs[NextFit(m)] = 1,
                 !.nextScan = PageAfter(NextFit(m)), !.ok = TRUE]

MmFreePage(m, f) == [m EXCEPT !.used = @ \ {f}, !.refs[f] = 0]

ForgetToRetain(m, f) == m                    \* mutant: no reference for the mapping
MmpRetainPage(m, f) == IF m.refs[f] = 0 THEN m ELSE [m EXCEPT !.refs[f] = @ + 1]

MmpReleasePage(m, f) ==
  IF f \notin Frames \/ m.refs[f] = 0 THEN m
  ELSE IF m.refs[f] = 1 THEN MmFreePage(m, f)
  ELSE [m EXCEPT !.refs[f] = @ - 1]

(* MmpWalkToPte with CreateMissing: the leaf table exists or is allocated, *)
(* for a missing entry and for a 2 MiB entry of the firmware alike.  An    *)
(* entry of 1 GiB is not split.                                            *)
MmpWalkToPte(m, v) ==
  LET t == v \div TableSpan IN
  IF m.huge THEN Fail(m)
  ELSE IF m.table[t] # NoFrame THEN Ok(m)
  ELSE IF FreeFrames(m) = {} THEN Fail(m)
  ELSE [MmAllocPage(m) EXCEPT !.table[t] = NextFit(m)]

(* The caller's reference to frame f becomes the mapping's; what the page  *)
(* mapped before is released.                                              *)
KeepOldBits(m, a, v, f, bits) ==             \* mutant: the old protection stays
  LET walked == MmpWalkToPte(m, v) IN
  IF ~walked.ok THEN walked
  ELSE [MmpReleasePage(walked, walked.pte[v].frame) EXCEPT
          !.pte[v] = [frame |-> f, bits |-> @.bits \cup bits], !.owner[v] = a,
          !.reached = @ \ {v}]
MmAsMapPage(m, a, v, f, bits) ==
  LET walked == MmpWalkToPte(m, v) IN
  IF ~walked.ok THEN walked
  ELSE [MmpReleasePage(walked, walked.pte[v].frame) EXCEPT
          !.pte[v] = [frame |-> f, bits |-> bits], !.owner[v] = a, !.reached = @ \ {v}]

(* The loader protects pages of an image.  Nothing keeps a section's       *)
(* VirtualSize within it: ghost reached holds the pages that a section has *)
(* changed from outside.                                                   *)
MmAsProtectPage(m, image, v, bits) ==
  IF m.table[v \div TableSpan] = NoFrame \/ m.pte[v].frame = NoFrame THEN Fail(m)
  ELSE [m EXCEPT !.pte[v].bits = bits, !.reached = @ \cup ({v} \ image), !.ok = TRUE]

(* The loader's loops over the sections of an image and their pages; it    *)
(* ignores the result of each call.                                        *)
ProtectSection(m, image, first, span, bits) ==
  LET protected[k \in 0 .. span] ==
        IF k = 0 THEN m ELSE MmAsProtectPage(protected[k - 1], image, first + k - 1, bits)
  IN  protected[span]

ProtectSections(m, base, n, sections) ==
  LET protected[k \in 0 .. Len(sections)] ==
        IF k = 0 THEN m
        ELSE ProtectSection(protected[k - 1], base .. base + n - 1, base + sections[k].start,
                            sections[k].span, sections[k].bits)
  IN  Ok(protected[Len(sections)])

MmCreateAddressSpace(m, a) ==
  IF FreeFrames(m) = {} THEN Fail(m)
  ELSE [MmAllocPage(m) EXCEPT
          !.space[a] = [NoSpace EXCEPT !.inUse = TRUE, !.root = NextFit(m)]]

(* The loop of MmMapAnonymous over the pages of a wired region.  A frame   *)
(* whose page cannot be mapped is lost; pages mapped before stay mapped.   *)
WirePage(m, a, v, bits) ==
  IF FreeFrames(m) = {} THEN Fail(m)
  ELSE LET f      == NextFit(m)
           mapped == MmAsMapPage(MmAllocPage(m), a, v, f, bits)
       IN  IF mapped.ok THEN mapped ELSE [mapped EXCEPT !.leaked = @ \cup {f}]

WirePages(m, a, base, n, bits) ==
  LET wired[k \in 0 .. n] ==
        IF k = 0 THEN Ok(m)
        ELSE IF ~wired[k - 1].ok THEN wired[k - 1]
        ELSE WirePage(wired[k - 1], a, base + k - 1, bits)
  IN  wired[n]

AddRegion(m, a, n, kind, bits, section) ==
  LET base == m.space[a].nextUserBase IN
  [m EXCEPT !.space[a].nextUserBase = base + n,
            !.space[a].regions = Append(@, [base |-> base, size |-> n, kind |-> kind,
                                            bits |-> bits, section |-> section]),
            !.ok = TRUE]

CountHalfWired(m, a, n, kind, bits) ==       \* mutant: a failed wiring counts
  IF Len(m.space[a].regions) >= MaxRegions THEN Fail(m)
  ELSE AddRegion(IF kind = "wired" THEN WirePages(m, a, m.space[a].nextUserBase, n, bits)
                 ELSE m, a, n, kind, bits, 0)
MmMapAnonymous(m, a, n, kind, bits) ==
  IF Len(m.space[a].regions) >= MaxRegions THEN Fail(m)
  ELSE LET wired == IF kind = "wired"
                    THEN WirePages(m, a, m.space[a].nextUserBase, n, bits) ELSE Ok(m)
       IN  IF wired.ok THEN AddRegion(wired, a, n, kind, bits, 0) ELSE wired

(* ObDereferenceObject on a section; the last one runs                     *)
(* MmpDeleteSectionObject, which frees the pages whatever their counts.    *)
FreeAll(m, frames) ==
  [m EXCEPT !.used = @ \ frames, !.refs = [f \in Frames |-> IF f \in frames THEN 0 ELSE @[f]]]
MmpDeleteSectionObject(m, s) ==
  [FreeAll(m, {m.section[s].pages[i] : i \in DOMAIN m.section[s].pages})
     EXCEPT !.section[s] = NoSection]
DropSection(m, s) ==
  IF m.section[s].refs = 1 THEN MmpDeleteSectionObject(m, s)
  ELSE [m EXCEPT !.section[s].refs = @ - 1]

(* MmCreateSectionHandle from the moment it has a slot and an object. *)
AddSectionPages(m, s, n) ==
  LET filled[k \in 0 .. n] ==
        IF k = 0 THEN Ok([m EXCEPT !.section[s] = [NoSection EXCEPT !.inUse = TRUE,
                                                                   !.refs = 1]])
        ELSE IF ~filled[k - 1].ok THEN filled[k - 1]
        ELSE IF FreeFrames(filled[k - 1]) = {} THEN Fail(DropSection(filled[k - 1], s))
        ELSE [MmAllocPage(filled[k - 1])
                EXCEPT !.section[s].pages = Append(@, NextFit(filled[k - 1]))]
  IN  filled[n]

-----------------------------------------------------------------------------
(* MmInitialize and PsInitialize: the system process has its space.  The   *)
(* identity map ends below MM_USER_BASE, or reaches the user pages, or     *)
(* does so in entries of 1 GiB.                                            *)
FirmwareEntry(firmware, v) ==
  IF v < UserBase THEN [frame |-> v, bits |-> AccessBits]
  ELSE IF firmware = "low" THEN NotPresent
  ELSE [frame |-> Untracked, bits |-> AccessBits]

MmInitialize ==
  /\ \E firmware \in FirmwareMaps :
       LET empty ==
             [used |-> {}, refs |-> [f \in Frames |-> 0], nextScan |-> 0,
              table |-> [t \in Tables |-> NoFrame], huge |-> firmware = "huge",
              pte |-> [v \in Pages |-> FirmwareEntry(firmware, v)],
              owner |-> [v \in Pages |-> Nobody], reached |-> {},
              space |-> [a \in Spaces |-> NoSpace],
              section |-> [s \in Sections |-> NoSection],
              leaked |-> {}, ok |-> TRUE]
       IN  mm = [MmCreateAddressSpace(empty, System) EXCEPT !.space[System].runs = TRUE]
  /\ machine = "up"

Up == machine = "up" /\ UNCHANGED machine
Fits(m, a, n) == m.space[a].nextUserBase + n <= PageCount      \* bound

(* The process runs once its thread could be made and readied, which asks  *)
(* for an entry point in an executable page of the image and for a         *)
(* writable stack page.                                                    *)
PsCreateUserThread(m, a, base, n, end) ==
  IF \/ end = "thread"
     \/ \A v \in base .. base + n - 1 : "X" \notin m.pte[v].bits
     \/ "W" \notin m.pte[base + n + 1].bits
  THEN m ELSE [m EXCEPT !.space[a].runs = TRUE]

(* PsSpawnUserKpeFromBuffer for an image of n pages that passes the header *)
(* checks (otherwise nothing changes): a new space, the image wired        *)
(* writable and executable from its base, a guard page and a one-page      *)
(* stack; then the pages its sections name get their protection, and a     *)
(* thread is made.  The first step that fails ends it, and nothing is      *)
(* taken back: an allocation, or what end names, "base" for an image that  *)
(* asks for a base outside user space, "finalize" for one whose sections   *)
(* or relocations are unsound.  Copying and relocating write image pages,  *)
(* which are all mapped by then.                                           *)
PsSpawnUserKpeFromBuffer(base, n, sections, end) ==
  LET free    == {a \in Spaces : ~mm.space[a].inUse}
      a       == CHOOSE f \in free : \A g \in free : f <= g
      created == MmCreateAddressSpace(mm, a)
      placed  == [created EXCEPT !.space[a].nextUserBase = base]
      image   == MmMapAnonymous(placed, a, n, "wired", AccessBits)
      guard   == MmMapAnonymous(image, a, 1, "guard", {})
      stack   == MmMapAnonymous(guard, a, 1, "wired", {"W"})
      guarded == ProtectSections(stack, base, n, sections)
      mapping == free # {} /\ created.ok /\ end # "base"
      overlaid == mapping /\ base < UserBase /\ WirePage(placed, a, base, AccessBits).ok
  IN
  /\ machine = "up"
  /\ base + n + 2 <= PageCount                                 \* bound
  /\ \A i \in DOMAIN sections : base + sections[i].start + sections[i].span <= PageCount
  /\ mm' = Ok(IF free = {} THEN mm
              ELSE IF ~mapping THEN created
              ELSE IF ~image.ok THEN image
              ELSE IF ~guard.ok THEN guard
              ELSE IF ~stack.ok \/ end = "finalize" THEN stack
              ELSE PsCreateUserThread(guarded, a, base, n, end))
  /\ machine' = IF overlaid THEN "overlaid" ELSE "up"

(* KipSysMapMemory maps lazily; KiArchUserModeSmokeTest also maps wired    *)
(* pages and a guard page into the system process.                         *)
MapMemory(a, n, kind, bits) ==
  /\ Up
  /\ mm.space[a].runs /\ Fits(mm, a, n)
  /\ kind = "lazy" => bits = {"W"}
  /\ kind = "guard" => bits = {} /\ n = 1
  /\ kind = "wired" => "W" \in bits /\ n = 1
  /\ kind # "lazy" => a = System
  /\ mm' = Ok(MmMapAnonymous(mm, a, n, kind, bits))

(* A slot is taken and given back if ObCreateObject fails.  The handle     *)
(* holds the only reference in the end; if it cannot be inserted, the      *)
(* section is deleted again.                                               *)
MmCreateSectionHandle(n, rights, inserted) ==
  LET free   == {s \in Sections : ~mm.section[s].inUse}
      s      == CHOOSE f \in free : \A g \in free : f <= g
      filled == AddSectionPages(mm, s, n)
  IN
  /\ Up
  /\ n <= MaxSectionPages
  /\ mm' = Ok(IF free = {} THEN mm
              ELSE IF ~filled.ok THEN filled
              ELSE IF ~inserted THEN DropSection(filled, s)
              ELSE [filled EXCEPT !.section[s].rights = rights])

(* The region keeps the reference that looking the handle up has taken. *)
ViewWithoutReference(m, s) == m              \* mutant: the reference is given back
TakeViewReference(m, s) == [m EXCEPT !.section[s].refs = @ + 1]

Wanted(bits) == IF "W" \in bits THEN MapRights ELSE {"MAP_READ"}
MmMapSectionHandle(a, s, bits) ==
  LET n == Len(mm.section[s].pages) IN
  /\ Up
  /\ mm.space[a].runs /\ Fits(mm, a, n)
  /\ mm' = IF \/ Len(mm.space[a].regions) >= MaxRegions
              \/ ~Wanted(bits) \subseteq mm.section[s].rights
           THEN mm
           ELSE AddRegion(TakeViewReference(mm, s), a, n, "section", bits, s)

CloseSection(s) ==
  /\ Up
  /\ mm.section[s].rights # {}               \* the handle is open
  /\ mm' = Ok(DropSection([mm EXCEPT !.section[s].rights = {}], s))

(* MmpFindRegion: the regions of a space that contain a page. *)
MmpFindRegion(a, v) ==
  {i \in DOMAIN mm.space[a].regions :
     LET r == mm.space[a].regions[i] IN r.base <= v /\ v < r.base + r.size}

Needed(access) == IF access = "read" THEN {} ELSE {access}

(* MmHandlePageFault for a page that is not present. *)
MmHandlePageFault(a, v, access) ==
  LET r == mm.space[a].regions[CHOOSE i \in MmpFindRegion(a, v) : TRUE]
      f == NextFit(mm)
      p == mm.section[r.section].pages[v - r.base + 1]
  IN  IF MmpFindRegion(a, v) = {} \/ r.kind = "guard" \/ ~Needed(access) \subseteq r.bits
      THEN Fail(mm)
      ELSE IF r.kind = "section"
      THEN IF v - r.base >= Len(mm.section[r.section].pages) THEN Fail(mm)
           ELSE MmAsMapPage(MmpRetainPage(mm, p), a, v, p, r.bits)
      ELSE IF FreeFrames(mm) = {} THEN Fail(mm)
      ELSE MmAsMapPage(MmAllocPage(mm), a, v, f, r.bits)

(* The entries above a page let users pass only from MM_USER_BASE up, and  *)
(* an entry of the firmware has no user bit until a section reaches it.    *)
UserMay(v, access) ==
  /\ v >= UserBase
  /\ mm.pte[v].frame # Untracked \/ v \in mm.reached
  /\ Needed(access) \subseteq mm.pte[v].bits

(* The processor faults on a page that is not present, or on a user access *)
(* that the entry forbids; MmpOnPageFault halts unless the fault is mended, *)
(* and a fault on a present page never is.                                 *)
MmpOnPageFault(a, v, access) ==
  /\ machine = "up"
  /\ mm.space[a].runs
  /\ \/ /\ mm.pte[v].frame = NoFrame
        /\ LET handled == MmHandlePageFault(a, v, access) IN
             /\ mm' = Ok(handled)
             /\ machine' = IF handled.ok THEN "up" ELSE "halted"
     \/ /\ mm.pte[v].frame # NoFrame
        /\ ~UserMay(v, access)
        /\ machine' = "halted"
        /\ UNCHANGED mm

MmNext ==
  \/ \E base \in Pages, n \in 1 .. MaxImagePages :
       \/ \E end \in {"base", "finalize"} : PsSpawnUserKpeFromBuffer(base, n, <<>>, end)
       \/ \E end \in {"thread", "runs"}, sections \in SectionTables :
            PsSpawnUserKpeFromBuffer(base, n, sections, end)
  \/ \E a \in Spaces, n \in 1 .. PageCount, kind \in {"lazy", "wired", "guard"},
        bits \in {{}, {"W"}, {"W", "X"}} : MapMemory(a, n, kind, bits)
  \/ \E n \in 1 .. PageCount, rights \in (SUBSET MapRights) \ {{}}, inserted \in BOOLEAN :
       MmCreateSectionHandle(n, rights, inserted)
  \/ \E a \in Spaces, s \in Sections, bits \in {{}, {"W"}} : MmMapSectionHandle(a, s, bits)
  \/ \E s \in Sections : CloseSection(s)
  \/ \E a \in Spaces, v \in Pages, access \in {"read", "W", "X"} : MmpOnPageFault(a, v, access)

MmSpec == MmInitialize /\ [][MmNext]_mmVars

-----------------------------------------------------------------------------
RegionsOf(a) == {mm.space[a].regions[i] : i \in DOMAIN mm.space[a].regions}
PagesOf(r) == r.base .. r.base + r.size - 1

(* How often a frame is in use: by page-table entries of user pages,       *)
(* section pages, leaf tables and root tables.  The firmware's identity    *)
(* map holds no reference.                                                 *)
Uses(f) ==
  Cardinality({v \in Pages : v >= UserBase /\ mm.pte[v].frame = f})
  + Cardinality({p \in Sections \X (1 .. MaxSectionPages) :
                   p[2] \in DOMAIN mm.section[p[1]].pages /\ mm.section[p[1]].pages[p[2]] = f})
  + Cardinality({t \in Tables : mm.table[t] = f})
  + Cardinality({a \in Spaces : mm.space[a].inUse /\ mm.space[a].root = f})

(* Reference counts are exact, so that a frame in use is never free and a  *)
(* free one is in no table: the only frames without a use are those a      *)
(* failed wiring has lost.  MmpDeleteSectionObject's unconditional         *)
(* MmFreePage never takes a frame from under a mapping.  So it is as long  *)
(* as no image is mapped below MM_USER_BASE, wherever above it images are  *)
(* linked; PsSpawnUserKpeFromBuffer maps one below too, and then           *)
(* MmAsMapPage releases references that nobody took.                       *)
FrameCountsExact ==
  machine = "up" =>
    \A f \in Frames : /\ mm.refs[f] = Uses(f) + (IF f \in mm.leaked THEN 1 ELSE 0)
                      /\ f \in mm.used <=> mm.refs[f] > 0

(* No image was mapped over the firmware's identity map. *)
Intact == machine # "overlaid"

(* A view of a section shows the section: a page of the view that this     *)
(* space has mapped holds the section's frame, also after the handle is    *)
(* closed, and the section still exists.                                   *)
ViewsShowTheSection ==
  Intact => \A a \in Spaces : \A r \in RegionsOf(a) :
    r.kind = "section" =>
      /\ mm.section[r.section].inUse
      /\ \A v \in PagesOf(r) :
           mm.owner[v] = a => mm.pte[v].frame = mm.section[r.section].pages[v - r.base + 1]

(* All pages of a wired region are present, even after a wiring failed     *)
(* half way and another region took the same base.                         *)
WiredMeansPresent ==
  Intact => \A a \in Spaces : \A r \in RegionsOf(a) :
    r.kind = "wired" => \A v \in PagesOf(r) : mm.pte[v].frame # NoFrame

(* A page-table entry never allows more than the region its space has      *)
(* there: whatever a page mapped before (the firmware's identity map,      *)
(* another space, an image page before its final protection) is replaced   *)
(* and not merged.  Only a section of an image that reaches out of it can  *)
(* change that: PsSpawnUserKpeFromBuffer then protects pages of other      *)
(* regions, until they are mapped anew.                                    *)
EntryWithinRegion ==
  Intact => \A a \in Spaces : \A r \in RegionsOf(a) : \A v \in PagesOf(r) :
    mm.owner[v] = a /\ v \notin mm.reached => mm.pte[v].bits \subseteq r.bits

(* A page of a lazily mapped region is not present before its own space    *)
(* has faulted on it: the first touch faults and gets a zeroed frame.      *)
LazyPagesAreOwn ==
  \A a \in Spaces : \A r \in RegionsOf(a) :
    r.kind = "lazy" => \A v \in PagesOf(r) :
      mm.pte[v].frame # NoFrame => mm.owner[v] = a
=============================================================================
