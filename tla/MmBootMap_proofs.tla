-------------------------- MODULE MmBootMap_proofs --------------------------
(***************************************************************************)
(* Proofs about MmInitialize, for every page size, every number of pages,  *)
(* every set of memory maps without overlaps and every place of the        *)
(* kernel, the loader and the pool.                                        *)
(***************************************************************************)
EXTENDS MmBootMap, WellFoundedInduction, TLAPS

(* Division by any divisor, for the rounding of addresses and table counts. *)
LEMMA Division ==
  ASSUME NEW a \in Nat, NEW d \in Nat \ {0}
  PROVE  a \div d \in Nat /\ (a \div d) * d <= a /\ a < (a \div d) * d + d
OBVIOUS

LEMMA QuotientUnique ==
  ASSUME NEW a \in Nat, NEW q \in Nat, NEW d \in Nat \ {0}, q * d <= a, a < q * d + d
  PROVE  a \div d = q
OBVIOUS

LEMMA Multiples ==
  ASSUME NEW d \in Nat \ {0}, NEW p \in Nat, NEW q \in Nat
  PROVE  /\ p * d \in Nat /\ (p + 1) * d = p * d + d
         /\ (p + q) * d = p * d + q * d
         /\ p * d < (q + 1) * d => p <= q
         /\ p * d < q * d => p < q
         /\ p <= q => p * d <= q * d
<1>1. p * d \in Nat /\ q * d \in Nat /\ (p + 1) * d = p * d + d /\ (q + 1) * d = q * d + d
  OBVIOUS
<1>2. (p + q) * d = p * d + q * d
  OBVIOUS
<1>3. p <= q => p * d <= q * d
  OBVIOUS
<1>4. q + 1 <= p => (q + 1) * d <= p * d
  OBVIOUS
<1>5. q <= p => q * d <= p * d
  OBVIOUS
<1> QED BY <1>1, <1>2, <1>3, <1>4, <1>5

LEMMA PageSizePositive == PageSize \in Nat \ {0} /\ TrackedPages \in Nat \ {0}
BY BootMapConstants

-----------------------------------------------------------------------------
(* Rounding down to a page moves an address by less than a page. *)
LEMMA AlignDownBounds ==
  ASSUME NEW a \in Nat
  PROVE  /\ AlignDown(a) \in Nat
         /\ AlignDown(a) <= a
         /\ a < AlignDown(a) + PageSize
<1>1. /\ a \div PageSize \in Nat
      /\ (a \div PageSize) * PageSize <= a
      /\ a < (a \div PageSize) * PageSize + PageSize
  BY PageSizePositive, Division
<1>2. (a \div PageSize) * PageSize \in Nat
  BY <1>1, PageSizePositive
<1> QED BY <1>1, <1>2 DEF AlignDown

(* A range of whole pages. *)
WholePages(r) ==
  \E b, n \in Nat : r.base = b * PageSize /\ r.length = n * PageSize

(* MmpMarkRange marks only pages that lie in the range ... *)
LEMMA MarkedLiesInside ==
  ASSUME NEW r, r.base \in Nat, r.length \in Nat, NEW p \in MmpMarkRange(r)
  PROVE  p \in Pages /\ p * PageSize \in Extent(r)
<1>1. p \in Nat /\ p * PageSize \in Nat
  BY PageSizePositive DEF MmpMarkRange, Pages
<1>2. r.base + PageSize - 1 \in Nat /\ r.base + r.length \in Nat
  BY PageSizePositive
<1>3. r.base <= AlignUp(r.base) /\ AlignUp(r.base) \in Nat
  <2>1. /\ AlignDown(r.base + PageSize - 1) \in Nat
        /\ r.base + PageSize - 1 < AlignDown(r.base + PageSize - 1) + PageSize
    BY <1>2, AlignDownBounds
  <2> QED BY <2>1, PageSizePositive DEF AlignUp
<1>4. AlignDown(r.base + r.length) <= r.base + r.length
      /\ AlignDown(r.base + r.length) \in Nat
  BY <1>2, AlignDownBounds
<1>5. AlignUp(r.base) <= p * PageSize /\ p * PageSize < AlignDown(r.base + r.length)
  BY DEF MmpMarkRange
<1>6. r.base <= p * PageSize /\ p * PageSize < r.base + r.length
  <2> HIDE DEF MmpMarkRange
  <2> QED BY <1>1, <1>2, <1>3, <1>4, <1>5
<1> QED BY <1>1, <1>6 DEF Extent, MmpMarkRange

(* ... so a marked page touches the range; ... *)
LEMMA MarkedIsTouched ==
  ASSUME NEW r, r.base \in Nat, r.length \in Nat
  PROVE  MmpMarkRange(r) \subseteq Touched(r)
<1> SUFFICES ASSUME NEW p \in MmpMarkRange(r) PROVE p \in Touched(r)
  OBVIOUS
<1>1. p \in Pages /\ p * PageSize \in Extent(r)
  BY MarkedLiesInside
<1>2. p * PageSize \in UnitsOf(p)
  BY <1>1, PageSizePositive, Multiples DEF UnitsOf, Pages
<1> QED BY <1>1, <1>2 DEF Touched

(* ... and of whole pages it marks every page that they touch.             *)
LEMMA WholePagesMarked ==
  ASSUME NEW r, WholePages(r)
  PROVE  Touched(r) \subseteq MmpMarkRange(r)
<1>1. PICK b, n \in Nat : r.base = b * PageSize /\ r.length = n * PageSize
  BY DEF WholePages
<1> DEFINE d == PageSize
<1>2. d \in Nat \ {0}
  BY PageSizePositive
<1>3. AlignUp(r.base) = b * d
  <2>1. b * d \in Nat /\ b * d + d - 1 \in Nat
    BY <1>2, Multiples
  <2>2. (b * d + d - 1) \div d = b
    <3> HIDE DEF d
    <3> QED BY <2>1, <1>2, QuotientUnique
  <2> QED BY <1>1, <2>2 DEF AlignUp, AlignDown
<1>4. AlignDown(r.base + r.length) = (b + n) * d
  <2>1. (b + n) * d = b * d + n * d /\ (b + n) * d \in Nat
    BY <1>2, Multiples
  <2>2. ((b + n) * d) \div d = b + n
    <3> HIDE DEF d
    <3> QED BY <2>1, <1>2, QuotientUnique
  <2> QED BY <1>1, <2>1, <2>2 DEF AlignDown
<1> SUFFICES ASSUME NEW p \in Touched(r) PROVE p \in MmpMarkRange(r)
  OBVIOUS
<1>5. PICK x \in UnitsOf(p) : x \in Extent(r) /\ p \in Pages
  BY DEF Touched
<1>6. /\ p \in Nat /\ x \in Int
      /\ p * d <= x /\ x < (p + 1) * d
      /\ b * d <= x /\ x < b * d + n * d
  <2>1. p \in Nat /\ p * d \in Nat /\ (p + 1) * d \in Nat /\ b * d \in Nat /\ n * d \in Nat
    BY <1>2, <1>5, Multiples DEF Pages
  <2> QED BY <1>1, <1>5, <2>1 DEF UnitsOf, Extent
<1>7. b <= p /\ p < b + n
  <2>1. /\ (p + 1) * d \in Nat /\ b * d \in Nat /\ p * d \in Nat /\ (b + n) * d \in Nat
        /\ (b + n) * d = b * d + n * d
    BY <1>2, <1>6, Multiples
  <2>2. b * d < (p + 1) * d /\ p * d < (b + n) * d
    BY <1>6, <2>1
  <2> QED BY <1>2, <1>6, <2>2, Multiples
<1>8. b * d <= p * d /\ p * d < (b + n) * d
  <2>1. p + 1 <= b + n
    BY <1>6, <1>7
  <2>2. (p + 1) * d <= (b + n) * d /\ (p + 1) * d = p * d + d /\ b * d <= p * d
    BY <1>2, <1>6, <1>7, <2>1, Multiples
  <2>3. p * d \in Nat /\ (b + n) * d \in Nat
    BY <1>2, <1>6, Multiples
  <2> QED BY <1>2, <2>2, <2>3
<1>9. r.length > 0
  <2>1. n > 0
    BY <1>6, <1>7
  <2> QED BY <1>1, <1>2, <2>1, Multiples
<1> QED BY <1>3, <1>4, <1>5, <1>8, <1>9 DEF MmpMarkRange
-----------------------------------------------------------------------------
(***************************************************************************)
(* The inductive invariant: where every page that can be given out comes   *)
(* from, what is reserved from the moment it is reserved, and how far the  *)
(* physmap reaches after each page directory.                              *)
(***************************************************************************)
BootDescribed ==
  \E map \in MemoryMaps, kernel, loader \in Pages, size \in KernelSizes,
     pool \in Addresses, poolSize \in PoolSizes :
    boot = [map    |-> map,
            kernel |-> Range(kernel * PageSize, size),
            loader |-> Range(loader * PageSize, LoaderSize),
            pool   |-> Range(pool, poolSize)]

GivenWasFreed ==
  \A p \in Given : \E i \in DOMAIN boot.map :
    MmpIsRangeUsable(boot.map[i]) /\ p \in MmpMarkRange(boot.map[i])

CriticalKept ==
  phase \notin {"allocated", "usable"} =>
    \A r \in CriticalRanges(boot) : Given \cap MmpMarkRange(r) = {}

TablesTaken ==
  /\ tables \in Seq(Pages)
  /\ phase \in {"allocated", "usable", "reserved"} => Len(tables) = 0
  /\ phase = "cloned" => Len(tables) = 1
  /\ phase \in {"physmap", "ready"} => Len(tables) >= 2

Reached == (Len(tables) - 2) * TableSpan

PhysmapGrown ==
  /\ phase \in {"allocated", "usable", "reserved", "cloned"} => physmap = {}
  /\ phase \in {"physmap", "ready"} => physmap = {p \in Nat : p < MappedPages /\ p < Reached}
  /\ phase = "ready" => MappedPages <= Reached

Phases == {"allocated", "usable", "reserved", "cloned", "physmap", "ready", "failed"}

BootMapInv ==
  /\ phase \in Phases /\ next \in Nat
  /\ BootDescribed
  /\ GivenWasFreed
  /\ CriticalKept
  /\ TablesTaken
  /\ PhysmapGrown

(* The scan of MmpAllocPageInternal finds a page whenever one is free. *)
LEMMA FirstFreeIsFree ==
  ASSUME FreePages # {}
  PROVE  FirstFree \in FreePages
<1> DEFINE R == {ss \in Nat \X Nat : ss[1] < ss[2]}
<1>1. IsWellFoundedOn(R, Nat)
  <2>1. OpToRel(<, Nat) = R
    BY Zenon DEF OpToRel
  <2> QED BY <2>1, NatLessThanWellFounded, Zenon
<1>2. FreePages \subseteq Nat
  BY DEF FreePages, Pages
<1>3. PICK p \in FreePages : \A q \in FreePages : ~ (<<q, p>> \in R)
  <2> HIDE DEF R
  <2> QED BY <1>1, <1>2, WFMin
<1>4. ASSUME NEW q \in FreePages PROVE p <= q
  <2>1. q \in Nat /\ p \in Nat /\ ~ (<<q, p>> \in R)
    BY <1>2, <1>3
  <2>2. ~ (q < p)
    BY <2>1
  <2> QED BY <2>1, <2>2
<1> QED BY <1>3, <1>4 DEF FirstFree

(* Taking a table moves one page from the free ones to the tables. *)
LEMMA TakeTableEffect ==
  ASSUME FreePages # {}, tables \in Seq(Pages), TakeTable
  PROVE  /\ Given' = Given
         /\ tables' \in Seq(Pages) /\ Len(tables') = Len(tables) + 1
<1>1. FirstFree \in FreePages /\ FirstFree \in Pages
  BY FirstFreeIsFree DEF FreePages
<1> DEFINE f == FirstFree
<1>2. bitmap' = bitmap \cup {f} /\ tables' = Append(tables, f)
  BY DEF TakeTable
<1> HIDE DEF f
<1>3. tables' \in Seq(Pages) /\ Len(tables') = Len(tables) + 1
  BY <1>1, <1>2 DEF f
<1>4. FreePages' = FreePages \ {f}
  BY <1>2 DEF FreePages
<1>5. {tables'[i] : i \in DOMAIN tables'} = {tables[i] : i \in DOMAIN tables} \cup {f}
  <2>1. DOMAIN tables' = 1 .. Len(tables) + 1 /\ DOMAIN tables = 1 .. Len(tables)
    BY <1>2, <1>3
  <2>2. \A i \in 1 .. Len(tables) : tables'[i] = tables[i]
    BY <1>1, <1>2 DEF f
  <2>3. tables'[Len(tables) + 1] = f
    BY <1>1, <1>2 DEF f
  <2> QED BY <2>1, <2>2, <2>3
<1> QED BY <1>1, <1>3, <1>4, <1>5 DEF Given, f

LEMMA BootMapInvInit == BootMapInit => BootMapInv
<1> SUFFICES ASSUME BootMapInit PROVE BootMapInv
  OBVIOUS
<1>1. Given = {}
  BY DEF BootMapInit, Given, FreePages
<1>2. BootDescribed
  BY DEF BootMapInit, BootDescribed
<1> QED
  BY <1>1, <1>2 DEF BootMapInit, BootMapInv, GivenWasFreed, CriticalKept, TablesTaken,
     PhysmapGrown, Phases

(* What BOOT_INFO says never changes after MmInitialize has begun. *)
LEMMA BootMapFacts ==
  ASSUME BootDescribed
  PROVE  /\ boot.map \in MemoryMaps /\ boot.map \in Seq(Descriptors)
         /\ \E k \in Nat : boot.kernel.base = k * PageSize /\ boot.kernel.length \in Nat
         /\ \E l \in Nat : boot.loader.base = l * PageSize /\ boot.loader.length \in Nat
<1>1. PICK map \in MemoryMaps, kernel, loader \in Pages, size \in KernelSizes,
           pool \in Addresses, poolSize \in PoolSizes :
        boot = [map    |-> map,
                kernel |-> Range(kernel * PageSize, size),
                loader |-> Range(loader * PageSize, LoaderSize),
                pool   |-> Range(pool, poolSize)]
  BY DEF BootDescribed
<1>2. size \in Nat /\ LoaderSize \in Nat /\ kernel \in Nat /\ loader \in Nat
  BY BootMapConstants DEF Pages
<1>3. boot.map = map /\ map \in Seq(Descriptors)
  BY <1>1, BootMapConstants
<1>4. /\ boot.kernel.base = kernel * PageSize /\ boot.kernel.length = size
      /\ boot.loader.base = loader * PageSize /\ boot.loader.length = LoaderSize
  BY <1>1 DEF Range
<1> QED BY <1>2, <1>3, <1>4

LEMMA BootMapInvNext == BootMapInv /\ [BootMapNext]_bootMapVars => BootMapInv'
<1> SUFFICES ASSUME BootMapInv, [BootMapNext]_bootMapVars PROVE BootMapInv'
  OBVIOUS
<1> USE DEF Phases
<1>1. CASE MmpMarkUsableFromBootInfo
  <2>0. /\ phase = "allocated" /\ boot' = boot /\ tables' = tables /\ physmap' = physmap
        /\ BootDescribed'
    BY <1>1 DEF MmpMarkUsableFromBootInfo, BootMapInv, BootDescribed
  <2>1. CASE next < Len(boot.map)
    <3>1. /\ bitmap' = IF MmpIsRangeUsable(boot.map[next + 1])
                       THEN bitmap \ MmpMarkRange(boot.map[next + 1]) ELSE bitmap
          /\ next' = next + 1 /\ phase' = phase
      BY <1>1, <2>1 DEF MmpMarkUsableFromBootInfo
    <3>2. next + 1 \in DOMAIN boot.map
      BY <2>1, BootMapFacts DEF BootMapInv
    <3>3. GivenWasFreed'
      BY <3>1, <3>2, <2>0 DEF BootMapInv, GivenWasFreed, Given, FreePages
    <3> QED
      BY <2>0, <3>1, <3>3 DEF BootMapInv, CriticalKept, TablesTaken, PhysmapGrown
  <2>2. CASE ~ (next < Len(boot.map))
    BY <1>1, <2>0, <2>2 DEF MmpMarkUsableFromBootInfo, BootMapInv, GivenWasFreed, Given,
       FreePages, CriticalKept, TablesTaken, PhysmapGrown
  <2> QED BY <2>1, <2>2
<1>2. CASE MmpReserveBootCriticalRanges
  <2>0. /\ phase = "usable" /\ boot' = boot /\ tables' = tables /\ physmap' = physmap
        /\ next' = next /\ phase' = "reserved" /\ BootDescribed'
        /\ bitmap' = bitmap \cup UNION {MmpMarkRange(r) : r \in CriticalRanges(boot)}
    BY <1>2 DEF MmpReserveBootCriticalRanges, BootMapInv, BootDescribed
  <2>1. DOMAIN tables = {}
    BY <2>0 DEF BootMapInv, TablesTaken
  <2>2. Given' = FreePages \ UNION {MmpMarkRange(r) : r \in CriticalRanges(boot)}
    BY <2>0, <2>1 DEF Given, FreePages
  <2>3. GivenWasFreed'
    BY <2>0, <2>2 DEF BootMapInv, GivenWasFreed, Given
  <2>4. CriticalKept'
    BY <2>0, <2>2 DEF CriticalKept
  <2> QED
    BY <2>0, <2>3, <2>4 DEF BootMapInv, TablesTaken, PhysmapGrown
<1>t. ASSUME Given' = Given, boot' = boot,
             phase' \in {"allocated", "usable"} => phase \in {"allocated", "usable"},
             phase \in {"allocated", "usable"} => phase' \in {"allocated", "usable"}
      PROVE  GivenWasFreed' /\ CriticalKept' /\ BootDescribed'
  BY <1>t DEF BootMapInv, GivenWasFreed, CriticalKept, BootDescribed
<1>3. CASE MmpCloneKernelRootTable
  <2>0. boot' = boot /\ physmap' = physmap /\ next' = next /\ tables \in Seq(Pages)
    BY <1>3 DEF MmpCloneKernelRootTable, BootMapInv, TablesTaken
  <2>1. CASE FreePages = {}
    <3>1. phase' = "failed" /\ tables' = tables /\ Given' = Given
      BY <1>3, <2>1 DEF MmpCloneKernelRootTable, Given, FreePages
    <3> QED
      BY <1>3, <2>0, <3>1, <1>t
      DEF MmpCloneKernelRootTable, BootMapInv, TablesTaken, PhysmapGrown
  <2>2. CASE FreePages # {}
    <3>1. /\ phase' = IF phase = "reserved" THEN "cloned" ELSE "physmap"
          /\ phase \in {"reserved", "cloned"}
          /\ Given' = Given
          /\ tables' \in Seq(Pages) /\ Len(tables') = Len(tables) + 1
      BY <1>3, <2>0, <2>2, TakeTableEffect DEF MmpCloneKernelRootTable
    <3>2. TablesTaken'
      BY <3>1 DEF BootMapInv, TablesTaken
    <3>3. PhysmapGrown'
      <4>1. CASE phase = "reserved"
        BY <4>1, <3>1, <2>0 DEF BootMapInv, PhysmapGrown
      <4>2. CASE phase = "cloned"
        <5>1. Reached' = 0
          <6>1. Len(tables') - 2 = 0
            BY <4>2, <3>1 DEF BootMapInv, TablesTaken
          <6>2. 0 * TableSpan = 0
            BY BootMapConstants
          <6> QED BY <6>1, <6>2 DEF Reached
        <5> QED BY <4>2, <5>1, <3>1, <2>0 DEF BootMapInv, PhysmapGrown
      <4> QED BY <4>1, <4>2, <3>1
    <3> QED BY <2>0, <3>1, <3>2, <3>3, <1>t DEF BootMapInv
  <2> QED BY <2>1, <2>2
<1>4. CASE MmpBuildKernelPhysmap
  <2>0. /\ phase = "physmap" /\ boot' = boot /\ next' = next
        /\ tables \in Seq(Pages) /\ Len(tables) >= 2 /\ Len(tables) \in Nat
        /\ TableSpan \in Nat \ {0} /\ Reached \in Nat
    BY <1>4, BootMapConstants DEF MmpBuildKernelPhysmap, BootMapInv, TablesTaken, Reached
  <2>m. MappedPages \in Nat
    <3>1. TrackedPages + LargeSpan - 1 \in Nat /\ LargeSpan \in Nat \ {0}
      BY BootMapConstants
    <3> QED BY <3>1, Division DEF MappedPages
  <2>1. CASE Reached >= MappedPages
    <3>1. phase' = "ready" /\ UNCHANGED <<bitmap, tables, physmap>>
      BY <1>4, <2>0, <2>1, <2>m DEF MmpBuildKernelPhysmap, Reached
    <3>2. Given' = Given /\ Reached' = Reached
      BY <3>1 DEF Given, FreePages, Reached
    <3> QED
      BY <2>0, <2>1, <2>m, <3>1, <3>2, <1>t DEF BootMapInv, TablesTaken, PhysmapGrown
  <2>2. CASE Reached < MappedPages /\ FreePages = {}
    <3>1. phase' = "failed" /\ UNCHANGED <<bitmap, tables, physmap>>
      BY <1>4, <2>0, <2>2, <2>m DEF MmpBuildKernelPhysmap, Reached
    <3>2. Given' = Given
      BY <3>1 DEF Given, FreePages
    <3> QED
      BY <2>0, <3>1, <3>2, <1>t DEF BootMapInv, TablesTaken, PhysmapGrown
  <2>3. CASE Reached < MappedPages /\ FreePages # {}
    <3>1. TakeTable /\ physmap' = physmap \cup DirectoryPages(Reached) /\ phase' = phase
      BY <1>4, <2>0, <2>3, <2>m DEF MmpBuildKernelPhysmap, Reached
    <3>2. Given' = Given /\ tables' \in Seq(Pages) /\ Len(tables') = Len(tables) + 1
      BY <2>0, <2>3, <3>1, TakeTableEffect
    <3>3. Reached' = Reached + TableSpan
      <4>1. Len(tables) - 2 \in Nat /\ Len(tables') - 2 = (Len(tables) - 2) + 1
        BY <2>0, <3>2
      <4> QED BY <4>1, <2>0, Multiples DEF Reached
    <3>4. physmap' = {p \in Nat : p < MappedPages /\ p < Reached'}
      BY <2>0, <2>m, <3>1, <3>3 DEF BootMapInv, PhysmapGrown, DirectoryPages
    <3> QED
      BY <2>0, <3>1, <3>2, <3>4, <1>t DEF BootMapInv, TablesTaken, PhysmapGrown
  <2> QED BY <2>0, <2>m, <2>1, <2>2, <2>3
<1>5. CASE UNCHANGED bootMapVars
  <2>1. Given' = Given /\ Reached' = Reached
    BY <1>5 DEF bootMapVars, Given, FreePages, Reached
  <2> QED
    BY <1>5, <2>1, <1>t DEF bootMapVars, BootMapInv, TablesTaken, PhysmapGrown
<1> QED BY <1>1, <1>2, <1>3, <1>4, <1>5 DEF BootMapNext, BootMapDone
-----------------------------------------------------------------------------
(* Whatever the order of the firmware's ranges, MmInitialize gives out     *)
(* only pages that the firmware calls usable: no free page and no page     *)
(* table touches a hole or a range of another type.                        *)
THEOREM OnlyUsablePagesGiven == BootMapSpec => []FreePagesUsable
<1>1. BootMapInv => FreePagesUsable
  <2> SUFFICES ASSUME BootMapInv, NEW p \in Given
               PROVE  /\ \E i \in DOMAIN boot.map : p \in Touched(boot.map[i])
                      /\ \A j \in DOMAIN boot.map :
                           p \in Touched(boot.map[j]) => MmpIsRangeUsable(boot.map[j])
    BY DEF FreePagesUsable, MmpIsRangeUsable
  <2>1. PICK i \in DOMAIN boot.map :
          MmpIsRangeUsable(boot.map[i]) /\ p \in MmpMarkRange(boot.map[i])
    BY DEF BootMapInv, GivenWasFreed
  <2>2. boot.map \in MemoryMaps /\ \A j \in DOMAIN boot.map : boot.map[j] \in Descriptors
    BY BootMapFacts DEF BootMapInv
  <2>3. ASSUME NEW r \in Descriptors
        PROVE  WholePages(r) /\ r.base \in Nat /\ r.length \in Nat
    <3>1. PICK b \in Pages, n \in 1 .. TrackedPages :
            r.base = b * PageSize /\ r.length = n * PageSize
      BY DEF Descriptors
    <3>2. b \in Nat /\ n \in Nat /\ b * PageSize \in Nat /\ n * PageSize \in Nat
      BY PageSizePositive, Multiples DEF Pages
    <3> QED BY <3>1, <3>2 DEF WholePages
  <2>4. p \in Touched(boot.map[i])
    BY <2>1, <2>2, <2>3, MarkedIsTouched
  <2>5. ASSUME NEW j \in DOMAIN boot.map, p \in Touched(boot.map[j])
        PROVE  j = i
    <3>1. p \in MmpMarkRange(boot.map[j])
      BY <2>2, <2>3, <2>5, WholePagesMarked
    <3>2. p * PageSize \in Extent(boot.map[i]) /\ p * PageSize \in Extent(boot.map[j])
      BY <2>1, <2>2, <2>3, <3>1, MarkedLiesInside
    <3> QED BY <2>2, <3>2, MapsDisjoint
  <2> QED BY <2>1, <2>4, <2>5
<1> QED BY <1>1, BootMapInvInit, BootMapInvNext, PTL DEF BootMapSpec

(* The kernel image, the loader and the low megabyte are never given out,  *)
(* neither as free pages nor as page tables, if their sizes are whole      *)
(* pages.                                                                  *)
THEOREM CriticalImagesReserved == BootMapSpec => []ImagesReserved
<1>1. BootMapInv => ImagesReserved
  <2> SUFFICES ASSUME BootMapInv, phase \notin {"allocated", "usable"},
                      NEW r \in {LowMemory, boot.kernel, boot.loader},
                      r.length % PageSize = 0
               PROVE  Given \cap Touched(r) = {}
    BY DEF ImagesReserved
  <2>1. r.length \in Nat /\ \E b \in Nat : r.base = b * PageSize
    <3>1. LowMemory.base = 0 * PageSize /\ LowMemory.length \in Nat
      BY BootMapConstants DEF LowMemory, Range
    <3> QED BY <3>1, BootMapFacts DEF BootMapInv
  <2>2. WholePages(r)
    <3>1. r.length = (r.length \div PageSize) * PageSize /\ r.length \div PageSize \in Nat
      BY <2>1, PageSizePositive
    <3> QED BY <2>1, <3>1 DEF WholePages
  <2>3. Given \cap MmpMarkRange(r) = {}
    BY DEF BootMapInv, CriticalKept, CriticalRanges
  <2> QED BY <2>2, <2>3, WholePagesMarked
<1> QED BY <1>1, BootMapInvInit, BootMapInvNext, PTL DEF BootMapSpec

(* Once MmInitialize is done the physmap reaches every tracked page, for   *)
(* every number of pages per large entry and per page directory.           *)
THEOREM PhysmapReachesAll == BootMapSpec => []PhysmapCovers
<1>1. BootMapInv => PhysmapCovers
  <2> SUFFICES ASSUME BootMapInv, phase = "ready", NEW p \in Pages
               PROVE  p \in physmap
    BY DEF PhysmapCovers
  <2>1. TrackedPages + LargeSpan - 1 \in Nat /\ LargeSpan \in Nat \ {0} /\ TrackedPages \in Nat
    BY BootMapConstants
  <2>2. TrackedPages <= MappedPages /\ MappedPages \in Nat
    <3>1. /\ MappedPages \in Nat
          /\ TrackedPages + LargeSpan - 1 < MappedPages + LargeSpan
      BY <2>1, Division DEF MappedPages
    <3> QED BY <2>1, <3>1
  <2>3. Reached \in Int
    BY BootMapConstants DEF Reached, BootMapInv, TablesTaken
  <2> QED
    BY <2>1, <2>2, <2>3 DEF BootMapInv, PhysmapGrown, Pages
<1> QED BY <1>1, BootMapInvInit, BootMapInvNext, PTL DEF BootMapSpec
=============================================================================
