------------------------------ MODULE MmBootMap ------------------------------
(***************************************************************************)
(* MmInitialize in kernel/mm/init.c: how the page bitmap is made from the  *)
(* memory map of BOOT_INFO, and how the first page tables are taken from   *)
(* it.  All frames start allocated; ranges the firmware calls usable are   *)
(* freed; the ranges the boot needs are reserved again; the root table is  *)
(* cloned and the physmap is built.                                        *)
(*                                                                         *)
(* Addresses count units of which PageSize make a page (4096 bytes).  The  *)
(* low megabyte is the first LowPages pages.                               *)
(***************************************************************************)
EXTENDS Naturals, FiniteSets, Sequences

CONSTANTS
  PageSize,       \* MM_PAGE_SIZE
  TrackedPages,   \* gMmTrackedPages
  LowPages,       \* pages below 0x100000
  LargeSpan,      \* pages under one large entry of the physmap (2 MiB)
  TableSpan,      \* pages under one page directory of the physmap (1 GiB)
  MemoryMaps,     \* the firmware's maps to consider, as sequences of ranges
  KernelSizes,    \* sizes of the kernel image, which starts on a page
  LoaderSize,     \* 0x200000 from LoaderBase, which starts on a page
  PoolSizes       \* sizes of BOOT_INFO, the init image and the map array

Addresses == 0 .. TrackedPages * PageSize - 1
Pages     == 0 .. TrackedPages - 1
Types     == {"CONVENTIONAL", "BOOT_SERVICES", "LOADER", "RUNTIME", "RESERVED"}

(* Descriptors are in whole pages. *)
Descriptors ==
  [base : {p * PageSize : p \in Pages}, length : {p * PageSize : p \in 1 .. TrackedPages},
   type : Types]

ASSUME BootMapConstants ==
  /\ {PageSize, TrackedPages, LargeSpan, TableSpan} \subseteq Nat \ {0}
  /\ TableSpan % LargeSpan = 0
  /\ LowPages \in Nat /\ LoaderSize \in Nat
  /\ KernelSizes \cup PoolSizes \subseteq Nat \ {0}
  /\ \A map \in MemoryMaps : map \in Seq(Descriptors)

VARIABLES
  phase,      \* how far MmInitialize has come
  boot,       \* the ranges BOOT_INFO describes
  bitmap,     \* allocated pages: gMmPageBitmap
  next,       \* ranges of the map already looked at
  tables,     \* frames taken for page tables, in order
  physmap     \* pages the physmap reaches

bootMapVars == <<phase, boot, bitmap, next, tables, physmap>>

-----------------------------------------------------------------------------
AlignDown(a) == (a \div PageSize) * PageSize
AlignUp(a)   == AlignDown(a + PageSize - 1)

(* The pages MmpMarkRange marks: rounded inward, whatever it marks them as *)
(* and clipped to the tracked pages.                                       *)
MarkShort(r) ==                              \* mutant: the last page is left out
  {p \in Pages : r.length > 0 /\ AlignUp(r.base) <= p * PageSize
                 /\ (p + 1) * PageSize < AlignDown(r.base + r.length)}
MmpMarkRange(r) ==
  {p \in Pages : r.length > 0 /\ AlignUp(r.base) <= p * PageSize
                 /\ p * PageSize < AlignDown(r.base + r.length)}

Range(base, length) == [base |-> base, length |-> length]

UnitsOf(p) == p * PageSize .. (p + 1) * PageSize - 1
Extent(r) == r.base .. r.base + r.length - 1
Touched(r) == {p \in Pages : UnitsOf(p) \cap Extent(r) # {}}

(* No two descriptors of a map GetMemoryMap returns overlap; MmInitialize  *)
(* relies on it and does not check.                                        *)
ASSUME MapsDisjoint ==
  \A map \in MemoryMaps : \A i, j \in DOMAIN map :
    Extent(map[i]) \cap Extent(map[j]) # {} => i = j

AnyType(r) == TRUE                           \* mutant: the type is not looked at
MmpIsRangeUsable(r) == r.type \in {"CONVENTIONAL", "BOOT_SERVICES", "LOADER"}

(* What BOOT_INFO can say: the kernel and the loader start on pages of     *)
(* their own in LOADER memory, and so does the page or pages of the pool   *)
(* that hold BOOT_INFO, the init image or the map array, at any offset.    *)
(* Those three are treated alike, so one of them is enough.                *)
PlacedApart(b) ==
  /\ \A r \in {b.kernel, Range(b.loader.base, 1), b.pool} :
       \E i \in DOMAIN b.map : b.map[i].type = "LOADER" /\ Extent(r) \subseteq Extent(b.map[i])
  /\ Touched(b.kernel) \cap Touched(b.pool) = {}
  /\ b.loader.base \div PageSize \notin Touched(b.kernel) \cup Touched(b.pool)

BootMapInit ==
  /\ phase = "allocated"
  /\ \E map \in MemoryMaps, kernel, loader \in Pages, size \in KernelSizes,
        pool \in Addresses, poolSize \in PoolSizes :
       /\ boot = [map    |-> map,
                  kernel |-> Range(kernel * PageSize, size),
                  loader |-> Range(loader * PageSize, LoaderSize),
                  pool   |-> Range(pool, poolSize)]
       /\ PlacedApart(boot)
  /\ bitmap = Pages
  /\ next = 0
  /\ tables = <<>>
  /\ physmap = {}

(* One turn of the loop over the memory map. *)
MmpMarkUsableFromBootInfo ==
  /\ phase = "allocated"
  /\ IF next < Len(boot.map)
     THEN /\ bitmap' = IF MmpIsRangeUsable(boot.map[next + 1])
                       THEN bitmap \ MmpMarkRange(boot.map[next + 1]) ELSE bitmap
          /\ next' = next + 1
          /\ UNCHANGED phase
     ELSE /\ phase' = "usable"
          /\ UNCHANGED <<bitmap, next>>
  /\ UNCHANGED <<boot, tables, physmap>>

LowMemory == Range(0, LowPages * PageSize)
CriticalRanges(b) == {LowMemory, b.kernel, b.loader, b.pool}

MmpReserveBootCriticalRanges ==
  /\ phase = "usable"
  /\ bitmap' = bitmap \cup UNION {MmpMarkRange(r) : r \in CriticalRanges(boot)}
  /\ phase' = "reserved"
  /\ UNCHANGED <<boot, next, tables, physmap>>

(* MmpAllocPageInternal before the first free: the scan only moves up. *)
FreePages == Pages \ bitmap
FirstFree == CHOOSE p \in FreePages : \A q \in FreePages : p <= q
TakeTable ==
  /\ bitmap' = bitmap \cup {FirstFree}
  /\ tables' = Append(tables, FirstFree)

(* MmpCloneKernelRootTable, and the first table of MmpBuildKernelPhysmap. *)
MmpCloneKernelRootTable ==
  /\ phase \in {"reserved", "cloned"}
  /\ IF FreePages = {}
     THEN phase' = "failed" /\ UNCHANGED <<bitmap, tables>>
     ELSE TakeTable /\ phase' = IF phase = "reserved" THEN "cloned" ELSE "physmap"
  /\ UNCHANGED <<boot, next, physmap>>

MappedDown == (TrackedPages \div LargeSpan) * LargeSpan   \* mutant: rounded down
MappedPages == ((TrackedPages + LargeSpan - 1) \div LargeSpan) * LargeSpan

(* The inner loop: the pages under one page directory. *)
DirectoryPages(first) == {p \in first .. first + TableSpan - 1 : p < MappedPages}

(* One turn of the outer loop: a page directory for the next TableSpan     *)
(* pages, with a large entry for each LargeSpan of them that is mapped.    *)
MmpBuildKernelPhysmap ==
  LET first == (Len(tables) - 2) * TableSpan IN
  /\ phase = "physmap"
  /\ UNCHANGED <<boot, next>>
  /\ \/ /\ first >= MappedPages
        /\ phase' = "ready"
        /\ UNCHANGED <<bitmap, tables, physmap>>
     \/ /\ first < MappedPages
        /\ IF FreePages = {}
           THEN phase' = "failed" /\ UNCHANGED <<bitmap, tables, physmap>>
           ELSE TakeTable /\ physmap' = physmap \cup DirectoryPages(first) /\ UNCHANGED phase

BootMapDone == phase \in {"ready", "failed"} /\ UNCHANGED bootMapVars

BootMapNext ==
  \/ MmpMarkUsableFromBootInfo
  \/ MmpReserveBootCriticalRanges
  \/ MmpCloneKernelRootTable
  \/ MmpBuildKernelPhysmap
  \/ BootMapDone

BootMapSpec == BootMapInit /\ [][BootMapNext]_bootMapVars

-----------------------------------------------------------------------------
(* The pages MmAllocPage may still give, and those taken for tables. *)
Given == FreePages \cup {tables[i] : i \in DOMAIN tables}

(* Nothing is handed out but what the firmware calls usable, whatever the *)
(* order of its ranges: no free page and no page table touches a range of  *)
(* another type or a hole.                                                 *)
FreePagesUsable ==
  \A p \in Given : /\ \E i \in DOMAIN boot.map : p \in Touched(boot.map[i])
                   /\ \A i \in DOMAIN boot.map :
                        p \in Touched(boot.map[i]) => boot.map[i].type \in
                          {"CONVENTIONAL", "BOOT_SERVICES", "LOADER"}

(* No free page and no page table overlaps the kernel image, the loader or *)
(* the low megabyte, if their sizes are whole pages.                       *)
ImagesReserved ==
  phase \notin {"allocated", "usable"} =>
    \A r \in {LowMemory, boot.kernel, boot.loader} :
      r.length % PageSize = 0 => Given \cap Touched(r) = {}

(* When MmInitialize is done, the physmap reaches every tracked page:      *)
(* MmpPhysToVirtPage may be used on whatever MmAllocPage returns.          *)
PhysmapCovers == phase = "ready" => Pages \subseteq physmap
=============================================================================
