------------------------------ MODULE BootExit ------------------------------
(***************************************************************************)
(* The end of the UEFI loader boot/uefi/bootx64.c: SnapshotMemoryMap,      *)
(* PopulateBootInfo and ExitBootServicesRobust, which retries while the    *)
(* firmware changes the memory map under it.                               *)
(*                                                                         *)
(* The firmware's map is its number of descriptors.  A firmware event may  *)
(* change it at any moment before boot services end, and so does every     *)
(* pool allocation.  fresh says that nothing has changed since the last    *)
(* GetMemoryMap, which is when its MapKey is accepted.  Sizes are counted  *)
(* in descriptors.                                                         *)
(***************************************************************************)
EXTENDS Naturals, FiniteSets

CONSTANTS
  MaxEntries,   \* bound: descriptors the firmware's map can have
  Slack,        \* 16 in the code: spare descriptors when a buffer is sized
  MaxAttempts   \* 4 in the code

ASSUME BootConstants == MaxEntries \in Nat \ {0} /\ Slack \in Nat /\ MaxAttempts \in Nat \ {0}

Buffers  == 1 .. 4              \* pool addresses: two in use and two being replaced
NoBuffer == 0

VARIABLES
  entries,        \* descriptors in the firmware's map
  fresh,          \* the last MapKey is still valid
  pc,             \* where the loader is
  attempt,        \* Attempt
  mapBuffer,      \* Snapshot.MapBuffer
  capacity,       \* Snapshot.MapBufferSize
  ranges,         \* Snapshot.Ranges
  rangeCapacity,  \* Snapshot.RangeCapacity
  live,           \* pool buffers that are allocated
  bootInfo,       \* MemoryMap and MemoryMapEntryCount of BOOT_INFO
  filled,         \* the array ConvertMemoryMap last wrote, and how many ranges
  replaced        \* ghost: a retry has allocated new buffers

firmware == <<entries, fresh>>
snapshot == <<mapBuffer, capacity, ranges, rangeCapacity>>
handoff == <<bootInfo, filled, replaced>>
bootVars == <<firmware, pc, attempt, snapshot, live, handoff>>

BootInit ==
  /\ entries \in 1 .. MaxEntries
  /\ fresh = FALSE
  /\ pc = "snapshot"
  /\ attempt = 0
  /\ mapBuffer = NoBuffer /\ capacity = 0
  /\ ranges = NoBuffer /\ rangeCapacity = 0
  /\ live = {}
  /\ bootInfo = [map |-> NoBuffer, count |-> 0]
  /\ filled = [map |-> NoBuffer, count |-> 0]
  /\ replaced = FALSE

(* A timer or device event inside the firmware. *)
FirmwareEvent ==
  /\ pc \notin {"handoff", "failed"}
  /\ entries' \in 1 .. MaxEntries
  /\ fresh' = FALSE
  /\ UNCHANGED <<pc, attempt, snapshot, live, handoff>>

Fails ==
  /\ pc' = "failed"
  /\ UNCHANGED <<attempt, snapshot, handoff>>

OldRangeCapacity(size) == rangeCapacity      \* mutant: Ranges is not resized
NewRangeCapacity(size) == size

FreeNothing == {}                            \* mutant: the old buffers leak
FreedBuffers == {mapBuffer, ranges} \ {NoBuffer}

(* Two pool allocations, sized for the map as it was just reported, then   *)
(* FreePool on the buffers they replace.                                   *)
AllocateBuffers ==
  \E b, r \in Buffers \ live :
    /\ b < r                                 \* addresses are only names
    /\ mapBuffer' = b /\ ranges' = r
    /\ capacity' = entries + Slack
    /\ rangeCapacity' = NewRangeCapacity(entries + Slack)
    /\ live' = (live \cup {b, r}) \ FreedBuffers
    /\ fresh' = FALSE
    /\ UNCHANGED entries

(* An allocation fails.  If it is the second, ExitBootServicesRobust gives *)
(* the map buffer back; SnapshotMemoryMap, which has none yet, keeps it.   *)
OutOfResources ==
  /\ Fails
  /\ fresh' = FALSE
  /\ live' \in {live} \cup {live \cup {b} : b \in IF pc = "snapshot" THEN Buffers ELSE {}}
  /\ UNCHANGED entries

(* SnapshotMemoryMap up to its second GetMemoryMap. *)
SnapshotMemoryMap ==
  /\ pc = "snapshot"
  /\ \/ /\ AllocateBuffers
        /\ pc' = "fill"
        /\ UNCHANGED <<attempt, handoff>>
     \/ OutOfResources

(* The n descriptors just read are written to Ranges as far as they fit. *)
ConvertMemoryMap(n) ==
  filled' = [map |-> ranges, count |-> IF n < rangeCapacity THEN n ELSE rangeCapacity]

(* The second GetMemoryMap, ConvertMemoryMap and PopulateBootInfo. *)
PopulateBootInfo ==
  /\ pc = "fill"
  /\ UNCHANGED <<entries, live>>
  /\ \/ /\ entries > capacity                          \* EFI_BUFFER_TOO_SMALL
        /\ Fails
        /\ UNCHANGED fresh
     \/ /\ entries <= capacity
        /\ ConvertMemoryMap(entries)
        /\ bootInfo' = [map |-> ranges, count |-> filled'.count]
        /\ fresh' = TRUE
        /\ pc' = "get"
        /\ UNCHANGED <<attempt, snapshot, replaced>>

SameAttempt(n) == n                          \* mutant: a retry is not counted
NextAttempt(n) == n + 1

AttemptsLeft(n) == n < MaxAttempts

(* The loop of ExitBootServicesRobust, up to ExitBootServices. *)
GetMemoryMap ==
  /\ pc = "get"
  /\ \/ /\ ~AttemptsLeft(attempt)
        /\ Fails
        /\ UNCHANGED <<firmware, live>>
     \/ /\ AttemptsLeft(attempt)
        /\ entries > capacity
        /\ \/ /\ AllocateBuffers
              /\ attempt' = NextAttempt(attempt)
              /\ replaced' = TRUE
              /\ UNCHANGED <<pc, bootInfo, filled>>
           \/ OutOfResources
     \/ /\ AttemptsLeft(attempt)
        /\ entries <= capacity
        /\ ConvertMemoryMap(entries)
        /\ bootInfo' = [bootInfo EXCEPT !.count = filled'.count]
        /\ fresh' = TRUE
        /\ pc' = "exit"
        /\ UNCHANGED <<entries, attempt, snapshot, live, replaced>>

(* ExitBootServices refuses a stale key, and may fail for other reasons. *)
ExitBootServices ==
  /\ pc = "exit"
  /\ UNCHANGED <<firmware, live>>
  /\ \/ /\ fresh
        /\ pc' = "handoff"
        /\ UNCHANGED <<attempt, snapshot, handoff>>
     \/ /\ ~fresh
        /\ attempt' = NextAttempt(attempt)
        /\ pc' = "get"
        /\ UNCHANGED <<snapshot, handoff>>
     \/ Fails

(* The kernel has been entered, or efi_main has returned to the firmware. *)
Stopped == pc \in {"handoff", "failed"} /\ UNCHANGED bootVars

Loader == SnapshotMemoryMap \/ PopulateBootInfo \/ GetMemoryMap \/ ExitBootServices
BootNext == FirmwareEvent \/ Loader \/ Stopped

BootSpec == BootInit /\ [][BootNext]_bootVars /\ WF_bootVars(Loader)

-----------------------------------------------------------------------------
(* What ExitBootServicesRobust leaves behind when the kernel is entered.   *)
(* The array it filled last holds the firmware's final map with no range   *)
(* cut off, however often the map grew between attempts, and BOOT_INFO     *)
(* announces that many ranges.  BOOT_INFO also points to that array as     *)
(* long as no attempt had to replace it: a map that changed without        *)
(* outgrowing the buffers is converted again in place, after               *)
(* PopulateBootInfo.  Once an attempt has replaced the array nothing is    *)
(* claimed of the pointer, which line 935 does not update: that is what    *)
(* HandoffPointerLive is about.                                            *)
HandoffMapComplete ==
  pc = "handoff" =>
    /\ fresh
    /\ filled = [map |-> ranges, count |-> entries]
    /\ bootInfo.count = filled.count
    /\ ~ replaced => bootInfo.map = filled.map

(* Across retries the loader writes only into buffers it owns, leaks none  *)
(* of those it replaced, and announces no more ranges than fit its array.  *)
BuffersOwned ==
  pc \notin {"snapshot", "failed"} =>
    live = {mapBuffer, ranges} /\ bootInfo.count <= rangeCapacity

(* The memory map BOOT_INFO points to at handoff is the array that holds   *)
(* it, not one a retry has freed.                                          *)
HandoffPointerLive == pc = "handoff" => bootInfo.map = ranges
=============================================================================
