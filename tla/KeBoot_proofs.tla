--------------------------- MODULE KeBoot_proofs ---------------------------
(***************************************************************************)
(* Proofs about the way from the firmware to the idle loop, for every size *)
(* of the firmware's memory map, every slack, every number of attempts,    *)
(* every set of programs and bases, and every page size and alignment.     *)
(* The second half is about images: what the packer writes, what the two   *)
(* loaders make of it, and that the relocation walk moves each address of  *)
(* the program once and nothing else.                                      *)
(***************************************************************************)
EXTENDS KeBoot, NaturalsInduction, WellFoundedInduction, TLAPS

-----------------------------------------------------------------------------
(***************************************************************************)
(* Leaving boot services.  That no range is cut off needs the two buffers  *)
(* to have the same capacity; that none leaks needs the live buffers to be *)
(* exactly the two of the snapshot; and that BOOT_INFO never announces     *)
(* more than fits needs a reallocation to be always a growth.              *)
(***************************************************************************)
LoaderPlaces == {"snapshot", "fill", "get", "exit", "handoff", "failed"}

LoaderTyped ==
  /\ entries \in Nat
  /\ pc \in LoaderPlaces
  /\ capacity \in Nat /\ rangeCapacity = capacity
  /\ mapBuffer \in Buffers \cup {NoBuffer} /\ ranges \in Buffers \cup {NoBuffer}
  /\ bootInfo \in [map : Buffers \cup {NoBuffer}, count : Nat]
  /\ filled \in [map : Buffers \cup {NoBuffer}, count : Nat]
  /\ replaced \in BOOLEAN

NothingYet ==
  pc = "snapshot" =>
    live = {} /\ mapBuffer = NoBuffer /\ ranges = NoBuffer /\ bootInfo.count = 0

BuffersHeld ==
  pc \notin {"snapshot", "failed"} =>
    /\ mapBuffer \in Buffers /\ ranges \in Buffers
    /\ live = {mapBuffer, ranges}
    /\ bootInfo.count <= rangeCapacity

InfoPopulated ==
  pc \in {"get", "exit", "handoff"} =>
    bootInfo.map # NoBuffer /\ (~ replaced => bootInfo.map = ranges)

KeyMatchesMap ==
  /\ pc = "exit" => bootInfo.count = filled.count /\ filled.map = ranges
  /\ pc = "exit" /\ fresh => filled.count = entries
  /\ pc = "handoff" =>
       /\ fresh /\ filled.map = ranges /\ filled.count = entries
       /\ bootInfo.count = filled.count

LoaderInv == LoaderTyped /\ NothingYet /\ BuffersHeld /\ InfoPopulated /\ KeyMatchesMap

LEMMA LoaderInvInit == BootInit => LoaderInv
<1> SUFFICES ASSUME BootInit PROVE LoaderInv
  OBVIOUS
<1>1. LoaderTyped
  <2>1. replaced \in BOOLEAN
    BY Zenon DEF BootInit
  <2>2. /\ bootInfo \in [map : Buffers \cup {NoBuffer}, count : Nat]
        /\ filled \in [map : Buffers \cup {NoBuffer}, count : Nat]
    BY DEF BootInit
  <2>3. entries \in Nat
    BY BootConstants DEF BootInit
  <2> QED BY <2>1, <2>2, <2>3 DEF BootInit, LoaderTyped, LoaderPlaces
<1>2. NothingYet /\ BuffersHeld /\ InfoPopulated /\ KeyMatchesMap
  BY DEF BootInit, NothingYet, BuffersHeld, InfoPopulated, KeyMatchesMap
<1> QED BY <1>1, <1>2 DEF LoaderInv

(* An allocation leaves exactly the two new buffers, large enough for the  *)
(* map as it was reported.                                                 *)
LEMMA AllocateBuffersEffect ==
  ASSUME LoaderInv, pc \in {"snapshot", "get"}, AllocateBuffers
  PROVE  /\ mapBuffer' \in Buffers /\ ranges' \in Buffers
         /\ live' = {mapBuffer', ranges'}
         /\ capacity' = entries + Slack /\ rangeCapacity' = capacity'
         /\ entries' = entries /\ fresh' = FALSE
<1>1. PICK b, r \in Buffers \ live :
        /\ mapBuffer' = b /\ ranges' = r
        /\ capacity' = entries + Slack
        /\ rangeCapacity' = entries + Slack
        /\ live' = (live \cup {b, r}) \ FreedBuffers
        /\ fresh' = FALSE
        /\ entries' = entries
  BY DEF AllocateBuffers, NewRangeCapacity
<1>2. live = FreedBuffers
  BY DEF LoaderInv, NothingYet, BuffersHeld, FreedBuffers, Buffers, NoBuffer
<1> QED BY <1>1, <1>2

LEMMA LoaderInvNext ==
  LoaderInv /\ (Loader \/ FirmwareEvent \/ UNCHANGED bootVars) => LoaderInv'
<1> SUFFICES ASSUME LoaderInv, Loader \/ FirmwareEvent \/ UNCHANGED bootVars
             PROVE  LoaderInv'
  OBVIOUS
<1> USE DEF LoaderPlaces
<1>f. ASSUME Fails, entries' = entries PROVE LoaderInv'
  BY <1>f DEF Fails, snapshot, handoff, LoaderInv, LoaderTyped, NothingYet, BuffersHeld,
     InfoPopulated, KeyMatchesMap
<1>o. ASSUME OutOfResources PROVE LoaderInv'
  BY <1>o, <1>f DEF OutOfResources
<1>1. CASE FirmwareEvent
  BY <1>1, BootConstants DEF FirmwareEvent, snapshot, handoff, LoaderInv, LoaderTyped, NothingYet,
     BuffersHeld, InfoPopulated, KeyMatchesMap
<1>2. CASE SnapshotMemoryMap
  <2>1. CASE AllocateBuffers /\ pc' = "fill" /\ UNCHANGED <<attempt, handoff>>
    <3>1. pc = "snapshot"
      BY <1>2 DEF SnapshotMemoryMap
    <3>2. /\ mapBuffer' \in Buffers /\ ranges' \in Buffers
          /\ live' = {mapBuffer', ranges'}
          /\ capacity' = entries + Slack /\ rangeCapacity' = capacity'
          /\ entries' = entries
      BY <2>1, <3>1, AllocateBuffersEffect
    <3> QED
      BY <2>1, <3>1, <3>2, BootConstants
      DEF handoff, LoaderInv, LoaderTyped, NothingYet, BuffersHeld, InfoPopulated, KeyMatchesMap
  <2> QED BY <1>2, <1>o, <2>1 DEF SnapshotMemoryMap
<1>3. CASE PopulateBootInfo
  <2>1. CASE Fails
    BY <1>3, <2>1, <1>f DEF PopulateBootInfo
  <2>2. CASE ~ Fails
    <3>1. /\ pc = "fill" /\ entries <= capacity /\ ConvertMemoryMap(entries)
          /\ bootInfo' = [map |-> ranges, count |-> filled'.count]
          /\ fresh' = TRUE /\ pc' = "get" /\ replaced' = replaced
          /\ UNCHANGED <<entries, live, mapBuffer, capacity, ranges, rangeCapacity>>
      BY <1>3, <2>2 DEF PopulateBootInfo, snapshot
    <3>2. filled' = [map |-> ranges, count |-> entries]
      BY <3>1 DEF ConvertMemoryMap, LoaderInv, LoaderTyped
    <3> QED
      BY <3>1, <3>2 DEF LoaderInv, LoaderTyped, NothingYet, BuffersHeld, InfoPopulated,
         KeyMatchesMap, Buffers, NoBuffer
  <2> QED BY <2>1, <2>2
<1>4. CASE GetMemoryMap
  <2>0. pc = "get"
    BY <1>4 DEF GetMemoryMap
  <2>1. CASE Fails
    <3>1. entries' = entries
      BY <1>4 DEF GetMemoryMap, firmware, OutOfResources, AllocateBuffers
    <3> QED BY <2>1, <3>1, <1>f
  <2>2. CASE /\ AllocateBuffers /\ entries > capacity /\ replaced' = TRUE
             /\ UNCHANGED <<pc, bootInfo, filled>>
    <3>1. /\ mapBuffer' \in Buffers /\ ranges' \in Buffers
          /\ live' = {mapBuffer', ranges'}
          /\ capacity' = entries + Slack /\ rangeCapacity' = capacity'
          /\ entries' = entries
      BY <2>0, <2>2, AllocateBuffersEffect
    <3> QED
      BY <2>0, <2>2, <3>1, BootConstants
      DEF LoaderInv, LoaderTyped, NothingYet, BuffersHeld, InfoPopulated, KeyMatchesMap
  <2>3. CASE /\ entries <= capacity
             /\ ConvertMemoryMap(entries)
             /\ bootInfo' = [bootInfo EXCEPT !.count = filled'.count]
             /\ fresh' = TRUE /\ pc' = "exit"
             /\ UNCHANGED <<entries, attempt, snapshot, live, replaced>>
    <3>1. filled' = [map |-> ranges, count |-> entries]
      BY <2>3 DEF ConvertMemoryMap, LoaderInv, LoaderTyped
    <3> QED
      BY <2>0, <2>3, <3>1 DEF snapshot, LoaderInv, LoaderTyped, NothingYet, BuffersHeld,
         InfoPopulated, KeyMatchesMap
  <2> QED BY <1>4, <1>o, <2>1, <2>2, <2>3 DEF GetMemoryMap
<1>5. CASE ExitBootServices
  <2>1. CASE Fails
    BY <1>5, <2>1, <1>f DEF ExitBootServices, firmware
  <2>2. CASE ~ Fails
    BY <1>5, <2>2 DEF ExitBootServices, firmware, snapshot, handoff, LoaderInv, LoaderTyped,
       NothingYet, BuffersHeld, InfoPopulated, KeyMatchesMap
  <2> QED BY <2>1, <2>2
<1>6. CASE UNCHANGED bootVars
  BY <1>6 DEF bootVars, firmware, snapshot, handoff, LoaderInv, LoaderTyped, NothingYet,
     BuffersHeld, InfoPopulated, KeyMatchesMap
<1> QED BY <1>1, <1>2, <1>3, <1>4, <1>5, <1>6 DEF Loader

(* Every step of the boot leaves the loader's variables alone or is one of *)
(* the loader's or the firmware's own.                                     *)
LEMMA BootStep ==
  [KeNext]_keVars => Loader \/ FirmwareEvent \/ UNCHANGED bootVars
BY DEF KeNext, Step, ReadKernelFile, ReadInitFile, LoadKernel, AllocateBootInfo,
   LeaveBootServices, ExitFailed, BootCallKernel, KiInitializeEarly, NkInitializeCore,
   ExInitializeExecutive, ExInitializeHybridServices, HalInitializePhase1, OpenInit,
   SpawnInit, KeRunValidationSuite, IdleTurn, TimerInterrupt, FirmwareChangesMap, Over,
   ReturnsToFirmware, Halts, keVars

(* However often the map changed and grew before ExitBootServices took its *)
(* key, the array filled last holds the firmware's final map, whole, and   *)
(* BOOT_INFO announces its length; it points to that array if no retry had *)
(* to replace it.                                                          *)
THEOREM HandoffMapIsComplete == KeSpec => []HandoffMapComplete
<1>1. KeInit => LoaderInv
  BY LoaderInvInit DEF KeInit
<1>2. LoaderInv /\ [KeNext]_keVars => LoaderInv'
  BY LoaderInvNext, BootStep
<1>3. LoaderInv => HandoffMapComplete
  <2> SUFFICES ASSUME LoaderInv, pc = "handoff" PROVE HandoffMapComplete
    BY DEF HandoffMapComplete
  <2>1. /\ fresh /\ bootInfo.count = filled.count /\ filled.map = ranges
        /\ filled.count = entries /\ filled \in [map : Buffers \cup {NoBuffer}, count : Nat]
        /\ ~ replaced => bootInfo.map = ranges
    BY DEF LoaderInv, LoaderTyped, InfoPopulated, KeyMatchesMap
  <2>2. filled = [map |-> ranges, count |-> entries]
    BY <2>1
  <2> QED BY <2>1, <2>2 DEF HandoffMapComplete
<1> QED BY <1>1, <1>2, <1>3, PTL DEF KeSpec

(* Across any number of retries the loader owns exactly the two buffers of *)
(* its snapshot and announces no more ranges than its array holds.         *)
THEOREM LoaderOwnsBuffers == KeSpec => []BuffersOwned
<1>1. KeInit => LoaderInv
  BY LoaderInvInit DEF KeInit
<1>2. LoaderInv /\ [KeNext]_keVars => LoaderInv'
  BY LoaderInvNext, BootStep
<1>3. LoaderInv => BuffersOwned
  BY DEF LoaderInv, BuffersHeld, BuffersOwned
<1> QED BY <1>1, <1>2, <1>3, PTL DEF KeSpec
-----------------------------------------------------------------------------
(***************************************************************************)
(* From the loader's call of the kernel to the idle loop.  The invariant   *)
(* says, for each stage of AsterKernelEntry, which managers are ready,     *)
(* what the CPU does with interrupts and whether init.kpe is registered.   *)
(***************************************************************************)
FirmwareStages == {"readKernel", "readInit", "load", "bootInfo", "loader", "returned"}
MaskedStages   == {"early", "core", "modules", "hybrid", "phase1"}
OpenStages     == {"open", "spawn", "suite", "idle"}
ReadyStages    == {"hybrid", "phase1"} \cup OpenStages

ReadyBefore(i) == {"NK"} \cup {gExBootModules[j] : j \in 1 .. i - 1}

StageTyped ==
  /\ at \in FirmwareStages \cup MaskedStages \cup OpenStages \cup {"halted"}
  /\ module \in 1 .. 7
  /\ cpu \in [interrupts : BOOLEAN, idt : {"firmware", "kernel"}, tickRoutine : BOOLEAN]

EnteredAtHandoff == at \in MaskedStages \cup OpenStages => pc = "handoff"

ManagersInOrder ==
  /\ at \in FirmwareStages \cup {"early", "core"} => module = 1 /\ ready = {}
  /\ at = "modules" => ready = ReadyBefore(module)
  /\ at \in ReadyStages => ready = ReadyBefore(8)

CpuPrepared ==
  /\ at \in MaskedStages \cup {"halted"} => ~ cpu.interrupts
  /\ at \in {"core", "modules"} \cup ReadyStages => cpu.idt = "kernel"
  /\ at = "modules" /\ module = 7 => cpu.tickRoutine
  /\ at \in ReadyStages => cpu.tickRoutine

InitRegistered ==
  /\ at = "modules" /\ module > 5 => (registered <=> initRead)
  /\ at \in ReadyStages => (registered <=> initRead)
  /\ at \in {"suite", "idle"} /\ initRead => initImage.tried \/ failed

KernelInv ==
  /\ LoaderInv
  /\ StageTyped
  /\ EnteredAtHandoff
  /\ ManagersInOrder
  /\ CpuPrepared
  /\ InitRegistered
  /\ NoStrayInterrupt
  /\ at = "halted" => failed

(* The stages follow each other as AsterKernelEntry lists them. *)
LEMMA StageOrder ==
  /\ NextStage("early") = "core"
  /\ NextStage("core") = "modules"
  /\ NextStage("modules") = "hybrid"
  /\ NextStage("hybrid") = "phase1"
  /\ NextStage("phase1") = "open"
  /\ NextStage("spawn") = "suite"
  /\ NextStage("suite") = "idle"
BY DEF NextStage, AsterKernelEntry

(* Each manager finds what it needs among those initialised before it. *)
LEMMA NeedsMet ==
  ASSUME NEW i \in 1 .. 7
  PROVE  /\ Needs(gExBootModules[i]) \subseteq ReadyBefore(i)
         /\ ReadyBefore(i + 1) = ReadyBefore(i) \cup {gExBootModules[i]}
         /\ gExBootModules[i] = "IO" <=> i = 5
         /\ gExBootModules[i] = "PS" <=> i = 6
         /\ "NK" \in ReadyBefore(i)
<1>1. i \in {1, 2, 3, 4, 5, 6, 7}
  OBVIOUS
<1>2. /\ gExBootModules[i] = "IO" <=> i = 5
      /\ gExBootModules[i] = "PS" <=> i = 6
      /\ "NK" \in ReadyBefore(i)
  BY <1>1 DEF gExBootModules, ReadyBefore
<1>3. ReadyBefore(i + 1) = ReadyBefore(i) \cup {gExBootModules[i]}
  <2>1. 1 .. (i + 1) - 1 = (1 .. i - 1) \cup {i}
    OBVIOUS
  <2> QED BY <2>1 DEF ReadyBefore
<1>4. Needs(gExBootModules[i]) \subseteq ReadyBefore(i)
  <2>1. CASE i \in {1, 2, 4}
    BY <2>1 DEF Needs, gExBootModules
  <2>2. CASE i = 3
    <3>1. gExBootModules[1] = "OB" /\ 1 \in 1 .. i - 1 /\ gExBootModules[3] = "MM"
      BY <2>2 DEF gExBootModules
    <3>2. Needs("MM") = {"NK", "OB"}
      BY DEF Needs
    <3> QED BY <2>2, <3>1, <3>2 DEF ReadyBefore
  <2>3. CASE i \in {5, 7}
    <3>1. gExBootModules[1] = "OB" /\ 1 \in 1 .. i - 1 /\ gExBootModules[i] \in {"IO", "LPC"}
      BY <2>3 DEF gExBootModules
    <3>2. Needs("IO") = {"OB"} /\ Needs("LPC") = {"OB"}
      BY DEF Needs
    <3> QED BY <3>1, <3>2 DEF ReadyBefore
  <2>4. CASE i = 6
    <3>1. /\ gExBootModules[1] = "OB" /\ gExBootModules[3] = "MM" /\ gExBootModules[6] = "PS"
          /\ 1 \in 1 .. i - 1 /\ 3 \in 1 .. i - 1
      BY <2>4 DEF gExBootModules
    <3>2. Needs("PS") = {"OB", "MM"}
      BY DEF Needs
    <3> QED BY <2>4, <3>1, <3>2 DEF ReadyBefore
  <2> QED BY <1>1, <2>1, <2>2, <2>3, <2>4
<1> QED BY <1>2, <1>3, <1>4

(* Every image the user loader reports on was tried. *)
LEMMA SpawnedImageTried ==
  ASSUME NEW image \in PsSpawnUserKpeFromBuffer
  PROVE  image.tried
BY DEF PsSpawnUserKpeFromBuffer, Outcome

LEMMA KernelInvInit == KeInit => KernelInv
BY LoaderInvInit DEF KeInit, KernelInv, StageTyped, EnteredAtHandoff, ManagersInOrder,
   CpuPrepared, InitRegistered, NoStrayInterrupt, FirmwareStages, MaskedStages,
   OpenStages, ReadyStages

LEMMA KernelInvNext == KernelInv /\ [KeNext]_keVars => KernelInv'
<1> SUFFICES ASSUME KernelInv, [KeNext]_keVars PROVE KernelInv'
  OBVIOUS
<1>l. LoaderInv'
  BY LoaderInvNext, BootStep DEF KernelInv
<1> USE DEF FirmwareStages, MaskedStages, OpenStages, ReadyStages
<1>r. ASSUME ReturnsToFirmware, at \in FirmwareStages PROVE KernelInv'
  BY <1>r, <1>l DEF ReturnsToFirmware, imageVars, kernelVars, bootVars, KernelInv,
     StageTyped, EnteredAtHandoff, ManagersInOrder, CpuPrepared, InitRegistered,
     NoStrayInterrupt
<1>h. ASSUME Halts, failed' = TRUE PROVE KernelInv'
  BY <1>h, <1>l DEF Halts, imageVars, bootVars, KernelInv,
     StageTyped, EnteredAtHandoff, ManagersInOrder, CpuPrepared, InitRegistered,
     NoStrayInterrupt
<1>1. CASE ReadKernelFile \/ ReadInitFile \/ AllocateBootInfo
  BY <1>1, <1>l, <1>r DEF ReadKernelFile, ReadInitFile, AllocateBootInfo,
     imageVars, kernelVars, bootVars, ghosts, KernelInv,
     StageTyped, EnteredAtHandoff, ManagersInOrder, CpuPrepared, InitRegistered,
     NoStrayInterrupt
<1>2. CASE LoadKernel
  <2>1. CASE ReturnsToFirmware
    BY <1>2, <2>1, <1>r DEF LoadKernel
  <2>2. CASE ~ ReturnsToFirmware
    BY <1>2, <2>2, <1>l DEF LoadKernel, kernelVars, bootVars, ghosts, KernelInv,
       StageTyped, EnteredAtHandoff, ManagersInOrder, CpuPrepared, InitRegistered,
       NoStrayInterrupt
  <2> QED BY <2>1, <2>2
<1>3. CASE LeaveBootServices
  BY <1>3, <1>l DEF LeaveBootServices, stageVars, imageVars, kernelVars, ghosts, KernelInv,
     StageTyped, EnteredAtHandoff, ManagersInOrder, CpuPrepared, InitRegistered,
     NoStrayInterrupt
<1>4. CASE ExitFailed
  BY <1>4, <1>r DEF ExitFailed
<1>5. CASE BootCallKernel
  BY <1>5, <1>l DEF BootCallKernel, EnterMasked, imageVars, bootVars, ghosts, KernelInv,
     StageTyped, EnteredAtHandoff, ManagersInOrder, CpuPrepared, InitRegistered,
     NoStrayInterrupt
<1>b. ASSUME at \in MaskedStages PROVE BootInfoValid
  BY <1>b DEF KernelInv, EnteredAtHandoff, LoaderInv, InfoPopulated, BootInfoValid
<1>6. CASE KiInitializeEarly \/ NkInitializeCore
  <2>1. CASE KiInitializeEarly
    BY <2>1, <1>b, <1>l, StageOrder DEF KiInitializeEarly, HalInitializePhase0,
       HalpInitializeInterrupts, imageVars, bootVars, ghosts, KernelInv,
       StageTyped, EnteredAtHandoff, ManagersInOrder, CpuPrepared, InitRegistered,
       NoStrayInterrupt
  <2>2. CASE NkInitializeCore
    <3>1. ReadyBefore(1) = {"NK"}
      BY DEF ReadyBefore
    <3> QED
      BY <2>2, <3>1, <1>b, <1>l, StageOrder DEF NkInitializeCore, imageVars, bootVars,
         ghosts, KernelInv, StageTyped, EnteredAtHandoff, ManagersInOrder, CpuPrepared,
         InitRegistered, NoStrayInterrupt
  <2> QED BY <1>6, <2>1, <2>2
<1>7. CASE ExInitializeExecutive
  <2> DEFINE m == gExBootModules[module]
  <2>0. /\ at = "modules" /\ module \in 1 .. 7 /\ ready = ReadyBefore(module)
        /\ Needs(m) \subseteq ready
    BY <1>7, NeedsMet DEF ExInitializeExecutive, KernelInv, StageTyped, ManagersInOrder
  <2>1. CASE Halts /\ failed' = TRUE
    BY <2>1, <1>h
  <2>2. CASE ~ (Halts /\ failed' = TRUE)
    <3>1. /\ ready' = ready \cup {m}
          /\ registered' = IF m = "IO" THEN "NK" \in ready /\ initRead ELSE registered
          /\ cpu' = IF m = "PS" THEN [cpu EXCEPT !.tickRoutine = TRUE] ELSE cpu
          /\ IF module < Len(gExBootModules)
             THEN module' = module + 1 /\ UNCHANGED at
             ELSE at' = NextStage(at) /\ UNCHANGED module
          /\ UNCHANGED <<bootVars, imageVars, pending, ghosts>>
      BY <1>7, <2>0, <2>2 DEF ExInitializeExecutive
    <3>2. Len(gExBootModules) = 7
      BY DEF gExBootModules
    <3>3. /\ ready' = ReadyBefore(module + 1)
          /\ (m = "IO" <=> module = 5) /\ (m = "PS" <=> module = 6)
          /\ "NK" \in ready
      BY <2>0, <3>1, NeedsMet
    <3> HIDE DEF m
    <3>4. CASE module < 7
      <4>1. /\ module' = module + 1 /\ at' = "modules"
            /\ UNCHANGED <<pc, initRead, initImage, failed, stray>>
        BY <3>1, <3>2, <3>4, <2>0 DEF bootVars, imageVars, ghosts
      <4>2. StageTyped' /\ CpuPrepared'
        <5>1. CASE m = "PS"
          <6>1. cpu' = [cpu EXCEPT !.tickRoutine = TRUE]
            BY <5>1, <3>1
          <6>2. /\ cpu'.interrupts = cpu.interrupts /\ cpu'.idt = cpu.idt /\ cpu'.tickRoutine
                /\ cpu' \in [interrupts : BOOLEAN, idt : {"firmware", "kernel"},
                            tickRoutine : BOOLEAN]
            BY <6>1 DEF KernelInv, StageTyped
          <6>3. StageTyped'
            BY <6>2, <3>4, <4>1, <2>0 DEF StageTyped
          <6> QED BY <6>2, <6>3, <4>1, <2>0 DEF KernelInv, CpuPrepared
        <5>2. CASE m # "PS"
          BY <5>2, <3>1, <3>3, <3>4, <4>1, <2>0 DEF KernelInv, StageTyped, CpuPrepared
        <5> QED BY <5>1, <5>2
      <4>3. ManagersInOrder'
        BY <3>3, <4>1 DEF ManagersInOrder
      <4>4. InitRegistered'
        <5>1. CASE m = "IO"
          <6>1. registered' <=> initRead
            BY <5>1, <3>1, <3>3
          <6> QED BY <6>1, <4>1 DEF InitRegistered
        <5>2. CASE m # "IO"
          <6>1. registered' = registered
            BY <5>2, <3>1
          <6> QED BY <5>2, <6>1, <3>3, <4>1, <2>0 DEF KernelInv, InitRegistered
        <5> QED BY <5>1, <5>2
      <4> QED
        BY <4>1, <4>2, <4>3, <4>4, <2>0, <1>l
        DEF KernelInv, EnteredAtHandoff, NoStrayInterrupt
    <3>5. CASE module = 7
      BY <3>1, <3>2, <3>3, <3>5, <2>0, <1>l, StageOrder DEF imageVars, bootVars, ghosts,
         KernelInv, StageTyped, EnteredAtHandoff, ManagersInOrder, CpuPrepared,
         InitRegistered, NoStrayInterrupt
    <3> QED BY <3>4, <3>5, <2>0
  <2> QED BY <2>1, <2>2
<1>8. CASE ExInitializeHybridServices \/ HalInitializePhase1
  <2>1. at \in ReadyStages => "LPC" \in ready
    BY DEF KernelInv, ManagersInOrder, ReadyBefore, gExBootModules
  <2>2. CASE ExInitializeHybridServices
    BY <2>1, <2>2, <1>l, StageOrder DEF ExInitializeHybridServices, imageVars, kernelVars,
       bootVars, ghosts, KernelInv, StageTyped, EnteredAtHandoff, ManagersInOrder,
       CpuPrepared, InitRegistered, NoStrayInterrupt
  <2>3. CASE HalInitializePhase1
    BY <2>3, <1>l, StageOrder DEF HalInitializePhase1, imageVars, bootVars, ghosts,
       KernelInv, StageTyped, EnteredAtHandoff, ManagersInOrder, CpuPrepared,
       InitRegistered, NoStrayInterrupt
  <2> QED BY <1>8, <2>2, <2>3
<1>9. CASE OpenInit
  BY <1>9, <1>l DEF OpenInit, imageVars, kernelVars, bootVars, ghosts, KernelInv,
     StageTyped, EnteredAtHandoff, ManagersInOrder, CpuPrepared, InitRegistered,
     NoStrayInterrupt
<1>10. CASE SpawnInit
  BY <1>10, <1>l, StageOrder, SpawnedImageTried DEF SpawnInit, kernelVars, bootVars,
     KernelInv, StageTyped, EnteredAtHandoff, ManagersInOrder, CpuPrepared,
     InitRegistered, NoStrayInterrupt
<1>11. CASE KeRunValidationSuite
  <2>1. CASE Halts /\ failed' = TRUE
    BY <2>1, <1>h
  <2>2. CASE ~ (Halts /\ failed' = TRUE)
    BY <1>11, <2>2, <1>l, StageOrder DEF KeRunValidationSuite, imageVars, kernelVars,
       bootVars, ghosts, KernelInv, StageTyped, EnteredAtHandoff, ManagersInOrder,
       CpuPrepared, InitRegistered, NoStrayInterrupt
  <2> QED BY <2>1, <2>2
<1>12. CASE TimerInterrupt
  <2>1. at \in OpenStages
    BY <1>12 DEF TimerInterrupt, KernelInv, StageTyped, CpuPrepared
  <2>2. "PS" \in ready
    BY <2>1 DEF KernelInv, ManagersInOrder, ReadyBefore, gExBootModules
  <2>3. ReadyForTicks
    BY <2>1, <2>2 DEF ReadyForTicks, KernelInv, CpuPrepared
  <2> QED
    BY <1>12, <2>3, <1>l DEF TimerInterrupt, stageVars, imageVars, bootVars, KernelInv,
       StageTyped, EnteredAtHandoff, ManagersInOrder, CpuPrepared, InitRegistered,
       NoStrayInterrupt
<1>13. CASE FirmwareChangesMap
  BY <1>13, <1>l DEF FirmwareChangesMap, FirmwareEvent, stageVars, imageVars, kernelVars,
     ghosts, KernelInv, StageTyped, EnteredAtHandoff, ManagersInOrder, CpuPrepared,
     InitRegistered, NoStrayInterrupt
<1>14. CASE IdleTurn \/ UNCHANGED keVars
  BY <1>14, <1>l DEF IdleTurn, keVars, stageVars, imageVars, kernelVars, bootVars, ghosts,
     KernelInv, StageTyped, EnteredAtHandoff, ManagersInOrder, CpuPrepared,
     InitRegistered, NoStrayInterrupt
<1> QED
  BY <1>1, <1>2, <1>3, <1>4, <1>5, <1>6, <1>7, <1>8, <1>9, <1>10, <1>11, <1>12, <1>13,
     <1>14
  DEF KeNext, Step, Over

(* No interrupt reaches the kernel before its IDT, the tick routine and    *)
(* the scheduler are there: AsterKernelEntry unmasks interrupts last.      *)
THEOREM InterruptsWaitForKernel == KeSpec => []NoStrayInterrupt
<1>1. KernelInv => NoStrayInterrupt
  BY DEF KernelInv
<1> QED BY <1>1, KernelInvInit, KernelInvNext, PTL DEF KeSpec

(* The kernel halts, or comes up without the init program that was read,   *)
(* only when a resource ran out or its own test suite halted it: every     *)
(* manager finds what it needs in the order of gExBootModules.             *)
THEOREM BootOrderSuffices == KeSpec => []BootCompletes
<1>1. KernelInv => BootCompletes
  BY DEF KernelInv, InitRegistered, BootCompletes
<1> QED BY <1>1, KernelInvInit, KernelInvNext, PTL DEF KeSpec

-----------------------------------------------------------------------------
(***************************************************************************)
(* Induction and multiples.                                                *)
(***************************************************************************)

(* A loop that keeps a property at every turn has it at the end: among the *)
(* turns without it there would be a first one.                            *)
LEMMA Iteration ==
  ASSUME NEW n \in Nat, NEW S, 0 \in S, \A k \in 1 .. n : k - 1 \in S => k \in S
  PROVE  \A k \in 0 .. n : k \in S
<1> DEFINE D == {k \in 0 .. n : k \notin S}
           R == {ss \in Nat \X Nat : ss[1] < ss[2]}
<1> SUFFICES ASSUME D # {} PROVE FALSE
  OBVIOUS
<1>1. D \subseteq Nat
  OBVIOUS
<1>2. IsWellFoundedOn(R, Nat)
  <2>1. OpToRel(<, Nat) = R
    BY Zenon DEF OpToRel
  <2> QED BY <2>1, NatLessThanWellFounded, Zenon
<1>3. PICK m \in D : \A q \in D : ~ (<<q, m>> \in R)
  <2> HIDE DEF R, D
  <2> QED BY <1>1, <1>2, WFMin
<1>4. m \in 1 .. n /\ m - 1 \in 0 .. n /\ m - 1 < m /\ m - 1 \in Nat /\ m \in Nat
  BY <1>3
<1>5. m - 1 \in S
  <2>1. <<m - 1, m>> \in R
    BY <1>4
  <2> QED BY <1>3, <1>4, <2>1
<1> QED BY <1>3, <1>4, <1>5

MultipleOf(x, n) == \E q \in Nat : x = q * n

(* Two multiples are at least one step apart. *)
LEMMA MultiplesApart ==
  ASSUME NEW n \in Nat \ {0}, NEW x, NEW y, MultipleOf(x, n), MultipleOf(y, n)
  PROVE  x \in Nat /\ y \in Nat /\ (x < y => x + n <= y)
<1>1. PICK p \in Nat, q \in Nat : x = p * n /\ y = q * n
  BY DEF MultipleOf
<1>2. x \in Nat /\ y \in Nat
  BY <1>1
<1>3. ASSUME x < y PROVE x + n <= y
  <2>1. ~ (q <= p)
    <3> SUFFICES ASSUME q <= p PROVE FALSE
      OBVIOUS
    <3>1. PICK e \in Nat : p = q + e
      <4>1. p - q \in Nat /\ p = q + (p - q)
        OBVIOUS
      <4> QED BY <4>1
    <3>2. p * n = q * n + e * n /\ e * n \in Nat /\ q * n \in Nat
      BY <3>1
    <3> QED BY <1>1, <1>2, <1>3, <3>2
  <2>2. PICK e \in Nat : q = (p + 1) + e
    <3>1. q - (p + 1) \in Nat /\ q = (p + 1) + (q - (p + 1))
      BY <2>1
    <3> QED BY <3>1
  <2>3. q * n = (p * n + n) + e * n /\ e * n \in Nat /\ p * n \in Nat
    BY <2>2
  <2> QED BY <1>1, <2>3
<1> QED BY <1>2, <1>3

(* Sums of multiples. *)
LEMMA MultiplesAdd ==
  ASSUME NEW n \in Nat, NEW x, NEW y, MultipleOf(x, n), MultipleOf(y, n)
  PROVE  MultipleOf(x + y, n)
<1>1. PICK p \in Nat, q \in Nat : x = p * n /\ y = q * n
  BY DEF MultipleOf
<1>2. (p + q) * n = p * n + q * n /\ p + q \in Nat
  OBVIOUS
<1> QED BY <1>1, <1>2 DEF MultipleOf

(* A number and zero are multiples of it. *)
LEMMA MultipleOfItself ==
  ASSUME NEW n \in Nat
  PROVE  MultipleOf(n, n) /\ MultipleOf(0, n)
<1>1. n = 1 * n /\ 0 = 0 * n
  OBVIOUS
<1> QED BY <1>1 DEF MultipleOf

(* Multiples of a multiple. *)
LEMMA MultiplesNest ==
  ASSUME NEW n \in Nat, NEW m, NEW x, MultipleOf(m, n), MultipleOf(x, m)
  PROVE  MultipleOf(x, n)
<1>1. PICK p \in Nat, q \in Nat : m = p * n /\ x = q * m
  BY DEF MultipleOf
<1>2. q * (p * n) = (q * p) * n /\ q * p \in Nat
  OBVIOUS
<1> QED BY <1>1, <1>2 DEF MultipleOf

(* AlignUp64 gives the next multiple. *)
LEMMA AlignUpBounds ==
  ASSUME NEW v \in Nat, NEW n \in Nat \ {0}
  PROVE  /\ AlignUp64(v, n) \in Nat /\ MultipleOf(AlignUp64(v, n), n)
         /\ v <= AlignUp64(v, n) /\ AlignUp64(v, n) < v + n
<1>1. PICK u \in Nat : u = v + n - 1
  <2>1. v + n - 1 \in Nat
    OBVIOUS
  <2> QED BY <2>1
<1>2. u \div n \in Nat /\ (u \div n) * n <= u /\ u < (u \div n) * n + n
  OBVIOUS
<1>3. PICK a \in Nat : a = (u \div n) * n
  BY <1>2
<1>4. AlignUp64(v, n) = a
  BY <1>1, <1>3 DEF AlignUp64
<1>5. MultipleOf(a, n)
  BY <1>2, <1>3 DEF MultipleOf
<1>6. a <= u /\ u < a + n
  BY <1>2, <1>3
<1> QED BY <1>1, <1>4, <1>5, <1>6

(* AlignUp64 gives the least multiple that is large enough. *)
LEMMA AlignUpLeast ==
  ASSUME NEW v \in Nat, NEW n \in Nat \ {0}, NEW m, MultipleOf(m, n), v <= m
  PROVE  AlignUp64(v, n) <= m
<1>1. PICK a \in Nat : a = AlignUp64(v, n)
  BY AlignUpBounds
<1>2. MultipleOf(a, n) /\ a < v + n
  BY <1>1, AlignUpBounds
<1>3. m \in Nat /\ (m < a => m + n <= a)
  BY <1>2, MultiplesApart
<1> QED BY <1>1, <1>2, <1>3

(* The page of an address. *)
LEMMA PageBounds ==
  ASSUME NEW r \in Nat
  PROVE  /\ PageOf(r) \in Nat /\ MultipleOf(PageOf(r), PageWords)
         /\ PageOf(r) <= r /\ r < PageOf(r) + PageWords
<1>1. PageWords \in Nat \ {0}
  BY KpeConstants
<1>2. r % PageWords = r - PageWords * (r \div PageWords) /\ r \div PageWords \in Nat
        /\ r % PageWords \in 0 .. PageWords - 1
  BY <1>1
<1>3. PICK a \in Nat : a = (r \div PageWords) * PageWords
  BY <1>1, <1>2
<1>4. a = PageWords * (r \div PageWords)
  BY <1>1, <1>2, <1>3
<1>5. PageOf(r) = a
  BY <1>2, <1>4 DEF PageOf
<1>6. MultipleOf(a, PageWords)
  BY <1>2, <1>3 DEF MultipleOf
<1>7. PICK m \in 0 .. PageWords - 1 : m = r % PageWords
  BY <1>2
<1>8. m = r - a
  BY <1>2, <1>4, <1>7
<1> QED BY <1>1, <1>5, <1>6, <1>7, <1>8

-----------------------------------------------------------------------------
(***************************************************************************)
(* The loops of the packer and of the loaders, each as a sequence of its   *)
(* values after every turn.                                                *)
(***************************************************************************)
WithSection(m, file, k, clear) ==
  LET s == file.sections[k]
      copied == CopySection(m, s, file.words)
  IN  IF clear THEN ClearRest(copied, s) ELSE copied

EnumeratesBy(w, S, n) ==
  /\ w[0] = <<>> /\ w[n] = Ascending(S, n)
  /\ \A k \in 1 .. n : w[k] = IF k - 1 \in S THEN Append(w[k - 1], k - 1) ELSE w[k - 1]

(* The scan of the packer, one sequence for each number it has passed. *)
LEMMA AscendingLoop ==
  ASSUME NEW S, NEW n \in Nat
  PROVE  \E w : EnumeratesBy(w, S, n)
<1> DEFINE Turned(x, k) == IF k - 1 \in S THEN Append(x, k - 1) ELSE x
           Runs(w, j) == w = [k \in 0 .. j |-> IF k = 0 THEN <<>> ELSE Turned(w[k - 1], k)]
           S0 == {j \in Nat : \E w : Runs(w, j)}
<1>1. Ascending(S, n) = (CHOOSE w : Runs(w, n))[n]
  BY DEF Ascending
<1> HIDE DEF Turned
<1>2. 0 \in S0
  <2>1. Runs([k \in 0 .. 0 |-> <<>>], 0)
    OBVIOUS
  <2> QED BY <2>1
<1>3. ASSUME NEW j \in 1 .. n, j - 1 \in S0 PROVE j \in S0
  <2>1. PICK w : Runs(w, j - 1)
    BY <1>3
  <2> DEFINE v == [k \in 0 .. j |-> IF k < j THEN w[k] ELSE Turned(w[j - 1], j)]
  <2>2. ASSUME NEW k \in 0 .. j
        PROVE  v[k] = IF k = 0 THEN <<>> ELSE Turned(v[k - 1], k)
    <3>1. CASE k = j
      BY <3>1
    <3>2. CASE k < j
      <4>1. k \in 0 .. (j - 1)
        BY <3>2
      <4>2. w[k] = IF k = 0 THEN <<>> ELSE Turned(w[k - 1], k)
        BY <2>1, <4>1
      <4>3. v[k] = w[k] /\ (k # 0 => v[k - 1] = w[k - 1])
        BY <3>2
      <4> HIDE DEF v
      <4> QED BY <4>2, <4>3
    <3> QED BY <3>1, <3>2
  <2>3. v = [k \in 0 .. j |-> v[k]]
    OBVIOUS
  <2> HIDE DEF v
  <2>4. Runs(v, j)
    BY <2>2, <2>3
  <2> QED BY <2>4
<1>4. n \in S0
  <2> HIDE DEF S0
  <2>1. \A k \in 0 .. n : k \in S0
    BY <1>2, <1>3, Iteration
  <2> QED BY <2>1
<1>5. PICK w : w = CHOOSE v : Runs(v, n)
  OBVIOUS
<1>6. Runs(w, n)
  <2>1. \E v : Runs(v, n)
    BY <1>4
  <2> HIDE DEF Runs
  <2> QED BY <1>5, <2>1
<1>7. w[0] = <<>> /\ \A k \in 1 .. n : w[k] = Turned(w[k - 1], k)
  BY <1>6
<1>8. w[n] = Ascending(S, n)
  BY <1>1, <1>5
<1> HIDE DEF Runs, S0
<1> QED BY <1>7, <1>8 DEF EnumeratesBy, Turned

SumsBy(w, blocks, n) ==
  /\ w[0] = 0 /\ w[n] = DirectorySize(blocks)
  /\ \A k \in 1 .. n : w[k] = w[k - 1] + SizeOfBlock(blocks[k])

(* The size of the directory, block by block. *)
LEMMA DirectoryLoop ==
  ASSUME NEW blocks, NEW n \in Nat, n = Len(blocks)
  PROVE  \E w : SumsBy(w, blocks, n)
<1> DEFINE Turned(x, k) == x + SizeOfBlock(blocks[k])
           Runs(w, j) == w = [k \in 0 .. j |-> IF k = 0 THEN 0 ELSE Turned(w[k - 1], k)]
           S0 == {j \in Nat : \E w : Runs(w, j)}
<1>1. DirectorySize(blocks) = (CHOOSE w : Runs(w, n))[n]
  BY DEF DirectorySize
<1> HIDE DEF Turned
<1>2. 0 \in S0
  <2>1. Runs([k \in 0 .. 0 |-> 0], 0)
    OBVIOUS
  <2> QED BY <2>1
<1>3. ASSUME NEW j \in 1 .. n, j - 1 \in S0 PROVE j \in S0
  <2>1. PICK w : Runs(w, j - 1)
    BY <1>3
  <2> DEFINE v == [k \in 0 .. j |-> IF k < j THEN w[k] ELSE Turned(w[j - 1], j)]
  <2>2. ASSUME NEW k \in 0 .. j
        PROVE  v[k] = IF k = 0 THEN 0 ELSE Turned(v[k - 1], k)
    <3>1. CASE k = j
      BY <3>1
    <3>2. CASE k < j
      <4>1. k \in 0 .. (j - 1)
        BY <3>2
      <4>2. w[k] = IF k = 0 THEN 0 ELSE Turned(w[k - 1], k)
        BY <2>1, <4>1
      <4>3. v[k] = w[k] /\ (k # 0 => v[k - 1] = w[k - 1])
        BY <3>2
      <4> HIDE DEF v
      <4> QED BY <4>2, <4>3
    <3> QED BY <3>1, <3>2
  <2>3. v = [k \in 0 .. j |-> v[k]]
    OBVIOUS
  <2> HIDE DEF v
  <2>4. Runs(v, j)
    BY <2>2, <2>3
  <2> QED BY <2>4
<1>4. n \in S0
  <2> HIDE DEF S0
  <2>1. \A k \in 0 .. n : k \in S0
    BY <1>2, <1>3, Iteration
  <2> QED BY <2>1
<1>5. PICK w : w = CHOOSE v : Runs(v, n)
  OBVIOUS
<1>6. Runs(w, n)
  <2>1. \E v : Runs(v, n)
    BY <1>4
  <2> HIDE DEF Runs
  <2> QED BY <1>5, <2>1
<1>7. w[0] = 0 /\ \A k \in 1 .. n : w[k] = Turned(w[k - 1], k)
  BY <1>6
<1>8. w[n] = DirectorySize(blocks)
  BY <1>1, <1>5
<1> HIDE DEF Runs, S0
<1> QED BY <1>7, <1>8 DEF SumsBy, Turned

CopiesBy(w, m, file, clear, n) ==
  /\ w[0] = m /\ w[n] = CopySections(m, file, clear)
  /\ \A k \in 1 .. n : w[k] = WithSection(w[k - 1], file, k, clear)

(* The memory after each section. *)
LEMMA SectionsLoop ==
  ASSUME NEW m, NEW file, NEW clear, NEW n \in Nat, n = Len(file.sections)
  PROVE  \E w : CopiesBy(w, m, file, clear, n)
<1> DEFINE Turned(x, k) == WithSection(x, file, k, clear)
           Runs(w, j) == w = [k \in 0 .. j |-> IF k = 0 THEN m ELSE Turned(w[k - 1], k)]
           S0 == {j \in Nat : \E w : Runs(w, j)}
<1>1. CopySections(m, file, clear) = (CHOOSE w : Runs(w, n))[n]
  BY DEF CopySections, WithSection
<1> HIDE DEF Turned
<1>2. 0 \in S0
  <2>1. Runs([k \in 0 .. 0 |-> m], 0)
    OBVIOUS
  <2> QED BY <2>1
<1>3. ASSUME NEW j \in 1 .. n, j - 1 \in S0 PROVE j \in S0
  <2>1. PICK w : Runs(w, j - 1)
    BY <1>3
  <2> DEFINE v == [k \in 0 .. j |-> IF k < j THEN w[k] ELSE Turned(w[j - 1], j)]
  <2>2. ASSUME NEW k \in 0 .. j
        PROVE  v[k] = IF k = 0 THEN m ELSE Turned(v[k - 1], k)
    <3>1. CASE k = j
      BY <3>1
    <3>2. CASE k < j
      <4>1. k \in 0 .. (j - 1)
        BY <3>2
      <4>2. w[k] = IF k = 0 THEN m ELSE Turned(w[k - 1], k)
        BY <2>1, <4>1
      <4>3. v[k] = w[k] /\ (k # 0 => v[k - 1] = w[k - 1])
        BY <3>2
      <4> HIDE DEF v
      <4> QED BY <4>2, <4>3
    <3> QED BY <3>1, <3>2
  <2>3. v = [k \in 0 .. j |-> v[k]]
    OBVIOUS
  <2> HIDE DEF v
  <2>4. Runs(v, j)
    BY <2>2, <2>3
  <2> QED BY <2>4
<1>4. n \in S0
  <2> HIDE DEF S0
  <2>1. \A k \in 0 .. n : k \in S0
    BY <1>2, <1>3, Iteration
  <2> QED BY <2>1
<1>5. PICK w : w = CHOOSE v : Runs(v, n)
  OBVIOUS
<1>6. Runs(w, n)
  <2>1. \E v : Runs(v, n)
    BY <1>4
  <2> HIDE DEF Runs
  <2> QED BY <1>5, <2>1
<1>7. w[0] = m /\ \A k \in 1 .. n : w[k] = Turned(w[k - 1], k)
  BY <1>6
<1>8. w[n] = CopySections(m, file, clear)
  BY <1>1, <1>5
<1> HIDE DEF Runs, S0
<1> QED BY <1>7, <1>8 DEF CopiesBy, Turned

PatchesBy(w, walk, block, file, delta, n) ==
  /\ w[0] = walk /\ w[n] = PatchEntries(walk, block, file, delta)
  /\ \A k \in 1 .. n : w[k] = PatchEntry(w[k - 1], block.entries[k], block.va, file, delta)

(* The walk after each entry of a block. *)
LEMMA EntriesLoop ==
  ASSUME NEW walk, NEW block, NEW file, NEW delta, NEW n \in Nat, n = Len(block.entries)
  PROVE  \E w : PatchesBy(w, walk, block, file, delta, n)
<1> DEFINE Turned(x, k) == PatchEntry(x, block.entries[k], block.va, file, delta)
           Runs(w, j) == w = [k \in 0 .. j |-> IF k = 0 THEN walk ELSE Turned(w[k - 1], k)]
           S0 == {j \in Nat : \E w : Runs(w, j)}
<1>1. PatchEntries(walk, block, file, delta) = (CHOOSE w : Runs(w, n))[n]
  BY DEF PatchEntries
<1> HIDE DEF Turned
<1>2. 0 \in S0
  <2>1. Runs([k \in 0 .. 0 |-> walk], 0)
    OBVIOUS
  <2> QED BY <2>1
<1>3. ASSUME NEW j \in 1 .. n, j - 1 \in S0 PROVE j \in S0
  <2>1. PICK w : Runs(w, j - 1)
    BY <1>3
  <2> DEFINE v == [k \in 0 .. j |-> IF k < j THEN w[k] ELSE Turned(w[j - 1], j)]
  <2>2. ASSUME NEW k \in 0 .. j
        PROVE  v[k] = IF k = 0 THEN walk ELSE Turned(v[k - 1], k)
    <3>1. CASE k = j
      BY <3>1
    <3>2. CASE k < j
      <4>1. k \in 0 .. (j - 1)
        BY <3>2
      <4>2. w[k] = IF k = 0 THEN walk ELSE Turned(w[k - 1], k)
        BY <2>1, <4>1
      <4>3. v[k] = w[k] /\ (k # 0 => v[k - 1] = w[k - 1])
        BY <3>2
      <4> HIDE DEF v
      <4> QED BY <4>2, <4>3
    <3> QED BY <3>1, <3>2
  <2>3. v = [k \in 0 .. j |-> v[k]]
    OBVIOUS
  <2> HIDE DEF v
  <2>4. Runs(v, j)
    BY <2>2, <2>3
  <2> QED BY <2>4
<1>4. n \in S0
  <2> HIDE DEF S0
  <2>1. \A k \in 0 .. n : k \in S0
    BY <1>2, <1>3, Iteration
  <2> QED BY <2>1
<1>5. PICK w : w = CHOOSE v : Runs(v, n)
  OBVIOUS
<1>6. Runs(w, n)
  <2>1. \E v : Runs(v, n)
    BY <1>4
  <2> HIDE DEF Runs
  <2> QED BY <1>5, <2>1
<1>7. w[0] = walk /\ \A k \in 1 .. n : w[k] = Turned(w[k - 1], k)
  BY <1>6
<1>8. w[n] = PatchEntries(walk, block, file, delta)
  BY <1>1, <1>5
<1> HIDE DEF Runs, S0
<1> QED BY <1>7, <1>8 DEF PatchesBy, Turned

WalksBy(w, walk, file, delta, whole, n) ==
  /\ w[0] = walk /\ w[n] = PatchBlocks(walk, file, delta, whole)
  /\ \A k \in 1 .. n : w[k] = PatchBlock(w[k - 1], file.blocks[k], file, delta, whole)

(* The walk after each block. *)
LEMMA BlocksLoop ==
  ASSUME NEW walk, NEW file, NEW delta, NEW whole, NEW n \in Nat, n = Len(file.blocks)
  PROVE  \E w : WalksBy(w, walk, file, delta, whole, n)
<1> DEFINE Turned(x, k) == PatchBlock(x, file.blocks[k], file, delta, whole)
           Runs(w, j) == w = [k \in 0 .. j |-> IF k = 0 THEN walk ELSE Turned(w[k - 1], k)]
           S0 == {j \in Nat : \E w : Runs(w, j)}
<1>1. PatchBlocks(walk, file, delta, whole) = (CHOOSE w : Runs(w, n))[n]
  BY DEF PatchBlocks
<1> HIDE DEF Turned
<1>2. 0 \in S0
  <2>1. Runs([k \in 0 .. 0 |-> walk], 0)
    OBVIOUS
  <2> QED BY <2>1
<1>3. ASSUME NEW j \in 1 .. n, j - 1 \in S0 PROVE j \in S0
  <2>1. PICK w : Runs(w, j - 1)
    BY <1>3
  <2> DEFINE v == [k \in 0 .. j |-> IF k < j THEN w[k] ELSE Turned(w[j - 1], j)]
  <2>2. ASSUME NEW k \in 0 .. j
        PROVE  v[k] = IF k = 0 THEN walk ELSE Turned(v[k - 1], k)
    <3>1. CASE k = j
      BY <3>1
    <3>2. CASE k < j
      <4>1. k \in 0 .. (j - 1)
        BY <3>2
      <4>2. w[k] = IF k = 0 THEN walk ELSE Turned(w[k - 1], k)
        BY <2>1, <4>1
      <4>3. v[k] = w[k] /\ (k # 0 => v[k - 1] = w[k - 1])
        BY <3>2
      <4> HIDE DEF v
      <4> QED BY <4>2, <4>3
    <3> QED BY <3>1, <3>2
  <2>3. v = [k \in 0 .. j |-> v[k]]
    OBVIOUS
  <2> HIDE DEF v
  <2>4. Runs(v, j)
    BY <2>2, <2>3
  <2> QED BY <2>4
<1>4. n \in S0
  <2> HIDE DEF S0
  <2>1. \A k \in 0 .. n : k \in S0
    BY <1>2, <1>3, Iteration
  <2> QED BY <2>1
<1>5. PICK w : w = CHOOSE v : Runs(v, n)
  OBVIOUS
<1>6. Runs(w, n)
  <2>1. \E v : Runs(v, n)
    BY <1>4
  <2> HIDE DEF Runs
  <2> QED BY <1>5, <2>1
<1>7. w[0] = walk /\ \A k \in 1 .. n : w[k] = Turned(w[k - 1], k)
  BY <1>6
<1>8. w[n] = PatchBlocks(walk, file, delta, whole)
  BY <1>1, <1>5
<1> HIDE DEF Runs, S0
<1> QED BY <1>7, <1>8 DEF WalksBy, Turned

-----------------------------------------------------------------------------
(***************************************************************************)
(* The packer's blocks: every address of the program is named by exactly   *)
(* one entry of exactly one block.                                         *)
(***************************************************************************)
Enumerates(s, S, n) ==
  /\ s \in Seq(Nat)
  /\ \A i, j \in 1 .. Len(s) : i < j => s[i] < s[j]
  /\ \A i \in 1 .. Len(s) : s[i] \in S /\ s[i] < n
  /\ \A x \in S : x \in Nat /\ x < n => \E i \in 1 .. Len(s) : s[i] = x

(* One more number is looked at. *)
LEMMA EnumerateNext ==
  ASSUME NEW S, NEW k \in Nat \ {0}, NEW s, Enumerates(s, S, k - 1)
  PROVE  Enumerates(IF k - 1 \in S THEN Append(s, k - 1) ELSE s, S, k)
<1>0. s \in Seq(Nat) /\ k - 1 \in Nat
  BY DEF Enumerates
<1>1. PICK n \in Nat : n = Len(s)
  BY <1>0
<1>2. CASE k - 1 \in S
  <2>1. PICK t : t = Append(s, k - 1)
    OBVIOUS
  <2>2. t \in Seq(Nat) /\ Len(t) = n + 1 /\ t[n + 1] = k - 1 /\ \A i \in 1 .. n : t[i] = s[i]
    BY <1>0, <1>1, <2>1
  <2>3. \A i \in 1 .. n : s[i] \in Nat /\ s[i] \in S /\ s[i] < k - 1
    BY <1>0, <1>1 DEF Enumerates
  <2>4. ASSUME NEW i \in 1 .. n + 1 PROVE t[i] \in S /\ t[i] < k
    <3>1. CASE i = n + 1
      BY <1>2, <2>2, <3>1
    <3>2. CASE i # n + 1
      <4>1. i \in 1 .. n
        BY <3>2
      <4> QED BY <2>2, <2>3, <4>1
    <3> QED BY <3>1, <3>2
  <2>5. ASSUME NEW i \in 1 .. n + 1, NEW j \in 1 .. n + 1, i < j PROVE t[i] < t[j]
    <3>1. i \in 1 .. n
      BY <2>5
    <3>2. CASE j = n + 1
      BY <2>2, <2>3, <3>1, <3>2
    <3>3. CASE j # n + 1
      <4>1. j \in 1 .. n
        BY <3>3
      <4>2. s[i] < s[j]
        BY <1>1, <2>5, <3>1, <4>1 DEF Enumerates
      <4> QED BY <2>2, <3>1, <4>1, <4>2
    <3> QED BY <3>2, <3>3
  <2>6. ASSUME NEW x \in S, x \in Nat, x < k PROVE \E i \in 1 .. n + 1 : t[i] = x
    <3>1. CASE x = k - 1
      BY <2>2, <3>1
    <3>2. CASE x # k - 1
      <4>1. x < k - 1
        BY <2>6, <3>2
      <4>2. PICK i \in 1 .. n : s[i] = x
        BY <1>1, <2>6, <4>1 DEF Enumerates
      <4> QED BY <2>2, <4>2
    <3> QED BY <3>1, <3>2
  <2>7. Enumerates(t, S, k)
    BY <2>2, <2>4, <2>5, <2>6 DEF Enumerates
  <2> QED BY <1>2, <2>1, <2>7
<1>3. CASE k - 1 \notin S
  <2>1. \A i \in 1 .. n : s[i] \in S /\ s[i] < k
    BY <1>0, <1>1 DEF Enumerates
  <2>2. ASSUME NEW x \in S, x \in Nat, x < k PROVE \E i \in 1 .. n : s[i] = x
    <3>1. x < k - 1
      BY <1>3, <2>2
    <3> QED BY <1>1, <2>2, <3>1 DEF Enumerates
  <2>3. Enumerates(s, S, k)
    BY <1>1, <2>1, <2>2 DEF Enumerates
  <2> QED BY <1>3, <2>3
<1> QED BY <1>2, <1>3

(* Ascending lists the members of S below n. *)
LEMMA AscendingFacts ==
  ASSUME NEW S, NEW n \in Nat
  PROVE  Enumerates(Ascending(S, n), S, n)
<1>1. PICK w : EnumeratesBy(w, S, n)
  BY AscendingLoop
<1> DEFINE G == {k \in 0 .. n : Enumerates(w[k], S, k)}
<1>2. 0 \in G
  <2>1. PICK e : e = w[0]
    OBVIOUS
  <2>2. e = <<>> /\ e \in Seq(Nat) /\ Len(e) = 0
    BY <1>1, <2>1 DEF EnumeratesBy
  <2>3. Enumerates(e, S, 0)
    BY <2>2 DEF Enumerates
  <2> QED BY <2>1, <2>3
<1>3. ASSUME NEW k \in 1 .. n, k - 1 \in G PROVE k \in G
  <2>1. k \in Nat \ {0} /\ k \in 0 .. n
    OBVIOUS
  <2>2. Enumerates(w[k - 1], S, k - 1)
    BY <1>3
  <2>3. w[k] = IF k - 1 \in S THEN Append(w[k - 1], k - 1) ELSE w[k - 1]
    BY <1>1 DEF EnumeratesBy
  <2>4. PICK s : s = w[k - 1]
    OBVIOUS
  <2>5. Enumerates(IF k - 1 \in S THEN Append(s, k - 1) ELSE s, S, k)
    BY <2>1, <2>2, <2>4, EnumerateNext
  <2> QED BY <2>1, <2>3, <2>4, <2>5
<1>4. n \in G
  <2> HIDE DEF G
  <2>1. \A k \in 0 .. n : k \in G
    BY <1>2, <1>3, Iteration
  <2> QED BY <2>1
<1>5. w[n] = Ascending(S, n)
  BY <1>1 DEF EnumeratesBy
<1> QED BY <1>4, <1>5

(* Entry i of a block names address r. *)
Names(block, i, r) ==
  block.entries[i].type = "DIR64" /\ r = block.va + block.entries[i].offset

(* A block that names each address of T once, and no other. *)
BlockOf(block, T) ==
  /\ Len(block.entries) \in Nat
  /\ \A i \in 1 .. Len(block.entries) :
       \/ block.entries[i].type = "ABSOLUTE"
       \/ block.entries[i].type = "DIR64" /\ block.va + block.entries[i].offset \in T
  /\ \A i, j \in 1 .. Len(block.entries), r \in T :
       Names(block, i, r) /\ Names(block, j, r) => i = j
  /\ \A r \in T : \E i \in 1 .. Len(block.entries) : Names(block, i, r)

OnPage(rvas, page) == {r \in rvas : PageOf(r) = page}

(* The packer's block for a page. *)
LEMMA RelocBlockFacts ==
  ASSUME NEW rvas, rvas \subseteq Nat, NEW page \in Nat
  PROVE  /\ RelocBlock(page, rvas).va = page
         /\ BlockOf(RelocBlock(page, rvas), OnPage(rvas, page))
<1> DEFINE S == {r - page : r \in {x \in rvas : PageOf(x) = page}}
           T == OnPage(rvas, page)
<1>1. PICK o : o = Ascending(S, PageWords)
  OBVIOUS
<1>2. PageWords \in Nat \ {0}
  BY KpeConstants
<1>3. o \in Seq(Nat) /\ Enumerates(o, S, PageWords)
  <2> HIDE DEF S
  <2> QED BY <1>1, <1>2, AscendingFacts DEF Enumerates
<1>4. PICK n \in Nat : n = Len(o)
  BY <1>3
<1>5. PICK e : e = [i \in 1 .. n |-> Dir64(o[i])]
  OBVIOUS
<1>6. e \in Seq({Dir64(x) : x \in Nat}) /\ Len(e) = n /\ DOMAIN o = 1 .. n
  BY <1>3, <1>4, <1>5
<1>7. PICK b : b = RelocBlock(page, rvas)
  OBVIOUS
<1>8. b = [va |-> page, entries |-> IF Len(e) % 2 = 0 THEN e ELSE Append(e, Absolute)]
  BY <1>1, <1>5, <1>6, <1>7 DEF RelocBlock
<1>9. PICK f : f = IF Len(e) % 2 = 0 THEN e ELSE Append(e, Absolute)
  OBVIOUS
<1>10. b.va = page /\ b.entries = f
  BY <1>8, <1>9
<1>11. /\ Len(f) \in Nat /\ Len(f) \in {n, n + 1}
       /\ \A i \in 1 .. n : f[i] = Dir64(o[i])
       /\ Len(f) = n + 1 => f[n + 1] = Absolute
  <2>1. CASE Len(e) % 2 = 0
    <3>1. f = e
      BY <1>9, <2>1
    <3> QED BY <1>5, <1>6, <3>1
  <2>2. CASE ~ (Len(e) % 2 = 0)
    <3>1. f = Append(e, Absolute)
      BY <1>9, <2>2
    <3>2. Len(f) = n + 1 /\ f[n + 1] = Absolute /\ \A i \in 1 .. n : f[i] = e[i]
      BY <1>6, <3>1
    <3> QED BY <1>5, <3>2
  <2> QED BY <2>1, <2>2
<1>12. \A i \in 1 .. n : f[i].type = "DIR64" /\ f[i].offset = o[i] /\ o[i] \in Nat
  <2> SUFFICES ASSUME NEW i \in 1 .. n PROVE f[i].type = "DIR64" /\ f[i].offset = o[i] /\ o[i] \in Nat
    OBVIOUS
  <2>1. o[i] \in Nat
    BY <1>3, <1>4
  <2>2. f[i] = [type |-> "DIR64", offset |-> o[i]]
    BY <1>11 DEF Dir64
  <2> QED BY <2>1, <2>2
<1>13. Len(f) = n + 1 => f[n + 1].type = "ABSOLUTE"
  BY <1>11 DEF Absolute
<1>14. \A i \in 1 .. n : page + o[i] \in T
  <2> SUFFICES ASSUME NEW i \in 1 .. n PROVE page + o[i] \in T
    OBVIOUS
  <2>1. o[i] \in S
    <3> HIDE DEF S
    <3> QED BY <1>3, <1>4 DEF Enumerates
  <2>2. PICK r \in rvas : PageOf(r) = page /\ o[i] = r - page
    BY <2>1
  <2>3. page + o[i] = r
    BY <2>2
  <2> QED BY <2>2, <2>3 DEF OnPage
<1>15. ASSUME NEW r \in T PROVE \E i \in 1 .. n : r = page + o[i]
  <2>1. r \in Nat /\ PageOf(r) = page /\ r \in rvas
    BY DEF OnPage
  <2>2. r - page \in S
    BY <2>1
  <2>3. r - page \in Nat /\ r - page < PageWords
    BY <1>2, <2>1, PageBounds
  <2>4. PICK i \in 1 .. n : o[i] = r - page
    <3> HIDE DEF S
    <3> QED BY <1>3, <1>4, <2>2, <2>3 DEF Enumerates
  <2> QED BY <2>1, <2>4
<1>16. \A i, j \in 1 .. n : o[i] = o[j] => i = j
  <2> SUFFICES ASSUME NEW i \in 1 .. n, NEW j \in 1 .. n, o[i] = o[j] PROVE i = j
    OBVIOUS
  <2>1. (i < j => o[i] < o[j]) /\ (j < i => o[j] < o[i]) /\ o[i] \in Nat
    <3> HIDE DEF S
    <3> QED BY <1>3, <1>4 DEF Enumerates
  <2> QED BY <2>1
<1> HIDE DEF S, T
<1>17. ASSUME NEW i \in 1 .. Len(f)
       PROVE  \/ f[i].type = "ABSOLUTE" /\ i = n + 1
              \/ i \in 1 .. n /\ f[i].type = "DIR64" /\ page + f[i].offset \in T
  <2>1. CASE i \in 1 .. n
    BY <1>12, <1>14, <2>1
  <2>2. CASE i = n + 1
    BY <1>11, <1>13, <2>2
  <2> QED BY <1>11, <2>1, <2>2
<1>18. ASSUME NEW i \in 1 .. Len(f), NEW j \in 1 .. Len(f), NEW r \in T, Names(b, i, r), Names(b, j, r)
       PROVE  i = j
  <2>1. i \in 1 .. n /\ j \in 1 .. n
    BY <1>10, <1>17, <1>18 DEF Names
  <2>2. page + o[i] = page + o[j]
    BY <1>10, <1>12, <1>18, <2>1 DEF Names
  <2>3. o[i] = o[j]
    BY <1>12, <2>1, <2>2
  <2> QED BY <1>16, <2>1, <2>3
<1>19. ASSUME NEW r \in T PROVE \E i \in 1 .. Len(f) : Names(b, i, r)
  <2>1. PICK i \in 1 .. n : r = page + o[i]
    BY <1>15
  <2>2. i \in 1 .. Len(f)
    BY <1>11
  <2> QED BY <1>10, <1>12, <2>1, <2>2 DEF Names
<1>20. BlockOf(b, T)
  BY <1>10, <1>11, <1>17, <1>18, <1>19 DEF BlockOf
<1> QED BY <1>7, <1>10, <1>20 DEF T

(* The directory: a block for each page that holds an address. *)
Directory(blocks, pages, rvas) ==
  /\ pages \in Seq(Nat) /\ Len(blocks) = Len(pages)
  /\ \A i \in 1 .. Len(pages) :
       /\ blocks[i].va = pages[i] /\ BlockOf(blocks[i], OnPage(rvas, pages[i]))
       /\ \E r \in rvas : pages[i] = PageOf(r)
  /\ \A i, j \in 1 .. Len(pages) : pages[i] = pages[j] => i = j
  /\ \A r \in rvas : \E i \in 1 .. Len(pages) : pages[i] = PageOf(r)
  /\ blocks = <<>> <=> rvas = {}

(* AutoRelocBlocks writes that directory. *)
LEMMA DirectoryFacts ==
  ASSUME NEW payload, NEW base, Len(payload) \in Nat,
         NEW rvas, rvas = CandidateRvas(payload, base),
         \A r \in rvas : r \in Nat /\ r < SectionRva + Len(payload)
  PROVE  \E pages : Directory(AutoRelocBlocks(payload, base), pages, rvas)
<1> DEFINE S == {PageOf(r) : r \in rvas}
<1>0. PICK N \in Nat : N = SectionRva + Len(payload)
  BY KpeConstants DEF SectionRva
<1>1. PICK pages : pages = Ascending(S, N)
  OBVIOUS
<1>2. pages \in Seq(Nat) /\ Enumerates(pages, S, N)
  <2> HIDE DEF S
  <2> QED BY <1>1, AscendingFacts DEF Enumerates
<1>3. PICK n \in Nat : n = Len(pages)
  BY <1>2
<1>4. PICK blocks : blocks = AutoRelocBlocks(payload, base)
  OBVIOUS
<1>5. blocks = [i \in 1 .. n |-> RelocBlock(pages[i], rvas)]
  <2>1. DOMAIN pages = 1 .. n
    BY <1>2, <1>3
  <2> QED BY <1>0, <1>1, <1>4, <2>1 DEF AutoRelocBlocks
<1>6. Len(blocks) = n /\ (blocks = <<>> <=> n = 0)
  <2>1. blocks \in Seq({RelocBlock(x, rvas) : x \in Nat})
    BY <1>2, <1>3, <1>5
  <2>2. Len(blocks) = n
    BY <1>5
  <2> QED BY <2>1, <2>2
<1>7. \A i \in 1 .. n : pages[i] \in Nat /\ pages[i] \in S
  <2> HIDE DEF S
  <2> QED BY <1>2, <1>3 DEF Enumerates
<1>8. ASSUME NEW i \in 1 .. n
      PROVE  /\ blocks[i].va = pages[i] /\ BlockOf(blocks[i], OnPage(rvas, pages[i]))
             /\ \E r \in rvas : pages[i] = PageOf(r)
  <2>1. blocks[i] = RelocBlock(pages[i], rvas)
    BY <1>5
  <2>2. pages[i] \in Nat /\ rvas \subseteq Nat
    BY <1>7
  <2>3. \E r \in rvas : pages[i] = PageOf(r)
    BY <1>7
  <2> QED BY <2>1, <2>2, <2>3, RelocBlockFacts
<1>9. ASSUME NEW i \in 1 .. n, NEW j \in 1 .. n, pages[i] = pages[j] PROVE i = j
  <2>1. (i < j => pages[i] < pages[j]) /\ (j < i => pages[j] < pages[i]) /\ pages[i] \in Nat
    <3> HIDE DEF S
    <3> QED BY <1>2, <1>3, <1>7 DEF Enumerates
  <2> QED BY <1>9, <2>1
<1>10. ASSUME NEW r \in rvas PROVE \E i \in 1 .. n : pages[i] = PageOf(r)
  <2>1. PageOf(r) \in Nat /\ PageOf(r) < N /\ PageOf(r) \in S
    BY <1>0, PageBounds
  <2> HIDE DEF S
  <2> QED BY <1>2, <1>3, <2>1 DEF Enumerates
<1>11. blocks = <<>> <=> rvas = {}
  <2>1. ASSUME n = 0, rvas # {} PROVE FALSE
    BY <1>10, <2>1
  <2>2. ASSUME n # 0, rvas = {} PROVE FALSE
    <3>1. 1 \in 1 .. n
      BY <2>2
    <3> QED BY <1>8, <2>2, <3>1
  <2> QED BY <1>6, <2>1, <2>2
<1>12. Directory(blocks, pages, rvas)
  BY <1>2, <1>3, <1>6, <1>8, <1>9, <1>10, <1>11 DEF Directory
<1> QED BY <1>4, <1>12

(* The size of the directory never shrinks as blocks are added. *)
Counted(blocks, n) == n = Len(blocks) /\ \A i \in 1 .. n : Len(blocks[i].entries) \in Nat
Totals(w, blocks, n) ==
  /\ \A k \in 0 .. n : w[k] \in Nat /\ w[k] <= w[n]
  /\ w[0] = 0 /\ w[n] = DirectorySize(blocks)
  /\ \A k \in 1 .. n : /\ SizeOfBlock(blocks[k]) \in Nat /\ SizeOfBlock(blocks[k]) >= BlockHeader
                       /\ w[k] = w[k - 1] + SizeOfBlock(blocks[k])

(* So do the totals the packer runs up. *)
LEMMA DirectorySums ==
  ASSUME NEW blocks, NEW n \in Nat, NEW w, SumsBy(w, blocks, n), Counted(blocks, n)
  PROVE  Totals(w, blocks, n)
<1>1. /\ w[0] = 0 /\ w[n] = DirectorySize(blocks)
      /\ \A k \in 1 .. n : w[k] = w[k - 1] + SizeOfBlock(blocks[k])
  BY DEF SumsBy
<1>2. \A k \in 1 .. n : SizeOfBlock(blocks[k]) \in Nat /\ SizeOfBlock(blocks[k]) >= BlockHeader
  BY DEF SizeOfBlock, BlockHeader, Counted
<1> DEFINE G == {k \in 0 .. n : w[k] \in Nat}
<1>3. \A k \in 0 .. n : w[k] \in Nat
  <2>1. 0 \in G
    BY <1>1
  <2>2. ASSUME NEW k \in 1 .. n, k - 1 \in G PROVE k \in G
    BY <1>1, <1>2, <2>2
  <2>3. \A k \in 0 .. n : k \in G
    <3> HIDE DEF G
    <3> QED BY <2>1, <2>2, Iteration
  <2> QED BY <2>3
<1>4. ASSUME NEW k \in 0 .. n PROVE w[k] <= w[n]
  <2> DEFINE H == {j \in 0 .. n : k <= j => w[k] <= w[j]}
  <2>1. 0 \in H
    BY <1>3
  <2>2. ASSUME NEW j \in 1 .. n, j - 1 \in H PROVE j \in H
    <3>1. CASE k = j
      BY <1>3, <3>1
    <3>2. CASE k # j
      <4>1. w[j] = w[j - 1] + SizeOfBlock(blocks[j]) /\ SizeOfBlock(blocks[j]) \in Nat
              /\ w[j - 1] \in Nat /\ w[j] \in Nat /\ w[k] \in Nat
        BY <1>1, <1>2, <1>3
      <4>2. k <= j => w[k] <= w[j - 1]
        BY <2>2, <3>2
      <4> QED BY <4>1, <4>2
    <3> QED BY <3>1, <3>2
  <2>3. \A j \in 0 .. n : j \in H
    <3> HIDE DEF H
    <3> QED BY <2>1, <2>2, Iteration
  <2>4. n \in H
    BY <2>3
  <2> QED BY <2>4
<1> QED BY <1>1, <1>2, <1>3, <1>4 DEF Totals

-----------------------------------------------------------------------------
(***************************************************************************)
(* The relocation walk: it moves exactly the named words.                  *)
(***************************************************************************)
Shifted(m, T, delta) == [r \in DOMAIN m |-> IF r \in T THEN m[r] + delta ELSE m[r]]
Words(m, Z) == m \in [0 .. Z - 1 -> Int]
Inside(T, Z) == T \subseteq 0 .. Z - 1
WalkAt(m, c) == [ok |-> TRUE, memory |-> m, cursor |-> c]

(* The entries of one block. *)
LEMMA EntriesShift ==
  ASSUME NEW Z \in Nat, NEW m, Words(m, Z), NEW delta \in Int, NEW c,
         NEW T, Inside(T, Z), NEW block, BlockOf(block, T),
         NEW file, file.sizeOfImage = Z
  PROVE  PatchEntries(WalkAt(m, c), block, file, delta) = WalkAt(Shifted(m, T, delta), c)
<1>0. m \in [0 .. Z - 1 -> Int] /\ T \subseteq 0 .. Z - 1
  BY DEF Words, Inside
<1>1. PICK n \in Nat : n = Len(block.entries)
  BY DEF BlockOf
<1>2. PICK w : PatchesBy(w, WalkAt(m, c), block, file, delta, n)
  BY <1>1, EntriesLoop
<1> DEFINE Hit(k) == {r \in T : \E i \in 1 .. k : Names(block, i, r)}
           G == {k \in 0 .. n : w[k] = WalkAt(Shifted(m, Hit(k), delta), c)}
<1>3. 0 \in G
  <2>1. Hit(0) = {}
    OBVIOUS
  <2>2. Shifted(m, {}, delta) = m
    BY <1>0 DEF Shifted
  <2>3. w[0] = WalkAt(m, c) /\ 0 \in 0 .. n
    BY <1>2 DEF PatchesBy
  <2> HIDE DEF Hit
  <2> QED BY <2>1, <2>2, <2>3
<1>4. ASSUME NEW k \in 1 .. n, k - 1 \in G PROVE k \in G
  <2>1. PICK h : h = Shifted(m, Hit(k - 1), delta)
    OBVIOUS
  <2>2. h \in [0 .. Z - 1 -> Int]
    BY <1>0, <2>1 DEF Shifted
  <2>3. w[k] = PatchEntry(WalkAt(h, c), block.entries[k], block.va, file, delta)
    BY <1>2, <1>4, <2>1 DEF PatchesBy
  <2>4. CASE block.entries[k].type = "ABSOLUTE"
    <3>1. w[k] = WalkAt(h, c)
      BY <2>3, <2>4 DEF PatchEntry
    <3>2. Hit(k) = Hit(k - 1)
      <4>1. \A r : ~ Names(block, k, r)
        BY <2>4 DEF Names
      <4>2. \A i \in 1 .. k : i \in 1 .. k - 1 \/ i = k
        OBVIOUS
      <4>3. \A i \in 1 .. k - 1 : i \in 1 .. k
        OBVIOUS
      <4> QED BY <4>1, <4>2, <4>3
    <3> HIDE DEF Hit
    <3> QED BY <2>1, <3>1, <3>2
  <2>5. CASE block.entries[k].type = "DIR64" /\ block.va + block.entries[k].offset \in T
    <3>1. PICK t \in T : t = block.va + block.entries[k].offset
      BY <2>5
    <3>2. t \in 0 .. Z - 1 /\ ~ (t + 1 > Z)
      BY <1>0, <3>1
    <3>3. w[k] = [WalkAt(h, c) EXCEPT !.memory[t] = @ + delta]
      <4>1. WalkAt(h, c).ok = TRUE
        BY DEF WalkAt
      <4> QED BY <2>3, <2>5, <3>1, <3>2, <4>1 DEF PatchEntry
    <3>4. w[k] = WalkAt([h EXCEPT ![t] = @ + delta], c)
      BY <3>3 DEF WalkAt
    <3>5. t \notin Hit(k - 1)
      <4> SUFFICES ASSUME NEW i \in 1 .. k - 1, Names(block, i, t) PROVE FALSE
        OBVIOUS
      <4>1. Names(block, k, t)
        BY <2>5, <3>1 DEF Names
      <4>2. i \in 1 .. n
        OBVIOUS
      <4>3. \A a, b \in 1 .. n, r \in T : Names(block, a, r) /\ Names(block, b, r) => a = b
        BY <1>1 DEF BlockOf
      <4>4. i = k
        BY <4>1, <4>2, <4>3
      <4> QED BY <4>4
    <3>6. Hit(k) = Hit(k - 1) \cup {t}
      <4>1. \A r : Names(block, k, r) <=> r = t
        BY <2>5, <3>1 DEF Names
      <4>2. \A i \in 1 .. k : i \in 1 .. k - 1 \/ i = k
        OBVIOUS
      <4>3. (\A i \in 1 .. k - 1 : i \in 1 .. k) /\ k \in 1 .. k
        OBVIOUS
      <4> QED BY <3>1, <4>1, <4>2, <4>3
    <3> HIDE DEF Hit
    <3>7. [h EXCEPT ![t] = @ + delta] = Shifted(m, Hit(k), delta)
      <4>1. h[t] = m[t]
        BY <1>0, <2>1, <3>2, <3>5 DEF Shifted
      <4>2. \A r \in 0 .. Z - 1 :
              [h EXCEPT ![t] = @ + delta][r] = IF r \in Hit(k) THEN m[r] + delta ELSE m[r]
        BY <1>0, <2>1, <2>2, <3>2, <3>6, <4>1 DEF Shifted
      <4> QED BY <1>0, <2>2, <4>2 DEF Shifted
    <3>8. w[k] = WalkAt(Shifted(m, Hit(k), delta), c)
      BY <3>4, <3>7
    <3> QED BY <3>8
  <2> QED BY <1>1, <2>4, <2>5 DEF BlockOf
<1>5. n \in G
  <2> HIDE DEF G
  <2>1. \A k \in 0 .. n : k \in G
    BY <1>3, <1>4, Iteration
  <2> QED BY <2>1
<1>6. Hit(n) = T
  BY <1>1 DEF BlockOf
<1>7. w[n] = PatchEntries(WalkAt(m, c), block, file, delta)
  BY <1>2 DEF PatchesBy
<1> QED BY <1>5, <1>6, <1>7

(* The cursor moves past a block. *)
LEMMA WalkMoves ==
  ASSUME NEW h, NEW c, NEW d
  PROVE  [WalkAt(h, c) EXCEPT !.cursor = d] = WalkAt(h, d)
<1>1. PICK o : o = TRUE
  OBVIOUS
<1>2. \A x : WalkAt(h, x) = [ok |-> o, memory |-> h, cursor |-> x]
  BY <1>1 DEF WalkAt
<1>3. [[ok |-> o, memory |-> h, cursor |-> c] EXCEPT !.cursor = d] = [ok |-> o, memory |-> h, cursor |-> d]
  OBVIOUS
<1> QED BY <1>2, <1>3

(* One block. *)
LEMMA BlockShift ==
  ASSUME NEW Z \in Nat, NEW m, Words(m, Z), NEW delta \in Int, NEW c \in Nat,
         NEW T, Inside(T, Z), NEW block, BlockOf(block, T), NEW d \in Nat, d = c + SizeOfBlock(block),
         NEW file, file.sizeOfImage = Z, file.relocSize \in Nat, NEW whole,
         block.va \in Nat, block.va + PageWords <= Z,
         SizeOfBlock(block) \in Nat, SizeOfBlock(block) >= BlockHeader, d <= file.relocSize
  PROVE  PatchBlock(WalkAt(m, c), block, file, delta, whole) = WalkAt(Shifted(m, T, delta), d)
<1>1. PatchEntries(WalkAt(m, c), block, file, delta) = WalkAt(Shifted(m, T, delta), c)
  BY EntriesShift
<1>2. WalkAt(m, c).ok = TRUE /\ WalkAt(m, c).cursor = c
  BY DEF WalkAt
<1>3. PICK b \in Nat : b = SizeOfBlock(block)
  OBVIOUS
<1>4. ~ (c + BlockHeader > file.relocSize) /\ ~ (c + b > file.relocSize)
  BY <1>3 DEF BlockHeader
<1>5. ~ (block.va + PageWords > file.sizeOfImage)
  BY KpeConstants
<1>6. PatchBlock(WalkAt(m, c), block, file, delta, whole)
        = [WalkAt(Shifted(m, T, delta), c) EXCEPT !.cursor = c + b]
  BY <1>1, <1>2, <1>3, <1>4, <1>5 DEF PatchBlock
<1>7. [WalkAt(Shifted(m, T, delta), c) EXCEPT !.cursor = c + b] = WalkAt(Shifted(m, T, delta), c + b)
  BY WalkMoves
<1>8. d = c + b
  BY <1>3
<1> QED BY <1>6, <1>7, <1>8

(* Shifts of different words add up. *)
LEMMA ShiftTwice ==
  ASSUME NEW Z \in Nat, NEW m, Words(m, Z), NEW delta \in Int,
         NEW A, NEW B, A \cap B = {}, NEW C, C = A \cup B
  PROVE  /\ Words(Shifted(m, A, delta), Z)
         /\ Shifted(Shifted(m, A, delta), B, delta) = Shifted(m, C, delta)
<1>0. m \in [0 .. Z - 1 -> Int]
  BY DEF Words
<1>1. PICK h : h = Shifted(m, A, delta)
  OBVIOUS
<1>2. h \in [0 .. Z - 1 -> Int] /\ \A r \in 0 .. Z - 1 : h[r] = IF r \in A THEN m[r] + delta ELSE m[r]
  BY <1>0, <1>1 DEF Shifted
<1>3. \A r \in 0 .. Z - 1 : (IF r \in B THEN h[r] + delta ELSE h[r])
                              = (IF r \in A \cup B THEN m[r] + delta ELSE m[r])
  BY <1>0, <1>2
<1>4. Shifted(h, B, delta) = [r \in 0 .. Z - 1 |-> IF r \in B THEN h[r] + delta ELSE h[r]]
  BY <1>2 DEF Shifted
<1>5. Shifted(m, A \cup B, delta) = [r \in 0 .. Z - 1 |-> IF r \in A \cup B THEN m[r] + delta ELSE m[r]]
  BY <1>0 DEF Shifted
<1> QED BY <1>1, <1>2, <1>3, <1>4, <1>5 DEF Words

ReachesTo(pages, V) == \A i \in 1 .. Len(pages) : pages[i] + PageWords <= V

(* All blocks. *)
LEMMA BlocksShift ==
  ASSUME NEW Z \in Nat, NEW m, Words(m, Z), NEW delta \in Int, NEW whole,
         NEW rvas, Inside(rvas, Z), NEW pages, NEW file,
         Directory(file.blocks, pages, rvas), file.relocSize = DirectorySize(file.blocks),
         file.sizeOfImage = Z, ReachesTo(pages, Z)
  PROVE  PatchBlocks(Walk(m), file, delta, whole) = WalkAt(Shifted(m, rvas, delta), file.relocSize)
<1>1. PICK n \in Nat : n = Len(pages)
  BY DEF Directory
<1>2. PICK blocks : blocks = file.blocks
  OBVIOUS
<1>3. /\ Len(blocks) = n
      /\ \A i \in 1 .. n : /\ pages[i] \in Nat /\ pages[i] + PageWords <= Z
                           /\ blocks[i].va = pages[i] /\ BlockOf(blocks[i], OnPage(rvas, pages[i]))
      /\ \A i, j \in 1 .. n : pages[i] = pages[j] => i = j
      /\ \A r \in rvas : \E i \in 1 .. n : pages[i] = PageOf(r)
  <2>1. pages \in Seq(Nat) /\ Len(blocks) = n
    BY <1>1, <1>2 DEF Directory
  <2>2. \A i \in 1 .. n : blocks[i].va = pages[i] /\ BlockOf(blocks[i], OnPage(rvas, pages[i]))
    BY <1>1, <1>2, Zenon DEF Directory
  <2>3. \A i \in 1 .. n : pages[i] \in Nat /\ pages[i] + PageWords <= Z
    BY <1>1, <2>1 DEF ReachesTo
  <2>4. /\ \A i, j \in 1 .. n : pages[i] = pages[j] => i = j
        /\ \A r \in rvas : \E i \in 1 .. n : pages[i] = PageOf(r)
    BY <1>1, Zenon DEF Directory
  <2> QED BY <2>1, <2>2, <2>3, <2>4, Zenon
<1>4. \A i \in 1 .. n : Len(blocks[i].entries) \in Nat
  BY <1>3 DEF BlockOf
<1>5. PICK s : SumsBy(s, blocks, n)
  BY <1>3, DirectoryLoop
<1>6. /\ \A k \in 0 .. n : s[k] \in Nat /\ s[k] <= s[n]
      /\ s[0] = 0 /\ s[n] = file.relocSize
      /\ \A k \in 1 .. n : /\ SizeOfBlock(blocks[k]) \in Nat /\ SizeOfBlock(blocks[k]) >= BlockHeader
                           /\ s[k] = s[k - 1] + SizeOfBlock(blocks[k])
  <2>1. Counted(blocks, n)
    BY <1>3, <1>4 DEF Counted
  <2>2. Totals(s, blocks, n)
    BY <1>5, <2>1, DirectorySums
  <2> QED BY <1>2, <2>2 DEF Totals
<1>7. PICK w : WalksBy(w, Walk(m), file, delta, whole, n)
  BY <1>2, <1>3, BlocksLoop
<1> DEFINE Done(k) == {r \in rvas : \E i \in 1 .. k : pages[i] = PageOf(r)}
           G == {k \in 0 .. n : w[k] = WalkAt(Shifted(m, Done(k), delta), s[k])}
<1>8. 0 \in G
  <2>1. Done(0) = {}
    OBVIOUS
  <2>2. Shifted(m, {}, delta) = m
    BY DEF Shifted, Words
  <2>3. w[0] = WalkAt(m, 0) /\ 0 \in 0 .. n
    BY <1>7 DEF WalksBy, Walk, WalkAt
  <2> HIDE DEF Done
  <2> QED BY <1>6, <2>1, <2>2, <2>3
<1>9. ASSUME NEW k \in 1 .. n, k - 1 \in G PROVE k \in G
  <2>1. PICK T : T = OnPage(rvas, pages[k])
    OBVIOUS
  <2>2. Done(k) = Done(k - 1) \cup T
    <3>1. \A i \in 1 .. k : i \in 1 .. k - 1 \/ i = k
      OBVIOUS
    <3>2. (\A i \in 1 .. k - 1 : i \in 1 .. k) /\ k \in 1 .. k
      OBVIOUS
    <3> QED BY <2>1, <3>1, <3>2 DEF OnPage
  <2>3. Done(k - 1) \cap T = {}
    <3> SUFFICES ASSUME NEW r \in rvas, NEW i \in 1 .. k - 1, pages[i] = PageOf(r), pages[k] = PageOf(r)
                 PROVE  FALSE
      BY <2>1 DEF OnPage
    <3>1. i \in 1 .. n /\ i # k
      OBVIOUS
    <3> QED BY <1>3, <3>1
  <2>4. PICK h : h = Shifted(m, Done(k - 1), delta)
    OBVIOUS
  <2>5. w[k - 1] = WalkAt(h, s[k - 1])
    BY <1>9, <2>4
  <2> HIDE DEF Done
  <2>6. Words(h, Z) /\ Shifted(h, T, delta) = Shifted(m, Done(k), delta)
    BY <2>2, <2>3, <2>4, ShiftTwice
  <2>7. k - 1 \in 0 .. n /\ k \in 0 .. n
    OBVIOUS
  <2>8. s[k - 1] \in Nat /\ s[k] = s[k - 1] + SizeOfBlock(blocks[k]) /\ s[k] <= file.relocSize
          /\ file.relocSize \in Nat
    BY <1>6, <2>7
  <2>9. Inside(T, Z)
    BY <2>1 DEF OnPage, Inside
  <2>10. PatchBlock(WalkAt(h, s[k - 1]), blocks[k], file, delta, whole) = WalkAt(Shifted(h, T, delta), s[k])
    <3>1. PICK c \in Nat : c = s[k - 1]
      BY <2>8
    <3>2. PICK b : b = blocks[k]
      OBVIOUS
    <3>3. PICK d \in Nat : d = s[k]
      BY <1>6, <2>7
    <3>4. /\ BlockOf(b, T) /\ b.va \in Nat /\ b.va + PageWords <= Z
          /\ SizeOfBlock(b) \in Nat /\ SizeOfBlock(b) >= BlockHeader
      BY <1>3, <1>6, <2>1, <3>2
    <3>5. d = c + SizeOfBlock(b) /\ d <= file.relocSize /\ file.relocSize \in Nat
      BY <2>8, <3>1, <3>2, <3>3
    <3>6. PatchBlock(WalkAt(h, c), b, file, delta, whole) = WalkAt(Shifted(h, T, delta), d)
      BY <2>6, <2>9, <3>4, <3>5, BlockShift
    <3> QED BY <3>1, <3>2, <3>3, <3>6
  <2>11. w[k] = PatchBlock(w[k - 1], blocks[k], file, delta, whole)
    BY <1>2, <1>7 DEF WalksBy
  <2>12. w[k] = WalkAt(Shifted(m, Done(k), delta), s[k])
    BY <2>5, <2>6, <2>10, <2>11
  <2> QED BY <2>7, <2>12
<1>10. n \in G
  <2> HIDE DEF G
  <2>1. \A k \in 0 .. n : k \in G
    BY <1>8, <1>9, Iteration
  <2> QED BY <2>1
<1>11. Done(n) = rvas
  BY <1>3
<1>12. w[n] = PatchBlocks(Walk(m), file, delta, whole)
  BY <1>7 DEF WalksBy
<1> QED BY <1>6, <1>10, <1>11, <1>12

-----------------------------------------------------------------------------
(***************************************************************************)
(* The packed file.                                                        *)
(***************************************************************************)

(* Differences of multiples. *)
LEMMA MultiplesDiffer ==
  ASSUME NEW n \in Nat \ {0}, NEW x, NEW y, MultipleOf(x, n), MultipleOf(y, n), x <= y
  PROVE  MultipleOf(y - x, n)
<1>1. PICK p \in Nat, q \in Nat : x = p * n /\ y = q * n
  BY DEF MultipleOf
<1>2. CASE p <= q
  <2>1. PICK e \in Nat : q = p + e
    <3>1. q - p \in Nat /\ q = p + (q - p)
      BY <1>2
    <3> QED BY <3>1
  <2>2. q * n = p * n + e * n /\ p * n \in Nat /\ e * n \in Nat
    BY <2>1
  <2>3. y - x = e * n
    BY <1>1, <2>2
  <2> QED BY <2>3 DEF MultipleOf
<1>3. CASE q < p
  <2>1. MultipleOf(q * n, n) /\ MultipleOf(p * n, n)
    BY DEF MultipleOf
  <2>2. PICK e \in Nat : p = q + e
    <3>1. p - q \in Nat /\ p = q + (p - q)
      BY <1>3
    <3> QED BY <3>1
  <2>3. p * n = q * n + e * n /\ q * n \in Nat /\ e * n \in Nat
    BY <2>2
  <2>4. x = y
    BY <1>1, <2>3
  <2>5. y - x = 0
    BY <1>1, <2>3, <2>4
  <2> QED BY <2>5, MultipleOfItself
<1> QED BY <1>2, <1>3

RawSize(L) == AlignUp64(L, FileAlign)
RelocVa(L) == AlignUp64(SectionRva + L, PageWords)
ImageEnd(L, W) == AlignUp64(RelocVa(L) + W, PageWords)

(* What alignments there are. *)
LEMMA Alignments ==
  /\ PageWords \in Nat \ {0} /\ FileAlign \in Nat \ {0} /\ PageWords > 1
  /\ HeaderWords = FileAlign /\ SectionRva = PageWords
  /\ FileAlign <= PageWords /\ MultipleOf(PageWords, FileAlign)
<1>1. PageWords \in Nat \ {0} /\ FileAlign \in Nat \ {0} /\ PageWords > 1 /\ PageWords % FileAlign = 0
  BY KpeConstants
<1>2. PageWords \div FileAlign \in Nat /\ PageWords % FileAlign = PageWords - FileAlign * (PageWords \div FileAlign)
  BY <1>1
<1>3. PICK q \in Nat : q = PageWords \div FileAlign
  BY <1>2
<1>4. PageWords = q * FileAlign
  <2>1. FileAlign * q = q * FileAlign /\ q * FileAlign \in Nat
    BY <1>1
  <2> QED BY <1>1, <1>2, <1>3, <2>1
<1>5. MultipleOf(PageWords, FileAlign)
  BY <1>4 DEF MultipleOf
<1>6. FileAlign <= PageWords
  <2>1. MultipleOf(0, FileAlign)
    BY <1>1, MultipleOfItself
  <2>2. 0 < PageWords => 0 + FileAlign <= PageWords
    BY <1>1, <1>5, <2>1, MultiplesApart
  <2> QED BY <1>1, <2>2
<1> QED BY <1>1, <1>5, <1>6 DEF HeaderWords, SectionRva

(* How sections lie in an image, their raw data and whole pages included. *)
LEMMA Layout ==
  ASSUME NEW L \in Nat \ {0}, NEW W \in Nat
  PROVE  /\ RawSize(L) \in Nat /\ RelocVa(L) \in Nat /\ RawSize(W) \in Nat /\ ImageEnd(L, W) \in Nat
         /\ L <= RawSize(L) /\ W <= RawSize(W) /\ RawSize(L) > 0
         /\ PageWords + RawSize(L) <= RelocVa(L) /\ RelocVa(L) + RawSize(W) <= ImageEnd(L, W)
         /\ PageWords + AlignUp64(L, PageWords) <= RelocVa(L)
         /\ RelocVa(L) + AlignUp64(W, PageWords) <= ImageEnd(L, W)
         /\ RelocVa(L) + W <= ImageEnd(L, W) /\ PageWords + L <= RelocVa(L)
         /\ MultipleOf(RelocVa(L), PageWords) /\ RawSize(0) = 0
<1>0. /\ PageWords \in Nat \ {0} /\ FileAlign \in Nat \ {0} /\ SectionRva = PageWords
      /\ MultipleOf(PageWords, FileAlign) /\ MultipleOf(PageWords, PageWords)
  BY Alignments, MultipleOfItself
<1>1. /\ RawSize(L) \in Nat /\ L <= RawSize(L) /\ RawSize(W) \in Nat /\ W <= RawSize(W)
  BY <1>0, AlignUpBounds DEF RawSize
<1>2. PICK v \in Nat : v = RelocVa(L) /\ MultipleOf(v, PageWords) /\ PageWords + L <= v
  <2>1. PICK u \in Nat : u = SectionRva + L
    BY <1>0
  <2> QED BY <1>0, <2>1, AlignUpBounds DEF RelocVa
<1>3. PICK e \in Nat : e = ImageEnd(L, W) /\ MultipleOf(e, PageWords) /\ v + W <= e
  <2>1. PICK u \in Nat : u = v + W
    OBVIOUS
  <2> QED BY <1>0, <1>2, <2>1, AlignUpBounds DEF ImageEnd
<1>4. PICK a \in Nat : a = v - PageWords
  <2>1. v - PageWords \in Nat
    BY <1>0, <1>2
  <2> QED BY <2>1
<1>5. MultipleOf(a, PageWords) /\ L <= a
  <2>1. PageWords <= v
    BY <1>0, <1>2
  <2> QED BY <1>0, <1>2, <1>4, <2>1, MultiplesDiffer
<1>6. PICK b \in Nat : b = e - v
  <2>1. e - v \in Nat
    BY <1>3
  <2> QED BY <2>1
<1>7. MultipleOf(b, PageWords) /\ W <= b
  <2>1. v <= e
    BY <1>3
  <2> QED BY <1>0, <1>2, <1>3, <1>6, <2>1, MultiplesDiffer
<1>8. MultipleOf(a, FileAlign) /\ MultipleOf(b, FileAlign)
  BY <1>0, <1>5, <1>7, MultiplesNest
<1>9. AlignUp64(L, FileAlign) <= a /\ AlignUp64(L, PageWords) <= a
  BY <1>0, <1>5, <1>8, AlignUpLeast
<1>10. AlignUp64(W, FileAlign) <= b /\ AlignUp64(W, PageWords) <= b
  BY <1>0, <1>7, <1>8, AlignUpLeast
<1>11. AlignUp64(L, PageWords) \in Nat /\ AlignUp64(W, PageWords) \in Nat
  BY <1>0, AlignUpBounds
<1>12. RawSize(0) = 0
  <2>1. MultipleOf(0, FileAlign)
    BY <1>0, MultipleOfItself
  <2>2. AlignUp64(0, FileAlign) <= 0 /\ AlignUp64(0, FileAlign) \in Nat
    BY <1>0, <2>1, AlignUpLeast, AlignUpBounds
  <2> QED BY <2>2 DEF RawSize
<1>13. PageWords + RawSize(L) <= v /\ PageWords + AlignUp64(L, PageWords) <= v
  BY <1>0, <1>1, <1>4, <1>9, <1>11 DEF RawSize
<1>14. v + RawSize(W) <= e /\ v + AlignUp64(W, PageWords) <= e
  BY <1>1, <1>6, <1>10, <1>11 DEF RawSize
<1> QED BY <1>1, <1>2, <1>3, <1>12, <1>13, <1>14

ProgramOK(p) ==
  /\ p \in Seq(Items) /\ p # <<>>
  /\ \A i \in DOMAIN p : p[i].holds = "data" \/ p[i].value \in 1 .. Len(p)

(* What a linked word is, by what the item holds. *)
LEMMA LinkedWords ==
  ASSUME NEW item \in Items, NEW base \in Nat,
         item.holds = "data" \/ item.value \in Nat \ {0}
  PROVE  /\ LinkedWord(item, base) \in Nat
         /\ item.holds = "data" => LinkedWord(item, base) = item.value
         /\ item.holds = "address" => LinkedWord(item, base) = base + SectionRva + item.value - 1
<1>1. PICK P \in Nat : P = SectionRva
  BY Alignments
<1>2. item.holds \in {"data", "address", "unaligned"} /\ item.value \in Nat
  BY DEF Items
<1>3. PICK v \in Nat : v = item.value
  BY <1>2
<1>4. AddressOf(item, base) = base + P + v - 1
  BY <1>1, <1>3 DEF AddressOf
<1>5. CASE item.holds = "data"
  BY <1>3, <1>5 DEF LinkedWord
<1>6. CASE item.holds = "address"
  <2>1. LinkedWord(item, base) = base + P + v - 1 /\ v # 0
    BY <1>3, <1>4, <1>6 DEF LinkedWord
  <2> QED BY <1>1, <1>3, <1>6, <2>1
<1>7. CASE item.holds = "unaligned"
  <2>1. v # 0
    BY <1>3, <1>7
  <2>2. PICK a \in Nat : a = AddressOf(item, base)
    BY <1>4, <2>1
  <2>3. LinkedWord(item, base) = 256 * a
    BY <1>7, <2>2 DEF LinkedWord
  <2>4. 256 * a \in Nat
    OBVIOUS
  <2> QED BY <1>7, <2>3, <2>4
<1> QED BY <1>2, <1>5, <1>6, <1>7

(* LinkedAt gives a word for each item of a program. *)
LEMMA PayloadFacts ==
  ASSUME NEW p, ProgramOK(p), NEW base \in Nat
  PROVE  /\ Len(p) \in Nat \ {0} /\ DOMAIN p = 1 .. Len(p)
         /\ Len(LinkedAt(p, base)) = Len(p) /\ DOMAIN LinkedAt(p, base) = 1 .. Len(p)
         /\ \A i \in 1 .. Len(p) :
              /\ p[i] \in Items /\ (p[i].holds = "data" \/ p[i].value \in 1 .. Len(p))
              /\ LinkedAt(p, base)[i] \in Nat /\ LinkedAt(p, base)[i] = LinkedWord(p[i], base)
<1>1. PICK n \in Nat \ {0} : n = Len(p)
  BY DEF ProgramOK
<1>2. /\ DOMAIN p = 1 .. n
      /\ \A i \in 1 .. n : p[i] \in Items /\ (p[i].holds = "data" \/ p[i].value \in 1 .. n)
  BY <1>1 DEF ProgramOK
<1>3. PICK q : q = LinkedAt(p, base)
  OBVIOUS
<1>4. q = [i \in 1 .. n |-> LinkedWord(p[i], base)]
  BY <1>2, <1>3 DEF LinkedAt
<1>5. \A i \in 1 .. n : q[i] \in Nat /\ q[i] = LinkedWord(p[i], base)
  <2>1. ASSUME NEW i \in 1 .. n PROVE q[i] \in Nat /\ q[i] = LinkedWord(p[i], base)
    <3>1. p[i] \in Items /\ (p[i].holds = "data" \/ p[i].value \in Nat \ {0})
      BY <1>2
    <3>2. LinkedWord(p[i], base) \in Nat
      BY <3>1, LinkedWords
    <3> QED BY <1>4, <3>2
  <2> QED BY <2>1
<1>6. q \in Seq(Nat) /\ Len(q) = n
  BY <1>4, <1>5
<1> QED BY <1>1, <1>2, <1>3, <1>4, <1>5, <1>6, Zenon

(* The words the packer relocates, and what a program becomes when they    *)
(* are moved.                                                              *)
Candidates(p, base) == CandidateRvas(LinkedAt(p, base), base)
MovedWord(p, base, nb, i) ==
  IF LooksLikeAddress(LinkedAt(p, base)[i], Len(p), base) THEN LinkedAt(p, base)[i] + (nb - base)
  ELSE LinkedAt(p, base)[i]
MovedWords(p, base, nb) == [i \in DOMAIN p |-> MovedWord(p, base, nb, i)]

(* They lie in the payload. *)
LEMMA CandidatesInPayload ==
  ASSUME NEW p, ProgramOK(p), NEW base \in Nat
  PROVE  \A r \in Candidates(p, base) : r \in Nat /\ PageWords <= r /\ r < SectionRva + Len(p)
<1>1. PICK n \in Nat \ {0} : n = Len(p)
  BY PayloadFacts
<1>2. PICK q : q = LinkedAt(p, base)
  OBVIOUS
<1>3. DOMAIN q = 1 .. n
  BY <1>1, <1>2, PayloadFacts
<1>4. PageWords \in Nat /\ SectionRva = PageWords
  BY Alignments
<1> QED BY <1>1, <1>2, <1>3, <1>4 DEF Candidates, CandidateRvas

(* Where the words of a loaded program are those of the program linked     *)
(* there.                                                                  *)
ReadRight(p, base, nb, w) ==
  \A i \in DOMAIN p : nb = base \/ PackerReads(p, i, base) => w[i] = LinkedAt(p, nb)[i]

(* Moving what looks like an address is right wherever the packer's guess  *)
(* is: it takes every aligned address for one.                             *)
LEMMA MovedReadsRight ==
  ASSUME NEW p, ProgramOK(p), NEW base \in Nat, NEW nb \in Nat, nb # base
  PROVE  ReadRight(p, base, nb, MovedWords(p, base, nb))
<1>1. PICK L \in Nat \ {0} : L = Len(p)
  BY PayloadFacts
<1>2. PICK P \in Nat : P = SectionRva
  BY Alignments
<1>3. ASSUME NEW i \in DOMAIN p, PackerReads(p, i, base)
      PROVE  MovedWord(p, base, nb, i) = LinkedAt(p, nb)[i]
  <2>1. i \in 1 .. L
    BY <1>1, PayloadFacts
  <2>2. PICK t : t = p[i] /\ t \in Items /\ (t.holds = "data" \/ t.value \in 1 .. L)
    BY <1>1, <2>1, PayloadFacts
  <2>3. LinkedAt(p, base)[i] = LinkedWord(t, base) /\ LinkedAt(p, nb)[i] = LinkedWord(t, nb)
    BY <1>1, <2>1, <2>2, PayloadFacts
  <2>4. t.holds = "data" \/ t.value \in Nat \ {0}
    BY <2>2
  <2>5. CASE t.holds = "address"
    <3>1. PICK v \in 1 .. L : v = t.value
      BY <2>2, <2>5
    <3>2. LinkedWord(t, base) = base + P + v - 1 /\ LinkedWord(t, nb) = nb + P + v - 1
      BY <1>2, <2>2, <2>4, <2>5, <3>1, LinkedWords
    <3>3. base + P + v - 1 \in base + P .. base + P + L - 1
      BY <3>1
    <3>4. LooksLikeAddress(LinkedWord(t, base), L, base)
      BY <1>2, <3>2, <3>3 DEF LooksLikeAddress
    <3>5. base + P + v - 1 + (nb - base) = nb + P + v - 1
      BY <3>1
    <3> QED BY <1>1, <2>3, <3>2, <3>4, <3>5, Zenon DEF MovedWord
  <2>6. CASE t.holds # "address"
    <3>1. t.holds = "data" /\ ~ LooksLikeAddress(t.value, L, base)
      BY <1>1, <1>3, <2>2, <2>6, Zenon DEF PackerReads
    <3>2. LinkedWord(t, base) = t.value /\ LinkedWord(t, nb) = t.value
      BY <2>2, <2>4, <3>1, LinkedWords
    <3> QED BY <1>1, <2>3, <3>1, <3>2, Zenon DEF MovedWord
  <2> QED BY <2>5, <2>6
<1> QED BY <1>3 DEF ReadRight, MovedWords

Text(L) == [va |-> SectionRva, virtual |-> L, raw |-> RawSize(L), pointer |-> HeaderWords]
Reloc(L, W) ==
  [va |-> RelocVa(L), virtual |-> W, raw |-> RawSize(W), pointer |-> HeaderWords + RawSize(L)]
FileWord(q, L, W, w) ==
  IF w < HeaderWords THEN HeaderWord
  ELSE IF w < HeaderWords + L THEN q[w - HeaderWords + 1]
  ELSE IF w \in HeaderWords + RawSize(L) .. HeaderWords + RawSize(L) + W - 1
       THEN RelocWord(w - HeaderWords - RawSize(L) + 1)
  ELSE 0
RelocWords(blocks) == AlignUp64(DirectorySize(blocks), 4) \div 4
FullSize(L, W) == HeaderWords + RawSize(L) + RawSize(W)

(* What the packer writes, whole or cut. *)
Laid(f, q, base, L, W) ==
  /\ f.imageBase = base /\ f.entry = SectionRva /\ f.dynamicBase = TRUE
  /\ f.blocks = AutoRelocBlocks(q, base)
  /\ f.relocSize = DirectorySize(f.blocks) /\ W = RelocWords(f.blocks) /\ f.relocWords = W
  /\ f.blocks # <<>> => /\ f.sections = <<Text(L), Reloc(L, W)>>
                        /\ f.relocVa = RelocVa(L) /\ f.sizeOfImage = ImageEnd(L, W)
  /\ f.blocks = <<>> => /\ f.sections = <<Text(L)>>
                        /\ f.relocVa = 0 /\ f.sizeOfImage = RelocVa(L)
  /\ f.words = [w \in 0 .. FullSize(L, W) - 1 |-> FileWord(q, L, W, w)]

CutsLaid(f, q, base, L, W, sub) ==
  \A n : Laid(CutTo(f, n), q, base, L, W) /\ CutTo(f, n).subsystem = sub /\ CutTo(f, n).size = n

(* kpepack.ps1 writes it, and a cut changes only the size. *)
LEMMA PackLaid ==
  ASSUME NEW p, NEW base, NEW sub, NEW q, q = LinkedAt(p, base), NEW L, L = Len(q),
         NEW W, W = RelocWords(AutoRelocBlocks(q, base)), NEW f, f = Pack(p, base, sub)
  PROVE  /\ Laid(f, q, base, L, W) /\ f.subsystem = sub /\ f.size = FullSize(L, W)
         /\ CutsLaid(f, q, base, L, W, sub)
<1>1. PICK blocks : blocks = AutoRelocBlocks(q, base)
  OBVIOUS
<1>2. PICK o : o = TRUE
  OBVIOUS
<1>3. PICK Z, S, V, D, M : 
        /\ Z = (IF blocks # <<>> THEN ImageEnd(L, W) ELSE RelocVa(L))
        /\ S = (IF blocks # <<>> THEN <<Text(L), Reloc(L, W)>> ELSE <<Text(L)>>)
        /\ V = (IF blocks # <<>> THEN RelocVa(L) ELSE 0)
        /\ D = DirectorySize(blocks)
        /\ M = [w \in 0 .. FullSize(L, W) - 1 |-> FileWord(q, L, W, w)]
  OBVIOUS
<1>4. f = [subsystem |-> sub, imageBase |-> base, entry |-> SectionRva, dynamicBase |-> o,
           sizeOfImage |-> Z, sections |-> S, relocVa |-> V, relocSize |-> D, relocWords |-> W,
           blocks |-> blocks, size |-> FullSize(L, W), words |-> M]
  BY <1>1, <1>2, <1>3, Zenon
  DEF Pack, Text, Reloc, FileWord, RelocWords, FullSize, RawSize, RelocVa, ImageEnd
<1>5. PICK F : F = FullSize(L, W)
  OBVIOUS
<1>6. /\ f.subsystem = sub /\ f.imageBase = base /\ f.entry = SectionRva /\ f.dynamicBase = o
      /\ f.sizeOfImage = Z /\ f.sections = S /\ f.relocVa = V /\ f.relocSize = D
      /\ f.relocWords = W /\ f.blocks = blocks /\ f.size = F /\ f.words = M
  BY <1>4, <1>5
<1>7. ASSUME NEW n, NEW g, g = CutTo(f, n)
      PROVE  /\ g.subsystem = sub /\ g.imageBase = base /\ g.entry = SectionRva /\ g.dynamicBase = o
             /\ g.sizeOfImage = Z /\ g.sections = S /\ g.relocVa = V /\ g.relocSize = D
             /\ g.relocWords = W /\ g.blocks = blocks /\ g.size = n /\ g.words = M
  BY <1>4, <1>5, <1>7 DEF CutTo
<1>8. ASSUME NEW g, g.imageBase = base, g.entry = SectionRva, g.dynamicBase = o,
             g.sizeOfImage = Z, g.sections = S, g.relocVa = V, g.relocSize = D,
             g.relocWords = W, g.blocks = blocks, g.words = M
      PROVE  Laid(g, q, base, L, W)
  BY <1>1, <1>2, <1>3, <1>8, Zenon DEF Laid
<1>9. Laid(f, q, base, L, W)
  BY <1>6, <1>8, Zenon
<1>10. ASSUME NEW n PROVE Laid(CutTo(f, n), q, base, L, W) /\ CutTo(f, n).subsystem = sub /\ CutTo(f, n).size = n
  <2>1. PICK g : g = CutTo(f, n)
    OBVIOUS
  <2>2. Laid(g, q, base, L, W)
    BY <1>7, <1>8, <2>1, Zenon
  <2>3. g.subsystem = sub /\ g.size = n
    BY <1>7, <2>1, Zenon
  <2> QED BY <2>1, <2>2, <2>3, Zenon
<1> QED BY <1>5, <1>6, <1>9, <1>10, Zenon DEF CutsLaid

(* The words the directory takes: none without blocks, else at least one. *)
LEMMA RelocWordsFacts ==
  ASSUME NEW blocks, NEW pages, NEW rvas, Directory(blocks, pages, rvas)
  PROVE  /\ RelocWords(blocks) \in Nat /\ DirectorySize(blocks) \in Nat
         /\ blocks = <<>> => RelocWords(blocks) = 0
         /\ blocks # <<>> => RelocWords(blocks) > 0 /\ DirectorySize(blocks) >= BlockHeader
<1>1. PICK n \in Nat : n = Len(pages) /\ n = Len(blocks)
  BY DEF Directory
<1>2. \A i \in 1 .. n : BlockOf(blocks[i], OnPage(rvas, pages[i]))
  BY <1>1, Zenon DEF Directory
<1>3. \A i \in 1 .. n : Len(blocks[i].entries) \in Nat
  BY <1>2 DEF BlockOf
<1>4. Counted(blocks, n)
  BY <1>1, <1>3 DEF Counted
<1>5. PICK w : SumsBy(w, blocks, n)
  BY <1>1, DirectoryLoop
<1>6. Totals(w, blocks, n)
  BY <1>4, <1>5, DirectorySums
<1>7. PICK D \in Nat : D = DirectorySize(blocks) /\ (n = 0 => D = 0) /\ (n > 0 => D >= BlockHeader)
  <2>1. w[n] = DirectorySize(blocks) /\ w[n] \in Nat /\ (n = 0 => w[n] = 0)
    BY <1>6 DEF Totals
  <2>2. ASSUME n > 0 PROVE w[n] >= BlockHeader
    <3>1. 1 \in 1 .. n /\ 1 \in 0 .. n
      BY <2>2
    <3>2. w[1] = w[1 - 1] + SizeOfBlock(blocks[1]) /\ SizeOfBlock(blocks[1]) \in Nat
            /\ SizeOfBlock(blocks[1]) >= BlockHeader /\ w[1] <= w[n] /\ w[1] \in Nat /\ w[0] = 0
      BY <1>6, <3>1 DEF Totals
    <3> QED BY <2>1, <3>2 DEF BlockHeader
  <2> QED BY <2>1, <2>2
<1>8. blocks = <<>> <=> n = 0
  <2>1. blocks = <<>> => n = 0
    BY <1>1
  <2>2. ASSUME n = 0 PROVE blocks = <<>>
    <3>1. rvas = {}
      <4>1. \A r \in rvas : \E i \in 1 .. n : pages[i] = PageOf(r)
        BY <1>1, Zenon DEF Directory
      <4> QED BY <2>2, <4>1
    <3> QED BY <3>1, Zenon DEF Directory
  <2> QED BY <2>1, <2>2
<1>9. AlignUp64(D, 4) \in Nat /\ AlignUp64(D, 4) >= D /\ AlignUp64(0, 4) = 0
  BY DEF AlignUp64
<1>10. PICK a \in Nat : a = AlignUp64(D, 4)
  BY <1>9
<1>11. a \div 4 \in Nat /\ (D = 0 => a \div 4 = 0) /\ (D >= 4 => a \div 4 > 0)
  BY <1>9, <1>10
<1>12. RelocWords(blocks) = a \div 4
  BY <1>7, <1>10 DEF RelocWords
<1> QED BY <1>7, <1>8, <1>11, <1>12 DEF BlockHeader

-----------------------------------------------------------------------------
(***************************************************************************)
(* The loaded image before relocation.                                     *)
(***************************************************************************)

(* The word of the image at r for the program's words q. *)
ImageWord(q, L, W, V, r) ==
  IF r - SectionRva + 1 \in 1 .. L THEN q[r - SectionRva + 1]
  ELSE IF r < HeaderWords THEN HeaderWord
  ELSE IF r \in V .. V + W - 1 THEN RelocWord(r - V + 1)
  ELSE 0

SectionIs(file, k, va, virtual, raw, pointer) ==
  file.sections[k] = [va |-> va, virtual |-> virtual, raw |-> raw, pointer |-> pointer]
Overlaid(m, file, Z, va, raw, pointer) ==
  [r \in 0 .. Z - 1 |-> IF r \in va .. va + raw - 1 THEN file.words[pointer + r - va] ELSE m[r]]

(* A section whose raw data covers it is copied; there is nothing to clear. *)
LEMMA SectionCopied ==
  ASSUME NEW Z \in Nat, NEW m, DOMAIN m = 0 .. Z - 1, NEW file, NEW clear \in BOOLEAN, NEW k,
         NEW va \in Nat, NEW virtual \in Nat, NEW raw \in Nat, NEW pointer \in Nat, virtual <= raw,
         SectionIs(file, k, va, virtual, raw, pointer)
  PROVE  WithSection(m, file, k, clear) = Overlaid(m, file, Z, va, raw, pointer)
<1>1. PICK s : s = file.sections[k]
  OBVIOUS
<1>2. s.va = va /\ s.virtual = virtual /\ s.raw = raw /\ s.pointer = pointer
  BY <1>1 DEF SectionIs
<1>3. PICK c : c = CopySection(m, s, file.words)
  OBVIOUS
<1>4. c = [r \in 0 .. Z - 1 |->
             IF r \in va .. va + raw - 1 THEN file.words[pointer + r - va] ELSE m[r]]
  BY <1>2, <1>3 DEF CopySection
<1>5. ClearRest(c, s) = c
  <2>1. s.va + s.raw .. s.va + s.virtual - 1 = {}
    BY <1>2
  <2>2. ClearRest(c, s) = [r \in DOMAIN c |-> c[r]]
    BY <2>1 DEF ClearRest
  <2> QED BY <1>4, <2>2
<1>6. WithSection(m, file, k, clear) = IF clear THEN ClearRest(c, s) ELSE c
  BY <1>1, <1>3 DEF WithSection
<1> QED BY <1>4, <1>5, <1>6 DEF Overlaid

ImageMemory(file, clear) == CopySections(CopyHeaders(ZeroImage(Garbage(file)), file), file, clear)

Filled(file, q, L, W) ==
  file.words = [w \in 0 .. FullSize(L, W) - 1 |-> FileWord(q, L, W, w)]

(* Before its sections the image holds the headers. *)
LEMMA HeadersCopied ==
  ASSUME NEW file, NEW Z \in Nat, file.sizeOfImage = Z, NEW n \in Nat, file.size = n, HeaderWords <= n,
         NEW q, NEW L \in Nat, NEW W \in Nat, RawSize(L) \in Nat, RawSize(W) \in Nat,
         Filled(file, q, L, W)
  PROVE  CopyHeaders(ZeroImage(Garbage(file)), file) =
           [r \in 0 .. Z - 1 |-> IF r < HeaderWords THEN HeaderWord ELSE 0]
<1>1. PICK H \in Nat : H = HeaderWords
  BY Alignments
<1>2. PICK z : z = ZeroImage(Garbage(file))
  OBVIOUS
<1>3. z = [r \in 0 .. Z - 1 |-> 0]
  BY <1>2 DEF ZeroImage, Garbage
<1>4. \A w \in 0 .. Z - 1 : w < H => file.words[w] = HeaderWord
  BY <1>1 DEF Filled, FullSize, FileWord
<1>5. CopyHeaders(z, file) =
        [r \in 0 .. Z - 1 |-> IF r < H /\ r < n THEN file.words[r] ELSE z[r]]
  BY <1>1, <1>3 DEF CopyHeaders
<1>6. ASSUME NEW r \in 0 .. Z - 1
      PROVE  (IF r < H /\ r < n THEN file.words[r] ELSE z[r]) = IF r < H THEN HeaderWord ELSE 0
  <2>1. H <= n
    BY <1>1
  <2>2. r < H => r < n /\ file.words[r] = HeaderWord
    BY <1>1, <1>4, <2>1
  <2>3. z[r] = 0
    BY <1>3
  <2> QED BY <2>2, <2>3, Zenon
<1> QED BY <1>1, <1>2, <1>5, <1>6

(* The sections: one, or two that lie apart. *)
LEMMA OneSection ==
  ASSUME NEW m, NEW file, NEW clear, Len(file.sections) = 1
  PROVE  CopySections(m, file, clear) = WithSection(m, file, 1, clear)
<1>1. PICK w : CopiesBy(w, m, file, clear, 1)
  BY SectionsLoop
<1>2. w[1] = WithSection(w[1 - 1], file, 1, clear) /\ w[0] = m /\ w[1] = CopySections(m, file, clear)
  BY <1>1 DEF CopiesBy
<1> QED BY <1>2

(* Two sections are copied one after the other. *)
LEMMA TwoSections ==
  ASSUME NEW m, NEW file, NEW clear, Len(file.sections) = 2
  PROVE  CopySections(m, file, clear) = WithSection(WithSection(m, file, 1, clear), file, 2, clear)
<1>1. PICK w : CopiesBy(w, m, file, clear, 2)
  BY SectionsLoop
<1>2. /\ w[1] = WithSection(w[1 - 1], file, 1, clear) /\ w[0] = m
      /\ w[2] = WithSection(w[2 - 1], file, 2, clear) /\ w[2] = CopySections(m, file, clear)
  BY <1>1 DEF CopiesBy
<1> QED BY <1>2

WordsFor(blocks, W) == blocks = <<>> => W = 0

(* Whatever the pages held, they then hold the program as it was linked,   *)
(* its headers and its directory.                                          *)
LEMMA ImageCopied ==
  ASSUME NEW q, NEW L \in Nat \ {0}, NEW W \in Nat, NEW base, NEW clear \in BOOLEAN,
         NEW f, Laid(f, q, base, L, W), WordsFor(f.blocks, W),
         NEW n \in Nat, f.size = n, HeaderWords <= n
  PROVE  ImageMemory(f, clear) =
           [r \in 0 .. f.sizeOfImage - 1 |-> ImageWord(q, L, W, f.relocVa, r)]
<1>1. PICK H \in Nat, P \in Nat : H = HeaderWords /\ P = SectionRva /\ P = PageWords /\ H <= P
  BY Alignments
<1>2. PICK R \in Nat, X \in Nat, V \in Nat, E \in Nat :
        /\ R = RawSize(L) /\ X = RawSize(W) /\ V = RelocVa(L) /\ E = ImageEnd(L, W)
        /\ L <= R /\ W <= X /\ P + R <= V /\ V + X <= E
  <2>1. /\ RawSize(L) \in Nat /\ RawSize(W) \in Nat /\ RelocVa(L) \in Nat /\ ImageEnd(L, W) \in Nat
        /\ L <= RawSize(L) /\ W <= RawSize(W)
        /\ PageWords + RawSize(L) <= RelocVa(L) /\ RelocVa(L) + RawSize(W) <= ImageEnd(L, W)
    BY Layout
  <2> QED BY <1>1, <2>1, Zenon
<1>a. H \in Nat /\ P \in Nat /\ R \in Nat /\ X \in Nat /\ V \in Nat /\ E \in Nat
        /\ H <= P /\ L <= R /\ W <= X /\ P + R <= V /\ V + X <= E
  BY <1>1, <1>2, Zenon
<1>b. FullSize(L, W) = H + R + X
  BY <1>1, <1>2, Zenon DEF FullSize
<1>c. PICK FW : FW = [w \in 0 .. FullSize(L, W) - 1 |-> FileWord(q, L, W, w)]
  OBVIOUS
<1>3. /\ f.words = FW
      /\ f.blocks # <<>> => f.sections = <<Text(L), Reloc(L, W)>> /\ f.relocVa = V /\ f.sizeOfImage = E
      /\ f.blocks = <<>> => f.sections = <<Text(L)>> /\ f.relocVa = 0 /\ f.sizeOfImage = V
  BY <1>2, <1>c, Zenon DEF Laid
<1>d. \A w \in 0 .. H + R + X - 1 : FW[w] = FileWord(q, L, W, w)
  <2>1. FW = [w \in 0 .. H + R + X - 1 |-> FileWord(q, L, W, w)]
    BY <1>b, <1>c
  <2> QED BY <2>1
<1>e. \A w : FileWord(q, L, W, w) = IF w < H THEN HeaderWord
                                    ELSE IF w < H + L THEN q[w - H + 1]
                                    ELSE IF w \in H + R .. H + R + W - 1 THEN RelocWord(w - H - R + 1)
                                    ELSE 0
  BY <1>1, <1>2, Zenon DEF FileWord
<1>4. /\ Text(L) = [va |-> P, virtual |-> L, raw |-> R, pointer |-> H]
      /\ Reloc(L, W) = [va |-> V, virtual |-> W, raw |-> X, pointer |-> H + R]
  BY <1>1, <1>2, Zenon DEF Text, Reloc
<1>5. PICK Z \in Nat : Z = f.sizeOfImage
  BY <1>2, <1>3
<1>6. PICK h : /\ h = CopyHeaders(ZeroImage(Garbage(f)), f)
               /\ h = [r \in 0 .. Z - 1 |-> IF r < H THEN HeaderWord ELSE 0]
  <2>1. Filled(f, q, L, W)
    BY <1>3, <1>c, Zenon DEF Filled
  <2>2. RawSize(L) \in Nat /\ RawSize(W) \in Nat /\ L \in Nat
    BY <1>2
  <2>3. CopyHeaders(ZeroImage(Garbage(f)), f) =
           [r \in 0 .. Z - 1 |-> IF r < HeaderWords THEN HeaderWord ELSE 0]
    BY <1>5, <2>1, <2>2, HeadersCopied, Zenon
  <2> QED BY <1>1, <2>3, Zenon
<1>7. ASSUME NEW r \in P .. P + R - 1
      PROVE  f.words[H + r - P] = IF r - P + 1 \in 1 .. L THEN q[r - P + 1] ELSE 0
  <2>1. PICK x \in 0 .. R - 1 : x = r - P
    BY <1>a, <1>7
  <2>2. PICK w \in 0 .. H + R + X - 1 : w = H + r - P /\ w = H + x
    BY <1>a, <2>1
  <2>3. ~ (w < H) /\ w - H + 1 = x + 1 /\ r - P + 1 = x + 1 /\ w \notin H + R .. H + R + W - 1
          /\ (w < H + L <=> x + 1 \in 1 .. L)
    BY <1>a, <2>1, <2>2
  <2>4. FW[w] = FileWord(q, L, W, w)
    BY <1>d, <2>2
  <2>6. FileWord(q, L, W, w) = IF x + 1 \in 1 .. L THEN q[x + 1] ELSE 0
    BY <1>e, <2>3, Zenon
  <2> QED BY <1>3, <2>2, <2>3, <2>4, <2>6, Zenon
<1>8. ASSUME NEW r \in V .. V + X - 1
      PROVE  f.words[H + R + r - V] = IF r \in V .. V + W - 1 THEN RelocWord(r - V + 1) ELSE 0
  <2>1. PICK x \in 0 .. X - 1 : x = r - V
    BY <1>a, <1>8
  <2>2. PICK w \in 0 .. H + R + X - 1 : w = H + R + r - V /\ w = H + R + x
    BY <1>a, <2>1
  <2>3. ~ (w < H) /\ ~ (w < H + L) /\ w - H - R + 1 = x + 1 /\ r - V + 1 = x + 1
          /\ (w \in H + R .. H + R + W - 1 <=> r \in V .. V + W - 1)
    BY <1>a, <2>1, <2>2
  <2>4. FW[w] = FileWord(q, L, W, w)
    BY <1>d, <2>2
  <2>6. FileWord(q, L, W, w) = IF r \in V .. V + W - 1 THEN RelocWord(x + 1) ELSE 0
    BY <1>e, <2>3, Zenon
  <2> QED BY <1>3, <2>2, <2>3, <2>4, <2>6, Zenon
<1>f. PICK T1 : T1 = Text(L)
  OBVIOUS
<1>g. PICK T2 : T2 = Reloc(L, W)
  OBVIOUS
<1>9. PICK t : /\ t = WithSection(h, f, 1, clear)
               /\ t = [r \in 0 .. Z - 1 |->
                         IF r \in P .. P + R - 1 THEN f.words[H + r - P] ELSE h[r]]
  <2>1. f.sections[1] = T1
    BY <1>3, <1>f, <1>g
  <2>2. f.sections[1] = [va |-> P, virtual |-> L, raw |-> R, pointer |-> H]
    BY <1>4, <1>f, <2>1, Zenon
  <2>3. DOMAIN h = 0 .. Z - 1
    BY <1>6, Zenon
  <2>4. L \in Nat
    OBVIOUS
  <2>5. SectionIs(f, 1, P, L, R, H)
    BY <2>2 DEF SectionIs
  <2>6. WithSection(h, f, 1, clear) = Overlaid(h, f, Z, P, R, H)
    BY <1>a, <1>5, <2>3, <2>4, <2>5, SectionCopied
  <2> QED BY <2>6, Zenon DEF Overlaid
<1>10. ASSUME NEW r \in 0 .. Z - 1
       PROVE  t[r] = IF r - P + 1 \in 1 .. L THEN q[r - P + 1] ELSE IF r < H THEN HeaderWord ELSE 0
  <2>1. CASE r \in P .. P + R - 1
    <3>1. ~ (r < H)
      BY <1>a, <2>1
    <3>2. t[r] = f.words[H + r - P]
      BY <1>9, <2>1
    <3> QED BY <1>7, <2>1, <3>1, <3>2
  <2>2. CASE r \notin P .. P + R - 1
    <3>1. r - P + 1 \notin 1 .. L
      BY <1>a, <2>2
    <3>2. t[r] = h[r]
      BY <1>9, <2>2
    <3> QED BY <1>6, <3>1, <3>2
  <2> QED BY <2>1, <2>2
<1>11. CASE f.blocks = <<>>
  <2>1. ImageMemory(f, clear) = t
    <3>1. f.sections = <<T1>>
      BY <1>3, <1>11, <1>f, Zenon
    <3>2. Len(f.sections) = 1
      BY <3>1
    <3>3. CopySections(h, f, clear) = WithSection(h, f, 1, clear)
      BY <3>2, OneSection
    <3> QED BY <1>6, <1>9, <3>3, Zenon DEF ImageMemory
  <2>2. W = 0 /\ f.relocVa = 0
    BY <1>3, <1>11 DEF WordsFor
  <2>3. ASSUME NEW r \in 0 .. Z - 1 PROVE t[r] = ImageWord(q, L, W, f.relocVa, r)
    <3>1. r \notin 0 .. 0 + 0 - 1
      OBVIOUS
    <3> QED BY <1>1, <1>10, <2>2, <3>1 DEF ImageWord
  <2>4. t = [r \in 0 .. Z - 1 |-> ImageWord(q, L, W, f.relocVa, r)]
    BY <1>9, <2>3
  <2> QED BY <1>5, <2>1, <2>4, Zenon
<1>12. CASE f.blocks # <<>>
  <2>0. f.sections = <<T1, T2>>
    BY <1>3, <1>12, <1>f, <1>g, Zenon
  <2>1. PICK u : /\ u = WithSection(t, f, 2, clear)
                 /\ u = [r \in 0 .. Z - 1 |->
                           IF r \in V .. V + X - 1 THEN f.words[H + R + r - V] ELSE t[r]]
    <3>1. PICK HR \in Nat : HR = H + R
      OBVIOUS
    <3>2. f.sections[2] = T2
      BY <2>0
    <3>3. f.sections[2] = [va |-> V, virtual |-> W, raw |-> X, pointer |-> HR]
      BY <1>4, <1>g, <3>1, <3>2, Zenon
    <3>4. DOMAIN t = 0 .. Z - 1
      BY <1>9, Zenon
    <3>5. SectionIs(f, 2, V, W, X, HR)
      BY <3>3 DEF SectionIs
    <3>6. WithSection(t, f, 2, clear) = Overlaid(t, f, Z, V, X, HR)
      BY <1>a, <1>5, <3>1, <3>4, <3>5, SectionCopied
    <3> QED BY <3>1, <3>6, Zenon DEF Overlaid
  <2>2. ImageMemory(f, clear) = u
    <3>1. Len(f.sections) = 2
      BY <2>0
    <3>2. CopySections(h, f, clear) = WithSection(WithSection(h, f, 1, clear), f, 2, clear)
      BY <3>1, TwoSections
    <3> QED BY <1>6, <1>9, <2>1, <3>2, Zenon DEF ImageMemory
  <2>3. ASSUME NEW r \in 0 .. Z - 1 PROVE u[r] = ImageWord(q, L, W, V, r)
    <3>1. CASE r \in V .. V + X - 1
      <4>1. r - P + 1 \notin 1 .. L /\ ~ (r < H)
        BY <1>a, <3>1
      <4>2. u[r] = IF r \in V .. V + W - 1 THEN RelocWord(r - V + 1) ELSE 0
        BY <1>8, <2>1, <3>1
      <4> QED BY <1>1, <4>1, <4>2 DEF ImageWord
    <3>2. CASE r \notin V .. V + X - 1
      <4>1. r \notin V .. V + W - 1
        BY <1>a, <3>2
      <4>2. u[r] = t[r]
        BY <2>1, <3>2
      <4> QED BY <1>1, <1>10, <4>1, <4>2 DEF ImageWord
    <3> QED BY <3>1, <3>2
  <2>4. f.relocVa = V
    BY <1>3, <1>12
  <2>5. u = [r \in 0 .. Z - 1 |-> ImageWord(q, L, W, V, r)]
    BY <2>1, <2>3
  <2> QED BY <1>5, <2>2, <2>4, <2>5, Zenon
<1> QED BY <1>11, <1>12

-----------------------------------------------------------------------------
(***************************************************************************)
(* Relocation.                                                             *)
(***************************************************************************)

NatsTo(q, L) == \A i \in 1 .. L : q[i] \in Nat

(* Every word of the image is a number. *)
LEMMA ImageWordTyped ==
  ASSUME NEW q, NEW L \in Nat, NEW W \in Nat, NEW V \in Nat, NEW r \in Nat, NatsTo(q, L)
  PROVE  ImageWord(q, L, W, V, r) \in Int
<1>1. PICK P \in Nat : P = SectionRva
  BY Alignments
<1>2. HeaderWord \in Int /\ 0 \in Int /\ RelocWord(r - V + 1) \in Int
  BY DEF HeaderWord, RelocWord
<1>3. r - P + 1 \in 1 .. L => q[r - P + 1] \in Int
  <2>1. PICK i \in Int : i = r - P + 1
    OBVIOUS
  <2> QED BY <2>1 DEF NatsTo
<1> QED BY <1>1, <1>2, <1>3, Zenon DEF ImageWord

Imaged(m, q, L, W, V, Z) == m = [r \in 0 .. Z - 1 |-> ImageWord(q, L, W, V, r)]

(* Shifting the candidates of an image of the program linked at a base    *)
(* moves its words.                                                        *)
LEMMA Moved ==
  ASSUME NEW p, ProgramOK(p), NEW base \in Nat, NEW nb \in Nat,
         NEW Z \in Nat, NEW W \in Nat, NEW V \in Nat, NEW m,
         Imaged(m, LinkedAt(p, base), Len(p), W, V, Z)
  PROVE  /\ Words(m, Z)
         /\ Imaged(Shifted(m, Candidates(p, base), nb - base), MovedWords(p, base, nb), Len(p), W, V, Z)
<1>1. PICK L \in Nat \ {0} : L = Len(p)
  BY PayloadFacts
<1>2. PICK P \in Nat : P = SectionRva
  BY Alignments
<1>3. PICK q : q = LinkedAt(p, base)
  OBVIOUS
<1>4. PICK s : s = MovedWords(p, base, nb)
  OBVIOUS
<1> DEFINE Looks(i) == LooksLikeAddress(q[i], L, base)
<1>5. /\ DOMAIN p = 1 .. L /\ DOMAIN q = 1 .. L /\ Len(q) = L
      /\ \A i \in 1 .. L : q[i] \in Nat
  BY <1>1, <1>2, <1>3, PayloadFacts
<1>s. \A i \in 1 .. L : s[i] = IF Looks(i) THEN q[i] + (nb - base) ELSE q[i]
  <2>1. \A i \in 1 .. L : s[i] = MovedWord(p, base, nb, i)
    BY <1>4, <1>5 DEF MovedWords
  <2> QED BY <1>1, <1>3, <2>1, Zenon DEF MovedWord
<1>6. \A r \in 0 .. Z - 1 : m[r] = ImageWord(q, L, W, V, r) /\ m[r] \in Int
  <2>1. m = [r \in 0 .. Z - 1 |-> ImageWord(q, L, W, V, r)]
    BY <1>1, <1>3, Zenon DEF Imaged
  <2>2. NatsTo(q, L)
    BY <1>5 DEF NatsTo
  <2>3. ASSUME NEW r \in 0 .. Z - 1 PROVE m[r] = ImageWord(q, L, W, V, r) /\ m[r] \in Int
    <3>1. m[r] = ImageWord(q, L, W, V, r)
      BY <2>1, Zenon
    <3>2. r \in Nat /\ L \in Nat
      OBVIOUS
    <3>3. ImageWord(q, L, W, V, r) \in Int
      BY <2>2, <3>2, ImageWordTyped
    <3> QED BY <3>1, <3>3
  <2> QED BY <2>3
<1>7. Words(m, Z)
  BY <1>6 DEF Words, Imaged
<1>8. PICK A : A = Candidates(p, base)
  OBVIOUS
<1> HIDE DEF Looks
<1>9. ASSUME NEW r \in 0 .. Z - 1
      PROVE  r \in A <=> r - P + 1 \in 1 .. L /\ Looks(r - P + 1)
  <2>0. A = {P + i - 1 : i \in {j \in 1 .. L : Looks(j)}}
    BY <1>2, <1>3, <1>5, <1>8 DEF Candidates, CandidateRvas, Looks
  <2>1. ASSUME r \in A PROVE r - P + 1 \in 1 .. L /\ Looks(r - P + 1)
    <3>1. PICK i \in 1 .. L : Looks(i) /\ r = P + i - 1
      BY <2>0, <2>1
    <3>2. r - P + 1 = i
      BY <3>1
    <3> QED BY <3>1, <3>2
  <2>2. ASSUME r - P + 1 \in 1 .. L, Looks(r - P + 1) PROVE r \in A
    <3>1. PICK i \in 1 .. L : i = r - P + 1
      BY <2>2
    <3>2. Looks(i) /\ r = P + i - 1
      BY <2>2, <3>1
    <3> QED BY <2>0, <3>1, <3>2
  <2> QED BY <2>1, <2>2
<1>10. ASSUME NEW r \in 0 .. Z - 1
       PROVE  (IF r \in A THEN m[r] + (nb - base) ELSE m[r]) = ImageWord(s, L, W, V, r)
  <2>1. CASE r - P + 1 \in 1 .. L
    <3>1. PICK i \in 1 .. L : i = r - P + 1
      BY <2>1
    <3>2. m[r] = q[i] /\ ImageWord(s, L, W, V, r) = s[i]
      <4>1. r - SectionRva + 1 = i
        BY <1>2, <3>1
      <4> QED BY <1>6, <4>1 DEF ImageWord
    <3>3. r \in A <=> Looks(i)
      BY <1>9, <3>1
    <3>4. s[i] = IF Looks(i) THEN q[i] + (nb - base) ELSE q[i]
      BY <1>s, <3>1
    <3> QED BY <3>2, <3>3, <3>4, Zenon
  <2>2. CASE r - P + 1 \notin 1 .. L
    <3>1. r \notin A
      BY <1>9, <2>2
    <3>2. r - SectionRva + 1 \notin 1 .. L
      BY <1>2, <2>2
    <3>3. m[r] = ImageWord(q, L, W, V, r)
      BY <1>6
    <3>4. ImageWord(q, L, W, V, r) = ImageWord(s, L, W, V, r)
      BY <3>2, Zenon DEF ImageWord
    <3> QED BY <3>1, <3>3, <3>4, Zenon
  <2> QED BY <2>1, <2>2
<1>11. Shifted(m, A, nb - base) = [r \in 0 .. Z - 1 |-> IF r \in A THEN m[r] + (nb - base) ELSE m[r]]
  <2>1. DOMAIN m = 0 .. Z - 1
    BY DEF Imaged
  <2> QED BY <2>1 DEF Shifted
<1>12. Shifted(m, A, nb - base) = [r \in 0 .. Z - 1 |-> ImageWord(s, L, W, V, r)]
  BY <1>10, <1>11
<1> QED BY <1>1, <1>4, <1>7, <1>8, <1>12, Zenon DEF Imaged

(* The directory of a program's file, and where it reaches. *)
LEMMA DirectoryOf ==
  ASSUME NEW p, ProgramOK(p), NEW base \in Nat
  PROVE  \E pages : /\ Directory(AutoRelocBlocks(LinkedAt(p, base), base), pages, Candidates(p, base))
                    /\ ReachesTo(pages, RelocVa(Len(p)))
<1>1. PICK L \in Nat \ {0} : L = Len(p) /\ L = Len(LinkedAt(p, base))
  BY PayloadFacts
<1>2. PICK q : q = LinkedAt(p, base)
  OBVIOUS
<1>3. PICK A : A = Candidates(p, base) /\ A = CandidateRvas(q, base)
  BY <1>2, Zenon DEF Candidates
<1>4. PICK P \in Nat \ {0} : P = PageWords /\ P = SectionRva
  BY Alignments
<1>5. \A r \in A : r \in Nat /\ r < SectionRva + Len(q)
  BY <1>1, <1>2, <1>3, CandidatesInPayload
<1>6. PICK pages : Directory(AutoRelocBlocks(q, base), pages, A)
  BY <1>1, <1>2, <1>3, <1>5, DirectoryFacts
<1>7. PICK V \in Nat : V = RelocVa(L) /\ MultipleOf(V, P) /\ P + L <= V
  BY <1>4, Layout
<1>8. ASSUME NEW i \in 1 .. Len(pages) PROVE pages[i] + PageWords <= V
  <2>1. PICK r \in A : pages[i] = PageOf(r)
    BY <1>6, <1>8, Zenon DEF Directory
  <2>2. r \in Nat /\ r < P + L
    BY <1>1, <1>2, <1>4, <1>5
  <2>3. PICK x \in Nat : x = PageOf(r) /\ MultipleOf(x, P) /\ x <= r
    BY <1>4, <2>2, PageBounds
  <2>4. x < V
    BY <1>7, <2>2, <2>3
  <2>5. x + P <= V
    BY <1>7, <2>3, <2>4, MultiplesApart
  <2> QED BY <1>4, <2>1, <2>3, <2>5
<1>9. ReachesTo(pages, RelocVa(L))
  BY <1>7, <1>8 DEF ReachesTo
<1> QED BY <1>1, <1>2, <1>3, <1>6, <1>9, Zenon

PatchesTo(walk, m, f, q, L, W) ==
  /\ f.blocks = <<>> => walk = Stop(Walk(m))
  /\ f.blocks # <<>> => \E s : Imaged(s, q, L, W, f.relocVa, f.sizeOfImage) /\ walk = WalkAt(s, f.relocSize)

(* PatchImage of a file's image: refused without blocks, else moved. *)
LEMMA Patched ==
  ASSUME NEW p, ProgramOK(p), NEW base \in Nat, NEW nb \in Nat, NEW q, q = LinkedAt(p, base),
         NEW L \in Nat \ {0}, L = Len(p), NEW W \in Nat, NEW f, Laid(f, q, base, L, W),
         NEW pages, Directory(f.blocks, pages, Candidates(p, base)), ReachesTo(pages, RelocVa(L)),
         NEW whole, NEW m, Imaged(m, q, L, W, f.relocVa, f.sizeOfImage)
  PROVE  PatchesTo(PatchImage(m, f, nb - base, whole), m, f, MovedWords(p, base, nb), L, W)
<1>1. PICK V \in Nat, E \in Nat : V = RelocVa(L) /\ E = ImageEnd(L, W) /\ PageWords + L <= V /\ V + W <= E
  BY Layout
<1>2. /\ f.blocks # <<>> => f.relocVa = V /\ f.sizeOfImage = E
      /\ f.blocks = <<>> => f.relocVa = 0
      /\ f.relocSize = DirectorySize(f.blocks) /\ f.relocWords = W
  BY <1>1, Zenon DEF Laid
<1>3. CASE f.blocks = <<>>
  BY <1>2, <1>3, Zenon DEF PatchImage, PatchesTo
<1>4. CASE f.blocks # <<>>
  <2>0. f.relocVa = V /\ f.sizeOfImage = E
    BY <1>2, <1>4
  <2>1. Imaged(m, q, L, W, V, E)
    BY <2>0, Zenon
  <2>2. PICK A : A = Candidates(p, base)
    OBVIOUS
  <2>3. Words(m, E) /\ Imaged(Shifted(m, A, nb - base), MovedWords(p, base, nb), L, W, V, E)
    <3>1. Imaged(m, LinkedAt(p, base), Len(p), W, V, E)
      BY <2>1, Zenon
    <3> QED BY <2>2, <3>1, Moved, Zenon
  <2>4. PICK P \in Nat \ {0} : P = PageWords /\ P = SectionRva /\ HeaderWords <= P
    BY Alignments
  <2>5. Inside(A, E)
    <3>1. \A r \in A : r \in Nat /\ r < P + L
      BY <2>2, <2>4, CandidatesInPayload
    <3> QED BY <1>1, <2>4, <3>1 DEF Inside
  <2>6. DirectoryLoaded(m, f)
    <3>1. ASSUME NEW i \in 1 .. W PROVE m[V + i - 1] = RelocWord(i)
      <4>1. PICK r \in 0 .. E - 1 : r = V + i - 1
        BY <1>1
      <4>2. r - P + 1 \notin 1 .. L /\ ~ (r < HeaderWords) /\ r \in V .. V + W - 1 /\ r - V + 1 = i
        <5>1. PICK H \in Nat : H = HeaderWords
          BY Alignments
        <5>2. V \in Nat /\ P \in Nat /\ P + L <= V /\ H <= P
          BY <1>1, <2>4, <5>1, Zenon
        <5>3. r - P + 1 \notin 1 .. L /\ ~ (r < H) /\ r \in V .. V + W - 1 /\ r - V + 1 = i
          BY <4>1, <5>2
        <5> QED BY <5>1, <5>3, Zenon
      <4>3. m[r] = ImageWord(q, L, W, V, r)
        BY <2>1 DEF Imaged
      <4> QED BY <2>4, <4>1, <4>2, <4>3, Zenon DEF ImageWord
    <3> QED BY <1>2, <2>0, <3>1, Zenon DEF DirectoryLoaded
  <2>7. f.relocSize >= BlockHeader
    BY <1>2, <1>4, RelocWordsFacts, Zenon
  <2>8. PatchImage(m, f, nb - base, whole) = PatchBlocks(Walk(m), f, nb - base, whole)
    <3>1. V # 0 /\ ~ (V + W > E)
      BY <1>1, <2>4
    <3>2. f.relocSize \in Nat
      <4>1. DirectorySize(f.blocks) \in Nat
        BY RelocWordsFacts, Zenon
      <4> QED BY <1>2, <4>1
    <3>3. ~ (f.relocSize < BlockHeader)
      BY <2>7, <3>2 DEF BlockHeader
    <3> QED BY <1>2, <2>0, <2>6, <3>1, <3>3, Zenon DEF PatchImage
  <2>9. ReachesTo(pages, E)
    <3>1. pages \in Seq(Nat)
      BY DEF Directory
    <3>2. V <= E /\ PageWords \in Nat
      BY <1>1, <2>4
    <3>3. ASSUME NEW i \in 1 .. Len(pages) PROVE pages[i] + PageWords <= E
      <4>1. pages[i] + PageWords <= V
        BY <1>1, <3>3, Zenon DEF ReachesTo
      <4>2. pages[i] \in Nat
        BY <3>1
      <4> QED BY <3>2, <4>1, <4>2
    <3> QED BY <3>3 DEF ReachesTo
  <2>10. PatchBlocks(Walk(m), f, nb - base, whole) = WalkAt(Shifted(m, A, nb - base), f.relocSize)
    <3>1. PICK d \in Int : d = nb - base
      OBVIOUS
    <3>2. PatchBlocks(Walk(m), f, d, whole) = WalkAt(Shifted(m, A, d), f.relocSize)
      <4>1. Directory(f.blocks, pages, A) /\ Words(m, E) /\ f.sizeOfImage = E
              /\ f.relocSize = DirectorySize(f.blocks)
        BY <1>2, <2>0, <2>2, <2>3, Zenon
      <4> QED BY <2>5, <2>9, <4>1, BlocksShift
    <3> QED BY <3>1, <3>2, Zenon
  <2>11. PICK s : s = Shifted(m, A, nb - base)
    OBVIOUS
  <2> QED BY <1>4, <2>0, <2>3, <2>8, <2>10, <2>11, Zenon DEF PatchesTo
<1> QED BY <1>3, <1>4

-----------------------------------------------------------------------------
(***************************************************************************)
(* The loaders.                                                            *)
(***************************************************************************)
Packing(f, p, base, L, W, pages) ==
  /\ Laid(f, LinkedAt(p, base), base, L, W)
  /\ L \in Nat \ {0} /\ L = Len(p) /\ W \in Nat
  /\ f.blocks = <<>> => W = 0
  /\ f.blocks # <<>> => W > 0
  /\ Directory(f.blocks, pages, Candidates(p, base)) /\ ReachesTo(pages, RelocVa(L))

PacksAs(F, p, base, sub, L, W, pages) ==
  /\ Packing(F, p, base, L, W, pages) /\ F.subsystem = sub /\ F.size = FullSize(L, W)
  /\ \A n : /\ Packing(CutTo(F, n), p, base, L, W, pages)
            /\ CutTo(F, n).subsystem = sub /\ CutTo(F, n).size = n

(* What the packer makes of a program, whole or cut. *)
LEMMA PackPacks ==
  ASSUME NEW p, ProgramOK(p), NEW base \in Nat, NEW sub, NEW F, F = Pack(p, base, sub)
  PROVE  \E L, W, pages : PacksAs(F, p, base, sub, L, W, pages)
<1>1. PICK q : q = LinkedAt(p, base)
  OBVIOUS
<1>2. PICK L \in Nat \ {0} : L = Len(p) /\ L = Len(q)
  BY <1>1, PayloadFacts
<1>3. PICK blocks : blocks = AutoRelocBlocks(q, base)
  OBVIOUS
<1>4. PICK pages : Directory(blocks, pages, Candidates(p, base)) /\ ReachesTo(pages, RelocVa(L))
  BY <1>1, <1>2, <1>3, DirectoryOf, Zenon
<1>5. PICK W \in Nat : W = RelocWords(blocks) /\ (blocks = <<>> => W = 0) /\ (blocks # <<>> => W > 0)
  BY <1>4, RelocWordsFacts, Zenon
<1>6. /\ Laid(F, q, base, L, W) /\ F.subsystem = sub /\ F.size = FullSize(L, W)
      /\ CutsLaid(F, q, base, L, W, sub)
  <2>1. W = RelocWords(AutoRelocBlocks(q, base)) /\ L = Len(q)
    BY <1>2, <1>3, <1>5, Zenon
  <2> QED BY <1>1, <2>1, PackLaid
<1>7. ASSUME NEW f, Laid(f, q, base, L, W) PROVE Packing(f, p, base, L, W, pages)
  <2>1. f.blocks = blocks
    BY <1>3, <1>7, Zenon DEF Laid
  <2> QED BY <1>1, <1>2, <1>4, <1>5, <1>7, <2>1, Zenon DEF Packing
<1> QED BY <1>6, <1>7, Zenon DEF CutsLaid, PacksAs

(* An image with the right words runs where it is loaded. *)
LEMMA ImagedRuns ==
  ASSUME NEW p, ProgramOK(p), NEW base, NEW nb \in Nat, NEW L, L = Len(p), NEW W \in Nat, NEW V \in Nat, NEW Z \in Nat,
         NEW s, NEW w, Imaged(s, w, L, W, V, Z), ReadRight(p, base, nb, w), NEW c,
         NEW f, f.sizeOfImage = Z, f.entry = SectionRva,
         NEW F, F.imageBase = base, F.relocVa = V, F.relocWords = W, NEW image, image = Loaded(WalkAt(s, c), f, nb)
  PROVE  image.ok /\ RunsAt(p, F, image)
<1>1. PICK o : o = TRUE
  OBVIOUS
<1>2. PICK walk : walk = WalkAt(s, c)
  OBVIOUS
<1>3. walk = [ok |-> o, memory |-> s, cursor |-> c]
  BY <1>1, <1>2, Zenon DEF WalkAt
<1>4. walk.ok = o /\ walk.memory = s
  BY <1>3
<1>5. walk.ok
  BY <1>1, <1>4, Zenon
<1>6. image = [ok |-> o, base |-> nb, size |-> Z, entry |-> nb + SectionRva, memory |-> s]
  BY <1>1, <1>2, <1>4, <1>5, Zenon DEF Loaded
<1>7. image.ok = o /\ image.base = nb /\ image.size = Z /\ image.entry = nb + SectionRva /\ image.memory = s
  BY <1>6
<1>8. DOMAIN p = 1 .. L
  BY PayloadFacts
<1>9. ASSUME NEW r \in 0 .. Z - 1
      PROVE  IF r - SectionRva + 1 \in DOMAIN p
             THEN nb = base \/ PackerReads(p, r - SectionRva + 1, base)
                    => s[r] = LinkedAt(p, nb)[r - SectionRva + 1]
             ELSE IF r < HeaderWords THEN s[r] = HeaderWord
             ELSE IF r \in V .. V + W - 1 THEN s[r] = RelocWord(r - V + 1)
             ELSE s[r] = 0
  <2>1. s[r] = ImageWord(w, L, W, V, r)
    BY Zenon DEF Imaged
  <2>2. CASE r - SectionRva + 1 \in DOMAIN p
    <3>1. s[r] = w[r - SectionRva + 1]
      BY <1>8, <2>1, <2>2, Zenon DEF ImageWord
    <3> QED BY <2>2, <3>1, Zenon DEF ReadRight
  <2>3. CASE r - SectionRva + 1 \notin DOMAIN p
    BY <1>8, <2>1, <2>3, Zenon DEF ImageWord
  <2> QED BY <2>2, <2>3, Zenon
<1>10. RunsAt(p, F, image)
  BY <1>7, <1>9, Zenon DEF RunsAt
<1> QED BY <1>1, <1>7, <1>10, Zenon

(* A walk that stopped gives no image. *)
LEMMA StoppedRefused ==
  ASSUME NEW m, NEW f, NEW nb
  PROVE  ~ Loaded(Stop(Walk(m)), f, nb).ok /\ ~ Refused.ok
<1>1. PICK o, z : o = TRUE /\ z = FALSE
  OBVIOUS
<1>2. PICK walk : walk = Walk(m)
  OBVIOUS
<1>3. walk = [ok |-> o, memory |-> m, cursor |-> 0]
  BY <1>1, <1>2, Zenon DEF Walk
<1>4. [walk EXCEPT !.ok = z].ok = z
  BY <1>3
<1>5. Stop(walk) = [walk EXCEPT !.ok = z]
  BY <1>1, Zenon DEF Stop
<1>6. Stop(walk).ok = z
  BY <1>4, <1>5, Zenon
<1>7. Refused = [ok |-> z, base |-> 0, size |-> 0, entry |-> 0, memory |-> <<>>]
  BY <1>1, Zenon DEF Refused
<1>8. Refused.ok = z
  BY <1>7
<1>9. Loaded(Stop(walk), f, nb) = Refused
  BY <1>1, <1>6, Zenon DEF Loaded
<1> QED BY <1>1, <1>2, <1>8, <1>9, Zenon

RelocatedTo(walk, f, base, nb, clear, whole) ==
  /\ nb = base => walk = Walk(ImageMemory(f, clear))
  /\ nb # base => walk = PatchImage(ImageMemory(f, clear), f, nb - base, whole)

(* Either loader, once it accepted the headers. *)
LEMMA Placed ==
  ASSUME NEW p, ProgramOK(p), NEW base \in Nat, NEW nb \in Nat, NEW L, NEW W, NEW pages,
         NEW f, Packing(f, p, base, L, W, pages), NEW F, Packing(F, p, base, L, W, pages),
         NEW n \in Nat, f.size = n, HeaderWords <= n, NEW clear \in BOOLEAN, NEW whole, NEW walk,
         RelocatedTo(walk, f, base, nb, clear, whole),
         NEW image, image = Loaded(walk, f, nb)
  PROVE  (image.ok => RunsAt(p, F, image)) /\ (nb = base \/ F.blocks # <<>> => image.ok)
<1>1. PICK q : q = LinkedAt(p, base)
  OBVIOUS
<1>2. /\ L \in Nat \ {0} /\ L = Len(p) /\ W \in Nat /\ (f.blocks = <<>> => W = 0)
      /\ Laid(f, q, base, L, W) /\ Laid(F, q, base, L, W)
      /\ Directory(f.blocks, pages, Candidates(p, base)) /\ ReachesTo(pages, RelocVa(L))
  BY <1>1, Zenon DEF Packing
<1>3. PICK V \in Nat, E \in Nat : V = RelocVa(L) /\ E = ImageEnd(L, W)
  BY <1>2, Layout
<1>4. /\ f.blocks # <<>> => f.relocVa = V /\ f.sizeOfImage = E
      /\ f.blocks = <<>> => f.relocVa = 0 /\ f.sizeOfImage = V
      /\ F.blocks # <<>> => F.relocVa = V
      /\ F.blocks = <<>> => F.relocVa = 0
      /\ F.blocks = f.blocks /\ f.entry = SectionRva /\ F.relocWords = W /\ F.imageBase = base
  BY <1>2, <1>3, Zenon DEF Laid
<1>5. PICK Z \in Nat, U \in Nat : f.sizeOfImage = Z /\ f.relocVa = U /\ F.relocVa = U
  <2>1. CASE f.blocks = <<>>
    BY <1>3, <1>4, <2>1
  <2>2. CASE f.blocks # <<>>
    BY <1>3, <1>4, <2>2
  <2> QED BY <2>1, <2>2
<1>6. PICK m : m = ImageMemory(f, clear)
  OBVIOUS
<1>7. Imaged(m, q, L, W, U, Z) /\ Imaged(m, q, L, W, f.relocVa, f.sizeOfImage)
  <2>1. ImageMemory(f, clear) = [r \in 0 .. f.sizeOfImage - 1 |-> ImageWord(q, L, W, f.relocVa, r)]
    <3>1. L \in Nat \ {0} /\ W \in Nat /\ Laid(f, q, base, L, W) /\ WordsFor(f.blocks, W)
      BY <1>2 DEF WordsFor
    <3> QED BY <3>1, ImageCopied
  <2> QED BY <1>5, <1>6, <2>1, Zenon DEF Imaged
<1>8. CASE nb = base
  <2>1. walk = WalkAt(m, 0)
    BY <1>6, <1>8, Zenon DEF RelocatedTo, Walk, WalkAt
  <2>2. image = Loaded(WalkAt(m, 0), f, nb)
    BY <2>1, Zenon
  <2>3. Imaged(m, q, L, W, U, Z) /\ ReadRight(p, base, nb, q)
    BY <1>1, <1>7, <1>8, Zenon DEF ReadRight
  <2>4. image.ok /\ RunsAt(p, F, image)
    <3>1. L = Len(p) /\ W \in Nat /\ f.sizeOfImage = Z /\ f.entry = SectionRva
            /\ F.relocVa = U /\ F.relocWords = W /\ F.imageBase = base
      BY <1>2, <1>4, <1>5
    <3> QED BY <2>2, <2>3, <3>1, ImagedRuns
  <2> QED BY <2>4
<1>9. CASE nb # base
  <2>1. walk = PatchImage(m, f, nb - base, whole)
    BY <1>6, <1>9, Zenon DEF RelocatedTo
  <2>2. /\ f.blocks = <<>> => walk = Stop(Walk(m))
        /\ f.blocks # <<>> => \E s : /\ Imaged(s, MovedWords(p, base, nb), L, W, f.relocVa, f.sizeOfImage)
                                     /\ walk = WalkAt(s, f.relocSize)
    <3>1. L \in Nat \ {0} /\ L = Len(p) /\ W \in Nat /\ Laid(f, q, base, L, W)
            /\ Directory(f.blocks, pages, Candidates(p, base)) /\ ReachesTo(pages, RelocVa(L))
            /\ Imaged(m, q, L, W, f.relocVa, f.sizeOfImage)
      BY <1>2, <1>7
    <3>2. PatchesTo(PatchImage(m, f, nb - base, whole), m, f, MovedWords(p, base, nb), L, W)
      BY <1>1, <3>1, Patched
    <3> QED BY <2>1, <3>2, Zenon DEF PatchesTo
  <2>3. CASE f.blocks = <<>>
    <3>1. image = Loaded(Stop(Walk(m)), f, nb)
      BY <2>2, <2>3
    <3>2. ~ image.ok
      BY <3>1, StoppedRefused
    <3> QED BY <1>4, <1>9, <2>3, <3>2
  <2>4. CASE f.blocks # <<>>
    <3>1. PICK s, c : Imaged(s, MovedWords(p, base, nb), L, W, U, Z) /\ walk = WalkAt(s, c)
      BY <1>5, <2>2, <2>4, Zenon
    <3>2. image = Loaded(WalkAt(s, c), f, nb)
      BY <3>1
    <3>3. image.ok /\ RunsAt(p, F, image)
      <4>0. ReadRight(p, base, nb, MovedWords(p, base, nb))
        BY <1>9, MovedReadsRight
      <4>1. L = Len(p) /\ W \in Nat /\ f.sizeOfImage = Z /\ f.entry = SectionRva
              /\ F.relocVa = U /\ F.relocWords = W /\ F.imageBase = base
        BY <1>2, <1>4, <1>5
      <4> QED BY <3>1, <3>2, <4>0, <4>1, ImagedRuns
    <3> QED BY <3>3
  <2> QED BY <2>3, <2>4
<1> QED BY <1>8, <1>9

SectionsFit(f) ==
  \A i \in DOMAIN f.sections :
    LET s == f.sections[i]
    IN  s.va < f.sizeOfImage /\ s.va + AlignUp64(s.virtual, PageWords) <= f.sizeOfImage

(* One section of a complete file passes every check of both loaders. *)
SectionGood(s, F, Z) ==
  /\ s.va < Z /\ s.va + AlignUp64(s.virtual, PageWords) <= Z
  /\ FileRangeValid(F, s.pointer, s.raw) /\ s.va + s.raw <= Z

(* A complete file passes every check. *)
LEMMA FileAccepted ==
  ASSUME NEW p, NEW base, NEW L, NEW W, NEW pages, NEW f, Packing(f, p, base, L, W, pages),
         f.size = FullSize(L, W)
  PROVE  /\ f.size \in Nat /\ f.size >= HeaderWords /\ f.entry < f.sizeOfImage
         /\ SectionsFit(f) /\ RawDataInFile(f) /\ SectionInImage(f)
<1>1. /\ L \in Nat \ {0} /\ W \in Nat /\ (f.blocks # <<>> => W > 0)
      /\ Laid(f, LinkedAt(p, base), base, L, W)
  BY Zenon DEF Packing
<1>2. PICK H \in Nat, P \in Nat \ {0} : H = HeaderWords /\ P = SectionRva /\ P = PageWords
  BY Alignments
<1>3. PICK R \in Nat, X \in Nat, V \in Nat, E \in Nat, Y \in Nat, A \in Nat :
        /\ R = RawSize(L) /\ X = RawSize(W) /\ V = RelocVa(L) /\ E = ImageEnd(L, W)
        /\ Y = AlignUp64(L, PageWords) /\ A = AlignUp64(W, PageWords)
  BY <1>1, <1>2, Layout, AlignUpBounds
<1>4. /\ L <= R /\ P + R <= V /\ V + X <= E /\ V + W <= E /\ P + Y <= V /\ V + A <= E /\ P + L <= V
  BY <1>1, <1>2, <1>3, Layout
<1>5. PICK F \in Nat : F = H + R + X /\ F = f.size
  BY <1>2, <1>3 DEF FullSize
<1>6. PICK T1, T2 : T1 = Text(L) /\ T2 = Reloc(L, W)
  OBVIOUS
<1>7. /\ T1.va = P /\ T1.virtual = L /\ T1.raw = R /\ T1.pointer = H
      /\ T2.va = V /\ T2.virtual = W /\ T2.raw = X /\ T2.pointer = H + R
  BY <1>2, <1>3, <1>6 DEF Text, Reloc
<1>8. /\ f.blocks # <<>> => f.sections = <<T1, T2>> /\ f.sizeOfImage = E
      /\ f.blocks = <<>> => f.sections = <<T1>> /\ f.sizeOfImage = V
      /\ f.entry = P
  BY <1>1, <1>2, <1>3, <1>6, Zenon DEF Laid
<1>9. PICK Z \in Nat : f.sizeOfImage = Z /\ V <= Z /\ (f.blocks # <<>> => Z = E)
  <2>1. V <= E
    BY <1>3, <1>4
  <2> QED BY <1>3, <1>8, <2>1
<1>n. /\ H \in Nat /\ P \in Nat /\ R \in Nat /\ X \in Nat /\ V \in Nat /\ E \in Nat /\ Y \in Nat /\ A \in Nat
      /\ F \in Nat /\ F = H + R + X /\ Z \in Nat /\ V <= Z /\ L \in Nat /\ L # 0 /\ W \in Nat
      /\ P + R <= V /\ V + X <= E /\ V + W <= E /\ P + Y <= V /\ V + A <= E /\ P + L <= V
  BY <1>1, <1>2, <1>3, <1>4, <1>5, <1>9, Zenon
<1>10. SectionGood(T1, F, Z)
  <2>1. P < Z /\ P + Y <= Z /\ H <= F /\ R <= F - H /\ P + R <= Z
    BY <1>n
  <2> QED BY <1>3, <1>7, <2>1, Zenon DEF SectionGood, FileRangeValid
<1>11. f.blocks # <<>> => SectionGood(T2, F, Z)
  <2>1. ASSUME f.blocks # <<>> PROVE V < Z /\ V + A <= Z /\ H + R <= F /\ X <= F - (H + R) /\ V + X <= Z
    <3>1. W > 0 /\ Z = E
      BY <1>1, <1>9, <2>1
    <3> QED BY <1>n, <3>1
  <2> QED BY <1>3, <1>7, <2>1, Zenon DEF SectionGood, FileRangeValid
<1>12. \A i \in DOMAIN f.sections : SectionGood(f.sections[i], F, Z)
  <2>1. CASE f.blocks = <<>>
    <3>1. f.sections = <<T1>>
      BY <1>8, <2>1
    <3>2. DOMAIN f.sections = {1} /\ f.sections[1] = T1
      BY <3>1
    <3> QED BY <1>10, <3>2
  <2>2. CASE f.blocks # <<>>
    <3>1. f.sections = <<T1, T2>>
      BY <1>8, <2>2
    <3>2. DOMAIN f.sections = {1, 2} /\ f.sections[1] = T1 /\ f.sections[2] = T2
      BY <3>1
    <3> QED BY <1>10, <1>11, <2>2, <3>2
  <2> QED BY <2>1, <2>2
<1>13. SectionsFit(f) /\ RawDataInFile(f) /\ SectionInImage(f)
  BY <1>5, <1>9, <1>12, Zenon DEF SectionGood, SectionsFit, RawDataInFile, SectionInImage
<1>14. f.size \in Nat /\ f.size >= HeaderWords
  BY <1>2, <1>3, <1>5
<1>15. f.entry < f.sizeOfImage
  <2>1. P < Z
    BY <1>n
  <2> QED BY <1>8, <1>9, <2>1, Zenon
<1> QED BY <1>13, <1>14, <1>15

(* LoadKpeImage of a packed program. *)
LEMMA KernelLoads ==
  ASSUME NEW p, ProgramOK(p), NEW base \in Nat, NEW F, F = Pack(p, base, "KERNEL"), NEW n \in Nat,
         NEW nb \in Nat, NEW image, image = LoadKpeImageAt(CutTo(F, n), nb)
  PROVE  /\ image.ok => RunsAt(p, F, image)
         /\ Complete(F, n, nb) => image.ok
<1>0. PICK L, W, pages : PacksAs(F, p, base, "KERNEL", L, W, pages)
  BY PackPacks
<1>1. Packing(F, p, base, L, W, pages) /\ F.size = FullSize(L, W)
  BY <1>0, Zenon DEF PacksAs
<1>2. PICK f : f = CutTo(F, n)
  OBVIOUS
<1>3. Packing(f, p, base, L, W, pages) /\ f.subsystem = "KERNEL" /\ f.size = n
  BY <1>0, <1>2, Zenon DEF PacksAs
<1>4. f.imageBase = base /\ F.imageBase = base
  BY <1>1, <1>3, Zenon DEF Packing, Laid
<1>5. CASE ~ ValidateKpeImage(f)
  <2>1. image = Refused
    BY <1>2, <1>5, Zenon DEF LoadKpeImageAt
  <2>2. ~ image.ok
    BY <2>1, StoppedRefused, Zenon
  <2>3. n # F.size
    <3>1. SUFFICES ASSUME n = F.size PROVE ValidateKpeImage(f)
      BY <1>5
    <3>2. f.size = FullSize(L, W)
      BY <1>1, <1>3, <3>1, Zenon
    <3>3. /\ f.size >= HeaderWords /\ f.entry < f.sizeOfImage
          /\ SectionsFit(f) /\ RawDataInFile(f)
      BY <1>3, <3>2, FileAccepted, Zenon
    <3> QED BY <1>3, <3>3, Zenon DEF ValidateKpeImage, HeadersValid, SectionsFit
  <2> QED BY <2>2, <2>3, Zenon DEF Complete
<1>6. CASE ValidateKpeImage(f)
  <2>1. HeaderWords <= n
    <3>1. f.size >= HeaderWords
      BY <1>6, Zenon DEF ValidateKpeImage, HeadersValid
    <3> QED BY <1>3, <3>1
  <2>2. PICK walk : walk = ApplyKpeBaseRelocations(ImageMemory(f, TRUE), f, nb)
    OBVIOUS
  <2>3. /\ nb = base => walk = Walk(ImageMemory(f, TRUE))
        /\ nb # base => walk = PatchImage(ImageMemory(f, TRUE), f, nb - base, FALSE)
    BY <1>4, <2>2, Zenon DEF ApplyKpeBaseRelocations
  <2>4. image = Loaded(walk, f, nb)
    BY <1>2, <1>6, <2>2, Zenon DEF LoadKpeImageAt, ImageMemory
  <2>5. (image.ok => RunsAt(p, F, image)) /\ (nb = base \/ F.blocks # <<>> => image.ok)
    <3>1. PICK t, z : t = TRUE /\ z = FALSE
      OBVIOUS
    <3>2. RelocatedTo(walk, f, base, nb, t, z)
      BY <2>3, <3>1, Zenon DEF RelocatedTo
    <3>3. t \in BOOLEAN
      BY <3>1, Zenon
    <3> QED BY <1>1, <1>3, <2>1, <2>4, <3>2, <3>3, Placed
  <2> QED BY <1>4, <2>5, Zenon DEF Complete
<1> QED BY <1>5, <1>6

(* PsSpawnUserKpeFromBuffer of a packed program. *)
LEMMA UserLoads ==
  ASSUME NEW p, ProgramOK(p), NEW base \in Nat, NEW F, F = Pack(p, base, "USER"), NEW n \in Nat,
         PageOf(base) > 0, PageOf(base) + F.sizeOfImage < UserTop,
         NEW image, image = SpawnUserKpe(CutTo(F, n))
  PROVE  /\ image.ok => RunsAt(p, F, image)
         /\ Complete(F, n, PreferredImageBase(F)) /\ n <= ImageMaxSize => image.ok
<1>0. PICK L, W, pages : PacksAs(F, p, base, "USER", L, W, pages)
  BY PackPacks
<1>1. Packing(F, p, base, L, W, pages) /\ F.size = FullSize(L, W)
  BY <1>0, Zenon DEF PacksAs
<1>2. PICK f : f = CutTo(F, n)
  OBVIOUS
<1>3. Packing(f, p, base, L, W, pages) /\ f.subsystem = "USER" /\ f.size = n
  BY <1>0, <1>2, Zenon DEF PacksAs
<1>4. f.imageBase = base /\ F.imageBase = base /\ f.dynamicBase
  BY <1>1, <1>3, Zenon DEF Packing, Laid
<1>5. PICK nb \in Nat : nb = PageOf(base)
  BY PageBounds
<1>6. PreferredImageBase(f) = nb /\ PreferredImageBase(F) = nb
  BY <1>4, <1>5, Zenon DEF PreferredImageBase
<1>7. PICK Z \in Nat : f.sizeOfImage = Z /\ F.sizeOfImage = Z
  <2>1. L \in Nat \ {0} /\ W \in Nat /\ Laid(f, LinkedAt(p, base), base, L, W)
          /\ Laid(F, LinkedAt(p, base), base, L, W)
    BY <1>1, <1>3, Zenon DEF Packing
  <2>2. RelocVa(L) \in Nat /\ ImageEnd(L, W) \in Nat
    BY <2>1, Layout
  <2>3. f.blocks = F.blocks
    BY <2>1, Zenon DEF Laid
  <2>4. /\ f.blocks # <<>> => f.sizeOfImage = ImageEnd(L, W)
        /\ f.blocks = <<>> => f.sizeOfImage = RelocVa(L)
    BY <2>1, Zenon DEF Laid
  <2>5. /\ F.blocks # <<>> => F.sizeOfImage = ImageEnd(L, W)
        /\ F.blocks = <<>> => F.sizeOfImage = RelocVa(L)
    BY <2>1, Zenon DEF Laid
  <2> QED BY <2>2, <2>3, <2>4, <2>5, Zenon
<1> DEFINE Rejects == \/ n > ImageMaxSize
                      \/ ~ HeadersValid(f, "USER") \/ ~ RawDataInFile(f) \/ ~ SectionInImage(f)
                      \/ nb = 0 \/ nb + Z >= UserTop
<1>8. CASE Rejects
  <2>1. image = Refused
    BY <1>2, <1>3, <1>6, <1>7, <1>8, Zenon DEF SpawnUserKpe
  <2>2. ~ image.ok
    BY <2>1, StoppedRefused, Zenon
  <2>3. n # F.size \/ n > ImageMaxSize
    <3>1. SUFFICES ASSUME n = F.size, ~ (n > ImageMaxSize) PROVE ~ Rejects
      BY <1>8
    <3>2. f.size = FullSize(L, W)
      BY <1>1, <1>3, <3>1, Zenon
    <3>3. /\ f.size >= HeaderWords /\ f.entry < f.sizeOfImage
          /\ RawDataInFile(f) /\ SectionInImage(f)
      BY <1>3, <3>2, FileAccepted, Zenon
    <3>4. HeadersValid(f, "USER")
      BY <1>3, <3>3, Zenon DEF HeadersValid
    <3>5. nb # 0 /\ ~ (nb + Z >= UserTop)
      <4>1. UserTop \in Nat
        BY KpeConstants
      <4> QED BY <1>5, <1>7, <4>1
    <3> QED BY <3>1, <3>3, <3>4, <3>5
  <2>4. n > ImageMaxSize => ~ (n <= ImageMaxSize)
    BY KpeConstants
  <2> QED BY <2>2, <2>3, <2>4, Zenon DEF Complete
<1>9. CASE ~ Rejects
  <2>1. HeaderWords <= n
    <3>1. f.size >= HeaderWords
      BY <1>9, Zenon DEF HeadersValid
    <3> QED BY <1>3, <3>1
  <2>2. PICK walk : walk = PspApplyUserKpeRelocations(ImageMemory(f, FALSE), f, nb)
    OBVIOUS
  <2>3. /\ nb = base => walk = Walk(ImageMemory(f, FALSE))
        /\ nb # base => walk = PatchImage(ImageMemory(f, FALSE), f, nb - base, TRUE)
    BY <1>4, <2>2, Zenon DEF PspApplyUserKpeRelocations
  <2>4. image = Loaded(walk, f, nb)
    BY <1>2, <1>3, <1>6, <1>7, <1>9, <2>2, Zenon DEF SpawnUserKpe, ImageMemory
  <2>5. (image.ok => RunsAt(p, F, image)) /\ (nb = base \/ F.blocks # <<>> => image.ok)
    <3>1. PICK t, z : t = FALSE /\ z = TRUE
      OBVIOUS
    <3>2. RelocatedTo(walk, f, base, nb, t, z)
      BY <2>3, <3>1, Zenon DEF RelocatedTo
    <3>3. t \in BOOLEAN
      BY <3>1, Zenon
    <3> QED BY <1>1, <1>3, <2>1, <2>4, <3>2, <3>3, Placed
  <2> QED BY <1>4, <1>6, <2>5, Zenon DEF Complete
<1> QED BY <1>8, <1>9

Sound(image) == (image.ok => image.runs) /\ (image.due => image.ok)

(* What is kept of a loaded image. *)
LEMMA OutcomeSound ==
  ASSUME NEW p, NEW F, NEW due \in BOOLEAN, NEW image,
         image.ok => RunsAt(p, F, image),
         due => image.ok
  PROVE  Sound(Outcome(p, F, due, image))
<1>1. PICK t, a, b, c : /\ t = TRUE /\ a = image.ok
                        /\ b = due
                        /\ c = (image.ok /\ RunsAt(p, F, image))
  OBVIOUS
<1>2. PICK o : o = Outcome(p, F, due, image)
  OBVIOUS
<1>3. o = [tried |-> t, ok |-> a, due |-> b, runs |-> c]
  BY <1>1, <1>2, Zenon DEF Outcome
<1>4. o.ok = a /\ o.due = b /\ o.runs = c
  BY <1>3
<1>5. (a => c) /\ (b => a)
  BY <1>1, Zenon
<1>6. Sound(o)
  BY <1>4, <1>5, Zenon DEF Sound
<1> QED BY <1>2, <1>6, Zenon

(* The files there are. *)
LEMMA ProgramsOK ==
  /\ \A p \in KernelPrograms \cup InitPrograms : ProgramOK(p)
  /\ KernelImageBases \subseteq Nat /\ InitBases \subseteq Nat /\ FreeBases \subseteq Nat
  /\ \A p \in InitPrograms, base \in InitBases :
       PageOf(base) > 0 /\ PageOf(base) + Pack(p, base, "USER").sizeOfImage < UserTop
BY ProgramAssumption, Zenon DEF ProgramOK

(* The size of a packed file. *)
LEMMA PackedSize ==
  ASSUME NEW p, ProgramOK(p), NEW base \in Nat, NEW sub
  PROVE  Pack(p, base, sub).size \in Nat /\ Pack(p, base, sub).imageBase = base
<1>1. PICK F : F = Pack(p, base, sub)
  OBVIOUS
<1>2. PICK L, W, pages : PacksAs(F, p, base, sub, L, W, pages)
  BY <1>1, PackPacks
<1>3. Packing(F, p, base, L, W, pages) /\ F.size = FullSize(L, W)
  BY <1>2, Zenon DEF PacksAs
<1>4. F.size \in Nat
  BY <1>3, FileAccepted, Zenon
<1>5. F.imageBase = base
  BY <1>3, Zenon DEF Packing, Laid
<1> QED BY <1>1, <1>4, <1>5, Zenon

KernelResult(p, F, n, nb) ==
  LET image == LoadKpeImageAt(CutTo(F, n), nb)
  IN  [image |-> Outcome(p, F, Complete(F, n, nb), image), enter |-> image.ok /\ EntryInImage(image)]
KernelResults(p, F) ==
  {KernelResult(p, F, n, nb) : n \in 0 .. F.size, nb \in ImageBases(F, FreeBases)}
UserDue(F, n) == Complete(F, n, PreferredImageBase(F)) /\ n <= ImageMaxSize
UserResult(p, F, n) == Outcome(p, F, UserDue(F, n), SpawnUserKpe(CutTo(F, n)))
UserResults(p, F) == {UserResult(p, F, n) : n \in 1 .. F.size}

(* Whatever LoadKpeImage comes to. *)
LEMMA KernelSound ==
  ASSUME NEW result \in LoadKpeImage
  PROVE  Sound(result.image)
<1>0. LoadKpeImage =
        UNION {KernelResults(p, Pack(p, base, "KERNEL")) : p \in KernelPrograms, base \in KernelImageBases}
  BY DEF LoadKpeImage, KernelResults, KernelResult
<1>1. PICK p \in KernelPrograms, base \in KernelImageBases :
        result \in KernelResults(p, Pack(p, base, "KERNEL"))
  BY <1>0
<1>2. ProgramOK(p) /\ base \in Nat
  BY ProgramsOK
<1>3. PICK F : F = Pack(p, base, "KERNEL")
  OBVIOUS
<1>4. F.size \in Nat /\ F.imageBase = base
  BY <1>2, <1>3, PackedSize
<1>5. PICK n \in 0 .. F.size, nb \in ImageBases(F, FreeBases) : result = KernelResult(p, F, n, nb)
  BY <1>1, <1>3 DEF KernelResults
<1>6. PICK image : image = LoadKpeImageAt(CutTo(F, n), nb)
  OBVIOUS
<1>7. n \in Nat /\ nb \in Nat
  <2>1. n \in Nat
    BY <1>4
  <2>2. nb \in FreeBases \cup {base}
    BY <1>4, Zenon DEF ImageBases
  <2> QED BY <1>2, <2>1, <2>2, ProgramsOK
<1>8. /\ image.ok => RunsAt(p, F, image)
      /\ Complete(F, n, nb) => image.ok
  BY <1>2, <1>3, <1>6, <1>7, KernelLoads
<1>9. Sound(Outcome(p, F, Complete(F, n, nb), image))
  <2>1. Complete(F, n, nb) \in BOOLEAN
    BY Zenon DEF Complete
  <2> QED BY <1>8, <2>1, OutcomeSound, Zenon
<1>10. PICK a, b : a = Outcome(p, F, Complete(F, n, nb), image) /\ b = (image.ok /\ EntryInImage(image))
  OBVIOUS
<1>11. result = [image |-> a, enter |-> b]
  BY <1>5, <1>6, <1>10, Zenon DEF KernelResult
<1>12. result.image = a
  BY <1>11
<1> QED BY <1>9, <1>10, <1>12, Zenon

(* Whatever PsSpawnUserKpeFromBuffer comes to. *)
LEMMA UserSound ==
  ASSUME NEW o \in PsSpawnUserKpeFromBuffer
  PROVE  Sound(o)
<1>0. PsSpawnUserKpeFromBuffer =
        UNION {UserResults(p, Pack(p, base, "USER")) : p \in InitPrograms, base \in InitBases}
  BY DEF PsSpawnUserKpeFromBuffer, UserResults, UserResult, UserDue
<1>1. PICK p \in InitPrograms, base \in InitBases : o \in UserResults(p, Pack(p, base, "USER"))
  BY <1>0
<1>2. ProgramOK(p) /\ base \in Nat
  BY ProgramsOK
<1>3. PICK F : F = Pack(p, base, "USER")
  OBVIOUS
<1>4. F.size \in Nat
  BY <1>2, <1>3, PackedSize
<1>5. PICK n \in 1 .. F.size : o = UserResult(p, F, n)
  BY <1>1, <1>3, Zenon DEF UserResults
<1>6. PICK image : image = SpawnUserKpe(CutTo(F, n))
  OBVIOUS
<1>7. n \in Nat
  BY <1>4
<1>8. PageOf(base) > 0 /\ PageOf(base) + F.sizeOfImage < UserTop
  BY <1>3, ProgramsOK, Zenon
<1>9. /\ image.ok => RunsAt(p, F, image)
      /\ UserDue(F, n) => image.ok
  BY <1>2, <1>3, <1>6, <1>7, <1>8, UserLoads DEF UserDue
<1>10. Sound(Outcome(p, F, UserDue(F, n), image))
  <2>1. UserDue(F, n) \in BOOLEAN
    BY Zenon DEF UserDue
  <2> QED BY <1>9, <2>1, OutcomeSound, Zenon
<1> QED BY <1>5, <1>6, <1>10, Zenon DEF UserResult

(* An image that a loader accepted is, word for word, the program linked   *)
(* at the address it was loaded at, but for the words of a moved image     *)
(* that the packer took for what they are not; and a complete file is      *)
(* accepted unless it has to move and has nothing to relocate, or is a     *)
(* user image beyond PS_IMAGE_MAX_SIZE: for every program, base and cut,   *)
(* whatever the page size and the alignment.                               *)
THEOREM LoadedImagesRun == KeSpec => []ImagesRun
<1> DEFINE Both == Sound(kernelImage) /\ Sound(initImage)
<1>1. KeInit => Both
  <2> SUFFICES ASSUME KeInit PROVE Both
    OBVIOUS
  <2>1. kernelImage = NoImage /\ initImage = NoImage
    BY DEF KeInit
  <2>2. PICK z : z = FALSE
    OBVIOUS
  <2>3. PICK i : i = NoImage
    OBVIOUS
  <2>4. i = [tried |-> z, ok |-> z, due |-> z, runs |-> z]
    BY <2>2, <2>3, Zenon DEF NoImage
  <2>5. i.ok = z /\ i.due = z
    BY <2>4
  <2>6. Sound(i)
    BY <2>2, <2>5, Zenon DEF Sound
  <2> QED BY <2>1, <2>3, <2>6, Zenon
<1>2. Both /\ [KeNext]_keVars => Both'
  <2> SUFFICES ASSUME Both, [KeNext]_keVars PROVE Both'
    OBVIOUS
  <2>1. CASE LoadKernel
    <3>1. CASE ReturnsToFirmware
      BY <3>1, Zenon DEF ReturnsToFirmware, imageVars
    <3>2. CASE ~ ReturnsToFirmware
      <4>1. PICK result \in LoadKpeImage : kernelImage' = result.image /\ UNCHANGED initImage
        BY <2>1, <3>2, Zenon DEF LoadKernel
      <4> QED BY <4>1, KernelSound, Zenon
    <3> QED BY <3>1, <3>2
  <2>2. CASE SpawnInit
    <3>1. UNCHANGED kernelImage /\ (UNCHANGED initImage \/ initImage' \in PsSpawnUserKpeFromBuffer)
      BY <2>2, Zenon DEF SpawnInit
    <3> QED BY <3>1, UserSound, Zenon
  <2>3. CASE ~ LoadKernel /\ ~ SpawnInit
    <3>1. UNCHANGED <<kernelImage, initImage>>
      BY <2>3
      DEF KeNext, Step, ReadKernelFile, ReadInitFile, AllocateBootInfo, LeaveBootServices,
          ExitFailed, BootCallKernel, KiInitializeEarly, NkInitializeCore, ExInitializeExecutive,
          ExInitializeHybridServices, HalInitializePhase1, OpenInit, KeRunValidationSuite,
          IdleTurn, TimerInterrupt, FirmwareChangesMap, Over, ReturnsToFirmware, Halts,
          imageVars, keVars
    <3> QED BY <3>1, Zenon
  <2> QED BY <2>1, <2>2, <2>3
<1>3. Both => ImagesRun
  BY Zenon DEF Sound, ImagesRun
<1> QED BY <1>1, <1>2, <1>3, PTL DEF KeSpec
=============================================================================
