------------------------------- MODULE KeBoot -------------------------------
(***************************************************************************)
(* The way from the firmware to the idle loop: efi_main of                 *)
(* boot/uefi/bootx64.c, AsterKernelEntry of kernel/ke/init.c and what they *)
(* call in hal/aur64, kernel/nk, kernel/ex and the initialisation of each  *)
(* manager.  Leaving boot services is module BootExit, loading an image is *)
(* module KpeLoad.                                                         *)
(*                                                                         *)
(* Timer interrupts come whenever the CPU accepts them.  What is left of   *)
(* an image after it was loaded is what the properties ask of it: whether  *)
(* it was loaded, whether it had to be, and whether memory holds it.       *)
(***************************************************************************)
EXTENDS BootExit, KpeLoad

CONSTANTS
  KernelPrograms, InitPrograms,   \* programs that are packed
  KernelImageBases, InitBases,    \* values of ImageBase
  FreeBases                       \* addresses AllocatePages can give

(* A program has at least the word its entry point names, and its          *)
(* addresses are its own.  User images are linked above page 0 and below   *)
(* PS_USER_TOP.                                                            *)
ASSUME ProgramAssumption ==
  /\ \A program \in KernelPrograms \cup InitPrograms :
       /\ program \in Seq(Items) /\ program # <<>>
       /\ \A i \in DOMAIN program :
            program[i].holds = "data" \/ program[i].value \in 1 .. Len(program)
  /\ KernelImageBases \subseteq Nat /\ InitBases \subseteq Nat /\ FreeBases \subseteq Nat
  /\ \A program \in InitPrograms, base \in InitBases :
       /\ PageOf(base) > 0
       /\ PageOf(base) + Pack(program, base, "USER").sizeOfImage < UserTop

VARIABLES
  at,          \* where efi_main or AsterKernelEntry is
  module,      \* Index in ExInitializeExecutive
  initRead,    \* InitImageBase, InitImageSize and BOOTINFO_FLAG_INIT_IMAGE_PRESENT
  kernelImage, \* the images the two loaders were given
  initImage,
  ready,       \* gNkBootInfo set, gObReady, gSeReady, ... gLpcReady
  registered,  \* IoInitialize registered \System\init.kpe
  cpu,         \* RFLAGS.IF, the loaded IDT, gHalTimerTickRoutine
  pending,     \* gPsReschedulePending
  failed,      \* ghost: memory or a slot ran out on the way, or the test suite halted
  stray        \* ghost: the kernel took an interrupt it was not ready for

stageVars == <<at, module>>
imageVars == <<initRead, kernelImage, initImage>>
kernelVars == <<ready, registered, cpu, pending>>
ghosts == <<failed, stray>>
keVars == <<bootVars, stageVars, imageVars, kernelVars, ghosts>>

NoImage == [tried |-> FALSE, ok |-> FALSE, due |-> FALSE, runs |-> FALSE]

KeInit ==
  /\ BootInit
  /\ at = "readKernel" /\ module = 1
  /\ initRead = FALSE
  /\ kernelImage = NoImage /\ initImage = NoImage
  /\ ready = {}
  /\ registered = FALSE
  /\ cpu = [interrupts |-> TRUE, idt |-> "firmware", tickRoutine |-> FALSE]
  /\ pending = FALSE
  /\ failed = FALSE /\ stray = FALSE

-----------------------------------------------------------------------------
(* efi_main *)
ReturnsToFirmware ==
  /\ at' = "returned"
  /\ failed' = TRUE
  /\ UNCHANGED <<bootVars, module, imageVars, kernelVars, stray>>

(* OpenRootVolume and ReadWholeFile of the kernel; without it the loader   *)
(* gives up.  init.kpe may be missing or empty.                            *)
ReadKernelFile ==
  /\ at = "readKernel"
  /\ \/ ReturnsToFirmware
     \/ /\ at' = "readInit"
        /\ UNCHANGED <<bootVars, module, imageVars, kernelVars, ghosts>>

ReadInitFile ==
  /\ at = "readInit"
  /\ initRead' \in BOOLEAN
  /\ at' = "load"
  /\ UNCHANGED <<bootVars, module, kernelImage, initImage, kernelVars, ghosts>>

(* What a loader made of a packed program of which it got size words.      *)
Complete(file, size, base) ==
  size = file.size /\ (base = file.imageBase \/ file.blocks # <<>>)
Outcome(program, file, due, image) ==
  [tried |-> TRUE,
   ok    |-> image.ok,
   due   |-> due,
   runs  |-> image.ok /\ RunsAt(program, file, image)]

(* LoadKpeImage of every program, complete or cut, at every base it may    *)
(* get, and the range check of the entry point after it.                   *)
EntryInImage(image) == image.entry \in image.base .. image.base + image.size - 1
LoadKpeImage ==
  UNION {LET file == Pack(program, preferred, "KERNEL") IN
         {LET image == LoadKpeImageAt(CutTo(file, size), base)
          IN  [image |-> Outcome(program, file, Complete(file, size, base), image),
               enter |-> image.ok /\ EntryInImage(image)]
          : size \in 0 .. file.size, base \in ImageBases(file, FreeBases)}
         : program \in KernelPrograms, preferred \in KernelImageBases}

LoadKernel ==
  /\ at = "load"
  /\ \/ ReturnsToFirmware                              \* no pages
     \/ \E result \in LoadKpeImage :
          /\ kernelImage' = result.image
          /\ at' = IF result.enter THEN "bootInfo" ELSE "returned"
          /\ UNCHANGED <<bootVars, module, initRead, initImage, kernelVars, ghosts>>

(* The image protocol and the pool for BOOT_INFO. *)
AllocateBootInfo ==
  /\ at = "bootInfo"
  /\ \/ ReturnsToFirmware
     \/ /\ at' = "loader"
        /\ UNCHANGED <<bootVars, module, imageVars, kernelVars, ghosts>>

LeaveBootServices ==
  /\ at = "loader"
  /\ Loader
  /\ UNCHANGED <<stageVars, imageVars, kernelVars, ghosts>>

ExitFailed == at = "loader" /\ pc = "failed" /\ ReturnsToFirmware

EnterWithInterrupts == cpu                               \* mutant: no cli
EnterMasked == [cpu EXCEPT !.interrupts = FALSE]

BootCallKernel ==
  /\ at = "loader" /\ pc = "handoff"
  /\ cpu' = EnterMasked
  /\ at' = "early"
  /\ UNCHANGED <<bootVars, module, imageVars, ready, registered, pending, ghosts>>

-----------------------------------------------------------------------------
(* AsterKernelEntry *)
AsterKernelEntry ==
  <<"early", "core", "modules", "hybrid", "phase1", "open", "spawn",
    "suite", "idle">>
NextStage(stage) ==
  AsterKernelEntry[1 + CHOOSE i \in DOMAIN AsterKernelEntry : AsterKernelEntry[i] = stage]

ProcessesBeforeMemory == <<"OB", "SE", "PS", "CC", "IO", "MM", "LPC">>    \* mutant
gExBootModules == <<"OB", "SE", "MM", "CC", "IO", "PS", "LPC">>

(* The services whose Ready flag an initialisation finds out about, in     *)
(* that a call of it fails: ObCreateType in the last four, NkGetBootInfo   *)
(* in MmInitialize, and MmCreateAddressSpace in PsInitialize, for the      *)
(* system process.                                                         *)
Needs(m) ==
  CASE m \in {"OB", "SE", "CC"} -> {}
    [] m = "MM"             -> {"NK", "OB"}
    [] m \in {"IO", "LPC"}  -> {"OB"}
    [] m = "PS"             -> {"OB", "MM"}

(* HalHalt. *)
Halts ==
  /\ at' = "halted"
  /\ cpu' = [cpu EXCEPT !.interrupts = FALSE]
  /\ UNCHANGED <<bootVars, module, imageVars, ready, registered, pending, stray>>

BootInfoValid == bootInfo.map # NoBuffer        \* Magic, set by PopulateBootInfo

(* The kernel's IDT is loaded, the timer's interrupt unmasked and the      *)
(* timer started.                                                          *)
HalpInitializeInterrupts == [cpu EXCEPT !.idt = "kernel"]
HalInitializePhase0 == cpu' = HalpInitializeInterrupts

KiInitializeEarly ==
  /\ at = "early"
  /\ \/ ~ BootInfoValid /\ Halts /\ UNCHANGED failed
     \/ /\ BootInfoValid
        /\ HalInitializePhase0
        /\ at' = NextStage(at)
        /\ UNCHANGED <<bootVars, module, imageVars, ready, registered, pending, ghosts>>

NkInitializeCore ==
  /\ at = "core"
  /\ \/ ~ BootInfoValid /\ Halts /\ UNCHANGED failed
     \/ /\ BootInfoValid
        /\ ready' = ready \cup {"NK"}
        /\ at' = NextStage(at)
        /\ UNCHANGED <<bootVars, module, imageVars, registered, cpu, pending, ghosts>>

(* One turn of the loop of ExInitializeExecutive.  The memory manager may  *)
(* find no page, the process manager no page, slot or object; the process  *)
(* manager may by then have registered its tick routine.                   *)
ExInitializeExecutive ==
  LET m == gExBootModules[module] IN
  /\ at = "modules"
  /\ \/ ~ (Needs(m) \subseteq ready) /\ Halts /\ UNCHANGED failed
     \/ m \in {"MM", "PS"} /\ Halts /\ failed' = TRUE
     \/ /\ Needs(m) \subseteq ready
        /\ ready' = ready \cup {m}
        /\ registered' = IF m = "IO" THEN "NK" \in ready /\ initRead ELSE registered
        /\ cpu' = IF m = "PS" THEN [cpu EXCEPT !.tickRoutine = TRUE] ELSE cpu
        /\ IF module < Len(gExBootModules)
           THEN module' = module + 1 /\ UNCHANGED at
           ELSE at' = NextStage(at) /\ UNCHANGED module
        /\ UNCHANGED <<bootVars, imageVars, pending, ghosts>>

(* The bind message goes to the system endpoint of LpcInitialize, which is *)
(* empty and takes it.                                                     *)
ExInitializeHybridServices ==
  /\ at = "hybrid"
  /\ \/ "LPC" \notin ready /\ Halts /\ UNCHANGED failed
     \/ /\ "LPC" \in ready
        /\ at' = NextStage(at)
        /\ UNCHANGED <<bootVars, module, imageVars, kernelVars, ghosts>>

HalInitializePhase1 ==
  /\ at = "phase1"
  /\ cpu' = [cpu EXCEPT !.interrupts = TRUE]
  /\ at' = NextStage(at)
  /\ UNCHANGED <<bootVars, module, imageVars, ready, registered, pending, ghosts>>

(* KiLaunchInitProcess: no init image is no error, nor is one that cannot  *)
(* be spawned.                                                             *)
OpenInit ==
  /\ at = "open"
  /\ at' = IF registered THEN "spawn" ELSE "suite"
  /\ UNCHANGED <<bootVars, module, imageVars, kernelVars, ghosts>>

PsSpawnUserKpeFromBuffer ==
  UNION {LET file == Pack(program, preferred, "USER") IN
         {Outcome(program, file,
                  Complete(file, size, PreferredImageBase(file)) /\ size <= ImageMaxSize,
                  SpawnUserKpe(CutTo(file, size)))
          : size \in 1 .. file.size}
         : program \in InitPrograms, preferred \in InitBases}

SpawnInit ==
  /\ at = "spawn"
  /\ at' = NextStage(at)
  /\ \/ failed' = TRUE /\ UNCHANGED initImage          \* no memory, slot or object
     \/ initImage' \in PsSpawnUserKpeFromBuffer /\ UNCHANGED failed
  /\ UNCHANGED <<bootVars, module, initRead, kernelImage, kernelVars, stray>>

(* KeRunValidationSuite, which may end in HalHalt: see IpcPingPong. *)
KeRunValidationSuite ==
  /\ at = "suite"
  /\ \/ Halts /\ failed' = TRUE
     \/ /\ at' = NextStage(at)
        /\ UNCHANGED <<bootVars, module, imageVars, kernelVars, ghosts>>

(* hlt returned: PsHandlePreemptionPoint. *)
IdleTurn ==
  /\ at = "idle" /\ pending
  /\ pending' = FALSE
  /\ UNCHANGED <<bootVars, stageVars, imageVars, ready, registered, cpu, ghosts>>

-----------------------------------------------------------------------------
(* HalpTimerInterruptHandler and PsOnTimerTick, which may end the current  *)
(* thread's quantum.  Until the kernel is entered the firmware handles its *)
(* own interrupts.                                                         *)
ReadyForTicks == cpu.idt = "kernel" /\ cpu.tickRoutine /\ "PS" \in ready

TimerInterrupt ==
  /\ at \notin {"readKernel", "readInit", "load", "bootInfo", "loader", "returned"}
  /\ cpu.interrupts
  /\ stray' = (stray \/ ~ ReadyForTicks)
  /\ pending' \in IF ReadyForTicks THEN {pending, TRUE} ELSE {pending}
  /\ UNCHANGED <<bootVars, stageVars, imageVars, ready, registered, cpu, failed>>

FirmwareChangesMap ==
  /\ FirmwareEvent
  /\ UNCHANGED <<stageVars, imageVars, kernelVars, ghosts>>

Over == at \in {"returned", "halted"} /\ UNCHANGED keVars

Step ==
  \/ ReadKernelFile \/ ReadInitFile \/ LoadKernel \/ AllocateBootInfo
  \/ LeaveBootServices \/ ExitFailed \/ BootCallKernel
  \/ KiInitializeEarly \/ NkInitializeCore \/ ExInitializeExecutive
  \/ ExInitializeHybridServices \/ HalInitializePhase1 \/ OpenInit \/ SpawnInit
  \/ KeRunValidationSuite

KeNext == Step \/ IdleTurn \/ TimerInterrupt \/ FirmwareChangesMap \/ Over

(* The program goes on: nothing else runs before the idle loop, and an     *)
(* interrupt returns to where it came from.                                *)
KeSpec == KeInit /\ [][KeNext]_keVars /\ WF_keVars(Step)

-----------------------------------------------------------------------------
(* Both loaders, whatever program was packed, whatever its base and        *)
(* wherever it lands: an image that is accepted holds headers, relocation  *)
(* directory and zeroes where they belong, on pages cleared of what they   *)
(* held, and the program linked at the address it was loaded at: every     *)
(* word of it if that is its ImageBase, else every word the packer reads   *)
(* right.  And a complete file is not refused, unless it has to move and   *)
(* has no relocation, or is a user image beyond PS_IMAGE_MAX_SIZE.         *)
(* Behaviour of LoadKpeImage, ApplyKpeBaseRelocations,                     *)
(* PsSpawnUserKpeFromBuffer and PspApplyUserKpeRelocations.                *)
ImagesRun ==
  \A image \in {kernelImage, initImage} :
    (image.ok => image.runs) /\ (image.due => image.ok)

(* AsterKernelEntry enables interrupts only once an interrupt finds the    *)
(* kernel's IDT, a tick routine and a scheduler that is ready; from the    *)
(* call of the kernel to that point no interrupt is taken.                 *)
NoStrayInterrupt == ~ stray

(* The order of ExInitializeExecutive and AsterKernelEntry gives every     *)
(* manager what it calls: the kernel halts, or comes up without the init   *)
(* program the loader read, only when some resource ran out or a test of   *)
(* its own validation suite halted it.                                     *)
BootCompletes ==
  /\ at = "halted" => failed
  /\ at = "idle" /\ initRead => initImage.tried \/ failed

(* Booting ends in the idle loop, in HalHalt or back in the firmware, even *)
(* if the firmware changes its map before every attempt of                 *)
(* ExitBootServicesRobust.                                                 *)
BootEnds == <>(at \in {"idle", "halted", "returned"})
=============================================================================
