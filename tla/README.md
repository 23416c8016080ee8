# TLA+ models of the Aster/NTX kernel

This directory holds TLA+ specifications of the NTX preview kernel and its UEFI
loader, the TLC configurations that check them on small instances, and TLAPS
proofs of the results that matter for every instance. Paths below are relative
to the repository's `src/` root. `PROJECT.json` maps every definition to the
lines it models.

## 1. The system and its parts

One CPU runs a kernel that was loaded by a UEFI loader. No thread is preempted:
the timer handler only counts down a time slice and sets a flag, which is looked
at where a thread gives up the CPU. (System calls enter through interrupt gates,
but send and receive of a local port enable interrupts again inside the call;
all that can come then is such a tick.) What interleaves is the *order of calls*
by threads, the *switches* they make, the *ticks* between them, in the loader
*firmware events*, and at the console *keys* and *serial bytes*.

| Part | State | Operations | Talks to |
|---|---|---|---|
| Object manager, `kernel/ob/init.c` | type pool, header pool, one handle table, `NextHandle` | create type/object, insert, reference by handle, dereference, close | delete routines of Io, Lpc, Mm, Ps |
| Nucleus ports, `kernel/nk/core.c` | ring of messages: head, tail, count | initialise, send, receive | Lpc ports and service endpoints contain one |
| Scheduler, `kernel/ps/init.c`, `arch/aur64/context.c` | thread pool, run queue, current thread, reschedule flag, saved contexts | create, ready, dispatch, yield, block, wake, exit, tick, thunk | Lpc blocks and wakes; HAL ticks |
| Local ports, `kernel/lpc/init.c` | port pool, ring and waiter queue of each port | create, send, receive (blocking or not), close | Ob, Nk, Ps |
| Memory manager, `kernel/mm/init.c` | frame bitmap and counts, page tables, address spaces and their regions, sections | allocate, free, map, protect, create section, map view, fault | Ob (sections), Ps (loader), Ke (system calls) |
| Boot page map, `kernel/mm/init.c` (`MmInitialize`) | frame bitmap | free usable ranges, reserve boot ranges, build the physmap | the loader's `BOOT_INFO` |
| User image loader, `kernel/ps/init.c` | processes | spawn from a buffer | Mm, Io |
| File I/O, `kernel/io/init.c` | boot file table, file slots | register, open, read, spawn, close | Ob, Ps |
| Validation suite, `kernel/ke/validate.c` | - | syscall, scheduler, memory, IPC and user-mode tests | all of the above |
| System calls, `kernel/ke/syscall.c` | - | buffer checks and dispatch: files, ports, sections, processes, memory, console | Io, Lpc, Mm, Ps, Hal |
| Boot sequence, `kernel/ke/init.c`, `kernel/ex/` | ready flags, module index | initialise each manager in order, launch init, idle | all |
| UEFI loader, `boot/uefi/bootx64.c` | file buffers, snapshot buffers, `BOOT_INFO` | read and load images, snapshot the memory map, leave boot services | firmware, kernel entry |
| HAL, `hal/aur64/` | framebuffer and cursor, keyboard state, IDT, tick routine, interrupt flag | print, clear, scroll, read a character, enable interrupts, dispatch interrupts | Ke (system calls, entry), Ps (tick), Mm (fault) |
| User init, `user/init/init.c` | line buffer, prompt and cursor marks | edit a line, submit it, yield | system calls |
| Packer, `tools/kpepack.ps1` | - | lay out an image and its relocation blocks | read by both image loaders |
| Se, Cc, Rtl, other tools | flags | stubs, library, builds | - |

What is hard here, and what correctness means for each part:

- **Object manager.** Reference counts must equal the references that exist, over
  any order of calls; a slot is reused after its object is gone, so a count that
  is wrong by one turns into a handle on a stranger's object. `NextHandle` wraps.
- **Ports.** The ring at its limit and at its wrap, and a port slot that is reused
  with the previous port's indexes or messages.
- **Scheduler.** The run queue is an intrusive list without membership checks: a
  second push of a queued thread cuts it. Which thread is *current* and which code
  *runs* are separate facts, and only a context switch makes them agree.
- **Local ports over the scheduler.** A receiver sleeps on a port that is closed
  under it, its slot is reused, its waiter link is stale, a wake-up comes twice.
- **Memory manager.** Frames are shared between sections, views and page tables;
  multi-page operations fail half way; address spaces share their low tables.
- **Memory at boot.** Ranges that do not start or end on a page; a memory map that changes
  while the loader tries to leave boot services, with a limited number of retries.
- **File I/O.** File slots and object headers are two pools with independent reuse,
  joined by a pointer; an image exactly as large as the scratch buffer.
- **System calls.** Files, ports, sections, processes and threads draw on one pool
  of headers and one handle table, and each kind finds its object again by a
  header's address; a view outlives the handle it came from; a message leaves the
  port before its length is looked at; a buffer may wrap around the address space.
- **Images.** What the packer, the loader's relocation walk and the kernel's
  relocation walk each believe about padding, page ends and sizes has to agree,
  for every program, wherever it lands, and for files that were read short.
- **Boot sequence.** Each manager relies on others; the timer runs before anyone can handle
  its interrupts; a missing or refused init image is no error.
- **Console.** A key is several bytes, read one per call, with serial input and
  other keys between them; a line wraps, scrolls and is rubbed out on a screen
  whose height is not a whole number of text rows.

The full list of hazards, each at its line with the properties that would catch
it, is `hazards` in `PROJECT.json`.

## 2. Modules

```
NkFifo <-- refined by -- NkPort
ObManager <- IoFile <- KeSyscall                       (MCObManager, MCKeSyscall)
IntrusiveQueue <- PsScheduler <- LpcIpc <- IpcPingPong                 (MCLpcIpc)
BootExit, KpeLoad <- KeBoot                                            (MCKeBoot)
HalConsole <- InitConsole                                         (MCInitConsole)
MmBootMap                                                           (MCMmBootMap)
MmManager                                                           (MCMmManager)

ObManager_proofs <- KeSyscall_proofs        LpcIpc_proofs        NkPort_proofs
MmBootMap_proofs     MmManager_proofs     KeBoot_proofs     InitConsole_proofs
```

`X_proofs` extends `X` and holds its theorems (`LpcIpc_proofs` those about
`PsScheduler` too); an arrow is `EXTENDS`.

- **ObManager** - the type, header and handle pools as sets of used slots and
  functions on slots; one action per `Ob*` call with its error returns. Masks are
  sets of rights. `held` is a ghost: the references kernel code holds through
  pointers. Callers dereference only what they hold; user code may pass any handle
  value and any mask.
- **NkPort / NkFifo** - `NkPort` is the ring with its three indexes; `NkFifo` is a
  bounded queue with the same interface. `NkPort!ImplementsFifo` is the refinement:
  the queue is the `portCount` messages from `portHead` on.
- **IntrusiveQueue** - head, tail and next-pointers, for the run queue and for the
  waiter queues (the code has the same list twice, on different fields).
- **PsScheduler** - threads, run queue, current thread, and, separately, the code
  *stream* the CPU executes and the stream saved in each thread's context. A thread
  is made for the kernel or for user mode, from which the entry thunk gets nothing
  back but system calls; a creation that fails at its object leaves the slot `Leaked`.
  Of the tick counts only the current thread's is kept, for a dispatch sets it anew.
  `PsDispatch` skips `KiArchSwitchContext` when there is no previous thread, as
  after a block or an exit. Resuming a context twice makes the machine "corrupt";
  nothing is claimed afterwards. The ghost `forgotten` records that some thread
  has blocked or exited.
- **LpcIpc** - the port pool, handles and waiter queues on top of `PsScheduler`.
  A port's ring is the FIFO that `NkPort` is proved to implement; a port is named
  by its handle, whose value `ObManager` shows not to be reused.
- **IpcPingPong** - `KeTestIpcPingPong` and its two workers, step by step, on top
  of `LpcIpc`.
- **MmManager** - the state is one record `mm`, and each routine is an operator
  from record to record with an `ok` flag, so that a failure half way keeps what
  was done before it, as in the code. Actions: image spawn, anonymous mapping,
  section create, view, close, page fault. Page tables of all spaces are one
  function because all spaces share root entry 0, below which every page of the model
  lies. The pages below `MM_USER_BASE` are those the firmware's identity map gives to
  tracked frames; from there up the map has nothing, or entries that are split, or
  entries of 1 GiB, which `MmpWalkToPte` refuses. A spawn takes any base and any table
  of sections, as `PsSpawnUserKpeFromBuffer` does. Two things it does not refuse set
  limits to what can be claimed. An image mapped below `MM_USER_BASE` releases frames
  that are in use, and may overwrite tables: the machine is then "overlaid" and the
  model ends. A section whose `VirtualSize` goes beyond `SizeOfImage` changes the
  rights of pages outside the image: the ghost `reached` holds those pages until
  they are mapped anew.
- **MmBootMap** - `MmInitialize` range by range; addresses have a sub-page unit so
  that ranges can end inside a page.
- **BootExit** - `SnapshotMemoryMap`, `ConvertMemoryMap`, `PopulateBootInfo` and
  `ExitBootServicesRobust`, with a firmware that may change the number of its
  descriptors at any moment before boot services end. Pool buffers are tokens, so
  that use after free is visible; `filled` is the array `ConvertMemoryMap` wrote last,
  and the ghost `replaced` records a retry that allocated new buffers.
- **KpeLoad** - operators only: the packer's layout and relocation blocks, the
  header checks, copies, clearing and relocation walk of the loader, and the
  kernel's own version of them for user images. The unit is the 8-byte word a
  relocation patches. A program is a sequence of items, one per word: data of any
  value, an address of its own words, or the low word of an address that is not
  aligned. `RunsAt` is the reference definition: memory holds the program as if it
  had been linked where it was loaded. In an image that was moved it asks this of the
  words that `PackerReads` right, for the packer patches data that looks like an
  address and has no entry for an address that is not aligned.
- **KeBoot** - extends `BootExit` and `KpeLoad`: `efi_main`, then
  `AsterKernelEntry` stage by stage, with the modules of `gExBootModules` one by
  one, each with what it needs and how it fails. Timer interrupts come whenever the
  CPU accepts them; the ghost `stray` records one that found the kernel not ready.
- **IoFile** - extends `ObManager`: an I/O call is a sequence of object manager
  steps on the file slots.
- **KeSyscall** - extends `IoFile` with ports, sections and their views, processes
  and threads on the same headers and handles: each system call that names an
  object, from its buffer check to its last dereference, with the delete routines.
  A handle of any kind may be passed to any call. A waiting receive gives up the
  CPU (`LpcIpc`) and starts again with the lookup of its handle, as a new call may.
- **HalConsole** - operators on the display (`fb[y][c]`, which row of which glyph a
  pixel row shows in a column) and on the keyboard decoder's state.
- **InitConsole** - init's loop on these drivers, with a keyboard that sends
  prefixes and release codes, a serial line, and other threads that print while
  init is in its yield. `EarlierText` stands for what the kernel printed between
  `HalClearDisplay` and init's first turn. `CommandOutput` is what a text that begins
  with a debug command makes the kernel print; no command is a single character, nor
  the prompt or the cursor mark, and no text of the kernel holds a carriage return
  (`TextAssumption`). The prompt is one character here, four in the code.

Operators marked `\* mutant` stand beside the definition they distort; each shows
that some plausible slip in the code breaks the property it is listed with.

## 3. Runs

A run has the name of its `.cfg`.

| Run | Checks | Bounds, and why they are enough |
|---|---|---|
| `ObManager` | types, `RefCountExact`, `NoDanglingReference`, `DeletedExactlyOnce`, `HandleValuesUnique`, `ClosedStaysClosed`, `HandleKeepsItsObject` | 2 types, 2 headers, 2 entries, 4 insertions, handle width 12: each pool is full and empty, each slot is reused, `NextHandle` gives 4, 8, 0, 4 |
| `NkPort` | `RingConsistent`, `ImplementsFifo` | depth 3, 3 messages: every offset of head and tail, wrap, full, empty, reinitialised at any point |
| `PsScheduler` | `ReadyThreadsQueued`, `QueuedNotRunning`; until a block or exit: `CpuIsCurrent`, `ContextsAreOwn`, `DeadStaysDead`, `ReadyThreadRuns` | 3 threads, slice 2: a queue with a middle, ticks that do and do not expire a slice, kernel and user threads, slots that leak |
| `LpcIpc` | `HandlesHaveSlots`, `PortsDeliverInOrder`, `RunQueueSound` | 2 threads, 2 slots, 2 ports, 3 sends, depth 2: full ring, stale and repeated waiters, slot reuse, pools that are full |
| `MmManager` | `FrameCountsExact`, `ViewsShowTheSection`, `WiredMeansPresent`, `EntryWithinRegion` | 5 frames, 3 pages below and 3 above `MM_USER_BASE`, 3 pages per table, 2 spaces, 3 regions, 1 section of up to 2 pages, images of one page with a section of code, or with one that reaches the stack: every allocation can be the one that fails, under each kind of firmware map |
| `MmBootMap` | `FreePagesUsable`, `ImagesReserved`, `PhysmapCovers` | 7 pages of 4 units, 1 low page, directories of 6 pages: ranges at page ends and inside pages, a partial last directory |
| `KeBoot` | `HandoffMapComplete`, `BuffersOwned`, `ImagesRun`, `NoStrayInterrupt`, `BootCompletes`, `BootEnds` | up to 4 descriptors, slack 1, 4 attempts as in the code: growth beyond the slack on any attempt; programs of 1, 3 and 5 words on pages of 4, with every pattern of addresses of the listed words, data that looks like an address or an RVA, addresses that are not aligned, files cut at every length and beyond the size limit, preferred bases that are free, taken and unaligned |
| `KeSyscall` | `PoolsMatchObjects`, `HandlesReadTheirFile`, `SpawnGetsWholeFile`, `MessagesAccounted`, `BuffersInOneHalf`, `CallsReturn` | 2 headers, 2 handle entries, 3 objects and 3 insertions ever, one slot of each other pool, two boot files, one as large as the scratch buffer: each pool is full at some point and each header comes back as another kind; 5 buffers on 8 addresses: null, two lengths, across the top of user addresses, wrapping. `BuffersInOneHalf` looks at every address and length |
| `InitConsole` | `KeysDecodeAsTyped`, `EchoShowsLine`, `ScreenIntact` | 3 columns, 3 text rows of 2 pixel rows and 1 row left over, a line of 3, 5 events, 3 bytes waiting: wraps, scrolls, a full line, rubout over a wrap, a key's bytes split by other input |
| `IpcPingPong` | violation of `PingPongSurvives` | finding 1 |
| `MmLazy` | violation of `LazyPagesAreOwn` | finding 2 |
| `BootStaleMap` | violation of `HandoffPointerLive` | finding 3 |

`CHECK_DEADLOCK FALSE` is set where the machine may halt (`PsScheduler`, `LpcIpc`,
`MmManager`, `MmLazy`): `HalHalt` is an end the code has. `KeBoot` names its two
ends, `HalHalt` and the return to the firmware, and stutters there.

Symmetry is used for access rights only, which nothing tells apart. `LpcIpc` uses a
view without the last result, the ghost `forgotten`, and the tick count with the
pending flag: they only enable `PsHandlePreemptionPoint`, which does what
`PsYieldThread` may do at any time, and the run's properties do not mention them.
`PsScheduler` checks them without a view.

### Fairness

- `PsScheduler`: weak fairness of the timer tick (the PIT is periodic), of
  `PsHandlePreemptionPoint` (the idle loop in `ke/init.c` and the test loops reach
  it again and again), of `PsDispatch` and of the entry thunk (straight-line code).
  The timer's handler itself never switches, so a user thread has to yield; init,
  the one user program, does so whenever it has nothing to read.
- `KeBoot`: weak fairness of the program's next step, since nothing else runs
  before the idle loop and an interrupt returns to where it came from; firmware
  events and interrupts have none.
- `KeSyscall`: weak fairness of a call in progress (straight-line code that no
  other thread interrupts). No client is obliged to call.
- `InitConsole` states safety only.

### Findings

1. `PsBlockCurrentThread` (and `PsExitCurrentThread`) clear `gPsCurrentThread`
   before `PsDispatch`, which then has no previous thread and skips the context
   switch: the stack of the thread that blocked goes on as the popped thread. A
   blocking receive therefore never waits: it uses up the identities on the run
   queue and fails when the queue is empty (in `LpcIpc`, `ReceiveAgain` never finds
   a message). The kernel's own ping-pong test ends in `HalHalt`. The exit path has the same cause
   and effect: the user-mode smoke test returns to the code that exited.
2. All address spaces share the tables below root entry 0, so a page of a lazy
   region can be present, with another process's frame, before it is touched.
3. After a retry that enlarged the buffers, `BOOT_INFO.MemoryMap` still points to
   the freed range array, while the entry count is that of the new one.

Observations that no run is spent on:

- Reservations are rounded inward like usable ranges (`kernel/mm/init.c:294`), so a
  page that holds the end of `BOOT_INFO` or of the map array remains free and the
  allocator may hand it out, although the HAL keeps pointers to both. Images are
  whole pages and stay reserved (`ImagesReserved`).
- A yield with an empty run queue returns `KSTATUS_INIT_FAILED`, so `KeTestSyscall`
  fails when no other thread is ready (`kernel/ps/init.c:690`).
- `IoOpenPath`, `LpcCreatePortHandle`, `PsCreateKernelThread` and
  `PsCreateUserThread` leave their slot taken when `ObCreateObject` fails; the models
  show that slot, without a header, and `PoolsMatchObjects` and `HandlesHaveSlots`
  allow it. `MmCreateSectionHandle` gives its slot back. A spawn that fails after
  its process object was made leaves the object and the slot behind.
- `docs/ABI_AUR64.md:79` says that the kernel validates the expected version of
  `BOOT_INFO`; only its address and `Magic` are looked at (`kernel/ke/init.c:108`).
- A message that does not fit the receiver's buffer is lost
  (`kernel/ke/syscall.c:210`); `MessagesAccounted` shows that this and the close of
  its port are the only ways to lose one.
- The packer relocates every aligned word that looks like an address or an RVA of
  the payload (`tools/kpepack.ps1:43`): in an image that is moved, data with such a
  value is changed, and an address that is not aligned is left as it was. `ImagesRun`
  claims nothing of such words in a moved image.
- `PsSpawnUserKpeFromBuffer` takes an image base below `MM_USER_BASE`
  (`kernel/ps/init.c:367`) and section sizes beyond the image
  (`kernel/ps/init.c:474`). No text in the repository says otherwise, so these are
  limits of `FrameCountsExact` and `EntryWithinRegion` and not findings.
- The names of the segment selectors in `hal/aur64/hal_intr.c:90` are swapped with
  respect to `kernel/arch/aur64/context.c:8`; nothing uses them.

## 4. Proofs

The theorems hold for every value of the constants that the `ASSUME`s of the
modules admit; TLC evaluates these on the runs. Each theorem is an inductive
invariant, a lemma per kind of step, and a temporal step that combines them.

- **ObManager_proofs**, from `ObConstants`. `ObTypeCorrect`, `RefCountsAreExact`,
  `ReferencesNeverDangle`: `RefCountExact` is not inductive, for closing a handle
  subtracts from the count of the entry's object, which must then be an object.
  `RefInv` adds `ObTypeOK`, `InUseIffCounted` (a header is in use exactly when its
  count is positive) and `EntriesPointToObjects`. `ObjectsDeletedOnce` needs in
  addition that ids are given once and in order (`IdsGiven`), `HandlesAreUnique`
  and the action property `ClosedHandlesStayClosed` that every value in the table
  is below `NextHandle` until it wraps (`NextHandleFresh`);
  `HandlesKeepTheirObject`, also an action property, follows from `RefInv` and the
  two lemmas that say what one call can do to the header pool (`PoolStep`) and to
  the handle table (`TableStep`). These are stated for `ObStep`, which also admits
  failures for reasons of the caller, so that the modules above can use them.
- **KeSyscall_proofs**, from `ObConstants`, `IoConstants` and `SyscallConstants`.
  `CallsUseObjectManager` is the composition: every step of the system is a step
  of `ObNext` or a plain failure. The object manager's callers must dereference only
  what they hold, and here that is proved of them, from `CallInv`: a call in one of the
  `HoldingSteps` has one reference, every view has one, and no call names a type
  before the boot has created it. With it the theorems about the object manager
  carry over (`CallsKeepCounts`). `PoolsAgreeWithObjects` rests on `PoolInv`: no two
  slots have the same header, and the slot a call has taken is still without one
  when `ObCreateObject` fills it in. `FileHandlesKeepTheirFile` and
  `SpawnReadsWholeFile` add what a call knows between its steps (`LookupKnows`,
  `InsertKnows`, `SpawnInv`: the handle is still open on the object the call found
  and the bytes read so far are those of that file). They are proved until
  `NextHandle` wraps, as the ghost `opened` is indexed by handle value; the run's
  bounds stay below the wrap. `MessagesAreAccounted` needs that the numbers in all
  queues differ (`NumbersDiffer`), that the four places are disjoint and cover all
  numbers (`InOnePlace`), and that a call that sends or receives still has its
  handle open, so that giving back its reference deletes no port (`PortCallKnows`).
  `AcceptedBuffersInOneHalf` is arithmetic modulo the address width. The invariant
  of them all is `KeInv`.
- **NkPort_proofs.** `RingStaysConsistent` and, from it, `PortImplementsFifo`: for
  every depth and message set, each step of the ring is a step of `NkFifo` or a
  stutter under the refinement mapping. `RingConsistent` (tail = head + count modulo
  the depth) with the type invariant is inductive; the lemmas are modular
  arithmetic on the ring and how `Append` and `Tail` act on the mapped sequence.
- **LpcIpc_proofs**, the scheduler, from `MaxThreadsAssumption` and `SchedulerConstants`. The
  queue is a chain of links, walked by a recursive function. `Represents(q, s)` says
  that the links are those of a sequence without repetitions; a push appends to it
  (`PushAppends`), a pop takes its head (`PopTakesHead`), and `SequenceIsQueue`, by
  the smallest index at which the walk would differ, that its members are the walk's.
  `NoReadyThreadIsLost` and `QueueHoldsOnlyWaiting` follow from `QueueInv`: which
  states a queued, readied or current thread may be in (`StatesAgree`,
  `QueueAgrees`). `CpuRunsCurrentThread`, `ContextsResumeTheirThread` and
  `DeathIsFinal` add `CooperativeInv`: until a thread blocks or exits, the running
  stream is the current thread's, each thread on the queue has a context of its
  own, and the local variable of the entry thunk names its thread.
- **LpcIpc_proofs**, the ports, reuses these. `RunQueueSurvivesPorts` needs only that whatever is
  linked in a wait queue is a thread; `EachHandleHasOneSlot` that no handle above
  the newest is open (`SlotInv`); `DeliveryInOrder` is the equation *sent = received,
  then queued* for every open handle (`OrderInv`).
- **MmBootMap_proofs**, from `BootMapConstants` and `MapsDisjoint`: the ranges of a
  memory map do not overlap, as UEFI promises, for a page that two ranges of
  different types describe would have no type. `OnlyUsablePagesGiven`,
  `CriticalImagesReserved` and `PhysmapReachesAll` follow from `BootMapInv`: where
  every free page and table comes from, what stays reserved, and how far the
  physmap reaches after each directory. The lemmas bound the rounding of addresses.
- **MmManager_proofs**, from `MmConstants`, for every number of frames, pages, spaces,
  regions and sections. `FramesCountedExactly`, `ViewsShowSections`,
  `WiredRegionsPresent` and `EntriesWithinRegions` follow from one invariant, `MmInv`.
  `FrameCountsExact` is not inductive for three reasons, and `MmInv` has a part for
  each. Inside a routine a frame that has been allocated or retained is in no table
  yet: `Counted` takes the references a routine holds as a second argument (`extra`),
  `MmAllocPage` adds one, `MmAsMapPage` hands one over, and none is left when the call
  returns (`NoExtra`). `MmpDeleteSectionObject` frees the section's frames without
  looking at their counts: `Exclusive` says that a section's frame is nothing else and
  is mapped only while the section has a view, `SectionsHeld` that the section's count
  is its handle and its views, so that the last reference goes after the last view.
  And a wiring that fails half way leaves entries above `nextUserBase`, in tables that
  all spaces share: `RegionsOK` says that regions lie below `nextUserBase` without
  overlapping, what the entries under each are, and that a free slot owns no page;
  `Settled` that a space that runs owns no page above its regions, since a spawn that
  fails never makes its space run. A loop over pages or sections (`WirePages`,
  `ProtectSection`, `ProtectSections`, `AddSectionPages`) is unrolled by `WireLoop`, `ProtectLoop`, `SectionLoop` and `FillLoop` into its
  states after each turn; the loop invariant (`WireInv`, `ProtectInv`, `FillInv`)
  holds for the last because there is no smallest turn at which it fails. After a
  fault that is not mended the machine is halted inside the handler; only `RegionsOK`
  is claimed then, and nothing once an image was mapped below `MM_USER_BASE`. That a
  spawn below it which fails before it has mapped a page changes no count is part of
  the proof.
- **KeBoot_proofs**, from `BootConstants`, `KpeConstants` and `ProgramAssumption`.
  `HandoffMapIsComplete` and `LoaderOwnsBuffers` from `LoaderInv`: both buffers have one
  capacity and are the live ones, a valid key means that the array filled last holds
  the map as it is, and `BOOT_INFO` points to that array unless one was replaced
  (`InfoPopulated`, `KeyMatchesMap`); `InterruptsWaitForKernel` and `BootOrderSuffices` from
  `KernelInv`, which says for each stage which managers are ready, what the CPU does
  with interrupts and whether init is registered. `LoadedImagesRun` is about what the
  loaders compute. It assumes what the build gives them: a program has at least the
  word of its entry point (the packer throws otherwise), its addresses are its own, and
  a user image is linked above page 0 and below `PS_USER_TOP`. The argument has four
  parts. What the packer takes for addresses lies in the payload
  (`CandidatesInPayload`), and its directory names each of these words in exactly one
  entry of one block (`Directory`, `BlockOf`). Sections, rounded to their raw data or to pages, lie apart and inside the
  image (`Layout`), so that what is copied is the program as it was linked, its headers
  and its directory, and the rest is zero (`ImageCopied`). The walk over the blocks
  moves exactly the words that are named, once each, padding aside (`EntriesShift`,
  `BlocksShift`), which turns the image linked at one base into the one linked at the
  other, in every word the packer reads right (`Moved`, `MovedReadsRight`). And a
  complete file within the size limit passes every check of both loaders
  (`FileAccepted`). Each loop (`Ascending`, `DirectorySize`, `CopySections`,
  `PatchEntries`, `PatchBlocks`) is unrolled into its values after each turn, as in
  `MmManager_proofs`; `Iteration` takes a fact from the first to the last.
- **InitConsole_proofs**, from `ConsoleConstants`, `TextAssumption` and
  `LineAssumption` (the longest line, 127 characters, fits the screen when its last
  row is gone: every screen a firmware offers is larger). `KeysDecode`: the equation
  *decode(waiting bytes) = typed characters* is inductive only with what the driver
  will be in afterwards, `KeysInv`: the decoder state behind all waiting bytes is the
  keys that are held now, with no prefix pending. Reading takes the first byte of that
  equation (`DecodeHead`), a key adds at its end (`DecodeOne`, `DecodeTwo`).
  `ScreenStaysIntact`: a framebuffer is `Drawn` from a grid of characters, one row
  higher than the screen, whose last row, the pixel rows left over, is blank. A glyph,
  a wrap, a scroll and a backspace are operations on the grid (`PutGlyph`,
  `MakeRoom`, `PutBackspace`), and behind the cursor it is blank (`BlankBehind`),
  which is what makes a glyph drawn there whole. `EchoIsTheLine` reads the grid by
  position instead of by row, so that a wrap moves nothing and a scroll moves
  everything by one row: `Echoes(d, t)` says that text `t` lies before the cursor;
  a glyph appends to `t` as long as it fits (`EchoPut`), and the erasing text takes its
  last character (`EchoErase`). `LineInv` says what is echoed at each point of the
  loop: the prompt and the line, with the cursor mark if `cursorShown`; a line is
  never without its prompt and init never yields without its mark. That only glyphs
  enter the line needs the decoder's invariant.

Only model-checked, on the instances above:

- liveness (`ReadyThreadRuns`, `BootEnds`, `CallsReturn`), outside the proof
  system used.

## 5. Not modelled

- Device programming in the HAL: UART set-up, PIC and PIT registers, segment
  descriptors, the screens printed on a fault. A port write has no state of ours.
- Of the keyboard: the fake shift codes some keyboards send around the cursor
  block, typematic repeat (which toggles Caps Lock again and again), a controller
  buffer that overflows, a UART that is absent and reads as all ones. Each is the
  behaviour of a device the code does not configure.
- Of the debug commands in `KipSysDebugPrint`: what they print, and `panic`, which
  halts. Refusals of a text above 512 bytes or a path above 127 are those of any
  bad buffer. Text of other threads holds no carriage return.
- The loader's splash and graphics mode, and its serial output.
- Several messages waiting on a port that system calls share: `KeSyscall` has depth
  1, their order is `NkPort`'s and `LpcIpc`'s.
- Copy-on-write and physical regions, `MmAsUnmapPage`: no caller.
- The access check of `Se`, `Rtl` (memory copies) and the EFI stubs: leaf functions
  without state. The tools other than the packer.

## 6. Plan

1. *Local ports over ObManager*: `LpcIpc` with the headers and handle entries of
   `ObManager` in place of its own handles, so that a blocked receiver and a header
   that changes its kind meet in one model.
