----------------------------- MODULE PsScheduler -----------------------------
(***************************************************************************)
(* The scheduler of kernel/ps/init.c with the context switch of            *)
(* kernel/arch/aur64/context.c and the timer tick of hal/aur64/hal_intr.c. *)
(*                                                                         *)
(* One CPU executes one code stream at a time.  A stream is the code on    *)
(* one kernel stack: thread t's own stream starts in PspThreadEntryThunk   *)
(* on t's stack, and Boot is the code that ran AsterKernelEntry and became *)
(* thread 1 in PsInitialize.  Which stream runs (cpu) and which thread the *)
(* scheduler believes is running (currentThread) are separate state: only  *)
(* KiArchSwitchContext changes the first, and PsDispatch skips it when     *)
(* there is no previous thread.                                            *)
(*                                                                         *)
(* Kernel code is not preempted.  A timer tick may come between any two    *)
(* steps, but it only counts the time slice down.                          *)
(***************************************************************************)
EXTENDS IntrusiveQueue

CONSTANTS
  TimeSlice,    \* PS_DEFAULT_TIMESLICE_TICKS
  BlockReturn   \* where the caller of PsBlockCurrentThread goes on if it succeeds

ASSUME SchedulerConstants == TimeSlice \in Nat \ {0}

Boot     == 0
Streams  == Threads \cup {Boot}
Bootstrap == 1                  \* the thread PsInitialize creates
Stale    == MaxThreads + 1      \* a saved context whose frames are gone
Owner(s) == IF s = Boot THEN Bootstrap ELSE s

VARIABLES
  threadState,        \* KTHREAD.State; "Free" and "Leaked" slots hold no thread
  readied,            \* threads their creator has passed to PsReadyThread
  runQueue,           \* gPsRunQueueHead, gPsRunQueueTail and RunQueueNext
  currentThread,      \* gPsCurrentThread
  reschedulePending,  \* gPsReschedulePending
  remainingTicks,     \* RemainingTicks of gPsCurrentThread; PsDispatch sets it anew
  startRoutine,       \* "kernel": StartRoutine, "user": IsUserThread, or "none"
  context,            \* the stream saved in KTHREAD.Context
  cpu,                \* the stream the CPU executes
  pc,                 \* where each stream is
  thunkThread,        \* the local CurrentThread of each stream's thunk
  machine,            \* "up", "halted" by HalHalt, "corrupt" after a stale switch
  forgotten           \* ghost: some thread has blocked or called exit

schedVars == <<threadState, readied, runQueue, currentThread, reschedulePending,
               remainingTicks, startRoutine, context, cpu, pc, thunkThread,
               machine, forgotten>>

(* A stream is at the top of its thunk, in its own code (a start routine,  *)
(* a user program, the idle loop), or inside PsDispatch, called from its   *)
(* own code, from PsBlockCurrentThread or from its thunk.                  *)
InDispatch == {"dispatch", "dispatch_block", "dispatch_thunk"}
AfterDispatch(label, success) ==
  CASE label = "dispatch"       -> "body"
    [] label = "dispatch_block" -> IF success THEN BlockReturn ELSE "body"
    [] label = "dispatch_thunk" -> "entry"

At(label) == machine = "up" /\ pc[cpu] = label
Goto(label) == pc' = [pc EXCEPT ![cpu] = label]

-----------------------------------------------------------------------------
(* PsInitialize: thread 1 is created, readied and dispatched with no       *)
(* previous thread, so the boot code goes on as thread 1.                  *)
PsInitialize ==
  /\ threadState = [t \in Threads |-> IF t = Bootstrap THEN "Running" ELSE "Free"]
  /\ readied = {Bootstrap}
  /\ runQueue = EmptyQueue(NoLinks)
  /\ currentThread = Bootstrap
  /\ reschedulePending = FALSE
  /\ remainingTicks = TimeSlice
  /\ startRoutine = [t \in Threads |-> "none"]
  /\ context = [t \in Threads |-> IF t = Bootstrap THEN t ELSE Stale]
  /\ cpu = Boot
  /\ pc = [s \in Streams |-> IF s = Boot THEN "body" ELSE "entry"]
  /\ thunkThread = [s \in Streams |-> NoThread]
  /\ machine = "up"
  /\ forgotten = FALSE

(* A thread in the first free slot.  Slots are never given back, also not  *)
(* when ObCreateObject fails after one was taken.                          *)
CreateThread(routine) ==
  /\ At("body")
  /\ \E t \in Threads :
       /\ threadState[t] = "Free" /\ \A u \in 1 .. t - 1 : threadState[u] # "Free"
       /\ \/ /\ threadState' = [threadState EXCEPT ![t] = "Ready"]
             /\ startRoutine' = [startRoutine EXCEPT ![t] = routine]
             /\ context' = [context EXCEPT ![t] = t]
          \/ /\ threadState' = [threadState EXCEPT ![t] = "Leaked"]
             /\ UNCHANGED <<startRoutine, context>>
  /\ UNCHANGED <<readied, runQueue, currentThread, reschedulePending, remainingTicks,
                 cpu, pc, thunkThread, machine>>

PsCreateKernelThread == CreateThread("kernel")
PsCreateUserThread   == CreateThread("user")

(* Every caller readies the thread it has just created, once. *)
PsReadyThread(t) ==
  /\ At("body")
  /\ threadState[t] = "Ready" /\ t \notin readied
  /\ readied' = readied \cup {t}
  /\ runQueue' = PspRunQueuePush(runQueue, t)
  /\ UNCHANGED <<threadState, currentThread, reschedulePending, remainingTicks,
                 startRoutine, context, cpu, pc, thunkThread, machine>>

(* KiArchSwitchContext saves the running stream in the previous thread and *)
(* resumes what the next thread's context holds.  A context resumed once   *)
(* is stale until it is saved again.  Resuming it a second time runs over  *)
(* frames that have been popped or are in use: the machine is "corrupt"    *)
(* and the model says nothing about what follows.                          *)
SwitchWithoutSave(prev, next) ==             \* mutant: prev's stream is not saved
  IF context[next] = Stale
  THEN machine' = "corrupt" /\ UNCHANGED <<context, cpu>>
  ELSE /\ context' = [context EXCEPT ![next] = Stale]
       /\ cpu' = context[next]
       /\ UNCHANGED machine
KiArchSwitchContext(prev, next) ==
  IF context[next] = Stale
  THEN machine' = "corrupt" /\ UNCHANGED <<context, cpu>>
  ELSE /\ context' = [context EXCEPT ![prev] = cpu, ![next] = Stale]
       /\ cpu' = context[next]
       /\ UNCHANGED machine

RequeueAnyPrevious(prev) == prev # NoThread       \* mutant: dead threads come back
RequeuePrevious(prev) == prev # NoThread /\ threadState[prev] = "Running"

SwitchFromRunning(prev, next) ==      \* mutant: a dying thread does not switch away
  prev \notin {NoThread, next} /\ threadState[prev] = "Running"
SwitchNeeded(prev, next) == prev \notin {NoThread, next}

(* Not modelled: HalSetKernelStackPointer and MmActivateAddressSpace set   *)
(* the stack and the page tables of the thread that becomes current.       *)
PsDispatch ==
  /\ machine = "up" /\ pc[cpu] \in InDispatch
  /\ Goto(AfterDispatch(pc[cpu], runQueue.head # NoThread))
  /\ UNCHANGED <<readied, reschedulePending, startRoutine, thunkThread>>
  /\ \/ /\ runQueue.head = NoThread
        /\ UNCHANGED <<threadState, runQueue, currentThread, remainingTicks,
                       context, cpu, machine>>
     \/ /\ runQueue.head # NoThread
        /\ LET next == runQueue.head
               prev == currentThread
               rest == PspRunQueuePop(runQueue)
               requeued == {t \in {prev} : RequeuePrevious(t)}
           IN  /\ runQueue' = IF requeued = {} THEN rest ELSE PspRunQueuePush(rest, prev)
               /\ threadState' = [t \in Threads |->
                                    IF t = next THEN "Running"
                                    ELSE IF t \in requeued THEN "Ready"
                                    ELSE threadState[t]]
               /\ remainingTicks' = TimeSlice
               /\ currentThread' = next
               /\ IF SwitchNeeded(prev, next)
                  THEN KiArchSwitchContext(prev, next)
                  ELSE UNCHANGED <<context, cpu, machine>>

(* PsYieldThread up to its call of PsDispatch.  NK_ASSERT halts if the     *)
(* current thread is not running.                                          *)
PsYieldThread ==
  /\ At("body")
  /\ UNCHANGED <<threadState, readied, runQueue, currentThread, remainingTicks,
                 startRoutine, context, cpu, thunkThread>>
  /\ \/ /\ currentThread = NoThread
        /\ UNCHANGED <<reschedulePending, pc, machine>>
     \/ /\ currentThread # NoThread
        /\ IF threadState[currentThread] = "Running"
           THEN reschedulePending' = FALSE /\ Goto("dispatch") /\ UNCHANGED machine
           ELSE machine' = "halted" /\ UNCHANGED <<reschedulePending, pc>>

PsHandlePreemptionPoint == reschedulePending /\ PsYieldThread

(* PsExitCurrentThread and PsBlockCurrentThread up to PsDispatch: the      *)
(* current thread is forgotten first, so PsDispatch will not switch.       *)
LeaveCurrent(newState, label) ==
  /\ UNCHANGED <<readied, runQueue, reschedulePending, remainingTicks,
                 startRoutine, context, cpu, thunkThread, machine>>
  /\ \/ /\ currentThread = NoThread
        /\ Goto("body")
        /\ UNCHANGED <<threadState, currentThread>>
     \/ /\ currentThread # NoThread
        /\ threadState' = [threadState EXCEPT ![currentThread] = newState]
        /\ currentThread' = NoThread
        /\ Goto(label)

PsExitCurrentThread == At("body") /\ LeaveCurrent("Dead", "dispatch")

PsBlockCurrentThread == At("body") /\ LeaveCurrent("Blocked", "dispatch_block")

WakeAnyThread(t) == t \notin {NoThread, currentThread}   \* mutant: no state check
WakeNeeded(t) == threadState[t] = "Blocked"

PsWakeThread(t) ==
  /\ At("body")
  /\ WakeNeeded(t)
  /\ threadState' = [threadState EXCEPT ![t] = "Ready"]
  /\ runQueue' = PspRunQueuePush(runQueue, t)
  /\ UNCHANGED <<readied, currentThread, reschedulePending, remainingTicks,
                 startRoutine, context, cpu, pc, thunkThread, machine>>

(* The timer interrupt: HalpTimerInterruptHandler calls only this.  It may *)
(* come at any step; interrupts that are masked only remove some of these. *)
TicksAfter(n) == IF n > 0 THEN n - 1 ELSE 0

PsOnTimerTick ==
  /\ machine = "up"
  /\ currentThread # NoThread
  /\ remainingTicks' = TicksAfter(remainingTicks)
  /\ reschedulePending' = (reschedulePending \/ remainingTicks' = 0)
  /\ UNCHANGED <<threadState, readied, runQueue, currentThread, startRoutine,
                 context, cpu, pc, thunkThread, machine>>

(* The loop of PspThreadEntryThunk: enter user mode, from where only       *)
(* system calls come back into the kernel, or run the start routine once,  *)
(* then die.  CurrentThread is a local that is read once per turn.         *)
PspThreadEntryThunk ==
  /\ At("entry")
  /\ UNCHANGED <<readied, runQueue, currentThread, reschedulePending,
                 remainingTicks, context, cpu>>
  /\ \/ /\ currentThread = NoThread
        /\ machine' = "halted"
        /\ UNCHANGED <<threadState, startRoutine, pc, thunkThread>>
     \/ /\ currentThread # NoThread
        /\ thunkThread' = [thunkThread EXCEPT ![cpu] = currentThread]
        /\ UNCHANGED machine
        /\ \/ /\ startRoutine[currentThread] = "user"
              /\ Goto("body")
              /\ UNCHANGED <<threadState, startRoutine>>
           \/ /\ startRoutine[currentThread] = "kernel"
              /\ startRoutine' = [startRoutine EXCEPT ![currentThread] = "none"]
              /\ Goto("body")
              /\ UNCHANGED threadState
           \/ /\ startRoutine[currentThread] = "none"
              /\ threadState' = [threadState EXCEPT ![currentThread] = "Dead"]
              /\ Goto("dispatch_thunk")
              /\ UNCHANGED startRoutine

(* The start routine returns into the thunk. *)
ThreadReturns ==
  /\ At("body")
  /\ cpu # Boot /\ startRoutine[thunkThread[cpu]] # "user"
  /\ threadState' = [threadState EXCEPT ![thunkThread[cpu]] = "Dead"]
  /\ Goto("dispatch_thunk")
  /\ UNCHANGED <<readied, runQueue, currentThread, reschedulePending,
                 remainingTicks, startRoutine, context, cpu, thunkThread,
                 machine>>

-----------------------------------------------------------------------------
(* Threads that only yield, reach preemption points and return. *)
CooperativeNext ==
  \/ PsCreateKernelThread
  \/ PsCreateUserThread
  \/ \E t \in Threads : PsReadyThread(t)
  \/ PsYieldThread
  \/ PsHandlePreemptionPoint
  \/ PsDispatch
  \/ PsOnTimerTick
  \/ PspThreadEntryThunk
  \/ ThreadReturns

(* Each next-state relation made of these actions also records whether     *)
(* gPsCurrentThread was ever cleared by a block or an exit.                *)
RecordForgetting == forgotten' = (forgotten \/ currentThread' = NoThread)

(* Every scheduler call. *)
SchedNext ==
  /\ \/ CooperativeNext
     \/ PsExitCurrentThread
     \/ PsBlockCurrentThread
     \/ \E t \in Threads : PsWakeThread(t)
  /\ RecordForgetting

(* Every thread keeps reaching preemption points, the timer keeps ticking, *)
(* and a thread inside PsDispatch or the thunk gets on with it.            *)
SchedFairness ==
  /\ WF_schedVars(PsHandlePreemptionPoint /\ RecordForgetting)
  /\ WF_schedVars(PsOnTimerTick /\ RecordForgetting)
  /\ WF_schedVars(PsDispatch /\ RecordForgetting)
  /\ WF_schedVars(PspThreadEntryThunk /\ RecordForgetting)

SchedSpec == PsInitialize /\ [][SchedNext]_schedVars /\ SchedFairness

-----------------------------------------------------------------------------
(* The run queue stays a finite chain that ends in its tail, and only a    *)
(* running thread is missing from it: a thread that is ready and was given *)
(* to PsReadyThread is never lost by a push or a pop.                      *)
ReadyThreadsQueued ==
  /\ WellFormed(runQueue)
  /\ \A t \in readied : threadState[t] = "Ready" => t \in Members(runQueue)

(* No thread runs while it is still queued and no blocked thread is queued *)
(* (PsDispatch would resume it before its wake-up), and only the current   *)
(* thread is in the Running state, whatever blocks, exits and wakes occur. *)
QueuedNotRunning ==
  /\ \A t \in Members(runQueue) : threadState[t] \in {"Ready", "Dead"}
  /\ \A t \in Threads : threadState[t] = "Running" => t = currentThread

(* Until a thread blocks or exits, the code that runs is that of the       *)
(* thread PsGetCurrentThread reports.                                      *)
CpuIsCurrent == ~forgotten => Owner(cpu) = currentThread

(* Until then every other live thread's saved context is its own stream,   *)
(* not yet resumed, and neither PspThreadEntryThunk nor an assertion halts *)
(* the machine.                                                            *)
ContextsAreOwn ==
  ~forgotten =>
    /\ machine = "up"
    /\ \A t \in Threads \ {currentThread} :
         threadState[t] = "Ready" => context[t] # Stale /\ Owner(context[t]) = t

(* Until then a thread whose start routine has returned never runs again.  *)
DeadStaysDead ==
  [][~forgotten =>
       \A t \in Threads : threadState[t] = "Dead" => threadState'[t] = "Dead"]_schedVars

(* A thread given to PsReadyThread is run in the end, and so is each       *)
(* thread that yields, unless a thread blocks or exits: the queue is FIFO  *)
(* and every slice expires.                                                *)
ReadyThreadRuns ==
  \A t \in Threads :
    threadState[t] = "Ready" /\ t \in readied ~> currentThread = t \/ forgotten
=============================================================================
