----------------------------- MODULE IpcPingPong -----------------------------
(***************************************************************************)
(* KeTestIpcPingPong of kernel/ke/validate.c, the in-kernel test of        *)
(* blocking receives: two worker threads send to each other through two    *)
(* ports while the boot thread ticks, passes a preemption point and yields *)
(* until both workers are done.  Threads other than these are user threads *)
(* that only yield, as init.kpe does while no key is pressed.              *)
(***************************************************************************)
EXTENDS LpcIpc

CONSTANT Iterations     \* of each worker; 1024 in the code

WorkerA == 2
WorkerB == 3
Workers == {WorkerA, WorkerB}
Users   == Threads \ {Bootstrap, WorkerA, WorkerB}
SendHandle(w) == IF w = WorkerA THEN 1 ELSE 2
RecvHandle(w) == IF w = WorkerA THEN 2 ELSE 1

VARIABLES
  step,     \* what each stream does next in its own code
  count     \* iterations each worker has finished

testVars == <<ipcVars, step, count>>

(* The test up to its loop: both ports exist, both workers are ready,      *)
(* behind a user thread that was there before.                             *)
UserQueue ==
  IF Users = {} THEN EmptyQueue(NoLinks)
  ELSE PspRunQueuePush(EmptyQueue(NoLinks), CHOOSE u \in Users : TRUE)

PingPongInit ==
  /\ threadState = [t \in Threads |-> IF t = Bootstrap THEN "Running" ELSE "Ready"]
  /\ readied = Threads
  /\ runQueue = PspRunQueuePush(PspRunQueuePush(UserQueue, WorkerA), WorkerB)
  /\ currentThread = Bootstrap
  /\ reschedulePending = FALSE
  /\ remainingTicks = TimeSlice
  /\ startRoutine = [t \in Threads |-> IF t \in Workers THEN "kernel"
                                      ELSE IF t \in Users THEN "user" ELSE "none"]
  /\ context = [t \in Threads |-> t]
  /\ cpu = Boot
  /\ pc = [s \in Streams |-> IF s \in Workers \cup {Bootstrap} THEN "entry" ELSE "body"]
  /\ thunkThread = [s \in Streams |-> NoThread]
  /\ machine = "up"
  /\ forgotten = FALSE
  /\ slotInUse = [p \in Slots |-> p <= 2]
  /\ slotHeader = [p \in Slots |-> IF p <= 2 THEN p ELSE NoHandle]
  /\ queue = [p \in Slots |-> <<>>]
  /\ waitHead = [p \in Slots |-> NoThread]
  /\ waitTail = [p \in Slots |-> NoThread]
  /\ waitNext = NoLinks
  /\ access = [h \in Handles |-> Rights]
  /\ lastHandle = 2
  /\ receiver = [s \in Streams |-> NoThread]
  /\ target = [s \in Streams |-> NoHandle]
  /\ result = "SUCCESS"
  /\ sent = [h \in Handles |-> <<>>]
  /\ received = [h \in Handles |-> <<>>]
  /\ step = [s \in Streams |-> IF s = Boot THEN "tick" ELSE "send"]
  /\ count = [w \in Workers |-> 0]

NextStep(label) == step' = [step EXCEPT ![cpu] = label]

(* KeIpcWorkerThread: send, receive with waiting, then perhaps a yield.    *)
(* A call that fails ends the worker.                                      *)
KeIpcWorkerThread(w) ==
  /\ At("body") /\ cpu = w
  /\ \/ /\ step[w] = "send"
        /\ LpcSendByHandle(SendHandle(w))
        /\ NextStep(IF result' = "SUCCESS" THEN "receive" ELSE "return")
        /\ UNCHANGED count
     \/ /\ step[w] = "receive"
        /\ LpcReceiveByHandle(RecvHandle(w), TRUE)
        /\ NextStep("received")
        /\ UNCHANGED count
     \/ /\ step[w] = "received"
        /\ count' = IF result = "SUCCESS" THEN [count EXCEPT ![w] = @ + 1] ELSE count
        /\ NextStep(IF result # "SUCCESS" \/ count'[w] = Iterations THEN "return"
                    ELSE "maybe_yield")
        /\ UNCHANGED ipcVars
     \/ /\ step[w] = "maybe_yield"
        /\ NextStep("send")
        /\ \/ UNCHANGED schedVars            \* the low bit of the timestamp is 0
           \/ PsYieldThread
        /\ UNCHANGED <<portVars, callVars, result, ghosts, count>>
     \/ /\ step[w] = "return"
        /\ ThreadReturns
        /\ UNCHANGED <<portVars, callVars, result, ghosts, step, count>>

(* The loop of KeTestIpcPingPong. *)
KeTestIpcPingPong ==
  /\ At("body") /\ cpu = Boot
  /\ UNCHANGED <<portVars, callVars, result, ghosts, count>>
  /\ \/ /\ step[Boot] = "tick"
        /\ IF currentThread = NoThread THEN UNCHANGED schedVars ELSE PsOnTimerTick
        /\ NextStep("preempt")
     \/ /\ step[Boot] = "preempt"
        /\ IF reschedulePending THEN PsYieldThread ELSE UNCHANGED schedVars
        /\ NextStep("yield")
     \/ /\ step[Boot] = "yield"
        /\ PsYieldThread
        /\ NextStep("check")
     \/ /\ step[Boot] = "check"
        /\ NextStep(IF \A w \in Workers : count[w] = Iterations THEN "done" ELSE "tick")
        /\ UNCHANGED schedVars

UserYields ==
  /\ cpu \in Users
  /\ Scheduling(PsYieldThread)
  /\ UNCHANGED <<step, count>>

KernelStep ==
  /\ Scheduling(PsDispatch \/ PspThreadEntryThunk \/ PsOnTimerTick) \/ ReceiveAgain
  /\ UNCHANGED <<step, count>>

PingPongNext ==
  /\ \/ \E w \in Workers : KeIpcWorkerThread(w)
     \/ KeTestIpcPingPong
     \/ UserYields
     \/ KernelStep
  /\ RecordForgetting

PingPongSpec == PingPongInit /\ [][PingPongNext]_testVars

(* The suite asserts that the test returns with success, so the machine    *)
(* must not be halted by PspThreadEntryThunk, nor resume a stale context,  *)
(* while the workers wait for each other's messages.                       *)
PingPongSurvives == machine = "up"
=============================================================================
