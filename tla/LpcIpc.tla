------------------------------- MODULE LpcIpc -------------------------------
(***************************************************************************)
(* The local ports of kernel/lpc/init.c on top of the scheduler: create,   *)
(* send, receive with or without waiting, and close, called by any thread  *)
(* in any order.                                                           *)
(*                                                                         *)
(* A port object is named by its one handle: ObManager shows that handle   *)
(* values are not reused.  The message ring of a port is the bounded FIFO  *)
(* that NkPort implements.  Each call references the port and drops the    *)
(* reference again before it gives up the CPU, so a port object lives      *)
(* exactly as long as its handle is open.                                  *)
(***************************************************************************)
EXTENDS PsScheduler, Sequences

CONSTANTS
  MaxPorts,     \* LPC_MAX_PORT_OBJECTS, slots of gLpcPortPool
  MaxCreates,   \* bound: how many ports are created in one behaviour
  MaxSends,     \* bound: how many messages are sent in one behaviour
  Depth         \* NK_PORT_QUEUE_DEPTH

ASSUME IpcConstants == {MaxPorts, MaxCreates, MaxSends, Depth} \subseteq Nat \ {0}

Slots    == 1 .. MaxPorts
Handles  == 1 .. MaxCreates
NoHandle == 0
Rights   == {"SEND", "RECV"}
Messages == 1 .. MaxSends       \* message n is the n-th one sent

VARIABLES
  slotInUse,    \* gLpcPortInUse
  slotHeader,   \* LPC_PORT_OBJECT.Header
  queue,        \* LPC_PORT_OBJECT.Port
  waitHead,     \* LPC_PORT_OBJECT.WaitHead
  waitTail,     \* LPC_PORT_OBJECT.WaitTail
  waitNext,     \* KTHREAD.WaitQueueNext
  access,       \* rights of each open handle, {} for a closed one
  lastHandle,   \* the newest handle
  receiver,     \* the local Current of a stream in LpcReceiveByHandle
  target,       \* the HandleValue a stream waits on
  result,       \* what the last port call returned
  sent,         \* ghost: all messages sent through each handle
  received      \* ghost: all messages received through each handle

portVars == <<slotInUse, slotHeader, queue, waitHead, waitTail, waitNext, access,
              lastHandle>>
callVars == <<receiver, target>>
ghosts   == <<sent, received>>
ipcVars  == <<schedVars, portVars, callVars, result, ghosts>>

-----------------------------------------------------------------------------
LpcInitialize ==
  /\ slotInUse = [p \in Slots |-> FALSE]
  /\ slotHeader = [p \in Slots |-> NoHandle]
  /\ queue = [p \in Slots |-> <<>>]
  /\ waitHead = [p \in Slots |-> NoThread]
  /\ waitTail = [p \in Slots |-> NoThread]
  /\ waitNext = NoLinks
  /\ access = [h \in Handles |-> {}]
  /\ lastHandle = NoHandle
  /\ receiver = [s \in Streams |-> NoThread]
  /\ target = [s \in Streams |-> NoHandle]
  /\ result = "SUCCESS"
  /\ sent = [h \in Handles |-> <<>>]
  /\ received = [h \in Handles |-> <<>>]

(* The slots that hold the port object of a handle. *)
LpcpFindPortByHeader(h) == {p \in Slots : slotInUse[p] /\ slotHeader[p] = h}

WaitQueue(p) == [head |-> waitHead[p], tail |-> waitTail[p], next |-> waitNext]
SetWaitQueue(p, q) ==
  /\ waitHead' = [waitHead EXCEPT ![p] = q.head]
  /\ waitTail' = [waitTail EXCEPT ![p] = q.tail]
  /\ waitNext' = q.next

KeepOldMessages(p) == queue                  \* mutant: indexes are not reset
NkPortInitialize(p) == [queue EXCEPT ![p] = <<>>]

(* The first free slot is claimed before the object exists.  If the object *)
(* table is full the slot stays claimed without a header; if the handle    *)
(* table is full the last dereference deletes the object and frees the     *)
(* slot.  Whether they are full depends on the rest of the kernel.         *)
LpcCreatePortHandle(rights) ==
  LET free == {p \in Slots : ~slotInUse[p]}
      p    == CHOOSE f \in free : \A g \in free : f <= g
      h    == lastHandle + 1
  IN
  /\ At("body")
  /\ UNCHANGED <<schedVars, callVars, ghosts, waitNext>>
  /\ \/ /\ free = {}
        /\ result' = "INIT_FAILED"
        /\ UNCHANGED portVars
     \/ /\ free # {}                               \* ObCreateObject fails
        /\ slotInUse' = [slotInUse EXCEPT ![p] = TRUE]
        /\ slotHeader' = [slotHeader EXCEPT ![p] = NoHandle]
        /\ SetWaitQueue(p, EmptyQueue(waitNext))
        /\ result' = "INIT_FAILED"
        /\ UNCHANGED <<queue, access, lastHandle>>
     \/ /\ free # {}                               \* ObInsertHandle fails
        /\ slotHeader' = [slotHeader EXCEPT ![p] = NoHandle]
        /\ queue' = NkPortInitialize(p)
        /\ SetWaitQueue(p, EmptyQueue(waitNext))
        /\ result' = "INIT_FAILED"
        /\ UNCHANGED <<slotInUse, access, lastHandle>>
     \/ /\ free # {}
        /\ lastHandle < MaxCreates                 \* bound
        /\ lastHandle' = h
        /\ slotInUse' = [slotInUse EXCEPT ![p] = TRUE]
        /\ slotHeader' = [slotHeader EXCEPT ![p] = h]
        /\ queue' = NkPortInitialize(p)
        /\ SetWaitQueue(p, EmptyQueue(waitNext))
        /\ access' = [access EXCEPT ![h] = rights]
        /\ result' = "SUCCESS"

(* LpcpReferencePortByHandle: the status of looking h up for one right. *)
LpcpReferencePortByHandle(h, right) ==
  IF access[h] = {} THEN "NOT_FOUND"
  ELSE IF right \notin access[h] THEN "ACCESS_DENIED"
  ELSE IF LpcpFindPortByHeader(h) = {} THEN "NOT_FOUND"
  ELSE "SUCCESS"

Lookup(h, right) == LpcpReferencePortByHandle(h, right)
PortOf(h) == CHOOSE p \in LpcpFindPortByHeader(h) : TRUE

PortIsFull(p) == Len(queue[p]) >= Depth

(* A send never waits.  It wakes the longest waiting thread, if that one   *)
(* is still blocked.                                                       *)
LpcSendByHandle(h) ==
  LET p == PortOf(h)
      m == Cardinality({x \in Handles \X Messages : x[2] <= Len(sent[x[1]])}) + 1
      w == waitHead[p]
  IN
  /\ At("body")
  /\ m <= MaxSends                                 \* bound
  /\ UNCHANGED <<callVars, received, slotInUse, slotHeader, access, lastHandle>>
  /\ UNCHANGED <<readied, currentThread, reschedulePending, remainingTicks,
                 startRoutine, context, cpu, pc, thunkThread, machine>>
  /\ \/ /\ Lookup(h, "SEND") # "SUCCESS"
        /\ result' = Lookup(h, "SEND")
        /\ UNCHANGED <<queue, waitHead, waitTail, waitNext, sent, threadState, runQueue>>
     \/ /\ Lookup(h, "SEND") = "SUCCESS"
        /\ PortIsFull(p)
        /\ result' = "WOULD_BLOCK"
        /\ UNCHANGED <<queue, waitHead, waitTail, waitNext, sent, threadState, runQueue>>
     \/ /\ Lookup(h, "SEND") = "SUCCESS"
        /\ ~PortIsFull(p)
        /\ queue' = [queue EXCEPT ![p] = Append(@, m)]
        /\ sent' = [sent EXCEPT ![h] = Append(@, m)]
        /\ IF w = NoThread
           THEN UNCHANGED <<waitHead, waitTail, waitNext, threadState, runQueue>>
           ELSE /\ SetWaitQueue(p, LpcpDequeueWaiter(WaitQueue(p)))
                /\ IF WakeNeeded(w)
                   THEN /\ threadState' = [threadState EXCEPT ![w] = "Ready"]
                        /\ runQueue' = PspRunQueuePush(runQueue, w)
                   ELSE UNCHANGED <<threadState, runQueue>>
        /\ result' = "SUCCESS"

(* One turn of the loop in LpcReceiveByHandle, for the thread that was     *)
(* current when the call was made.                                         *)
ReceiveTurn(h, current, wait) ==
  LET p == PortOf(h) IN
  /\ UNCHANGED <<sent, slotInUse, slotHeader, access, lastHandle>>
  /\ \/ /\ Lookup(h, "RECV") # "SUCCESS"
        /\ result' = Lookup(h, "RECV")
        /\ Goto("body")
        /\ UNCHANGED <<queue, waitHead, waitTail, waitNext, received, threadState,
                       currentThread>>
        /\ UNCHANGED <<readied, runQueue, reschedulePending, remainingTicks,
                       startRoutine, context, cpu, thunkThread, machine>>
     \/ /\ Lookup(h, "RECV") = "SUCCESS"
        /\ queue[p] # <<>>
        /\ queue' = [queue EXCEPT ![p] = Tail(@)]
        /\ received' = [received EXCEPT ![h] = Append(@, Head(queue[p]))]
        /\ result' = "SUCCESS"
        /\ Goto("body")
        /\ UNCHANGED <<waitHead, waitTail, waitNext, threadState, currentThread>>
        /\ UNCHANGED <<readied, runQueue, reschedulePending, remainingTicks,
                       startRoutine, context, cpu, thunkThread, machine>>
     \/ /\ Lookup(h, "RECV") = "SUCCESS"
        /\ queue[p] = <<>>
        /\ ~wait
        /\ result' = "WOULD_BLOCK"
        /\ Goto("body")
        /\ UNCHANGED <<queue, waitHead, waitTail, waitNext, received, threadState,
                       currentThread>>
        /\ UNCHANGED <<readied, runQueue, reschedulePending, remainingTicks,
                       startRoutine, context, cpu, thunkThread, machine>>
     \/ /\ Lookup(h, "RECV") = "SUCCESS"
        /\ queue[p] = <<>>
        /\ wait
        /\ SetWaitQueue(p, LpcpEnqueueWaiter(WaitQueue(p), current))
        /\ LeaveCurrent("Blocked", "dispatch_block")
        /\ result' = IF currentThread = NoThread THEN "INVALID_PARAMETER" ELSE result
        /\ UNCHANGED <<queue, received>>

LpcReceiveByHandle(h, wait) ==
  /\ At("body")
  /\ \/ /\ currentThread = NoThread
        /\ result' = "INVALID_PARAMETER"
        /\ UNCHANGED <<schedVars, portVars, callVars, ghosts>>
     \/ /\ currentThread # NoThread
        /\ receiver' = [receiver EXCEPT ![cpu] = currentThread]
        /\ target' = [target EXCEPT ![cpu] = h]
        /\ ReceiveTurn(h, currentThread, wait)

(* PsBlockCurrentThread has returned success: the loop turns again, still  *)
(* on behalf of the thread that made the call.                             *)
ReceiveAgain ==
  /\ At("recv")
  /\ ReceiveTurn(target[cpu], receiver[cpu], TRUE)
  /\ UNCHANGED callVars

(* The handle held the last reference, so closing it runs                  *)
(* LpcpDeletePortObject, which forgets the waiters without waking them.    *)
KeepPort(h) ==                               \* mutant: no delete routine runs
  UNCHANGED <<slotInUse, slotHeader, waitHead, waitTail>>
LpcpDeletePortObject(h) ==
  LET gone == LpcpFindPortByHeader(h) IN
  /\ slotInUse' = [p \in Slots |-> slotInUse[p] /\ p \notin gone]
  /\ slotHeader' = [p \in Slots |-> IF p \in gone THEN NoHandle ELSE slotHeader[p]]
  /\ waitHead' = [p \in Slots |-> IF p \in gone THEN NoThread ELSE waitHead[p]]
  /\ waitTail' = [p \in Slots |-> IF p \in gone THEN NoThread ELSE waitTail[p]]

LpcCloseHandle(h) ==
  /\ At("body")
  /\ UNCHANGED <<schedVars, callVars, ghosts, queue, waitNext, lastHandle>>
  /\ \/ /\ access[h] = {}
        /\ result' = "NOT_FOUND"
        /\ UNCHANGED <<slotInUse, slotHeader, waitHead, waitTail, access>>
     \/ /\ access[h] # {}
        /\ LpcpDeletePortObject(h)
        /\ access' = [access EXCEPT ![h] = {}]
        /\ result' = "SUCCESS"

-----------------------------------------------------------------------------
(* A step of the scheduler.  When PsDispatch fails inside a blocking       *)
(* receive, its status is what LpcReceiveByHandle returns.                 *)
Scheduling(A) ==
  /\ A
  /\ result' = IF pc[cpu] = "dispatch_block" /\ pc'[cpu] = "body" THEN "INIT_FAILED" ELSE result
  /\ UNCHANGED <<portVars, callVars, ghosts>>

IpcNext ==
  /\ \/ Scheduling(CooperativeNext)
     \/ Scheduling(PsExitCurrentThread)
     \/ ReceiveAgain
     \/ \E rights \in (SUBSET Rights) \ {{}} : LpcCreatePortHandle(rights)
     \/ \E h \in Handles : LpcSendByHandle(h)
     \/ \E h \in Handles, wait \in BOOLEAN : LpcReceiveByHandle(h, wait)
     \/ \E h \in Handles : LpcCloseHandle(h)
  /\ RecordForgetting

IpcInit == PsInitialize /\ LpcInitialize
IpcSpec == IpcInit /\ [][IpcNext]_ipcVars

-----------------------------------------------------------------------------
(* LpcpFindPortByHeader is unambiguous: an open handle has exactly one     *)
(* slot, and a slot with a header belongs to an open handle.               *)
HandlesHaveSlots ==
  /\ \A h \in Handles : access[h] # {} => Cardinality(LpcpFindPortByHeader(h)) = 1
  /\ \A p \in Slots : slotInUse[p] /\ slotHeader[p] # NoHandle => access[slotHeader[p]] # {}
  /\ \A p \in Slots : ~slotInUse[p] => waitHead[p] = NoThread /\ waitTail[p] = NoThread

(* What a port delivers is what was sent through its own handle, in that   *)
(* order, each message once, across blocking receives by several threads   *)
(* and reuse of the slot by a later port.                                  *)
PortsDeliverInOrder ==
  \A h \in Handles :
    LET rest == IF access[h] = {} THEN SubSeq(sent[h], Len(received[h]) + 1, Len(sent[h]))
                ELSE queue[PortOf(h)]
    IN  sent[h] = received[h] \o rest

(* PsWakeThread and PsBlockCurrentThread, called by senders and receivers  *)
(* with whatever waiter links a closed port has left in the threads, keep  *)
(* the run queue whole: no ready thread is lost from it, no blocked one is *)
(* on it and no thread is on it twice.                                     *)
RunQueueSound == ReadyThreadsQueued /\ QueuedNotRunning
=============================================================================
