--------------------------- MODULE IntrusiveQueue ---------------------------
(***************************************************************************)
(* The two singly linked queues of threads in the kernel: the run queue of *)
(* kernel/ps/init.c, linked through KTHREAD.RunQueueNext, and the wait     *)
(* queue of an LPC port in kernel/lpc/init.c, linked through               *)
(* KTHREAD.WaitQueueNext.  A queue is a head, a tail and the next-pointers *)
(* of all threads; 0 is the null pointer.  Nothing stops a thread from     *)
(* being pushed twice: that is the callers' business.                      *)
(***************************************************************************)
EXTENDS Naturals, FiniteSets

CONSTANT MaxThreads      \* PS_MAX_THREADS, slots of gPsThreadPool

ASSUME MaxThreadsAssumption == MaxThreads \in Nat \ {0}

Threads  == 1 .. MaxThreads
NoThread == 0

EmptyQueue(next) == [head |-> NoThread, tail |-> NoThread, next |-> next]
NoLinks == [t \in Threads |-> NoThread]

PushAtHead(q, t) ==                          \* mutant: a stack, not a queue
  [head |-> t, tail |-> IF q.tail = NoThread THEN t ELSE q.tail,
   next |-> [q.next EXCEPT ![t] = q.head]]
PspRunQueuePush(q, t) ==
  LET cleared == [q.next EXCEPT ![t] = NoThread] IN
  IF q.tail = NoThread
  THEN [head |-> t, tail |-> t, next |-> cleared]
  ELSE [head |-> q.head, tail |-> t, next |-> [cleared EXCEPT ![q.tail] = t]]

KeepTailOnEmpty(q) ==                        \* mutant: tail survives the last pop
  [q EXCEPT !.head = q.next[q.head], !.next[q.head] = NoThread]
PspRunQueuePop(q) ==
  [head |-> q.next[q.head],
   tail |-> IF q.next[q.head] = NoThread THEN NoThread ELSE q.tail,
   next |-> [q.next EXCEPT ![q.head] = NoThread]]

(* LpcpEnqueueWaiter and LpcpDequeueWaiter are the same code on the other  *)
(* pair of fields.                                                         *)
LpcpEnqueueWaiter(q, t) == PspRunQueuePush(q, t)
LpcpDequeueWaiter(q) == PspRunQueuePop(q)

-----------------------------------------------------------------------------
(* The k-th node from the head, counting from 0, or null past the end. *)
Node(q, k) ==
  LET node[i \in 0 .. MaxThreads] ==
        IF i = 0 THEN q.head
        ELSE IF node[i - 1] = NoThread THEN NoThread ELSE q.next[node[i - 1]]
  IN  node[k]

Members(q) == {Node(q, k) : k \in 0 .. MaxThreads} \ {NoThread}

(* The chain from the head ends within MaxThreads nodes, so it has no      *)
(* cycle and no thread occurs twice, and the tail is its last node.        *)
WellFormed(q) ==
  /\ Node(q, MaxThreads) = NoThread
  /\ q.head = NoThread <=> q.tail = NoThread
  /\ q.tail # NoThread => q.tail \in Members(q) /\ q.next[q.tail] = NoThread
=============================================================================
