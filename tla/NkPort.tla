------------------------------- MODULE NkPort -------------------------------
(***************************************************************************)
(* The NK port of kernel/nk/core.c: a ring of NK_PORT_QUEUE_DEPTH messages *)
(* with a head, a tail and a count.  The service endpoints of nk/core.c    *)
(* forward to it, and every LPC port object contains one.                  *)
(*                                                                         *)
(* A message is an atom; only whether its Length fits matters to the code. *)
(* Callers run with interrupts off or never share a port with a handler,   *)
(* so each call is one step.                                               *)
(***************************************************************************)
EXTENDS Naturals, Sequences

CONSTANTS
  Depth,      \* NK_PORT_QUEUE_DEPTH
  Messages,   \* messages with Length <= NK_MESSAGE_PAYLOAD_BYTES
  Oversize,   \* messages with a larger Length
  NoMessage   \* a zeroed message

ASSUME NkConstants ==
  /\ Depth \in Nat \ {0}
  /\ Messages \cap Oversize = {}
  /\ NoMessage \notin Messages \cup Oversize

VARIABLES
  portQueue, portHead, portTail, portCount,   \* the fields of NK_PORT
  out,                                        \* the caller's receive buffer
  status                                      \* the KSTATUS of the last call

portVars == <<portQueue, portHead, portTail, portCount, out, status>>

Slots == 0 .. Depth - 1

Advance(i) == (i + 1) % Depth

IsFull == portCount >= Depth

KeepTail == portHead' = 0 /\ portCount' = 0 /\ UNCHANGED portTail    \* mutant
KeepCount == portHead' = 0 /\ portTail' = 0 /\ UNCHANGED portCount   \* mutant
ResetIndexes == portHead' = 0 /\ portTail' = 0 /\ portCount' = 0

(* The pool is static storage, so the first NkPortInitialize finds zeroes. *)
NkInit ==
  /\ portQueue = [i \in Slots |-> NoMessage]
  /\ portHead = 0 /\ portTail = 0 /\ portCount = 0
  /\ out = NoMessage
  /\ status = "SUCCESS"

(* LpcCreatePortHandle sets a recycled port up again. *)
NkPortInitialize ==
  /\ portQueue' = [i \in Slots |-> NoMessage]
  /\ ResetIndexes
  /\ status' = "SUCCESS"
  /\ UNCHANGED out

NkPortSend(m) ==
  \/ /\ m \in Oversize
     /\ status' = "INVALID_PARAMETER"
     /\ UNCHANGED <<portQueue, portHead, portTail, portCount, out>>
  \/ /\ m \notin Oversize
     /\ IsFull
     /\ status' = "INIT_FAILED"
     /\ UNCHANGED <<portQueue, portHead, portTail, portCount, out>>
  \/ /\ m \notin Oversize
     /\ ~ IsFull
     /\ portQueue' = [portQueue EXCEPT ![portTail] = m]
     /\ portTail' = Advance(portTail)
     /\ portCount' = portCount + 1
     /\ status' = "SUCCESS"
     /\ UNCHANGED <<portHead, out>>

NkPortReceive ==
  \/ /\ portCount = 0
     /\ status' = "INIT_FAILED"
     /\ UNCHANGED <<portQueue, portHead, portTail, portCount, out>>
  \/ /\ portCount # 0
     /\ out' = portQueue[portHead]
     /\ portHead' = Advance(portHead)
     /\ portCount' = portCount - 1
     /\ status' = "SUCCESS"
     /\ UNCHANGED <<portQueue, portTail>>

NkNext ==
  \/ NkPortInitialize
  \/ \E m \in Messages \cup Oversize : NkPortSend(m)
  \/ NkPortReceive

NkSpec == NkInit /\ [][NkNext]_portVars

-----------------------------------------------------------------------------
(* The fields of a port keep their types: the indexes stay inside the ring *)
(* and the count never exceeds its size.                                   *)
NkTypeOK ==
  /\ portQueue \in [Slots -> Messages \cup {NoMessage}]
  /\ portHead \in Slots /\ portTail \in Slots
  /\ portCount \in 0 .. Depth
  /\ out \in Messages \cup {NoMessage}
  /\ status \in {"SUCCESS", "INVALID_PARAMETER", "INIT_FAILED"}

(* Head, tail and count are redundant and must agree: the tail is the head *)
(* advanced by the count.                                                  *)
RingConsistent == portTail = (portHead + portCount) % Depth

(* The queue of messages the ring stands for. *)
Contents == [i \in 1 .. portCount |-> portQueue[(portHead + i - 1) % Depth]]

Fifo == INSTANCE NkFifo WITH fifo <- Contents

(* The ring implements the bounded queue of NkFifo through Contents:       *)
(* NkPortSend, NkPortReceive and a repeated NkPortInitialize lose,         *)
(* duplicate and reorder nothing, full or empty, before or after a wrap.   *)
ImplementsFifo == Fifo!Spec
=============================================================================
