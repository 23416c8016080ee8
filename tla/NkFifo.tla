------------------------------- MODULE NkFifo -------------------------------
(***************************************************************************)
(* What an NK port promises its users: a bounded first-in first-out queue  *)
(* of whole messages.  No message is lost, duplicated, altered or          *)
(* reordered; a send to a full port and a receive from an empty one are    *)
(* refused and change nothing; a port that is set up again starts empty.   *)
(***************************************************************************)
EXTENDS Naturals, Sequences

CONSTANTS
  Depth,      \* NK_PORT_QUEUE_DEPTH
  Messages,   \* messages with Length <= NK_MESSAGE_PAYLOAD_BYTES
  Oversize,   \* messages with a larger Length
  NoMessage   \* a zeroed message

VARIABLES
  fifo,       \* the messages sent and not yet received, oldest first
  out,        \* the caller's receive buffer
  status      \* the KSTATUS the last call returned

Init == fifo = << >> /\ out = NoMessage /\ status = "SUCCESS"

Reset == fifo' = << >> /\ status' = "SUCCESS" /\ UNCHANGED out

Accept(m) ==
  /\ m \in Messages /\ Len(fifo) < Depth
  /\ fifo' = Append(fifo, m) /\ status' = "SUCCESS" /\ UNCHANGED out

Refuse(m) ==
  /\ \/ m \in Oversize /\ status' = "INVALID_PARAMETER"
     \/ m \in Messages /\ Len(fifo) = Depth /\ status' = "INIT_FAILED"
  /\ UNCHANGED <<fifo, out>>

Deliver ==
  fifo # << >> /\ fifo' = Tail(fifo) /\ out' = Head(fifo) /\ status' = "SUCCESS"

Empty == fifo = << >> /\ status' = "INIT_FAILED" /\ UNCHANGED <<fifo, out>>

Next ==
  \/ Reset
  \/ \E m \in Messages \cup Oversize : Accept(m) \/ Refuse(m)
  \/ Deliver
  \/ Empty

Spec == Init /\ [][Next]_<<fifo, out, status>>
=============================================================================
