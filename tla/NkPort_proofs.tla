---------------------------- MODULE NkPort_proofs ----------------------------
(***************************************************************************)
(* Proofs about the NK port, for every ring size and every set of messages *)
(***************************************************************************)
EXTENDS NkPort, SequenceTheorems, TLAPS

(* Remainder by the ring size, for the sums the ring computes. *)
LEMMA Wrap ==
  ASSUME NEW i \in Nat, i < 2 * Depth
  PROVE  i % Depth = IF i < Depth THEN i ELSE i - Depth
BY NkConstants

(* Head plus a count is at most one turn around the ring. *)
LEMMA WrapSum ==
  ASSUME NEW h \in Slots, NEW k \in 0 .. Depth
  PROVE  (h + k) % Depth = IF h + k < Depth THEN h + k ELSE h + k - Depth
BY NkConstants, Wrap DEF Slots

(* Advance steps to the next slot or back to the first. *)
LEMMA AdvanceTyped ==
  ASSUME NEW i \in Slots
  PROVE  Advance(i) = IF i + 1 = Depth THEN 0 ELSE i + 1
BY NkConstants, Wrap DEF Advance, Slots

(* The fields stay typed and Head, Tail and Count agree. *)
RingInv == NkTypeOK /\ RingConsistent

(* An initialised port is consistent. *)
LEMMA RingInvInit == NkInit => RingInv
BY NkConstants, Wrap DEF NkInit, RingInv, NkTypeOK, RingConsistent, Slots

(* NkPortInitialize, NkPortSend and NkPortReceive keep it consistent. *)
LEMMA RingInvNext == RingInv /\ [NkNext]_portVars => RingInv'
<1> SUFFICES ASSUME RingInv, [NkNext]_portVars PROVE RingInv'
  OBVIOUS
<1> USE NkConstants DEF RingInv, NkTypeOK, RingConsistent
<1>1. CASE NkPortInitialize
  BY <1>1, Wrap DEF NkPortInitialize, ResetIndexes, Slots
<1>2. ASSUME NEW m \in Messages \cup Oversize, NkPortSend(m)
      PROVE  RingInv'
  <2>1. CASE m \in Oversize \/ IsFull
    BY <1>2, <2>1 DEF NkPortSend
  <2>2. CASE m \notin Oversize /\ ~ IsFull
    <3>1. /\ portQueue' = [portQueue EXCEPT ![portTail] = m]
          /\ portTail' = Advance(portTail)
          /\ portCount' = portCount + 1
          /\ status' = "SUCCESS"
          /\ UNCHANGED <<portHead, out>>
      BY <1>2, <2>2 DEF NkPortSend
    <3>2. portCount < Depth
      BY <2>2 DEF IsFull
    <3>3. portQueue' \in [Slots -> Messages \cup {NoMessage}]
      BY <2>2, <3>1
    <3>4. portTail' \in Slots /\ portTail' = (portHead' + portCount') % Depth
      <4>1. portTail = IF portHead + portCount < Depth
                       THEN portHead + portCount ELSE portHead + portCount - Depth
        BY WrapSum
      <4>2. portTail' = IF portTail + 1 = Depth THEN 0 ELSE portTail + 1
        BY <3>1, AdvanceTyped
      <4>3. portCount + 1 \in 0 .. Depth
        BY <3>2
      <4>4. (portHead + (portCount + 1)) % Depth
              = IF portHead + (portCount + 1) < Depth
                THEN portHead + (portCount + 1) ELSE portHead + (portCount + 1) - Depth
        BY <4>3, WrapSum
      <4> QED BY <3>1, <3>2, <4>1, <4>2, <4>4 DEF Slots
    <3> QED BY <3>1, <3>2, <3>3, <3>4
  <2> QED BY <2>1, <2>2
<1>3. CASE NkPortReceive
  <2>1. CASE portCount = 0
    BY <1>3, <2>1 DEF NkPortReceive
  <2>2. CASE portCount # 0
    <3>1. /\ out' = portQueue[portHead]
          /\ portHead' = Advance(portHead)
          /\ portCount' = portCount - 1
          /\ status' = "SUCCESS"
          /\ UNCHANGED <<portQueue, portTail>>
      BY <1>3, <2>2 DEF NkPortReceive
    <3>2. portHead' \in Slots /\ portTail' = (portHead' + portCount') % Depth
      <4>1. portTail = IF portHead + portCount < Depth
                       THEN portHead + portCount ELSE portHead + portCount - Depth
        BY WrapSum
      <4>2. portHead' = IF portHead + 1 = Depth THEN 0 ELSE portHead + 1
        BY <3>1, AdvanceTyped
      <4>3. portHead' \in Slots /\ portCount' \in 0 .. Depth
        BY <2>2, <3>1, <4>2 DEF Slots
      <4>4. (portHead' + portCount') % Depth
              = IF portHead' + portCount' < Depth
                THEN portHead' + portCount' ELSE portHead' + portCount' - Depth
        BY <4>3, WrapSum
      <4> QED BY <2>2, <3>1, <4>1, <4>2, <4>3, <4>4 DEF Slots
    <3> QED BY <2>2, <3>1, <3>2
  <2> QED BY <2>1, <2>2
<1>4. CASE UNCHANGED portVars
  BY <1>4 DEF portVars
<1> QED BY <1>1, <1>2, <1>3, <1>4 DEF NkNext

(* Indexes inside the ring, count at most its size, and the three fields   *)
(* agree, in every reachable state.                                        *)
THEOREM RingStaysConsistent == NkSpec => [](NkTypeOK /\ RingConsistent)
BY RingInvInit, RingInvNext, PTL DEF NkSpec, RingInv

-----------------------------------------------------------------------------
(* The position in the ring of the i-th oldest message. *)
Position(i) == (portHead + i - 1) % Depth

(* Contents is a sequence of portCount messages. *)
LEMMA ContentsIsSeq ==
  ASSUME RingInv
  PROVE  /\ Contents \in Seq(Messages \cup {NoMessage})
         /\ Len(Contents) = portCount
         /\ \A i \in 1 .. portCount : /\ Position(i) \in Slots
                                       /\ Contents[i] = portQueue[Position(i)]
<1>1. \A i \in 1 .. portCount : Position(i) \in Slots
  BY NkConstants, Wrap DEF RingInv, NkTypeOK, Slots, Position
<1>2. \A i \in 1 .. portCount : Contents[i] = portQueue[Position(i)]
  BY DEF Contents, Position
<1>3. \A i \in 1 .. portCount : Contents[i] \in Messages \cup {NoMessage}
  BY <1>1, <1>2 DEF RingInv, NkTypeOK
<1>4. portCount \in Nat /\ Contents = [i \in 1 .. portCount |-> Contents[i]]
  BY NkConstants DEF RingInv, NkTypeOK, Contents
<1>5. Contents \in Seq(Messages \cup {NoMessage}) /\ Len(Contents) = portCount
  BY <1>3, <1>4
<1> QED BY <1>1, <1>2, <1>5

(* A message accepted by NkPortSend goes behind all the others, and the    *)
(* slot it takes holds none of them.                                       *)
LEMMA SendAppends ==
  ASSUME RingInv, RingInv', NEW m \in Messages,
         portCount < Depth,
         portQueue' = [portQueue EXCEPT ![portTail] = m],
         portCount' = portCount + 1,
         portHead' = portHead
  PROVE  Contents' = Append(Contents, m)
<1> DEFINE c == Contents
           d == Contents'
<1>1. /\ c \in Seq(Messages \cup {NoMessage}) /\ Len(c) = portCount
      /\ \A i \in 1 .. portCount : c[i] = portQueue[Position(i)]
  BY ContentsIsSeq
<1>2. d = [i \in 1 .. portCount + 1 |-> portQueue'[Position(i)]]
  BY DEF Contents, Position
<1>3. portCount \in Nat /\ portTail \in Slots /\ portHead \in Slots
  BY NkConstants DEF RingInv, NkTypeOK
<1>4. \A i \in 1 .. portCount : Position(i) \in Slots /\ Position(i) # portTail
  <2> SUFFICES ASSUME NEW i \in 1 .. portCount
               PROVE  Position(i) \in Slots /\ Position(i) # portTail
    OBVIOUS
  <2>1. i - 1 \in 0 .. Depth /\ portCount \in 0 .. Depth
    BY NkConstants DEF RingInv, NkTypeOK
  <2>2. Position(i) = (portHead + (i - 1)) % Depth
    BY <1>3 DEF Position, Slots
  <2>3. Position(i) = IF portHead + (i - 1) < Depth
                      THEN portHead + (i - 1) ELSE portHead + (i - 1) - Depth
    BY <1>3, <2>1, <2>2, WrapSum
  <2>4. portTail = IF portHead + portCount < Depth
                   THEN portHead + portCount ELSE portHead + portCount - Depth
    BY <1>3, <2>1, WrapSum DEF RingInv, RingConsistent
  <2> QED BY <1>3, <2>1, <2>3, <2>4, NkConstants DEF Slots
<1>5. Position(portCount + 1) = portTail
  BY <1>3 DEF RingInv, RingConsistent, Position, Slots
<1>6. \A i \in 1 .. portCount : d[i] = c[i]
  BY <1>1, <1>2, <1>3, <1>4 DEF RingInv, NkTypeOK
<1>7. d[portCount + 1] = m
  BY <1>2, <1>3, <1>5 DEF RingInv, NkTypeOK
<1> QED
  <2> HIDE DEF c, d
  <2>1. \A i \in 1 .. portCount + 1 : d[i] = Append(c, m)[i]
    BY <1>1, <1>3, <1>6, <1>7
  <2>2. /\ Append(c, m) \in Seq(Messages \cup {NoMessage})
        /\ Len(Append(c, m)) = portCount + 1
    BY <1>1, <1>3
  <2>3. \A i \in 1 .. portCount + 1 : d[i] \in Messages \cup {NoMessage}
    BY <1>1, <1>3, <1>6, <1>7
  <2>4. d = [i \in 1 .. portCount + 1 |-> d[i]] /\ portCount + 1 \in Nat
    BY <1>2, <1>3
  <2>5. d \in Seq(Messages \cup {NoMessage}) /\ Len(d) = portCount + 1
    BY <2>3, <2>4
  <2>6. d = Append(c, m)
    BY <2>1, <2>2, <2>5, SeqEqual
  <2> QED BY <2>6 DEF c, d

(* NkPortReceive delivers the oldest message and keeps the rest in order.  *)
LEMMA ReceiveRemovesHead ==
  ASSUME RingInv, RingInv',
         portCount # 0,
         portHead' = Advance(portHead),
         portCount' = portCount - 1,
         portQueue' = portQueue
  PROVE  /\ Contents # << >>
         /\ Contents' = Tail(Contents)
         /\ portQueue[portHead] = Head(Contents)
<1> DEFINE c == Contents
           d == Contents'
<1>1. /\ c \in Seq(Messages \cup {NoMessage}) /\ Len(c) = portCount
      /\ \A i \in 1 .. portCount : c[i] = portQueue[Position(i)]
  BY ContentsIsSeq
<1>2. portCount \in Nat /\ portHead \in 0 .. Depth - 1 /\ portCount <= Depth
  BY NkConstants DEF RingInv, NkTypeOK, Slots
<1>3. d = [i \in 1 .. portCount - 1 |-> portQueue[(Advance(portHead) + i - 1) % Depth]]
  BY DEF Contents
<1>4. \A i \in 1 .. portCount - 1 :
        (Advance(portHead) + i - 1) % Depth = Position(i + 1)
  <2> SUFFICES ASSUME NEW i \in 1 .. portCount - 1
               PROVE  (Advance(portHead) + i - 1) % Depth = Position(i + 1)
    OBVIOUS
  <2>1. portHead \in Slots /\ i \in 0 .. Depth /\ i - 1 \in 0 .. Depth
    BY <1>2, NkConstants DEF Slots
  <2>2. Advance(portHead) = IF portHead + 1 = Depth THEN 0 ELSE portHead + 1
    BY <2>1, AdvanceTyped
  <2>3. Advance(portHead) \in Slots
    BY <2>1, <2>2, NkConstants DEF Slots
  <2>4. (Advance(portHead) + (i - 1)) % Depth
          = IF Advance(portHead) + (i - 1) < Depth
            THEN Advance(portHead) + (i - 1) ELSE Advance(portHead) + (i - 1) - Depth
    BY <2>1, <2>3, WrapSum
  <2>5. (portHead + i) % Depth = IF portHead + i < Depth
                                 THEN portHead + i ELSE portHead + i - Depth
    BY <2>1, WrapSum
  <2>6. /\ Position(i + 1) = (portHead + i) % Depth
        /\ Advance(portHead) + i - 1 = Advance(portHead) + (i - 1)
    BY <2>1, <2>3 DEF Position, Slots
  <2> QED BY <1>2, <2>1, <2>2, <2>3, <2>4, <2>5, <2>6, NkConstants DEF Slots
<1>5. \A i \in 1 .. portCount - 1 : d[i] = c[i + 1]
  BY <1>1, <1>2, <1>3, <1>4
<1>6. c[1] = portQueue[portHead]
  BY <1>1, <1>2, NkConstants, Wrap DEF Position
<1> HIDE DEF c, d
<1>7. c # << >> /\ portQueue[portHead] = Head(c)
  BY <1>1, <1>2, <1>6
<1>8. d = Tail(c)
  <2>1. /\ Tail(c) \in Seq(Messages \cup {NoMessage})
        /\ Len(Tail(c)) = portCount - 1
        /\ \A i \in 1 .. portCount - 1 : Tail(c)[i] = c[i + 1]
    BY <1>1, <1>7, HeadTailProperties
  <2>2. \A i \in 1 .. portCount - 1 : d[i] \in Messages \cup {NoMessage}
    BY <1>1, <1>2, <1>5
  <2>3. d = [i \in 1 .. portCount - 1 |-> d[i]] /\ portCount - 1 \in Nat
    BY <1>2, <1>3
  <2>4. d \in Seq(Messages \cup {NoMessage}) /\ Len(d) = portCount - 1
    BY <2>2, <2>3
  <2> QED BY <1>5, <2>1, <2>4, SeqEqual
<1> QED BY <1>7, <1>8 DEF c, d

(* An initialised port stands for the empty queue. *)
LEMMA FifoInit == NkInit => Fifo!Init
<1> SUFFICES ASSUME NkInit PROVE Fifo!Init
  OBVIOUS
<1>1. Contents = << >>
  BY DEF NkInit, Contents
<1> QED BY <1>1 DEF NkInit, Fifo!Init

(* Every step of the port is a step of the queue or changes nothing. *)
LEMMA FifoNext ==
  RingInv /\ RingInv' /\ [NkNext]_portVars => [Fifo!Next]_<<Contents, out, status>>
<1> SUFFICES ASSUME RingInv, RingInv', [NkNext]_portVars
             PROVE  [Fifo!Next]_<<Contents, out, status>>
  OBVIOUS
<1>u. ASSUME UNCHANGED <<portQueue, portHead, portCount>>
      PROVE  Contents' = Contents
  BY <1>u DEF Contents
<1>1. CASE NkPortInitialize
  <2>1. Contents' = << >>
    BY <1>1 DEF NkPortInitialize, ResetIndexes, Contents
  <2> QED BY <1>1, <2>1 DEF NkPortInitialize, Fifo!Next, Fifo!Reset
<1>2. ASSUME NEW m \in Messages \cup Oversize, NkPortSend(m)
      PROVE  Fifo!Accept(m) \/ Fifo!Refuse(m)
  <2>1. CASE m \in Oversize
    BY <1>2, <2>1, <1>u DEF NkPortSend, Fifo!Refuse
  <2>2. CASE m \notin Oversize /\ IsFull
    <3>1. Len(Contents) = Depth
      BY <2>2, ContentsIsSeq, NkConstants DEF IsFull, RingInv, NkTypeOK
    <3> QED BY <1>2, <2>2, <3>1, <1>u DEF NkPortSend, Fifo!Refuse
  <2>3. CASE m \notin Oversize /\ ~ IsFull
    <3>1. portCount < Depth
      BY <2>3, NkConstants DEF IsFull, RingInv, NkTypeOK
    <3>2. Contents' = Append(Contents, m)
      BY <1>2, <2>3, <3>1, SendAppends DEF NkPortSend
    <3>3. Len(Contents) < Depth
      BY <3>1, ContentsIsSeq
    <3> QED BY <1>2, <2>3, <3>2, <3>3 DEF NkPortSend, Fifo!Accept
  <2> QED BY <2>1, <2>2, <2>3
<1>3. CASE NkPortReceive
  <2>1. CASE portCount = 0
    <3>1. Contents = << >>
      BY <2>1 DEF Contents
    <3> QED BY <1>3, <2>1, <3>1, <1>u DEF NkPortReceive, Fifo!Next, Fifo!Empty
  <2>2. CASE portCount # 0
    <3>1. /\ Contents # << >>
          /\ Contents' = Tail(Contents)
          /\ portQueue[portHead] = Head(Contents)
      BY <1>3, <2>2, ReceiveRemovesHead DEF NkPortReceive
    <3> QED BY <1>3, <2>2, <3>1 DEF NkPortReceive, Fifo!Next, Fifo!Deliver
  <2> QED BY <2>1, <2>2
<1>4. CASE UNCHANGED portVars
  BY <1>4, <1>u DEF portVars
<1> QED BY <1>1, <1>2, <1>3, <1>4 DEF NkNext, Fifo!Next

(* The ring buffer implements the bounded FIFO queue for every ring size   *)
(* and every set of messages.                                              *)
THEOREM PortImplementsFifo == NkSpec => ImplementsFifo
BY RingInvInit, RingInvNext, FifoInit, FifoNext, PTL
DEF NkSpec, ImplementsFifo, Fifo!Spec
=============================================================================
