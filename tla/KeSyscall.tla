------------------------------ MODULE KeSyscall ------------------------------
(***************************************************************************)
(* The system calls of kernel/ke/syscall.c that name objects by handle:    *)
(* files, ports, sections and processes, all in one handle table and one   *)
(* pool of object headers.  Each kind of object also has a pool of its own *)
(* that finds an object again by the address of its header, so a header    *)
(* that comes back as an object of another kind must not be found there.   *)
(*                                                                         *)
(* A call is a sequence of object manager operations, done one at a time;  *)
(* nothing else changes these objects until it returns, for the timer's    *)
(* handler only sets a flag.  A receive that waits gives up the CPU        *)
(* (LpcIpc); when it is woken it starts again with the lookup of its       *)
(* handle, as a new call here may do at any time.                          *)
(*                                                                         *)
(* A message is its number and its length; addresses are those of a        *)
(* machine with AddressModulus bytes.                                      *)
(***************************************************************************)
EXTENDS IoFile

CONSTANTS
  MaxPorts,        \* LPC_MAX_PORT_OBJECTS
  MaxSections,     \* MM_MAX_SECTION_OBJECTS
  MaxProcesses,    \* PS_MAX_PROCESSES
  MaxThreads,      \* PS_MAX_THREADS
  MaxViews,        \* MM_MAX_VA_REGIONS less the regions of other types
  Depth,           \* NK_PORT_QUEUE_DEPTH
  PointerBytes,    \* size of the values that calls write to an address
  PayloadMax,      \* NK_MESSAGE_PAYLOAD_BYTES
  UserTop,         \* KI_USER_ADDRESS_TOP
  KernelBase,      \* KI_KERNEL_ADDRESS_BASE
  AddressModulus,  \* 2^64: addresses are uint64_t
  Masks,           \* access masks that callers pass
  Buffers,         \* buffers <<address, length>> that callers pass
  MaxSends         \* bound on the messages ever sent

ASSUME SyscallConstants ==
  /\ {MaxPorts, MaxSections, MaxProcesses, MaxThreads, MaxViews, Depth, PayloadMax}
       \subseteq Nat \ {0}
  /\ {UserTop, KernelBase, AddressModulus} \subseteq Nat
  /\ UserTop <= KernelBase /\ KernelBase < AddressModulus
  /\ Masks \subseteq SUBSET Rights
  /\ Buffers \subseteq (0 .. AddressModulus - 1) \X (0 .. AddressModulus - 1)

(* The types in the order in which gExBootModules creates them. *)
SectionType == 1
ProcessType == 3
ThreadType  == 4
PortType    == 5
RecvAccess  == {1}            \* LPC_PORT_ACCESS_RECV
SendAccess  == {2}
PortAccessAll    == {1, 2}
SectionAccessAll == {1, 2}    \* MM_SECTION_ACCESS_MAP_READ, MAP_WRITE
PortSlots    == 1 .. MaxPorts
SectionSlots == 1 .. MaxSections
Messages     == 1 .. MaxSends

VARIABLES
  portInUse,      \* gLpcPortInUse, and Header and Port of each LPC_PORT_OBJECT
  portHeader,
  portQueue,
  sectionInUse,   \* gMmSectionInUse and the Header of each section
  sectionHeader,
  processes,      \* how many slots of gPsProcessPool and gPsThreadPool are in
  threads,        \*   use; none is ever given back
  views,          \* BackingObject of each section region of the caller
  sentOn,         \* ghost: id of the port object each message was sent to
  delivered,      \* ghost: messages copied out, with the id of their port
  discarded,      \* ghost: messages taken by a receive whose buffer was too short
  gone            \* ghost: messages queued on a port that was deleted

portVars    == <<portInUse, portHeader, portQueue>>
sectionVars == <<sectionInUse, sectionHeader>>
psVars      == <<processes, threads>>
messageVars == <<sentOn, delivered, discarded>>
keVars      == <<ioVars, portVars, sectionVars, psVars, views, messageVars, gone>>

KeInit ==
  /\ IoInit
  /\ portInUse = {} /\ sectionInUse = {}
  /\ portHeader = [s \in PortSlots |-> NoObject]
  /\ portQueue = [s \in PortSlots |-> <<>>]
  /\ sectionHeader = [s \in SectionSlots |-> NoObject]
  /\ processes = 0 /\ threads = 0
  /\ views = <<>>
  /\ sentOn = <<>> /\ delivered = {} /\ discarded = {} /\ gone = {}

(* ExInitializeExecutive: each subsystem creates its types in turn. *)
CreateTypes ==
  /\ At("boot") /\ typeInUse # 1 .. FileType - 1
  /\ ObCreateType
  /\ call' = IF PortType \in typeInUse' THEN Idle ELSE call
  /\ UNCHANGED <<bootFiles, fileVars, opened>>

-----------------------------------------------------------------------------
(* The delete routines of ports and sections.  A port's messages stay in   *)
(* its slot until NkPortInitialize.                                        *)
Deleted(t) == {o \in objectInUse \ objectInUse' : objectType[o] = t}
FreedPorts == {s \in portInUse : portHeader[s] \in Deleted(PortType)}
FreedSections == {s \in sectionInUse : sectionHeader[s] \in Deleted(SectionType)}

LpcpDeletePortObject ==
  /\ portInUse' = portInUse \ FreedPorts
  /\ portHeader' = [s \in PortSlots |-> IF s \in FreedPorts THEN NoObject ELSE portHeader[s]]
  /\ gone' = gone \cup UNION {{portQueue[s][i].number : i \in DOMAIN portQueue[s]} : s \in FreedPorts}

MmpDeleteSectionObject ==
  /\ sectionInUse' = sectionInUse \ FreedSections
  /\ sectionHeader' = [s \in SectionSlots |->
                         IF s \in FreedSections THEN NoObject ELSE sectionHeader[s]]

DeleteRoutines == LpcpDeletePortObject /\ MmpDeleteSectionObject

-----------------------------------------------------------------------------
NoWrapCheck(a, n) ==                         \* mutant: End < Address is not refused
  LET end == (a + n) % AddressModulus IN
  a # 0 /\ n # 0 /\ \/ a < UserTop /\ end <= UserTop
                    \/ a >= KernelBase /\ end >= a

(* KipIsRangeWritable is the same test. *)
KipIsRangeReadable(a, n) ==
  LET end == (a + n) % AddressModulus IN
  /\ a # 0 /\ n # 0
  /\ end >= a
  /\ \/ a < UserTop /\ end <= UserTop
     \/ a >= KernelBase /\ end >= a

(* A call whose buffer fails the test, or of an unknown number. *)
RefuseCall(b) ==
  /\ At("idle")
  /\ ~KipIsRangeReadable(b[1], b[2])
  /\ Fail("INVALID_PARAMETER")
  /\ UNCHANGED <<bootFiles, fileVars, call, opened, portVars, sectionVars, psVars,
                 views, messageVars, gone>>

Accept(b) == At("idle") /\ KipIsRangeReadable(b[1], b[2])
AcceptPointer(b) == Accept(b) /\ b[2] = PointerBytes

-----------------------------------------------------------------------------
KeepMessages(s) == portQueue                 \* mutant: the ring is not reset
NkPortInitialize(s) == [portQueue EXCEPT ![s] = <<>>]

(* KipSysCreatePort and LpcCreatePortHandle.  If ObCreateObject fails the  *)
(* slot stays in use without a header.                                     *)
KipSysCreatePort(access) ==
  /\ At("idle")
  /\ nextObjectId <= MaxCreates /\ inserts < MaxInserts        \* bounds
  /\ UNCHANGED <<bootFiles, fileVars, opened, portQueue, sectionVars, psVars, views,
                 messageVars, gone>>
  /\ \/ /\ PortSlots \ portInUse = {}
        /\ Fail("INIT_FAILED")
        /\ UNCHANGED <<call, portInUse, portHeader>>
     \/ \E s \in PortSlots \ portInUse :
          /\ IsFirst(s, PortSlots \ portInUse)
          /\ portInUse' = portInUse \cup {s}
          /\ portHeader' = [portHeader EXCEPT ![s] = NoObject]
          /\ call' = [Idle EXCEPT !.step = "createPort", !.slot = s, !.access = access]
          /\ UNCHANGED obVars

CreatePort ==
  /\ At("createPort")
  /\ ObCreateObject(PortType, PortAccessAll)
  /\ IF status' = "SUCCESS"
     THEN /\ portHeader' = [portHeader EXCEPT ![call.slot] = NewObject]
          /\ portQueue' = NkPortInitialize(call.slot)
          /\ call' = [call EXCEPT !.step = "insert", !.object = NewObject]
     ELSE UNCHANGED <<portHeader, portQueue>> /\ call' = Idle
  /\ UNCHANGED <<bootFiles, fileVars, opened, portInUse, sectionVars, psVars, views,
                 messageVars, gone>>

(* KipSysCreateSection and MmCreateSectionHandle: an empty mask asks for   *)
(* all access.  If ObCreateObject fails the slot is given back.            *)
KipSysCreateSection(access, b) ==
  /\ AcceptPointer(b)
  /\ nextObjectId <= MaxCreates /\ inserts < MaxInserts        \* bounds
  /\ UNCHANGED <<bootFiles, fileVars, opened, portVars, psVars, views, messageVars, gone>>
  /\ \/ /\ SectionSlots \ sectionInUse = {}
        /\ Fail("INIT_FAILED")
        /\ UNCHANGED <<call, sectionVars>>
     \/ \E s \in SectionSlots \ sectionInUse :
          /\ IsFirst(s, SectionSlots \ sectionInUse)
          /\ sectionInUse' = sectionInUse \cup {s}
          /\ sectionHeader' = [sectionHeader EXCEPT ![s] = NoObject]
          /\ call' = [Idle EXCEPT !.step = "createSection", !.slot = s,
                        !.access = IF access = {} THEN SectionAccessAll ELSE access]
          /\ UNCHANGED obVars

(* The pages may run out, which deletes the object again. *)
CreateSection ==
  /\ At("createSection")
  /\ ObCreateObject(SectionType, SectionAccessAll)
  /\ IF status' = "SUCCESS"
     THEN /\ sectionHeader' = [sectionHeader EXCEPT ![call.slot] = NewObject]
          /\ UNCHANGED sectionInUse
          /\ \E next \in {"insert", "drop"} :
               call' = [call EXCEPT !.step = next, !.object = NewObject]
     ELSE /\ sectionInUse' = sectionInUse \ {call.slot}
          /\ UNCHANGED sectionHeader
          /\ call' = Idle
  /\ UNCHANGED <<bootFiles, fileVars, opened, portVars, psVars, views, messageVars, gone>>

-----------------------------------------------------------------------------
(* The slots LpcpFindPortByHeader and MmpFindSectionByHeader accept. *)
LpcpFindPortByHeader(o) == {s \in portInUse : portHeader[s] = o}
MmpFindSectionByHeader(o) == {s \in sectionInUse : sectionHeader[s] = o}
FirstOf(S) == IF S = {} THEN NoSlot ELSE CHOOSE s \in S : \A t \in S : s <= t

(* LpcpReferencePortByHandle, for a message or a buffer of some length. *)
ReferencePort(v, access, next, length) ==
  /\ ObReferenceObjectByHandle(v, access, PortType)
  /\ call' = IF status' = "SUCCESS"
             THEN [Idle EXCEPT !.step = next, !.object = ObjectOf(v), !.size = length,
                     !.slot = FirstOf(LpcpFindPortByHeader(ObjectOf(v)))]
             ELSE Idle
  /\ UNCHANGED <<bootFiles, fileVars, opened, portVars, sectionVars, psVars, views,
                 messageVars, gone>>

KipSysSend(v, b) ==
  /\ Accept(b) /\ b[2] <= PayloadMax
  /\ Len(sentOn) < MaxSends \/ \A s \in portInUse : Len(portQueue[s]) = Depth     \* bound
  /\ ReferencePort(v, SendAccess, "send", b[2])

KipSysReceive(v, b) ==
  /\ Accept(b) /\ b[2] <= PayloadMax
  /\ ReferencePort(v, RecvAccess, "receive", b[2])

(* The end of a call that holds a reference on its object. *)
ReturnObject ==
  /\ ObDereferenceObject(call.object)
  /\ RunDeleteRoutine
  /\ DeleteRoutines
  /\ call' = Idle
  /\ UNCHANGED <<bootFiles, opened, psVars>>

(* NkPortSend; a full port, or none for the header, loses nothing. *)
SendDone ==
  /\ At("send")
  /\ IF call.slot # NoSlot /\ Len(portQueue[call.slot]) < Depth
     THEN /\ portQueue' = [portQueue EXCEPT ![call.slot] =
                             Append(@, [number |-> Len(sentOn) + 1, length |-> call.size])]
          /\ sentOn' = Append(sentOn, objectId[call.object])
     ELSE UNCHANGED <<portQueue, sentOn>>
  /\ UNCHANGED <<delivered, discarded, views>>
  /\ ReturnObject

TooLong(m) == m.length > call.size

(* NkPortReceive takes the message; only then is its length compared with  *)
(* the buffer.  On an empty port the call fails, or waits (see above).     *)
ReceiveDone ==
  LET m == Head(portQueue[call.slot]) IN
  /\ At("receive")
  /\ IF call.slot = NoSlot \/ portQueue[call.slot] = <<>>
     THEN UNCHANGED <<portQueue, delivered, discarded>>
     ELSE /\ portQueue' = [portQueue EXCEPT ![call.slot] = Tail(@)]
          /\ IF TooLong(m)
             THEN discarded' = discarded \cup {m.number} /\ UNCHANGED delivered
             ELSE /\ delivered' = delivered \cup
                       {[number |-> m.number, port |-> objectId[call.object],
                         whole |-> m.length <= call.size]}
                  /\ UNCHANGED discarded
  /\ UNCHANGED <<sentOn, views>>
  /\ ReturnObject

-----------------------------------------------------------------------------
(* KipSysMapSection and MmMapSectionHandle. *)
KipSysMapSection(v, write, b) ==
  /\ AcceptPointer(b)
  /\ Len(views) < MaxViews
  /\ ObReferenceObjectByHandle(v, IF write THEN {1, 2} ELSE {1}, SectionType)
  /\ call' = IF status' = "SUCCESS"
             THEN [Idle EXCEPT !.step = "map", !.object = ObjectOf(v),
                     !.slot = FirstOf(MmpFindSectionByHeader(ObjectOf(v)))]
             ELSE Idle
  /\ UNCHANGED <<bootFiles, fileVars, opened, portVars, sectionVars, psVars, views,
                 messageVars, gone>>

LetGo == ReturnObject                        \* mutant: a view holds no reference
(* The reference on the section stays with the region. *)
HoldReference ==
  /\ call' = Idle
  /\ UNCHANGED <<obVars, bootFiles, fileVars, opened, portInUse, portHeader, sectionVars,
                 psVars, gone>>

MapDone ==
  /\ At("map")
  /\ IF call.slot = NoSlot
     THEN ReturnObject /\ UNCHANGED views
     ELSE HoldReference /\ views' = Append(views, call.object)
  /\ UNCHANGED <<portQueue, messageVars>>

-----------------------------------------------------------------------------
KipSysCreateProcessFromBuffer(b) ==
  /\ Accept(b)
  /\ call' = [Idle EXCEPT !.step = "process"]
  /\ UNCHANGED <<obVars, bootFiles, fileVars, opened, portVars, sectionVars, psVars,
                 views, messageVars, gone>>

(* PsSpawnUserKpeFromBuffer: the image may be refused (KpeLoad); or a      *)
(* process object is made, which no failure after it gives back: of the    *)
(* object pool, of memory, or of a check of the thread's first pages.      *)
SpawnProcess ==
  /\ At("process")
  /\ \/ /\ Fail("INVALID_PARAMETER")
        /\ call' = Idle
        /\ UNCHANGED processes
     \/ /\ processes < MaxProcesses
        /\ nextObjectId < MaxCreates                            \* bound
        /\ processes' = processes + 1
        /\ ObCreateObject(ProcessType, Rights)
        /\ \E next \in {"idle", "thread"} :
             call' = [Idle EXCEPT !.step = IF status' = "SUCCESS" THEN next ELSE "idle"]
  /\ UNCHANGED <<bootFiles, fileVars, opened, portVars, sectionVars, threads, views,
                 messageVars, gone>>

(* PsCreateUserThread for the new process. *)
SpawnThread ==
  /\ At("thread")
  /\ IF threads = MaxThreads
     THEN Fail("INIT_FAILED") /\ UNCHANGED threads
     ELSE ObCreateObject(ThreadType, Rights) /\ threads' = threads + 1
  /\ call' = Idle
  /\ UNCHANGED <<bootFiles, fileVars, opened, portVars, sectionVars, processes, views,
                 messageVars, gone>>

-----------------------------------------------------------------------------
(* The calls of the I/O manager, with the delete routines they may run. *)
KipSysOpen(p, access, b) == Accept(b) /\ IoOpenPath(p, access)
KipSysRead(v, b) == Accept(b) /\ IoReadFileHandle(v)
KipSysCreateProcessFromFileHandle(v, b) ==
  (b[1] = 0 \/ AcceptPointer(b)) /\ IoSpawnProcessFromFileHandle(v)
KipSysClose(v) == IoCloseFileHandle(v)
KipSysCloseHandle(v) == KipSysClose(v)            \* LpcCloseHandle is ObCloseHandle too

FileCalls ==
  /\ \/ \E p \in Paths, access \in Masks, b \in Buffers : KipSysOpen(p, access, b)
     \/ \E v \in UserHandles, b \in Buffers :
          KipSysRead(v, b) \/ KipSysCreateProcessFromFileHandle(v, b)
     \/ \E v \in UserHandles : KipSysCloseHandle(v)
     \/ \E p \in OtherPaths : IoRegisterBootFile(p)
  /\ DeleteRoutines
  /\ UNCHANGED <<portQueue, psVars, views, messageVars>>

(* The boot, or the call that is under way. *)
InProgress ==
  \/ /\ IoInitialize \/ CreateTypes \/ IoInProgress
     /\ DeleteRoutines
     /\ UNCHANGED <<portQueue, psVars, views, messageVars>>
  \/ CreatePort \/ CreateSection \/ SendDone \/ ReceiveDone \/ MapDone
  \/ SpawnProcess \/ SpawnThread

(* KiDispatchSystemCall *)
KiDispatchSystemCall ==
  \/ FileCalls
  \/ \E access \in Masks : KipSysCreatePort(access)
  \/ \E access \in Masks, b \in Buffers : KipSysCreateSection(access, b)
  \/ \E v \in UserHandles, b \in Buffers : KipSysSend(v, b) \/ KipSysReceive(v, b)
  \/ \E v \in UserHandles, write \in BOOLEAN, b \in Buffers : KipSysMapSection(v, write, b)
  \/ \E b \in Buffers : KipSysCreateProcessFromBuffer(b) \/ RefuseCall(b)

KeNext == InProgress \/ KiDispatchSystemCall
KeSpec == KeInit /\ [][KeNext]_keVars /\ WF_keVars(InProgress)

-----------------------------------------------------------------------------
PoolAgrees(t, inUse, header) ==
  /\ \A o \in objectInUse : objectType[o] = t => Cardinality({s \in inUse : header[s] = o}) = 1
  /\ \A s \in inUse : header[s] # NoObject =>
       header[s] \in objectInUse /\ objectType[header[s]] = t

(* The pools of files, ports and sections agree with the object pool:      *)
(* every live object has exactly one slot of its own kind, a slot with a   *)
(* header names a live object of that kind, and every view of a section    *)
(* names a live section, closed or not, however headers and slots are      *)
(* reused by the others.                                                   *)
PoolsMatchObjects ==
  /\ PoolAgrees(FileType, fileInUse, fileHeader)
  /\ PoolAgrees(PortType, portInUse, portHeader)
  /\ PoolAgrees(SectionType, sectionInUse, sectionHeader)
  /\ \A i \in DOMAIN views :
       views[i] \in objectInUse /\ objectType[views[i]] = SectionType

Queued == UNION {{portQueue[s][i].number : i \in DOMAIN portQueue[s]} :
                   s \in {p \in portInUse : portHeader[p] # NoObject}}

(* Every message a send accepted is in exactly one place: queued on the    *)
(* port it was sent to, copied out whole through that port, gone with that *)
(* port, or taken by a receive whose buffer was too short.                 *)
MessagesAccounted ==
  LET received == {d.number : d \in delivered}
      places == {Queued, received, discarded, gone}
  IN
  /\ Cardinality(Queued) + Cardinality(received) + Cardinality(discarded) + Cardinality(gone)
       = Len(sentOn)
  /\ UNION places = 1 .. Len(sentOn)
  /\ \A d \in delivered : d.whole /\ d.port = sentOn[d.number]
  /\ \A s \in portInUse, i \in 1 .. Depth :
       portHeader[s] # NoObject /\ i <= Len(portQueue[s]) =>
         sentOn[portQueue[s][i].number] = objectId[portHeader[s]]

(* A buffer that a call accepts lies wholly below the top of the user      *)
(* addresses or wholly among the kernel's, and does not wrap around:       *)
(* KipIsRangeReadable adds the length in 64 bits.                          *)
BuffersInOneHalf ==
  \A a, n \in 0 .. AddressModulus - 1 : Accept(<<a, n>>) =>
    \/ a + n <= UserTop
    \/ KernelBase <= a /\ a + n < AddressModulus
=============================================================================
