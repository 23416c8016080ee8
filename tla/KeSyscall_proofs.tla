-------------------------- MODULE KeSyscall_proofs --------------------------
(***************************************************************************)
(* Proofs about the system calls, for every size of the pools and every    *)
(* sequence of calls, on top of the proofs about the object manager.       *)
(***************************************************************************)
EXTENDS KeSyscall, ObManager_proofs

(* A buffer that a call accepts never crosses from the user addresses to   *)
(* the kernel's and never wraps around 2^64: the one comparison of the     *)
(* wrapped end with the start is enough.                                   *)
THEOREM AcceptedBuffersInOneHalf == KeSpec => []BuffersInOneHalf
<1>1. BuffersInOneHalf
  <2> SUFFICES ASSUME NEW a \in 0 .. AddressModulus - 1,
                      NEW n \in 0 .. AddressModulus - 1,
                      KipIsRangeReadable(a, n)
               PROVE  \/ a + n <= UserTop
                      \/ KernelBase <= a /\ a + n < AddressModulus
    BY DEF BuffersInOneHalf, Accept
  <2>1. /\ UserTop \in Nat /\ KernelBase \in Nat /\ AddressModulus \in Nat
        /\ UserTop <= KernelBase /\ KernelBase < AddressModulus
    BY SyscallConstants
  <2>2. (a + n) % AddressModulus = IF a + n < AddressModulus THEN a + n
                                   ELSE a + n - AddressModulus
    BY <2>1
  <2> QED
    BY <2>1, <2>2 DEF KipIsRangeReadable
<1> QED BY <1>1, PTL

-----------------------------------------------------------------------------
(***************************************************************************)
(* The calls use the object manager as it asks to be used.  What a call    *)
(* gives back it holds: from the step that makes or references an object   *)
(* to the step that drops it the call has one reference, and every view of *)
(* a section has one.  And the types a call names exist, for no call is    *)
(* made before the last subsystem has created its type.                    *)
(***************************************************************************)
HoldingSteps == {"lookup", "insert", "drop", "read", "spawn", "send", "receive", "map"}

CallSteps == HoldingSteps \cup {"boot", "idle", "create", "createPort", "createSection",
                              "again", "process", "thread"}
CallRecords ==
  [step : CallSteps, slot : Nat, object : Objects \cup {NoObject}, handle : UserHandles,
   path : Paths \cup {""}, file : Nat, access : SUBSET Rights, size : Nat]

CallTyped ==
  /\ call \in CallRecords
  /\ call.step \in HoldingSteps => call.object \in Objects
  /\ At("idle") => call = Idle

TypesInOrder == \A t \in typeInUse : 1 .. t \subseteq typeInUse
TypesReady == ~ At("boot") => PortType \in typeInUse

ViewsOf(o) == {i \in DOMAIN views : views[i] = o}
CallHolds(o) == call.step \in HoldingSteps /\ call.object = o
HoldersCounted ==
  \A o \in Objects :
    /\ Cardinality(ViewsOf(o)) <= held[o]
    /\ CallHolds(o) => Cardinality(ViewsOf(o)) + 1 <= held[o]

CallInv ==
  /\ CallTyped
  /\ TypesInOrder /\ TypesReady
  /\ views \in Seq(Objects) /\ HoldersCounted

LEMMA ViewsOfFinite ==
  ASSUME views \in Seq(Objects), NEW o
  PROVE  IsFiniteSet(ViewsOf(o)) /\ Cardinality(ViewsOf(o)) \in Nat
<1>1. Len(views) \in Nat /\ DOMAIN views = 1 .. Len(views)
  OBVIOUS
<1>2. IsFiniteSet(1 .. Len(views))
  BY <1>1, FS_Interval
<1>3. ViewsOf(o) \subseteq 1 .. Len(views)
  BY <1>1 DEF ViewsOf
<1> QED BY <1>2, <1>3, FS_Subset, FS_CardinalityType

(* The calls' types exist once the boot is over. *)
LEMMA TypesExist ==
  ASSUME CallInv, ~ At("boot")
  PROVE  {FileType, SectionType, ProcessType, ThreadType, PortType} \subseteq typeInUse
BY DEF CallInv, TypesInOrder, TypesReady, FileType, SectionType, ProcessType,
   ThreadType, PortType

(* A step that keeps the counts and the views, and under which the call    *)
(* holds no other object than before.                                      *)
LEMMA HoldersKept ==
  ASSUME HoldersCounted, UNCHANGED <<views, held>>,
         call'.step \in HoldingSteps => CallHolds(call'.object)
  PROVE  HoldersCounted'
<1>1. \A o : ViewsOf(o)' = ViewsOf(o)
  BY DEF ViewsOf
<1>2. \A o : CallHolds(o)' => CallHolds(o)
  BY DEF CallHolds
<1> QED
  BY <1>1, <1>2 DEF HoldersCounted

(* A new object, which nobody refers to yet, with its creator's reference. *)
LEMMA HoldersCreate ==
  ASSUME RefInv, views \in Seq(Objects), HoldersCounted, UNCHANGED views,
         NEW o \in Objects \ objectInUse, held' = [held EXCEPT ![o] = 1],
         call'.step \in HoldingSteps => call'.object = o
  PROVE  HoldersCounted'
<1>1. \A p : ViewsOf(p)' = ViewsOf(p) /\ Cardinality(ViewsOf(p)) \in Nat
  BY ViewsOfFinite DEF ViewsOf
<1>2. held \in [Objects -> Nat] /\ held[o] = 0
  BY RefInvNoDangling DEF RefInv, ObTypeOK, NoDanglingReference, HeldObjects
<1>3. Cardinality(ViewsOf(o)) = 0
  BY <1>1, <1>2 DEF HoldersCounted
<1>4. \A p : CallHolds(p)' => p = o
  BY DEF CallHolds
<1> QED
  BY <1>1, <1>2, <1>3, <1>4 DEF HoldersCounted

(* A reference for a call that holds none. *)
LEMMA HoldersReference ==
  ASSUME ObTypeOK, views \in Seq(Objects), HoldersCounted, UNCHANGED views,
         NEW o \in Objects, held' = [held EXCEPT ![o] = @ + 1],
         call'.step \in HoldingSteps => call'.object = o
  PROVE  HoldersCounted'
<1>1. \A p : ViewsOf(p)' = ViewsOf(p) /\ Cardinality(ViewsOf(p)) \in Nat
  BY ViewsOfFinite DEF ViewsOf
<1>2. held \in [Objects -> Nat]
  BY DEF ObTypeOK
<1>3. \A p : CallHolds(p)' => p = o
  BY DEF CallHolds
<1> QED
  BY <1>1, <1>2, <1>3 DEF HoldersCounted

(* The call gives back what it holds. *)
LEMMA HoldersDrop ==
  ASSUME ObTypeOK, views \in Seq(Objects), HoldersCounted, UNCHANGED views,
         NEW o \in Objects, CallHolds(o), held' = [held EXCEPT ![o] = @ - 1],
         call'.step \notin HoldingSteps
  PROVE  HoldersCounted'
<1>1. \A p : ViewsOf(p)' = ViewsOf(p) /\ Cardinality(ViewsOf(p)) \in Nat
  BY ViewsOfFinite DEF ViewsOf
<1>2. held \in [Objects -> Nat]
  BY DEF ObTypeOK
<1>3. \A p : ~ CallHolds(p)'
  BY DEF CallHolds
<1> QED
  BY <1>1, <1>2, <1>3 DEF HoldersCounted

(* The call leaves its reference with a view. *)
LEMMA HoldersMap ==
  ASSUME ObTypeOK, views \in Seq(Objects), HoldersCounted, UNCHANGED held,
         NEW o \in Objects, CallHolds(o), views' = Append(views, o),
         call'.step \notin HoldingSteps
  PROVE  HoldersCounted' /\ views' \in Seq(Objects)
<1> DEFINE n == Len(views) + 1
<1>1. /\ n \in Nat /\ DOMAIN views = 1 .. n - 1 /\ DOMAIN views' = 1 .. n
      /\ views'[n] = o /\ \A i \in 1 .. n - 1 : views'[i] = views[i]
      /\ views' \in Seq(Objects)
  OBVIOUS
<1>2. \A p \in Objects \ {o} : ViewsOf(p)' = ViewsOf(p)
  BY <1>1 DEF ViewsOf
<1>3. ViewsOf(o)' = ViewsOf(o) \cup {n} /\ n \notin ViewsOf(o)
  BY <1>1 DEF ViewsOf
<1>4. Cardinality(ViewsOf(o)') = Cardinality(ViewsOf(o)) + 1
  BY <1>3, ViewsOfFinite, FS_AddElement
<1>5. \A p : ~ CallHolds(p)'
  BY DEF CallHolds
<1> QED
  BY <1>1, <1>2, <1>4, <1>5 DEF HoldersCounted

-----------------------------------------------------------------------------
(* What the operations of the object manager do for a call. *)
LEMMA NewObjectMade ==
  ASSUME NEW t, NEW mask, ObCreateObject(t, mask), status' = "SUCCESS"
  PROVE  /\ NewObject \in Objects \ objectInUse
         /\ CreatesObject(NewObject, t)
         /\ held' = [held EXCEPT ![NewObject] = 1]
         /\ UNCHANGED <<typeVars, entryVars>>
<1>1. ~ Fail("INIT_FAILED")
  BY DEF Fail
<1>2. PICK o \in Objects \ objectInUse :
        /\ CreatesObject(o, t)
        /\ held' = [held EXCEPT ![o] = 1]
        /\ UNCHANGED <<typeVars, entryVars>>
  BY <1>1, Zenon DEF ObCreateObject, CreatesObject
<1>3. objectInUse' \ objectInUse = {o}
  BY <1>2 DEF CreatesObject
<1>4. NewObject = o
  BY <1>3 DEF NewObject
<1> QED BY <1>2, <1>4

LEMMA NoObjectMade ==
  ASSUME NEW t, NEW mask, ObCreateObject(t, mask), status' # "SUCCESS"
  PROVE  Fail("INIT_FAILED")
BY DEF ObCreateObject

LEMMA UseCreate ==
  ASSUME RefInv, CallInv, ~ At("boot"),
         NEW t \in {FileType, SectionType, ProcessType, ThreadType, PortType},
         NEW mask \in SUBSET Rights, ObCreateObject(t, mask),
         UNCHANGED views, CallTyped', ~ At("boot")',
         call'.step \in HoldingSteps => status' = "SUCCESS" /\ call'.object = NewObject
  PROVE  ObStep /\ CallInv'
<1>1. t \in typeInUse
  BY TypesExist
<1>2. ObStep
  BY <1>1 DEF ObStep, ObNext
<1>3. UNCHANGED typeInUse
  BY DEF ObCreateObject, Fail, typeVars
<1>4. HoldersCounted'
  <2>1. CASE status' = "SUCCESS"
    BY <2>1, NewObjectMade, HoldersCreate DEF CallInv
  <2>2. CASE status' # "SUCCESS"
    <3>1. UNCHANGED held
      BY <2>2, NoObjectMade DEF Fail
    <3> QED BY <2>2, <3>1, HoldersKept DEF CallInv
  <2> QED BY <2>1, <2>2
<1> QED
  BY <1>2, <1>3, <1>4 DEF CallInv, TypesInOrder, TypesReady, At

(* A call that fails before it reaches the object manager, or does not     *)
(* need it.                                                                *)
LEMMA UseNothing ==
  ASSUME CallInv, UNCHANGED obVars \/ \E s \in Statuses : Fail(s),
         UNCHANGED views, CallTyped', At("boot")' <=> At("boot"),
         call'.step \in HoldingSteps => CallHolds(call'.object)
  PROVE  ObStep /\ CallInv'
<1>1. ObStep
  BY DEF ObStep
<1>2. UNCHANGED <<typeInUse, held>>
  BY DEF obVars, typeVars, Fail
<1> QED
  BY <1>1, <1>2, HoldersKept DEF CallInv, TypesInOrder, TypesReady

(* A lookup that succeeds takes a reference on the object that ObjectOf    *)
(* names: the first entry with the value is the only first one.            *)
LEMMA ObjectFound ==
  ASSUME RefInv, NEW v, NEW desired, NEW expected \in Types,
         ObReferenceObjectByHandle(v, desired, expected), status' = "SUCCESS"
  PROVE  /\ PoolUnchanged /\ TableUnchanged /\ UNCHANGED typeVars
         /\ v # 0
         /\ ObjectOf(v) \in objectInUse
         /\ objectType[ObjectOf(v)] = expected
         /\ held' = [held EXCEPT ![ObjectOf(v)] = @ + 1]
         /\ \E e \in entryInUse : entryHandle[e] = v /\ entryObject[e] = ObjectOf(v)
<1>1. \A s \in {"INVALID_PARAMETER", "NOT_FOUND", "ACCESS_DENIED"} : ~ Fail(s)
  BY DEF Fail
<1>2. PICK e \in ObpFindHandleEntry(v) :
        /\ v # 0
        /\ IsFirst(e, ObpFindHandleEntry(v))
        /\ expected \in {NoType, objectType[entryObject[e]]}
        /\ held' = [held EXCEPT ![entryObject[e]] = @ + 1]
        /\ UNCHANGED <<typeVars, entryVars, objectInUse, nextObjectId,
                       objectId, objectType, defaultAccess, deleteCount>>
  BY <1>1 DEF ObReferenceObjectByHandle
<1>3. \A f \in ObpFindHandleEntry(v) : f \in Nat
  <2>1. \A f \in ObpFindHandleEntry(v) : f \in 1 .. MaxHandles
    BY DEF ObpFindHandleEntry, RefInv, ObTypeOK, Entries
  <2> QED BY <2>1, ObConstants
<1>4. \A f \in ObpFindHandleEntry(v) : IsFirst(f, ObpFindHandleEntry(v)) => f = e
  BY <1>2, <1>3 DEF IsFirst
<1>5. ObjectOf(v) = entryObject[e]
  BY <1>2, <1>4 DEF ObjectOf
<1>6. e \in entryInUse /\ entryHandle[e] = v
  BY DEF ObpFindHandleEntry
<1>7. entryObject[e] \in objectInUse
  BY <1>6, RefInvNoDangling DEF NoDanglingReference
<1>8. expected # NoType
  BY DEF Types, NoType
<1> QED
  BY <1>2, <1>5, <1>6, <1>7, <1>8 DEF PoolUnchanged, TableUnchanged, entryVars

LEMMA ObjectNotFound ==
  ASSUME NEW v, NEW desired, NEW expected,
         ObReferenceObjectByHandle(v, desired, expected), status' # "SUCCESS"
  PROVE  \E s \in Statuses : Fail(s)
BY DEF ObReferenceObjectByHandle, Statuses

LEMMA UseReference ==
  ASSUME RefInv, CallInv, ~ At("boot"), NEW v \in UserHandles,
         NEW desired \in SUBSET Rights, NEW expected \in {FileType, SectionType, PortType},
         ObReferenceObjectByHandle(v, desired, expected),
         UNCHANGED views, CallTyped', ~ At("boot")',
         call'.step \in HoldingSteps => status' = "SUCCESS" /\ call'.object = ObjectOf(v)
  PROVE  ObStep /\ CallInv'
<1>1. expected \in typeInUse /\ expected \in Types
  BY TypesExist DEF RefInv, ObTypeOK
<1>2. ObStep
  BY <1>1 DEF ObStep, ObNext
<1>3. CASE status' = "SUCCESS"
  <2>1. UNCHANGED typeInUse
    BY <1>1, <1>3, ObjectFound DEF typeVars
  <2>2. ObjectOf(v) \in Objects /\ held' = [held EXCEPT ![ObjectOf(v)] = @ + 1]
    BY <1>1, <1>3, ObjectFound DEF RefInv, ObTypeOK
  <2>3. HoldersCounted'
    BY <2>2, HoldersReference DEF CallInv, RefInv
  <2> QED BY <1>2, <2>1, <2>3 DEF CallInv, TypesInOrder, TypesReady, At
<1>4. CASE status' # "SUCCESS"
  <2>1. UNCHANGED <<typeInUse, held>>
    BY <1>4, ObjectNotFound DEF Fail, typeVars
  <2> QED BY <1>2, <1>4, <2>1, HoldersKept DEF CallInv, TypesInOrder, TypesReady, At
<1> QED BY <1>3, <1>4

LEMMA HolderIsHeld ==
  ASSUME RefInv, CallInv, call.step \in HoldingSteps
  PROVE  call.object \in HeldObjects /\ CallHolds(call.object)
<1>1. call.object \in Objects /\ CallHolds(call.object)
  BY DEF CallInv, CallTyped, CallHolds
<1>2. Cardinality(ViewsOf(call.object)) \in Nat /\ held[call.object] \in Nat
  BY <1>1, ViewsOfFinite DEF CallInv, RefInv, ObTypeOK
<1> QED BY <1>1, <1>2 DEF CallInv, HoldersCounted, HeldObjects

LEMMA UseDrop ==
  ASSUME RefInv, CallInv, call.step \in HoldingSteps, ~ At("boot"),
         ObDereferenceObject(call.object),
         UNCHANGED views, CallTyped', ~ At("boot")', call'.step \notin HoldingSteps
  PROVE  ObStep /\ CallInv'
<1>1. call.object \in Objects /\ CallHolds(call.object)
  BY HolderIsHeld DEF HeldObjects
<1>2. call.object \in HeldObjects
  BY HolderIsHeld
<1>3. ObStep
  BY <1>2 DEF ObStep, ObNext
<1>4. /\ held' = [held EXCEPT ![call.object] = @ - 1]
      /\ UNCHANGED typeInUse
  BY DEF ObDereferenceObject, typeVars
<1>5. HoldersCounted'
  BY <1>1, <1>4, HoldersDrop DEF CallInv, RefInv
<1> QED BY <1>3, <1>4, <1>5 DEF CallInv, TypesInOrder, TypesReady, At

LEMMA UseInsert ==
  ASSUME RefInv, CallInv, call.step \in HoldingSteps, ~ At("boot"),
         NEW access \in SUBSET Rights, ObInsertHandle(call.object, access),
         UNCHANGED views, CallTyped', ~ At("boot")', call'.object = call.object
  PROVE  ObStep /\ CallInv'
<1>1. ObStep
  BY HolderIsHeld DEF ObStep, ObNext
<1>2. UNCHANGED <<held, typeInUse>>
  BY DEF ObInsertHandle, Fail, typeVars
<1>3. HoldersCounted'
  BY <1>2, HolderIsHeld, HoldersKept DEF CallInv
<1> QED BY <1>1, <1>2, <1>3 DEF CallInv, TypesInOrder, TypesReady, At

LEMMA UseClose ==
  ASSUME RefInv, CallInv, At("idle"), NEW v \in UserHandles, ObCloseHandle(v),
         UNCHANGED <<views, call>>
  PROVE  ObStep /\ CallInv'
<1>1. ObStep
  BY DEF ObStep, ObNext
<1>2. UNCHANGED <<held, typeInUse>>
  BY DEF ObCloseHandle, Fail, typeVars
<1>3. HoldersCounted'
  BY <1>2, HoldersKept DEF CallInv, At, HoldingSteps
<1> QED BY <1>1, <1>2, <1>3 DEF CallInv, CallTyped, TypesInOrder, TypesReady, At

(* Types are created in order: the first free slot is the next one. *)
LEMMA UseType ==
  ASSUME RefInv, CallInv, At("boot"), ObCreateType, UNCHANGED views, CallTyped',
         call'.step \notin HoldingSteps, ~ At("boot")' => PortType \in typeInUse'
  PROVE  ObStep /\ CallInv'
<1>1. ObStep
  BY DEF ObStep, ObNext
<1>2. UNCHANGED held
  BY DEF ObCreateType, Fail
<1>3. TypesInOrder'
  <2>1. CASE Fail("INIT_FAILED")
    BY <2>1 DEF Fail, typeVars, CallInv, TypesInOrder
  <2>2. CASE ~ Fail("INIT_FAILED")
    <3>1. PICK t \in Types : /\ \A j \in Types \ typeInUse : t <= j
                             /\ typeInUse' = typeInUse \cup {t}
      BY <2>2 DEF ObCreateType, IsFirst
    <3>2. 1 .. t \subseteq typeInUse'
      BY <3>1, ObConstants DEF Types
    <3> QED BY <3>1, <3>2 DEF CallInv, TypesInOrder
  <2> QED BY <2>1, <2>2
<1>4. HoldersCounted'
  BY <1>2, HoldersKept DEF CallInv
<1> QED BY <1>1, <1>3, <1>4 DEF CallInv, TypesReady

-----------------------------------------------------------------------------
(* The local variables of a call stay what they are declared to be. *)
LEMMA IdleTyped == Idle \in CallRecords
<1>1. 0 \in UserHandles
  BY ObConstants DEF UserHandles, HandleValues, HandleStep
<1>2. "idle" \in CallSteps
  BY DEF CallSteps
<1>3. "" \in Paths \cup {""}
  BY Zenon
<1>4. 0 \in Nat /\ {} \in SUBSET Rights
  OBVIOUS
<1> QED
  BY <1>1, <1>2, <1>3, <1>4, Zenon DEF Idle, CallRecords, NoSlot, NoFile, NoObject

LEMMA CallSetTyped ==
  ASSUME NEW c \in CallRecords, NEW step \in CallSteps
  PROVE  /\ [c EXCEPT !.step = step] \in CallRecords
         /\ \A o \in Objects : [c EXCEPT !.step = step, !.object = o] \in CallRecords
         /\ \A f \in Nat : [c EXCEPT !.step = step, !.file = f] \in CallRecords
         /\ \A n \in Nat : [c EXCEPT !.step = step, !.size = n] \in CallRecords
         /\ \A v \in UserHandles, o \in Objects, s \in Nat :
              [c EXCEPT !.step = step, !.handle = v, !.object = o, !.slot = s] \in CallRecords
BY DEF CallRecords

LEMMA CallBegunTyped ==
  ASSUME NEW step \in CallSteps, NEW s \in Nat
  PROVE  /\ \A p \in Paths, a \in SUBSET Rights :
              [Idle EXCEPT !.step = step, !.slot = s, !.path = p, !.access = a] \in CallRecords
         /\ \A a \in SUBSET Rights :
              [Idle EXCEPT !.step = step, !.slot = s, !.access = a] \in CallRecords
         /\ \A o \in Objects, n \in Nat :
              [Idle EXCEPT !.step = step, !.object = o, !.size = n, !.slot = s] \in CallRecords
         /\ \A o \in Objects :
              [Idle EXCEPT !.step = step, !.object = o, !.slot = s] \in CallRecords
BY IdleTyped DEF CallRecords

LEMMA IdleCallTyped == call' = Idle => CallTyped' /\ At("idle")' /\ call'.step \notin HoldingSteps
<1>1. Idle.step = "idle"
  BY Zenon DEF Idle
<1> QED
  BY <1>1, IdleTyped DEF CallTyped, At, HoldingSteps

(* A call that begins with a free slot of some pool. *)
LEMMA OpenCallStep ==
  ASSUME RefInv, CallInv, NEW p \in Paths, NEW access \in Masks, IoOpenPath(p, access),
         UNCHANGED views
  PROVE  ObStep /\ CallInv'
<1>1. At("idle") /\ ~ At("boot") /\ call.step \notin HoldingSteps
  BY DEF IoOpenPath, At, HoldingSteps
<1>2. CASE Fail("INIT_FAILED") /\ UNCHANGED call
  BY <1>1, <1>2, UseNothing DEF CallInv, CallTyped, At, Statuses
<1>3. CASE ~ (Fail("INIT_FAILED") /\ UNCHANGED call)
  <2>1. PICK s \in Slots :
          /\ call' = [Idle EXCEPT !.step = "create", !.slot = s, !.path = p, !.access = access]
          /\ UNCHANGED obVars
    BY <1>3 DEF IoOpenPath
  <2>2. s \in Nat /\ access \in SUBSET Rights
    BY IoConstants, SyscallConstants DEF Slots
  <2>3. call' \in CallRecords /\ call'.step = "create"
    BY <2>1, <2>2, CallBegunTyped, IdleTyped DEF CallSteps, CallRecords
  <2>4. CallTyped' /\ ~ At("boot")' /\ call'.step \notin HoldingSteps
    BY <2>3 DEF CallTyped, At, HoldingSteps
  <2> QED BY <1>1, <2>1, <2>4, UseNothing
<1> QED BY <1>2, <1>3

LEMMA PortCallStep ==
  ASSUME RefInv, CallInv, NEW access \in Masks, KipSysCreatePort(access)
  PROVE  ObStep /\ CallInv'
<1>1. At("idle") /\ ~ At("boot") /\ call.step \notin HoldingSteps /\ UNCHANGED views
  BY DEF KipSysCreatePort, At, HoldingSteps
<1>2. CASE Fail("INIT_FAILED") /\ UNCHANGED call
  BY <1>1, <1>2, UseNothing DEF CallInv, CallTyped, At, Statuses
<1>3. CASE ~ (Fail("INIT_FAILED") /\ UNCHANGED call)
  <2>1. PICK s \in PortSlots :
          /\ call' = [Idle EXCEPT !.step = "createPort", !.slot = s, !.access = access]
          /\ UNCHANGED obVars
    BY <1>3 DEF KipSysCreatePort
  <2>2. s \in Nat /\ access \in SUBSET Rights
    BY SyscallConstants DEF PortSlots
  <2>3. call' \in CallRecords /\ call'.step = "createPort"
    BY <2>1, <2>2, CallBegunTyped, IdleTyped DEF CallSteps, CallRecords
  <2>4. CallTyped' /\ ~ At("boot")' /\ call'.step \notin HoldingSteps
    BY <2>3 DEF CallTyped, At, HoldingSteps
  <2> QED BY <1>1, <2>1, <2>4, UseNothing
<1> QED BY <1>2, <1>3

LEMMA SectionCallStep ==
  ASSUME RefInv, CallInv, NEW access \in Masks, NEW b, KipSysCreateSection(access, b)
  PROVE  ObStep /\ CallInv'
<1>1. At("idle") /\ ~ At("boot") /\ call.step \notin HoldingSteps /\ UNCHANGED views
  BY DEF KipSysCreateSection, AcceptPointer, Accept, At, HoldingSteps
<1>2. CASE Fail("INIT_FAILED") /\ UNCHANGED call
  BY <1>1, <1>2, UseNothing DEF CallInv, CallTyped, At, Statuses
<1>3. CASE ~ (Fail("INIT_FAILED") /\ UNCHANGED call)
  <2> DEFINE mask == IF access = {} THEN SectionAccessAll ELSE access
  <2>1. PICK s \in SectionSlots :
          /\ call' = [Idle EXCEPT !.step = "createSection", !.slot = s, !.access = mask]
          /\ UNCHANGED obVars
    BY <1>3 DEF KipSysCreateSection
  <2>2. s \in Nat /\ mask \in SUBSET Rights
    BY SyscallConstants, IoConstants DEF SectionSlots, SectionAccessAll
  <2> HIDE DEF mask
  <2>3. call' \in CallRecords /\ call'.step = "createSection"
    BY <2>1, <2>2, CallBegunTyped, IdleTyped DEF CallSteps, CallRecords
  <2>4. CallTyped' /\ ~ At("boot")' /\ call'.step \notin HoldingSteps
    BY <2>3 DEF CallTyped, At, HoldingSteps
  <2> QED BY <1>1, <2>1, <2>4, UseNothing
<1> QED BY <1>2, <1>3

LEMMA BufferCallStep ==
  ASSUME RefInv, CallInv, NEW b, KipSysCreateProcessFromBuffer(b) \/ RefuseCall(b)
  PROVE  ObStep /\ CallInv'
<1>1. At("idle") /\ ~ At("boot") /\ call.step \notin HoldingSteps /\ UNCHANGED views
  BY DEF KipSysCreateProcessFromBuffer, RefuseCall, Accept, At, HoldingSteps
<1>2. CASE RefuseCall(b)
  BY <1>1, <1>2, UseNothing DEF RefuseCall, CallInv, CallTyped, At, Statuses
<1>3. CASE KipSysCreateProcessFromBuffer(b)
  <2>1. call' \in CallRecords /\ call'.step = "process"
    BY <1>3, CallSetTyped, IdleTyped DEF KipSysCreateProcessFromBuffer, CallSteps, CallRecords
  <2>2. CallTyped' /\ ~ At("boot")' /\ call'.step \notin HoldingSteps
    BY <2>1 DEF CallTyped, At, HoldingSteps
  <2> QED BY <1>1, <1>3, <2>2, UseNothing DEF KipSysCreateProcessFromBuffer
<1> QED BY <1>2, <1>3

(* A call that makes its object goes on with it, or ends. *)
LEMMA MadeTyped ==
  ASSUME CallInv, NEW t, NEW mask, ObCreateObject(t, mask), status' = "SUCCESS",
         NEW step \in {"lookup", "insert", "drop"},
         call' = [call EXCEPT !.step = step, !.object = NewObject]
  PROVE  /\ CallTyped' /\ ~ At("boot")'
         /\ call'.step = step /\ call'.object = NewObject
         /\ call'.slot = call.slot /\ call'.file = call.file /\ call'.handle = call.handle
<1>1. NewObject \in Objects
  BY NewObjectMade
<1>2. step \in CallSteps /\ step \in HoldingSteps
  BY DEF CallSteps, HoldingSteps
<1>3. call \in CallRecords
  BY DEF CallInv, CallTyped
<1>4. call' \in CallRecords
  BY <1>1, <1>2, <1>3, CallSetTyped
<1>5. /\ call'.step = step /\ call'.object = NewObject
      /\ call'.slot = call.slot /\ call'.file = call.file /\ call'.handle = call.handle
  BY <1>3 DEF CallRecords
<1> QED
  BY <1>1, <1>2, <1>4, <1>5 DEF CallTyped, At

LEMMA CreateCallStep ==
  ASSUME RefInv, CallInv, UNCHANGED views, OpenCreate \/ CreatePort \/ CreateSection
  PROVE  ObStep /\ CallInv'
<1>1. ~ At("boot")
  BY DEF OpenCreate, CreatePort, CreateSection, At
<1>2. PICK t \in {FileType, SectionType, PortType}, mask \in SUBSET Rights :
        ObCreateObject(t, mask)
  BY IoConstants DEF OpenCreate, CreatePort, CreateSection, FileAccessAll, PortAccessAll,
     SectionAccessAll
<1>3. CASE status' = "SUCCESS"
  <2>1. PICK step \in {"lookup", "insert", "drop"} :
          call' = [call EXCEPT !.step = step, !.object = NewObject]
    BY <1>3 DEF OpenCreate, CreatePort, CreateSection
  <2> QED BY <1>1, <1>2, <1>3, <2>1, MadeTyped, UseCreate
<1>4. CASE status' # "SUCCESS"
  <2>1. call' = Idle
    BY <1>4 DEF OpenCreate, CreatePort, CreateSection
  <2>2. CallTyped' /\ ~ At("boot")' /\ call'.step \notin HoldingSteps
    BY <2>1, IdleCallTyped DEF At
  <2> QED BY <1>1, <1>2, <1>4, <2>2, UseCreate
<1> QED BY <1>3, <1>4

LEMMA SpawnCallStep ==
  ASSUME RefInv, CallInv, SpawnProcess \/ SpawnThread
  PROVE  ObStep /\ CallInv'
<1>1. ~ At("boot") /\ UNCHANGED views
  BY DEF SpawnProcess, SpawnThread, At
<1>2. CallTyped' /\ ~ At("boot")' /\ call'.step \notin HoldingSteps
  <2>1. CASE call' = Idle
    BY <2>1, IdleCallTyped DEF At
  <2>2. CASE call' = [Idle EXCEPT !.step = "idle"]
    <3>1. call' = Idle
      BY <2>2, Zenon DEF Idle
    <3> QED BY <3>1, <2>1
  <2>3. CASE call' = [Idle EXCEPT !.step = "thread"]
    <3>1. call' \in CallRecords /\ call'.step = "thread"
      BY <2>3, CallSetTyped, IdleTyped DEF CallSteps, CallRecords
    <3> QED BY <3>1 DEF CallTyped, At, HoldingSteps
  <2> QED BY <2>1, <2>2, <2>3 DEF SpawnProcess, SpawnThread
<1>3. CASE \E s \in Statuses : Fail(s)
  BY <1>1, <1>2, <1>3, UseNothing
<1>4. CASE ~ \E s \in Statuses : Fail(s)
  <2>1. PICK t \in {ProcessType, ThreadType} : ObCreateObject(t, Rights)
    BY <1>4 DEF SpawnProcess, SpawnThread, Statuses
  <2> QED BY <1>1, <1>2, <2>1, UseCreate
<1> QED BY <1>3, <1>4

(* A search from index 0 upwards finds something if there is something. *)
LEMMA SmallestMember ==
  ASSUME NEW S, S \subseteq Nat, S # {}
  PROVE  \E p \in S : \A q \in S : p <= q
<1> DEFINE R == {ss \in Nat \X Nat : ss[1] < ss[2]}
<1>1. IsWellFoundedOn(R, Nat)
  <2>1. OpToRel(<, Nat) = R
    BY Zenon DEF OpToRel
  <2> QED BY <2>1, NatLessThanWellFounded, Zenon
<1>2. PICK p \in S : \A q \in S : ~ (<<q, p>> \in R)
  <2> HIDE DEF R
  <2> QED BY <1>1, WFMin
<1>3. ASSUME NEW r \in S PROVE p <= r
  <2>1. r \in Nat /\ p \in Nat /\ ~ (<<r, p>> \in R)
    BY <1>2
  <2>2. ~ (r < p)
    BY <2>1
  <2> QED BY <2>1, <2>2
<1> QED BY <1>3

LEMMA FirstIsMember ==
  ASSUME NEW S, S \subseteq Nat, S # {}
  PROVE  (CHOOSE s \in S : \A r \in S : s <= r) \in S
BY SmallestMember

BootRecords == [path : Paths, size : Nat \ {0}]
BootTyped == bootFiles \in Seq(BootRecords)

(* The table of boot files only grows, and only before the first call. *)
LEMMA BootTypedStep ==
  ASSUME BootTyped, [KeNext]_keVars
  PROVE  BootTyped' /\ (~ At("boot") => UNCHANGED bootFiles)
<1>1. \A p \in Paths : BootFile(p) \in BootRecords
  BY IoConstants DEF BootFile, BootRecords
<1>2. InitPath \in Paths /\ OtherPaths \subseteq Paths
  BY IoConstants
<1>3. CASE IoInitialize
  <2>1. BootFile(InitPath) \in BootRecords
    BY <1>1, <1>2
  <2>2. <<>> \in Seq(BootRecords) /\ <<BootFile(InitPath)>> \in Seq(BootRecords)
    BY <2>1
  <2> QED BY <1>3, <2>2 DEF IoInitialize, BootTyped
<1>4. ASSUME NEW p \in OtherPaths, IoRegisterBootFile(p)
      PROVE  BootTyped' /\ (~ At("boot") => UNCHANGED bootFiles)
  BY <1>1, <1>2, <1>4 DEF IoRegisterBootFile, BootTyped
<1>5. CASE UNCHANGED bootFiles
  BY <1>5 DEF BootTyped
<1>6. CASE FileCalls
  BY <1>4, <1>5, <1>6
  DEF FileCalls, KipSysOpen, KipSysRead, KipSysCreateProcessFromFileHandle, KipSysCloseHandle,
      KipSysClose, IoOpenPath, IoReadFileHandle, IoSpawnProcessFromFileHandle, ReferenceFile,
      IoCloseFileHandle
<1>7. CASE IoInProgress
  BY <1>5, <1>7 DEF IoInProgress, OpenCreate, IopVfsOpen, InsertHandle, DropObject, ReadDone,
     SpawnTurn, SpawnAgain, ReferenceFile
<1>8. CASE InProgress
  BY <1>3, <1>5, <1>7, <1>8
  DEF InProgress, CreateTypes, CreatePort, CreateSection, SendDone, ReceiveDone,
      MapDone, ReturnObject, HoldReference, SpawnProcess, SpawnThread
<1>9. CASE KiDispatchSystemCall
  BY <1>5, <1>6, <1>9
  DEF KiDispatchSystemCall, KipSysCreatePort, KipSysCreateSection, KipSysSend, KipSysReceive,
      ReferencePort, KipSysMapSection, KipSysCreateProcessFromBuffer, RefuseCall
<1> QED
  BY <1>5, <1>8, <1>9 DEF KeNext, keVars, ioVars

LEMMA LookupTyped ==
  ASSUME BootTyped, NEW p
  PROVE  /\ IopFsFatLookupFile(p) \in Nat
         /\ IopFsFatLookupFile(p) # NoFile => IopFsFatLookupFile(p) \in DOMAIN bootFiles
<1> DEFINE found == {i \in DOMAIN bootFiles : bootFiles[i].path = p}
<1>1. found \subseteq Nat /\ found \subseteq DOMAIN bootFiles
  BY DEF BootTyped
<1>2. IopFsFatLookupFile(p) = IF found = {} THEN NoFile
                              ELSE CHOOSE i \in found : \A j \in found : i <= j
  BY DEF IopFsFatLookupFile
<1> HIDE DEF found
<1>3. CASE found = {}
  BY <1>2, <1>3 DEF NoFile
<1>4. CASE found # {}
  <2>1. (CHOOSE i \in found : \A j \in found : i <= j) \in found
    BY <1>1, <1>4, FirstIsMember
  <2> QED BY <1>1, <1>2, <1>4, <2>1
<1> QED BY <1>3, <1>4

(* The steps between the making of an object and the end of the call. *)
LEMMA LookupCallStep ==
  ASSUME RefInv, CallInv, BootTyped, UNCHANGED views, IopVfsOpen
  PROVE  /\ ObStep /\ CallInv'
         /\ call'.slot = call.slot /\ call'.object = call.object
         /\ call'.file = IopFsFatLookupFile(call.path)
         /\ call'.step = IF IopFsFatLookupFile(call.path) = NoFile THEN "drop" ELSE "insert"
<1> DEFINE found == IopFsFatLookupFile(call.path)
           step == IF found = NoFile THEN "drop" ELSE "insert"
<1>1. At("lookup") /\ call' = [call EXCEPT !.step = step, !.file = found] /\ UNCHANGED obVars
  BY DEF IopVfsOpen
<1>2. found \in Nat
  BY LookupTyped
<1>3. step \in CallSteps /\ step \in HoldingSteps /\ call \in CallRecords
  BY DEF CallSteps, HoldingSteps, CallInv, CallTyped
<1> HIDE DEF found, step
<1>4. call' \in CallRecords
  BY <1>1, <1>2, <1>3, CallSetTyped
<1>5. call'.step = step /\ call'.slot = call.slot /\ call'.object = call.object /\ call'.file = found
  BY <1>1, <1>3 DEF CallRecords
<1>6. CallHolds(call.object) /\ call.object \in Objects
  BY <1>1 DEF CallInv, CallTyped, CallHolds, At, HoldingSteps
<1>7. CallTyped' /\ ~ At("boot")' /\ ~ At("boot") /\ CallHolds(call'.object)
  BY <1>1, <1>3, <1>4, <1>5, <1>6 DEF CallTyped, At, step
<1>8. ObStep /\ CallInv'
  BY <1>1, <1>7, UseNothing
<1> QED BY <1>5, <1>8 DEF found, step

LEMMA InsertCallStep ==
  ASSUME RefInv, CallInv, UNCHANGED views, InsertHandle
  PROVE  /\ ObStep /\ CallInv'
         /\ call'.step = "drop" /\ call'.object = call.object
<1>1. /\ call.step = "insert" /\ ObInsertHandle(call.object, call.access)
      /\ call' = [call EXCEPT !.step = "drop"]
  BY DEF InsertHandle, At
<1>2. /\ call \in CallRecords /\ "drop" \in CallSteps /\ "drop" \in HoldingSteps
      /\ "insert" \in HoldingSteps
  BY DEF CallSteps, HoldingSteps, CallInv, CallTyped
<1>3. call' \in CallRecords
  BY <1>1, <1>2, CallSetTyped
<1>4. call'.step = "drop" /\ call'.object = call.object /\ call.access \in SUBSET Rights
  BY <1>1, <1>2 DEF CallRecords
<1>5. call.object \in Objects
  BY <1>1, <1>2 DEF CallInv, CallTyped
<1>6. CallTyped' /\ ~ At("boot")' /\ ~ At("boot")
  BY <1>1, <1>3, <1>4, <1>5 DEF CallTyped, At
<1>7. ObStep /\ CallInv'
  BY <1>1, <1>2, <1>4, <1>6, UseInsert
<1> QED BY <1>4, <1>7

(* The steps that end a call, or a turn of the spawn loop. *)
EndsCall ==
  \/ DropObject \/ ReadDone \/ SpawnTurn \/ SendDone \/ ReceiveDone
  \/ MapDone /\ call.slot = NoSlot

SpawnReady ==
  At("spawn") => /\ call.size < ImageMax
                 /\ call.slot # NoSlot => fileData[call.slot] \in DOMAIN bootFiles

LEMMA TurnTyped ==
  ASSUME CallInv, BootTyped, SpawnReady, SpawnTurn
  PROVE  CallTyped' /\ call'.step \in {"idle", "process", "again"}
<1>1. CASE call' = Idle
  BY <1>1, IdleCallTyped DEF At
<1>2. CASE call' # Idle
  <2> DEFINE size == IF call.slot = NoSlot THEN 0 ELSE bootFiles[fileData[call.slot]].size
             now == ReadLength(size, call.size, ImageMax - call.size)
             total == Progress(call.size, now)
  <2>1. call \in CallRecords /\ {"process", "again"} \subseteq CallSteps
    BY DEF CallInv, CallTyped, CallSteps
  <2>2. CASE call' = [call EXCEPT !.step = "process"]
    <3>1. call' \in CallRecords /\ call'.step = "process"
      BY <2>1, <2>2, CallSetTyped DEF CallRecords
    <3> QED BY <3>1 DEF CallTyped, At, HoldingSteps
  <2>3. CASE call' # [call EXCEPT !.step = "process"]
    <3>1. call' = [call EXCEPT !.step = "again", !.size = total]
      BY <1>2, <2>3 DEF SpawnTurn
    <3>2. total \in Nat
      <4>1. size \in Nat
        <5>1. CASE call.slot = NoSlot
          BY <5>1
        <5>2. CASE call.slot # NoSlot
          <6>1. bootFiles[fileData[call.slot]] \in BootRecords
            BY <5>2 DEF SpawnReady, SpawnTurn, BootTyped
          <6> QED BY <5>2, <6>1 DEF BootRecords
        <5> QED BY <5>1, <5>2
      <4>2. call.size \in Nat /\ ImageMax \in Nat /\ call.size < ImageMax
        BY <2>1, IoConstants DEF CallRecords, SpawnReady, SpawnTurn
      <4> HIDE DEF size
      <4> QED BY <4>1, <4>2 DEF ReadLength, Progress
    <3> HIDE DEF total
    <3>3. call' \in CallRecords /\ call'.step = "again"
      BY <2>1, <3>1, <3>2, CallSetTyped DEF CallRecords
    <3> QED BY <3>3 DEF CallTyped, At, HoldingSteps
  <2> QED BY <2>2, <2>3
<1> QED BY <1>1, <1>2

LEMMA EndCallStep ==
  ASSUME RefInv, CallInv, BootTyped, SpawnReady, UNCHANGED views, EndsCall
  PROVE  /\ ObStep /\ CallInv'
         /\ call.step \in {"drop", "read", "spawn", "send", "receive", "map"}
         /\ call'.step \in {"idle", "process", "again"}
         /\ ObDereferenceObject(call.object) /\ RunDeleteRoutine
<1>1. /\ call.step \in {"drop", "read", "spawn", "send", "receive", "map"}
      /\ ObDereferenceObject(call.object) /\ RunDeleteRoutine
  BY DEF EndsCall, DropObject, ReadDone, SpawnTurn, SendDone, ReceiveDone, MapDone,
     ReturnObject, At
<1>2. call.step \in HoldingSteps /\ ~ At("boot")
  BY <1>1 DEF HoldingSteps, At
<1>3. CallTyped' /\ call'.step \in {"idle", "process", "again"}
  <2>1. CASE SpawnTurn
    BY <2>1, TurnTyped
  <2>2. CASE ~ SpawnTurn
    <3>1. call' = Idle
      BY <2>2 DEF EndsCall, DropObject, ReadDone, SendDone, ReceiveDone, MapDone, ReturnObject
    <3> QED BY <3>1, IdleCallTyped DEF At
  <2> QED BY <2>1, <2>2
<1>4. ~ At("boot")' /\ call'.step \notin HoldingSteps
  BY <1>3 DEF At, HoldingSteps
<1>5. ObStep /\ CallInv'
  BY <1>1, <1>2, <1>3, <1>4, UseDrop
<1> QED BY <1>1, <1>3, <1>5

(* A view takes over the reference of the call. *)
LEMMA MapCallStep ==
  ASSUME RefInv, CallInv, MapDone, call.slot # NoSlot
  PROVE  ObStep /\ CallInv' /\ UNCHANGED obVars /\ At("idle")'
<1>1. /\ call.step = "map" /\ call' = Idle /\ UNCHANGED obVars
      /\ views' = Append(views, call.object)
  BY DEF MapDone, HoldReference, At
<1>2. "map" \in HoldingSteps /\ ~ At("boot")
  BY <1>1 DEF HoldingSteps, At
<1>3. CallTyped' /\ At("idle")' /\ call'.step \notin HoldingSteps
  BY <1>1, IdleCallTyped
<1>4. ObStep /\ UNCHANGED <<held, typeInUse>>
  BY <1>1 DEF ObStep, obVars, typeVars
<1>5. call.object \in Objects /\ CallHolds(call.object)
  BY <1>1, <1>2, HolderIsHeld DEF HeldObjects
<1>6. HoldersCounted' /\ views' \in Seq(Objects)
  BY <1>1, <1>3, <1>4, <1>5, HoldersMap DEF CallInv, RefInv
<1> QED
  BY <1>1, <1>2, <1>3, <1>4, <1>6 DEF CallInv, TypesInOrder, TypesReady, At

LEMMA TypeCallStep ==
  ASSUME RefInv, CallInv, UNCHANGED views, IoInitialize \/ CreateTypes
  PROVE  ObStep /\ CallInv'
<1>1. At("boot") /\ ObCreateType
  BY DEF IoInitialize, CreateTypes
<1>2. CASE UNCHANGED call
  <2>1. CallTyped' /\ call'.step \notin HoldingSteps /\ At("boot")'
    BY <1>1, <1>2 DEF CallInv, CallTyped, At, HoldingSteps
  <2> QED BY <1>1, <2>1, UseType
<1>3. CASE ~ UNCHANGED call
  <2>1. call' = Idle /\ PortType \in typeInUse'
    BY <1>3 DEF IoInitialize, CreateTypes
  <2> QED BY <1>1, <2>1, IdleCallTyped, UseType
<1> QED BY <1>2, <1>3

LEMMA RegisterCallStep ==
  ASSUME RefInv, CallInv, UNCHANGED views, NEW p, IoRegisterBootFile(p)
  PROVE  ObStep /\ CallInv'
BY UseNothing DEF IoRegisterBootFile, CallInv, CallTyped, At, HoldingSteps, CallHolds

(* The pools of the subsystems are typed. *)
PoolsTyped ==
  /\ fileInUse \subseteq Slots /\ fileHeader \in [Slots -> Objects \cup {NoObject}]
  /\ fileData \in [Slots -> Nat]
  /\ portInUse \subseteq PortSlots
  /\ portHeader \in [PortSlots -> Objects \cup {NoObject}]
  /\ sectionInUse \subseteq SectionSlots
  /\ sectionHeader \in [SectionSlots -> Objects \cup {NoObject}]

(* What a search by header address finds. *)
LEMMA SlotsFound ==
  ASSUME PoolsTyped, NEW o
  PROVE  /\ FileSlotOf(o) \in Nat
         /\ IF IopFindFileByHeader(o) = {} THEN FileSlotOf(o) = NoSlot
            ELSE FileSlotOf(o) \in IopFindFileByHeader(o)
         /\ FirstOf(LpcpFindPortByHeader(o)) \in Nat
         /\ IF LpcpFindPortByHeader(o) = {} THEN FirstOf(LpcpFindPortByHeader(o)) = NoSlot
            ELSE FirstOf(LpcpFindPortByHeader(o)) \in LpcpFindPortByHeader(o)
         /\ FirstOf(MmpFindSectionByHeader(o)) \in Nat
<1>1. ASSUME NEW S, S \subseteq Nat
      PROVE  /\ FirstOf(S) \in Nat
             /\ IF S = {} THEN FirstOf(S) = NoSlot ELSE FirstOf(S) \in S
  <2>1. CASE S = {}
    BY <2>1 DEF FirstOf, NoSlot
  <2>2. CASE S # {}
    <3>1. FirstOf(S) = CHOOSE s \in S : \A r \in S : s <= r
      BY <2>2 DEF FirstOf
    <3> QED BY <1>1, <2>2, <3>1, FirstIsMember
  <2> QED BY <2>1, <2>2
<1>2. Slots \subseteq Nat /\ PortSlots \subseteq Nat /\ SectionSlots \subseteq Nat
  BY IoConstants, SyscallConstants DEF Slots, PortSlots, SectionSlots
<1>3. /\ IopFindFileByHeader(o) \subseteq Nat
      /\ LpcpFindPortByHeader(o) \subseteq Nat
      /\ MmpFindSectionByHeader(o) \subseteq Nat
  BY <1>2 DEF PoolsTyped, IopFindFileByHeader, LpcpFindPortByHeader, MmpFindSectionByHeader
<1>4. FileSlotOf(o) = FirstOf(IopFindFileByHeader(o))
  BY DEF FileSlotOf, FirstOf
<1> QED BY <1>1, <1>3, <1>4

(* A call that starts with a lookup of its handle: what it knows then. *)
LEMMA ReferenceFileStep ==
  ASSUME RefInv, CallInv, PoolsTyped, ~ At("boot"), UNCHANGED views,
         NEW v \in UserHandles, NEW next \in {"read", "spawn"}, ReferenceFile(v, next)
  PROVE  /\ ObStep /\ CallInv'
         /\ call' = Idle \/ /\ status' = "SUCCESS"
                            /\ call'.step = next /\ call'.handle = v
                            /\ call'.object = ObjectOf(v)
                            /\ call'.slot = FileSlotOf(ObjectOf(v))
                            /\ call'.size = call.size
<1>1. /\ ObReferenceObjectByHandle(v, {1}, FileType)
      /\ call' = IF status' = "SUCCESS"
                 THEN [call EXCEPT !.step = next, !.handle = v, !.object = ObjectOf(v),
                         !.slot = FileSlotOf(ObjectOf(v))]
                 ELSE Idle
  BY DEF ReferenceFile, ReadAccess
<1>2. FileType \in Types /\ {1} \in SUBSET Rights
  BY TypesExist, IoConstants DEF RefInv, ObTypeOK
<1>3. CASE status' = "SUCCESS"
  <2>1. ObjectOf(v) \in Objects
    BY <1>1, <1>2, <1>3, ObjectFound DEF RefInv, ObTypeOK
  <2>2. call \in CallRecords /\ next \in CallSteps /\ next \in HoldingSteps
    BY DEF CallInv, CallTyped, CallSteps, HoldingSteps
  <2>3. call' \in CallRecords
    BY <1>1, <1>3, <2>1, <2>2, SlotsFound, CallSetTyped
  <2>4. /\ call'.step = next /\ call'.handle = v /\ call'.object = ObjectOf(v)
        /\ call'.slot = FileSlotOf(ObjectOf(v)) /\ call'.size = call.size
    BY <1>1, <1>3, <2>2 DEF CallRecords
  <2>5. CallTyped' /\ ~ At("boot")'
    BY <2>1, <2>3, <2>4 DEF CallTyped, At
  <2>6. ObStep /\ CallInv'
    BY <1>1, <1>2, <1>3, <2>4, <2>5, UseReference
  <2> QED BY <1>3, <2>4, <2>6
<1>4. CASE status' # "SUCCESS"
  <2>1. call' = Idle
    BY <1>1, <1>4
  <2>2. CallTyped' /\ ~ At("boot")' /\ call'.step \notin HoldingSteps
    BY <2>1, IdleCallTyped DEF At
  <2>3. ObStep /\ CallInv'
    BY <1>1, <1>2, <2>2, UseReference
  <2> QED BY <2>1, <2>3
<1> QED BY <1>3, <1>4

LEMMA ReferencePortStep ==
  ASSUME RefInv, CallInv, PoolsTyped, ~ At("boot"), NEW v \in UserHandles,
         NEW access \in {RecvAccess, SendAccess}, NEW next \in {"send", "receive"},
         NEW length \in Nat, ReferencePort(v, access, next, length)
  PROVE  /\ ObStep /\ CallInv'
         /\ call' = Idle \/ /\ status' = "SUCCESS"
                            /\ call'.step = next /\ call'.object = ObjectOf(v)
                            /\ call'.size = length
                            /\ call'.slot = FirstOf(LpcpFindPortByHeader(ObjectOf(v)))
<1>1. /\ ObReferenceObjectByHandle(v, access, PortType) /\ UNCHANGED views
      /\ call' = IF status' = "SUCCESS"
                 THEN [Idle EXCEPT !.step = next, !.object = ObjectOf(v), !.size = length,
                         !.slot = FirstOf(LpcpFindPortByHeader(ObjectOf(v)))]
                 ELSE Idle
  BY DEF ReferencePort
<1>2. PortType \in Types /\ access \in SUBSET Rights
  BY TypesExist, IoConstants DEF RefInv, ObTypeOK, RecvAccess, SendAccess
<1>3. CASE status' = "SUCCESS"
  <2>1. ObjectOf(v) \in Objects
    BY <1>1, <1>2, <1>3, ObjectFound DEF RefInv, ObTypeOK
  <2>2. next \in CallSteps /\ next \in HoldingSteps
    BY DEF CallSteps, HoldingSteps
  <2>3. call' \in CallRecords
    BY <1>1, <1>3, <2>1, <2>2, SlotsFound, CallBegunTyped
  <2>4. /\ call'.step = next /\ call'.object = ObjectOf(v) /\ call'.size = length
        /\ call'.slot = FirstOf(LpcpFindPortByHeader(ObjectOf(v)))
    BY <1>1, <1>3, <2>2, IdleTyped DEF CallRecords
  <2>5. CallTyped' /\ ~ At("boot")'
    BY <2>1, <2>3, <2>4 DEF CallTyped, At
  <2>6. ObStep /\ CallInv'
    BY <1>1, <1>2, <1>3, <2>4, <2>5, UseReference
  <2> QED BY <1>3, <2>4, <2>6
<1>4. CASE status' # "SUCCESS"
  <2>1. call' = Idle
    BY <1>1, <1>4
  <2>2. CallTyped' /\ ~ At("boot")' /\ call'.step \notin HoldingSteps
    BY <2>1, IdleCallTyped DEF At
  <2>3. ObStep /\ CallInv'
    BY <1>1, <1>2, <2>2, UseReference
  <2> QED BY <2>1, <2>3
<1> QED BY <1>3, <1>4

LEMMA ReferenceSectionStep ==
  ASSUME RefInv, CallInv, PoolsTyped, NEW v \in UserHandles, NEW write, NEW b,
         KipSysMapSection(v, write, b)
  PROVE  /\ ObStep /\ CallInv'
         /\ call' = Idle \/ /\ status' = "SUCCESS"
                            /\ call'.step = "map" /\ call'.object = ObjectOf(v)
<1> DEFINE access == IF write THEN {1, 2} ELSE {1}
<1>1. /\ ObReferenceObjectByHandle(v, access, SectionType) /\ UNCHANGED views
      /\ call' = IF status' = "SUCCESS"
                 THEN [Idle EXCEPT !.step = "map", !.object = ObjectOf(v),
                         !.slot = FirstOf(MmpFindSectionByHeader(ObjectOf(v)))]
                 ELSE Idle
      /\ ~ At("boot")
  BY DEF KipSysMapSection, AcceptPointer, Accept, At
<1>2. SectionType \in Types /\ access \in SUBSET Rights
  BY <1>1, TypesExist, IoConstants DEF RefInv, ObTypeOK
<1> HIDE DEF access
<1>3. CASE status' = "SUCCESS"
  <2>1. ObjectOf(v) \in Objects
    BY <1>1, <1>2, <1>3, ObjectFound DEF RefInv, ObTypeOK
  <2>2. "map" \in CallSteps /\ "map" \in HoldingSteps
    BY DEF CallSteps, HoldingSteps
  <2>3. call' \in CallRecords
    BY <1>1, <1>3, <2>1, <2>2, SlotsFound, CallBegunTyped
  <2>4. call'.step = "map" /\ call'.object = ObjectOf(v)
    BY <1>1, <1>3, <2>2, IdleTyped DEF CallRecords
  <2>5. CallTyped' /\ ~ At("boot")'
    BY <2>1, <2>3, <2>4 DEF CallTyped, At
  <2>6. ObStep /\ CallInv'
    BY <1>1, <1>2, <1>3, <2>4, <2>5, UseReference
  <2> QED BY <1>3, <2>4, <2>6
<1>4. CASE status' # "SUCCESS"
  <2>1. call' = Idle
    BY <1>1, <1>4
  <2>2. CallTyped' /\ ~ At("boot")' /\ call'.step \notin HoldingSteps
    BY <2>1, IdleCallTyped DEF At
  <2>3. ObStep /\ CallInv'
    BY <1>1, <1>2, <2>2, UseReference
  <2> QED BY <2>1, <2>3
<1> QED BY <1>3, <1>4

(* Every step of the system calls is a step of the object manager that     *)
(* keeps its rules: what is inserted or given back is held, what is made   *)
(* has a type.                                                             *)
LEMMA CallStep ==
  ASSUME RefInv, CallInv, BootTyped, SpawnReady, PoolsTyped, [KeNext]_keVars
  PROVE  ObStep /\ CallInv'
<1>1. CASE FileCalls
  <2>0. UNCHANGED views
    BY <1>1 DEF FileCalls
  <2>1. ASSUME NEW p \in Paths, NEW access \in Masks, NEW b \in Buffers, KipSysOpen(p, access, b)
        PROVE  ObStep /\ CallInv'
    BY <2>0, <2>1, OpenCallStep DEF KipSysOpen
  <2>2. ASSUME NEW v \in UserHandles, NEW b \in Buffers,
               KipSysRead(v, b) \/ KipSysCreateProcessFromFileHandle(v, b)
        PROVE  ObStep /\ CallInv'
    <3>1. At("idle") /\ \E next \in {"read", "spawn"} : ReferenceFile(v, next)
      BY <2>2 DEF KipSysRead, KipSysCreateProcessFromFileHandle, IoReadFileHandle,
         IoSpawnProcessFromFileHandle
    <3>2. ~ At("boot")
      BY <3>1 DEF At
    <3> QED BY <2>0, <3>1, <3>2, ReferenceFileStep
  <2>3. ASSUME NEW v \in UserHandles, KipSysCloseHandle(v)
        PROVE  ObStep /\ CallInv'
    BY <2>0, <2>3, UseClose DEF KipSysCloseHandle, KipSysClose, IoCloseFileHandle
  <2>4. ASSUME NEW p \in OtherPaths, IoRegisterBootFile(p)
        PROVE  ObStep /\ CallInv'
    BY <2>0, <2>4, RegisterCallStep
  <2> QED BY <1>1, <2>1, <2>2, <2>3, <2>4 DEF FileCalls
<1>2. CASE KiDispatchSystemCall /\ ~ FileCalls
  <2>1. ASSUME NEW v \in UserHandles, NEW b \in Buffers, KipSysSend(v, b) \/ KipSysReceive(v, b)
        PROVE  ObStep /\ CallInv'
    <3>1. /\ ~ At("boot")
          /\ \/ ReferencePort(v, SendAccess, "send", b[2])
             \/ ReferencePort(v, RecvAccess, "receive", b[2])
      BY <2>1 DEF KipSysSend, KipSysReceive, Accept, At
    <3>2. b[2] \in Nat
      BY SyscallConstants
    <3> QED BY <3>1, <3>2, ReferencePortStep
  <2> QED
    BY <1>2, <2>1, PortCallStep, SectionCallStep, ReferenceSectionStep, BufferCallStep
    DEF KiDispatchSystemCall
<1>3. CASE InProgress
  <2>1. CASE (IoInitialize \/ CreateTypes) /\ UNCHANGED views
    BY <2>1, TypeCallStep
  <2>2. CASE IoInProgress /\ UNCHANGED views
    <3>1. CASE SpawnAgain
      <4>1. call.handle \in UserHandles /\ ~ At("boot")
        BY <3>1 DEF SpawnAgain, At, CallInv, CallTyped, CallRecords
      <4> QED BY <2>2, <3>1, <4>1, ReferenceFileStep DEF SpawnAgain
    <3> QED
      BY <2>2, <3>1, CreateCallStep, LookupCallStep, InsertCallStep, EndCallStep
      DEF IoInProgress, EndsCall
  <2>3. CASE CreatePort \/ CreateSection
    BY <2>3, CreateCallStep DEF CreatePort, CreateSection
  <2>4. CASE SendDone \/ ReceiveDone \/ MapDone
    <3>1. CASE MapDone /\ call.slot # NoSlot
      BY <3>1, MapCallStep
    <3>2. CASE ~ (MapDone /\ call.slot # NoSlot)
      BY <2>4, <3>2, EndCallStep DEF EndsCall, SendDone, ReceiveDone, MapDone
    <3> QED BY <3>1, <3>2
  <2>5. CASE SpawnProcess \/ SpawnThread
    BY <2>5, SpawnCallStep
  <2> QED BY <1>3, <2>1, <2>2, <2>3, <2>4, <2>5 DEF InProgress
<1>4. CASE UNCHANGED keVars
  <2>1. UNCHANGED <<obVars, call, views>>
    BY <1>4 DEF keVars, ioVars
  <2> QED
    BY <2>1, UseNothing DEF CallInv, CallTyped, At, CallHolds
<1> QED BY <1>1, <1>2, <1>3, <1>4 DEF KeNext

-----------------------------------------------------------------------------
(***************************************************************************)
(* The pools of files, ports and sections.  PoolAgrees alone is not        *)
(* inductive: the slot a call has taken must still be without a header     *)
(* when ObCreateObject fills it in, and no two slots may have one header.  *)
(***************************************************************************)
PoolHolds(t, live, type, inUse, header) ==
  /\ \A o \in live : type[o] = t => \E s \in inUse : header[s] = o
  /\ \A s \in inUse : header[s] # NoObject => header[s] \in live /\ type[header[s]] = t
  /\ \A s, r \in inUse : header[s] = header[r] /\ header[s] # NoObject => s = r

Pending(step, inUse, header) ==
  At(step) => call.slot \in inUse /\ header[call.slot] = NoObject

FilePool    == PoolHolds(FileType, objectInUse, objectType, fileInUse, fileHeader)
PortPool    == PoolHolds(PortType, objectInUse, objectType, portInUse, portHeader)
SectionPool == PoolHolds(SectionType, objectInUse, objectType, sectionInUse, sectionHeader)

PoolInv ==
  /\ PoolsTyped
  /\ FilePool /\ PortPool /\ SectionPool
  /\ Pending("create", fileInUse, fileHeader)
  /\ Pending("createPort", portInUse, portHeader)
  /\ Pending("createSection", sectionInUse, sectionHeader)

(* The new object goes into a slot that had none. *)
Fills(inUse, header, header2, s, o) ==
  /\ s \in inUse /\ header[s] = NoObject /\ header2[s] = o
  /\ \A r \in inUse : r # s => header2[r] = header[r]
Adds(live, type, live2, type2, o, t) ==
  /\ o \in Objects \ live /\ live \subseteq Objects
  /\ live2 = live \cup {o} /\ type2[o] = t
  /\ \A p \in live : type2[p] = type[p]

LEMMA PoolCreate ==
  ASSUME NEW t, NEW live, NEW type, NEW inUse, NEW header, NEW live2, NEW type2, NEW header2,
         NEW o, NEW s, PoolHolds(t, live, type, inUse, header),
         Adds(live, type, live2, type2, o, t), Fills(inUse, header, header2, s, o)
  PROVE  PoolHolds(t, live2, type2, inUse, header2)
<1>1. NoObject \notin live /\ \A r \in inUse : header[r] # o
  BY DEF PoolHolds, Objects, NoObject, Adds
<1>2. ASSUME NEW p \in live2, type2[p] = t
      PROVE  \E r \in inUse : header2[r] = p
  <2>1. CASE p = o
    BY <2>1 DEF Fills
  <2>2. CASE p # o
    <3>1. PICK r \in inUse : header[r] = p
      BY <1>2, <2>2 DEF PoolHolds, Adds
    <3> QED BY <1>1, <2>2, <3>1 DEF Fills, Adds
  <2> QED BY <2>1, <2>2
<1>3. \A r \in inUse : header2[r] # NoObject =>
        header2[r] \in live2 /\ type2[header2[r]] = t
  BY DEF PoolHolds, Adds, Fills
<1>4. \A q, r \in inUse : header2[q] = header2[r] /\ header2[q] # NoObject => q = r
  BY <1>1 DEF PoolHolds, Fills, Adds
<1> QED BY <1>2, <1>3, <1>4 DEF PoolHolds

(* A new object of another kind. *)
LEMMA PoolOtherCreate ==
  ASSUME NEW t, NEW live, NEW type, NEW inUse, NEW header,
         PoolHolds(t, live, type, inUse, header), NEW o, o \notin live,
         NEW live2, live2 = live \cup {o},
         NEW type2, type2[o] # t, \A p \in live : type2[p] = type[p]
  PROVE  PoolHolds(t, live2, type2, inUse, header)
BY DEF PoolHolds

(* The slots of a deleted object are cleared; only a pool of its own kind  *)
(* has any.                                                                *)
LEMMA PoolFree ==
  ASSUME NEW t, NEW live, NEW type, NEW inUse, NEW header,
         PoolHolds(t, live, type, inUse, header), live \subseteq Objects, NEW o \in live,
         NEW live2, live2 = live \ {o},
         NEW type2, \A p \in live2 : type2[p] = type[p],
         NEW inUse2, inUse2 = {s \in inUse : header[s] # o},
         NEW header2, \A s \in inUse2 : header2[s] = header[s]
  PROVE  PoolHolds(t, live2, type2, inUse2, header2)
<1>1. ASSUME NEW p \in live2, type2[p] = t
      PROVE  \E s \in inUse2 : header2[s] = p
  <2>1. PICK s \in inUse : header[s] = p
    BY <1>1 DEF PoolHolds
  <2> QED BY <2>1
<1>2. \A s \in inUse2 : header2[s] # NoObject =>
        header2[s] \in live2 /\ type2[header2[s]] = t
  BY DEF PoolHolds
<1>3. \A s, r \in inUse2 : header2[s] = header2[r] /\ header2[s] # NoObject => s = r
  BY DEF PoolHolds
<1> QED BY <1>1, <1>2, <1>3 DEF PoolHolds

(* A slot is taken, without a header yet, or given back before it had one. *)
LEMMA PoolTake ==
  ASSUME NEW t, NEW live, NEW type, NEW inUse, NEW header,
         PoolHolds(t, live, type, inUse, header), NEW s, s \notin inUse,
         NEW inUse2, inUse2 = inUse \cup {s},
         NEW header2, header2[s] = NoObject, \A r \in inUse : header2[r] = header[r]
  PROVE  PoolHolds(t, live, type, inUse2, header2)
BY DEF PoolHolds

LEMMA PoolGiveBack ==
  ASSUME NEW t, NEW live, NEW type, NEW inUse, NEW header, live \subseteq Objects,
         PoolHolds(t, live, type, inUse, header), NEW s \in inUse, header[s] = NoObject,
         NEW inUse2, inUse2 = inUse \ {s}
  PROVE  PoolHolds(t, live, type, inUse2, header)
BY DEF PoolHolds, Objects, NoObject

(* What PoolHolds says of the number of slots. *)
LEMMA PoolHoldsAgrees ==
  ASSUME NEW t, NEW inUse, NEW header, objectInUse \subseteq Objects,
         PoolHolds(t, objectInUse, objectType, inUse, header)
  PROVE  PoolAgrees(t, inUse, header)
<1>1. ASSUME NEW o \in objectInUse, objectType[o] = t
      PROVE  Cardinality({s \in inUse : header[s] = o}) = 1
  <2>1. PICK s \in inUse : header[s] = o
    BY <1>1 DEF PoolHolds
  <2>2. o # NoObject
    BY DEF Objects, NoObject
  <2>3. {r \in inUse : header[r] = o} = {s}
    BY <2>1, <2>2 DEF PoolHolds
  <2> QED BY <2>3, FS_Singleton
<1> QED BY <1>1 DEF PoolHolds, PoolAgrees

(* The delete routines of a step that deletes nothing do nothing. *)
LEMMA NothingDeleted ==
  ASSUME PoolsTyped, objectInUse \subseteq objectInUse'
  PROVE  /\ DeleteRoutines => UNCHANGED <<portInUse, portHeader, sectionInUse, sectionHeader>>
         /\ RunDeleteRoutine => UNCHANGED fileVars
<1>1. \A t : Deleted(t) = {}
  BY DEF Deleted
<1>2. FreedPorts = {} /\ FreedSections = {}
  BY <1>1 DEF FreedPorts, FreedSections
<1>3. DeleteRoutines => UNCHANGED <<portInUse, portHeader, sectionInUse, sectionHeader>>
  <2> SUFFICES ASSUME DeleteRoutines
               PROVE  UNCHANGED <<portInUse, portHeader, sectionInUse, sectionHeader>>
    OBVIOUS
  <2>1. UNCHANGED <<portInUse, sectionInUse>>
    BY <1>2 DEF DeleteRoutines, LpcpDeletePortObject, MmpDeleteSectionObject
  <2>2. portHeader' = portHeader
    BY <1>2 DEF DeleteRoutines, LpcpDeletePortObject, PoolsTyped
  <2>3. sectionHeader' = sectionHeader
    BY <1>2 DEF DeleteRoutines, MmpDeleteSectionObject, PoolsTyped
  <2> QED BY <2>1, <2>2, <2>3
<1>4. RunDeleteRoutine => UNCHANGED fileVars
  BY DEF RunDeleteRoutine
<1> QED BY <1>3, <1>4

(* What the delete routines do when an object is deleted. *)
LEMMA FileDeleted ==
  ASSUME RefInv, PoolInv, NEW o \in objectInUse, FreesObject(o), RunDeleteRoutine
  PROVE  /\ fileInUse' = {s \in fileInUse : fileHeader[s] # o}
         /\ fileHeader' \in [Slots -> Objects \cup {NoObject}]
         /\ fileData' \in [Slots -> Nat]
         /\ \A s \in fileInUse' : fileHeader'[s] = fileHeader[s] /\ fileData'[s] = fileData[s]
<1>0. objectInUse \ objectInUse' = {o} /\ o \in Objects /\ o # NoObject /\ PoolsTyped
  BY DEF FreesObject, RefInv, ObTypeOK, Objects, NoObject, PoolInv
<1>1. CASE objectType[o] = FileType
  <2>1. {p \in objectInUse \ objectInUse' : objectType[p] = FileType} = {o}
    BY <1>0, <1>1
  <2>2. IopDeleteFileObject(o)
    BY <2>1 DEF RunDeleteRoutine
  <2> DEFINE freed == IopFindFileByHeader(o)
  <2>3. freed = {s \in fileInUse : fileHeader[s] = o}
    BY DEF IopFindFileByHeader
  <2>4. /\ fileInUse' = fileInUse \ freed
        /\ fileHeader' = [s \in Slots |-> IF s \in freed THEN NoObject ELSE fileHeader[s]]
        /\ fileData' = [s \in Slots |-> IF s \in freed THEN NoFile ELSE fileData[s]]
    BY <2>2 DEF IopDeleteFileObject
  <2> HIDE DEF freed
  <2> QED BY <1>0, <2>3, <2>4 DEF PoolsTyped, NoFile
<1>2. CASE objectType[o] # FileType
  <2>1. {p \in objectInUse \ objectInUse' : objectType[p] = FileType} = {}
    BY <1>0, <1>2
  <2>2. UNCHANGED <<fileInUse, fileHeader, fileData>>
    BY <2>1 DEF RunDeleteRoutine, fileVars
  <2>3. \A s \in fileInUse : fileHeader[s] # o
    BY <1>0, <1>2 DEF PoolInv, FilePool, PoolHolds
  <2> QED BY <1>0, <2>2, <2>3 DEF PoolsTyped
<1> QED BY <1>1, <1>2

LEMMA PortDeleted ==
  ASSUME RefInv, PoolInv, NEW o \in objectInUse, FreesObject(o), DeleteRoutines
  PROVE  /\ portInUse' = {s \in portInUse : portHeader[s] # o}
         /\ portHeader' \in [PortSlots -> Objects \cup {NoObject}]
         /\ \A s \in portInUse' : portHeader'[s] = portHeader[s]
         /\ FreedPorts = {s \in portInUse : portHeader[s] = o}
<1>0. objectInUse \ objectInUse' = {o} /\ o \in Objects /\ o # NoObject /\ PoolsTyped
  BY DEF FreesObject, RefInv, ObTypeOK, Objects, NoObject, PoolInv
<1>1. FreedPorts = {s \in portInUse : portHeader[s] = o}
  BY <1>0 DEF FreedPorts, Deleted, PoolInv, PortPool, PoolHolds
<1>2. /\ portInUse' = portInUse \ FreedPorts
      /\ portHeader' = [s \in PortSlots |->
                          IF s \in FreedPorts THEN NoObject ELSE portHeader[s]]
  BY DEF DeleteRoutines, LpcpDeletePortObject
<1> QED BY <1>0, <1>1, <1>2 DEF PoolsTyped

LEMMA SectionDeleted ==
  ASSUME RefInv, PoolInv, NEW o \in objectInUse, FreesObject(o), DeleteRoutines
  PROVE  /\ sectionInUse' = {s \in sectionInUse : sectionHeader[s] # o}
         /\ sectionHeader' \in [SectionSlots -> Objects \cup {NoObject}]
         /\ \A s \in sectionInUse' : sectionHeader'[s] = sectionHeader[s]
<1>0. objectInUse \ objectInUse' = {o} /\ o \in Objects /\ o # NoObject /\ PoolsTyped
  BY DEF FreesObject, RefInv, ObTypeOK, Objects, NoObject, PoolInv
<1>1. FreedSections = {s \in sectionInUse : sectionHeader[s] = o}
  BY <1>0 DEF FreedSections, Deleted, PoolInv, SectionPool, PoolHolds
<1>2. /\ sectionInUse' = sectionInUse \ FreedSections
      /\ sectionHeader' = [s \in SectionSlots |->
                             IF s \in FreedSections THEN NoObject ELSE sectionHeader[s]]
  BY DEF DeleteRoutines, MmpDeleteSectionObject
<1> QED BY <1>0, <1>1, <1>2 DEF PoolsTyped

(* The step that gives back a reference, with its delete routines. *)
LEMMA PoolsDrop ==
  ASSUME RefInv, PoolInv, RunDeleteRoutine, DeleteRoutines,
         PoolUnchanged \/ \E o \in objectInUse : FreesObject(o)
  PROVE  PoolsTyped' /\ FilePool' /\ PortPool' /\ SectionPool'
<1>1. CASE PoolUnchanged
  <2>1. UNCHANGED <<objectInUse, objectType, fileInUse, fileHeader, fileData, portInUse,
                    portHeader, sectionInUse, sectionHeader>>
    BY <1>1, NothingDeleted DEF PoolUnchanged, PoolInv, fileVars
  <2> QED
    BY <2>1 DEF PoolInv, PoolsTyped, FilePool, PortPool, SectionPool
<1>2. ASSUME NEW o \in objectInUse, FreesObject(o)
      PROVE  PoolsTyped' /\ FilePool' /\ PortPool' /\ SectionPool'
  <2>1. /\ objectInUse' = objectInUse \ {o} /\ objectInUse \subseteq Objects
        /\ \A p \in objectInUse' : objectType'[p] = objectType[p]
    BY <1>2 DEF RefInv, ObTypeOK, FreesObject
  <2>2. FilePool'
    BY <1>2, <2>1, FileDeleted, PoolFree DEF PoolInv, FilePool
  <2>3. PortPool'
    BY <1>2, <2>1, PortDeleted, PoolFree DEF PoolInv, PortPool
  <2>4. SectionPool'
    BY <1>2, <2>1, SectionDeleted, PoolFree DEF PoolInv, SectionPool
  <2>5. PoolsTyped'
    BY <1>2, FileDeleted, PortDeleted, SectionDeleted DEF PoolInv, PoolsTyped
  <2> QED BY <2>2, <2>3, <2>4, <2>5
<1> QED BY <1>1, <1>2

(* Operations that make and delete nothing. *)
LEMMA QuietPool ==
  /\ \A s : Fail(s) => PoolUnchanged
  /\ ObCreateType => PoolUnchanged
  /\ \A o, access : ObInsertHandle(o, access) => PoolUnchanged
  /\ \A v, desired, expected : ObReferenceObjectByHandle(v, desired, expected) => PoolUnchanged
  /\ UNCHANGED obVars => PoolUnchanged
<1>1. \A s : Fail(s) => PoolUnchanged
  BY DEF Fail, objectVars, PoolUnchanged
<1>2. ObCreateType => PoolUnchanged
  BY <1>1 DEF ObCreateType, objectVars, PoolUnchanged
<1>3. \A o, access : ObInsertHandle(o, access) => PoolUnchanged
  BY <1>1 DEF ObInsertHandle, PoolUnchanged
<1>4. \A v, desired, expected : ObReferenceObjectByHandle(v, desired, expected) => PoolUnchanged
  BY <1>1 DEF ObReferenceObjectByHandle, PoolUnchanged
<1>5. UNCHANGED obVars => PoolUnchanged
  BY DEF obVars, objectVars, PoolUnchanged
<1> QED BY <1>1, <1>2, <1>3, <1>4, <1>5

TakingSteps == {"create", "createPort", "createSection"}

(* A step that takes and fills no slot. *)
LEMMA PoolsKept ==
  ASSUME PoolInv, PoolUnchanged, call'.step \notin TakingSteps,
         UNCHANGED <<fileInUse, fileHeader, portInUse, portHeader, sectionInUse, sectionHeader>>,
         fileData' \in [Slots -> Nat]
  PROVE  PoolInv'
BY DEF PoolInv, PoolUnchanged, PoolsTyped, FilePool, PortPool, SectionPool, Pending, At,
   TakingSteps

LEMMA OpenPools ==
  ASSUME PoolInv, NEW p, NEW access, IoOpenPath(p, access), DeleteRoutines
  PROVE  PoolInv'
<1>0. At("idle") /\ PoolsTyped
  BY DEF IoOpenPath, PoolInv
<1>1. PoolUnchanged /\ UNCHANGED <<objectInUse, objectType>>
  BY QuietPool DEF IoOpenPath, PoolUnchanged
<1>2. UNCHANGED <<portInUse, portHeader, sectionInUse, sectionHeader>>
  BY <1>0, <1>1, NothingDeleted
<1>3. CASE UNCHANGED <<fileVars, call>>
  BY <1>0, <1>1, <1>2, <1>3, PoolsKept DEF fileVars, At, TakingSteps, PoolsTyped
<1>4. CASE ~ UNCHANGED <<fileVars, call>>
  <2>1. PICK s \in Slots \ fileInUse :
          /\ fileInUse' = fileInUse \cup {s}
          /\ fileHeader' = [fileHeader EXCEPT ![s] = NoObject]
          /\ fileData' = [fileData EXCEPT ![s] = NoFile]
          /\ call' = [Idle EXCEPT !.step = "create", !.slot = s, !.path = p, !.access = access]
    BY <1>4 DEF IoOpenPath
  <2>2. /\ fileHeader' \in [Slots -> Objects \cup {NoObject}] /\ fileData' \in [Slots -> Nat]
        /\ fileHeader'[s] = NoObject /\ \A r \in fileInUse : fileHeader'[r] = fileHeader[r]
    BY <1>0, <2>1 DEF PoolsTyped, NoFile
  <2>3. FilePool'
    <3>1. PoolHolds(FileType, objectInUse', objectType', fileInUse, fileHeader)
      BY <1>1 DEF PoolInv, FilePool
    <3>2. s \notin fileInUse /\ fileInUse' = fileInUse \cup {s}
      BY <2>1
    <3> QED BY <2>2, <3>1, <3>2, PoolTake DEF FilePool
  <2>4. PoolsTyped' /\ PortPool' /\ SectionPool'
    BY <1>0, <1>1, <1>2, <2>1, <2>2 DEF PoolInv, PoolsTyped, PortPool, SectionPool
  <2>5. call'.step = "create" /\ call'.slot = s
    BY <2>1, IdleTyped DEF CallRecords
  <2> QED BY <2>1, <2>2, <2>3, <2>4, <2>5 DEF PoolInv, Pending, At
<1> QED BY <1>3, <1>4

LEMMA PortPools ==
  ASSUME PoolInv, NEW access, KipSysCreatePort(access)
  PROVE  PoolInv'
<1>0. At("idle") /\ PoolsTyped
  BY DEF KipSysCreatePort, PoolInv
<1>1. PoolUnchanged /\ UNCHANGED <<objectInUse, objectType>>
  BY QuietPool DEF KipSysCreatePort, PoolUnchanged
<1>2. UNCHANGED <<fileInUse, fileHeader, fileData, sectionInUse, sectionHeader>>
  BY DEF KipSysCreatePort, fileVars, sectionVars
<1>3. CASE UNCHANGED <<portInUse, portHeader, call>>
  BY <1>0, <1>1, <1>2, <1>3, PoolsKept DEF At, TakingSteps, PoolsTyped
<1>4. CASE ~ UNCHANGED <<portInUse, portHeader, call>>
  <2>1. PICK s \in PortSlots \ portInUse :
          /\ portInUse' = portInUse \cup {s}
          /\ portHeader' = [portHeader EXCEPT ![s] = NoObject]
          /\ call' = [Idle EXCEPT !.step = "createPort", !.slot = s, !.access = access]
    BY <1>4 DEF KipSysCreatePort
  <2>2. /\ portHeader' \in [PortSlots -> Objects \cup {NoObject}]
        /\ portHeader'[s] = NoObject /\ \A r \in portInUse : portHeader'[r] = portHeader[r]
    BY <1>0, <2>1 DEF PoolsTyped
  <2>3. PortPool'
    <3>1. PoolHolds(PortType, objectInUse', objectType', portInUse, portHeader)
      BY <1>1 DEF PoolInv, PortPool
    <3>2. s \notin portInUse /\ portInUse' = portInUse \cup {s}
      BY <2>1
    <3> QED BY <2>2, <3>1, <3>2, PoolTake DEF PortPool
  <2>4. PoolsTyped' /\ FilePool' /\ SectionPool'
    BY <1>0, <1>1, <1>2, <2>1, <2>2 DEF PoolInv, PoolsTyped, FilePool, SectionPool
  <2>5. call'.step = "createPort" /\ call'.slot = s
    BY <2>1, IdleTyped DEF CallRecords
  <2> QED BY <2>1, <2>2, <2>3, <2>4, <2>5 DEF PoolInv, Pending, At
<1> QED BY <1>3, <1>4

LEMMA SectionPools ==
  ASSUME PoolInv, NEW access, NEW b, KipSysCreateSection(access, b)
  PROVE  PoolInv'
<1>0. At("idle") /\ PoolsTyped
  BY DEF KipSysCreateSection, AcceptPointer, Accept, PoolInv
<1>1. PoolUnchanged /\ UNCHANGED <<objectInUse, objectType>>
  BY QuietPool DEF KipSysCreateSection, PoolUnchanged
<1>2. UNCHANGED <<fileInUse, fileHeader, fileData, portInUse, portHeader>>
  BY DEF KipSysCreateSection, fileVars, portVars
<1>3. CASE UNCHANGED <<sectionInUse, sectionHeader, call>>
  BY <1>0, <1>1, <1>2, <1>3, PoolsKept DEF At, TakingSteps, PoolsTyped
<1>4. CASE ~ UNCHANGED <<sectionInUse, sectionHeader, call>>
  <2>1. PICK s \in SectionSlots \ sectionInUse :
          /\ sectionInUse' = sectionInUse \cup {s}
          /\ sectionHeader' = [sectionHeader EXCEPT ![s] = NoObject]
          /\ call' = [Idle EXCEPT !.step = "createSection", !.slot = s,
                        !.access = IF access = {} THEN SectionAccessAll ELSE access]
    BY <1>4 DEF KipSysCreateSection, sectionVars
  <2>2. /\ sectionHeader' \in [SectionSlots -> Objects \cup {NoObject}]
        /\ sectionHeader'[s] = NoObject
        /\ \A r \in sectionInUse : sectionHeader'[r] = sectionHeader[r]
    BY <1>0, <2>1 DEF PoolsTyped
  <2>3. SectionPool'
    <3>1. PoolHolds(SectionType, objectInUse', objectType', sectionInUse, sectionHeader)
      BY <1>1 DEF PoolInv, SectionPool
    <3>2. s \notin sectionInUse /\ sectionInUse' = sectionInUse \cup {s}
      BY <2>1
    <3> QED BY <2>2, <3>1, <3>2, PoolTake DEF SectionPool
  <2>4. PoolsTyped' /\ FilePool' /\ PortPool'
    BY <1>0, <1>1, <1>2, <2>1, <2>2 DEF PoolInv, PoolsTyped, FilePool, PortPool
  <2>5. call'.step = "createSection" /\ call'.slot = s
    BY <2>1, IdleTyped DEF CallRecords
  <2> QED BY <2>1, <2>2, <2>3, <2>4, <2>5 DEF PoolInv, Pending, At
<1> QED BY <1>3, <1>4

(* A new object does not disturb the pools of the other kinds. *)
LEMMA OthersKept ==
  ASSUME RefInv, PoolInv, NEW o \in Objects \ objectInUse, NEW t, CreatesObject(o, t)
  PROVE  /\ objectInUse' = objectInUse \cup {o}
         /\ objectType'[o] = t /\ \A p \in objectInUse : objectType'[p] = objectType[p]
         /\ t # FileType => PoolHolds(FileType, objectInUse', objectType', fileInUse, fileHeader)
         /\ t # PortType => PoolHolds(PortType, objectInUse', objectType', portInUse, portHeader)
         /\ t # SectionType =>
              PoolHolds(SectionType, objectInUse', objectType', sectionInUse, sectionHeader)
<1>1. /\ objectInUse' = objectInUse \cup {o}
      /\ objectType'[o] = t /\ \A p \in objectInUse : objectType'[p] = objectType[p]
  BY DEF CreatesObject, RefInv, ObTypeOK
<1>2. o \notin objectInUse
  OBVIOUS
<1>3. t # FileType => PoolHolds(FileType, objectInUse', objectType', fileInUse, fileHeader)
  BY <1>1, <1>2, PoolOtherCreate DEF PoolInv, FilePool
<1>4. t # PortType => PoolHolds(PortType, objectInUse', objectType', portInUse, portHeader)
  BY <1>1, <1>2, PoolOtherCreate DEF PoolInv, PortPool
<1>5. t # SectionType =>
        PoolHolds(SectionType, objectInUse', objectType', sectionInUse, sectionHeader)
  BY <1>1, <1>2, PoolOtherCreate DEF PoolInv, SectionPool
<1> QED BY <1>1, <1>3, <1>4, <1>5

(* The object a call makes goes into the slot the call has taken. *)
LEMMA OwnAdded ==
  ASSUME RefInv, NEW t, NEW o \in Objects \ objectInUse, CreatesObject(o, t)
  PROVE  Adds(objectInUse, objectType, objectInUse', objectType', o, t)
BY DEF CreatesObject, RefInv, ObTypeOK, Adds

LEMMA OwnFilled ==
  ASSUME NEW inUse, NEW header, NEW S, NEW s \in inUse, NEW o \in Objects,
         header \in [S -> Objects \cup {NoObject}], inUse \subseteq S, header[s] = NoObject
  PROVE  /\ Fills(inUse, header, [header EXCEPT ![s] = o], s, o)
         /\ [header EXCEPT ![s] = o] \in [S -> Objects \cup {NoObject}]
BY DEF Fills

LEMMA CreateFilePools ==
  ASSUME RefInv, CallInv, PoolInv, OpenCreate, DeleteRoutines
  PROVE  PoolInv'
<1>0. /\ At("create") /\ ObCreateObject(FileType, FileAccessAll)
      /\ UNCHANGED <<fileInUse, fileData>> /\ PoolsTyped
  BY DEF OpenCreate, PoolInv
<1>1. CASE status' = "SUCCESS"
  <2>1. /\ fileHeader' = [fileHeader EXCEPT ![call.slot] = NewObject]
        /\ call' = [call EXCEPT !.step = "lookup", !.object = NewObject]
    BY <1>1 DEF OpenCreate
  <2>2. NewObject \in Objects \ objectInUse /\ CreatesObject(NewObject, FileType)
    BY <1>0, <1>1, NewObjectMade
  <2>3. UNCHANGED <<portInUse, portHeader, sectionInUse, sectionHeader>>
    BY <1>0, <2>2, NothingDeleted DEF CreatesObject
  <2>4. call.slot \in fileInUse /\ fileHeader[call.slot] = NoObject
    BY <1>0 DEF PoolInv, Pending
  <2>5. FilePool' /\ fileHeader' \in [Slots -> Objects \cup {NoObject}]
    <3>1. /\ PoolHolds(FileType, objectInUse, objectType, fileInUse, fileHeader)
          /\ fileHeader \in [Slots -> Objects \cup {NoObject}] /\ fileInUse \subseteq Slots
          /\ fileInUse' = fileInUse
      BY <1>0, <2>1 DEF PoolInv, FilePool, PoolsTyped
    <3>2. NewObject \in Objects
      BY <2>2
    <3>3. /\ Fills(fileInUse, fileHeader, fileHeader', call.slot, NewObject)
          /\ fileHeader' \in [Slots -> Objects \cup {NoObject}]
      BY <2>1, <2>4, <3>1, <3>2, OwnFilled
    <3>4. Adds(objectInUse, objectType, objectInUse', objectType', NewObject, FileType)
      BY <2>2, OwnAdded
    <3>5. PoolHolds(FileType, objectInUse', objectType', fileInUse, fileHeader')
      BY <3>1, <3>3, <3>4, PoolCreate
    <3> QED BY <3>1, <3>3, <3>5 DEF FilePool
  <2>6. PortPool' /\ SectionPool'
    BY <2>2, <2>3, OthersKept DEF PortPool, SectionPool, FileType, PortType, SectionType
  <2>7. PoolsTyped'
    BY <1>0, <2>3, <2>5 DEF PoolsTyped
  <2>8. call'.step = "lookup"
    BY <1>0, <1>1, <2>1, MadeTyped
  <2> QED BY <2>5, <2>6, <2>7, <2>8 DEF PoolInv, Pending, At
<1>2. CASE status' # "SUCCESS"
  <2>1. PoolUnchanged /\ UNCHANGED fileHeader /\ call' = Idle
    BY <1>0, <1>2, NoObjectMade, QuietPool DEF OpenCreate
  <2>2. UNCHANGED <<portInUse, portHeader, sectionInUse, sectionHeader>>
    BY <1>0, <2>1, NothingDeleted DEF PoolUnchanged
  <2>3. call'.step \notin TakingSteps
    BY <2>1, IdleCallTyped DEF At, TakingSteps
  <2> QED BY <1>0, <2>1, <2>2, <2>3, PoolsKept DEF PoolsTyped
<1> QED BY <1>1, <1>2

LEMMA CreatePortPools ==
  ASSUME RefInv, CallInv, PoolInv, CreatePort
  PROVE  PoolInv'
<1>0. /\ At("createPort") /\ ObCreateObject(PortType, PortAccessAll) /\ PoolsTyped
      /\ UNCHANGED <<portInUse, fileInUse, fileHeader, fileData, sectionInUse, sectionHeader>>
  BY DEF CreatePort, PoolInv, fileVars, sectionVars
<1>1. CASE status' = "SUCCESS"
  <2>1. /\ portHeader' = [portHeader EXCEPT ![call.slot] = NewObject]
        /\ call' = [call EXCEPT !.step = "insert", !.object = NewObject]
    BY <1>1 DEF CreatePort
  <2>2. NewObject \in Objects \ objectInUse /\ CreatesObject(NewObject, PortType)
    BY <1>0, <1>1, NewObjectMade
  <2>4. call.slot \in portInUse /\ portHeader[call.slot] = NoObject
    BY <1>0 DEF PoolInv, Pending
  <2>5. PortPool' /\ portHeader' \in [PortSlots -> Objects \cup {NoObject}]
    <3>1. /\ PoolHolds(PortType, objectInUse, objectType, portInUse, portHeader)
          /\ portHeader \in [PortSlots -> Objects \cup {NoObject}] /\ portInUse \subseteq PortSlots
          /\ portInUse' = portInUse
      BY <1>0, <2>1 DEF PoolInv, PortPool, PoolsTyped
    <3>2. NewObject \in Objects
      BY <2>2
    <3>3. /\ Fills(portInUse, portHeader, portHeader', call.slot, NewObject)
          /\ portHeader' \in [PortSlots -> Objects \cup {NoObject}]
      BY <2>1, <2>4, <3>1, <3>2, OwnFilled
    <3>4. Adds(objectInUse, objectType, objectInUse', objectType', NewObject, PortType)
      BY <2>2, OwnAdded
    <3>5. PoolHolds(PortType, objectInUse', objectType', portInUse, portHeader')
      BY <3>1, <3>3, <3>4, PoolCreate
    <3> QED BY <3>1, <3>3, <3>5 DEF PortPool
  <2>6. FilePool' /\ SectionPool'
    BY <1>0, <2>2, OthersKept DEF FilePool, SectionPool, FileType, PortType, SectionType
  <2>7. PoolsTyped'
    BY <1>0, <2>5 DEF PoolsTyped
  <2>8. call'.step = "insert"
    BY <1>0, <1>1, <2>1, MadeTyped
  <2> QED BY <2>5, <2>6, <2>7, <2>8 DEF PoolInv, Pending, At
<1>2. CASE status' # "SUCCESS"
  <2>1. PoolUnchanged /\ UNCHANGED portHeader /\ call' = Idle
    BY <1>0, <1>2, NoObjectMade, QuietPool DEF CreatePort
  <2>2. call'.step \notin TakingSteps
    BY <2>1, IdleCallTyped DEF At, TakingSteps
  <2> QED BY <1>0, <2>1, <2>2, PoolsKept DEF PoolsTyped
<1> QED BY <1>1, <1>2

LEMMA CreateSectionPools ==
  ASSUME RefInv, CallInv, PoolInv, CreateSection
  PROVE  PoolInv'
<1>0. /\ At("createSection") /\ ObCreateObject(SectionType, SectionAccessAll) /\ PoolsTyped
      /\ UNCHANGED <<fileInUse, fileHeader, fileData, portInUse, portHeader>>
  BY DEF CreateSection, PoolInv, fileVars, portVars
<1>s. call.slot \in sectionInUse /\ sectionHeader[call.slot] = NoObject
  BY <1>0 DEF PoolInv, Pending
<1>1. CASE status' = "SUCCESS"
  <2>1. /\ sectionHeader' = [sectionHeader EXCEPT ![call.slot] = NewObject]
        /\ UNCHANGED sectionInUse
        /\ \E next \in {"insert", "drop"} :
             call' = [call EXCEPT !.step = next, !.object = NewObject]
    BY <1>1 DEF CreateSection
  <2>2. NewObject \in Objects \ objectInUse /\ CreatesObject(NewObject, SectionType)
    BY <1>0, <1>1, NewObjectMade
  <2>5. SectionPool' /\ sectionHeader' \in [SectionSlots -> Objects \cup {NoObject}]
    <3>1. /\ PoolHolds(SectionType, objectInUse, objectType, sectionInUse, sectionHeader)
          /\ sectionHeader \in [SectionSlots -> Objects \cup {NoObject}] /\ sectionInUse \subseteq SectionSlots
          /\ sectionInUse' = sectionInUse
      BY <1>0, <2>1 DEF PoolInv, SectionPool, PoolsTyped
    <3>2. NewObject \in Objects
      BY <2>2
    <3>3. /\ Fills(sectionInUse, sectionHeader, sectionHeader', call.slot, NewObject)
          /\ sectionHeader' \in [SectionSlots -> Objects \cup {NoObject}]
      BY <2>1, <1>s, <3>1, <3>2, OwnFilled
    <3>4. Adds(objectInUse, objectType, objectInUse', objectType', NewObject, SectionType)
      BY <2>2, OwnAdded
    <3>5. PoolHolds(SectionType, objectInUse', objectType', sectionInUse, sectionHeader')
      BY <3>1, <3>3, <3>4, PoolCreate
    <3> QED BY <3>1, <3>3, <3>5 DEF SectionPool
  <2>6. FilePool' /\ PortPool'
    BY <1>0, <2>2, OthersKept DEF FilePool, PortPool, FileType, PortType, SectionType
  <2>7. PoolsTyped'
    BY <1>0, <2>1, <2>5 DEF PoolsTyped
  <2>8. call'.step \in {"insert", "drop"}
    BY <1>0, <1>1, <2>1, MadeTyped
  <2> QED BY <2>5, <2>6, <2>7, <2>8 DEF PoolInv, Pending, At
<1>2. CASE status' # "SUCCESS"
  <2>1. /\ PoolUnchanged /\ UNCHANGED sectionHeader /\ call' = Idle
        /\ sectionInUse' = sectionInUse \ {call.slot}
    BY <1>0, <1>2, NoObjectMade, QuietPool DEF CreateSection
  <2>2. UNCHANGED <<objectInUse, objectType>> /\ objectInUse \subseteq Objects
    BY <2>1 DEF PoolUnchanged, RefInv, ObTypeOK
  <2>3. SectionPool'
    BY <1>s, <2>1, <2>2, PoolGiveBack DEF PoolInv, SectionPool
  <2>4. PoolsTyped' /\ FilePool' /\ PortPool'
    BY <1>0, <2>1, <2>2 DEF PoolInv, PoolsTyped, FilePool, PortPool
  <2>5. At("idle")'
    BY <2>1, IdleCallTyped
  <2> QED BY <2>3, <2>4, <2>5 DEF PoolInv, Pending, At
<1> QED BY <1>1, <1>2

LEMMA SpawnPools ==
  ASSUME RefInv, CallInv, PoolInv, SpawnProcess \/ SpawnThread
  PROVE  PoolInv'
<1>0. UNCHANGED <<fileInUse, fileHeader, fileData, portInUse, portHeader,
                  sectionInUse, sectionHeader>> /\ PoolsTyped
  BY DEF SpawnProcess, SpawnThread, fileVars, portVars, sectionVars, PoolInv
<1>1. call'.step \notin TakingSteps
  <2>1. call' = Idle \/ \E next \in {"idle", "thread"} : call' = [Idle EXCEPT !.step = next]
    BY DEF SpawnProcess, SpawnThread
  <2>2. call'.step \in {"idle", "thread"}
    BY <2>1, IdleCallTyped, IdleTyped DEF At, CallRecords
  <2> QED BY <2>2 DEF TakingSteps
<1>2. CASE PoolUnchanged
  BY <1>0, <1>1, <1>2, PoolsKept DEF PoolsTyped
<1>3. CASE ~ PoolUnchanged
  <2>1. PICK t \in {ProcessType, ThreadType} : ObCreateObject(t, Rights)
    BY <1>3, QuietPool DEF SpawnProcess, SpawnThread
  <2>2. status' = "SUCCESS"
    BY <1>3, <2>1, NoObjectMade, QuietPool
  <2>3. NewObject \in Objects \ objectInUse /\ CreatesObject(NewObject, t)
    BY <2>1, <2>2, NewObjectMade
  <2>4. t # FileType /\ t # PortType /\ t # SectionType
    BY DEF ProcessType, ThreadType, FileType, PortType, SectionType
  <2>5. FilePool' /\ PortPool' /\ SectionPool'
    BY <1>0, <2>3, <2>4, OthersKept DEF FilePool, PortPool, SectionPool
  <2> QED BY <1>0, <1>1, <2>5 DEF PoolInv, PoolsTyped, Pending, At, TakingSteps
<1> QED BY <1>2, <1>3

LEMMA DropFrees ==
  ASSUME RefInv, CallInv, call.step \in HoldingSteps, ObDereferenceObject(call.object)
  PROVE  PoolUnchanged \/ (call.object \in objectInUse /\ FreesObject(call.object))
<1>1. call.object \in objectInUse
  BY HolderIsHeld, RefInvNoDangling DEF NoDanglingReference
<1> QED BY <1>1, DropReferencePool DEF ObDereferenceObject

LEMMA CloseFrees ==
  ASSUME RefInv, NEW v, ObCloseHandle(v)
  PROVE  PoolUnchanged \/ \E o \in objectInUse : FreesObject(o)
<1>1. CASE \E s : Fail(s)
  BY <1>1, QuietPool
<1>2. CASE ~ \E s : Fail(s)
  <2>1. PICK e \in entryInUse : DropReference(entryObject[e])
    BY <1>2 DEF ObCloseHandle, ObpFindHandleEntry
  <2>2. entryObject[e] \in objectInUse
    BY RefInvNoDangling DEF NoDanglingReference
  <2> QED BY <2>1, <2>2, DropReferencePool
<1> QED BY <1>1, <1>2

LEMMA EndPools ==
  ASSUME RefInv, CallInv, BootTyped, SpawnReady, PoolInv, UNCHANGED views, EndsCall,
         DeleteRoutines
  PROVE  PoolInv'
<1>1. /\ call.step \in HoldingSteps /\ call'.step \notin TakingSteps
      /\ ObDereferenceObject(call.object) /\ RunDeleteRoutine
  BY EndCallStep DEF HoldingSteps, TakingSteps
<1>2. PoolsTyped' /\ FilePool' /\ PortPool' /\ SectionPool'
  BY <1>1, DropFrees, PoolsDrop
<1> QED BY <1>1, <1>2 DEF PoolInv, Pending, At, TakingSteps

LEMMA ClosePools ==
  ASSUME RefInv, PoolInv, NEW v, KipSysCloseHandle(v), DeleteRoutines
  PROVE  PoolInv'
<1>1. At("idle") /\ ObCloseHandle(v) /\ RunDeleteRoutine /\ UNCHANGED call
  BY DEF KipSysCloseHandle, KipSysClose, IoCloseFileHandle
<1>2. PoolsTyped' /\ FilePool' /\ PortPool' /\ SectionPool'
  BY <1>1, CloseFrees, PoolsDrop
<1> QED BY <1>1, <1>2 DEF PoolInv, Pending, At

(* Steps that neither make nor delete objects. *)
LEMMA QuietFilePools ==
  ASSUME PoolInv, PoolUnchanged, DeleteRoutines, UNCHANGED <<fileInUse, fileHeader>>,
         fileData' \in [Slots -> Nat], call'.step \notin TakingSteps
  PROVE  PoolInv'
<1>1. PoolsTyped
  BY DEF PoolInv
<1>2. UNCHANGED <<portInUse, portHeader, sectionInUse, sectionHeader>>
  BY <1>1, NothingDeleted DEF PoolUnchanged
<1> QED BY <1>2, PoolsKept

LEMMA PoolInvStep ==
  ASSUME RefInv, CallInv, BootTyped, SpawnReady, PoolInv, [KeNext]_keVars
  PROVE  PoolInv'
<1>0. PoolsTyped /\ fileData \in [Slots -> Nat]
  BY DEF PoolInv, PoolsTyped
<1>1. CASE FileCalls
  <2>0. DeleteRoutines
    BY <1>1 DEF FileCalls
  <2>1. ASSUME NEW p \in Paths, NEW access \in Masks, NEW b \in Buffers, KipSysOpen(p, access, b)
        PROVE  PoolInv'
    BY <2>0, <2>1, OpenPools DEF KipSysOpen
  <2>2. ASSUME NEW v \in UserHandles, NEW b \in Buffers,
               KipSysRead(v, b) \/ KipSysCreateProcessFromFileHandle(v, b)
        PROVE  PoolInv'
    <3>1. At("idle") /\ \E next \in {"read", "spawn"} : ReferenceFile(v, next)
      BY <2>2 DEF KipSysRead, KipSysCreateProcessFromFileHandle, IoReadFileHandle,
         IoSpawnProcessFromFileHandle
    <3>2. PoolUnchanged /\ UNCHANGED <<fileInUse, fileHeader, fileData>>
      BY <3>1, QuietPool DEF ReferenceFile, fileVars
    <3>3. ~ At("boot") /\ UNCHANGED views
      BY <1>1, <3>1 DEF At, FileCalls
    <3>4. call'.step \notin TakingSteps
      BY <1>0, <3>1, <3>3, ReferenceFileStep, IdleCallTyped DEF TakingSteps, At
    <3> QED BY <1>0, <2>0, <3>2, <3>4, QuietFilePools
  <2>3. ASSUME NEW v \in UserHandles, KipSysCloseHandle(v)
        PROVE  PoolInv'
    BY <2>0, <2>3, ClosePools
  <2>4. ASSUME NEW p \in OtherPaths, IoRegisterBootFile(p)
        PROVE  PoolInv'
    <3>1. /\ PoolUnchanged /\ UNCHANGED <<fileInUse, fileHeader, fileData>>
          /\ call'.step \notin TakingSteps
      BY <2>4, QuietPool DEF IoRegisterBootFile, fileVars, At, TakingSteps
    <3> QED BY <1>0, <2>0, <3>1, QuietFilePools
  <2> QED BY <1>1, <2>1, <2>2, <2>3, <2>4 DEF FileCalls
<1>2. CASE KiDispatchSystemCall /\ ~ FileCalls
  <2>1. ASSUME NEW v \in UserHandles, NEW b \in Buffers, KipSysSend(v, b) \/ KipSysReceive(v, b)
        PROVE  PoolInv'
    <3>1. /\ ~ At("boot")
          /\ \/ ReferencePort(v, SendAccess, "send", b[2])
             \/ ReferencePort(v, RecvAccess, "receive", b[2])
      BY <2>1 DEF KipSysSend, KipSysReceive, Accept, At
    <3>2. b[2] \in Nat
      BY SyscallConstants
    <3>3. call'.step \notin TakingSteps
      BY <1>0, <3>1, <3>2, ReferencePortStep, IdleCallTyped DEF TakingSteps, At
    <3>4. /\ PoolUnchanged
          /\ UNCHANGED <<fileInUse, fileHeader, fileData, portInUse, portHeader,
                         sectionInUse, sectionHeader>>
      BY <3>1, QuietPool DEF ReferencePort, fileVars, portVars, sectionVars
    <3> QED BY <1>0, <3>3, <3>4, PoolsKept
  <2>2. ASSUME NEW v \in UserHandles, NEW write \in BOOLEAN, NEW b \in Buffers,
               KipSysMapSection(v, write, b)
        PROVE  PoolInv'
    <3>1. call'.step \notin TakingSteps
      BY <1>0, <2>2, ReferenceSectionStep, IdleCallTyped DEF TakingSteps, At
    <3>2. /\ PoolUnchanged
          /\ UNCHANGED <<fileInUse, fileHeader, fileData, portInUse, portHeader,
                         sectionInUse, sectionHeader>>
      BY <2>2, QuietPool DEF KipSysMapSection, fileVars, portVars, sectionVars
    <3> QED BY <1>0, <3>1, <3>2, PoolsKept
  <2>3. ASSUME NEW b \in Buffers, KipSysCreateProcessFromBuffer(b) \/ RefuseCall(b)
        PROVE  PoolInv'
    <3>1. /\ PoolUnchanged
          /\ UNCHANGED <<fileInUse, fileHeader, fileData, portInUse, portHeader,
                         sectionInUse, sectionHeader>>
      BY <2>3, QuietPool
      DEF KipSysCreateProcessFromBuffer, RefuseCall, fileVars, portVars, sectionVars
    <3>2. call'.step \notin TakingSteps
      BY <2>3, IdleTyped DEF KipSysCreateProcessFromBuffer, RefuseCall, At, TakingSteps,
         CallRecords
    <3> QED BY <1>0, <3>1, <3>2, PoolsKept
  <2> QED
    BY <1>2, <2>1, <2>2, <2>3, PortPools, SectionPools DEF KiDispatchSystemCall
<1>3. CASE InProgress
  <2>1. CASE (IoInitialize \/ CreateTypes) /\ DeleteRoutines
    <3>1. PoolUnchanged /\ UNCHANGED <<fileInUse, fileHeader, fileData>>
      BY <2>1, QuietPool DEF IoInitialize, CreateTypes, fileVars
    <3>2. call'.step \notin TakingSteps
      BY <2>1, IdleCallTyped DEF IoInitialize, CreateTypes, At, TakingSteps
    <3> QED BY <1>0, <2>1, <3>1, <3>2, QuietFilePools
  <2>2. CASE IoInProgress /\ DeleteRoutines /\ UNCHANGED views
    <3>1. CASE SpawnAgain
      <4>1. call.handle \in UserHandles /\ ~ At("boot") /\ ReferenceFile(call.handle, "spawn")
        BY <3>1 DEF SpawnAgain, At, CallInv, CallTyped, CallRecords
      <4>2. PoolUnchanged /\ UNCHANGED <<fileInUse, fileHeader, fileData>>
        BY <4>1, QuietPool DEF ReferenceFile, fileVars
      <4>3. call'.step \notin TakingSteps
        BY <1>0, <2>2, <4>1, ReferenceFileStep, IdleCallTyped DEF TakingSteps, At
      <4> QED BY <1>0, <2>2, <4>2, <4>3, QuietFilePools
    <3>2. CASE IopVfsOpen
      <4>1. /\ PoolUnchanged /\ UNCHANGED <<fileInUse, fileHeader>>
            /\ \/ fileData' = fileData
               \/ fileData' = [fileData EXCEPT ![call.slot] = IopFsFatLookupFile(call.path)]
        BY <3>2, QuietPool DEF IopVfsOpen
      <4>2. fileData' \in [Slots -> Nat]
        BY <1>0, <4>1, LookupTyped
      <4>3. call'.step \notin TakingSteps
        BY <2>2, <3>2, LookupCallStep DEF TakingSteps
      <4> QED BY <2>2, <4>1, <4>2, <4>3, QuietFilePools
    <3>3. CASE InsertHandle
      <4>1. PoolUnchanged /\ UNCHANGED <<fileInUse, fileHeader, fileData>>
        BY <3>3, QuietPool DEF InsertHandle, fileVars
      <4>2. call'.step \notin TakingSteps
        BY <2>2, <3>3, InsertCallStep DEF TakingSteps
      <4> QED BY <1>0, <2>2, <4>1, <4>2, QuietFilePools
    <3> QED
      BY <2>2, <3>1, <3>2, <3>3, CreateFilePools, EndPools DEF IoInProgress, EndsCall
  <2>3. CASE CreatePort \/ CreateSection
    BY <2>3, CreatePortPools, CreateSectionPools
  <2>4. CASE SendDone \/ ReceiveDone \/ MapDone
    <3>1. CASE MapDone /\ call.slot # NoSlot
      <4>1. /\ PoolUnchanged
            /\ UNCHANGED <<fileInUse, fileHeader, fileData, portInUse, portHeader,
                           sectionInUse, sectionHeader>>
        BY <3>1, QuietPool DEF MapDone, HoldReference, fileVars, sectionVars
      <4>2. call'.step \notin TakingSteps
        BY <3>1, MapCallStep DEF At, TakingSteps
      <4> QED BY <1>0, <4>1, <4>2, PoolsKept
    <3>2. CASE ~ (MapDone /\ call.slot # NoSlot)
      <4>1. EndsCall /\ UNCHANGED views /\ DeleteRoutines
        BY <2>4, <3>2 DEF EndsCall, SendDone, ReceiveDone, MapDone, ReturnObject
      <4> QED BY <4>1, EndPools
    <3> QED BY <3>1, <3>2
  <2>5. CASE SpawnProcess \/ SpawnThread
    BY <2>5, SpawnPools
  <2> QED BY <1>3, <2>1, <2>2, <2>3, <2>4, <2>5 DEF InProgress
<1>4. CASE UNCHANGED keVars
  <2>1. UNCHANGED <<objectInUse, objectType, fileInUse, fileHeader, fileData, portInUse,
                    portHeader, sectionInUse, sectionHeader, call>>
    BY <1>4 DEF keVars, ioVars, obVars, objectVars, fileVars, portVars, sectionVars
  <2> QED
    BY <2>1 DEF PoolInv, PoolsTyped, FilePool, PortPool, SectionPool, Pending, At
<1> QED BY <1>1, <1>2, <1>3, <1>4 DEF KeNext

-----------------------------------------------------------------------------
(***************************************************************************)
(* Which action takes a call where, and which of them touch the handle     *)
(* table and the file pool.                                                *)
(***************************************************************************)
Closes(v) == At("idle") /\ IoCloseFileHandle(v) /\ v \in UserHandles
References(v, next) ==
  /\ v \in UserHandles /\ ReferenceFile(v, next) /\ status' = "SUCCESS"
  /\ call'.handle = v /\ call'.object = ObjectOf(v)
  /\ call'.slot = FileSlotOf(ObjectOf(v)) /\ call'.size = call.size
MapsSection ==
  \E v \in UserHandles, access \in SUBSET Rights :
    /\ ObReferenceObjectByHandle(v, access, SectionType) /\ status' = "SUCCESS"
    /\ call'.object = ObjectOf(v)

ReferencesPort ==
  \E v \in UserHandles, access \in SUBSET Rights :
    /\ ObReferenceObjectByHandle(v, access, PortType) /\ status' = "SUCCESS"
    /\ call'.object = ObjectOf(v)
    /\ call'.slot = FirstOf(LpcpFindPortByHeader(ObjectOf(v)))
    /\ UNCHANGED portVars

Transitions ==
  /\ At("map")' => MapsSection
  /\ At("send")' \/ At("receive")' => ReferencesPort
  /\ At("lookup")' => OpenCreate /\ status' = "SUCCESS"
  /\ At("insert")' => IopVfsOpen \/ ((CreatePort \/ CreateSection) /\ status' = "SUCCESS")
  /\ At("spawn")' => \/ At("idle") /\ \E v \in UserHandles : References(v, "spawn")
                     \/ At("again") /\ References(call.handle, "spawn")
  /\ At("again")' => SpawnTurn
  /\ At("process")' => SpawnTurn \/ call'.handle = 0
  /\ At("boot")' => At("boot")
  /\ TableUnchanged \/ InsertHandle \/ \E v : Closes(v)
  /\ UNCHANGED opened \/ InsertHandle \/ \E v : Closes(v)
  /\ UNCHANGED views \/ (MapDone /\ call.slot # NoSlot)
  /\ \/ UNCHANGED fileVars
     \/ \E p, access : IoOpenPath(p, access)
     \/ OpenCreate \/ IopVfsOpen
     \/ RunDeleteRoutine /\ (EndsCall \/ \E v : Closes(v))

LEMMA QuietTable ==
  /\ \A s : Fail(s) => TableUnchanged
  /\ ObCreateType => TableUnchanged
  /\ \A t, mask : ObCreateObject(t, mask) => TableUnchanged
  /\ \A o : ObDereferenceObject(o) => TableUnchanged
  /\ \A v, desired, expected : ObReferenceObjectByHandle(v, desired, expected) => TableUnchanged
  /\ UNCHANGED obVars => TableUnchanged
<1>1. \A s : Fail(s) => TableUnchanged
  BY DEF Fail, entryVars, TableUnchanged
<1>2. ObCreateType => TableUnchanged
  BY <1>1 DEF ObCreateType, entryVars, TableUnchanged
<1>3. \A t, mask : ObCreateObject(t, mask) => TableUnchanged
  BY <1>1 DEF ObCreateObject, entryVars, TableUnchanged
<1>4. \A o : ObDereferenceObject(o) => TableUnchanged
  BY DEF ObDereferenceObject, entryVars, TableUnchanged
<1>5. \A v, desired, expected : ObReferenceObjectByHandle(v, desired, expected) => TableUnchanged
  BY <1>1 DEF ObReferenceObjectByHandle, entryVars, TableUnchanged
<1>6. UNCHANGED obVars => TableUnchanged
  BY DEF obVars, entryVars, TableUnchanged
<1> QED BY <1>1, <1>2, <1>3, <1>4, <1>5, <1>6

(* A step of the calls that no other conjunct of Transitions is about. *)
LEMMA PlainTransition ==
  ASSUME TableUnchanged, UNCHANGED <<opened, views>>,
         call'.step \in {"idle", "drop", "read", "create", "createPort", "createSection",
                         "thread"},
         \/ UNCHANGED fileVars
         \/ \E p, access : IoOpenPath(p, access)
         \/ RunDeleteRoutine /\ EndsCall
  PROVE  Transitions
BY DEF Transitions, At

LEMMA TransitionsStep ==
  ASSUME RefInv, CallInv, BootTyped, SpawnReady, PoolsTyped, KeNext
  PROVE  Transitions
<1>1. CASE FileCalls
  <2>0. UNCHANGED views
    BY <1>1 DEF FileCalls
  <2>1. ASSUME NEW p \in Paths, NEW access \in Masks, NEW b \in Buffers, KipSysOpen(p, access, b)
        PROVE  Transitions
    <3>1. IoOpenPath(p, access)
      BY <2>1 DEF KipSysOpen
    <3>2. TableUnchanged /\ UNCHANGED opened
      BY <3>1, QuietTable DEF IoOpenPath
    <3>3. call'.step \in {"idle", "create"}
      BY <3>1, IdleTyped DEF IoOpenPath, At, CallRecords
    <3> QED BY <2>0, <3>1, <3>2, <3>3, PlainTransition
  <2>2. ASSUME NEW v \in UserHandles, NEW b \in Buffers, KipSysRead(v, b)
        PROVE  Transitions
    <3>1. At("idle") /\ ReferenceFile(v, "read")
      BY <2>2 DEF KipSysRead, IoReadFileHandle
    <3>2. TableUnchanged /\ UNCHANGED <<fileVars, opened>>
      BY <3>1, QuietTable DEF ReferenceFile
    <3>3. ~ At("boot")
      BY <3>1 DEF At
    <3>4. call'.step \in {"idle", "read"}
      BY <2>0, <3>1, <3>3, ReferenceFileStep, IdleCallTyped DEF At
    <3> QED BY <2>0, <3>2, <3>4, PlainTransition
  <2>3. ASSUME NEW v \in UserHandles, NEW b \in Buffers, KipSysCreateProcessFromFileHandle(v, b)
        PROVE  Transitions
    <3>1. At("idle") /\ ReferenceFile(v, "spawn")
      BY <2>3 DEF KipSysCreateProcessFromFileHandle, IoSpawnProcessFromFileHandle
    <3>2. TableUnchanged /\ UNCHANGED <<fileVars, opened>>
      BY <3>1, QuietTable DEF ReferenceFile
    <3>3. ~ At("boot")
      BY <3>1 DEF At
    <3>4. CASE call' = Idle
      BY <2>0, <3>2, <3>4, IdleCallTyped, PlainTransition DEF At
    <3>5. CASE call' # Idle
      <4>1. References(v, "spawn") /\ call'.step = "spawn"
        BY <2>0, <3>1, <3>3, <3>5, ReferenceFileStep DEF References
      <4> QED BY <2>0, <3>1, <3>2, <4>1 DEF Transitions, At
    <3> QED BY <3>4, <3>5
  <2>4. ASSUME NEW v \in UserHandles, KipSysCloseHandle(v)
        PROVE  Transitions
    <3>1. Closes(v) /\ UNCHANGED call /\ At("idle") /\ RunDeleteRoutine
      BY <2>4 DEF KipSysCloseHandle, KipSysClose, IoCloseFileHandle, Closes
    <3> QED BY <2>0, <3>1 DEF Transitions, At
  <2>5. ASSUME NEW p \in OtherPaths, IoRegisterBootFile(p)
        PROVE  Transitions
    <3>1. TableUnchanged /\ UNCHANGED <<fileVars, opened, call>> /\ At("boot")
      BY <2>5, QuietTable DEF IoRegisterBootFile
    <3> QED BY <2>0, <3>1 DEF Transitions, At
  <2> QED BY <1>1, <2>1, <2>2, <2>3, <2>4, <2>5 DEF FileCalls
<1>2. CASE KiDispatchSystemCall /\ ~ FileCalls
  <2>1. ASSUME NEW access \in Masks, KipSysCreatePort(access)
        PROVE  Transitions
    <3>1. TableUnchanged /\ UNCHANGED <<fileVars, opened, views>>
      BY <2>1, QuietTable DEF KipSysCreatePort
    <3>2. call'.step \in {"idle", "createPort"}
      BY <2>1, IdleTyped DEF KipSysCreatePort, At, CallRecords
    <3> QED BY <3>1, <3>2, PlainTransition
  <2>2. ASSUME NEW access \in Masks, NEW b \in Buffers, KipSysCreateSection(access, b)
        PROVE  Transitions
    <3>1. TableUnchanged /\ UNCHANGED <<fileVars, opened, views>>
      BY <2>2, QuietTable DEF KipSysCreateSection
    <3>2. call'.step \in {"idle", "createSection"}
      BY <2>2, IdleTyped DEF KipSysCreateSection, AcceptPointer, Accept, At, CallRecords
    <3> QED BY <3>1, <3>2, PlainTransition
  <2>3. ASSUME NEW v \in UserHandles, NEW b \in Buffers, KipSysSend(v, b) \/ KipSysReceive(v, b)
        PROVE  Transitions
    <3>1. /\ ~ At("boot")
          /\ \/ ReferencePort(v, SendAccess, "send", b[2])
             \/ ReferencePort(v, RecvAccess, "receive", b[2])
      BY <2>3 DEF KipSysSend, KipSysReceive, Accept, At
    <3>2. b[2] \in Nat
      BY SyscallConstants
    <3>3. TableUnchanged /\ UNCHANGED <<fileVars, opened, views, portVars>>
      BY <3>1, QuietTable DEF ReferencePort
    <3>4. CASE call' = Idle
      BY <3>3, <3>4, IdleCallTyped, PlainTransition DEF At
    <3>5. CASE call' # Idle
      <4>1. /\ call'.step \in {"send", "receive"} /\ status' = "SUCCESS"
            /\ call'.object = ObjectOf(v)
            /\ call'.slot = FirstOf(LpcpFindPortByHeader(ObjectOf(v)))
        BY <3>1, <3>2, <3>5, ReferencePortStep
      <4>2. \E access \in SUBSET Rights : ObReferenceObjectByHandle(v, access, PortType)
        BY <3>1, IoConstants DEF ReferencePort, SendAccess, RecvAccess
      <4>3. ReferencesPort
        BY <3>3, <4>1, <4>2 DEF ReferencesPort
      <4> QED BY <3>3, <4>1, <4>3 DEF Transitions, At
    <3> QED BY <3>4, <3>5
  <2>4. ASSUME NEW v \in UserHandles, NEW write \in BOOLEAN, NEW b \in Buffers,
               KipSysMapSection(v, write, b)
        PROVE  Transitions
    <3>1. TableUnchanged /\ UNCHANGED <<fileVars, opened, views>>
      BY <2>4, QuietTable DEF KipSysMapSection
    <3>2. CASE call' = Idle
      BY <3>1, <3>2, IdleCallTyped, PlainTransition DEF At
    <3>3. CASE call' # Idle
      <4>1. call'.step = "map" /\ status' = "SUCCESS" /\ call'.object = ObjectOf(v)
        BY <2>4, <3>3, ReferenceSectionStep
      <4>2. \E access \in SUBSET Rights : ObReferenceObjectByHandle(v, access, SectionType)
        BY <2>4, IoConstants DEF KipSysMapSection
      <4>3. MapsSection
        BY <4>1, <4>2 DEF MapsSection
      <4> QED BY <3>1, <4>1, <4>3 DEF Transitions, At
    <3> QED BY <3>2, <3>3
  <2>5. ASSUME NEW b \in Buffers, RefuseCall(b)
        PROVE  Transitions
    <3>1. TableUnchanged /\ UNCHANGED <<fileVars, opened, views, call>> /\ At("idle")
      BY <2>5, QuietTable DEF RefuseCall
    <3> QED BY <3>1, PlainTransition DEF At
  <2>6. ASSUME NEW b \in Buffers, KipSysCreateProcessFromBuffer(b)
        PROVE  Transitions
    <3>1. TableUnchanged /\ UNCHANGED <<fileVars, opened, views>>
      BY <2>6, QuietTable DEF KipSysCreateProcessFromBuffer
    <3>2. Idle.handle = 0
      BY Zenon DEF Idle
    <3>3. call'.step = "process" /\ call'.handle = 0
      BY <2>6, <3>2, IdleTyped DEF KipSysCreateProcessFromBuffer, CallRecords
    <3> QED BY <3>1, <3>3 DEF Transitions, At
  <2> QED
    BY <1>2, <2>1, <2>2, <2>3, <2>4, <2>5, <2>6 DEF KiDispatchSystemCall
<1>3. CASE InProgress
  <2>1. CASE (IoInitialize \/ CreateTypes) /\ UNCHANGED views
    <3>1. TableUnchanged /\ UNCHANGED <<fileVars, opened>> /\ At("boot")
      BY <2>1, QuietTable DEF IoInitialize, CreateTypes
    <3>2. CASE UNCHANGED call
      BY <2>1, <3>1, <3>2 DEF Transitions, At
    <3>3. CASE call' = Idle
      BY <2>1, <3>1, <3>3, IdleCallTyped, PlainTransition DEF At
    <3> QED BY <2>1, <3>2, <3>3 DEF IoInitialize, CreateTypes
  <2>2. CASE OpenCreate /\ UNCHANGED views
    <3>1. TableUnchanged /\ UNCHANGED opened
      BY <2>2, QuietTable DEF OpenCreate
    <3>2. CASE status' = "SUCCESS"
      <4>1. call'.step = "lookup"
        BY <2>2, <3>2, MadeTyped DEF OpenCreate
      <4> QED BY <2>2, <3>1, <3>2, <4>1 DEF Transitions, At
    <3>3. CASE status' # "SUCCESS"
      <4>1. call' = Idle
        BY <2>2, <3>3 DEF OpenCreate
      <4>2. call'.step = "idle"
        BY <4>1, IdleCallTyped DEF At
      <4> QED BY <2>2, <3>1, <4>2 DEF Transitions, At
    <3> QED BY <3>2, <3>3
  <2>3. CASE IopVfsOpen /\ UNCHANGED views
    <3>1. TableUnchanged /\ UNCHANGED opened
      BY <2>3, QuietTable DEF IopVfsOpen
    <3>2. call'.step \in {"drop", "insert"}
      BY <2>3, LookupCallStep
    <3> QED BY <2>3, <3>1, <3>2 DEF Transitions, At
  <2>4. CASE InsertHandle /\ UNCHANGED views
    <3>1. call'.step = "drop" /\ UNCHANGED fileVars
      BY <2>4, InsertCallStep DEF InsertHandle
    <3> QED BY <2>4, <3>1 DEF Transitions, At
  <2>5. CASE SpawnTurn /\ UNCHANGED views
    <3>1. TableUnchanged /\ UNCHANGED opened /\ RunDeleteRoutine /\ EndsCall
      BY <2>5, QuietTable DEF SpawnTurn, EndsCall
    <3>2. call'.step \in {"idle", "process", "again"}
      BY <2>5, TurnTyped
    <3> QED BY <2>5, <3>1, <3>2 DEF Transitions, At
  <2>6. CASE EndsCall /\ ~ SpawnTurn /\ UNCHANGED views
    <3>1. TableUnchanged /\ RunDeleteRoutine /\ UNCHANGED opened
      BY <2>6, QuietTable
      DEF EndsCall, DropObject, ReadDone, SendDone, ReceiveDone, MapDone, ReturnObject
    <3>2. call' = Idle
      BY <2>6 DEF EndsCall, DropObject, ReadDone, SendDone, ReceiveDone, MapDone, ReturnObject
    <3> QED BY <2>6, <3>1, <3>2, IdleCallTyped, PlainTransition DEF At
  <2>7. CASE SpawnAgain /\ UNCHANGED views
    <3>1. /\ call.handle \in UserHandles /\ ~ At("boot") /\ At("again")
          /\ ReferenceFile(call.handle, "spawn")
      BY <2>7 DEF SpawnAgain, At, CallInv, CallTyped, CallRecords
    <3>2. TableUnchanged /\ UNCHANGED <<fileVars, opened>>
      BY <3>1, QuietTable DEF ReferenceFile
    <3>3. CASE call' = Idle
      BY <2>7, <3>2, <3>3, IdleCallTyped, PlainTransition DEF At
    <3>4. CASE call' # Idle
      <4>1. References(call.handle, "spawn") /\ call'.step = "spawn"
        BY <2>7, <3>1, <3>4, ReferenceFileStep DEF References
      <4> QED BY <2>7, <3>1, <3>2, <4>1 DEF Transitions, At
    <3> QED BY <3>3, <3>4
  <2>8. CASE CreatePort \/ CreateSection
    <3>1. TableUnchanged /\ UNCHANGED <<fileVars, opened, views>>
      BY <2>8, QuietTable DEF CreatePort, CreateSection
    <3>2. CASE status' = "SUCCESS"
      <4>1. call'.step \in {"insert", "drop"}
        BY <2>8, <3>2, MadeTyped DEF CreatePort, CreateSection
      <4> QED BY <2>8, <3>1, <3>2, <4>1 DEF Transitions, At
    <3>3. CASE status' # "SUCCESS"
      <4>1. call' = Idle
        BY <2>8, <3>3 DEF CreatePort, CreateSection
      <4> QED BY <3>1, <4>1, IdleCallTyped, PlainTransition DEF At
    <3> QED BY <3>2, <3>3
  <2>9. CASE SendDone \/ ReceiveDone \/ MapDone
    <3>1. CASE MapDone /\ call.slot # NoSlot
      <4>1. TableUnchanged /\ UNCHANGED <<fileVars, opened>> /\ At("idle")'
        BY <3>1, QuietTable, MapCallStep DEF MapDone, HoldReference
      <4> QED BY <3>1, <4>1 DEF Transitions, At
    <3>2. CASE ~ (MapDone /\ call.slot # NoSlot)
      <4>1. EndsCall /\ UNCHANGED views /\ ~ SpawnTurn
        BY <2>9, <3>2 DEF EndsCall, SendDone, ReceiveDone, MapDone, SpawnTurn, At
      <4> QED BY <4>1, <2>6
    <3> QED BY <3>1, <3>2
  <2>10. CASE SpawnProcess \/ SpawnThread
    <3>1. TableUnchanged /\ UNCHANGED <<fileVars, opened, views>>
      BY <2>10, QuietTable DEF SpawnProcess, SpawnThread
    <3>2. call' = Idle \/ \E next \in {"idle", "thread"} : call' = [Idle EXCEPT !.step = next]
      BY <2>10 DEF SpawnProcess, SpawnThread
    <3>3. call'.step \in {"idle", "thread"}
      BY <3>2, IdleCallTyped, IdleTyped DEF At, CallRecords
    <3> QED BY <3>1, <3>3, PlainTransition
  <2> QED
    BY <1>3, <2>1, <2>2, <2>3, <2>4, <2>5, <2>6, <2>7, <2>8, <2>9, <2>10
    DEF InProgress, IoInProgress, EndsCall
<1> QED BY <1>1, <1>2, <1>3 DEF KeNext


-----------------------------------------------------------------------------
(***************************************************************************)
(* Views.  A view holds a reference, so its section stays in use, and an   *)
(* object that stays in use keeps its type.                                *)
(***************************************************************************)
ViewsInv ==
  /\ \A i \in DOMAIN views : objectType[views[i]] = SectionType
  /\ At("map") => objectType[call.object] = SectionType

LEMMA TypeKept ==
  ASSUME RefInv, ObStep
  PROVE  \A o \in objectInUse \cap objectInUse' : objectType'[o] = objectType[o]
BY PoolStep DEF PoolUnchanged, CreatesObject, FreesObject, RefInv, ObTypeOK

ViewsLive == \A i \in DOMAIN views : views[i] \in objectInUse

LEMMA ViewsInUse == RefInv /\ CallInv => ViewsLive
<1> SUFFICES ASSUME RefInv, CallInv, NEW i \in DOMAIN views PROVE views[i] \in objectInUse
  BY DEF ViewsLive
<1>1. views[i] \in Objects /\ views \in Seq(Objects)
  BY DEF CallInv
<1>2. IsFiniteSet(ViewsOf(views[i])) /\ Cardinality(ViewsOf(views[i])) \in Nat
  BY <1>1, ViewsOfFinite
<1>3. i \in ViewsOf(views[i])
  BY DEF ViewsOf
<1>4. Cardinality(ViewsOf(views[i])) # 0
  BY <1>2, <1>3, FS_EmptySet
<1>5. held[views[i]] \in Nat /\ Cardinality(ViewsOf(views[i])) <= held[views[i]]
  BY <1>1 DEF CallInv, HoldersCounted, RefInv, ObTypeOK
<1>6. views[i] \in HeldObjects
  BY <1>1, <1>2, <1>4, <1>5 DEF HeldObjects
<1> QED BY <1>6, RefInvNoDangling DEF NoDanglingReference

LEMMA ViewsInvStep ==
  ASSUME RefInv, RefInv', CallInv, CallInv', ViewsLive', ObStep, Transitions, ViewsInv
  PROVE  ViewsInv'
<1>1. ASSUME NEW i \in DOMAIN views' PROVE objectType'[views'[i]] = SectionType
  <2>1. CASE UNCHANGED views
    <3>1. views[i] \in objectInUse /\ objectType[views[i]] = SectionType
      BY <1>1, <2>1, ViewsInUse DEF ViewsInv, ViewsLive
    <3>2. views[i] \in objectInUse'
      BY <1>1, <2>1 DEF ViewsLive
    <3> QED BY <2>1, <3>1, <3>2, TypeKept
  <2>2. CASE MapDone /\ call.slot # NoSlot
    <3>1. /\ UNCHANGED objectType /\ views' = Append(views, call.object) /\ At("map")
          /\ views \in Seq(Objects)
      BY <2>2 DEF MapDone, HoldReference, obVars, objectVars, CallInv
    <3>2. CASE i \in DOMAIN views
      BY <3>1, <3>2 DEF ViewsInv
    <3>3. CASE i \notin DOMAIN views
      <4>1. views'[i] = call.object
        BY <1>1, <3>1, <3>3
      <4> QED BY <3>1, <4>1 DEF ViewsInv
    <3> QED BY <3>2, <3>3
  <2> QED BY <2>1, <2>2 DEF Transitions
<1>2. ASSUME At("map")' PROVE objectType'[call'.object] = SectionType
  <2>1. PICK v \in UserHandles, access \in SUBSET Rights :
          /\ ObReferenceObjectByHandle(v, access, SectionType) /\ status' = "SUCCESS"
          /\ call'.object = ObjectOf(v)
    BY <1>2 DEF Transitions, MapsSection
  <2>2. SectionType \in Types
    <3>1. PortType \in typeInUse'
      BY <1>2 DEF CallInv, TypesReady, At
    <3>2. 1 .. PortType \subseteq typeInUse' /\ typeInUse' \subseteq Types
      BY <3>1 DEF CallInv, TypesInOrder, RefInv, ObTypeOK
    <3> QED BY <3>2 DEF PortType, SectionType
  <2> QED BY <2>1, <2>2, ObjectFound DEF PoolUnchanged
<1> QED BY <1>1, <1>2 DEF ViewsInv


-----------------------------------------------------------------------------
(***************************************************************************)
(* Files.  A handle on a file finds the slot of its file, and the slot has *)
(* the data of the boot file the handle was opened on.  Between the making *)
(* of the object and its handle the call knows the slot and the file.      *)
(***************************************************************************)
EntryFile(e, s) ==
  /\ fileData[s] \in DOMAIN bootFiles
  /\ NotWrapped => fileData[s] = opened[entryHandle[e]]

EntriesHaveFiles ==
  \A e \in entryInUse, s \in fileInUse : fileHeader[s] = entryObject[e] => EntryFile(e, s)

LookupKnows ==
  At("lookup") => /\ call.slot \in fileInUse /\ fileHeader[call.slot] = call.object
                  /\ HandlesOf(call.object) = {}
InsertKnows ==
  At("insert") => \A s \in fileInUse : fileHeader[s] = call.object =>
                    fileData[s] = call.file /\ call.file \in DOMAIN bootFiles

FileInv ==
  /\ opened \in [HandleValues -> Nat]
  /\ At("boot") => entryInUse = {}
  /\ EntriesHaveFiles /\ LookupKnows /\ InsertKnows

(* What a step does to a file slot that has a header afterwards. *)
SlotKept(s) ==
  s \in fileInUse /\ fileHeader'[s] = fileHeader[s] /\ fileData'[s] = fileData[s]
SlotFilled(s) ==
  /\ OpenCreate /\ status' = "SUCCESS"
  /\ s = call.slot /\ s \in fileInUse /\ fileHeader'[s] = NewObject
SlotFound(s) ==
  /\ IopVfsOpen /\ s = call.slot /\ fileHeader'[s] = fileHeader[s]
  /\ s \in fileInUse /\ fileData'[s] \in {fileData[s], IopFsFatLookupFile(call.path)}

LEMMA SlotStep ==
  ASSUME RefInv, CallInv, PoolInv, Transitions,
         NEW s \in fileInUse', fileHeader'[s] # NoObject
  PROVE  SlotKept(s) \/ SlotFilled(s) \/ SlotFound(s)
<1>0. PoolsTyped
  BY DEF PoolInv
<1>1. CASE UNCHANGED fileVars
  BY <1>1 DEF fileVars, SlotKept
<1>2. ASSUME NEW p, NEW access, IoOpenPath(p, access), ~ UNCHANGED fileVars
      PROVE  SlotKept(s)
  <2>1. PICK r \in Slots \ fileInUse :
          /\ fileInUse' = fileInUse \cup {r}
          /\ fileHeader' = [fileHeader EXCEPT ![r] = NoObject]
          /\ fileData' = [fileData EXCEPT ![r] = NoFile]
    BY <1>2 DEF IoOpenPath
  <2>2. s # r
    BY <1>0, <2>1 DEF PoolsTyped
  <2> QED BY <1>0, <2>1, <2>2 DEF SlotKept, PoolsTyped
<1>3. CASE OpenCreate
  <2>1. UNCHANGED <<fileInUse, fileData>>
    BY <1>3 DEF OpenCreate
  <2>2. CASE s = call.slot /\ status' = "SUCCESS"
    <3>1. fileHeader' = [fileHeader EXCEPT ![call.slot] = NewObject]
      BY <1>3, <2>2 DEF OpenCreate
    <3> QED BY <1>0, <1>3, <2>1, <2>2, <3>1 DEF SlotFilled, PoolsTyped
  <2>3. CASE ~ (s = call.slot /\ status' = "SUCCESS")
    BY <1>0, <1>3, <2>1, <2>3 DEF OpenCreate, SlotKept, PoolsTyped
  <2> QED BY <2>2, <2>3
<1>4. CASE IopVfsOpen
  <2> DEFINE found == IopFsFatLookupFile(call.path)
  <2>1. /\ UNCHANGED <<fileInUse, fileHeader>>
        /\ fileData' = IF found = NoFile THEN fileData ELSE [fileData EXCEPT ![call.slot] = found]
    BY <1>4 DEF IopVfsOpen
  <2> HIDE DEF found
  <2>2. fileData'[s] = fileData[s] \/ (s = call.slot /\ fileData'[s] = found)
    BY <1>0, <2>1 DEF PoolsTyped
  <2> QED BY <1>4, <2>1, <2>2 DEF SlotKept, SlotFound, found
<1>5. CASE RunDeleteRoutine /\ (EndsCall \/ \E v : Closes(v))
  <2>1. PoolUnchanged \/ \E o \in objectInUse : FreesObject(o)
    <3>1. CASE EndsCall
      <4>1. call.step \in HoldingSteps /\ ObDereferenceObject(call.object)
        BY <3>1 DEF EndsCall, DropObject, ReadDone, SpawnTurn, SendDone, ReceiveDone, MapDone,
           ReturnObject, At, HoldingSteps
      <4> QED BY <4>1, DropFrees
    <3>2. CASE \E v : Closes(v)
      BY <3>2, CloseFrees DEF Closes, IoCloseFileHandle
    <3> QED BY <1>5, <3>1, <3>2
  <2>2. CASE PoolUnchanged
    BY <1>0, <1>1, <1>5, <2>2, NothingDeleted DEF PoolUnchanged
  <2>3. ASSUME NEW o \in objectInUse, FreesObject(o)
        PROVE  SlotKept(s)
    BY <1>5, <2>3, FileDeleted DEF SlotKept
  <2> QED BY <2>1, <2>2, <2>3
<1> QED BY <1>1, <1>2, <1>3, <1>4, <1>5 DEF Transitions

(* What an insert and a close do to the table, and to the record of which  *)
(* file each handle was opened on.                                         *)
Inserts(e) ==
  /\ OpensEntry(e)
  /\ entryObject' = [entryObject EXCEPT ![e] = call.object]
  /\ opened' = [opened EXCEPT ![nextHandle] = call.file]

LEMMA InsertedEntry ==
  ASSUME RefInv, CallInv, InsertHandle
  PROVE  \/ TableUnchanged /\ UNCHANGED opened
         \/ \E e \in Entries \ entryInUse : Inserts(e)
<1>0. call.object \in objectInUse
  <2>1. call.step \in HoldingSteps
    BY DEF InsertHandle, At, HoldingSteps
  <2> QED BY <2>1, HolderIsHeld, RefInvNoDangling DEF NoDanglingReference
<1>1. CASE \E s \in {"ACCESS_DENIED", "INIT_FAILED"} : Fail(s)
  BY <1>1 DEF Fail, InsertHandle, entryVars, TableUnchanged
<1>2. CASE ~ \E s \in {"ACCESS_DENIED", "INIT_FAILED"} : Fail(s)
  <2>1. ObInsertHandle(call.object, call.access)
    BY DEF InsertHandle
  <2>2. PICK e \in Entries \ entryInUse :
          /\ entryInUse' = entryInUse \cup {e}
          /\ entryObject' = [entryObject EXCEPT ![e] = call.object]
          /\ entryHandle' = [entryHandle EXCEPT ![e] = nextHandle]
          /\ nextHandle' = NextHandleValue /\ inserts' = inserts + 1
          /\ status' = "SUCCESS"
    BY <1>2, <2>1 DEF ObInsertHandle
  <2>3. opened' = [opened EXCEPT ![nextHandle] = call.file]
    BY <2>2 DEF InsertHandle
  <2> QED BY <1>0, <2>2, <2>3 DEF Inserts, OpensEntry
<1> QED BY <1>1, <1>2

LEMMA ClosedEntry ==
  ASSUME RefInv, NEW v, Closes(v)
  PROVE  \/ TableUnchanged /\ UNCHANGED opened
         \/ \E e \in entryInUse :
              /\ ClosesEntry(e) /\ entryHandle[e] = v
              /\ UNCHANGED opened \/ opened' = [opened EXCEPT ![v] = NoFile]
<1>1. CASE \E s \in {"INVALID_PARAMETER", "NOT_FOUND"} : Fail(s)
  BY <1>1 DEF Fail, Closes, IoCloseFileHandle, entryVars, TableUnchanged
<1>2. CASE ~ \E s \in {"INVALID_PARAMETER", "NOT_FOUND"} : Fail(s)
  <2>1. \E e \in entryInUse : ClosesEntry(e) /\ entryHandle[e] = v
    BY <1>2 DEF Closes, IoCloseFileHandle, ObCloseHandle, ObpFindHandleEntry, ClosesEntry
  <2>2. UNCHANGED opened \/ opened' = [opened EXCEPT ![v] = NoFile]
    BY DEF Closes, IoCloseFileHandle
  <2> QED BY <2>1, <2>2
<1> QED BY <1>1, <1>2


LEMMA EntryFileKept ==
  ASSUME NEW e, NEW s, EntryFile(e, s), SlotKept(s), UNCHANGED bootFiles,
         entryHandle'[e] = entryHandle[e], NotWrapped' => NotWrapped,
         NotWrapped' => opened'[entryHandle[e]] = opened[entryHandle[e]]
  PROVE  EntryFile(e, s)'
BY DEF EntryFile, SlotKept

(* The table stays empty until the boot is over. *)
LEMMA BootTableEmpty ==
  ASSUME FileInv, Transitions, At("boot")
  PROVE  TableUnchanged /\ entryInUse' = {}
BY DEF FileInv, Transitions, At, InsertHandle, Closes, TableUnchanged

LEMMA EntriesHaveFilesStep ==
  ASSUME HandleInv, RefInv', CallInv, PoolInv, FileInv, Transitions,
         ~ At("boot") => UNCHANGED bootFiles
  PROVE  EntriesHaveFiles'
<1>0. RefInv /\ ObTypeOK /\ opened \in [HandleValues -> Nat]
  BY DEF HandleInv, RefInv, FileInv
<1>1. CASE At("boot")
  BY <1>1, BootTableEmpty DEF EntriesHaveFiles
<1>2. CASE ~ At("boot")
  <2> SUFFICES ASSUME NEW e \in entryInUse', NEW s \in fileInUse',
                      fileHeader'[s] = entryObject'[e]
               PROVE  EntryFile(e, s)'
    BY DEF EntriesHaveFiles
  <2>0. UNCHANGED bootFiles
    BY <1>2
  <2>1. fileHeader'[s] # NoObject
    <3>1. entryObject'[e] \in Objects
      BY DEF RefInv, EntriesPointToObjects
    <3> QED BY <3>1 DEF Objects, NoObject
  <2>2. SlotKept(s) \/ SlotFilled(s) \/ SlotFound(s)
    BY <1>0, <2>1, SlotStep
  <2>3. CASE TableUnchanged /\ UNCHANGED opened
    <3>0. e \in entryInUse /\ entryObject'[e] = entryObject[e] /\ entryHandle'[e] = entryHandle[e]
      BY <2>3 DEF TableUnchanged
    <3>1. NotWrapped' => NotWrapped
      BY <2>3 DEF TableUnchanged, NotWrapped
    <3>2. CASE SlotKept(s)
      <4>1. EntryFile(e, s)
        BY <3>0, <3>2 DEF SlotKept, FileInv, EntriesHaveFiles
      <4> QED BY <2>0, <2>3, <3>0, <3>1, <3>2, <4>1, EntryFileKept
    <3>3. CASE SlotFilled(s)
      <4>1. NewObject \notin objectInUse
        BY <3>3, NewObjectMade DEF SlotFilled, OpenCreate
      <4>2. entryObject[e] \in objectInUse
        BY <1>0, <3>0, RefInvNoDangling DEF NoDanglingReference
      <4> QED BY <3>0, <3>3, <4>1, <4>2 DEF SlotFilled
    <3>4. CASE SlotFound(s)
      BY <3>0, <3>4 DEF SlotFound, IopVfsOpen, FileInv, LookupKnows, HandlesOf
    <3> QED BY <2>2, <3>2, <3>3, <3>4
  <2>4. ASSUME InsertHandle, NEW f \in Entries \ entryInUse, Inserts(f)
        PROVE  EntryFile(e, s)'
    <3>0. SlotKept(s) /\ At("insert")
      BY <2>4 DEF InsertHandle, fileVars, SlotKept
    <3>1. /\ entryInUse' = entryInUse \cup {f} /\ OpensEntry(f)
          /\ nextHandle \in HandleValues
          /\ entryObject'[f] = call.object /\ entryHandle'[f] = nextHandle
          /\ \A g \in entryInUse : entryObject'[g] = entryObject[g] /\ entryHandle'[g] = entryHandle[g]
          /\ opened' = [opened EXCEPT ![nextHandle] = call.file]
      BY <1>0, <2>4 DEF Inserts, OpensEntry, ObTypeOK
    <3>2. CASE e = f
      <4>1. fileData[s] = call.file /\ call.file \in DOMAIN bootFiles
        BY <3>0, <3>1, <3>2 DEF SlotKept, FileInv, InsertKnows
      <4> QED BY <1>0, <2>0, <3>0, <3>1, <3>2, <4>1 DEF EntryFile, SlotKept
    <3>3. CASE e # f
      <4>1. e \in entryInUse /\ entryObject'[e] = entryObject[e] /\ entryHandle'[e] = entryHandle[e]
        BY <3>1, <3>3
      <4>2. NotWrapped' => NotWrapped /\ entryHandle[e] # nextHandle
        BY <2>4, <3>1, <4>1, OpensFreshHandle DEF HandleInv, HandlesIssued, LiveHandles
      <4>3. EntryFile(e, s)
        BY <3>0, <4>1 DEF SlotKept, FileInv, EntriesHaveFiles
      <4>4. NotWrapped' => opened'[entryHandle[e]] = opened[entryHandle[e]]
        BY <1>0, <3>1, <4>1, <4>2 DEF ObTypeOK
      <4> QED BY <2>0, <3>0, <4>1, <4>2, <4>3, <4>4, EntryFileKept
    <3> QED BY <3>2, <3>3
  <2>5. ASSUME NEW v, Closes(v), NEW f \in entryInUse, ClosesEntry(f), entryHandle[f] = v,
               UNCHANGED opened \/ opened' = [opened EXCEPT ![v] = NoFile]
        PROVE  EntryFile(e, s)'
    <3>0. SlotKept(s)
      <4>1. ~ SlotFilled(s) /\ ~ SlotFound(s)
        BY <2>5 DEF Closes, SlotFilled, SlotFound, OpenCreate, IopVfsOpen, At
      <4> QED BY <2>2, <4>1
    <3>1. /\ e \in entryInUse /\ e # f
          /\ entryObject'[e] = entryObject[e] /\ entryHandle'[e] = entryHandle[e]
          /\ entryHandle[e] \in HandleValues
      BY <1>0, <2>5 DEF ClosesEntry, ObTypeOK
    <3>2. NotWrapped' => NotWrapped /\ entryHandle[e] # v
      BY <2>5, <3>1 DEF ClosesEntry, NotWrapped, HandleInv, HandleValuesUnique
    <3>3. EntryFile(e, s)
      BY <3>0, <3>1 DEF SlotKept, FileInv, EntriesHaveFiles
    <3>4. NotWrapped' => opened'[entryHandle[e]] = opened[entryHandle[e]]
      BY <1>0, <2>5, <3>1, <3>2
    <3> QED BY <2>0, <3>0, <3>1, <3>2, <3>3, <3>4, EntryFileKept
  <2>6. CASE InsertHandle
    BY <1>0, <2>3, <2>4, <2>6, InsertedEntry
  <2>7. ASSUME NEW v, Closes(v) PROVE EntryFile(e, s)'
    BY <1>0, <2>3, <2>5, <2>7, ClosedEntry
  <2> QED BY <2>3, <2>6, <2>7 DEF Transitions
<1> QED BY <1>1, <1>2


LEMMA FileInvStep ==
  ASSUME HandleInv, RefInv', CallInv, CallInv', BootTyped, PoolInv, PoolInv', FileInv,
         Transitions, ~ At("boot") => UNCHANGED bootFiles
  PROVE  FileInv'
<1>0. RefInv /\ ObTypeOK /\ PoolsTyped
  BY DEF HandleInv, RefInv, PoolInv
<1>1. opened' \in [HandleValues -> Nat]
  <2>1. opened \in [HandleValues -> Nat] /\ call.file \in Nat
    BY DEF FileInv, CallInv, CallTyped, CallRecords
  <2>2. CASE UNCHANGED opened
    BY <2>1, <2>2
  <2>3. CASE InsertHandle
    BY <2>1, <2>3 DEF InsertHandle
  <2>4. CASE \E v : Closes(v)
    <3>1. PICK v : Closes(v)
      BY <2>4
    <3>2. UNCHANGED opened \/ opened' = [opened EXCEPT ![v] = NoFile]
      BY <3>1 DEF Closes, IoCloseFileHandle
    <3> QED BY <2>1, <3>2 DEF NoFile
  <2> QED BY <2>2, <2>3, <2>4 DEF Transitions
<1>2. At("boot")' => entryInUse' = {}
  BY BootTableEmpty DEF Transitions
<1>3. EntriesHaveFiles'
  BY EntriesHaveFilesStep
<1>4. LookupKnows'
  <2> SUFFICES ASSUME At("lookup")'
               PROVE  /\ call'.slot \in fileInUse' /\ fileHeader'[call'.slot] = call'.object
                      /\ \A e \in entryInUse' : entryObject'[e] # call'.object
    BY DEF LookupKnows, HandlesOf
  <2>1. OpenCreate /\ status' = "SUCCESS"
    BY DEF Transitions
  <2>2. call'.object = NewObject /\ call'.slot = call.slot
    BY <2>1, MadeTyped DEF OpenCreate
  <2>3. call.slot \in fileInUse /\ fileInUse' = fileInUse /\ call.slot \in Slots
    BY <1>0, <2>1 DEF PoolInv, Pending, OpenCreate, PoolsTyped
  <2>4. fileHeader'[call.slot] = NewObject
    BY <1>0, <2>1, <2>3 DEF OpenCreate, PoolsTyped
  <2>5. NewObject \notin objectInUse /\ TableUnchanged
    BY <2>1, NewObjectMade, QuietTable DEF OpenCreate
  <2>6. \A e \in entryInUse : entryObject[e] # NewObject
    BY <1>0, <2>5, RefInvNoDangling DEF NoDanglingReference
  <2>7. \A e \in entryInUse' : entryObject'[e] # call'.object
    BY <2>2, <2>5, <2>6 DEF TableUnchanged
  <2> QED BY <2>2, <2>3, <2>4, <2>7
<1>5. InsertKnows'
  <2> SUFFICES ASSUME At("insert")', NEW s \in fileInUse', fileHeader'[s] = call'.object
               PROVE  fileData'[s] = call'.file /\ call'.file \in DOMAIN bootFiles'
    BY DEF InsertKnows
  <2>1. CASE IopVfsOpen
    <3> DEFINE found == IopFsFatLookupFile(call.path)
    <3>1. /\ UNCHANGED <<fileInUse, fileHeader, bootFiles, obVars>> /\ At("lookup")
          /\ fileData' = IF found = NoFile THEN fileData ELSE [fileData EXCEPT ![call.slot] = found]
          /\ call' = [call EXCEPT !.step = IF found = NoFile THEN "drop" ELSE "insert", !.file = found]
      BY <2>1 DEF IopVfsOpen
    <3>2. found # NoFile => found \in DOMAIN bootFiles
      BY LookupTyped
    <3> HIDE DEF found
    <3>3. call \in CallRecords
      BY DEF CallInv, CallTyped
    <3>4. /\ call'.file = found /\ call'.object = call.object
          /\ call'.step = IF found = NoFile THEN "drop" ELSE "insert"
      BY <3>1, <3>3 DEF CallRecords
    <3>5. found # NoFile
      BY <3>4 DEF At
    <3>6. call.slot \in fileInUse /\ fileHeader[call.slot] = call.object
      BY <3>1 DEF FileInv, LookupKnows
    <3>7. call.object # NoObject
      BY <3>1 DEF CallInv, CallTyped, At, HoldingSteps, Objects, NoObject
    <3>8. s = call.slot
      BY <3>1, <3>4, <3>6, <3>7 DEF PoolInv, FilePool, PoolHolds
    <3> QED BY <1>0, <3>1, <3>2, <3>4, <3>5, <3>6, <3>8 DEF PoolsTyped
  <2>2. CASE (CreatePort \/ CreateSection) /\ status' = "SUCCESS"
    <3>1. PICK t \in {PortType, SectionType}, mask \in {PortAccessAll, SectionAccessAll},
               step \in {"insert", "drop"} :
            /\ ObCreateObject(t, mask)
            /\ call' = [call EXCEPT !.step = step, !.object = NewObject]
            /\ UNCHANGED fileVars
      BY <2>2 DEF CreatePort, CreateSection
    <3>2. call'.object = NewObject
      BY <2>2, <3>1, MadeTyped
    <3>3. NewObject \in Objects \ objectInUse
      BY <2>2, <3>1, NewObjectMade
    <3>4. fileHeader[s] = NewObject /\ s \in fileInUse
      BY <3>1, <3>2 DEF fileVars
    <3>5. NewObject # NoObject
      BY <3>3 DEF Objects, NoObject
    <3> QED BY <3>3, <3>4, <3>5 DEF PoolInv, FilePool, PoolHolds
  <2> QED BY <2>1, <2>2 DEF Transitions
<1> QED BY <1>1, <1>2, <1>3, <1>4, <1>5 DEF FileInv

-----------------------------------------------------------------------------
(***************************************************************************)
(* The spawn loop.  Its first turn reads the whole file if the scratch     *)
(* buffer has room to spare, and its second finds nothing left; each turn  *)
(* looks the handle up again, and it still denotes the same file.          *)
(***************************************************************************)
SizeOf(v) == bootFiles[opened[v]].size

SpawnInv ==
  /\ At("spawn") =>
       /\ call.size < ImageMax /\ call.handle # 0
       /\ call.slot \in fileInUse /\ fileHeader[call.slot] = call.object
       /\ \E e \in entryInUse : entryHandle[e] = call.handle /\ entryObject[e] = call.object
       /\ NotWrapped => call.size \in {0, SizeOf(call.handle)}
  /\ At("again") =>
       /\ call.size < ImageMax
       /\ NotWrapped => call.size = SizeOf(call.handle)
  /\ At("process") /\ call.handle # 0 =>
       /\ call.size < ImageMax
       /\ NotWrapped => call.size = SizeOf(call.handle)

(* What a turn of the loop knows. *)
LEMMA SpawnKnows ==
  ASSUME FileInv, SpawnInv, At("spawn")
  PROVE  /\ fileData[call.slot] \in DOMAIN bootFiles
         /\ NotWrapped => fileData[call.slot] = opened[call.handle]
BY DEF FileInv, SpawnInv, EntriesHaveFiles, EntryFile

LEMMA SpawnInvReady == FileInv /\ SpawnInv => SpawnReady
BY SpawnKnows DEF SpawnReady, SpawnInv

LEMMA TurnStep ==
  ASSUME CallInv, BootTyped, PoolsTyped, FileInv, SpawnInv, SpawnTurn, call'.step # "idle"
  PROVE  /\ call'.handle = call.handle /\ call'.size < ImageMax
         /\ NotWrapped => call'.size = SizeOf(call.handle)
<1> DEFINE size == bootFiles[fileData[call.slot]].size
           now == ReadLength(size, call.size, ImageMax - call.size)
           total == Progress(call.size, now)
<1>0. call' # Idle
  BY IdleCallTyped DEF At
<1>1. At("spawn") /\ call.size < ImageMax
  BY DEF SpawnTurn, SpawnInv
<1>2. call.slot # NoSlot
  BY <1>1, IoConstants DEF SpawnInv, PoolsTyped, Slots, NoSlot
<1>3. size \in Nat \ {0} /\ (NotWrapped => size = SizeOf(call.handle))
  <2>1. bootFiles[fileData[call.slot]] \in BootRecords
    BY <1>1, SpawnKnows DEF BootTyped
  <2> QED BY <1>1, <2>1, SpawnKnows DEF BootRecords, SizeOf
<1>4. call.size \in Nat /\ ImageMax \in Nat /\ call \in CallRecords
  BY IoConstants DEF CallInv, CallTyped, CallRecords
<1>5. \/ now = 0 /\ call.size # 0 /\ call' = [call EXCEPT !.step = "process"]
      \/ now > 0 /\ total < ImageMax /\ call' = [call EXCEPT !.step = "again", !.size = total]
  <2>1. /\ \/ now = 0 /\ call' = IF call.size = 0 THEN Idle ELSE [call EXCEPT !.step = "process"]
           \/ now > 0 /\ call' = IF total >= ImageMax THEN Idle
                                 ELSE [call EXCEPT !.step = "again", !.size = total]
    BY <1>2 DEF SpawnTurn
  <2>2. total \in Nat
    <3> HIDE DEF size
    <3> QED BY <1>1, <1>3, <1>4 DEF ReadLength, Progress
  <2> HIDE DEF now, total
  <2> QED BY <1>0, <1>4, <2>1, <2>2
<1>6. NotWrapped => call.size \in {0, size}
  BY <1>1, <1>3 DEF SpawnInv
<1>7. CASE now = 0 /\ call.size # 0 /\ call' = [call EXCEPT !.step = "process"]
  <2>1. call'.handle = call.handle /\ call'.size = call.size
    BY <1>4, <1>7 DEF CallRecords
  <2> HIDE DEF size, now, total
  <2> QED BY <1>1, <1>3, <1>6, <1>7, <2>1
<1>8. CASE /\ now > 0 /\ total < ImageMax
           /\ call' = [call EXCEPT !.step = "again", !.size = total]
  <2>1. call'.handle = call.handle /\ call'.size = total
    <3> HIDE DEF total
    <3> QED BY <1>4, <1>8 DEF CallRecords
  <2>2. NotWrapped => total = size
    <3> HIDE DEF size
    <3> QED BY <1>1, <1>3, <1>4, <1>6, <1>8 DEF ReadLength, Progress
  <2> HIDE DEF size, now, total
  <2> QED BY <1>3, <1>8, <2>1, <2>2
<1> QED
  <2> HIDE DEF size, now, total
  <2> QED BY <1>5, <1>7, <1>8


(* A lookup that begins a turn. *)
LEMMA TurnBegins ==
  ASSUME RefInv, RefInv', CallInv', PoolInv, NEW v, References(v, "spawn"), At("spawn")'
  PROVE  /\ v # 0
         /\ call'.slot \in fileInUse' /\ fileHeader'[call'.slot] = call'.object
         /\ \E e \in entryInUse' : entryHandle'[e] = v /\ entryObject'[e] = call'.object
         /\ TableUnchanged /\ UNCHANGED <<bootFiles, opened>>
<1> DEFINE o == ObjectOf(v)
<1>1. FileType \in Types
  <2>1. PortType \in typeInUse'
    BY DEF CallInv, TypesReady, At
  <2>2. 1 .. PortType \subseteq typeInUse' /\ typeInUse' \subseteq Types
    BY <2>1 DEF CallInv, TypesInOrder, RefInv, ObTypeOK
  <2> QED BY <2>2 DEF PortType, FileType
<1>2. /\ ObReferenceObjectByHandle(v, ReadAccess, FileType) /\ status' = "SUCCESS"
      /\ UNCHANGED <<fileVars, bootFiles, opened>>
      /\ call'.object = o /\ call'.slot = FileSlotOf(o)
  BY DEF References, ReferenceFile
<1>3. /\ TableUnchanged /\ v # 0 /\ o \in objectInUse /\ objectType[o] = FileType
      /\ \E e \in entryInUse : entryHandle[e] = v /\ entryObject[e] = o
  BY <1>1, <1>2, ObjectFound
<1>4. FileSlotOf(o) \in fileInUse /\ fileHeader[FileSlotOf(o)] = o
  <2>1. \E s \in fileInUse : fileHeader[s] = o
    BY <1>3 DEF PoolInv, FilePool, PoolHolds
  <2>2. IopFindFileByHeader(o) # {}
    BY <2>1 DEF IopFindFileByHeader
  <2>3. FileSlotOf(o) \in IopFindFileByHeader(o)
    BY <2>2, SlotsFound DEF PoolInv
  <2> QED BY <2>3 DEF IopFindFileByHeader
<1> HIDE DEF o
<1> QED BY <1>2, <1>3, <1>4 DEF fileVars, TableUnchanged

LEMMA SpawnInvStep ==
  ASSUME HandleInv, RefInv', CallInv, CallInv', BootTyped, PoolInv, FileInv, SpawnInv,
         Transitions
  PROVE  SpawnInv'
<1>0. RefInv /\ PoolsTyped /\ ImageMax > 0
  BY IoConstants DEF HandleInv, PoolInv
<1>s. TableUnchanged => (NotWrapped' => NotWrapped)
  BY DEF TableUnchanged, NotWrapped
<1>o. UNCHANGED <<bootFiles, opened>> => \A v : SizeOf(v)' = SizeOf(v)
  BY DEF SizeOf
<1>1. ASSUME At("spawn")'
      PROVE  /\ call'.size < ImageMax /\ call'.handle # 0
             /\ call'.slot \in fileInUse' /\ fileHeader'[call'.slot] = call'.object
             /\ \E e \in entryInUse' :
                  entryHandle'[e] = call'.handle /\ entryObject'[e] = call'.object
             /\ NotWrapped' => \/ call'.size = 0
                               \/ call'.size = bootFiles'[opened'[call'.handle]].size
  <2>1. ASSUME At("idle"), NEW v \in UserHandles, References(v, "spawn")
        PROVE  call'.handle = v /\ call'.size = 0
    <3>1. call = Idle
      BY <2>1 DEF CallInv, CallTyped
    <3>2. Idle.size = 0
      BY Zenon DEF Idle
    <3> QED BY <2>1, <3>1, <3>2 DEF References
  <2>2. ASSUME At("again"), References(call.handle, "spawn")
        PROVE  /\ call'.handle = call.handle /\ call'.size = call.size /\ call.size < ImageMax
               /\ NotWrapped => call.size = SizeOf(call.handle)
    BY <2>2 DEF References, SpawnInv
  <2>3. CASE At("idle") /\ \E v \in UserHandles : References(v, "spawn")
    BY <1>0, <1>1, <2>1, <2>3, TurnBegins
  <2>4. CASE At("again") /\ References(call.handle, "spawn")
    <3>1. /\ call.handle # 0 /\ TableUnchanged /\ UNCHANGED <<bootFiles, opened>>
          /\ call'.slot \in fileInUse' /\ fileHeader'[call'.slot] = call'.object
          /\ \E e \in entryInUse' : entryHandle'[e] = call.handle /\ entryObject'[e] = call'.object
      BY <1>0, <1>1, <2>4, TurnBegins
    <3> QED BY <1>s, <2>2, <2>4, <3>1 DEF SizeOf
  <2> QED BY <1>1, <2>3, <2>4 DEF Transitions
<1>2. ASSUME SpawnTurn, call'.step # "idle"
      PROVE  /\ call'.size < ImageMax
             /\ NotWrapped' => call'.size = bootFiles'[opened'[call'.handle]].size
  <2>1. TableUnchanged /\ UNCHANGED <<bootFiles, opened>>
    BY <1>2, QuietTable DEF SpawnTurn
  <2> QED BY <1>0, <1>2, <1>s, <2>1, TurnStep DEF SizeOf
<1>3. ASSUME At("again")' \/ (At("process")' /\ call'.handle # 0)
      PROVE  SpawnTurn /\ call'.step # "idle"
  BY <1>3 DEF Transitions, At
<1> QED BY <1>1, <1>2, <1>3 DEF SpawnInv, SizeOf

-----------------------------------------------------------------------------
(***************************************************************************)
(* Messages.  The numbers in the queues of the ports that have an object   *)
(* are all different, so a message that leaves one queue is in no other    *)
(* place.  What a call that sends or receives knows: its handle is still   *)
(* open, so giving back its reference deletes no port.                     *)
(***************************************************************************)
LivePorts == {s \in portInUse : portHeader[s] # NoObject}
Numbers(live, queue) == UNION {{queue[s][i].number : i \in DOMAIN queue[s]} : s \in live}
NumbersDiffer(live, queue) ==
  \A s, r \in live : \A i \in DOMAIN queue[s], j \in DOMAIN queue[r] :
    queue[s][i].number = queue[r][j].number => s = r /\ i = j

LEMMA NumbersMember ==
  ASSUME NEW live, NEW queue, NEW n
  PROVE  n \in Numbers(live, queue) <=>
           \E s \in live : \E i \in DOMAIN queue[s] : n = queue[s][i].number
BY DEF Numbers

(* The queues of the live ports are what they were. *)
LEMMA NumbersSame ==
  ASSUME NEW live, NEW queue, NEW queue2, \A s \in live : queue2[s] = queue[s],
         NumbersDiffer(live, queue)
  PROVE  Numbers(live, queue2) = Numbers(live, queue) /\ NumbersDiffer(live, queue2)
<1>1. \A n : n \in Numbers(live, queue2) <=> n \in Numbers(live, queue)
  BY NumbersMember
<1>2. NumbersDiffer(live, queue2)
  BY DEF NumbersDiffer
<1> QED BY <1>1, <1>2

(* A port with an empty queue joins them. *)
LEMMA NumbersJoined ==
  ASSUME NEW live, NEW queue, NEW queue2, NEW p, queue2[p] = <<>>,
         \A s \in live : s # p => queue2[s] = queue[s], p \notin live,
         NumbersDiffer(live, queue)
  PROVE  /\ Numbers(live \cup {p}, queue2) = Numbers(live, queue)
         /\ NumbersDiffer(live \cup {p}, queue2)
<1>1. DOMAIN queue2[p] = {}
  OBVIOUS
<1>2. \A n : n \in Numbers(live \cup {p}, queue2) <=> n \in Numbers(live, queue)
  BY <1>1, NumbersMember
<1>3. NumbersDiffer(live \cup {p}, queue2)
  BY <1>1 DEF NumbersDiffer
<1> QED BY <1>2, <1>3

(* Ports leave with their messages. *)
LEMMA NumbersLeft ==
  ASSUME NEW live, NEW freed, freed \subseteq live, NEW queue, NumbersDiffer(live, queue)
  PROVE  /\ Numbers(live, queue) = Numbers(live \ freed, queue) \cup Numbers(freed, queue)
         /\ Numbers(live \ freed, queue) \cap Numbers(freed, queue) = {}
         /\ NumbersDiffer(live \ freed, queue)
<1>1. \A n : n \in Numbers(live, queue) <=>
              n \in Numbers(live \ freed, queue) \/ n \in Numbers(freed, queue)
  BY NumbersMember
<1>2. \A n : ~ (n \in Numbers(live \ freed, queue) /\ n \in Numbers(freed, queue))
  BY NumbersMember DEF NumbersDiffer
<1>3. NumbersDiffer(live \ freed, queue)
  BY DEF NumbersDiffer
<1> QED BY <1>1, <1>2, <1>3

(* A new message at the end of one queue. *)
LEMMA NumbersSent ==
  ASSUME NEW live, NEW queue, NEW queue2, NEW p \in live, NEW M, queue[p] \in Seq(M), NEW m,
         m \in M, queue2[p] = Append(queue[p], m), \A s \in live : s # p => queue2[s] = queue[s],
         NumbersDiffer(live, queue), m.number \notin Numbers(live, queue)
  PROVE  /\ Numbers(live, queue2) = Numbers(live, queue) \cup {m.number}
         /\ NumbersDiffer(live, queue2)
<1> DEFINE k == Len(queue[p]) + 1
<1>1. /\ DOMAIN queue2[p] = DOMAIN queue[p] \cup {k} /\ k \notin DOMAIN queue[p]
      /\ queue2[p][k] = m /\ \A i \in DOMAIN queue[p] : queue2[p][i] = queue[p][i]
  OBVIOUS
<1> HIDE DEF k
<1>2. \A n : n \in Numbers(live, queue2) <=> n \in Numbers(live, queue) \/ n = m.number
  <2>1. ASSUME NEW n \in Numbers(live, queue2), n # m.number PROVE n \in Numbers(live, queue)
    <3>1. PICK s \in live : \E i \in DOMAIN queue2[s] : n = queue2[s][i].number
      BY <2>1, NumbersMember
    <3>2. \E i \in DOMAIN queue[s] : n = queue[s][i].number
      BY <1>1, <2>1, <3>1
    <3> QED BY <3>2, NumbersMember
  <2>2. ASSUME NEW n \in Numbers(live, queue) PROVE n \in Numbers(live, queue2)
    <3>1. PICK s \in live : \E i \in DOMAIN queue[s] : n = queue[s][i].number
      BY <2>2, NumbersMember
    <3>2. \E i \in DOMAIN queue2[s] : n = queue2[s][i].number
      BY <1>1, <3>1
    <3> QED BY <3>2, NumbersMember
  <2>3. m.number \in Numbers(live, queue2)
    BY <1>1, NumbersMember
  <2> QED BY <2>1, <2>2, <2>3
<1>3. \A s \in live : \A i \in DOMAIN queue2[s] :
        \/ s = p /\ i = k /\ queue2[s][i] = m
        \/ /\ i \in DOMAIN queue[s] /\ queue2[s][i] = queue[s][i]
           /\ queue2[s][i].number # m.number
  BY <1>1, NumbersMember
<1>4. NumbersDiffer(live, queue2)
  BY <1>3 DEF NumbersDiffer
<1> QED BY <1>2, <1>4

(* The message at the head of one queue is taken. *)
Takes(live, queue, queue2, p, M) ==
  /\ p \in live /\ queue[p] \in Seq(M) /\ queue[p] # <<>> /\ queue2[p] = Tail(queue[p])
  /\ \A s \in live : s # p => queue2[s] = queue[s]

LEMMA NumbersTaken ==
  ASSUME NEW live, NEW queue, NEW queue2, NEW p, NEW M, Takes(live, queue, queue2, p, M),
         NumbersDiffer(live, queue)
  PROVE  /\ Numbers(live, queue) = Numbers(live, queue2) \cup {Head(queue[p]).number}
         /\ Head(queue[p]).number \notin Numbers(live, queue2)
         /\ NumbersDiffer(live, queue2)
<1> DEFINE first == Head(queue[p])
           was(s, i) == IF s = p THEN i + 1 ELSE i
<1>1. /\ 1 \in DOMAIN queue[p] /\ first = queue[p][1] /\ p \in live
      /\ \A i \in DOMAIN queue2[p] : /\ i + 1 \in DOMAIN queue[p] /\ i \in Nat \ {0}
                                     /\ queue2[p][i] = queue[p][i + 1]
      /\ \A i \in DOMAIN queue[p] : i # 1 => /\ i - 1 \in DOMAIN queue2[p] /\ i \in Nat
                                            /\ queue2[p][i - 1] = queue[p][i]
      /\ \A s \in live : s # p => queue2[s] = queue[s]
  BY DEF Takes
<1> HIDE DEF first
<1>2. ASSUME NEW s \in live, NEW i \in DOMAIN queue2[s]
      PROVE  /\ was(s, i) \in DOMAIN queue[s] /\ queue2[s][i] = queue[s][was(s, i)]
             /\ s = p => was(s, i) # 1
  <2>1. CASE s = p
    BY <1>1, <2>1
  <2>2. CASE s # p
    BY <1>1, <2>2
  <2> QED BY <2>1, <2>2
<1>3. ASSUME NEW s \in live, NEW i \in DOMAIN queue[s], ~ (s = p /\ i = 1)
      PROVE  \E k \in DOMAIN queue2[s] : queue2[s][k] = queue[s][i]
  BY <1>1, <1>3
<1>4. ASSUME NEW s \in live, NEW r \in live, NEW i \in DOMAIN queue2[s],
             NEW j \in DOMAIN queue2[r], queue2[s][i].number = queue2[r][j].number
      PROVE  s = r /\ i = j
  <2>1. s = r /\ was(s, i) = was(r, j)
    <3> HIDE DEF was
    <3> QED BY <1>2, <1>4 DEF NumbersDiffer
  <2>2. CASE s = p
    BY <1>1, <2>1, <2>2
  <2>3. CASE s # p
    BY <2>1, <2>3
  <2> QED BY <2>1, <2>2, <2>3
<1> HIDE DEF was
<1>5. ASSUME NEW n \in Numbers(live, queue2)
      PROVE  n \in Numbers(live, queue) /\ n # first.number
  <2>1. PICK s \in live : \E i \in DOMAIN queue2[s] : n = queue2[s][i].number
    BY <1>5, NumbersMember
  <2>2. PICK i \in DOMAIN queue2[s] : n = queue2[s][i].number
    BY <2>1
  <2>3. /\ was(s, i) \in DOMAIN queue[s] /\ n = queue[s][was(s, i)].number
        /\ ~ (s = p /\ was(s, i) = 1)
    BY <1>2, <2>2
  <2>4. n \in Numbers(live, queue)
    BY <2>3, NumbersMember
  <2>5. n # first.number
    BY <1>1, <2>3 DEF NumbersDiffer
  <2> QED BY <2>4, <2>5
<1>6. ASSUME NEW n \in Numbers(live, queue), n # first.number
      PROVE  n \in Numbers(live, queue2)
  <2>1. PICK s \in live : \E i \in DOMAIN queue[s] : n = queue[s][i].number
    BY <1>6, NumbersMember
  <2>2. PICK i \in DOMAIN queue[s] : n = queue[s][i].number
    BY <2>1
  <2>3. ~ (s = p /\ i = 1)
    BY <1>1, <1>6, <2>2
  <2>4. \E k \in DOMAIN queue2[s] : n = queue2[s][k].number
    BY <1>3, <2>2, <2>3
  <2> QED BY <2>4, NumbersMember
<1>7. first.number \in Numbers(live, queue)
  BY <1>1, NumbersMember
<1>8. NumbersDiffer(live, queue2)
  BY <1>4 DEF NumbersDiffer
<1> QED BY <1>5, <1>6, <1>7, <1>8 DEF first

(* The four places of a message. *)
InOnePlace(queued, received, short, lost, n) ==
  /\ queued \cap received = {} /\ queued \cap short = {} /\ queued \cap lost = {}
  /\ received \cap short = {} /\ received \cap lost = {} /\ short \cap lost = {}
  /\ queued \cup received \cup short \cup lost = 1 .. n

LEMMA PlacesCount ==
  ASSUME NEW A, NEW B, NEW C, NEW D, NEW n \in Nat, InOnePlace(A, B, C, D, n)
  PROVE  Cardinality(A) + Cardinality(B) + Cardinality(C) + Cardinality(D) = n
<1>1. IsFiniteSet(1 .. n) /\ Cardinality(1 .. n) = n
  BY FS_Interval
<1>2. A \subseteq 1 .. n /\ B \subseteq 1 .. n /\ C \subseteq 1 .. n /\ D \subseteq 1 .. n
  BY DEF InOnePlace
<1>3. IsFiniteSet(A) /\ IsFiniteSet(B) /\ IsFiniteSet(C) /\ IsFiniteSet(D)
  BY <1>1, <1>2, FS_Subset
<1>4. ASSUME NEW S, NEW T, IsFiniteSet(S), IsFiniteSet(T), S \cap T = {}
      PROVE  /\ IsFiniteSet(S \cup T)
             /\ Cardinality(S \cup T) = Cardinality(S) + Cardinality(T)
  <2>1. /\ IsFiniteSet(S \cup T)
        /\ Cardinality(S \cup T) = Cardinality(S) + Cardinality(T) - Cardinality(S \cap T)
    BY <1>4, FS_Union
  <2>2. Cardinality(S \cap T) = 0 /\ Cardinality(S) \in Nat /\ Cardinality(T) \in Nat
    BY <1>4, FS_EmptySet, FS_CardinalityType
  <2> QED BY <2>1, <2>2
<1>5. /\ IsFiniteSet(A \cup B) /\ Cardinality(A \cup B) = Cardinality(A) + Cardinality(B)
      /\ IsFiniteSet(C \cup D) /\ Cardinality(C \cup D) = Cardinality(C) + Cardinality(D)
  BY <1>3, <1>4 DEF InOnePlace
<1>6. (A \cup B) \cap (C \cup D) = {} /\ (A \cup B) \cup (C \cup D) = 1 .. n
  BY DEF InOnePlace
<1>7. Cardinality(1 .. n) = Cardinality(A \cup B) + Cardinality(C \cup D)
  BY <1>4, <1>5, <1>6
<1>8. /\ Cardinality(A) \in Nat /\ Cardinality(B) \in Nat
      /\ Cardinality(C) \in Nat /\ Cardinality(D) \in Nat
  BY <1>3, FS_CardinalityType
<1> QED BY <1>1, <1>5, <1>7, <1>8

MessageRecords == [number : Nat, length : Nat]
Received == {d.number : d \in delivered}

QueueIds ==
  \A s \in LivePorts : \A i \in DOMAIN portQueue[s] :
    sentOn[portQueue[s][i].number] = objectId[portHeader[s]]
DeliveriesRight == \A d \in delivered : d.whole /\ d.port = sentOn[d.number]

MessagesKnown ==
  /\ portQueue \in [PortSlots -> Seq(MessageRecords)] /\ sentOn \in Seq(Nat)
  /\ NumbersDiffer(LivePorts, portQueue)
  /\ InOnePlace(Numbers(LivePorts, portQueue), Received, discarded, gone, Len(sentOn))
  /\ DeliveriesRight /\ QueueIds

PortCallKnows ==
  call.step \in {"send", "receive"} =>
    /\ \E e \in entryInUse : entryObject[e] = call.object
    /\ call.slot # NoSlot => call.slot \in portInUse /\ portHeader[call.slot] = call.object

MessageInv == MessagesKnown /\ PortCallKnows

LEMMA PortCallKnowsStep ==
  ASSUME RefInv, RefInv', CallInv', PoolInv, Transitions
  PROVE  PortCallKnows'
<1> SUFFICES ASSUME At("send")' \/ At("receive")'
             PROVE  /\ \E e \in entryInUse' : entryObject'[e] = call'.object
                    /\ call'.slot # NoSlot =>
                         call'.slot \in portInUse' /\ portHeader'[call'.slot] = call'.object
  BY DEF PortCallKnows, At
<1>1. PICK v \in UserHandles, access \in SUBSET Rights :
        /\ ObReferenceObjectByHandle(v, access, PortType) /\ status' = "SUCCESS"
        /\ call'.object = ObjectOf(v)
        /\ call'.slot = FirstOf(LpcpFindPortByHeader(ObjectOf(v)))
        /\ UNCHANGED portVars
  BY DEF Transitions, ReferencesPort
<1>2. PortType \in Types
  <2>1. PortType \in typeInUse' /\ typeInUse' \subseteq Types
    BY DEF CallInv, TypesReady, At, RefInv, ObTypeOK
  <2> QED BY <2>1
<1>3. /\ TableUnchanged
      /\ \E e \in entryInUse : entryHandle[e] = v /\ entryObject[e] = ObjectOf(v)
  BY <1>1, <1>2, ObjectFound
<1>4. call'.slot # NoSlot => call'.slot \in LpcpFindPortByHeader(ObjectOf(v))
  BY <1>1, SlotsFound DEF PoolInv
<1> QED
  BY <1>1, <1>3, <1>4 DEF TableUnchanged, LpcpFindPortByHeader, portVars

(* Which steps touch the ports and the messages. *)
LEMMA MessageSteps ==
  ASSUME KeNext
  PROVE  \/ UNCHANGED <<portVars, messageVars, gone>>
         \/ DeleteRoutines /\ UNCHANGED <<portQueue, messageVars>>
         \/ \E access : KipSysCreatePort(access)
         \/ CreatePort /\ status' = "SUCCESS"
         \/ SendDone \/ ReceiveDone
<1>1. CASE FileCalls
  BY <1>1 DEF FileCalls
<1>2. CASE KiDispatchSystemCall /\ ~ FileCalls
  BY <1>2 DEF KiDispatchSystemCall, KipSysCreateSection, KipSysSend, KipSysReceive, ReferencePort,
     KipSysMapSection, KipSysCreateProcessFromBuffer, RefuseCall
<1>3. CASE CreatePort /\ status' # "SUCCESS"
  BY <1>3 DEF CreatePort, portVars
<1>4. CASE MapDone
  BY <1>4 DEF MapDone, HoldReference, ReturnObject, portVars
<1>5. CASE CreateSection \/ SpawnProcess \/ SpawnThread
  BY <1>5 DEF CreateSection, SpawnProcess, SpawnThread
<1> QED BY <1>1, <1>2, <1>3, <1>4, <1>5 DEF KeNext, InProgress

IdsKept == \A o \in objectInUse : objectId'[o] = objectId[o]

LEMMA IdsKeptStep ==
  ASSUME RefInv, ObStep
  PROVE  IdsKept
BY PoolStep DEF IdsKept, PoolUnchanged, CreatesObject, FreesObject, RefInv, ObTypeOK

LEMMA HeaderInUse ==
  ASSUME PoolInv
  PROVE  \A s \in LivePorts : portHeader[s] \in objectInUse /\ s \in PortSlots
BY DEF PoolInv, PoolsTyped, PortPool, PoolHolds, LivePorts

(* The ports that have an object, their queues and the places stay. *)
LEMMA MessagesStay ==
  ASSUME MessagesKnown, PoolInv, IdsKept, UNCHANGED <<messageVars, gone>>,
         LivePorts' = LivePorts, portQueue' \in [PortSlots -> Seq(MessageRecords)],
         \A s \in LivePorts : portQueue'[s] = portQueue[s] /\ portHeader'[s] = portHeader[s]
  PROVE  MessagesKnown'
<1>1. UNCHANGED <<sentOn, delivered, discarded, gone>> /\ Received' = Received
  BY DEF messageVars, Received
<1>2. /\ NumbersDiffer(LivePorts, portQueue')
      /\ Numbers(LivePorts, portQueue') = Numbers(LivePorts, portQueue)
  BY NumbersSame DEF MessagesKnown
<1>3. QueueIds'
  BY <1>1, HeaderInUse DEF MessagesKnown, QueueIds, IdsKept
<1>4. DeliveriesRight'
  BY <1>1 DEF MessagesKnown, DeliveriesRight
<1> QED BY <1>1, <1>2, <1>3, <1>4 DEF MessagesKnown

(* NkPortInitialize empties the ring of a new port. *)
LEMMA NewPortMessages ==
  ASSUME RefInv, CallInv, PoolInv, PoolInv', MessagesKnown, CreatePort, status' = "SUCCESS"
  PROVE  MessagesKnown'
<1>1. /\ At("createPort") /\ ObCreateObject(PortType, PortAccessAll)
      /\ portHeader' = [portHeader EXCEPT ![call.slot] = NewObject]
      /\ portQueue' = [portQueue EXCEPT ![call.slot] = <<>>]
      /\ UNCHANGED <<portInUse, sentOn, delivered, discarded, gone>>
  BY DEF CreatePort, NkPortInitialize, messageVars
<1>2. /\ call.slot \in portInUse /\ portHeader[call.slot] = NoObject
      /\ portInUse \subseteq PortSlots
      /\ portHeader \in [PortSlots -> Objects \cup {NoObject}]
      /\ portQueue \in [PortSlots -> Seq(MessageRecords)]
  BY <1>1 DEF PoolInv, Pending, PoolsTyped, MessagesKnown
<1>3. NewObject \in Objects \ objectInUse /\ CreatesObject(NewObject, PortType)
  BY <1>1, NewObjectMade
<1>4. NewObject # NoObject
  BY <1>3 DEF Objects, NoObject
<1>5. LivePorts' = LivePorts \cup {call.slot} /\ call.slot \notin LivePorts
  BY <1>1, <1>2, <1>4 DEF LivePorts
<1>6. /\ portQueue'[call.slot] = <<>> /\ portQueue' \in [PortSlots -> Seq(MessageRecords)]
      /\ \A s \in LivePorts : s # call.slot =>
           portQueue'[s] = portQueue[s] /\ portHeader'[s] = portHeader[s]
  BY <1>1, <1>2 DEF LivePorts
<1>7. /\ Numbers(LivePorts \cup {call.slot}, portQueue') = Numbers(LivePorts, portQueue)
      /\ NumbersDiffer(LivePorts \cup {call.slot}, portQueue')
  BY <1>5, <1>6, NumbersJoined DEF MessagesKnown
<1>8. Received' = Received /\ DeliveriesRight'
  BY <1>1 DEF Received, MessagesKnown, DeliveriesRight
<1>9. IdsKept
  BY <1>3 DEF IdsKept, CreatesObject, RefInv, ObTypeOK
<1>10. QueueIds'
  <2> SUFFICES ASSUME NEW s \in LivePorts', NEW i \in DOMAIN portQueue'[s]
               PROVE  sentOn'[portQueue'[s][i].number] = objectId'[portHeader'[s]]
    BY DEF QueueIds
  <2>1. s # call.slot
    BY <1>6
  <2>2. s \in LivePorts
    BY <1>5, <2>1
  <2> QED BY <1>1, <1>6, <1>9, <2>1, <2>2, HeaderInUse DEF MessagesKnown, QueueIds, IdsKept
<1> QED BY <1>1, <1>5, <1>6, <1>7, <1>8, <1>10 DEF MessagesKnown

(* A deleted port takes its messages with it. *)
LEMMA DeletedPortMessages ==
  ASSUME RefInv, PoolInv, MessagesKnown, NEW o \in objectInUse, FreesObject(o), DeleteRoutines,
         UNCHANGED <<portQueue, messageVars>>
  PROVE  MessagesKnown'
<1>0. o # NoObject
  BY DEF RefInv, ObTypeOK, Objects, NoObject
<1>1. /\ portInUse' = {s \in portInUse : portHeader[s] # o}
      /\ \A s \in portInUse' : portHeader'[s] = portHeader[s]
      /\ FreedPorts = {s \in portInUse : portHeader[s] = o}
  BY PortDeleted
<1>2. FreedPorts \subseteq LivePorts /\ LivePorts' = LivePorts \ FreedPorts
  BY <1>0, <1>1 DEF LivePorts
<1>3. gone' = gone \cup Numbers(FreedPorts, portQueue)
  BY DEF DeleteRoutines, LpcpDeletePortObject, Numbers
<1>4. UNCHANGED <<sentOn, delivered, discarded, portQueue>> /\ Received' = Received
  BY DEF messageVars, Received
<1>5. /\ Numbers(LivePorts, portQueue) =
           Numbers(LivePorts \ FreedPorts, portQueue) \cup Numbers(FreedPorts, portQueue)
      /\ Numbers(LivePorts \ FreedPorts, portQueue) \cap Numbers(FreedPorts, portQueue) = {}
      /\ NumbersDiffer(LivePorts \ FreedPorts, portQueue)
  BY <1>2, NumbersLeft DEF MessagesKnown
<1>6. InOnePlace(Numbers(LivePorts', portQueue'), Received', discarded', gone', Len(sentOn'))
  <2> DEFINE A == Numbers(LivePorts \ FreedPorts, portQueue)
             F == Numbers(FreedPorts, portQueue)
  <2>1. InOnePlace(A \cup F, Received, discarded, gone, Len(sentOn)) /\ A \cap F = {}
    BY <1>5 DEF MessagesKnown
  <2> HIDE DEF A, F
  <2>2. InOnePlace(A, Received, discarded, gone \cup F, Len(sentOn))
    BY <2>1 DEF InOnePlace
  <2> QED BY <1>2, <1>3, <1>4, <2>2 DEF A, F
<1>7. QueueIds'
  <2>1. UNCHANGED objectId
    BY DEF FreesObject
  <2>2. \A s \in LivePorts' : s \in LivePorts /\ portHeader'[s] = portHeader[s]
    BY <1>1, <1>2 DEF LivePorts
  <2> QED BY <1>4, <2>1, <2>2 DEF MessagesKnown, QueueIds
<1>8. DeliveriesRight'
  BY <1>4 DEF MessagesKnown, DeliveriesRight
<1> QED BY <1>2, <1>4, <1>5, <1>6, <1>7, <1>8 DEF MessagesKnown

LEMMA NoDanglingNext == RefInv' => NoDanglingReference'
BY RefInvNoDangling, PTL

(* A call that sends or receives gives back its reference while a handle   *)
(* is open on the port, so no port is deleted.                             *)
LEMMA PortCallReturns ==
  ASSUME RefInv, RefInv', CallInv, PoolInv, PortCallKnows, At("send") \/ At("receive"),
         ReturnObject
  PROVE  PoolUnchanged /\ UNCHANGED <<portInUse, portHeader, gone>>
<1>1. call.step \in HoldingSteps /\ ObDereferenceObject(call.object) /\ DeleteRoutines
  BY DEF At, HoldingSteps, ReturnObject
<1>2. PICK e \in entryInUse : entryObject[e] = call.object
  BY DEF PortCallKnows, At
<1>3. call.object \in objectInUse'
  BY <1>1, <1>2, NoDanglingNext, QuietTable DEF TableUnchanged, NoDanglingReference
<1>4. PoolUnchanged
  BY <1>1, <1>3, DropFrees DEF FreesObject
<1>5. UNCHANGED <<portInUse, portHeader>>
  BY <1>1, <1>4, NothingDeleted DEF PoolInv, PoolUnchanged
<1>6. FreedPorts = {}
  BY <1>4 DEF FreedPorts, Deleted, PoolUnchanged
<1>7. gone' = gone
  BY <1>1, <1>6 DEF DeleteRoutines, LpcpDeletePortObject
<1> QED BY <1>4, <1>5, <1>7

(* NkPortSend appends a message with a new number. *)
LEMMA SendMessages ==
  ASSUME RefInv, RefInv', CallInv, PoolInv, MessageInv, SendDone
  PROVE  MessagesKnown'
<1>1. /\ PoolUnchanged /\ UNCHANGED <<portInUse, portHeader, gone, delivered, discarded>>
      /\ UNCHANGED objectId /\ IdsKept /\ LivePorts' = LivePorts /\ Received' = Received
  BY PortCallReturns DEF MessageInv, SendDone, PoolUnchanged, IdsKept, LivePorts, Received
<1>2. CASE UNCHANGED <<portQueue, sentOn>>
  BY <1>1, <1>2, MessagesStay DEF MessageInv, MessagesKnown, messageVars
<1>3. CASE ~ UNCHANGED <<portQueue, sentOn>>
  <2> DEFINE m == [number |-> Len(sentOn) + 1, length |-> call.size]
             p == call.slot
  <2>1. /\ p # NoSlot
        /\ portQueue' = [portQueue EXCEPT ![p] = Append(portQueue[p], m)]
        /\ sentOn' = Append(sentOn, objectId[call.object])
    BY <1>3 DEF SendDone
  <2>2. p \in LivePorts /\ portHeader[p] = call.object /\ p \in PortSlots /\ call.object \in Objects
    <3>1. p \in portInUse /\ portHeader[p] = call.object
      BY <2>1 DEF MessageInv, PortCallKnows, SendDone, At
    <3>2. call.object \in Objects
      BY DEF SendDone, At, CallInv, CallTyped, HoldingSteps
    <3>3. call.object # NoObject
      BY <3>2 DEF Objects, NoObject
    <3> QED BY <3>1, <3>2, <3>3 DEF LivePorts, PoolInv, PoolsTyped
  <2>3. /\ portQueue \in [PortSlots -> Seq(MessageRecords)] /\ sentOn \in Seq(Nat)
        /\ NumbersDiffer(LivePorts, portQueue) /\ LivePorts \subseteq PortSlots
        /\ InOnePlace(Numbers(LivePorts, portQueue), Received, discarded, gone, Len(sentOn))
    BY HeaderInUse DEF MessageInv, MessagesKnown
  <2>4. m \in MessageRecords /\ m.number = Len(sentOn) + 1
    <3>1. call.size \in Nat
      BY DEF CallInv, CallTyped, CallRecords
    <3>2. Len(sentOn) + 1 \in Nat
      BY <2>3
    <3> QED BY <3>1, <3>2 DEF MessageRecords
  <2> HIDE DEF m
  <2>5. /\ portQueue'[p] = Append(portQueue[p], m)
        /\ \A s \in LivePorts : s # p => portQueue'[s] = portQueue[s]
        /\ portQueue' \in [PortSlots -> Seq(MessageRecords)]
    BY <2>1, <2>2, <2>3, <2>4
  <2>6. m.number \notin Numbers(LivePorts, portQueue)
    BY <2>3, <2>4 DEF InOnePlace
  <2>7. /\ Numbers(LivePorts, portQueue') = Numbers(LivePorts, portQueue) \cup {m.number}
        /\ NumbersDiffer(LivePorts, portQueue')
    <3>1. portQueue[p] \in Seq(MessageRecords)
      BY <2>2, <2>3
    <3> HIDE DEF p
    <3> QED BY <2>2, <2>3, <2>4, <2>5, <2>6, <3>1, NumbersSent
  <2>8. /\ sentOn' \in Seq(Nat) /\ Len(sentOn') = Len(sentOn) + 1
        /\ \A n \in 1 .. Len(sentOn) : sentOn'[n] = sentOn[n]
        /\ sentOn'[m.number] = objectId[call.object]
    <3>1. objectId[call.object] \in Nat
      BY <2>2, ObConstants DEF RefInv, ObTypeOK
    <3> QED BY <2>1, <2>3, <2>4, <3>1
  <2>9. InOnePlace(Numbers(LivePorts, portQueue) \cup {m.number}, Received, discarded, gone,
                   Len(sentOn) + 1)
    <3>1. 1 .. Len(sentOn) + 1 = (1 .. Len(sentOn)) \cup {m.number} /\ m.number \notin 1 .. Len(sentOn)
      BY <2>3, <2>4
    <3> QED BY <2>3, <3>1 DEF InOnePlace
  <2>10. DeliveriesRight'
    <3>1. \A d \in delivered : d.number \in 1 .. Len(sentOn)
      BY <2>3 DEF InOnePlace, Received
    <3> QED BY <1>1, <2>8, <3>1 DEF DeliveriesRight, MessageInv, MessagesKnown
  <2>11. QueueIds'
    <3> SUFFICES ASSUME NEW s \in LivePorts, NEW i \in DOMAIN portQueue'[s]
                 PROVE  sentOn'[portQueue'[s][i].number] = objectId[portHeader[s]]
      BY <1>1 DEF QueueIds
    <3>1. CASE i \in DOMAIN portQueue[s] /\ portQueue'[s][i] = portQueue[s][i]
      <4>1. portQueue[s][i].number \in 1 .. Len(sentOn)
        BY <2>3, <3>1, NumbersMember DEF InOnePlace
      <4> QED BY <2>8, <3>1, <4>1 DEF QueueIds, MessageInv, MessagesKnown
    <3>2. CASE ~ (i \in DOMAIN portQueue[s] /\ portQueue'[s][i] = portQueue[s][i])
      <4>1. s = p /\ portQueue'[s][i] = m
        <5>1. s = p
          BY <2>5, <3>2
        <5>2. portQueue[p] \in Seq(MessageRecords)
          BY <2>2, <2>3
        <5> HIDE DEF p
        <5>3. /\ DOMAIN portQueue'[p] = DOMAIN portQueue[p] \cup {Len(portQueue[p]) + 1}
              /\ portQueue'[p][Len(portQueue[p]) + 1] = m
              /\ \A j \in DOMAIN portQueue[p] : portQueue'[p][j] = portQueue[p][j]
          BY <2>4, <2>5, <5>2
        <5> QED BY <3>2, <5>1, <5>3
      <4> QED BY <2>2, <2>8, <4>1
    <3> QED BY <3>1, <3>2
  <2> QED
    BY <1>1, <2>5, <2>7, <2>8, <2>9, <2>10, <2>11 DEF MessagesKnown
<1> QED BY <1>2, <1>3

(* NkPortReceive takes the message at the head; it is copied out whole, or *)
(* is lost to a buffer that is too short.                                  *)
LEMMA ReceiveMessages ==
  ASSUME RefInv, RefInv', CallInv, PoolInv, MessageInv, ReceiveDone
  PROVE  MessagesKnown'
<1>1. /\ PoolUnchanged /\ UNCHANGED <<portInUse, portHeader, gone, sentOn>>
      /\ UNCHANGED objectId /\ IdsKept /\ LivePorts' = LivePorts
  BY PortCallReturns DEF MessageInv, ReceiveDone, PoolUnchanged, IdsKept, LivePorts
<1>2. CASE UNCHANGED <<portQueue, delivered, discarded>>
  BY <1>1, <1>2, MessagesStay DEF MessageInv, MessagesKnown, messageVars
<1>3. CASE ~ UNCHANGED <<portQueue, delivered, discarded>>
  <2> DEFINE p == call.slot
             m == Head(portQueue[p])
             d == [number |-> m.number, port |-> objectId[call.object],
                   whole |-> m.length <= call.size]
  <2>1. /\ p # NoSlot /\ portQueue[p] # <<>>
        /\ portQueue' = [portQueue EXCEPT ![p] = Tail(portQueue[p])]
        /\ \/ m.length > call.size /\ discarded' = discarded \cup {m.number} /\ UNCHANGED delivered
           \/ /\ ~ (m.length > call.size) /\ delivered' = delivered \cup {d}
              /\ UNCHANGED discarded
    BY <1>3 DEF ReceiveDone, TooLong
  <2>2. p \in LivePorts /\ portHeader[p] = call.object /\ p \in PortSlots
    <3>1. p \in portInUse /\ portHeader[p] = call.object
      BY <2>1 DEF MessageInv, PortCallKnows, ReceiveDone, At
    <3>2. call.object \in Objects
      BY DEF ReceiveDone, At, CallInv, CallTyped, HoldingSteps
    <3>3. call.object # NoObject
      BY <3>2 DEF Objects, NoObject
    <3> QED BY <3>1, <3>2, <3>3 DEF LivePorts, PoolInv, PoolsTyped
  <2>3. /\ portQueue \in [PortSlots -> Seq(MessageRecords)] /\ sentOn \in Seq(Nat)
        /\ NumbersDiffer(LivePorts, portQueue) /\ LivePorts \subseteq PortSlots
        /\ InOnePlace(Numbers(LivePorts, portQueue), Received, discarded, gone, Len(sentOn))
    BY HeaderInUse DEF MessageInv, MessagesKnown
  <2>4. /\ portQueue[p] \in Seq(MessageRecords) /\ 1 \in DOMAIN portQueue[p] /\ m = portQueue[p][1]
        /\ m.length \in Nat /\ call.size \in Nat
    <3>1. portQueue[p] \in Seq(MessageRecords) /\ portQueue[p] # <<>>
      BY <2>1, <2>2, <2>3
    <3>2. call.size \in Nat
      BY DEF CallInv, CallTyped, CallRecords
    <3> HIDE DEF p
    <3>3. 1 \in DOMAIN portQueue[p] /\ m = portQueue[p][1] /\ m \in MessageRecords
      BY <3>1
    <3> QED BY <3>1, <3>2, <3>3 DEF MessageRecords
  <2>5. /\ portQueue'[p] = Tail(portQueue[p])
        /\ \A s \in LivePorts : s # p => portQueue'[s] = portQueue[s]
        /\ portQueue' \in [PortSlots -> Seq(MessageRecords)]
    BY <2>1, <2>2, <2>3, <2>4
  <2>6. Takes(LivePorts, portQueue, portQueue', p, MessageRecords)
    BY <2>1, <2>2, <2>4, <2>5 DEF Takes
  <2>7. /\ Numbers(LivePorts, portQueue) = Numbers(LivePorts, portQueue') \cup {m.number}
        /\ m.number \notin Numbers(LivePorts, portQueue')
        /\ NumbersDiffer(LivePorts, portQueue')
    <3> HIDE DEF p
    <3> QED BY <2>3, <2>6, NumbersTaken
  <2>8. sentOn[m.number] = objectId[call.object]
    BY <2>2, <2>4 DEF QueueIds, MessageInv, MessagesKnown
  <2> HIDE DEF m
  <2>9. InOnePlace(Numbers(LivePorts, portQueue'), Received', discarded', gone, Len(sentOn))
        /\ DeliveriesRight'
    <3> DEFINE A == Numbers(LivePorts, portQueue')
    <3>0. InOnePlace(A \cup {m.number}, Received, discarded, gone, Len(sentOn)) /\ m.number \notin A
      BY <2>3, <2>7
    <3> HIDE DEF A
    <3>1. CASE discarded' = discarded \cup {m.number} /\ UNCHANGED delivered
      <4>1. Received' = Received
        BY <3>1 DEF Received
      <4>2. InOnePlace(A, Received, discarded \cup {m.number}, gone, Len(sentOn))
        BY <3>0 DEF InOnePlace
      <4>3. DeliveriesRight'
        BY <1>1, <3>1 DEF DeliveriesRight, MessageInv, MessagesKnown
      <4> QED BY <3>1, <4>1, <4>2, <4>3 DEF A
    <3>2. CASE ~ (m.length > call.size) /\ delivered' = delivered \cup {d} /\ UNCHANGED discarded
      <4>0. d.number = m.number /\ d.port = objectId[call.object] /\ d.whole
        <5>1. m.length <= call.size
          BY <2>4, <3>2
        <5>2. d.number = m.number /\ d.port = objectId[call.object]
          OBVIOUS
        <5>3. d.whole
          BY <5>1, Zenon
        <5> QED BY <5>2, <5>3
      <4> HIDE DEF d
      <4>1. Received' = Received \cup {m.number}
        BY <3>2, <4>0 DEF Received
      <4>2. InOnePlace(A, Received \cup {m.number}, discarded, gone, Len(sentOn))
        BY <3>0 DEF InOnePlace
      <4>3. DeliveriesRight'
        BY <1>1, <2>8, <3>2, <4>0 DEF DeliveriesRight, MessageInv, MessagesKnown
      <4> QED BY <3>2, <4>1, <4>2, <4>3 DEF A
    <3> QED BY <2>1, <3>1, <3>2
  <2>10. QueueIds'
    <3> SUFFICES ASSUME NEW s \in LivePorts, NEW i \in DOMAIN portQueue'[s]
                 PROVE  sentOn[portQueue'[s][i].number] = objectId[portHeader[s]]
      BY <1>1 DEF QueueIds
    <3>1. \E j \in DOMAIN portQueue[s] : portQueue'[s][i] = portQueue[s][j]
      <4>1. CASE s = p
        <5>1. i + 1 \in DOMAIN portQueue[s] /\ portQueue'[s][i] = portQueue[s][i + 1]
          BY <2>1, <2>4, <2>5, <4>1
        <5> QED BY <5>1
      <4>2. CASE s # p
        BY <2>5, <4>2
      <4> QED BY <4>1, <4>2
    <3> QED BY <3>1 DEF QueueIds, MessageInv, MessagesKnown
  <2> QED BY <1>1, <2>3, <2>5, <2>7, <2>9, <2>10 DEF MessagesKnown
<1> QED BY <1>2, <1>3

(* Every step keeps the account of the messages. *)
LEMMA MessagesKnownStep ==
  ASSUME RefInv, RefInv', ObStep, CallInv, PoolInv, PoolInv', MessageInv, KeNext
  PROVE  MessagesKnown'
<1>0. MessagesKnown /\ IdsKept /\ portQueue \in [PortSlots -> Seq(MessageRecords)]
  BY IdsKeptStep DEF MessageInv, MessagesKnown
<1>1. CASE UNCHANGED <<portVars, messageVars, gone>>
  BY <1>0, <1>1, MessagesStay DEF portVars, LivePorts
<1>2. CASE DeleteRoutines /\ UNCHANGED <<portQueue, messageVars>>
  <2>1. CASE objectInUse \subseteq objectInUse'
    <3>1. UNCHANGED <<portInUse, portHeader>>
      BY <1>2, <2>1, NothingDeleted DEF PoolInv
    <3>2. FreedPorts = {}
      BY <2>1 DEF FreedPorts, Deleted
    <3>3. gone' = gone
      BY <1>2, <3>2 DEF DeleteRoutines, LpcpDeletePortObject
    <3> QED BY <1>0, <1>2, <3>1, <3>3, MessagesStay DEF LivePorts
  <2>2. CASE ~ (objectInUse \subseteq objectInUse')
    <3>1. PICK o \in objectInUse : FreesObject(o)
      BY <2>2, PoolStep DEF PoolUnchanged, CreatesObject
    <3> QED BY <1>0, <1>2, <3>1, DeletedPortMessages
  <2> QED BY <2>1, <2>2
<1>3. ASSUME NEW access, KipSysCreatePort(access) PROVE MessagesKnown'
  <2>1. UNCHANGED <<portQueue, messageVars, gone>>
    BY <1>3 DEF KipSysCreatePort
  <2>2. CASE UNCHANGED <<portInUse, portHeader>>
    BY <1>0, <2>1, <2>2, MessagesStay DEF LivePorts
  <2>3. CASE ~ UNCHANGED <<portInUse, portHeader>>
    <3>1. PICK s \in PortSlots \ portInUse :
            portInUse' = portInUse \cup {s} /\ portHeader' = [portHeader EXCEPT ![s] = NoObject]
      BY <1>3, <2>3 DEF KipSysCreatePort
    <3>2. /\ portHeader \in [PortSlots -> Objects \cup {NoObject}] /\ portInUse \subseteq PortSlots
      BY DEF PoolInv, PoolsTyped
    <3>3. LivePorts' = LivePorts /\ \A r \in LivePorts : portHeader'[r] = portHeader[r]
      BY <3>1, <3>2 DEF LivePorts
    <3> QED BY <1>0, <2>1, <3>3, MessagesStay
  <2> QED BY <2>2, <2>3
<1>4. CASE CreatePort /\ status' = "SUCCESS"
  BY <1>0, <1>4, NewPortMessages
<1> QED BY <1>1, <1>2, <1>3, <1>4, MessageSteps, SendMessages, ReceiveMessages


-----------------------------------------------------------------------------
(***************************************************************************)
(* The inductive invariant of the system calls.                            *)
(***************************************************************************)
KeInv ==
  /\ DeleteInv /\ HandleInv
  /\ CallInv /\ BootTyped /\ PoolInv /\ ViewsInv
  /\ FileInv /\ SpawnInv /\ MessageInv

LEMMA KeInvInit == KeInit => KeInv
<1> SUFFICES ASSUME KeInit PROVE KeInv
  OBVIOUS
<1>0. ObInitialize /\ IoInit
  BY DEF KeInit, IoInit
<1>1. DeleteInv /\ HandleInv
  BY <1>0, DeleteInvInit, HandleInvInit
<1>2. call \in CallRecords /\ call.step = "boot"
  BY <1>0, IdleTyped, CallSetTyped DEF IoInit, CallSteps, CallRecords
<1>3. /\ typeInUse = {} /\ objectInUse = {} /\ entryInUse = {}
      /\ held = [o \in Objects |-> 0]
  BY <1>0 DEF ObInitialize, ObpZeroHandleTable
<1>4. CallInv
  <2>1. views = <<>> /\ views \in Seq(Objects) /\ DOMAIN views = {}
    BY DEF KeInit
  <2>2. \A o : ViewsOf(o) = {}
    BY <2>1 DEF ViewsOf
  <2>3. HoldersCounted
    BY <1>2, <1>3, <2>2, FS_EmptySet DEF HoldersCounted, CallHolds, HoldingSteps
  <2> QED BY <1>2, <1>3, <2>1, <2>3 DEF CallInv, CallTyped, TypesInOrder, TypesReady, At, HoldingSteps
<1>5. BootTyped
  BY <1>0 DEF IoInit, BootTyped
<1>6. PoolInv
  <2>1. PoolsTyped
    BY <1>0 DEF KeInit, IoInit, PoolsTyped, NoFile
  <2>2. FilePool /\ PortPool /\ SectionPool
    BY <1>0, <1>3 DEF KeInit, IoInit, FilePool, PortPool, SectionPool, PoolHolds
  <2> QED BY <1>2, <2>1, <2>2 DEF PoolInv, Pending, At
<1>7. ViewsInv
  BY <1>2 DEF KeInit, ViewsInv, At
<1>8. FileInv
  <2>1. opened \in [HandleValues -> Nat]
    BY <1>0 DEF IoInit, NoFile
  <2> QED BY <1>2, <1>3, <2>1 DEF FileInv, EntriesHaveFiles, LookupKnows, InsertKnows, At
<1>9. SpawnInv
  BY <1>2 DEF SpawnInv, At
<1>10. MessageInv
  <2>1. /\ LivePorts = {} /\ Received = {} /\ discarded = {} /\ gone = {} /\ delivered = {}
        /\ portQueue \in [PortSlots -> Seq(MessageRecords)] /\ sentOn = <<>>
    BY DEF KeInit, LivePorts, Received
  <2>2. Numbers({}, portQueue) = {} /\ NumbersDiffer({}, portQueue)
    BY DEF Numbers, NumbersDiffer
  <2>3. InOnePlace({}, {}, {}, {}, 0) /\ sentOn \in Seq(Nat) /\ Len(sentOn) = 0
    BY <2>1 DEF InOnePlace
  <2>4. MessagesKnown
    BY <2>1, <2>2, <2>3 DEF MessagesKnown, DeliveriesRight, QueueIds
  <2> QED BY <1>2, <2>4 DEF MessageInv, PortCallKnows
<1> QED BY <1>1, <1>4, <1>5, <1>6, <1>7, <1>8, <1>9, <1>10 DEF KeInv

LEMMA ViewsInUseNext == RefInv' /\ CallInv' => ViewsLive'
BY ViewsInUse, PTL

LEMMA KeInvNext ==
  ASSUME KeInv, [KeNext]_keVars
  PROVE  KeInv' /\ ObStep
<1>1. RefInv /\ PoolsTyped /\ SpawnReady
  BY SpawnInvReady DEF KeInv, HandleInv, PoolInv
<1>2. ObStep /\ CallInv'
  BY <1>1, CallStep DEF KeInv
<1>3. DeleteInv' /\ HandleInv' /\ RefInv'
  BY <1>2, DeleteInvStep, HandleInvStep DEF KeInv, HandleInv
<1>4. BootTyped' /\ (~ At("boot") => UNCHANGED bootFiles)
  BY BootTypedStep DEF KeInv
<1>5. PoolInv'
  BY <1>1, PoolInvStep DEF KeInv
<1>6. CASE KeNext
  <2>1. Transitions
    BY <1>1, <1>6, TransitionsStep DEF KeInv
  <2>2. ViewsInv'
    BY <1>1, <1>2, <1>3, <2>1, ViewsInUseNext, ViewsInvStep DEF KeInv
  <2>3. FileInv'
    BY <1>2, <1>3, <1>4, <1>5, <2>1, FileInvStep DEF KeInv
  <2>4. SpawnInv'
    BY <1>2, <1>3, <2>1, SpawnInvStep DEF KeInv
  <2>5. MessagesKnown'
    BY <1>1, <1>2, <1>3, <1>5, <1>6, MessagesKnownStep DEF KeInv
  <2>6. PortCallKnows'
    BY <1>1, <1>2, <1>3, <2>1, PortCallKnowsStep DEF KeInv
  <2> QED BY <1>2, <1>3, <1>4, <1>5, <2>2, <2>3, <2>4, <2>5, <2>6 DEF KeInv, MessageInv
<1>7. CASE UNCHANGED keVars
  <2>1. /\ UNCHANGED <<call, views, bootFiles, opened>>
        /\ UNCHANGED <<objectType, fileInUse, fileHeader, fileData>>
        /\ UNCHANGED <<entryInUse, entryObject, entryHandle, inserts>>
    BY <1>7 DEF keVars, ioVars, obVars, objectVars, entryVars, fileVars
  <2>2. ViewsInv' /\ FileInv' /\ SpawnInv'
    BY <2>1 DEF KeInv, ViewsInv, FileInv, SpawnInv, EntriesHaveFiles, EntryFile, LookupKnows,
       InsertKnows, HandlesOf, NotWrapped, SizeOf, At
  <2>3. UNCHANGED <<portInUse, portHeader, portQueue, sentOn, delivered, discarded, gone, objectId>>
    BY <1>7 DEF keVars, ioVars, obVars, objectVars, portVars, messageVars
  <2>4. MessageInv'
    BY <2>1, <2>3 DEF KeInv, MessageInv, MessagesKnown, PortCallKnows, LivePorts, Received,
       DeliveriesRight, QueueIds
  <2> QED BY <1>2, <1>3, <1>4, <1>5, <2>2, <2>4 DEF KeInv
<1> QED BY <1>2, <1>6, <1>7

(* The calls use the object manager as it asks to be used, so all that is  *)
(* proved of it holds of the system: every step is one operation of the    *)
(* object manager with a header the caller holds, or a call that returns a *)
(* status and leaves it alone.                                             *)
THEOREM CallsUseObjectManager ==
  KeSpec => ObInitialize /\ [][ObNext \/ \E s \in Statuses : Fail(s)]_obVars
<1>1. KeInit => ObInitialize
  BY DEF KeInit, IoInit
<1>2. KeInv /\ [KeNext]_keVars => KeInv'
  BY KeInvNext
<1>3. KeInv /\ [KeNext]_keVars => [ObNext \/ \E s \in Statuses : Fail(s)]_obVars
  BY KeInvNext DEF ObStep
<1> QED BY <1>1, <1>2, <1>3, KeInvInit, PTL DEF KeSpec

(* The reference counts and the delete routines are right for the whole    *)
(* system: no pool, view or handle refers to a header that was freed.      *)
THEOREM CallsKeepCounts ==
  KeSpec => [](RefCountExact /\ NoDanglingReference /\ DeletedExactlyOnce)
<1>1. KeInv /\ [KeNext]_keVars => KeInv'
  BY KeInvNext
<1>2. KeInv => RefCountExact /\ NoDanglingReference /\ DeletedExactlyOnce
  BY RefInvNoDangling DEF KeInv, DeleteInv, RefInv
<1> QED BY <1>1, <1>2, KeInvInit, PTL DEF KeSpec

(* Every live file, port and section has exactly one slot in its own pool, *)
(* a slot with a header names a live object of its kind, and every view    *)
(* names a live section, for every size of the pools.                      *)
THEOREM PoolsAgreeWithObjects == KeSpec => []PoolsMatchObjects
<1>1. KeInv /\ [KeNext]_keVars => KeInv'
  BY KeInvNext
<1>2. KeInv => PoolsMatchObjects
  <2> SUFFICES ASSUME KeInv PROVE PoolsMatchObjects
    OBVIOUS
  <2>1. objectInUse \subseteq Objects /\ RefInv
    BY DEF KeInv, HandleInv, RefInv, ObTypeOK
  <2>2. /\ PoolAgrees(FileType, fileInUse, fileHeader)
        /\ PoolAgrees(PortType, portInUse, portHeader)
        /\ PoolAgrees(SectionType, sectionInUse, sectionHeader)
    BY <2>1, PoolHoldsAgrees DEF KeInv, PoolInv, FilePool, PortPool, SectionPool
  <2>3. ViewsLive
    BY <2>1, ViewsInUse DEF KeInv
  <2> QED BY <2>2, <2>3 DEF PoolsMatchObjects, KeInv, ViewsInv, ViewsLive
<1> QED BY <1>1, <1>2, KeInvInit, PTL DEF KeSpec

(* Until NextHandle wraps, a file handle reads the file it was opened on.  *)
THEOREM FileHandlesKeepTheirFile == KeSpec => [](NotWrapped => HandlesReadTheirFile)
<1>1. KeInv /\ [KeNext]_keVars => KeInv'
  BY KeInvNext
<1>2. KeInv => (NotWrapped => HandlesReadTheirFile)
  <2> SUFFICES ASSUME KeInv, NotWrapped, NEW e \in entryInUse,
                      objectType[entryObject[e]] = FileType
               PROVE  fileData[FileSlotOf(entryObject[e])] = opened[entryHandle[e]]
    BY DEF HandlesReadTheirFile
  <2> DEFINE o == entryObject[e]
  <2>1. o \in objectInUse
    BY RefInvNoDangling DEF KeInv, HandleInv, NoDanglingReference
  <2>2. IopFindFileByHeader(o) # {}
    BY <2>1 DEF KeInv, PoolInv, FilePool, PoolHolds, IopFindFileByHeader
  <2>3. FileSlotOf(o) \in IopFindFileByHeader(o)
    BY <2>2, SlotsFound DEF KeInv, PoolInv
  <2> QED
    BY <2>3 DEF IopFindFileByHeader, KeInv, FileInv, EntriesHaveFiles, EntryFile
<1> QED BY <1>1, <1>2, KeInvInit, PTL DEF KeSpec

(* Until NextHandle wraps, a process is made from the whole of the file    *)
(* its handle was opened on, in a buffer with room to spare, whatever the  *)
(* sizes of the file and of the scratch buffer.                            *)
THEOREM SpawnReadsWholeFile == KeSpec => [](NotWrapped => SpawnGetsWholeFile)
<1>1. KeInv /\ [KeNext]_keVars => KeInv'
  BY KeInvNext
<1>2. KeInv => (NotWrapped => SpawnGetsWholeFile)
  BY DEF KeInv, SpawnInv, SpawnGetsWholeFile, SizeOf
<1> QED BY <1>1, <1>2, KeInvInit, PTL DEF KeSpec

(* No message is lost or duplicated: every message a send accepted is      *)
(* queued on its port, copied out whole through that port, gone with it,   *)
(* or taken by a receive whose buffer was too short, in exactly one of     *)
(* these places, for every number and depth of ports and however their     *)
(* slots and headers are reused.                                           *)
THEOREM MessagesAreAccounted == KeSpec => []MessagesAccounted
<1>1. KeInv /\ [KeNext]_keVars => KeInv'
  BY KeInvNext
<1>2. KeInv => MessagesAccounted
  <2> SUFFICES ASSUME KeInv PROVE MessagesAccounted
    OBVIOUS
  <2>1. MessagesKnown
    BY DEF KeInv, MessageInv
  <2>2. Queued = Numbers(LivePorts, portQueue)
    BY DEF Queued, Numbers, LivePorts
  <2>3. InOnePlace(Queued, Received, discarded, gone, Len(sentOn)) /\ Len(sentOn) \in Nat
    BY <2>1, <2>2 DEF MessagesKnown
  <2>4. Cardinality(Queued) + Cardinality(Received) + Cardinality(discarded) + Cardinality(gone)
          = Len(sentOn)
    BY <2>3, PlacesCount
  <2>5. UNION {Queued, Received, discarded, gone} = 1 .. Len(sentOn)
    BY <2>3 DEF InOnePlace
  <2>6. ASSUME NEW s \in portInUse, NEW i \in 1 .. Depth, portHeader[s] # NoObject,
               i <= Len(portQueue[s])
        PROVE  sentOn[portQueue[s][i].number] = objectId[portHeader[s]]
    <3>1. s \in LivePorts /\ s \in PortSlots
      BY <2>6, HeaderInUse DEF KeInv, LivePorts
    <3>2. portQueue[s] \in Seq(MessageRecords)
      BY <2>1, <3>1 DEF MessagesKnown
    <3>3. i \in DOMAIN portQueue[s]
      BY <2>6, <3>2
    <3> QED BY <2>1, <3>1, <3>3 DEF MessagesKnown, QueueIds
  <2> QED BY <2>1, <2>4, <2>5, <2>6 DEF MessagesAccounted, Received, MessagesKnown, DeliveriesRight
<1> QED BY <1>1, <1>2, KeInvInit, PTL DEF KeSpec
=============================================================================
