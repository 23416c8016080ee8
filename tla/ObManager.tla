----------------------------- MODULE ObManager -----------------------------
(***************************************************************************)
(* The object manager of kernel/ob/init.c: the pool of object types, the   *)
(* pool of reference-counted object headers and the one kernel handle      *)
(* table that every process shares.                                        *)
(*                                                                         *)
(* Pool slots are 1..N here (Index + 1 in the code).  An access mask is    *)
(* the set of its bits.  Names, Flags and WaitState, which no operation    *)
(* reads, are left out.                                                    *)
(*                                                                         *)
(* Every call runs to completion before another starts: the kernel has one *)
(* CPU, system calls enter through interrupt gates and the timer handler   *)
(* touches no object.                                                      *)
(***************************************************************************)
EXTENDS Naturals, FiniteSets

CONSTANTS
  MaxTypes,       \* slots of gObTypePool
  MaxObjects,     \* OB_MAX_OBJECTS, slots of gObObjectPool
  MaxHandles,     \* OB_MAX_HANDLES, entries of the kernel handle table
  Rights,         \* the bits of an access mask
  HandleModulus,  \* 2^32: HandleTable->NextHandle is a uint32_t
  MaxCreates,     \* bound on the objects ever created
  MaxInserts,     \* bound on the handles ever inserted
  MaxHeld         \* bound on the references kernel code holds on one object

ASSUME ObConstants ==
  /\ MaxTypes \in Nat /\ MaxObjects \in Nat /\ MaxHandles \in Nat
  /\ MaxCreates \in Nat /\ MaxInserts \in Nat /\ MaxHeld \in Nat
  /\ HandleModulus \in Nat /\ HandleModulus > 4

Types   == 1 .. MaxTypes
Objects == 1 .. MaxObjects
Entries == 1 .. MaxHandles
NoType   == 0        \* a null OB_OBJECT_TYPE pointer
NoObject == 0        \* a null OB_OBJECT_HEADER pointer
HandleStep == 4
HandleValues == 0 .. HandleModulus - 1

VARIABLES
  typeInUse,       \* slots with gObTypeInUse set
  objectInUse,     \* slots with gObObjectInUse set
  nextObjectId,    \* gObNextObjectId
  objectId,        \* ObjectId, Type, RefCount and DefaultAccessMask of each header
  objectType,
  refCount,
  defaultAccess,
  entryInUse,      \* entries with InUse set
  entryObject,     \* Object, GrantedAccess and HandleValue of each entry
  entryAccess,
  entryHandle,
  nextHandle,      \* HandleTable->NextHandle
  status,          \* the KSTATUS the last call returned
  held,            \* ghost: references kernel code holds through a pointer
  inserts,         \* ghost: handles ever inserted
  deleteCount      \* ghost: calls of the delete routine, per object id

typeVars   == <<typeInUse>>
objectVars == <<objectInUse, nextObjectId, objectId, objectType, refCount,
                defaultAccess, deleteCount>>
entryVars  == <<entryInUse, entryObject, entryAccess, entryHandle, nextHandle,
                inserts>>
obVars     == <<typeVars, objectVars, entryVars, status, held>>

Statuses == {"SUCCESS", "INVALID_PARAMETER", "NOT_FOUND", "ACCESS_DENIED",
             "INIT_FAILED"}

(* Counting and checking, each with one place; a mutant of one stands      *)
(* before it.                                                              *)
NoReference(o) == UNCHANGED refCount                      \* mutant: no RefCount++
AddReference(o) == refCount' = [refCount EXCEPT ![o] = @ + 1]

LastButOne(o) == refCount[o] <= 2                         \* mutant: freed too early
IsLastReference(o) == refCount[o] = 1

SameHandleAgain == nextHandle                             \* mutant: no NextHandle += 4
UnboundedHandle == nextHandle + HandleStep                \* mutant: wider than uint32_t
NextHandleValue == (nextHandle + HandleStep) % HandleModulus

AccessAllowed(o, access) == access \subseteq defaultAccess[o]

(* The pools are searched from index 0 upwards. *)
IsFirst(i, S) == i \in S /\ \A j \in S : i <= j

Fail(s) == status' = s /\ UNCHANGED <<typeVars, objectVars, entryVars, held>>

-----------------------------------------------------------------------------
(* ObInitialize, with the zeroed handle table of ObpZeroHandleTable. *)
ObpZeroHandleTable ==
  /\ entryInUse = {}
  /\ entryObject = [e \in Entries |-> NoObject]
  /\ entryAccess = [e \in Entries |-> {}]
  /\ entryHandle = [e \in Entries |-> 0]
  /\ nextHandle = 4

ObInitialize ==
  /\ typeInUse = {}
  /\ objectInUse = {}
  /\ objectId = [o \in Objects |-> 0]
  /\ objectType = [o \in Objects |-> NoType]
  /\ refCount = [o \in Objects |-> 0]
  /\ defaultAccess = [o \in Objects |-> {}]
  /\ ObpZeroHandleTable
  /\ nextObjectId = 1
  /\ status = "SUCCESS"
  /\ held = [o \in Objects |-> 0]
  /\ inserts = 0
  /\ deleteCount = [i \in 1 .. MaxCreates |-> 0]

(* A type slot is taken and never given back. *)
ObCreateType ==
  \/ /\ Types \ typeInUse = {}
     /\ Fail("INIT_FAILED")
  \/ \E t \in Types \ typeInUse :
       /\ IsFirst(t, Types \ typeInUse)
       /\ typeInUse' = typeInUse \cup {t}
       /\ status' = "SUCCESS"
       /\ UNCHANGED <<objectVars, entryVars, held>>

(* A header in the first free slot, with the creator's reference. *)
ObCreateObject(t, mask) ==
  \/ /\ Objects \ objectInUse = {}
     /\ Fail("INIT_FAILED")
  \/ \E o \in Objects \ objectInUse :
       /\ IsFirst(o, Objects \ objectInUse)
       /\ nextObjectId <= MaxCreates
       /\ objectInUse' = objectInUse \cup {o}
       /\ objectId' = [objectId EXCEPT ![o] = nextObjectId]
       /\ nextObjectId' = nextObjectId + 1
       /\ objectType' = [objectType EXCEPT ![o] = t]
       /\ refCount' = [refCount EXCEPT ![o] = 1]
       /\ defaultAccess' = [defaultAccess EXCEPT ![o] = mask]
       /\ held' = [held EXCEPT ![o] = 1]
       /\ status' = "SUCCESS"
       /\ UNCHANGED <<typeVars, entryVars, deleteCount>>

(* A handle on an object whose header the caller holds. *)
ObInsertHandle(o, access) ==
  \/ /\ ~ AccessAllowed(o, access)
     /\ Fail("ACCESS_DENIED")
  \/ /\ AccessAllowed(o, access)
     /\ Entries \ entryInUse = {}
     /\ Fail("INIT_FAILED")
  \/ /\ AccessAllowed(o, access)
     /\ inserts < MaxInserts
     /\ \E e \in Entries \ entryInUse :
          /\ IsFirst(e, Entries \ entryInUse)
          /\ entryInUse' = entryInUse \cup {e}
          /\ entryObject' = [entryObject EXCEPT ![e] = o]
          /\ entryAccess' = [entryAccess EXCEPT ![e] = access]
          /\ entryHandle' = [entryHandle EXCEPT ![e] = nextHandle]
     /\ nextHandle' = NextHandleValue
     /\ inserts' = inserts + 1
     /\ AddReference(o)
     /\ status' = "SUCCESS"
     /\ UNCHANGED <<typeVars, objectInUse, nextObjectId, objectId, objectType,
                    defaultAccess, deleteCount, held>>

(* The entries ObpFindHandleEntry accepts for v; it returns the first. *)
ObpFindHandleEntry(v) == {e \in entryInUse : entryHandle[e] = v}

ObReferenceObjectByHandle(v, desired, expected) ==
  \/ v = 0 /\ Fail("INVALID_PARAMETER")
  \/ v # 0 /\ ObpFindHandleEntry(v) = {} /\ Fail("NOT_FOUND")
  \/ /\ v # 0
     /\ \E e \in ObpFindHandleEntry(v) :
          /\ IsFirst(e, ObpFindHandleEntry(v))
          /\ \/ ~ (desired \subseteq entryAccess[e]) /\ Fail("ACCESS_DENIED")
             \/ /\ desired \subseteq entryAccess[e]
                /\ expected \notin {NoType, objectType[entryObject[e]]}
                /\ Fail("NOT_FOUND")
             \/ /\ desired \subseteq entryAccess[e]
                /\ expected \in {NoType, objectType[entryObject[e]]}
                /\ held[entryObject[e]] < MaxHeld
                /\ AddReference(entryObject[e])
                /\ held' = [held EXCEPT ![entryObject[e]] = @ + 1]
                /\ status' = "SUCCESS"
                /\ UNCHANGED <<typeVars, entryVars, objectInUse, nextObjectId,
                               objectId, objectType, defaultAccess, deleteCount>>

(* The body of ObDereferenceObject: at zero the delete routine runs and    *)
(* the slot returns to the pool.                                           *)
DropReference(o) ==
  IF refCount[o] = 0
  THEN status' = "INVALID_PARAMETER" /\ UNCHANGED objectVars
  ELSE /\ status' = "SUCCESS"
       /\ refCount' = [refCount EXCEPT ![o] = @ - 1]
       /\ UNCHANGED <<nextObjectId, objectId>>
       /\ IF IsLastReference(o)
          THEN /\ deleteCount' = [deleteCount EXCEPT ![objectId[o]] = @ + 1]
               /\ objectInUse' = objectInUse \ {o}
               /\ objectType' = [objectType EXCEPT ![o] = NoType]
               /\ defaultAccess' = [defaultAccess EXCEPT ![o] = {}]
          ELSE UNCHANGED <<deleteCount, objectInUse, objectType, defaultAccess>>

(* Kernel code gives back a reference it holds. *)
ObDereferenceObject(o) ==
  /\ held' = [held EXCEPT ![o] = @ - 1]
  /\ DropReference(o)
  /\ UNCHANGED <<typeVars, entryVars>>

ObCloseHandle(v) ==
  \/ v = 0 /\ Fail("INVALID_PARAMETER")
  \/ v # 0 /\ ObpFindHandleEntry(v) = {} /\ Fail("NOT_FOUND")
  \/ /\ v # 0
     /\ \E e \in ObpFindHandleEntry(v) :
          /\ IsFirst(e, ObpFindHandleEntry(v))
          /\ DropReference(entryObject[e])
          /\ entryInUse' = entryInUse \ {e}
          /\ entryHandle' = [entryHandle EXCEPT ![e] = 0]
          /\ entryObject' = [entryObject EXCEPT ![e] = NoObject]
          /\ entryAccess' = [entryAccess EXCEPT ![e] = {}]
     /\ UNCHANGED <<typeVars, nextHandle, inserts, held>>

-----------------------------------------------------------------------------
(* Kernel code passes only headers it holds a reference on; a handle value *)
(* and the masks come from user code and may be anything.  Values that are *)
(* no multiple of HandleStep are in no entry, so the multiples stand for   *)
(* all of them: each one not in the table behaves alike.                   *)
UserHandles == {v \in HandleValues : v % HandleStep = 0}
HeldObjects == {o \in Objects : held[o] > 0}

ObNext ==
  \/ ObCreateType
  \/ \E t \in typeInUse, mask \in SUBSET Rights : ObCreateObject(t, mask)
  \/ \E o \in HeldObjects, access \in SUBSET Rights : ObInsertHandle(o, access)
  \/ \E v \in UserHandles, desired \in SUBSET Rights,
        expected \in typeInUse \cup {NoType} :
       ObReferenceObjectByHandle(v, desired, expected)
  \/ \E o \in HeldObjects : ObDereferenceObject(o)
  \/ \E v \in UserHandles : ObCloseHandle(v)

ObSpec == ObInitialize /\ [][ObNext]_obVars

-----------------------------------------------------------------------------
(* Every variable of the object manager keeps its type. *)
ObTypeOK ==
  /\ typeInUse \subseteq Types
  /\ objectInUse \subseteq Objects
  /\ nextObjectId \in 1 .. MaxCreates + 1
  /\ objectId \in [Objects -> 0 .. MaxCreates]
  /\ objectType \in [Objects -> Types \cup {NoType}]
  /\ refCount \in [Objects -> Nat]
  /\ defaultAccess \in [Objects -> SUBSET Rights]
  /\ entryInUse \subseteq Entries
  /\ entryObject \in [Entries -> Objects \cup {NoObject}]
  /\ entryAccess \in [Entries -> SUBSET Rights]
  /\ entryHandle \in [Entries -> HandleValues]
  /\ nextHandle \in HandleValues
  /\ status \in Statuses
  /\ held \in [Objects -> Nat]
  /\ inserts \in 0 .. MaxInserts
  /\ deleteCount \in [1 .. MaxCreates -> Nat]

HandlesOf(o) == {e \in entryInUse : entryObject[e] = o}

(* RefCount of every header, live or free, is the number of handles open   *)
(* on it plus the references kernel code holds: ObInsertHandle,            *)
(* ObReferenceObjectByHandle, ObCloseHandle and ObDereferenceObject keep   *)
(* the count exact, whatever order they come in.                           *)
RefCountExact ==
  \A o \in Objects : refCount[o] = Cardinality(HandlesOf(o)) + held[o]

(* A header is in the pool's free part exactly when its count is zero, so  *)
(* no open handle and no held pointer refers to a recycled slot.           *)
NoDanglingReference ==
  /\ \A o \in Objects : o \in objectInUse <=> refCount[o] > 0
  /\ \A e \in entryInUse : entryObject[e] \in objectInUse
  /\ \A o \in HeldObjects : o \in objectInUse

LiveIds == {objectId[o] : o \in objectInUse}

(* The delete routine of an object runs exactly once: never while it is    *)
(* live, never twice, and for every object that has left the pool.         *)
DeletedExactlyOnce ==
  \A i \in 1 .. MaxCreates :
    deleteCount[i] = IF i < nextObjectId /\ i \notin LiveIds THEN 1 ELSE 0

(* NextHandle starts at 4 and has not been back to 0. *)
NotWrapped == HandleStep * inserts < HandleModulus

(* Two open handles never have the same value, and none has value 0, which *)
(* ObCloseHandle refuses, as long as NextHandle has not wrapped.           *)
HandleValuesUnique ==
  NotWrapped =>
    /\ \A e \in entryInUse : entryHandle[e] # 0
    /\ \A e, f \in entryInUse : entryHandle[e] = entryHandle[f] => e = f

LiveHandles == {entryHandle[e] : e \in entryInUse}
IssuedHandles == {HandleStep * i : i \in 1 .. inserts}

(* A handle value that was closed does not become valid again before       *)
(* NextHandle wraps, so a stale copy of it cannot reach another object.    *)
ClosedStaysClosed ==
  [][NotWrapped' => IssuedHandles \cap LiveHandles' \subseteq LiveHandles]_obVars

(* As long as a handle stays open it denotes the same object: the slot it  *)
(* points to is never freed and reused underneath it.                      *)
HandleKeepsItsObject ==
  [][\A e \in entryInUse \cap entryInUse' :
       /\ entryObject'[e] = entryObject[e]
       /\ objectId'[entryObject[e]] = objectId[entryObject[e]]]_obVars
=============================================================================
