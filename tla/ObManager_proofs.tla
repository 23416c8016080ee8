-------------------------- MODULE ObManager_proofs --------------------------
(***************************************************************************)
(* Proofs about the object manager, for every pool size, every set of      *)
(* rights and every bound.                                                 *)
(***************************************************************************)
EXTENDS ObManager, FiniteSetTheorems, TLAPS

(* NextHandle stays a handle value when it advances, wrapping or not. *)
LEMMA NextHandleTyped ==
  ASSUME nextHandle \in HandleValues
  PROVE  NextHandleValue \in HandleValues
BY ObConstants DEF NextHandleValue, HandleValues, HandleStep

(* Adding one at any index keeps a function into Nat. *)
LEMMA BumpTyped ==
  ASSUME NEW S, NEW f \in [S -> Nat], NEW x
  PROVE  [f EXCEPT ![x] = @ + 1] \in [S -> Nat]
<1> DEFINE g == [f EXCEPT ![x] = @ + 1]
<1>1. ASSUME NEW y \in S PROVE g[y] \in Nat
  <2>1. CASE y = x
    BY <2>1
  <2>2. CASE y # x
    BY <2>2
  <2> QED BY <2>1, <2>2
<1>2. g = [y \in S |-> g[y]]
  OBVIOUS
<1> HIDE DEF g
<1>3. g \in [S -> Nat]
  BY <1>1, <1>2
<1> QED BY <1>3 DEF g

(* Giving back a reference keeps the header pool typed.  An index outside  *)
(* the pool changes nothing.                                               *)
LEMMA DropReferenceTyped ==
  ASSUME ObTypeOK, NEW o, DropReference(o)
  PROVE  /\ objectInUse' \subseteq Objects
         /\ nextObjectId' \in 1 .. MaxCreates + 1
         /\ objectId' \in [Objects -> 0 .. MaxCreates]
         /\ objectType' \in [Objects -> Types \cup {NoType}]
         /\ refCount' \in [Objects -> Nat]
         /\ defaultAccess' \in [Objects -> SUBSET Rights]
         /\ deleteCount' \in [1 .. MaxCreates -> Nat]
         /\ status' \in Statuses
<1>1. CASE refCount[o] = 0
  BY <1>1 DEF ObTypeOK, DropReference, objectVars, Statuses
<1>2. CASE refCount[o] # 0
  <2>1. refCount' \in [Objects -> Nat]
    BY <1>2 DEF ObTypeOK, DropReference
  <2>2. deleteCount' \in [1 .. MaxCreates -> Nat]
    <3>1. \/ deleteCount' = deleteCount
          \/ deleteCount' = [deleteCount EXCEPT ![objectId[o]] = @ + 1]
      BY <1>2 DEF DropReference
    <3>2. deleteCount \in [1 .. MaxCreates -> Nat]
      BY DEF ObTypeOK
    <3> QED BY <3>1, <3>2, BumpTyped
  <2> QED
    BY <1>2, <2>1, <2>2 DEF ObTypeOK, DropReference, Statuses, NoType
<1> QED BY <1>1, <1>2

LEMMA InitTyped == ObInitialize => ObTypeOK
BY ObConstants DEF ObInitialize, ObpZeroHandleTable, ObTypeOK, Statuses,
   HandleValues, NoType, NoObject

(* A failed call changes only the status it returns. *)
LEMMA FailTyped ==
  ASSUME ObTypeOK, NEW s \in Statuses, Fail(s)
  PROVE  ObTypeOK'
BY DEF ObTypeOK, Fail, typeVars, objectVars, entryVars

LEMMA NextTyped == ObTypeOK /\ [ObNext]_obVars => ObTypeOK'
<1> SUFFICES ASSUME ObTypeOK, [ObNext]_obVars PROVE ObTypeOK'
  OBVIOUS
<1>1. CASE ObCreateType
  BY <1>1, FailTyped DEF ObCreateType, ObTypeOK, objectVars, entryVars, Statuses
<1>2. ASSUME NEW t \in typeInUse, NEW mask \in SUBSET Rights,
             ObCreateObject(t, mask)
      PROVE  ObTypeOK'
  <2>1. CASE Fail("INIT_FAILED")
    BY <2>1, FailTyped DEF Statuses
  <2>2. CASE ~ Fail("INIT_FAILED")
    <3>1. PICK o \in Objects \ objectInUse :
            /\ nextObjectId <= MaxCreates
            /\ objectInUse' = objectInUse \cup {o}
            /\ objectId' = [objectId EXCEPT ![o] = nextObjectId]
            /\ nextObjectId' = nextObjectId + 1
            /\ objectType' = [objectType EXCEPT ![o] = t]
            /\ refCount' = [refCount EXCEPT ![o] = 1]
            /\ defaultAccess' = [defaultAccess EXCEPT ![o] = mask]
            /\ held' = [held EXCEPT ![o] = 1]
            /\ status' = "SUCCESS"
            /\ UNCHANGED <<typeVars, entryVars, deleteCount>>
      BY <1>2, <2>2 DEF ObCreateObject
    <3>2. nextObjectId' \in 1 .. MaxCreates + 1 /\ nextObjectId \in 0 .. MaxCreates
      BY <3>1, ObConstants DEF ObTypeOK
    <3>3. /\ objectId' \in [Objects -> 0 .. MaxCreates]
          /\ objectType' \in [Objects -> Types \cup {NoType}]
          /\ refCount' \in [Objects -> Nat]
          /\ defaultAccess' \in [Objects -> SUBSET Rights]
          /\ held' \in [Objects -> Nat]
      BY <3>1, <3>2 DEF ObTypeOK
    <3> QED
      BY <3>1, <3>2, <3>3 DEF ObTypeOK, typeVars, entryVars, Statuses
  <2> QED BY <2>1, <2>2
<1>3. ASSUME NEW o \in HeldObjects, NEW access \in SUBSET Rights,
             ObInsertHandle(o, access)
      PROVE  ObTypeOK'
  <2>1. CASE Fail("ACCESS_DENIED") \/ Fail("INIT_FAILED")
    BY <2>1, FailTyped DEF Statuses
  <2>2. CASE ~ (Fail("ACCESS_DENIED") \/ Fail("INIT_FAILED"))
    <3>1. nextHandle' \in HandleValues
      BY <1>3, <2>2, NextHandleTyped DEF ObInsertHandle, ObTypeOK
    <3>2. refCount' \in [Objects -> Nat]
      BY <1>3, <2>2 DEF ObInsertHandle, AddReference, ObTypeOK
    <3>3. PICK e \in Entries \ entryInUse :
            /\ entryInUse' = entryInUse \cup {e}
            /\ entryObject' = [entryObject EXCEPT ![e] = o]
            /\ entryAccess' = [entryAccess EXCEPT ![e] = access]
            /\ entryHandle' = [entryHandle EXCEPT ![e] = nextHandle]
      BY <1>3, <2>2 DEF ObInsertHandle
    <3>4. /\ inserts' = inserts + 1 /\ inserts < MaxInserts
          /\ status' = "SUCCESS"
          /\ UNCHANGED <<typeVars, objectInUse, nextObjectId, objectId,
                         objectType, defaultAccess, deleteCount, held>>
      BY <1>3, <2>2 DEF ObInsertHandle
    <3>5. inserts' \in 0 .. MaxInserts
      BY <3>4, ObConstants DEF ObTypeOK
    <3>6. /\ entryObject' \in [Entries -> Objects \cup {NoObject}]
          /\ entryAccess' \in [Entries -> SUBSET Rights]
          /\ entryHandle' \in [Entries -> HandleValues]
      BY <3>3 DEF ObTypeOK, HeldObjects
    <3> QED
      BY <3>1, <3>2, <3>3, <3>4, <3>5, <3>6 DEF ObTypeOK, typeVars, Statuses
  <2> QED BY <2>1, <2>2
<1>4. ASSUME NEW v \in UserHandles, NEW desired \in SUBSET Rights,
             NEW expected \in typeInUse \cup {NoType},
             ObReferenceObjectByHandle(v, desired, expected)
      PROVE  ObTypeOK'
  <2>1. CASE \E s \in Statuses : Fail(s)
    BY <2>1, FailTyped
  <2>2. CASE ~ \E s \in Statuses : Fail(s)
    <3>1. PICK e \in entryInUse :
            /\ AddReference(entryObject[e])
            /\ held' = [held EXCEPT ![entryObject[e]] = @ + 1]
            /\ status' = "SUCCESS"
            /\ UNCHANGED <<typeVars, entryVars, objectInUse, nextObjectId,
                           objectId, objectType, defaultAccess, deleteCount>>
      BY <1>4, <2>2 DEF ObReferenceObjectByHandle, ObpFindHandleEntry, Statuses
    <3>2. refCount' \in [Objects -> Nat] /\ held' \in [Objects -> Nat]
      BY <3>1, BumpTyped DEF ObTypeOK, AddReference
    <3> QED
      BY <3>1, <3>2 DEF ObTypeOK, typeVars, entryVars, Statuses
  <2> QED BY <2>1, <2>2
<1>5. ASSUME NEW o \in HeldObjects, ObDereferenceObject(o)
      PROVE  ObTypeOK'
  <2>1. held' \in [Objects -> Nat]
    BY <1>5 DEF ObDereferenceObject, HeldObjects, ObTypeOK
  <2> QED
    BY <1>5, <2>1, DropReferenceTyped
    DEF ObDereferenceObject, ObTypeOK, typeVars, entryVars
<1>6. ASSUME NEW v \in UserHandles, ObCloseHandle(v)
      PROVE  ObTypeOK'
  <2>1. CASE \E s \in Statuses : Fail(s)
    BY <2>1, FailTyped
  <2>2. CASE ~ \E s \in Statuses : Fail(s)
    <3>1. PICK e \in entryInUse :
            /\ DropReference(entryObject[e])
            /\ entryInUse' = entryInUse \ {e}
            /\ entryHandle' = [entryHandle EXCEPT ![e] = 0]
            /\ entryObject' = [entryObject EXCEPT ![e] = NoObject]
            /\ entryAccess' = [entryAccess EXCEPT ![e] = {}]
            /\ UNCHANGED <<typeVars, nextHandle, inserts, held>>
      BY <1>6, <2>2 DEF ObCloseHandle, ObpFindHandleEntry, Statuses
    <3>2. entryHandle' \in [Entries -> HandleValues]
      BY <3>1, ObConstants DEF ObTypeOK, HandleValues
    <3> QED
      BY <3>1, <3>2, DropReferenceTyped DEF ObTypeOK, typeVars
  <2> QED BY <2>1, <2>2
<1>7. CASE UNCHANGED obVars
  BY <1>7 DEF obVars, ObTypeOK, typeVars, objectVars, entryVars
<1> QED
  BY <1>1, <1>2, <1>3, <1>4, <1>5, <1>6, <1>7 DEF ObNext

(* The object manager never leaves its types: no count below zero, no slot *)
(* outside its pool, no handle value wider than 32 bits.                   *)
THEOREM ObTypeCorrect == ObSpec => []ObTypeOK
BY InitTyped, NextTyped, PTL DEF ObSpec
-----------------------------------------------------------------------------
(***************************************************************************)
(* Reference counting.  RefCountExact is not inductive alone: that a count *)
(* of zero means a free slot, and that an open entry points into the pool, *)
(* are needed to know which header a call may touch.                       *)
(***************************************************************************)
InUseIffCounted == \A o \in Objects : o \in objectInUse <=> refCount[o] > 0
EntriesPointToObjects == \A e \in entryInUse : entryObject[e] \in Objects

RefInv ==
  /\ ObTypeOK
  /\ RefCountExact
  /\ InUseIffCounted
  /\ EntriesPointToObjects

LEMMA HandlesOfFinite ==
  ASSUME ObTypeOK, NEW o
  PROVE  IsFiniteSet(HandlesOf(o)) /\ Cardinality(HandlesOf(o)) \in Nat
<1>1. IsFiniteSet(1 .. MaxHandles)
  BY ObConstants, FS_Interval
<1>2. HandlesOf(o) \subseteq 1 .. MaxHandles
  BY DEF HandlesOf, ObTypeOK, Entries
<1> QED BY <1>1, <1>2, FS_Subset, FS_CardinalityType

(* Handles and held pointers reach only headers that are in use. *)
LEMMA RefInvNoDangling == RefInv => NoDanglingReference
<1> SUFFICES ASSUME RefInv PROVE NoDanglingReference
  OBVIOUS
<1>1. ASSUME NEW e \in entryInUse PROVE entryObject[e] \in objectInUse
  <2>1. e \in HandlesOf(entryObject[e]) /\ entryObject[e] \in Objects
    BY DEF HandlesOf, RefInv, EntriesPointToObjects
  <2>2. Cardinality(HandlesOf(entryObject[e])) > 0
    BY <2>1, HandlesOfFinite, FS_EmptySet DEF RefInv
  <2>3. refCount[entryObject[e]] > 0
    BY <2>1, <2>2, HandlesOfFinite DEF RefInv, RefCountExact, ObTypeOK
  <2> QED BY <2>1, <2>3 DEF RefInv, InUseIffCounted
<1>2. ASSUME NEW o \in HeldObjects PROVE o \in objectInUse
  <2>1. o \in Objects /\ held[o] > 0
    BY DEF HeldObjects
  <2>2. refCount[o] > 0
    BY <2>1, HandlesOfFinite DEF RefInv, RefCountExact, ObTypeOK
  <2> QED BY <2>1, <2>2 DEF RefInv, InUseIffCounted
<1> QED
  BY <1>1, <1>2 DEF NoDanglingReference, RefInv, InUseIffCounted

LEMMA RefInvInit == ObInitialize => RefInv
<1> SUFFICES ASSUME ObInitialize PROVE RefInv
  OBVIOUS
<1>1. \A o : HandlesOf(o) = {}
  BY DEF HandlesOf, ObInitialize, ObpZeroHandleTable
<1>2. RefCountExact
  BY <1>1, FS_EmptySet DEF RefCountExact, ObInitialize
<1> QED
  BY <1>2, InitTyped DEF RefInv, InUseIffCounted, EntriesPointToObjects,
     ObInitialize, ObpZeroHandleTable

(* What DropReference does to a header somebody refers to. *)
LEMMA DropReferenceEffect ==
  ASSUME ObTypeOK, NEW o \in Objects, refCount[o] > 0, DropReference(o)
  PROVE  /\ refCount' = [refCount EXCEPT ![o] = @ - 1]
         /\ objectInUse' = IF refCount[o] = 1 THEN objectInUse \ {o} ELSE objectInUse
         /\ defaultAccess' = IF refCount[o] = 1 THEN [defaultAccess EXCEPT ![o] = {}]
                                                ELSE defaultAccess
         /\ deleteCount' = IF refCount[o] = 1
                            THEN [deleteCount EXCEPT ![objectId[o]] = @ + 1]
                            ELSE deleteCount
         /\ objectType' = IF refCount[o] = 1 THEN [objectType EXCEPT ![o] = NoType]
                                             ELSE objectType
         /\ UNCHANGED <<nextObjectId, objectId>>
BY DEF DropReference, IsLastReference, ObTypeOK

(* Calls that move no handle and no count keep the invariant. *)
LEMMA CountsUnchanged ==
  ASSUME RefInv, ObTypeOK',
         UNCHANGED <<objectInUse, refCount, entryInUse, entryObject, held>>
  PROVE  RefInv'
<1>1. \A o : HandlesOf(o)' = HandlesOf(o)
  BY DEF HandlesOf
<1> QED
  BY <1>1 DEF RefInv, RefCountExact, InUseIffCounted, EntriesPointToObjects

LEMMA RefInvNext == RefInv /\ [ObNext]_obVars => RefInv'
<1> SUFFICES ASSUME RefInv, [ObNext]_obVars PROVE RefInv'
  OBVIOUS
<1>0. ObTypeOK /\ ObTypeOK'
  BY NextTyped DEF RefInv
<1>f. ASSUME NEW s, Fail(s) PROVE RefInv'
  BY <1>f, <1>0, CountsUnchanged DEF Fail, objectVars, entryVars
<1>1. CASE ObCreateType
  BY <1>1, <1>f, <1>0, CountsUnchanged DEF ObCreateType, objectVars, entryVars
<1>2. ASSUME NEW t \in typeInUse, NEW mask \in SUBSET Rights,
             ObCreateObject(t, mask), ~ Fail("INIT_FAILED")
      PROVE  RefInv'
  <2>1. PICK o \in Objects \ objectInUse :
          /\ objectInUse' = objectInUse \cup {o}
          /\ refCount' = [refCount EXCEPT ![o] = 1]
          /\ held' = [held EXCEPT ![o] = 1]
          /\ UNCHANGED <<entryInUse, entryObject>>
    BY <1>2 DEF ObCreateObject, entryVars
  <2>2. \A p : HandlesOf(p)' = HandlesOf(p)
    BY <2>1 DEF HandlesOf
  <2>3. Cardinality(HandlesOf(o)) = 0 /\ held[o] = 0
    <3>1. refCount[o] = 0
      BY <2>1, <1>0 DEF RefInv, InUseIffCounted, ObTypeOK
    <3> QED
      BY <3>1, <1>0, HandlesOfFinite DEF RefInv, RefCountExact, ObTypeOK
  <2>4. RefCountExact'
    BY <2>1, <2>2, <2>3, <1>0 DEF RefInv, RefCountExact, ObTypeOK
  <2> QED
    BY <2>1, <2>4, <1>0 DEF RefInv, InUseIffCounted, EntriesPointToObjects, ObTypeOK
<1>3. ASSUME NEW o \in HeldObjects, NEW access \in SUBSET Rights,
             ObInsertHandle(o, access),
             ~ Fail("ACCESS_DENIED"), ~ Fail("INIT_FAILED")
      PROVE  RefInv'
  <2>1. PICK e \in Entries \ entryInUse :
          /\ entryInUse' = entryInUse \cup {e}
          /\ entryObject' = [entryObject EXCEPT ![e] = o]
    BY <1>3 DEF ObInsertHandle
  <2>2. /\ refCount' = [refCount EXCEPT ![o] = @ + 1]
        /\ UNCHANGED <<objectInUse, held>>
    BY <1>3 DEF ObInsertHandle, AddReference
  <2>3. o \in Objects /\ o \in objectInUse
    BY RefInvNoDangling DEF NoDanglingReference, HeldObjects
  <2>4. /\ HandlesOf(o)' = HandlesOf(o) \cup {e}
        /\ e \notin HandlesOf(o)
        /\ \A p \in Objects \ {o} : HandlesOf(p)' = HandlesOf(p)
    BY <2>1, <2>3, <1>0 DEF HandlesOf, ObTypeOK
  <2>5. Cardinality(HandlesOf(o)') = Cardinality(HandlesOf(o)) + 1
    BY <2>4, <1>0, HandlesOfFinite, FS_AddElement
  <2>6. RefCountExact'
    <3> SUFFICES ASSUME NEW p \in Objects
                 PROVE  refCount'[p] = Cardinality(HandlesOf(p)') + held'[p]
      BY DEF RefCountExact
    <3>1. CASE p = o
      BY <3>1, <2>2, <2>3, <2>5, <1>0, HandlesOfFinite
      DEF RefInv, RefCountExact, ObTypeOK
    <3>2. CASE p # o
      BY <3>2, <2>2, <2>4, <1>0 DEF RefInv, RefCountExact, ObTypeOK
    <3> QED BY <3>1, <3>2
  <2>7. InUseIffCounted'
    <3>1. refCount \in [Objects -> Nat] /\ \A p \in Objects : p \in objectInUse <=> refCount[p] > 0
      BY <1>0 DEF RefInv, InUseIffCounted, ObTypeOK
    <3>2. refCount'[o] = refCount[o] + 1
      BY <2>2, <2>3, <3>1
    <3>3. \A p \in Objects : p # o => refCount'[p] = refCount[p]
      BY <2>2, <3>1
    <3> QED BY <2>2, <2>3, <3>1, <3>2, <3>3 DEF InUseIffCounted
  <2>8. EntriesPointToObjects'
    <3>1. entryObject \in [Entries -> Objects \cup {NoObject}] /\ entryInUse \subseteq Entries
      BY <1>0 DEF ObTypeOK
    <3> QED BY <2>1, <2>3, <3>1 DEF RefInv, EntriesPointToObjects
  <2> QED BY <1>0, <2>6, <2>7, <2>8 DEF RefInv
<1>4. ASSUME NEW v \in UserHandles, NEW desired \in SUBSET Rights,
             NEW expected \in typeInUse \cup {NoType},
             ObReferenceObjectByHandle(v, desired, expected),
             ~ \E s \in Statuses : Fail(s)
      PROVE  RefInv'
  <2>1. PICK e \in entryInUse :
          /\ refCount' = [refCount EXCEPT ![entryObject[e]] = @ + 1]
          /\ held' = [held EXCEPT ![entryObject[e]] = @ + 1]
          /\ UNCHANGED <<entryInUse, entryObject, objectInUse>>
    BY <1>4 DEF ObReferenceObjectByHandle, ObpFindHandleEntry, Statuses,
                AddReference, entryVars
  <2>2. entryObject[e] \in Objects /\ entryObject[e] \in objectInUse
    BY RefInvNoDangling DEF NoDanglingReference, RefInv, EntriesPointToObjects
  <2>3. \A p : HandlesOf(p)' = HandlesOf(p)
    BY <2>1 DEF HandlesOf
  <2>4. RefCountExact'
    <3> SUFFICES ASSUME NEW p \in Objects
                 PROVE  refCount'[p] = Cardinality(HandlesOf(p)') + held'[p]
      BY DEF RefCountExact
    <3>1. Cardinality(HandlesOf(p)') = Cardinality(HandlesOf(p))
      BY <2>3
    <3>2. refCount[p] = Cardinality(HandlesOf(p)) + held[p]
      BY DEF RefInv, RefCountExact
    <3>3. p \in DOMAIN refCount /\ p \in DOMAIN held /\ held[p] \in Nat
      BY <1>0 DEF ObTypeOK
    <3>4. CASE p = entryObject[e]
      BY <3>1, <3>2, <3>3, <3>4, <2>1, <1>0, HandlesOfFinite
    <3>5. CASE p # entryObject[e]
      BY <3>1, <3>2, <3>3, <3>5, <2>1
    <3> QED BY <3>4, <3>5
  <2>5. InUseIffCounted'
    <3> DEFINE o == entryObject[e]
    <3>1. refCount \in [Objects -> Nat] /\ \A p \in Objects : p \in objectInUse <=> refCount[p] > 0
      BY <1>0 DEF RefInv, InUseIffCounted, ObTypeOK
    <3>2. refCount'[o] = refCount[o] + 1
      BY <2>1, <2>2, <3>1
    <3>3. \A p \in Objects : p # o => refCount'[p] = refCount[p]
      BY <2>1, <3>1
    <3>4. o \in Objects /\ o \in objectInUse /\ objectInUse' = objectInUse
      BY <2>1, <2>2
    <3> HIDE DEF o
    <3> QED BY <3>1, <3>2, <3>3, <3>4 DEF InUseIffCounted
  <2>6. EntriesPointToObjects'
    BY <2>1 DEF RefInv, EntriesPointToObjects
  <2> QED BY <1>0, <2>4, <2>5, <2>6 DEF RefInv
<1>5. ASSUME NEW o \in HeldObjects, ObDereferenceObject(o)
      PROVE  RefInv'
  <2>1. o \in Objects /\ o \in objectInUse /\ refCount[o] > 0 /\ held[o] > 0
    BY RefInvNoDangling DEF NoDanglingReference, HeldObjects
  <2>2. /\ refCount' = [refCount EXCEPT ![o] = @ - 1]
        /\ objectInUse' = IF refCount[o] = 1 THEN objectInUse \ {o} ELSE objectInUse
    BY <1>5, <2>1, <1>0, DropReferenceEffect DEF ObDereferenceObject
  <2>3. /\ held' = [held EXCEPT ![o] = @ - 1]
        /\ UNCHANGED <<entryInUse, entryObject>>
    BY <1>5 DEF ObDereferenceObject, entryVars
  <2>4. \A p : HandlesOf(p)' = HandlesOf(p)
    BY <2>3 DEF HandlesOf
  <2>5. RefCountExact'
    <3> SUFFICES ASSUME NEW p \in Objects
                 PROVE  refCount'[p] = Cardinality(HandlesOf(p)') + held'[p]
      BY DEF RefCountExact
    <3>1. Cardinality(HandlesOf(p)') = Cardinality(HandlesOf(p)) /\ Cardinality(HandlesOf(p)) \in Nat
      BY <2>4, <1>0, HandlesOfFinite
    <3>2. refCount[p] = Cardinality(HandlesOf(p)) + held[p]
      BY DEF RefInv, RefCountExact
    <3>3. p \in DOMAIN refCount /\ p \in DOMAIN held /\ held[p] \in Nat
      BY <1>0 DEF ObTypeOK
    <3>4. CASE p = o
      BY <3>1, <3>2, <3>3, <3>4, <2>2, <2>3
    <3>5. CASE p # o
      BY <3>1, <3>2, <3>3, <3>5, <2>2, <2>3
    <3> QED BY <3>4, <3>5
  <2>6. InUseIffCounted'
    <3>1. refCount \in [Objects -> Nat] /\ \A p \in Objects : p \in objectInUse <=> refCount[p] > 0
      BY <1>0 DEF RefInv, InUseIffCounted, ObTypeOK
    <3>2. refCount'[o] = refCount[o] - 1 /\ (o \in objectInUse' <=> refCount[o] # 1)
      BY <2>1, <2>2, <3>1
    <3>3. \A p \in Objects : p # o =>
            refCount'[p] = refCount[p] /\ (p \in objectInUse' <=> p \in objectInUse)
      BY <2>2, <3>1
    <3> QED BY <2>1, <3>1, <3>2, <3>3 DEF InUseIffCounted
  <2>7. EntriesPointToObjects'
    BY <2>3 DEF RefInv, EntriesPointToObjects
  <2> QED BY <1>0, <2>5, <2>6, <2>7 DEF RefInv
<1>6. ASSUME NEW v \in UserHandles, ObCloseHandle(v),
             ~ \E s \in Statuses : Fail(s)
      PROVE  RefInv'
  <2>1. PICK e \in entryInUse :
          /\ DropReference(entryObject[e])
          /\ entryInUse' = entryInUse \ {e}
          /\ entryObject' = [entryObject EXCEPT ![e] = NoObject]
          /\ held' = held
    BY <1>6 DEF ObCloseHandle, ObpFindHandleEntry, Statuses
  <2>2. PICK o \in Objects :
          o = entryObject[e] /\ o \in objectInUse /\ refCount[o] > 0
    BY RefInvNoDangling DEF NoDanglingReference, RefInv, EntriesPointToObjects
  <2>3. /\ refCount' = [refCount EXCEPT ![o] = @ - 1]
        /\ objectInUse' = IF refCount[o] = 1 THEN objectInUse \ {o} ELSE objectInUse
    BY <2>1, <2>2, <1>0, DropReferenceEffect
  <2>4. /\ HandlesOf(o)' = HandlesOf(o) \ {e}
        /\ e \in HandlesOf(o)
        /\ \A p \in Objects \ {o} : HandlesOf(p)' = HandlesOf(p)
    BY <2>1, <2>2, <1>0 DEF HandlesOf, ObTypeOK, Objects, NoObject
  <2>5. Cardinality(HandlesOf(o)') = Cardinality(HandlesOf(o)) - 1
    BY <2>4, <1>0, HandlesOfFinite, FS_RemoveElement
  <2>6. RefCountExact'
    <3> SUFFICES ASSUME NEW p \in Objects
                 PROVE  refCount'[p] = Cardinality(HandlesOf(p)') + held'[p]
      BY DEF RefCountExact
    <3>1. CASE p = o
      <4>1. refCount[o] = Cardinality(HandlesOf(o)) + held[o]
        BY <2>2 DEF RefInv, RefCountExact
      <4>2. refCount'[o] = refCount[o] - 1 /\ held'[o] = held[o] /\ held[o] \in Nat
        BY <2>1, <2>2, <2>3, <1>0 DEF ObTypeOK
      <4>3. Cardinality(HandlesOf(o)) \in Nat
        BY <2>2, <1>0, HandlesOfFinite
      <4> QED BY <3>1, <2>5, <4>1, <4>2, <4>3
    <3>2. CASE p # o
      BY <3>2, <2>1, <2>3, <2>4, <1>0 DEF RefInv, RefCountExact, ObTypeOK
    <3> QED BY <3>1, <3>2
  <2>7. InUseIffCounted'
    <3>1. refCount \in [Objects -> Nat] /\ \A p \in Objects : p \in objectInUse <=> refCount[p] > 0
      BY <1>0 DEF RefInv, InUseIffCounted, ObTypeOK
    <3>2. refCount'[o] = refCount[o] - 1 /\ (o \in objectInUse' <=> refCount[o] # 1)
      BY <2>2, <2>3, <3>1
    <3>3. \A p \in Objects : p # o =>
            refCount'[p] = refCount[p] /\ (p \in objectInUse' <=> p \in objectInUse)
      BY <2>3, <3>1
    <3> QED BY <2>2, <3>1, <3>2, <3>3 DEF InUseIffCounted
  <2>8. EntriesPointToObjects'
    <3>1. entryObject \in [Entries -> Objects \cup {NoObject}] /\ entryInUse \subseteq Entries
      BY <1>0 DEF ObTypeOK
    <3> QED BY <2>1, <3>1 DEF RefInv, EntriesPointToObjects
  <2> QED BY <1>0, <2>6, <2>7, <2>8 DEF RefInv
<1>7. CASE UNCHANGED obVars
  BY <1>7, <1>0, CountsUnchanged DEF obVars, objectVars, entryVars
<1> QED
  BY <1>1, <1>2, <1>3, <1>4, <1>5, <1>6, <1>7, <1>f DEF ObNext

(* The reference count of every object is exact in every reachable state.  *)
THEOREM RefCountsAreExact == ObSpec => []RefCountExact
<1>1. RefInv => RefCountExact
  BY DEF RefInv
<1> QED BY <1>1, RefInvInit, RefInvNext, PTL DEF ObSpec

(* No open handle and no pointer kernel code holds ever refers to a header *)
(* that has returned to the pool.                                          *)
THEOREM ReferencesNeverDangle == ObSpec => []NoDanglingReference
BY RefInvInit, RefInvNext, RefInvNoDangling, PTL DEF ObSpec
-----------------------------------------------------------------------------
(***************************************************************************)
(* What one call does to the header pool and to the handle table.  ObStep  *)
(* also allows a call to fail for a reason of its caller's, so the lemmas  *)
(* hold for the subsystems built on the object manager.                    *)
(***************************************************************************)
ObStep == [ObNext]_obVars \/ \E s \in Statuses : Fail(s)

LEMMA RefInvStep == RefInv /\ ObStep => RefInv'
<1>1. ASSUME RefInv, NEW s \in Statuses, Fail(s) PROVE RefInv'
  <2>1. ObTypeOK'
    BY <1>1, FailTyped DEF RefInv
  <2> QED BY <1>1, <2>1, CountsUnchanged DEF Fail, objectVars, entryVars
<1> QED BY <1>1, RefInvNext DEF ObStep

CreatesObject(o, t) ==
  /\ objectInUse' = objectInUse \cup {o}
  /\ objectId' = [objectId EXCEPT ![o] = nextObjectId]
  /\ objectType' = [objectType EXCEPT ![o] = t]
  /\ nextObjectId <= MaxCreates /\ nextObjectId' = nextObjectId + 1
  /\ UNCHANGED deleteCount

FreesObject(o) ==
  /\ objectInUse' = objectInUse \ {o}
  /\ deleteCount' = [deleteCount EXCEPT ![objectId[o]] = @ + 1]
  /\ objectType' = [objectType EXCEPT ![o] = NoType]
  /\ UNCHANGED <<objectId, nextObjectId>>

PoolUnchanged ==
  UNCHANGED <<objectInUse, objectId, objectType, nextObjectId, deleteCount>>

(* Giving back a reference frees the header or leaves the pool alone. *)
LEMMA DropReferencePool ==
  ASSUME RefInv, NEW o \in objectInUse, DropReference(o)
  PROVE  PoolUnchanged \/ FreesObject(o)
<1>1. ObTypeOK /\ o \in Objects /\ refCount[o] > 0
  BY DEF RefInv, ObTypeOK, InUseIffCounted
<1> QED
  BY <1>1, DropReferenceEffect DEF PoolUnchanged, FreesObject

(* A call creates one object in a free slot, frees one that is in use, or  *)
(* leaves the pool of headers alone.                                       *)
LEMMA PoolStep ==
  ASSUME RefInv, ObStep
  PROVE  \/ PoolUnchanged
         \/ \E o \in Objects \ objectInUse, t \in Types : CreatesObject(o, t)
         \/ \E o \in objectInUse : FreesObject(o)
<1>f. ASSUME NEW s, Fail(s) PROVE PoolUnchanged
  BY <1>f DEF Fail, objectVars, PoolUnchanged
<1>1. CASE ObCreateType
  BY <1>1, <1>f DEF ObCreateType, objectVars, PoolUnchanged
<1>2. ASSUME NEW t \in typeInUse, NEW mask \in SUBSET Rights,
             ObCreateObject(t, mask), ~ PoolUnchanged
      PROVE  \E o \in Objects \ objectInUse : t \in Types /\ CreatesObject(o, t)
  BY <1>2, <1>f DEF ObCreateObject, CreatesObject, RefInv, ObTypeOK
<1>3. ASSUME NEW o \in HeldObjects, NEW access \in SUBSET Rights,
             ObInsertHandle(o, access)
      PROVE  PoolUnchanged
  BY <1>3, <1>f DEF ObInsertHandle, PoolUnchanged
<1>4. ASSUME NEW v \in UserHandles, NEW desired \in SUBSET Rights,
             NEW expected \in typeInUse \cup {NoType},
             ObReferenceObjectByHandle(v, desired, expected)
      PROVE  PoolUnchanged
  BY <1>4, <1>f DEF ObReferenceObjectByHandle, PoolUnchanged
<1>5. ASSUME NEW o \in HeldObjects, ObDereferenceObject(o)
      PROVE  PoolUnchanged \/ (o \in objectInUse /\ FreesObject(o))
  BY <1>5, RefInvNoDangling, DropReferencePool
  DEF ObDereferenceObject, NoDanglingReference
<1>6. ASSUME NEW v \in UserHandles, ObCloseHandle(v), ~ PoolUnchanged
      PROVE  \E o \in objectInUse : FreesObject(o)
  <2>1. PICK e \in entryInUse : DropReference(entryObject[e])
    BY <1>6, <1>f DEF ObCloseHandle, ObpFindHandleEntry
  <2> QED
    BY <1>6, <2>1, RefInvNoDangling, DropReferencePool DEF NoDanglingReference
<1>7. CASE UNCHANGED obVars
  BY <1>7 DEF obVars, objectVars, PoolUnchanged
<1> QED
  BY <1>1, <1>2, <1>3, <1>4, <1>5, <1>6, <1>7, <1>f DEF ObStep, ObNext

OpensEntry(e) ==
  /\ entryInUse' = entryInUse \cup {e}
  /\ \E o \in objectInUse : entryObject' = [entryObject EXCEPT ![e] = o]
  /\ entryHandle' = [entryHandle EXCEPT ![e] = nextHandle]
  /\ nextHandle' = NextHandleValue
  /\ inserts' = inserts + 1

ClosesEntry(e) ==
  /\ entryInUse' = entryInUse \ {e}
  /\ entryObject' = [entryObject EXCEPT ![e] = NoObject]
  /\ entryHandle' = [entryHandle EXCEPT ![e] = 0]
  /\ UNCHANGED <<nextHandle, inserts>>

TableUnchanged ==
  UNCHANGED <<entryInUse, entryObject, entryHandle, nextHandle, inserts>>

(* A call opens one free entry, closes one that is in use, or leaves the   *)
(* handle table alone.                                                     *)
LEMMA TableStep ==
  ASSUME RefInv, ObStep
  PROVE  \/ TableUnchanged
         \/ \E e \in Entries \ entryInUse : OpensEntry(e)
         \/ \E e \in entryInUse : ClosesEntry(e)
<1>f. ASSUME NEW s, Fail(s) PROVE TableUnchanged
  BY <1>f DEF Fail, entryVars, TableUnchanged
<1>1. CASE ObCreateType
  BY <1>1, <1>f DEF ObCreateType, entryVars, TableUnchanged
<1>2. ASSUME NEW t \in typeInUse, NEW mask \in SUBSET Rights, ObCreateObject(t, mask)
      PROVE  TableUnchanged
  BY <1>2, <1>f DEF ObCreateObject, entryVars, TableUnchanged
<1>3. ASSUME NEW o \in HeldObjects, NEW access \in SUBSET Rights,
             ObInsertHandle(o, access), ~ TableUnchanged
      PROVE  \E e \in Entries \ entryInUse : OpensEntry(e)
  <2>1. o \in objectInUse
    BY RefInvNoDangling DEF NoDanglingReference
  <2> QED
    BY <1>3, <1>f, <2>1 DEF ObInsertHandle, OpensEntry
<1>4. ASSUME NEW v \in UserHandles, NEW desired \in SUBSET Rights,
             NEW expected \in typeInUse \cup {NoType},
             ObReferenceObjectByHandle(v, desired, expected)
      PROVE  TableUnchanged
  BY <1>4, <1>f DEF ObReferenceObjectByHandle, entryVars, TableUnchanged
<1>5. ASSUME NEW o \in HeldObjects, ObDereferenceObject(o)
      PROVE  TableUnchanged
  BY <1>5 DEF ObDereferenceObject, entryVars, TableUnchanged
<1>6. ASSUME NEW v \in UserHandles, ObCloseHandle(v), ~ TableUnchanged
      PROVE  \E e \in entryInUse : ClosesEntry(e)
  BY <1>6, <1>f DEF ObCloseHandle, ObpFindHandleEntry, ClosesEntry
<1>7. CASE UNCHANGED obVars
  BY <1>7 DEF obVars, entryVars, TableUnchanged
<1> QED
  BY <1>1, <1>2, <1>3, <1>4, <1>5, <1>6, <1>7, <1>f DEF ObStep, ObNext
-----------------------------------------------------------------------------
(* The step HandleKeepsItsObject asks for. *)
OpenHandlesKept ==
  \A e \in entryInUse \cap entryInUse' :
    /\ entryObject'[e] = entryObject[e]
    /\ objectId'[entryObject[e]] = objectId[entryObject[e]]

LEMMA HandlesKeptStep ==
  ASSUME RefInv, ObStep
  PROVE  OpenHandlesKept
<1> SUFFICES ASSUME NEW e \in entryInUse \cap entryInUse'
             PROVE  /\ entryObject'[e] = entryObject[e]
                    /\ objectId'[entryObject[e]] = objectId[entryObject[e]]
  BY DEF OpenHandlesKept
<1>1. entryObject'[e] = entryObject[e]
  BY TableStep DEF TableUnchanged, OpensEntry, ClosesEntry, RefInv, ObTypeOK
<1>2. entryObject[e] \in objectInUse
  BY RefInvNoDangling DEF NoDanglingReference
<1>3. objectId'[entryObject[e]] = objectId[entryObject[e]]
  BY <1>2, PoolStep DEF PoolUnchanged, CreatesObject, FreesObject, RefInv, ObTypeOK
<1> QED BY <1>1, <1>3

(* A handle denotes the same object from the call that opened it to the    *)
(* call that closes it, for every size of the pools: ObCreateObject takes  *)
(* only slots that no entry points to.                                     *)
THEOREM HandlesKeepTheirObject == ObSpec => HandleKeepsItsObject
<1>1. RefInv /\ [ObNext]_obVars => [OpenHandlesKept]_obVars
  BY HandlesKeptStep DEF ObStep
<1> QED
  BY <1>1, RefInvInit, RefInvNext, PTL
  DEF ObSpec, HandleKeepsItsObject, OpenHandlesKept
-----------------------------------------------------------------------------
(***************************************************************************)
(* Deletion.  An id is given once, so an id that has been deleted cannot   *)
(* be that of a live header, and freeing a header deletes a new id.        *)
(***************************************************************************)
IdsGiven == \A o \in objectInUse : objectId[o] \in 1 .. nextObjectId - 1
IdsDistinct == \A o, p \in objectInUse : objectId[o] = objectId[p] => o = p

DeleteInv == RefInv /\ IdsGiven /\ IdsDistinct /\ DeletedExactlyOnce

LEMMA DeleteInvInit == ObInitialize => DeleteInv
BY RefInvInit DEF ObInitialize, DeleteInv, IdsGiven, IdsDistinct,
   DeletedExactlyOnce, LiveIds

LEMMA DeleteInvStep == DeleteInv /\ ObStep => DeleteInv'
<1> SUFFICES ASSUME DeleteInv, ObStep PROVE DeleteInv'
  OBVIOUS
<1>0. RefInv /\ RefInv' /\ ObTypeOK
  BY RefInvStep DEF DeleteInv, RefInv
<1>1. CASE PoolUnchanged
  BY <1>1, <1>0 DEF PoolUnchanged, DeleteInv, IdsGiven, IdsDistinct,
     DeletedExactlyOnce, LiveIds
<1>2. ASSUME NEW o \in Objects \ objectInUse, NEW t, CreatesObject(o, t)
      PROVE  DeleteInv'
  <2>1. IdsGiven' /\ IdsDistinct'
    BY <1>2, <1>0 DEF CreatesObject, DeleteInv, IdsGiven, IdsDistinct, ObTypeOK
  <2>2. LiveIds' = LiveIds \cup {nextObjectId}
    BY <1>2, <1>0 DEF CreatesObject, LiveIds, ObTypeOK
  <2>3. DeletedExactlyOnce'
    BY <1>2, <1>0, <2>2, ObConstants
    DEF CreatesObject, DeleteInv, DeletedExactlyOnce, ObTypeOK
  <2> QED BY <2>1, <2>3, <1>0 DEF DeleteInv
<1>3. ASSUME NEW o \in objectInUse, FreesObject(o)
      PROVE  DeleteInv'
  <2>1. IdsGiven' /\ IdsDistinct'
    BY <1>3 DEF FreesObject, DeleteInv, IdsGiven, IdsDistinct
  <2>2. LiveIds' = LiveIds \ {objectId[o]}
    BY <1>3 DEF FreesObject, LiveIds, DeleteInv, IdsDistinct
  <2>3. /\ objectId[o] \in 1 .. nextObjectId - 1
        /\ objectId[o] \in LiveIds
        /\ objectId[o] \in 1 .. MaxCreates
    BY <1>0, ObConstants DEF DeleteInv, IdsGiven, LiveIds, ObTypeOK
  <2>4. DeletedExactlyOnce'
    <3> SUFFICES ASSUME NEW i \in 1 .. MaxCreates
                 PROVE  deleteCount'[i] = IF i < nextObjectId' /\ i \notin LiveIds'
                                          THEN 1 ELSE 0
      BY DEF DeletedExactlyOnce
    <3>1. CASE i = objectId[o]
      BY <3>1, <1>3, <1>0, <2>2, <2>3
      DEF FreesObject, DeleteInv, DeletedExactlyOnce, ObTypeOK
    <3>2. CASE i # objectId[o]
      BY <3>2, <1>3, <1>0, <2>2 DEF FreesObject, DeleteInv, DeletedExactlyOnce, ObTypeOK
    <3> QED BY <3>1, <3>2
  <2> QED BY <2>1, <2>4, <1>0 DEF DeleteInv
<1> QED BY <1>0, <1>1, <1>2, <1>3, PoolStep

(* The delete routine of every object ever created runs exactly once, at   *)
(* the moment its header returns to the pool, and never while it is live.  *)
THEOREM ObjectsDeletedOnce == ObSpec => []DeletedExactlyOnce
<1>1. DeleteInv /\ [ObNext]_obVars => DeleteInv'
  BY DeleteInvStep DEF ObStep
<1>2. DeleteInv => DeletedExactlyOnce
  BY DEF DeleteInv
<1> QED BY <1>1, <1>2, DeleteInvInit, PTL DEF ObSpec
-----------------------------------------------------------------------------
(***************************************************************************)
(* Handle values.  Until it wraps, NextHandle is a step above every value  *)
(* it has given, so the values in the table are distinct multiples of the  *)
(* step that were issued in order.                                         *)
(***************************************************************************)
NextHandleFresh ==
  HandleStep * (inserts + 1) < HandleModulus => nextHandle = HandleStep * (inserts + 1)
HandlesIssued == NotWrapped => LiveHandles \subseteq IssuedHandles

HandleInv == RefInv /\ NextHandleFresh /\ HandlesIssued /\ HandleValuesUnique

LEMMA SmallMod ==
  ASSUME NEW x \in Nat, NEW m \in Nat, x < m
  PROVE  x % m = x
OBVIOUS

LEMMA HandleInvInit == ObInitialize => HandleInv
BY RefInvInit DEF ObInitialize, ObpZeroHandleTable, HandleInv, NextHandleFresh,
   HandlesIssued, HandleValuesUnique, LiveHandles, HandleStep

(* An insert issues a value above all that were issued before. *)
LEMMA OpensFreshHandle ==
  ASSUME HandleInv, NEW e \in Entries \ entryInUse, OpensEntry(e), NotWrapped'
  PROVE  /\ NotWrapped
         /\ nextHandle = HandleStep * (inserts + 1)
         /\ nextHandle \notin IssuedHandles
         /\ IssuedHandles' = IssuedHandles \cup {nextHandle}
         /\ LiveHandles' = LiveHandles \cup {nextHandle}
<1>1. inserts \in Nat /\ HandleModulus \in Nat /\ inserts' = inserts + 1
  BY ObConstants DEF HandleInv, RefInv, ObTypeOK, OpensEntry
<1>2. NotWrapped /\ nextHandle = HandleStep * (inserts + 1)
  BY <1>1 DEF NotWrapped, HandleInv, NextHandleFresh, HandleStep
<1>3. /\ nextHandle \notin IssuedHandles
      /\ IssuedHandles' = IssuedHandles \cup {nextHandle}
  BY <1>1, <1>2 DEF IssuedHandles, HandleStep
<1>4. LiveHandles' = LiveHandles \cup {nextHandle}
  BY DEF LiveHandles, OpensEntry, HandleInv, RefInv, ObTypeOK
<1> QED BY <1>2, <1>3, <1>4

LEMMA HandleInvStep == HandleInv /\ ObStep => HandleInv'
<1> SUFFICES ASSUME HandleInv, ObStep PROVE HandleInv'
  OBVIOUS
<1>0. RefInv /\ RefInv' /\ ObTypeOK
  BY RefInvStep DEF HandleInv, RefInv
<1>1. CASE TableUnchanged
  BY <1>1, <1>0 DEF TableUnchanged, HandleInv, NextHandleFresh, HandlesIssued,
     HandleValuesUnique, NotWrapped, LiveHandles, IssuedHandles
<1>2. ASSUME NEW e \in Entries \ entryInUse, OpensEntry(e)
      PROVE  HandleInv'
  <2>1. NextHandleFresh'
    <3> SUFFICES ASSUME HandleStep * (inserts' + 1) < HandleModulus
                 PROVE  nextHandle' = HandleStep * (inserts' + 1)
      BY DEF NextHandleFresh
    <3>1. inserts \in Nat /\ HandleModulus \in Nat /\ inserts' = inserts + 1
      BY <1>0, <1>2, ObConstants DEF ObTypeOK, OpensEntry
    <3>2. nextHandle = HandleStep * (inserts + 1)
      BY <3>1 DEF HandleStep, HandleInv, NextHandleFresh
    <3>3. nextHandle + HandleStep = HandleStep * (inserts' + 1)
      BY <3>1, <3>2 DEF HandleStep
    <3>4. (nextHandle + HandleStep) % HandleModulus = nextHandle + HandleStep
      BY <3>1, <3>3, SmallMod DEF HandleStep
    <3> QED
      BY <1>2, <3>3, <3>4 DEF OpensEntry, NextHandleValue
  <2>2. HandlesIssued'
    BY <1>2, OpensFreshHandle DEF HandlesIssued, HandleInv
  <2>3. HandleValuesUnique'
    <3> SUFFICES ASSUME NotWrapped'
                 PROVE  /\ \A f \in entryInUse' : entryHandle'[f] # 0
                        /\ \A f, g \in entryInUse' : entryHandle'[f] = entryHandle'[g] => f = g
      BY DEF HandleValuesUnique
    <3>1. /\ NotWrapped /\ nextHandle \notin IssuedHandles
          /\ nextHandle = HandleStep * (inserts + 1)
      BY <1>2, OpensFreshHandle
    <3>2. \A f \in entryInUse : entryHandle[f] \in IssuedHandles
      BY <3>1 DEF HandleInv, HandlesIssued, LiveHandles
    <3>3. nextHandle # 0
      BY <3>1, <1>0 DEF HandleStep, ObTypeOK
    <3> QED
      BY <1>2, <1>0, <3>1, <3>2, <3>3
      DEF OpensEntry, HandleInv, HandleValuesUnique, ObTypeOK
  <2> QED BY <2>1, <2>2, <2>3, <1>0 DEF HandleInv
<1>3. ASSUME NEW e \in entryInUse, ClosesEntry(e)
      PROVE  HandleInv'
  <2>1. NextHandleFresh' /\ (NotWrapped' => NotWrapped) /\ IssuedHandles' = IssuedHandles
    BY <1>3 DEF ClosesEntry, HandleInv, NextHandleFresh, NotWrapped, IssuedHandles
  <2>2. \A f \in entryInUse' : f \in entryInUse /\ entryHandle'[f] = entryHandle[f]
    BY <1>3, <1>0 DEF ClosesEntry, ObTypeOK
  <2>3. HandlesIssued'
    BY <2>1, <2>2 DEF HandleInv, HandlesIssued, LiveHandles
  <2>4. HandleValuesUnique'
    BY <2>1, <2>2 DEF HandleInv, HandleValuesUnique
  <2> QED BY <2>1, <2>3, <2>4, <1>0 DEF HandleInv
<1> QED BY <1>0, <1>1, <1>2, <1>3, TableStep

(* Until NextHandle wraps, two open entries never share a handle value and *)
(* none has the value 0 that ObCloseHandle refuses.                        *)
THEOREM HandlesAreUnique == ObSpec => []HandleValuesUnique
<1>1. HandleInv /\ [ObNext]_obVars => HandleInv'
  BY HandleInvStep DEF ObStep
<1>2. HandleInv => HandleValuesUnique
  BY DEF HandleInv
<1> QED BY <1>1, <1>2, HandleInvInit, PTL DEF ObSpec

(* The step ClosedStaysClosed asks for. *)
NothingReopened == NotWrapped' => IssuedHandles \cap LiveHandles' \subseteq LiveHandles

LEMMA NothingReopenedStep ==
  ASSUME HandleInv, ObStep
  PROVE  NothingReopened
<1>1. CASE TableUnchanged
  BY <1>1 DEF TableUnchanged, NothingReopened, LiveHandles
<1>2. ASSUME NEW e \in Entries \ entryInUse, OpensEntry(e)
      PROVE  NothingReopened
  BY <1>2, OpensFreshHandle DEF NothingReopened
<1>3. ASSUME NEW e \in entryInUse, ClosesEntry(e)
      PROVE  NothingReopened
  BY <1>3 DEF ClosesEntry, NothingReopened, LiveHandles, HandleInv, RefInv, ObTypeOK
<1> QED BY <1>1, <1>2, <1>3, TableStep DEF HandleInv

(* A handle value that was closed is not valid again before NextHandle     *)
(* wraps, however the entries of the table are reused.                     *)
THEOREM ClosedHandlesStayClosed == ObSpec => ClosedStaysClosed
<1>1. HandleInv /\ [ObNext]_obVars => HandleInv'
  BY HandleInvStep DEF ObStep
<1>2. HandleInv /\ [ObNext]_obVars => [NothingReopened]_obVars
  BY NothingReopenedStep DEF ObStep
<1> QED
  BY <1>1, <1>2, HandleInvInit, PTL DEF ObSpec, ClosedStaysClosed, NothingReopened
=============================================================================
