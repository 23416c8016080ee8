------------------------------- MODULE IoFile -------------------------------
(***************************************************************************)
(* The file objects of kernel/io/init.c on top of the object manager.  A   *)
(* call of the I/O manager is a sequence of object manager operations,     *)
(* done one at a time here; nothing else runs until the call returns.      *)
(* KeSyscall composes these calls with those of the other subsystems, so   *)
(* the object pool and the handle table can be full, and the header of a   *)
(* deleted file can come back as some other object.                        *)
(*                                                                         *)
(* A boot file is its path and its size; file data is the index of the     *)
(* boot file.  File slot s is gIoFilePool[s - 1].                          *)
(***************************************************************************)
EXTENDS ObManager, Sequences

CONSTANTS
  MaxFiles,      \* IO_MAX_FILE_OBJECTS
  MaxBootFiles,  \* IO_MAX_BOOT_FILES
  Paths,         \* paths that are opened
  InitPath,      \* "\\System\\init.kpe"
  OtherPaths,    \* paths that other kernel code registers
  FileSize,      \* the size of the boot file of each path
  ImageMax       \* IO_SPAWN_IMAGE_MAX, also PS_IMAGE_MAX_SIZE

ASSUME IoConstants ==
  /\ {MaxFiles, MaxBootFiles, ImageMax} \subseteq Nat \ {0}
  /\ InitPath \in Paths /\ OtherPaths \subseteq Paths /\ FileSize \in [Paths -> Nat \ {0}]
  /\ Rights = {1, 2, 4}

FileType == 2        \* IoInitialize creates the second type, after MmInitialize
ReadAccess == {1}    \* IO_FILE_ACCESS_READ
FileAccessAll == {1, 2, 4}
Slots     == 1 .. MaxFiles
NoSlot    == 0
NoFile    == 0

VARIABLES
  bootFiles,   \* gIoBootFiles, in order
  fileInUse,   \* slots with gIoFileInUse set
  fileHeader,  \* Header and Data of each file slot
  fileData,
  call,        \* the call in progress: where it is, and its local variables
  opened       \* ghost: which boot file each open handle was opened on

fileVars == <<fileInUse, fileHeader, fileData>>
ioVars   == <<obVars, bootFiles, fileVars, call, opened>>

Idle == [step |-> "idle", slot |-> NoSlot, object |-> NoObject, handle |-> 0,
         path |-> "", file |-> NoFile, access |-> {}, size |-> 0]
At(step) == call.step = step

(* Before IoInitialize: no type exists and no boot file is known. *)
IoInit ==
  /\ ObInitialize
  /\ bootFiles = <<>>
  /\ fileInUse = {}
  /\ fileHeader = [s \in Slots |-> NoObject]
  /\ fileData = [s \in Slots |-> NoFile]
  /\ call = [Idle EXCEPT !.step = "boot"]
  /\ opened = [v \in HandleValues |-> NoFile]

BootFile(p) == [path |-> p, size |-> FileSize[p]]

(* The init image is registered if the loader found one. *)
IoInitialize ==
  /\ At("boot") /\ typeInUse = 1 .. FileType - 1
  /\ ObCreateType
  /\ bootFiles' \in {<<>>, <<BootFile(InitPath)>>}
  /\ UNCHANGED <<fileVars, call, opened>>

(* Kernel code may register more files while it initialises.  A path that  *)
(* is too long is refused like a full table.                               *)
IoRegisterBootFile(p) ==
  /\ At("boot") /\ FileType \in typeInUse
  /\ Len(bootFiles) < MaxBootFiles
  /\ bootFiles' = Append(bootFiles, BootFile(p))
  /\ UNCHANGED <<obVars, fileVars, call, opened>>

(* IopFsFatLookupFile: the first boot file with the path, or none. *)
IopFsFatLookupFile(p) ==
  LET found == {i \in DOMAIN bootFiles : bootFiles[i].path = p}
  IN  IF found = {} THEN NoFile ELSE CHOOSE i \in found : \A j \in found : i <= j

IopFindFileByHeader(o) == {s \in fileInUse : fileHeader[s] = o}

(* IopDeleteFileObject, run by the object manager for a file whose last    *)
(* reference goes.                                                         *)
KeepFileSlot(o) == UNCHANGED fileVars        \* mutant: the slot stays in use
IopDeleteFileObject(o) ==
  /\ fileInUse' = fileInUse \ IopFindFileByHeader(o)
  /\ fileHeader' = [s \in Slots |-> IF s \in IopFindFileByHeader(o) THEN NoObject ELSE fileHeader[s]]
  /\ fileData' = [s \in Slots |-> IF s \in IopFindFileByHeader(o) THEN NoFile ELSE fileData[s]]
RunDeleteRoutine ==
  LET gone == {o \in objectInUse \ objectInUse' : objectType[o] = FileType}
  IN  IF gone = {} THEN UNCHANGED fileVars ELSE \E o \in gone : IopDeleteFileObject(o)

-----------------------------------------------------------------------------
(* IoOpenPath, first IopAllocateFileSlot. *)
IoOpenPath(p, access) ==
  /\ At("idle")
  /\ access \cap FileAccessAll # {}
  /\ nextObjectId <= MaxCreates /\ inserts < MaxInserts        \* bounds
  /\ UNCHANGED <<bootFiles, opened>>
  /\ \/ /\ Slots \ fileInUse = {}
        /\ Fail("INIT_FAILED")
        /\ UNCHANGED <<fileVars, call>>
     \/ \E s \in Slots \ fileInUse :
          /\ IsFirst(s, Slots \ fileInUse)
          /\ fileInUse' = fileInUse \cup {s}
          /\ fileHeader' = [fileHeader EXCEPT ![s] = NoObject]
          /\ fileData' = [fileData EXCEPT ![s] = NoFile]
          /\ call' = [Idle EXCEPT !.step = "create", !.slot = s, !.path = p, !.access = access]
          /\ UNCHANGED obVars

(* The header ObCreateObject has just made. *)
NewObject == CHOOSE o \in objectInUse' \ objectInUse : TRUE

(* ObCreateObject.  If the pool is full the call returns; the file slot    *)
(* stays in use without a header.                                          *)
OpenCreate ==
  /\ At("create")
  /\ ObCreateObject(FileType, FileAccessAll)
  /\ IF status' = "SUCCESS"
     THEN /\ fileHeader' = [fileHeader EXCEPT ![call.slot] = NewObject]
          /\ call' = [call EXCEPT !.step = "lookup", !.object = NewObject]
     ELSE UNCHANGED fileHeader /\ call' = Idle
  /\ UNCHANGED <<bootFiles, fileInUse, fileData, opened>>

(* IopVfsOpen; then ObInsertHandle, or only the dereference. *)
IopVfsOpen ==
  LET found == IopFsFatLookupFile(call.path) IN
  /\ At("lookup")
  /\ fileData' = IF found = NoFile THEN fileData ELSE [fileData EXCEPT ![call.slot] = found]
  /\ call' = [call EXCEPT !.step = IF found = NoFile THEN "drop" ELSE "insert", !.file = found]
  /\ UNCHANGED <<obVars, bootFiles, fileInUse, fileHeader, opened>>

(* The last two calls of every routine that makes an object with a handle: *)
(* ObInsertHandle, then the creator's reference is given back.             *)
InsertHandle ==
  /\ At("insert")
  /\ ObInsertHandle(call.object, call.access)
  /\ opened' = IF status' = "SUCCESS" THEN [opened EXCEPT ![nextHandle] = call.file] ELSE opened
  /\ call' = [call EXCEPT !.step = "drop"]
  /\ UNCHANGED <<bootFiles, fileVars>>

DropObject ==
  /\ At("drop")
  /\ ObDereferenceObject(call.object)
  /\ RunDeleteRoutine
  /\ call' = Idle
  /\ UNCHANGED <<bootFiles, opened>>

ReadOneLess(size, offset, length) ==         \* mutant: off by one at the end
  IF offset >= size THEN 0
  ELSE IF length < size - offset THEN length ELSE size - offset - 1

(* The bytes IoReadFileHandle copies from an offset into a buffer. *)
ReadLength(size, offset, length) ==
  IF offset >= size THEN 0
  ELSE IF length < size - offset THEN length ELSE size - offset

ObjectOf(v) == entryObject[CHOOSE e \in ObpFindHandleEntry(v) : IsFirst(e, ObpFindHandleEntry(v))]
FileSlotOf(o) ==
  IF IopFindFileByHeader(o) = {} THEN NoSlot
  ELSE CHOOSE s \in IopFindFileByHeader(o) : \A t \in IopFindFileByHeader(o) : s <= t

(* IoReadFileHandle for a caller's read, or the first turn of the loop of  *)
(* IoSpawnProcessFromFileHandle.                                           *)
ReferenceFile(v, next) ==
  /\ ObReferenceObjectByHandle(v, ReadAccess, FileType)
  /\ call' = IF status' = "SUCCESS"
             THEN [call EXCEPT !.step = next, !.handle = v, !.object = ObjectOf(v),
                     !.slot = FileSlotOf(ObjectOf(v))]
             ELSE Idle
  /\ UNCHANGED <<bootFiles, fileVars, opened>>

IoReadFileHandle(v) == At("idle") /\ ReferenceFile(v, "read")

IoSpawnProcessFromFileHandle(v) == At("idle") /\ ReferenceFile(v, "spawn")

(* The copy, and the reference given back. *)
ReadDone ==
  /\ At("read")
  /\ ObDereferenceObject(call.object)
  /\ RunDeleteRoutine
  /\ call' = Idle
  /\ UNCHANGED <<bootFiles, opened>>

NoProgress(total, n) == total                \* mutant: Total is not advanced
Progress(total, n) == total + n

(* A turn of the spawn loop.  It ends when nothing is left to read: a file *)
(* with some content goes to PsSpawnUserKpeFromBuffer.  When the scratch   *)
(* buffer is full the call fails.                                          *)
SpawnTurn ==
  LET size == IF call.slot = NoSlot THEN 0 ELSE bootFiles[fileData[call.slot]].size
      now  == ReadLength(size, call.size, ImageMax - call.size)
      total == Progress(call.size, now)
  IN
  /\ At("spawn")
  /\ ObDereferenceObject(call.object)
  /\ RunDeleteRoutine
  /\ \/ /\ call.slot = NoSlot
        /\ call' = Idle
     \/ /\ call.slot # NoSlot /\ now = 0
        /\ call' = IF call.size = 0 THEN Idle ELSE [call EXCEPT !.step = "process"]
     \/ /\ call.slot # NoSlot /\ now > 0
        /\ call' = IF total >= ImageMax THEN Idle
                   ELSE [call EXCEPT !.step = "again", !.size = total]
  /\ UNCHANGED <<bootFiles, opened>>

SpawnAgain == At("again") /\ ReferenceFile(call.handle, "spawn")

(* ObCloseHandle has no type check: any handle may be passed. *)
IoCloseFileHandle(v) ==
  /\ At("idle")
  /\ ObCloseHandle(v)
  /\ RunDeleteRoutine
  /\ opened' = IF status' = "SUCCESS" THEN [opened EXCEPT ![v] = NoFile] ELSE opened
  /\ UNCHANGED <<bootFiles, call>>

(* What the I/O manager does once a call of it has begun. *)
IoInProgress ==
  OpenCreate \/ IopVfsOpen \/ InsertHandle \/ DropObject \/ ReadDone \/ SpawnTurn \/ SpawnAgain

-----------------------------------------------------------------------------
(* A file handle reads the file it was opened on for as long as it is      *)
(* open, whatever other handles are opened and closed meanwhile.           *)
HandlesReadTheirFile ==
  \A e \in entryInUse : objectType[entryObject[e]] = FileType =>
    fileData[FileSlotOf(entryObject[e])] = opened[entryHandle[e]]

(* The bytes IoSpawnProcessFromFileHandle passes to                        *)
(* PsSpawnUserKpeFromBuffer are the whole file its handle was opened on,   *)
(* and leave room in the scratch buffer.                                   *)
SpawnGetsWholeFile ==
  At("process") /\ call.handle # 0 =>
    call.size = bootFiles[opened[call.handle]].size /\ call.size < ImageMax

(* A system call returns: its loops and its steps end. *)
CallsReturn == []<>At("idle")
=============================================================================
