SPECIFICATION KeSpec
CONSTANTS
  MaxTypes = 5
  MaxObjects = 2
  MaxHandles = 2
  Rights = {1, 2, 4}
  HandleModulus = 16
  MaxCreates = 3
  MaxInserts = 3
  MaxHeld = 2
  MaxFiles = 2
  MaxBootFiles = 2
  Paths = {"init", "other"}
  InitPath = "init"
  OtherPaths = {"other"}
  FileSize <- MCFileSize
  ImageMax = 3
  MaxPorts = 1
  MaxSections = 1
  MaxProcesses = 1
  MaxThreads = 1
  MaxViews = 1
  Depth = 1
  PointerBytes = 1
  PayloadMax = 2
  UserTop = 4
  KernelBase = 6
  AddressModulus = 8
  Masks <- MCMasks
  Buffers <- MCBuffers
  MaxSends = 1
INVARIANTS PoolsMatchObjects HandlesReadTheirFile SpawnGetsWholeFile MessagesAccounted BuffersInOneHalf
PROPERTY CallsReturn
