SPECIFICATION KeSpec
CONSTANTS
  MaxEntries = 4
  Slack = 1
  MaxAttempts = 4
  PageWords = 4
  FileAlign = 2
  UserTop = 64
  ImageMaxSize = 10
  KernelPrograms <- MCPrograms
  InitPrograms <- MCPrograms
  KernelImageBases = {16, 24, 26}
  InitBases = {16, 18, 44}
  FreeBases = {8, 16, 32}
INVARIANTS HandoffMapComplete BuffersOwned ImagesRun NoStrayInterrupt BootCompletes
PROPERTY BootEnds
