SPECIFICATION BootMapSpec
CONSTANTS
  PageSize = 4
  TrackedPages = 7
  LowPages = 1
  LargeSpan = 2
  TableSpan = 6
  MemoryMaps <- MCMemoryMaps
  KernelSizes = {4, 5, 8}
  LoaderSize = 8
  PoolSizes = {1, 4, 6}
INVARIANTS FreePagesUsable ImagesReserved PhysmapCovers
