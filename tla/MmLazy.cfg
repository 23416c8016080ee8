SPECIFICATION MmSpec
CONSTANTS
  FrameCount = 6
  PageCount = 4
  LowPages = 0
  TableSpan = 2
  MaxSpaces = 2
  MaxRegions = 3
  MaxSections = 1
  MaxSectionPages = 1
  MaxImagePages = 2
  SectionTables <- MCSectionTables
  FirmwareMaps = {"low"}
INVARIANT LazyPagesAreOwn
CHECK_DEADLOCK FALSE
