SPECIFICATION MmSpec
CONSTANTS
  FrameCount = 5
  PageCount = 6
  LowPages = 3
  TableSpan = 3
  MaxSpaces = 2
  MaxRegions = 3
  MaxSections = 1
  MaxSectionPages = 2
  MaxImagePages = 1
  SectionTables <- MCSectionTables
  FirmwareMaps = {"low", "large", "huge"}
INVARIANTS FrameCountsExact ViewsShowTheSection WiredMeansPresent EntryWithinRegion
CHECK_DEADLOCK FALSE
