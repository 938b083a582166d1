SPECIFICATION IrqSpec
CONSTANTS
  BytesPerSector = 2
  ClusterCount = 6
  RootEntries = 4
  NameLen = 1
  ExtLen = 1
  FileNames <- MCNames
  FileSizes = {0, 1, 2, 5}
  StartFile <- MCStart
  StrayClusters = {2}
  EntriesPerSector = 3
  OldTaken <- MCOldTaken
  HandlerNames <- MCHandlerNames
  HandlerSizes = {1, 5}
INVARIANTS
  FormatLeavesEmptyDisk
  OnlyOverlappingWritesHurt
PROPERTIES
  ImplementsFileStore
