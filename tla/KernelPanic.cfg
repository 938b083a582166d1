SPECIFICATION Spec
CONSTANTS
  DirEntries = 2
  TableEntries = 2
  PageBytes = 8
  MemoryPages = {1, 5, 8, 11}
  DiskPages = 2
  TestPages = 2
  MaxFiles = 2
  MaxBlocks = 1
  MaxProcesses = 1
  CommandBufferSize = 8
  MaxArgs = 3
  CountLimit = 2
  Lines <- MCLines
  StartFile <- MCStartFile
PROPERTY PanicStops
