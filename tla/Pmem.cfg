SPECIFICATION IrqSpec
CONSTANTS
  AddrSpace = 32
  BlockSize = 4
  ReservedMin = 4
  MinMemSize = 7
  MemoryMaps <- MCMaps
  KernelEnds <- MCKernelEnds
  MaxRecords = 4
  MaxIrqPages = 1
INVARIANTS
  TypeOK
  PagesExclusive
  LayoutSound
  HeldPagesFreeable
  OutOfMemoryNearlyFull
  NoOvercommit
  BootPagesDistinct
PROPERTY
  AbstractSpec
