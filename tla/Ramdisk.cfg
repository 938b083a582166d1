SPECIFICATION Spec
CONSTANTS
  WordSize = 8
  BlockSize = 2
  MaxBlocks = 2
  Byte <- MCByte
  Page <- MCPage
  DiskSizes <- MCDiskSizes
  Start <- MCStart
  Data <- MCData
  Length <- MCLength
  p1 = p1
  p2 = p2
  p3 = p3
SYMMETRY MCPageSymmetry
INVARIANTS
  OwnPages
PROPERTY
  RamdiskIsFlat
