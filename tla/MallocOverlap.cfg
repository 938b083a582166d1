SPECIFICATION Spec
CONSTANTS
  PageSize = 4
  SlabCount = 3
  EntryCount = 5
  MaxPageCount = 2
  NumPages = 2
INVARIANT LiveBlocksDisjoint
