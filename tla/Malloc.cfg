SPECIFICATION Spec
CONSTANTS
  PageSize = 4
  SlabCount = 3
  EntryCount = 5
  MaxPageCount = 2
  NumPages = 3
INVARIANTS
  CountsAgree
  LiveBlocksAreEntries
  GivesUpOnlyWhenFull
