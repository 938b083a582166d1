SPECIFICATION ProcessSpec
CONSTANTS
  MaxProcesses = 4
  Queues = 3
  StartingTickets = 1
  SliceCost = 1
  EarlyCommands = TRUE
  p1 = p1
  p2 = p2
  p3 = p3
  p4 = p4
  PagePool <- MCPages
  NoPage = NoPage
  MaxKills = 1
  ProcessNameSize = 3
  StateColumn = 4
  PrintBufferSize = 6
  ProgramNames <- MCNames
  IdleName <- MCIdle
  StateNames <- MCStates
  PRINTF_BUFFER_SIZE = 9
  Characters = {65, 100}
  Strings <- MCStrings
  Numbers = {0, 1, 9, 10, 255, 256, 511}
  MaxItems = 3
SYMMETRY MCPageSymmetry
INVARIANTS
  TableMatchesScheduler
  EachProcessOnePage
  PanicOnlyWhenStale
  ListingShowsNames
  PrintsItsItems
