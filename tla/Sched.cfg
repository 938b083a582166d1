SPECIFICATION Spec
CONSTANTS
  MaxProcesses = 5
  Queues = 3
  StartingTickets = 1
  SliceCost = 1
  EarlyCommands = FALSE
INVARIANTS
  LinkedOnce
PROPERTIES
  EveryoneRuns
  SchedImplementsMlfq
