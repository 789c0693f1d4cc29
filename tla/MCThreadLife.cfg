SPECIFICATION Spec
CONSTANTS
  Threads <- MCThreads
  Idle = "idle"
  Manager = "main"
  Kind <- MCKind
  Priority <- MCPriority
  PriorityTable <- MCPriorityTable
INVARIANTS
  PicksReady
  ListsSound
  FreedUnused
PROPERTIES
  Reclaimed
