SPECIFICATION Spec
CONSTANTS
  Threads <- MCThreads
  Idle = "idle"
  InitPriority <- MCInitPriority
  Flag = "PRIO"
  Times = {1}
  SemInit = 0
  MaxTokens = 2
  MaxHold = 2
INVARIANTS
  ListsAgree
  SemaphoreHonest
  MutexHonest
  PriorityLent
  HighestRuns
