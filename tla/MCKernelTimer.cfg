SPECIFICATION FairSpec
CONSTANTS
  Timers = {t1, t2}
  TickMax = 7
  Delays <- MCDelays
  MaxPreempt = 1
INVARIANTS
  SortedByDue
PROPERTIES
  CheckEnds
  ImplementsCountdowns
