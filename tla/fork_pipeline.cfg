CONSTANTS
  SameRepository = FALSE
  MaxHead = 2
  MaxRuns = 3
  Faults = {}
SPECIFICATION FairSpec
INVARIANTS
  TypeOK
  ForkGate
PROPERTY
  RunsEnd
CHECK_DEADLOCK FALSE
