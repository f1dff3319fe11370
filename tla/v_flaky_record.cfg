CONSTANTS
  SameRepository = TRUE
  MaxHead = 1
  MaxRuns = 1
  Faults = {"step"}
SPECIFICATION Spec
INVARIANT
  FailedRunUploadsNoRecord
CHECK_DEADLOCK FALSE
