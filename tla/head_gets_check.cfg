CONSTANTS
  SameRepository = TRUE
  MaxHead = 1
  MaxRuns = 3
  Faults = {"step", "upload"}
SPECIFICATION FairSpec
INVARIANT
  GreenMeansApproved
PROPERTY
  HeadGetsCheck
CHECK_DEADLOCK FALSE
