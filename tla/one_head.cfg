CONSTANTS
  SameRepository = TRUE
  MaxHead = 1
  MaxRuns = 3
  Faults = {"resolve", "step", "publish", "runner", "expiry", "spacing"}
SPECIFICATION Spec
INVARIANT
  NoSecondReview
PROPERTY
  SettledHead
CHECK_DEADLOCK FALSE
