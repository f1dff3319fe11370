CONSTANTS
  NumCopies = 2
  NumDocs = 2
  MaxVersion = 1
  MaxEdits = 2
  MaxRuns = 2
  Bad = Bad
SPECIFICATION Spec
INVARIANTS
  CopiesAreWhole
  ExitIsTrue
  NoTempLeft
PROPERTIES
  UnsafeStopsRun
  InstalledAsInspected
CHECK_DEADLOCK FALSE
