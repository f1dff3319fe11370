SPECIFICATION Spec
CONSTANTS
  MaxMoves = 2
  Starts <- MCStarts
  Calls <- MCCalls
  Moves <- MCMoves
INVARIANT ActsWereChecked
INVARIANT AskedActsWereApproved
INVARIANT FilesStayGuarded
INVARIANT WayOutExists
PROPERTY TurnEnds
