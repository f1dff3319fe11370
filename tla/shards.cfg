CONSTANTS
  a = a
  b = b
  c = c
  x = x
  y = y
  None = None
  Shards = {a, b, c, x, y}
  Exclusive = {x, y}
  OrdinaryOrder <- OrderABC
  ExclusiveOrder <- OrderXY
  Workers = 3
  Forking = {a, x}
SPECIFICATION FairSpec
INVARIANTS
  TypeOK
  ExclusiveRunsAlone
  PassMeansAllPassed
PROPERTIES
  ImplementsContract
  RunEnds
CHECK_DEADLOCK FALSE
