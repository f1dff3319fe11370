CONSTANTS
  Widths = {1, 2, 3}
  Configured = {2}
  Markdown = TRUE
  MaxViolations = 2
  MaxLines = 4
  p = p
  q = q
  Paths = {p, q}
  Contents = {"clean", "marked", "narrow", "bad"}
  MaxEdits = 1
  ViolationLimit = 1
  x = x
  y = y
  Blobs = {x, y}
  BlobSize <- Sizes
  MaxTotalBytes = 3
  MaxFindings = 2
  MaxEntries = 2
  Owners = {"us", "them"}
  Branches = {"topic", "next"}
  PathLength = 2
  MaxChanges = 1
  Refs = {"main", "detached"}
  Revisions = {1, 2}
  Remotes = {"us", "none"}
  MaxMoves = 2
SPECIFICATION Spec
INVARIANTS
  MarkersAreReported
  StatusIsEarned
  ScanIsSound
  CommandIsAsJudged
  PrintedInOrder
CHECK_DEADLOCK FALSE
