CONSTANTS
  DiffSizes <- DiffLengths
  MaximumBytes = 3
  PipeCapacity = 2
  NoProfile = NoProfile
  Unset = Unset
  Invalid = Invalid
  Configs <- AllConfigs
  Sizes <- InputSizes
  MaxInputChars = 14
  CharsPerToken = 3
  Answers <- Reports
  MaxTip = 2
  MaxFlows = 4
  MaxReruns = 1
  MaxCallers = 3
SPECIFICATION ReviewsSpec
INVARIANTS
  CaptureIsSound
  CallsAreJustified
  ApprovalIsEarned
  OversizedBlocks
  GateTakesValidated
  ReviewsAreGated
PROPERTIES
  StepsOfPipeline
  JobEnds
  LaterPassReviews
CHECK_DEADLOCK FALSE
