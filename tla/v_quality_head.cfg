CONSTANTS
  DiffSizes <- DiffLengths
  MaximumBytes = 3
  PipeCapacity = 2
  NoProfile = NoProfile
  Unset = Unset
  Invalid = Invalid
  Configs <- AllConfigs
  Sizes <- InputSizes
  MaxInputChars = 14
  CharsPerToken = 3
  Answers <- Reports
  MaxTip = 2
  MaxFlows = 5
  MaxReruns = 0
  MaxCallers = 3
SPECIFICATION ReviewsSpec
INVARIANT
  ReviewedHeadIsGated
CHECK_DEADLOCK FALSE
