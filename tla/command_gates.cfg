CONSTANTS
  AliasNames = {"a", "b", "c"}
  MaxAliasDepth = 3
  Statements <- Catalogue
  MaxStatements = 2
  MaxDepth = 1
  RecursionLimit = 3
  Configurations <- FewAliases
SPECIFICATION GateSpec
INVARIANT VerdictsDecide
INVARIANT FailsClosed
INVARIANT AliasesReadAsGit
PROPERTY GateAnswers
CHECK_DEADLOCK FALSE
