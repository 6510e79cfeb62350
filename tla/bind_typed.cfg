SPECIFICATION Spec
CONSTANTS
  ParameterNames <- SelfOnly
  ParameterKinds = {"any"}
  ArgumentSets <- Wallet
  MaxParameters = 1
  Notes <- OneNote
INVARIANTS TypedPredicateRuns
CHECK_DEADLOCK FALSE
