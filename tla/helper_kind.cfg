SPECIFICATION Spec
CONSTANTS
  ParameterNames <- TwoNames
  ParameterKinds = {"any"}
  ArgumentSets <- WithKind
  MaxParameters = 2
  Notes <- OneNote
INVARIANTS HelperAlwaysAgrees
CHECK_DEADLOCK FALSE
