SPECIFICATION Spec
CONSTANTS
  ParameterNames <- ThreeNames
  ParameterKinds = {"any", "varkw"}
  ArgumentSets <- NoResult
  MaxParameters = 2
  Notes <- OneNote
INVARIANTS HelperAlwaysAgrees
CHECK_DEADLOCK FALSE
