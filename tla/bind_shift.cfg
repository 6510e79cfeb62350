SPECIFICATION Spec
CONSTANTS
  ParameterNames <- ThreeNames
  ParameterKinds = {"positional"}
  ArgumentSets <- NoResult
  MaxParameters = 2
  Notes <- OneNote
INVARIANTS ResultIsReturn
CHECK_DEADLOCK FALSE
