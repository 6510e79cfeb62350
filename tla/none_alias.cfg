SPECIFICATION Spec
CONSTANTS
  ParameterNames <- ThreeNames
  ParameterKinds = {"any"}
  ArgumentSets <- NoResult
  MaxParameters = 1
  Notes <- Alias
INVARIANTS NoneMeansValid
CHECK_DEADLOCK FALSE
