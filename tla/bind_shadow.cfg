SPECIFICATION Spec
CONSTANTS
  ParameterNames <- ThreeNames
  ParameterKinds = {"any"}
  ArgumentSets <- AnyArguments
  MaxParameters = 2
  Notes <- OneNote
INVARIANTS ResultIsReturn
CHECK_DEADLOCK FALSE
