SPECIFICATION Spec
CONSTANTS
  ParameterNames <- AllNames
  ParameterKinds <- AllKinds
  ArgumentSets <- AllArguments
  MaxParameters = 2
  Notes <- FourNotes
INVARIANTS TypeOK BoundByName HelperAgrees NoneAsAnnotated
CHECK_DEADLOCK FALSE
