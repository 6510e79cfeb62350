SPECIFICATION Spec
CONSTANTS
  Names <- MCNames
  Dunder <- MCDunder
  Private <- MCPrivate
  Bodies <- OnlyFields
  Options <- OnlyDefault
  LateDataclass = FALSE
INVARIANTS OnlyViolationsAdded
