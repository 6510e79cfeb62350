SPECIFICATION Spec
CONSTANTS
  Names <- MCNames
  Dunder <- MCDunder
  Private <- MCPrivate
  Bodies <- OnlyRepr
  Options <- OnlyDunder
  LateDataclass = FALSE
INVARIANTS OnlyViolationsAdded
