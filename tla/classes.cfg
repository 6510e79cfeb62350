SPECIFICATION Spec
CONSTANTS
  Names <- MCNames
  Dunder <- MCDunder
  Private <- MCPrivate
  Bodies <- MCBodies
  Options <- MCOptions
  LateDataclass = FALSE
INVARIANTS TypeOK SelectedCallsVerify
