SPECIFICATION Spec
CONSTANTS
  Contexts = {c1}
  Main = c1
  NoSettings = NoSettings
  Environments <- Silent
  Arguments <- OneFlag
  MaxBlocks = 2
INVARIANTS DebugOnlyInBlocks
