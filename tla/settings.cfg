SPECIFICATION Spec
CONSTANTS
  Contexts = {c1, c2}
  Main = c1
  NoSettings = NoSettings
  Environments <- Changing
  Arguments <- Mixed
  MaxBlocks = 2
INVARIANTS TypeOK InForce
PROPERTIES OnlyOwnBlocksSwitch
