SPECIFICATION Spec
CONSTANTS
  MaxLayers = 2
  NamesUsed <- FourNames
  PoliciesUsed <- TwoPolicies
INVARIANTS ReadOnlyOptsOut
