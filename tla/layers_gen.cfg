SPECIFICATION Spec
CONSTANTS
  MaxLayers = 2
  NamesUsed <- FourNames
  PoliciesUsed <- OnePolicy
INVARIANTS EveryLayerAfterBody
