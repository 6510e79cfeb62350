SPECIFICATION Spec
CONSTANTS
  MaxLayers = 3
  NamesUsed <- FourNames
  PoliciesUsed <- TwoPolicies
INVARIANTS MarksReachOutward MetadataComplete EveryLayerVerifies
