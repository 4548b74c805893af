CONSTANTS
  Regions <- MCRegions
  MaxRuns = 3
  CA = "ca"
  Missing = Missing
  Cut = Cut
SPECIFICATION Spec
INVARIANTS TypeOK ReissueIsComplete NoMixAfterCrash ChainHasEachCAOnce ShownChainVerifies
PROPERTIES CAKeyIsKept
CHECK_DEADLOCK FALSE
