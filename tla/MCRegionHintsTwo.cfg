CONSTANTS
  Clients = {c1, c2}
  Regions = {"jp", "eu"}
  CertRegions = {"jp", "eu"}
  NoRegion = NoRegion
  Questions <- MCPairQuestions
  Redirected <- MCPairQuestions
  RegionOf <- MCPairRegionOf
  MaxLookups = 2
  MaxTries = 1
SPECIFICATION Spec
INVARIANTS HintProvenance CertIsLoaded
PROPERTIES ImplementsCertChoice
CHECK_DEADLOCK FALSE
