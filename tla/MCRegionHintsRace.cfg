CONSTANTS
  Clients = {c1}
  Regions = {"jp", "eu"}
  CertRegions = {"jp", "eu"}
  NoRegion = NoRegion
  Questions <- MCPairQuestions
  Redirected <- MCPairQuestions
  RegionOf <- MCPairRegionOf
  MaxLookups = 1
  MaxTries = 1
SPECIFICATION Spec
INVARIANT NextConnectionMatches
CHECK_DEADLOCK FALSE
