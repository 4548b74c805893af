CONSTANTS
  Clients = {c1}
  Regions = {"jp", "eu", "kr"}
  CertRegions = {"jp", "eu"}
  NoRegion = NoRegion
  Questions <- MCQuestions
  Redirected <- MCRedirected
  RegionOf <- MCRegionOf
  MaxLookups = 2
  MaxTries = 2
SPECIFICATION FairSpec
INVARIANTS TypeOK HintProvenance SerialHintIsFresh
PROPERTIES HandlersFinish
CHECK_DEADLOCK FALSE
