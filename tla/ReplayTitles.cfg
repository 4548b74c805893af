CONSTANTS
  ReqLens = {308}
  FileLens = {328}
  Missing = Missing
  MaxEdits = 0
SPECIFICATION Spec
INVARIANT SuccessOnlyWithoutCaptures
CHECK_DEADLOCK FALSE
