CONSTANTS
  ReqLens = {1, 34, 35, 51, 52, 307, 308}
  FileLens = {1, 327, 328}
  Missing = Missing
  MaxEdits = 1
SPECIFICATION Spec
INVARIANTS TypeOK CaptureIsReplayed CapturesLeaveWhole BetterCapturesWereGone SuccessOnlyInsteadOfError FallbackHelps
CHECK_DEADLOCK FALSE
