CONSTANTS
  ReqLen = 3
  RespLen = 4
  MaxPlain = 2
  Window = 2
  MaxFaults = 2
  MaxExtras = 2
  NoKey = NoKey
SPECIFICATION FairSpec
INVARIANTS TypeOK FinishedAgreement RecordSync RequestIntact ReplyIntact RepliesProtected
PROPERTIES ServerReturns ExchangeCompletes
CHECK_DEADLOCK FALSE
