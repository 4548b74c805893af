CONSTANTS
  Lines <- MCLines
  SuffixArgs <- MCSuffixes
  MaxGiven = 2
  IPv4s = {"self", "v4"}
  IPv6s = {"v6"}
  None = None
  BadIP = BadIP
  Datagrams <- MCDatagrams
  BufLen = 10
SPECIFICATION FairSpec
INVARIANTS TypeOK MostSpecificRuleWins AnswerEchoesQuestion RedirectedExactly ServesWholeConfig
PROPERTIES HandlerDecides
CHECK_DEADLOCK FALSE
