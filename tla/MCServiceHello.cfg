CONSTANTS
  NAddrs = 2
  Conns = {c1, c2}
  ProxyArgs <- MCProxyArgs
  MaxProxies = 2
  Hellos <- MCHellos
  Exchanges <- MCExchanges
  Requests <- MCRequests
  MaxHave = 2
  Backends <- MCBackends
  MaxProxyBody = 2
  Nobody = Nobody
SPECIFICATION Spec
INVARIANTS ShortHelloRefused
CHECK_DEADLOCK FALSE
