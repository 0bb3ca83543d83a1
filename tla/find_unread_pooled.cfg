SPECIFICATION Spec
CONSTANTS
  None = None
  A = A
  B = B
  C = C
  P = P
  S = S
  Origins <- MCOrigins
  HttpProxies = {P}
  SocksProxies = {S}
  UnixSocket = None
  ProxyTunnel = FALSE
  MaxTime = FALSE
  Configs <- PlainConfigs
  ReplyKinds <- AllReplyKinds
  MaxTransfers = 3
INVARIANT PooledClean
CHECK_DEADLOCK FALSE
