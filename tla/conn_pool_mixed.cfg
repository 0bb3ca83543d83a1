SPECIFICATION Spec
CONSTANTS
  None = None
  A = A
  B = B
  C = C
  P = P
  S = S
  Origins <- MCOrigins
  HttpProxies = {P}
  SocksProxies = {S}
  UnixSocket = None
  ProxyTunnel = FALSE
  MaxTime = TRUE
  Configs <- MixedConfigs
  ReplyKinds <- AllReplyKinds
  MaxTransfers = 3
INVARIANTS TypeOK OncePerConnectionKind StaleErrorHidden 
PROPERTY CallsReturn
CHECK_DEADLOCK FALSE
