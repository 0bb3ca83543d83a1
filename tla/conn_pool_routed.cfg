SPECIFICATION Spec
CONSTANTS
  None = None
  A = A
  B = B
  C = C
  P = P
  S = S
  Origins <- MCOrigins
  HttpProxies = {P}
  SocksProxies = {S}
  UnixSocket = None
  ProxyTunnel = FALSE
  MaxTime = FALSE
  Configs <- RoutedConfigs
  ReplyKinds <- CleanReplies
  MaxTransfers = 3
INVARIANTS RightDestination AnswerIsOwn
PROPERTY ImplementsExchange
CHECK_DEADLOCK FALSE
