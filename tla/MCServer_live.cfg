SPECIFICATION FairSpec
CONSTANTS
  NThreads = 1
  StopSock = StopSock
  HttpSock = HttpSock
  SslSock = SslSock
  Conns = {c1, c2}
  BadSock = BadSock
  NoConn = NoConn
  UseSsl = TRUE
  KeepAliveTimeout = 5
  MaxReqs = 1
  FdLimit = 2
  PollLimit = 9
  OutOfRange = {"NONE", "IN", "HUP"}
  HangupRevents = {"IN", "HUP"}
CHECK_DEADLOCK FALSE
PROPERTIES
  RequestIsRead
  GracefulStopOnceUp
