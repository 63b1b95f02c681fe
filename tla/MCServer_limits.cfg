SPECIFICATION Spec
CONSTANTS
  NThreads = 2
  StopSock = StopSock
  HttpSock = HttpSock
  SslSock = SslSock
  Conns = {c1, c2, c3}
  BadSock = BadSock
  NoConn = NoConn
  UseSsl = FALSE
  KeepAliveTimeout = 5
  MaxReqs = 1
  FdLimit = 2
  PollLimit = 7
  OutOfRange = {"NONE"}
  HangupRevents = {"IN", "HUP"}
SYMMETRY Symmetry
CHECK_DEADLOCK FALSE
INVARIANTS OneHolder
