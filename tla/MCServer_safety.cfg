SPECIFICATION Spec
CONSTANTS
  NThreads = 1
  StopSock = StopSock
  HttpSock = HttpSock
  SslSock = SslSock
  Conns = {c1, c2, c3}
  BadSock = BadSock
  NoConn = NoConn
  UseSsl = TRUE
  KeepAliveTimeout = 5
  MaxReqs = 1
  FdLimit = 3
  PollLimit = 6
  OutOfRange = {"NONE", "IN", "HUP"}
  HangupRevents = {"IN", "HUP"}
SYMMETRY Symmetry
CHECK_DEADLOCK FALSE
INVARIANTS
  TypeOK
  OneHolder
  NoIdleThreadWhileWaiting
  ThreadsAccountedFor
  IdsPointRight
  SnapshotStaysTrue
PROPERTIES
  ImplementsPool
