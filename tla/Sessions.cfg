SPECIFICATION FairSpec
CONSTANTS
  Session = {"s1", "s2"}
  Sse = {"s2"}
  Stream = {"k1", "k2"}
  Request = {"r1"}
  MaxProxies = 2
INVARIANTS
  IInv
  SessionsStayHome
  OneStreamIsFed
  KnownUntilDeleted
PROPERTIES
  MapIsKept
  UnfedStreamsEnd
  ReplacedProxiesEnd
  ShutdownEnds
CHECK_DEADLOCK FALSE
