SPECIFICATION Spec
CONSTANTS
  Session = {"s1"}
  Sse = {}
  Stream = {"k1", "k2"}
  Request = {}
  MaxProxies = 1
INVARIANTS
  ConnectedIsRegistered
CHECK_DEADLOCK FALSE
