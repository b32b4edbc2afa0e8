SPECIFICATION Spec
CONSTANTS
  s1 = s1
  s2 = s2
  Session <- OneSession
  Call <- OneClient
  ServerIds = {1}
  Forged = {}
  Cap = 1
  MaxLines = 1
INVARIANTS
  BroadcastReachesAttached
CHECK_DEADLOCK FALSE
