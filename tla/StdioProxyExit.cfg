SPECIFICATION FairSpec
CONSTANTS
  s1 = s1
  s2 = s2
  Session <- OneSession
  Call <- OneClient
  ServerIds = {0}
  Forged = {}
  Cap = 1
  MaxLines = 0
PROPERTIES
  ExitReachesCallers
CHECK_DEADLOCK FALSE
