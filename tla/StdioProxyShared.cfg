SPECIFICATION SteadySpec
CONSTANTS
  s1 = s1
  s2 = s2
  Session <- BothSessions
  Call <- MixedCalls
  ServerIds = {0}
  Forged = {}
  Cap = 1
  MaxLines = 1
INVARIANTS
  NoSpuriousHangUp
  BroadcastReachesAttached
PROPERTIES
  RepliesMatchCalls
  NoReplyLost
  EveryCallAnswered
CHECK_DEADLOCK FALSE
