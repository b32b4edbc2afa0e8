SPECIFICATION Spec
CONSTANTS
  s1 = s1
  s2 = s2
  Session <- OneSession
  Call <- OneClient
  ServerIds = {1}
  Forged = {1}
  Cap = 1
  MaxLines = 1
INVARIANTS
  TypeOK
  IInv
  NoCallerForgotten
  NoRequestStranded
  FinishedLeaveNoSender
PROPERTIES
  RepliesMatchCalls
CHECK_DEADLOCK FALSE
