SPECIFICATION FairSpec
CONSTANTS
  s1 = s1
  s2 = s2
  Call <- MixedCalls
  Session <- Sessions
  Cap = 1
  Chatter <- OwnMessage
INVARIANTS
  IInv
  CallerHearsItsPost
  NoCallerIdles
PROPERTIES
  RepliesMatchCalls
  AnsweredUnlessLost
CHECK_DEADLOCK FALSE
