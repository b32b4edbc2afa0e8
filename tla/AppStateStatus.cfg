SPECIFICATION FairSpec
CONSTANTS
  User = {}
  Admin = {console}
  Console = console
  u1 = u1
  u2 = u2
  a1 = a1
  a2 = a2
  Server = {"m1"}
  Entry <- TwoKinds
  Initial <- OneServer
  Operations = {"status"}
  Unreadable = Unreadable
  MaxOps = 1
  MaxSpawns = 0
PROPERTIES
  OperationsEnd
CHECK_DEADLOCK FALSE
