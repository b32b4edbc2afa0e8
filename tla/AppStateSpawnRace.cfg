SPECIFICATION Spec
CONSTANTS
  User = {u1, u2}
  Admin = {console}
  Console = console
  u1 = u1
  u2 = u2
  a1 = a1
  a2 = a2
  Server = {"m1"}
  Entry <- TwoKinds
  Initial <- OneServer
  Operations = {}
  Unreadable = Unreadable
  MaxOps = 0
  MaxSpawns = 2
INVARIANTS
  OneChildPerId
CHECK_DEADLOCK FALSE
