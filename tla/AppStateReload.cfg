SPECIFICATION Spec
CONSTANTS
  User = {u1}
  Admin = {console}
  Console = console
  u1 = u1
  u2 = u2
  a1 = a1
  a2 = a2
  Server = {"m1"}
  Entry <- TwoKinds
  Initial <- OneServer
  Operations = {"edit", "reload"}
  Unreadable = Unreadable
  MaxOps = 2
  MaxSpawns = 1
PROPERTIES
  ReloadRecycles
CHECK_DEADLOCK FALSE
