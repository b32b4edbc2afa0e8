SPECIFICATION FairSpec
CONSTANTS
  User = {u1}
  Admin = {a1, console}
  Console = console
  u1 = u1
  u2 = u2
  a1 = a1
  a2 = a2
  Server = {"m1"}
  Entry <- Entries
  Initial <- OneServer
  Operations <- NoStatus
  Unreadable = Unreadable
  MaxOps = 3
  MaxSpawns = 2
INVARIANTS
  IInv
  SavesWhatIsConfigured
  HoldersGoOn
  PersistedWhenQuiet
PROPERTIES
  MapIsKept
  OperationsEnd
CHECK_DEADLOCK FALSE
