SPECIFICATION FairSpec
CONSTANTS
  f = f
  Events = {e1, e2}
  Prints = {f}
  PrintOf <- OnePrint
  Users = {u1}
  NoUser = NoUser
  Worker = Worker
  NoRun = NoRun
  Limit = 2
  RecordsSuccess = FALSE
  EventWindow = 1
  AlertWindow = 2
  MaxTime = 3
  MaxStops = 1
  MaxFaults = 1
  MaxChanges = 0
INVARIANTS
  TypeOK
  OncePerWindow
  SuppressedIsCarried
  StopsLoseOne
CHECK_DEADLOCK FALSE
