SPECIFICATION FairSpec
CONSTANTS
  f = f
  Events = {e1}
  Prints = {f}
  PrintOf <- OnePrint
  Users = {u1, u2}
  NoUser = NoUser
  Worker = Worker
  NoRun = NoRun
  Limit = 2
  RecordsSuccess = FALSE
  EventWindow = 1
  AlertWindow = 2
  MaxTime = 1
  MaxStops = 1
  MaxFaults = 2
  MaxChanges = 1
INVARIANTS
  BoundedCopies
  OptOutIsHonoured
  OwedIsCarried
PROPERTIES
  ReachesUsers
CHECK_DEADLOCK FALSE
