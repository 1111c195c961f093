SPECIFICATION FairSpec
CONSTANTS
  Users = {u1, u2}
  Accounts = {a1}
  Tokens = {t1}
  Commands = {"help", "status", "health", "other"}
  Modes = {"polling", "webhook"}
  None = None
  MaxUpdates = 2
  MaxCrashes = 1
  MaxFaults = 1
INVARIANTS
  TypeOK
  ConfirmedIsHandled
  ConnectedIsTrue
  ReportNeedsLink
PROPERTIES
  InOrderOnce
  StatusAfterHealth
  UpdatesAreHandled
