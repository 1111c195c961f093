\* The queue over a client that has hincrbyby, as the unit tests mock it, with
\* two notifications and the one that an expired hash turns one of them into.
SPECIFICATION Spec
CONSTANTS
  Ids = {n1, n2, n3}
  NoId = NoId
  NoHash = NoHash
  MaxRetries = 2
  HincrbybyExists = TRUE
  MaxEnqueues = 2
  MaxCrashes = 1
  MaxErrors = 1
  MaxExpiries = 1
INVARIANTS
  DepthIsBacklog
CHECK_DEADLOCK FALSE
