\* The queue as shipped: redis.asyncio has no hincrbyby. One notification, and
\* those that an expired hash turns it into, with one crash, one failing Redis
\* call and one expired hash, in every combination.
SPECIFICATION FairSpec
CONSTANTS
  Ids = {n1, n2, n3}
  NoId = NoId
  NoHash = NoHash
  MaxRetries = 2
  HincrbybyExists = FALSE
  MaxEnqueues = 1
  MaxCrashes = 1
  MaxErrors = 1
  MaxExpiries = 1
INVARIANTS
  TypeOK
  OnePlace
  BoundedSends
  SendsAreCounted
  OneLossPerFault
PROPERTIES
  Delivers
  AcceptedIsSettled
  QueueDrains
CHECK_DEADLOCK FALSE
