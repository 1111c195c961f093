\* Two requests for one path and the job, with one failure.
SPECIFICATION FairSpec
CONSTANTS
  file = file
  Uploads = {u1, u2}
  Paths = {file}
  PathOf <- OnePath
  NoPath = NoPath
  Window = 2
  Ttl = 2
  MaxFaults = 1
INVARIANTS
  TypeOK
  AbortedIsTracked
PROPERTIES
  SuppressedInWindow
  NoHastyFailure
  AbortedIsReported
  TableDrains
