\* Neither the success of a send nor the end of its attempts is recorded.
SPECIFICATION Spec
CONSTANTS
  Ids = {n1, n2}
  NoId = NoId
  NoHash = NoHash
  MaxRetries = 2
  HincrbybyExists = FALSE
  MaxEnqueues = 2
  MaxCrashes = 0
  MaxErrors = 0
  MaxExpiries = 0
INVARIANT OutcomeIsRecorded
