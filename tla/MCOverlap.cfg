\* Two runs overlap: they take messages from each other and contend for the rows of
\* two events, up to deadlock.
SPECIFICATION FairSpec
CONSTANTS
  Events = {e1, e2}
  Refused = {}
  Malformed = Malformed
  Invalid = Invalid
  NotAnObject = NotAnObject
  Foreign = {}
  BatchSize = 2
  MaxDeliveries = 3
  ClaimMinIdle = 1
  StreamMaxLen = 3
  MaxMsg = 2
  Jobs = {j1, j2}
  Sessions = {j1, j2}
  Faults = {}
  Requests = {r1}
  MaxBatch = 1
  RequestFaults = FALSE
  KeysExpire = FALSE
INVARIANTS
  LossInvariant
  DeadLetterOnlyAfterMaxDeliveries
  CountInvariant
PROPERTIES
  RunsAdvance
  RunsEnd
