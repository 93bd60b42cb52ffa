\* A refused row and a good one in one batch.
SPECIFICATION Spec
CONSTANTS
  Events = {e1, e2}
  Refused = {e2}
  Malformed = Malformed
  Invalid = Invalid
  NotAnObject = NotAnObject
  Foreign = {}
  BatchSize = 2
  MaxDeliveries = 2
  ClaimMinIdle = 1
  StreamMaxLen = 3
  MaxMsg = 2
  Jobs = {j1}
  Sessions = {j1}
  Faults = {}
  Requests = {r1}
  MaxBatch = 1
  RequestFaults = FALSE
  KeysExpire = FALSE
INVARIANTS
  AtLeastOnce
