\* A message that is JSON but no object.
SPECIFICATION FairSpec
CONSTANTS
  Events = {e1}
  Refused = {}
  Malformed = Malformed
  Invalid = Invalid
  NotAnObject = NotAnObject
  Foreign = {NotAnObject}
  BatchSize = 2
  MaxDeliveries = 2
  ClaimMinIdle = 1
  StreamMaxLen = 3
  MaxMsg = 2
  Jobs = {j1}
  Sessions = {j1}
  Faults = {}
  Requests = {r1}
  MaxBatch = 1
  RequestFaults = FALSE
  KeysExpire = FALSE
PROPERTIES
  PoisonIsBuried
