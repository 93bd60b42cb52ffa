\* One run at a time under every fault, with failing requests, a malformed message and
\* one that is no valid event; no row is refused.
SPECIFICATION Spec
CONSTANTS
  Events = {e1, e2}
  Refused = {}
  Malformed = Malformed
  Invalid = Invalid
  NotAnObject = NotAnObject
  Foreign = {Malformed, Invalid}
  BatchSize = 2
  MaxDeliveries = 2
  ClaimMinIdle = 1
  StreamMaxLen = 3
  MaxMsg = 2
  Jobs = {j1}
  Sessions = {j1}
  Faults = {"crash", "redis", "db"}
  Requests = {r1}
  MaxBatch = 1
  RequestFaults = TRUE
  KeysExpire = FALSE
SYMMETRY SymmetricEvents
INVARIANTS
  DeadLetterOnlyAfterMaxDeliveries
PROPERTIES
  ImplementsDelivery
  RunsAdvance
