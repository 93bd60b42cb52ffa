\* Two handlers serve batches with the same events to one run at a time; e2 is
\* refused by the database, and some other program adds a malformed message.
SPECIFICATION Spec
CONSTANTS
  Events = {e1, e2}
  Refused = {e2}
  Malformed = Malformed
  Invalid = Invalid
  NotAnObject = NotAnObject
  Foreign = {Malformed, NotAnObject}
  BatchSize = 2
  MaxDeliveries = 2
  ClaimMinIdle = 1
  StreamMaxLen = 3
  MaxMsg = 3
  Jobs = {j1}
  Sessions = {j1}
  Faults = {}
  Requests = {r1, r2}
  MaxBatch = 2
  RequestFaults = FALSE
  KeysExpire = FALSE
SYMMETRY Symmetric
INVARIANTS
  TypeOK
  LossOnlyByRollback
  DeadLetteredIsUnstored
  StoredIsCounted
  EnqueuedOnce
  DedupIsBacked
  AcceptedIsSafe
