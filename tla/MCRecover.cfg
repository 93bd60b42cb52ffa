\* Every fault may happen, but only finitely often; MAXLEN may trim all messages
\* but one, unread and pending ones included.
SPECIFICATION FairSpec
CONSTANTS
  Events = {e1}
  Refused = {}
  Malformed = Malformed
  Invalid = Invalid
  NotAnObject = NotAnObject
  Foreign = {Malformed, Invalid}
  BatchSize = 1
  MaxDeliveries = 2
  ClaimMinIdle = 1
  StreamMaxLen = 1
  MaxMsg = 2
  Jobs = {j1}
  Sessions = {j1}
  Faults = {"crash", "redis", "db"}
  Requests = {r1}
  MaxBatch = 1
  RequestFaults = FALSE
  KeysExpire = TRUE
INVARIANTS
  DoneWasEnqueued
  AtLeastOnce
PROPERTIES
  AcceptedIsSettled
  PoisonIsBuried
  PelDrains
