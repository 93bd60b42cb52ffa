\* Two handlers serve batches with the same events and update and register the
\* same users; requests fail and keys expire.
SPECIFICATION FairSpec
CONSTANTS
  Events = {e1, e2}
  Refused = {}
  Malformed = Malformed
  Invalid = Invalid
  NotAnObject = NotAnObject
  Handlers = {h1, h2}
  Sessions = {h1, h2}
  KeysExpire = TRUE
  Batches = {{e1}, {e1, e2}}
  Addresses = {admin, user}
  Admin = admin
  Changes <- SmallChanges
  MaxVersion = 3
  Faults = TRUE
CONSTRAINT OneTable
INVARIANTS
  TypeOK
  ToldIsStored
  KeyInvariant
PROPERTIES
  ImplementsDirectory
  RequestsEnd
  RetriesSucceed
