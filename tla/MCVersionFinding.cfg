\* Two requests update users and are answered before their commits; nothing fails.
SPECIFICATION FairSpec
CONSTANTS
  Events = {e1}
  Refused = {}
  Malformed = Malformed
  Invalid = Invalid
  NotAnObject = NotAnObject
  Handlers = {h1, h2}
  Sessions = {h1, h2}
  KeysExpire = FALSE
  Batches = {}
  Addresses = {admin, user}
  Admin = admin
  Changes <- SmallChanges
  MaxVersion = 3
  Faults = FALSE
PROPERTIES
  UpdateOutdatesItsBase
