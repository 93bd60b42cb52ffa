\* A request and a job share locks, rows and cached values; everything may fail.
SPECIFICATION FairSpec
CONSTANTS
  Metrics = {"dau", "retention"}
  Readers = {r1}
  Workers = {w1}
  MaxVersion = 2
  Faults = {"redis", "db"}
INVARIANTS
  TypeOK
  LockInvariant
PROPERTIES
  SnapshotNeverGoesBack
  OnlyReadsPutBack
  CohortStaysRight
  SessionsEnd
  CatchesUp
