\* Two requests at a time of one user, in processes whose clocks differ by up to two
\* units, with scripts that are late or fail. There is time for more than a window
\* and its margin (6 + 3), so that old admissions have to stop counting.
SPECIFICATION Spec
CONSTANTS
  Handlers = {h1, h2}
  Ips = {i1}
  Users = {u1}
  Window = 6
  LimitIp = 1
  LimitUser = 1
  LimitEvents = 1
  MaxSkew = 1
  MaxDelay = 1
  MaxTime = 10
  RedisFails = TRUE
SYMMETRY Symmetric
INVARIANTS
  AtMostLimit
  WindowInvariant
PROPERTIES
  RejectedAtLimit
