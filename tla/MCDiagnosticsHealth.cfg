SPECIFICATION MCSpec
CONSTANTS
  Customers = {c1, c2}
  Nodes = {n1}
  Keys = {k1, k2}
  Requests = {r1}
  Admins = {a1}
  MaxConcurrentSessions = 1
  MaxSessionDuration = 2
  SnapshotBindingTTL = 1
  IdempotencyTTL = 2
  SessionTombstoneTTL = 1
  MaxSid = 2
  MaxNow = 4
INVARIANT NewLeaseHealthChecked
