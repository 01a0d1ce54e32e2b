SPECIFICATION MCSpec
SYMMETRY Symmetry
CONSTANTS
  MaxTime = 4
  Burst = 2
  Cost = 2
  MaxGrants = 4
  Ips = {a, b}
  Names = {u, v}
  IpLimit = 2
  NameLimit = 1
  MaxKeys = 3
  Minute = 2
  Requests = {r1, r2}
  MaxAttempts = 6
INVARIANTS TypeOK BurstBound NeverStingy AttemptsLimited KeysBounded
CHECK_DEADLOCK FALSE
