SPECIFICATION Spec
CONSTANTS
  s1 = s1
  s2 = s2
  s3 = s3
  NoOne = NoOne
  Services <- Trio
  Local <- Trio
  TTL = 2
  MaxNow = 3
  Timely = TRUE
  Errors = {"refresh", "heartbeat", "release"}
SYMMETRY Interchangeable
INVARIANTS
  TypeOK
  OneLeader
CHECK_DEADLOCK FALSE
