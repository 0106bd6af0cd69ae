SPECIFICATION Spec
CONSTANTS
  s1 = s1
  s2 = s2
  s3 = s3
  NoOne = NoOne
  Services <- Trio
  Local <- Trio
  TTL = 1
  MaxNow = 3
  Timely = FALSE
  Errors = {"acquire", "refresh", "heartbeat", "release"}
SYMMETRY Interchangeable
PROPERTIES
  LiveLeaseKept
  NeverRegained
CHECK_DEADLOCK FALSE
