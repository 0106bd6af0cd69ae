SPECIFICATION Spec
CONSTANTS
  a1 = a1
  a2 = a2
  w = w
  b1 = b1
  b2 = b2
  d = d
  p1 = p1
  p2 = p2
  p3 = p3
  p4 = p4
  Nobody = Nobody
  Foreign = Foreign
  Apps <- TwoApps
  Workflows <- OneWorkflow
  Writers <- TwoWriters
  Readers <- OneReader
  Pids <- FourPids
  Faults = {"unlink"}
SYMMETRY Interchangeable
INVARIANTS
  TypeOK
  Exclusive
  NoGhost
PROPERTIES
  LiveKept
CHECK_DEADLOCK FALSE
