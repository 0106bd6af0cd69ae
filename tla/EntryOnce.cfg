SPECIFICATION Spec
CONSTANTS
  r1 = r1
  r2 = r2
  n1 = n1
  n2 = n2
  Nobody = Nobody
  Runs <- TwoRuns
  Names <- TwoNames
  Target = 2
  Cash = 4
  MaxTries = 2
  MaxFails = 1
  MaxSales = 1
  Modes = {"open"}
  Faults = {"undelivered", "lost", "write", "error", "listing", "positions", "crash"}
  MaxFaults = 1
SYMMETRY Interchangeable
CONSTRAINT Underway
INVARIANTS
  TypeOK
  WithinTarget
  Traced

  
CHECK_DEADLOCK FALSE
