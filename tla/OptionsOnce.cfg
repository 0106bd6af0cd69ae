SPECIFICATION Spec
CONSTANTS
  r1 = r1
  r2 = r2
  e1 = e1
  e2 = e2
  e3 = e3
  NoRun = NoRun
  Operator = Operator
  RiskRuns <- TwoRisks
  ExecRuns <- ThreeExecs
  Named <- AllButLast
  MaxUnlocks = 2
  MaxFaults = 1
SYMMETRY Interchangeable
INVARIANTS
  TypeOK
  BoughtOnce
  OneChild
  PublicationHeld
  ReceiptIsProof
PROPERTIES
  SummaryNeverReplaced
CHECK_DEADLOCK FALSE
