SPECIFICATION FairSpec
CONSTANTS
  w1 = w1
  w2 = w2
  f1 = f1
  Main = Main
  None = None
  Workers <- TwoWorkers
  Foreign <- OneForeign
  MaxAttach = 1
INVARIANTS
  TypeOK
  CountsExact
  GateExclusive
  JoinedOnce
  AbortedNeverRuns
  WorldStops
PROPERTIES
  CloseCompletes
CHECK_DEADLOCK FALSE
