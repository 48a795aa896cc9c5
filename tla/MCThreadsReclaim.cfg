SPECIFICATION Spec
CONSTANTS
  w1 = w1
  w2 = w2
  f1 = f1
  Main = Main
  None = None
  Workers <- OneWorker
  Foreign <- OneForeign
  MaxAttach = 1
INVARIANTS
  ReclaimAlone
CHECK_DEADLOCK FALSE
