CONSTANTS
  t1 = t1
  t2 = t2
  t3 = t3
  b1 = b1
  NULL = NULL
  Threads = {t1, t2, t3}
  Bodies = {b1}
  MaxInc = 2
  MaxLeases = 3
SPECIFICATION Spec
SYMMETRY ThreadSymmetry
INVARIANT TypeOK BodyMatchesToken BorrowedBodyStable
PROPERTY BodyWrittenTwice PinnedOnlyForCause
