CONSTANTS
  m1 = m1  m2 = m2  w1 = w1  w2 = w2
  Mutators <- MCMutators
  Workers <- MCWorkers
  Gc = Gc  None = None  Scan = Scan  Prep = Prep
  MaxCycle = 2
  MaxRelease <- MCMaxRelease
SPECIFICATION FairSpec
CHECK_DEADLOCK FALSE
INVARIANTS TypeOK OneAuthority PendingExact HandoffKept FreedUntouched
PROPERTIES ClosureScanned PendingDrains
