CONSTANTS
  c1 = c1
  c2 = c2
  Clients = {c1, c2}
  MaxInc = 2
  MaxLeases = 2
SPECIFICATION FairSpec
INVARIANT TypeOK LeaseHolds OneOwner
PROPERTY StaleKeyInert ImplementsLifecycle RetiredDrains
