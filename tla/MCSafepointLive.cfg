CONSTANTS
  N = 2
  Newcomers = {2}
  Kinds = {"on", "owner", "redispatch"}
  MaxEpoch = 2
  MayDetach = {2}
SPECIFICATION FairSpec
PROPERTY HandshakeEndsUnlessLost SleepersResume
