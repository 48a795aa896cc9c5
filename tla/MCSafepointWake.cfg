CONSTANTS
  N = 2
  Newcomers = {}
  Kinds = {"owner"}
  MaxEpoch = 1
  MayDetach = {}
SPECIFICATION FairSpec
PROPERTY HandshakeEnds
