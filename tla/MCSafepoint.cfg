CONSTANTS
  N = 3
  Newcomers = {3}
  Kinds = {"scan"}
  MaxEpoch = 1
  MayDetach = {2}
SPECIFICATION Spec
INVARIANT TypeOK SlotsCounted RemoteScanExclusive TailArmed 
