CONSTANTS
  s1 = s1
  s2 = s2
  r1 = r1
  r2 = r2
  Senders = {s1, s2}
  Receivers = {r1, r2}
  Peekers = {}
  Capacities = {2}
  MaxSends <- ThreeEach
  MaxTickets = 3
SPECIFICATION Spec
SYMMETRY ThreadSymmetry
INVARIANT TypeOK SlotExclusive
PROPERTY EndOfStream ImplementsQueue
