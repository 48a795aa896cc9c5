CONSTANTS
  s1 = s1
  r1 = r1
  Senders = {s1}
  Receivers = {r1}
  Peekers = {}
  Capacities = {1}
  MaxSends <- TwoEach
  MaxTickets = 2
SPECIFICATION Spec
INVARIANT TakenAsSent
