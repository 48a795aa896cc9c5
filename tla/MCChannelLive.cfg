CONSTANTS
  s1 = s1
  r1 = r1
  p1 = p1
  Senders = {s1}
  Receivers = {r1}
  Peekers = {p1}
  Capacities = {0, 2}
  MaxSends <- OneMeeting
  MaxTickets = 4
SPECIFICATION FairSpec
INVARIANT ToldTrue
PROPERTY ImplementsQueue EveryTicketTaken SendersServed
