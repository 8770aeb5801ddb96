SPECIFICATION FairSpec
CONSTANTS
  Ports = {q1}
  Peers = {p1, p2, p3}
  Binary = {p3}
  Backlog = 2
  MaxEvents = 2
  MaxSends = 2
  q1 = q1
  p1 = p1
  p2 = p2
  p3 = p3
INVARIANTS NothingStranded EventsAreCurrent NothingLost
PROPERTIES GoneIsClosed
