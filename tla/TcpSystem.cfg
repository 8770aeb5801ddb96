SPECIFICATION Spec
CONSTANTS
  Fds = {4, 5}
  Cap = 2
  Round = 2
  MaxPort = 2
  Backlog = 1
  MaxEvents = 2
  SendBuffer = 2
INVARIANT CountIsExact
PROPERTIES CapIsReached AllPrinted
