SPECIFICATION Spec
CONSTANTS
  Clients = {c1, c2}
  Conns = {k1, k2, k3}
  InitSize = 1
  MaxSize = 3
  MaxIdle = 1
  ConnectResults = {TRUE}
  SpuriousWakeups = TRUE
  c1 = c1
  c2 = c2
  k1 = k1
  k2 = k2
  k3 = k3
SYMMETRY Symmetry
INVARIANTS TypeOK Ownership SizeWithinLimits IdleOrder
PROPERTIES ScanLeavesNoExpired LendingSpec
