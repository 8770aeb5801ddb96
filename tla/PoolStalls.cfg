SPECIFICATION FairSpec
CONSTANTS
  Clients = {c1, c2}
  Conns = {k1, k2}
  InitSize = 1
  MaxSize = 2
  MaxIdle = 0
  ConnectResults = {TRUE}
  SpuriousWakeups = FALSE
  c1 = c1
  c2 = c2
  k1 = k1
  k2 = k2
PROPERTY ExhaustedPoolGrows
