SPECIFICATION DemoSpec
CONSTANTS
  Main = main
  Clients = {main}
  Conns = {k1, k2, k3}
  InitSize = 1
  MaxSize = 3
  MaxIdle = 1
  ConnectResults = {TRUE, FALSE}
  SpuriousWakeups = TRUE
  Queries = 2
INVARIANTS QueriesLiveConnection
