SPECIFICATION FairSpec
CONSTANTS
  Workers = {w1, w2, w3}
  Tasks = {t1, t2, t3}
  ThreadNum = 3
  SpuriousWakeups = TRUE
  w1 = w1
  w2 = w2
  w3 = w3
  t1 = t1
  t2 = t2
  t3 = t3
INVARIANTS TypeOK TaskOnce NoTaskIdle DestroyWakesAll PopHasTask
PROPERTIES NothingTakenAfterDestroy BagSpec TasksAreRun WorkersExit
