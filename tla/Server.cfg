CONSTANTS
  w1 = w1  w2 = w2
  NULL = NULL  Main = Main
  Worker = {w1, w2}
  MaxRequests = 2
  MaxConn = 4
SPECIFICATION FairSpec
INVARIANTS TypeOK WorkersWaitOnlyWhenEmpty MainWaitsOnlyWhenFull
PROPERTIES ImplementsQueue EventuallyServed
