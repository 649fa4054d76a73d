CONSTANTS
  w1 = w1  w2 = w2
  NULL = NULL  Main = Main
  Worker = {w1}
  MaxRequests = 1
  MaxConn = 1
SPECIFICATION FairSpec
PROPERTY ExitTerminates
