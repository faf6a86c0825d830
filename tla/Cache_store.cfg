SPECIFICATION Spec
CONSTANTS
  Threads = {p1, cwf}
  Clients = {p1}
  Daemon = cwf
  DaemonRuns = FALSE
  NoThread = NoThread
  Objects = {b1, b2}
  Sectors = {1, 2, 3}
  Values = {0, 1}
  CACHE_SIZE = 2
  Ops = {"read", "write", "remove", "done"}
  MaxRemoves = 1
CHECK_DEADLOCK FALSE
INVARIANT TypeOK
 
INVARIANT Capacity
PROPERTY StoreSpec
