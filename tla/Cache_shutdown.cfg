SPECIFICATION Spec
CONSTANTS
  Threads = {p1, cwf}
  Clients = {p1}
  Daemon = cwf
  DaemonRuns = TRUE
  NoThread = NoThread
  Objects = {b1, b2}
  Sectors = {1, 2}
  Values = {0, 1}
  CACHE_SIZE = 1
  Ops = {"write", "done"}
  MaxRemoves = 0
INVARIANT ShutdownWritesAll
