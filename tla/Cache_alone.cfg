SPECIFICATION Spec
CONSTANTS
  Threads = {p1, p2, cwf}
  Clients = {p1, p2}
  Daemon = cwf
  DaemonRuns = TRUE
  NoThread = NoThread
  Objects = {b1, b2}
  Sectors = {1}
  Values = {0}
  CACHE_SIZE = 2
  Ops = {"read", "write"}
  MaxRemoves = 0
INVARIANT WriterAlone
