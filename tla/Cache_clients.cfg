SPECIFICATION Spec
CONSTANTS
  Threads = {p1, p2, p3, cwf}
  Clients = {p1, p2, p3}
  Daemon = cwf
  DaemonRuns = TRUE
  NoThread = NoThread
  Objects = {b1, b2, b3}
  Sectors = {1}
  Values = {0}
  CACHE_SIZE = 3
  Ops = {"read", "write"}
  MaxRemoves = 0
SYMMETRY Symmetry
 
INVARIANT CountsReaders
INVARIANT NoStuckWriter
