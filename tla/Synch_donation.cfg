SPECIFICATION Spec
CONSTANTS
  t1 = t1  t2 = t2  t3 = t3  t4 = t4  l1 = l1  l2 = l2  l3 = l3  s1 = s1  c1 = c1
  Threads <- MCThreads4
  Main = t1
  Idle = idle
  Priorities = {0, 1, 2}
  PRI_MIN = 0
  PRI_DEFAULT = 1
  MaxSleep = 1
  Locks = {l1, l2}
  Semas = {}
  Conds = {}
  CondLock <- MCCondLock
  NoThread = NoThread
  NoLock = NoLock
  NoCond = NoCond
  MaxValue = 1
  Ops = {"create"}
SYMMETRY Symmetry
INVARIANT TypeOK
PROPERTY YieldsToHigher
PROPERTY WakesHighest
