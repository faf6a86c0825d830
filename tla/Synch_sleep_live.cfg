SPECIFICATION FairSpec
CONSTANTS
  t1 = t1  t2 = t2  t3 = t3  t4 = t4  l1 = l1  l2 = l2  l3 = l3  s1 = s1  c1 = c1
  Threads <- MCThreads3
  Main = t1
  Idle = idle
  Priorities = {0, 1}
  PRI_MIN = 0
  PRI_DEFAULT = 1
  MaxSleep = 2
  Locks = {}
  Semas = {s1}
  Conds = {}
  CondLock <- MCCondLock
  NoThread = NoThread
  NoLock = NoLock
  NoCond = NoCond
  MaxValue = 1
  Ops = {"create", "sleep"}
INVARIANT NoLostWakeup
INVARIANT ListsExclusive
PROPERTY SleepersWake
