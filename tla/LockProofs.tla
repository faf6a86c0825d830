----------------------------- MODULE LockProofs -----------------------------
(***************************************************************************)
(* For any number of threads and locks: locks exclude, a thread on its way *)
(* out releases only locks it holds, and donation takes no thread below    *)
(* its base priority.                                                      *)
(***************************************************************************)
EXTENDS TypeProofs

\* The provers for the steps that name none, in this order.
USE SMTT(20), Z3T(20), ZenonT(60)

\* LockMutex alone is not inductive: it also takes that holder is set exactly
\* from lock_own to lock_clear, which is where the operation in progress is.
HolderPlaced ==
  \A t \in Threads :
    /\ pc[t] \in {"enlist", "reset", "clear"} => holder[arg[t]] = t
    /\ pc[t] \in {"own", "up"} /\ arg[t] \in Locks => holder[arg[t]] = NoThread

LockInv == TypeOK /\ HolderPlaced /\ LockMutex

\* t works on the semaphore of a lock it does not (or no longer) hold.
Between(t) == pc[t] \in {"own", "up"} /\ arg[t] \in Locks

\* A step of t that changes no holder and no lock's semaphore, and in which t
\* neither is nor arrives between a lock's semaphore and its holder field.
LEMMA OutsideStep ==
  ASSUME LockInv, TypeOK', NEW t \in Threads,
         UNCHANGED holder, \A l \in Locks : value'[l] = value[l],
         \A u \in Threads \ {t} : pc'[u] = pc[u] /\ arg'[u] = arg[u],
         ~Between(t), ~Between(t)',
         pc'[t] \in {"enlist", "reset", "clear"} => holder[arg'[t]] = t
  PROVE  LockInv'
<1>1. \A u \in Threads, l \in Locks : Inside(u, l)' <=> Inside(u, l)
  BY DEF Inside, Between
<1>2. LockMutex'
  BY <1>1 DEF LockMutex, LockInv
<1>3. HolderPlaced'
  BY DEF HolderPlaced, LockInv, Between
<1> QED
  BY <1>2, <1>3 DEF LockInv

\* sema_down of a lock succeeds only when no thread is inside.
LEMMA TakeStep ==
  ASSUME LockInv, TypeOK', NEW t \in Threads, sema_down_take(t),
         NEW l \in Locks, arg[t] = l
  PROVE  LockInv'
<1>1. /\ pc[t] = "down" /\ value[l] > 0
      /\ value' = [value EXCEPT ![l] = value[l] - 1]
      /\ pc' = [pc EXCEPT ![t] = "own"] /\ arg' = arg /\ holder' = holder
      /\ l \in SemaIds
  BY SynchAssumption DEF sema_down_take, At, GoTo, lockVars, SemaIds, SynchAssumption
<1>2. /\ value \in [SemaIds -> Nat] /\ Locks \subseteq SemaIds
      /\ holder \in [Locks -> Threads \cup {NoThread}] /\ NoThread \notin Threads
      /\ pc \in [Threads -> PC]
  BY SynchAssumption DEF LockInv, TypeOK, SemaIds, SynchAssumption, All
<1>3. value[l] = 1 /\ \A u \in Threads : ~Inside(u, l)
  BY <1>1 DEF LockInv, LockMutex
<1>4. holder[l] = NoThread
  BY <1>2, <1>3 DEF Inside
<1>5. /\ value'[l] = 0 /\ \A m \in Locks \ {l} : value'[m] = value[m]
      /\ pc'[t] = "own" /\ \A u \in Threads \ {t} : pc'[u] = pc[u]
  BY <1>1, <1>2, <1>3
<1>6. Inside(t, l)'
  BY <1>1, <1>5 DEF Inside
<1>7. \A u \in Threads \ {t} : ~Inside(u, l)'
  BY <1>1, <1>3, <1>5 DEF Inside
<1>8. \A u \in Threads, m \in Locks \ {l} : Inside(u, m)' <=> Inside(u, m)
  BY <1>1, <1>5 DEF Inside
<1>9. LockMutex'
  <2> SUFFICES ASSUME NEW m \in Locks
               PROVE  /\ value'[m] = IF \E u \in Threads : Inside(u, m)' THEN 0 ELSE 1
                      /\ \A u, v \in Threads : Inside(u, m)' /\ Inside(v, m)' => u = v
    BY DEF LockMutex
  <2>1. CASE m = l
    BY <1>5, <1>6, <1>7, <2>1
  <2>2. CASE m # l
    BY <1>5, <1>8, <2>2 DEF LockMutex, LockInv
  <2> QED BY <2>1, <2>2
<1>10. HolderPlaced'
  BY <1>1, <1>4, <1>5 DEF HolderPlaced, LockInv
<1> QED
  BY <1>9, <1>10 DEF LockInv

\* sema_up of a lock: the only thread inside leaves.
LEMMA GiveStep ==
  ASSUME LockInv, TypeOK', NEW t \in Threads, sema_up(t),
         NEW l \in Locks, arg[t] = l
  PROVE  LockInv'
<1>1. /\ pc[t] = "up" /\ l \in SemaIds
      /\ value' = [value EXCEPT ![l] = value[l] + 1]
      /\ holder' = holder /\ after_up(t)
  BY DEF sema_up, At, lockVars, SemaIds
<1>2. /\ value \in [SemaIds -> Nat] /\ Locks \subseteq SemaIds
      /\ pc \in [Threads -> PC] /\ arg \in [Threads -> SemaIds \cup {NoLock}]
      /\ NoThread \notin Threads
  BY SynchAssumption DEF LockInv, TypeOK, SemaIds, SynchAssumption, All
<1>3. /\ pc'[t] \notin {"own", "up", "enlist", "reset", "clear"}
      /\ \A u \in Threads \ {t} : pc'[u] = pc[u] /\ arg'[u] = arg[u]
  BY <1>1, <1>2, SynchAssumption DEF after_up, GoTo, Return, SynchAssumption
<1>4. holder[l] = NoThread
  BY <1>1 DEF LockInv, HolderPlaced
<1>5. Inside(t, l) /\ value[l] = 0 /\ \A u \in Threads \ {t} : ~Inside(u, l)
  BY <1>1 DEF LockInv, LockMutex, Inside
<1>6. value'[l] = 1 /\ \A m \in Locks \ {l} : value'[m] = value[m]
  BY <1>1, <1>2, <1>5
<1>7. \A u \in Threads : ~Inside(u, l)'
  <2> SUFFICES ASSUME NEW u \in Threads PROVE ~Inside(u, l)'
    OBVIOUS
  <2>1. holder'[l] # u
    BY <1>1, <1>2, <1>4
  <2>2. ~(pc'[u] \in {"own", "up"} /\ arg'[u] = l)
    <3>1. CASE u = t
      BY <1>3, <3>1
    <3>2. CASE u # t
      BY <1>3, <1>5, <3>2 DEF Inside
    <3> QED BY <3>1, <3>2
  <2> QED BY <2>1, <2>2 DEF Inside
<1>8. \A u \in Threads, m \in Locks \ {l} : Inside(u, m)' <=> Inside(u, m)
  BY <1>1, <1>3 DEF Inside
<1>9. LockMutex'
  <2> SUFFICES ASSUME NEW m \in Locks
               PROVE  /\ value'[m] = IF \E u \in Threads : Inside(u, m)' THEN 0 ELSE 1
                      /\ \A u, v \in Threads : Inside(u, m)' /\ Inside(v, m)' => u = v
    BY DEF LockMutex
  <2>1. CASE m = l
    BY <1>6, <1>7, <2>1
  <2>2. CASE m # l
    BY <1>6, <1>8, <2>2 DEF LockMutex, LockInv
  <2> QED BY <2>1, <2>2
<1>10. HolderPlaced'
  BY <1>1, <1>3 DEF HolderPlaced, LockInv
<1> QED
  BY <1>9, <1>10 DEF LockInv

\* lock_acquire sets the holder, lock_release clears it; t is inside both
\* before and after.
LEMMA HolderStep ==
  ASSUME LockInv, TypeOK', NEW t \in Threads, lock_own(t) \/ lock_clear(t),
         NEW l \in Locks, arg[t] = l
  PROVE  LockInv'
<1>1. /\ pc \in [Threads -> PC]
      /\ holder \in [Locks -> Threads \cup {NoThread}] /\ NoThread \notin Threads
      /\ Located(pc[t], arg[t], cont[t], cond[t])
  BY Zenon, SynchAssumption DEF LockInv, TypeOK, ArgOK, SynchAssumption, All
<1>2. /\ l \in Locks /\ value' = value /\ arg' = arg
      /\ pc[t] \in {"own", "clear"}
      /\ \A u \in Threads \ {t} : pc'[u] = pc[u]
      /\ \A m \in Locks \ {l} : holder'[m] = holder[m]
  BY <1>1 DEF lock_own, lock_clear, At, Located, GoTo, semaVars
<1>3. \/ pc'[t] = "enlist" /\ holder'[l] = t
      \/ pc'[t] = "up" /\ holder'[l] = NoThread
  BY <1>1, <1>2 DEF lock_own, lock_clear, GoTo
<1>4. Inside(t, l) /\ Inside(t, l)'
  BY <1>2, <1>3 DEF LockInv, HolderPlaced, Inside
<1>5. \A u \in Threads \ {t} : ~Inside(u, l)
  BY <1>2, <1>4 DEF LockInv, LockMutex
<1>6. \A u \in Threads \ {t} : ~Inside(u, l)'
  BY <1>1, <1>2, <1>3, <1>5 DEF Inside
<1>7. \A u \in Threads, m \in Locks \ {l} : Inside(u, m)' <=> Inside(u, m)
  BY <1>2, <1>3 DEF Inside
<1>8. LockMutex'
  BY <1>2, <1>4, <1>5, <1>6, <1>7 DEF LockMutex, LockInv
<1>9. HolderPlaced'
  <2>1. \A u \in Threads \ {t} :
           /\ pc[u] \in {"enlist", "reset", "clear"} => arg[u] \in Locks /\ arg[u] # l
           /\ pc[u] \in {"own", "up"} => arg[u] # l
    BY <1>5 DEF LockInv, HolderPlaced, Inside, TypeOK, ArgOK, Located
  <2> QED BY ZenonT(60), <1>2, <1>3, <2>1 DEF HolderPlaced, LockInv
<1> QED
  BY <1>8, <1>9 DEF LockInv

\* Every step keeps LockInv.
LEMMA NextLockInv == LockInv /\ [Next]_vars => LockInv'
<1> SUFFICES ASSUME LockInv, [Next]_vars PROVE LockInv'
  OBVIOUS
<1>0. /\ TypeOK /\ TypeOK'
      /\ pc \in [Threads -> PC] /\ arg \in [Threads -> SemaIds \cup {NoLock}]
      /\ value \in [SemaIds -> Nat] /\ Locks \subseteq SemaIds
      /\ Locks \cap Threads = {} /\ Locks \cap Semas = {} /\ NoLock \notin Locks
      /\ \A t \in Threads : Located(pc[t], arg[t], cont[t], cond[t])
  BY Zenon, NextType, SynchAssumption DEF LockInv, TypeOK, SemaIds, SynchAssumption, ArgOK
<1> USE <1>0
<1>1. CASE /\ UNCHANGED <<pc, arg, holder>> /\ \A l \in Locks : value'[l] = value[l]
  <2>1. \A t \in Threads, l \in Locks : Inside(t, l)' <=> Inside(t, l)
    BY <1>1 DEF Inside
  <2>2. LockMutex'
    BY <1>1, <2>1 DEF LockInv, LockMutex
  <2>3. HolderPlaced'
    BY <1>1 DEF LockInv, HolderPlaced
  <2> QED BY <2>2, <2>3 DEF LockInv
<1>2. ASSUME NEW t \in Threads, ThreadOps(t) PROVE LockInv'
  <2>1. \/ UNCHANGED <<pc, arg>>
        \/ /\ pc[t] \in {"run", "yield"} /\ pc'[t] \in {"run", "yield"}
           /\ \A u \in Threads \ {t} : pc'[u] = pc[u] /\ arg'[u] = arg[u]
    BY <1>2 DEF ThreadOps, create_yield, thread_create, thread_set_priority,
                      sleep, ctlVars, At, GoTo, Return
  <2>2. UNCHANGED <<holder, value>>
    BY Zenon, <1>2 DEF ThreadOps, create_yield, thread_create, thread_set_priority, sleep,
                lockVars, semaVars
  <2> QED BY <1>1, <2>1, <2>2, OutsideStep DEF Between
<1>3. ASSUME NEW t \in Threads, SemaOps(t) PROVE LockInv'
  <2>1. CASE sema_down_block(t)
    BY <1>1, <2>1 DEF sema_down_block, ctlVars, lockVars
  <2>2. CASE sema_down_take(t) /\ arg[t] \notin Locks
    <3>1. /\ pc[t] = "down" /\ arg[t] \in SemaIds /\ holder' = holder
          /\ value' = [value EXCEPT ![arg[t]] = value[arg[t]] - 1]
          /\ pc' = [pc EXCEPT ![t] = "run"] \/ pc' = [pc EXCEPT ![t] = "reacq"]
          /\ arg' = arg \/ arg' = [arg EXCEPT ![t] = NoLock]
      BY <2>2 DEF sema_down_take, At, GoTo, Return, Located, lockVars
    <3>2. /\ pc'[t] \in {"run", "reacq"} /\ \A l \in Locks : value'[l] = value[l]
          /\ \A u \in Threads \ {t} : pc'[u] = pc[u] /\ arg'[u] = arg[u]
      BY <2>2, <3>1
    <3> QED BY <3>1, <3>2, OutsideStep DEF Between
  <2>3. CASE sema_down_take(t) /\ arg[t] \in Locks
    BY <2>3, TakeStep
  <2>4. CASE sema_up(t) /\ arg[t] \notin Locks
    <3>1. /\ pc[t] = "up" /\ arg[t] \in SemaIds /\ holder' = holder
          /\ value' = [value EXCEPT ![arg[t]] = value[arg[t]] + 1]
          /\ pc' = [pc EXCEPT ![t] = "run"] \/ pc' = [pc EXCEPT ![t] = "bcast"]
          /\ arg' = arg \/ arg' = [arg EXCEPT ![t] = NoLock]
      BY <2>4 DEF sema_up, after_up, At, GoTo, Return, Located, lockVars
    <3>2. /\ pc'[t] \in {"run", "bcast"} /\ \A l \in Locks : value'[l] = value[l]
          /\ \A u \in Threads \ {t} : pc'[u] = pc[u] /\ arg'[u] = arg[u]
      BY <2>4, <3>1
    <3> QED BY <2>4, <3>1, <3>2, OutsideStep DEF Between
  <2>5. CASE sema_up(t) /\ arg[t] \in Locks
    BY <2>5, GiveStep
  <2>6. ASSUME NEW s \in Semas, call_sema_down(t, s) \/ call_sema_up(t, s)
        PROVE  LockInv'
    <3>1. /\ pc[t] = "run" /\ pc'[t] \in {"down", "up"} /\ arg'[t] = s
          /\ UNCHANGED <<holder, value>>
          /\ \A u \in Threads \ {t} : pc'[u] = pc[u] /\ arg'[u] = arg[u]
      BY Zenon, <2>6 DEF call_sema_down, call_sema_up, At, GoTo, lockVars, semaVars
    <3> QED BY Zenon, <3>1, OutsideStep DEF Between
  <2> QED BY ZenonT(60), <1>3, <2>1, <2>2, <2>3, <2>4, <2>5, <2>6 DEF SemaOps
<1>4. ASSUME NEW t \in Threads, LockOps(t) PROVE LockInv'
  <2>1. CASE lock_own(t) \/ lock_clear(t)
    <3>1. arg[t] \in Locks
      BY <2>1 DEF lock_own, lock_clear, At, Located
    <3> QED BY Zenon, <2>1, <3>1, HolderStep
  <2>2. ASSUME NEW l \in Locks, lock_acquire(t, l) PROVE LockInv'
    <3>1. /\ pc[t] = "run" /\ pc'[t] = "down" /\ UNCHANGED <<holder, value>>
          /\ \A u \in Threads \ {t} : pc'[u] = pc[u] /\ arg'[u] = arg[u]
      BY <2>2 DEF lock_acquire, acquire, At, GoTo, semaVars
    <3> QED BY <3>1, OutsideStep DEF Between
  <2>3. ASSUME NEW l \in Locks, lock_release(t, l) PROVE LockInv'
    <3>1. /\ pc[t] = "run" /\ pc'[t] = "reset" /\ arg'[t] = l /\ holder[l] = t
          /\ UNCHANGED <<holder, value>>
          /\ \A u \in Threads \ {t} : pc'[u] = pc[u] /\ arg'[u] = arg[u]
      BY Zenon, <2>3 DEF lock_release, release, At, GoTo, semaVars
    <3> QED BY Zenon, <3>1, OutsideStep DEF Between
  <2>4. CASE lock_enlist(t) \/ lock_reset(t)
    <3>1. /\ pc[t] \in {"enlist", "reset"} /\ pc'[t] \in {"run", "clear"}
          /\ pc'[t] = "clear" => pc[t] = "reset" /\ arg'[t] = arg[t]
          /\ UNCHANGED <<holder, value>>
          /\ \A u \in Threads \ {t} : pc'[u] = pc[u] /\ arg'[u] = arg[u]
      BY Zenon, <2>4 DEF lock_enlist, lock_reset, At, GoTo, Return, semaVars, lockVars
    <3> QED BY Zenon, <3>1, OutsideStep DEF Between, LockInv, HolderPlaced
  <2> QED BY Zenon, <1>4, <2>1, <2>2, <2>3, <2>4 DEF LockOps
<1>5. ASSUME NEW t \in Threads, CondOps(t) PROVE LockInv'
  <2>1. ASSUME NEW c \in Conds, cond_wait(t, c) PROVE LockInv'
    <3>1. /\ pc[t] = "run" /\ pc'[t] = "reset" /\ arg'[t] = CondLock[c]
          /\ holder[CondLock[c]] = t /\ UNCHANGED holder
          /\ \A l \in Locks : value'[l] = value[l]
          /\ \A u \in Threads \ {t} : pc'[u] = pc[u] /\ arg'[u] = arg[u]
      BY <2>1 DEF cond_wait, release, At, GoTo
    <3> QED BY ZenonT(60), <3>1, OutsideStep DEF Between
  <2>2. ASSUME NEW c \in Conds, signal(t, c), pc[t] \in {"run", "bcast"}
        PROVE  LockInv'
    <3>1. \A e \in Threads : cond_priority[e] \in Int
      BY ZenonT(60), PriorityInt DEF TypeOK
    <3> DEFINE w == list_sort(cond_waiters[c], cond_priority)
    <3>2. w \in Seq(Threads) /\ w # <<>> /\ arg'[t] = Head(w)
      <4>1. cond_waiters[c] \in Seq(Threads)
        BY Zenon DEF TypeOK
      <4>2. w \in Seq(Threads)
        BY <3>1, <4>1, SortProperties
      <4>3. w # <<>> /\ arg' = [arg EXCEPT ![t] = Head(w)]
        BY Zenon, <2>2 DEF signal
      <4>4. arg \in [Threads -> SemaIds \cup {NoLock}]
        BY Zenon DEF TypeOK
      <4> HIDE DEF w
      <4> QED BY <4>2, <4>3, <4>4
    <3> HIDE DEF w
    <3>3. arg'[t] \notin Locks
      BY <3>2
    <3>4. /\ pc'[t] = "up" /\ UNCHANGED <<holder, value>>
          /\ \A u \in Threads \ {t} : pc'[u] = pc[u] /\ arg'[u] = arg[u]
      BY Zenon, <2>2 DEF signal, GoTo, lockVars, semaVars
    <3> QED BY Zenon, <2>2, <3>3, <3>4, OutsideStep DEF Between
  <2>3. ASSUME NEW c \in Conds, cond_signal(t, c) PROVE LockInv'
    BY Zenon, <2>2, <2>3 DEF cond_signal, At
  <2>4. CASE broadcast_next(t)
    <3>1. cond[t] \in Conds
      BY Zenon, <2>4 DEF broadcast_next, At, Located
    <3> QED BY Zenon, <2>2, <2>4, <3>1 DEF broadcast_next, At
  <2>5. ASSUME NEW c \in Conds, cond_broadcast(t, c) PROVE LockInv'
    <3>1. /\ pc[t] = "run" /\ pc'[t] = "bcast" /\ UNCHANGED <<holder, value>>
          /\ \A u \in Threads \ {t} : pc'[u] = pc[u] /\ arg'[u] = arg[u]
      BY Zenon, <2>5 DEF cond_broadcast, At, GoTo, semaVars, lockVars
    <3> QED BY <3>1, OutsideStep DEF Between
  <2>6. CASE cond_reacquire(t) \/ broadcast_done(t)
    <3>1. /\ pc[t] \in {"reacq", "bcast"} /\ pc'[t] \in {"down", "run"}
          /\ UNCHANGED <<holder, value>>
          /\ \A u \in Threads \ {t} : pc'[u] = pc[u] /\ arg'[u] = arg[u]
      BY Zenon, <2>6 DEF cond_reacquire, acquire, broadcast_done, At, GoTo, Return,
                        semaVars, lockVars
    <3> QED BY Zenon, <3>1, OutsideStep DEF Between
  <2> QED BY Zenon, <1>5, <2>1, <2>3, <2>4, <2>5, <2>6 DEF CondOps
<1>6. ASSUME NEW t \in Threads, ExitOps(t) PROVE LockInv'
  <2>1. CASE thread_exit(t) \/ exit_unlink(t)
    <3>1. /\ pc[t] \in {"run", "unlink"} /\ pc'[t] = "exit" /\ UNCHANGED <<holder, value>>
          /\ \A u \in Threads \ {t} : pc'[u] = pc[u] /\ arg'[u] = arg[u]
      BY Zenon, <2>1 DEF thread_exit, exit_unlink, At, GoTo, semaVars, lockVars
    <3> QED BY Zenon, <3>1, OutsideStep DEF Between
  <2>2. CASE exit_release(t)
    <3>1. /\ pc[t] = "exit" /\ pc'[t] = "reset" /\ arg'[t] = cursor[t]
          /\ holder[cursor[t]] = t /\ UNCHANGED <<holder, value>>
          /\ \A u \in Threads \ {t} : pc'[u] = pc[u] /\ arg'[u] = arg[u]
      BY Zenon, <2>2 DEF exit_release, release, At, GoTo, semaVars
    <3> QED BY Zenon, <3>1, OutsideStep DEF Between
  <2>3. CASE exit_die(t)
    BY Zenon, <1>1, <2>3 DEF exit_die, ctlVars, lockVars, semaVars
  <2> QED BY Zenon, <1>6, <2>1, <2>2, <2>3 DEF ExitOps
<1>7. CASE Preempt \/ Tick \/ idle
  BY Zenon, <1>1, <1>7 DEF Preempt, Tick, idle, ctlVars, lockVars, semaVars
<1>8. ASSUME NEW s \in Semas, sema_up_intr(s) PROVE LockInv'
  <2>1. value' = [value EXCEPT ![s] = value[s] + 1] /\ UNCHANGED <<pc, arg, holder>>
    BY <1>8 DEF sema_up_intr, ctlVars, lockVars
  <2> QED BY ZenonT(60), <1>1, <2>1
<1>9. CASE UNCHANGED vars
  BY <1>1, <1>9 DEF vars, ctlVars, lockVars, semaVars
<1> QED
  BY <1>2, <1>3, <1>4, <1>5, <1>6, <1>7, <1>8, <1>9 DEF Next, Step

\* At boot no lock is held.
LEMMA InitLockInv == Init => LockInv
<1> SUFFICES ASSUME Init PROVE LockInv
  OBVIOUS
<1>1. TypeOK
  BY InitType
<1>2. \A t \in Threads, l \in Locks : ~Inside(t, l)
  BY SynchAssumption DEF Init, Inside, SynchAssumption, All
<1>3. LockMutex
  BY <1>2 DEF Init, LockMutex, SemaIds
<1>4. HolderPlaced
  BY DEF Init, HolderPlaced
<1> QED BY <1>1, <1>3, <1>4 DEF LockInv

\* Locks exclude, for any number of threads and locks and whatever the callers
\* do: preemption inside lock_acquire and lock_release, condition variables
\* and the releases of thread_exit included.
THEOREM LocksExclude == Spec => []LockMutex
<1>1. LockInv => LockMutex
  BY DEF LockInv
<1> QED
  BY <1>1, InitLockInv, NextLockInv, PTL DEF Spec

-----------------------------------------------------------------------------
\* t is taking or giving back l, which is not (or no longer) on its lock_list.
Busy(t, l) == pc[t] \in {"enlist", "reset", "clear"} /\ arg[t] = l

\* t is in the loop of thread_exit.
Exiting(t) == pc[t] \in {"exit", "unlink"} \/ cont[t] = "unlink"

\* A thread's lock_list holds, once each, locks that the thread holds, and so
\* does the cursor of thread_exit, which outlives a release: neither is the lock
\* whose release is under way.
OwnInv ==
  /\ \A t \in Threads : IsInjective(lock_list[t])
  /\ \A t \in Threads, l \in Locks :
       Contains(lock_list[t], l) => holder[l] = t /\ ~Busy(t, l)
  /\ \A t \in Threads : cont[t] = "unlink" =>
       /\ pc[t] \in {"reset", "clear", "up", "unlink", "exit"}
       /\ pc[t] = "up" => arg[t] \in Locks
  /\ \A t \in Threads : Exiting(t) /\ cursor[t] # NoLock =>
       holder[cursor[t]] = t /\ ~Busy(t, cursor[t])

\* A step of r that leaves the locks' owners and the lists alone, starts no
\* work on a lock and is not the start of thread_exit.
LEMMA OwnFrame ==
  ASSUME OwnInv, NEW r \in Threads, UNCHANGED <<lock_list, holder>>,
         \A u \in Threads \ {r} : /\ pc'[u] = pc[u] /\ arg'[u] = arg[u]
                                  /\ cont'[u] = cont[u] /\ cursor'[u] = cursor[u],
         \A l \in Locks : Busy(r, l)' => Busy(r, l),
         Exiting(r)' => Exiting(r) /\ cursor'[r] = cursor[r],
         cont'[r] = "unlink" => /\ pc'[r] \in {"reset", "clear", "up", "unlink", "exit"}
                                /\ pc'[r] = "up" => arg'[r] \in Locks,
         cursor \in [Threads -> Locks \cup {NoLock}]
  PROVE  OwnInv'
<1>1. ASSUME NEW t \in Threads
      PROVE  /\ \A l \in Locks : Busy(t, l)' => Busy(t, l)
             /\ Exiting(t)' => Exiting(t) /\ cursor'[t] = cursor[t]
             /\ cont'[t] = "unlink" => /\ pc'[t] \in {"reset", "clear", "up", "unlink", "exit"}
                                       /\ pc'[t] = "up" => arg'[t] \in Locks
  <2>1. CASE t = r
    BY ZenonT(60), <2>1
  <2>2. CASE t # r
    BY <2>2 DEF Busy, Exiting, OwnInv
  <2> QED BY ZenonT(60), <2>1, <2>2
<1>2. \A t \in Threads, l \in Locks :
        Contains(lock_list'[t], l) => holder'[l] = t /\ ~Busy(t, l)'
  BY Zenon, <1>1 DEF OwnInv
<1>3. ASSUME NEW t \in Threads, Exiting(t)', cursor'[t] # NoLock
      PROVE  holder'[cursor'[t]] = t /\ ~Busy(t, cursor[t])'
  <2>1. Exiting(t) /\ cursor'[t] = cursor[t] /\ cursor[t] \in Locks
    BY ZenonT(60), <1>1, <1>3
  <2>2. holder[cursor[t]] = t /\ ~Busy(t, cursor[t])
    BY ZenonT(60), <1>3, <2>1 DEF OwnInv
  <2>3. ~Busy(t, cursor[t])'
    <3>1. \A l \in Locks : l = cursor[t] => ~Busy(t, l)'
      BY ZenonT(60), <1>1, <2>2
    <3> QED BY <2>1, <3>1 DEF Busy
  <2> QED BY ZenonT(60), <2>1, <2>2, <2>3
<1>4. \A t \in Threads : IsInjective(lock_list'[t])
  BY DEF OwnInv
<1> QED BY ZenonT(60), <1>1, <1>2, <1>3, <1>4 DEF OwnInv

\* lock_acquire: the lock has no holder, so it is on no list, when its holder
\* is set; and it is not yet on the list when it is put there.
LEMMA AcquireOwns ==
  ASSUME LockInv, TypeOK', OwnInv, NEW t \in Threads, lock_own(t) \/ lock_enlist(t)
  PROVE  OwnInv'
<1> DEFINE l == arg[t]
<1>0. /\ pc \in [Threads -> PC] /\ holder \in [Locks -> Threads \cup {NoThread}]
      /\ lock_list \in [Threads -> Seq(Locks)] /\ lock_list[t] \in Seq(Locks)
      /\ NoThread \notin Threads /\ l \in Locks
      /\ cursor \in [Threads -> Locks \cup {NoLock}]
      /\ arg \in [Threads -> SemaIds \cup {NoLock}]
  BY ZenonT(60), SynchAssumption DEF SynchAssumption, LockInv, TypeOK, All, ArgOK, Located,
     lock_own, lock_enlist, At
<1> USE <1>0
<1>1. CASE lock_own(t)
  <2>1. /\ pc[t] = "own" /\ holder' = [holder EXCEPT ![l] = t] /\ pc' = [pc EXCEPT ![t] = "enlist"]
        /\ UNCHANGED <<lock_list, arg, cont, cursor>>
    BY <1>1 DEF lock_own, At, GoTo
  <2>2. holder[l] = NoThread
    BY <2>1 DEF LockInv, HolderPlaced
  <2> HIDE DEF l
  <2>3. /\ pc'[t] = "enlist" /\ \A u \in Threads \ {t} : pc'[u] = pc[u]
        /\ \A m \in Locks : m # l => holder'[m] = holder[m]
    BY Zenon, <2>1
  <2>4. \A u \in Threads : /\ ~Contains(lock_list[u], l)
                           /\ Exiting(u) /\ cursor[u] # NoLock => cursor[u] # l
    BY <2>2 DEF OwnInv
  <2>5. \A u \in Threads : \A m \in Locks : m # l => (Busy(u, m)' <=> Busy(u, m))
    BY <2>1, <2>3 DEF Busy, l
  <2>6. \A u \in Threads : Exiting(u)' => Exiting(u)
    BY Zenon, <2>1, <2>3 DEF Exiting
  <2>7. \A u \in Threads : cont'[u] = "unlink" =>
          /\ pc'[u] \in {"reset", "clear", "up", "unlink", "exit"}
          /\ pc'[u] = "up" => arg'[u] \in Locks
    BY ZenonT(60), <2>1, <2>3 DEF OwnInv
  <2>8. ASSUME NEW u \in Threads, NEW m \in Locks, Contains(lock_list'[u], m)
        PROVE  holder'[m] = u /\ ~Busy(u, m)'
    BY <2>1, <2>3, <2>4, <2>5, <2>8 DEF OwnInv
  <2>9. ASSUME NEW u \in Threads, Exiting(u)', cursor'[u] # NoLock
        PROVE  holder'[cursor'[u]] = u /\ ~Busy(u, cursor[u])'
    <3>1. cursor'[u] = cursor[u] /\ cursor[u] \in Locks /\ cursor[u] # l /\ Exiting(u)
      BY ZenonT(60), <2>1, <2>4, <2>6, <2>9
    <3>2. holder[cursor[u]] = u /\ ~Busy(u, cursor[u])
      BY Zenon, <2>1, <2>9, <3>1 DEF OwnInv
    <3>3. ~Busy(u, cursor[u])'
      BY ZenonT(60), <2>1, <2>3, <3>1, <3>2 DEF Busy, l
    <3> QED BY Zenon, <2>3, <3>1, <3>2, <3>3
  <2>10. \A u \in Threads : IsInjective(lock_list'[u])
    BY <2>1 DEF OwnInv
  <2> QED BY ZenonT(60), <2>7, <2>8, <2>9, <2>10 DEF OwnInv
<1>2. CASE lock_enlist(t)
  <2> DEFINE w == list_insert_ordered(lock_list[t], l, lock_priority')
  <2>1. /\ pc[t] = "enlist" /\ lock_list' = [lock_list EXCEPT ![t] = w]
        /\ pc' = [pc EXCEPT ![t] = "run"] /\ arg' = [arg EXCEPT ![t] = NoLock]
        /\ UNCHANGED <<holder, cont, cursor>>
    BY Zenon, <1>2 DEF lock_enlist, At, Return
  <2>2. holder[l] = t /\ Busy(t, l)
    BY <2>1 DEF LockInv, HolderPlaced, Busy
  <2>3. /\ IsInjective(lock_list[t]) /\ ~Contains(lock_list[t], l) /\ cont[t] # "unlink"
    BY ZenonT(60), <2>1, <2>2 DEF OwnInv
  <2> HIDE DEF l
  <2>4. /\ IsInjective(w) /\ \A e : Contains(w, e) <=> e = l \/ Contains(lock_list[t], e)
    BY <2>3, InsertProperties, InsertOnce
  <2> HIDE DEF w
  <2>5. /\ lock_list'[t] = w /\ \A u \in Threads \ {t} : lock_list'[u] = lock_list[u]
        /\ pc'[t] = "run" /\ \A u \in Threads \ {t} : pc'[u] = pc[u] /\ arg'[u] = arg[u]
    BY ZenonT(60), <2>1
  <2>6. \A m \in Locks : ~Busy(t, m)'
    BY <2>5 DEF Busy
  <2>7. ~Exiting(t)'
    BY Zenon, <2>1, <2>3, <2>5 DEF Exiting
  <2>8. ASSUME NEW u \in Threads, NEW m \in Locks, Contains(lock_list'[u], m)
        PROVE  holder'[m] = u /\ ~Busy(u, m)'
    <3>1. CASE u = t
      BY <2>1, <2>2, <2>4, <2>5, <2>6, <2>8, <3>1 DEF OwnInv
    <3>2. CASE u # t
      BY <2>1, <2>5, <2>8, <3>2 DEF OwnInv, Busy
    <3> QED BY ZenonT(60), <3>1, <3>2
  <2>9. ASSUME NEW u \in Threads, Exiting(u)', cursor'[u] # NoLock
        PROVE  holder'[cursor'[u]] = u /\ ~Busy(u, cursor[u])'
    BY <2>1, <2>5, <2>7, <2>9 DEF OwnInv, Exiting, Busy
  <2>10. \A u \in Threads : IsInjective(lock_list'[u])
    BY ZenonT(60), <2>4, <2>5 DEF OwnInv
  <2>11. \A u \in Threads : cont'[u] = "unlink" =>
           /\ pc'[u] \in {"reset", "clear", "up", "unlink", "exit"}
           /\ pc'[u] = "up" => arg'[u] \in Locks
    BY <2>1, <2>3, <2>5 DEF OwnInv
  <2> QED BY ZenonT(60), <2>8, <2>9, <2>10, <2>11 DEF OwnInv
<1> QED BY Zenon, <1>1, <1>2

\* lock_release takes the lock off the list before anything else; thread_exit
\* has moved its cursor to another lock of the list by then.
LEMMA ReleaseOwns ==
  ASSUME TypeOK, TypeOK', OwnInv, NEW t \in Threads, NEW l \in Locks, NEW k \in Conts,
         holder[l] = t, release(t, l, k),
         \A u \in Threads \ {t} : cursor'[u] = cursor[u],
         k = "unlink" /\ cursor'[t] # NoLock =>
           cursor'[t] # l /\ Contains(lock_list[t], cursor'[t])
  PROVE  OwnInv'
<1> DEFINE r == list_remove(lock_list[t], l)
           w == list_sort(r, lock_priority)
<1>0. /\ pc \in [Threads -> PC] /\ arg \in [Threads -> SemaIds \cup {NoLock}]
      /\ cont \in [Threads -> Conts] /\ lock_list \in [Threads -> Seq(Locks)]
      /\ lock_list[t] \in Seq(Locks) /\ \A e \in Locks : lock_priority[e] \in Int
      /\ cursor' \in [Threads -> Locks \cup {NoLock}]
  BY PriorityInt DEF TypeOK
<1> USE <1>0
<1>1. /\ lock_list' = [lock_list EXCEPT ![t] = w] /\ pc' = [pc EXCEPT ![t] = "reset"]
      /\ arg' = [arg EXCEPT ![t] = l] /\ cont' = [cont EXCEPT ![t] = k] /\ UNCHANGED holder
  BY ZenonT(60) DEF release, GoTo
<1>2. IsInjective(lock_list[t])
  BY ZenonT(60) DEF OwnInv
<1>3. /\ r \in Seq(Locks) /\ IsInjective(r)
      /\ \A e : Contains(r, e) <=> Contains(lock_list[t], e) /\ e # l
  BY ZenonT(60), <1>2, ListRemoveOnce
<1> HIDE DEF r
<1>4. /\ IsInjective(w) /\ \A e : Contains(w, e) <=> Contains(r, e)
  BY ZenonT(60), <1>3, SortProperties, SortOrders
<1> HIDE DEF w
<1>5. /\ lock_list'[t] = w /\ pc'[t] = "reset" /\ arg'[t] = l /\ cont'[t] = k
      /\ \A u \in Threads \ {t} : /\ pc'[u] = pc[u] /\ arg'[u] = arg[u] /\ cont'[u] = cont[u]
                                  /\ lock_list'[u] = lock_list[u]
  BY ZenonT(60), <1>1
<1>6. \A m \in Locks : Busy(t, m)' <=> m = l
  BY <1>5 DEF Busy
<1>7. ASSUME NEW u \in Threads, NEW m \in Locks, Contains(lock_list'[u], m)
      PROVE  holder'[m] = u /\ ~Busy(u, m)'
  <2>1. CASE u = t
    <3>1. Contains(lock_list[t], m) /\ m # l
      BY ZenonT(60), <1>3, <1>4, <1>5, <1>7, <2>1
    <3> QED BY Zenon, <1>1, <1>6, <2>1, <3>1 DEF OwnInv
  <2>2. CASE u # t
    <3>1. Contains(lock_list[u], m)
      BY Zenon, <1>5, <1>7, <2>2
    <3>2. holder[m] = u /\ ~Busy(u, m)
      BY Zenon, <3>1 DEF OwnInv
    <3> QED BY Zenon, <1>1, <1>5, <2>2, <3>2 DEF Busy
  <2> QED BY Zenon, <2>1, <2>2
<1>8. ASSUME NEW u \in Threads, Exiting(u)', cursor'[u] # NoLock
      PROVE  holder'[cursor'[u]] = u /\ ~Busy(u, cursor[u])'
  <2>1. CASE u = t
    <3>1. k = "unlink"
      BY Zenon, <1>5, <1>8, <2>1 DEF Exiting
    <3>2. cursor'[t] # l /\ Contains(lock_list[t], cursor'[t]) /\ cursor'[t] \in Locks
      BY Zenon, <1>8, <2>1, <3>1
    <3>3. holder[cursor'[t]] = t
      BY Zenon, <3>2 DEF OwnInv
    <3> QED BY ZenonT(60), <1>1, <1>5, <2>1, <3>2, <3>3 DEF Busy
  <2>2. CASE u # t
    <3>1. Exiting(u) /\ cursor'[u] = cursor[u]
      BY Zenon, <1>5, <1>8, <2>2 DEF Exiting
    <3>2. holder[cursor[u]] = u /\ ~Busy(u, cursor[u])
      BY Zenon, <1>8, <3>1 DEF OwnInv
    <3> QED BY ZenonT(60), <1>1, <1>5, <2>2, <3>1, <3>2 DEF Busy
  <2> QED BY Zenon, <2>1, <2>2
<1>9. \A u \in Threads : IsInjective(lock_list'[u])
  BY Zenon, <1>4, <1>5 DEF OwnInv
<1>10. \A u \in Threads : cont'[u] = "unlink" =>
         /\ pc'[u] \in {"reset", "clear", "up", "unlink", "exit"}
         /\ pc'[u] = "up" => arg'[u] \in Locks
  BY ZenonT(60), <1>5 DEF OwnInv
<1> QED BY ZenonT(60), <1>7, <1>8, <1>9, <1>10 DEF OwnInv

\* lock_release clears the holder of a lock that is on no list.
LEMMA ClearOwns ==
  ASSUME LockInv, TypeOK', OwnInv, NEW t \in Threads, lock_clear(t)
  PROVE  OwnInv'
<1> DEFINE l == arg[t]
<1>0. /\ pc \in [Threads -> PC] /\ holder \in [Locks -> Threads \cup {NoThread}]
      /\ l \in Locks /\ cursor \in [Threads -> Locks \cup {NoLock}]
  BY ZenonT(60) DEF LockInv, TypeOK, ArgOK, Located, lock_clear, At
<1> USE <1>0
<1>1. /\ pc[t] = "clear" /\ holder' = [holder EXCEPT ![l] = NoThread]
      /\ pc' = [pc EXCEPT ![t] = "up"] /\ UNCHANGED <<lock_list, arg, cont, cursor>>
  BY DEF lock_clear, At, GoTo
<1>2. holder[l] = t /\ Busy(t, l)
  BY <1>1 DEF LockInv, HolderPlaced, Busy
<1> HIDE DEF l
<1>3. /\ pc'[t] = "up" /\ \A u \in Threads \ {t} : pc'[u] = pc[u]
      /\ \A m \in Locks : m # l => holder'[m] = holder[m]
  BY <1>1
<1>4. \A u \in Threads : /\ ~Contains(lock_list[u], l)
                         /\ Exiting(u) /\ cursor[u] # NoLock => cursor[u] # l
  <2>1. ASSUME NEW u \in Threads, Contains(lock_list[u], l) PROVE FALSE
    BY Zenon, <1>2, <2>1 DEF OwnInv
  <2>2. ASSUME NEW u \in Threads, Exiting(u), cursor[u] # NoLock, cursor[u] = l PROVE FALSE
    BY ZenonT(60), <1>2, <2>2 DEF OwnInv
  <2> QED BY Zenon, <2>1, <2>2
<1>5. \A u \in Threads, m \in Locks : Busy(u, m)' => Busy(u, m)
  BY Zenon, <1>1, <1>3 DEF Busy
<1>6. \A u \in Threads : Exiting(u)' => Exiting(u)
  BY <1>1, <1>3 DEF Exiting
<1>7. ASSUME NEW u \in Threads, NEW m \in Locks, Contains(lock_list'[u], m)
      PROVE  holder'[m] = u /\ ~Busy(u, m)'
  <2>1. Contains(lock_list[u], m) /\ m # l
    BY ZenonT(60), <1>1, <1>4, <1>7
  <2>2. holder[m] = u /\ ~Busy(u, m)
    BY ZenonT(60), <2>1 DEF OwnInv
  <2> QED BY ZenonT(60), <1>3, <1>5, <2>1, <2>2
<1>8. ASSUME NEW u \in Threads, Exiting(u)', cursor'[u] # NoLock
      PROVE  holder'[cursor'[u]] = u /\ ~Busy(u, cursor[u])'
  <2>1. cursor'[u] = cursor[u] /\ cursor[u] \in Locks /\ cursor[u] # l /\ Exiting(u)
    BY ZenonT(60), <1>1, <1>4, <1>6, <1>8
  <2>2. holder[cursor[u]] = u /\ ~Busy(u, cursor[u])
    BY ZenonT(60), <1>1, <1>8, <2>1 DEF OwnInv
  <2>3. ~Busy(u, cursor[u])'
    BY <1>1, <1>3, <2>1, <2>2 DEF Busy
  <2> QED BY ZenonT(60), <1>3, <2>1, <2>2, <2>3
<1>9. \A u \in Threads : cont'[u] = "unlink" =>
        /\ pc'[u] \in {"reset", "clear", "up", "unlink", "exit"}
        /\ pc'[u] = "up" => arg'[u] \in Locks
  BY ZenonT(60), <1>1, <1>3 DEF OwnInv, l
<1>10. \A u \in Threads : IsInjective(lock_list'[u])
  BY <1>1 DEF OwnInv
<1> QED BY Zenon, <1>7, <1>8, <1>9, <1>10 DEF OwnInv

\* The part of a list from a place on holds elements of the list, once.
LEMMA SuffixOnce ==
  ASSUME NEW S, NEW s \in Seq(S), IsInjective(s), NEW i \in 1 .. Len(s)
  PROVE  /\ IsInjective(SubSeq(s, i, Len(s)))
         /\ \A e : Contains(SubSeq(s, i, Len(s)), e) => Contains(s, e)
<1> DEFINE r == SubSeq(s, i, Len(s))
<1>1. /\ Len(r) = Len(s) - i + 1 /\ DOMAIN r = 1 .. Len(s) - i + 1
      /\ \A j \in 1 .. Len(s) - i + 1 : r[j] = s[i + j - 1]
  OBVIOUS
<1> HIDE DEF r
<1>2. \A j \in 1 .. Len(s) - i + 1 : i + j - 1 \in 1 .. Len(s)
  OBVIOUS
<1>3. \A j \in 1 .. Len(s), m \in 1 .. Len(s) : s[j] = s[m] => j = m
  BY DEF IsInjective
<1>4. IsInjective(r)
  <2> SUFFICES ASSUME NEW a \in 1 .. Len(s) - i + 1, NEW b \in 1 .. Len(s) - i + 1, r[a] = r[b]
               PROVE  a = b
    BY <1>1 DEF IsInjective
  <2>1. s[i + a - 1] = s[i + b - 1]
    BY <1>1
  <2>2. i + a - 1 = i + b - 1
    BY <1>2, <1>3, <2>1
  <2> QED BY <2>2
<1>5. ASSUME NEW e, Contains(r, e) PROVE Contains(s, e)
  <2>1. PICK j \in 1 .. Len(s) - i + 1 : r[j] = e
    BY <1>1, <1>5 DEF Contains
  <2>2. s[i + j - 1] = e /\ i + j - 1 \in 1 .. Len(s)
    BY <1>1, <1>2, <2>1
  <2> QED BY <2>2 DEF Contains
<1> QED BY <1>4, <1>5 DEF r

\* thread_exit starts at the front of its list; the second list_remove in its
\* loop only takes locks off lists.
LEMMA ExitOwns ==
  ASSUME TypeOK, TypeOK', OwnInv, NEW t \in Threads, thread_exit(t) \/ exit_unlink(t)
  PROVE  OwnInv'
<1>0. /\ pc \in [Threads -> PC] /\ lock_list \in [Threads -> Seq(Locks)]
      /\ \A u \in Threads : lock_list[u] \in Seq(Locks)
      /\ cursor \in [Threads -> Locks \cup {NoLock}] /\ cursor' \in [Threads -> Locks \cup {NoLock}]
  BY ZenonT(60) DEF TypeOK
<1> USE <1>0
<1>1. /\ pc' = [pc EXCEPT ![t] = "exit"] /\ UNCHANGED <<arg, cont, holder>>
      /\ pc[t] \in {"run", "unlink"}
      /\ \A u \in Threads \ {t} : cursor'[u] = cursor[u]
  BY DEF thread_exit, exit_unlink, GoTo, At, lockVars
<1>2. pc'[t] = "exit" /\ \A u \in Threads \ {t} : pc'[u] = pc[u]
  BY Zenon, <1>1
<1>3. /\ \A u \in Threads \ {t}, l \in Locks : Busy(u, l)' <=> Busy(u, l)
      /\ \A l : ~Busy(t, l)'
  BY Zenon, <1>1, <1>2 DEF Busy
<1>4. ASSUME NEW u \in Threads
      PROVE  /\ IsInjective(lock_list'[u])
             /\ \A e \in Locks : Contains(lock_list'[u], e) => Contains(lock_list[u], e)
  <2>0. IsInjective(lock_list[u]) /\ IsInjective(lock_list[t])
    BY Zenon DEF OwnInv
  <2>1. CASE thread_exit(t)
    BY ZenonT(60), <2>0, <2>1 DEF thread_exit, lockVars
  <2>2. CASE exit_unlink(t) /\ \E v \in Threads : Contains(lock_list[v], arg[t])
    <3>1. lock_list'[u] = list_remove(lock_list[u], arg[t])
      BY Zenon, <2>2 DEF exit_unlink
    <3> QED BY <2>0, <3>1, ListRemoveOnce
  <2>3. CASE exit_unlink(t) /\ ~\E v \in Threads : Contains(lock_list[v], arg[t])
    <3> DEFINE ll == lock_list[t]
               r == IF cursor[t] = NoLock THEN <<>>
                    ELSE IF Contains(ll, cursor[t])
                         THEN SubSeq(ll, Place(ll, cursor[t]), Len(ll)) ELSE ll
    <3>1. lock_list' = [lock_list EXCEPT ![t] = r]
      BY Zenon, <2>3 DEF exit_unlink
    <3>2. IsInjective(r) /\ \A e : Contains(r, e) => Contains(ll, e)
      <4>1. CASE cursor[t] = NoLock
        BY <4>1 DEF IsInjective, Contains
      <4>2. CASE cursor[t] # NoLock /\ Contains(ll, cursor[t])
        <5>1. Place(ll, cursor[t]) \in 1 .. Len(ll)
          BY <4>2 DEF Place, Contains
        <5> QED BY <2>0, <4>2, <5>1, SuffixOnce
      <4>3. CASE cursor[t] # NoLock /\ ~Contains(ll, cursor[t])
        BY <2>0, <4>3
      <4> QED BY ZenonT(60), <4>1, <4>2, <4>3
    <3> HIDE DEF r
    <3> QED BY Zenon, <2>0, <3>1, <3>2
  <2> QED BY Zenon, <2>1, <2>2, <2>3
<1>5. ASSUME NEW u \in Threads, NEW m \in Locks, Contains(lock_list'[u], m)
      PROVE  holder'[m] = u /\ ~Busy(u, m)'
  <2>1. Contains(lock_list[u], m)
    BY <1>4, <1>5
  <2>2. holder[m] = u /\ ~Busy(u, m)
    BY Zenon, <2>1 DEF OwnInv
  <2> QED BY ZenonT(60), <1>1, <1>3, <2>2
<1>6. ASSUME NEW u \in Threads, Exiting(u)', cursor'[u] # NoLock
      PROVE  holder'[cursor'[u]] = u /\ ~Busy(u, cursor[u])'
  <2>1. CASE u # t
    <3>1. Exiting(u) /\ cursor'[u] = cursor[u]
      BY Zenon, <1>1, <1>2, <1>6, <2>1 DEF Exiting
    <3>2. holder[cursor[u]] = u /\ ~Busy(u, cursor[u])
      BY Zenon, <1>6, <3>1 DEF OwnInv
    <3> QED BY ZenonT(60), <1>1, <1>2, <2>1, <3>1, <3>2 DEF Busy
  <2>2. CASE u = t /\ thread_exit(t)
    <3>1. cursor'[t] = FirstLock(lock_list[t]) /\ lock_list[t] \in Seq(Locks)
      BY <2>2 DEF thread_exit
    <3>2. Contains(lock_list[t], cursor'[t]) /\ cursor'[t] \in Locks
      BY <1>6, <2>2, <3>1 DEF FirstLock, Contains
    <3>3. holder[cursor'[t]] = t
      BY ZenonT(60), <3>2 DEF OwnInv
    <3> QED BY ZenonT(60), <1>1, <1>2, <2>2, <3>3 DEF Busy
  <2>3. CASE u = t /\ exit_unlink(t)
    <3>1. Exiting(t) /\ cursor'[t] = cursor[t]
      BY Zenon, <2>3 DEF exit_unlink, At, Exiting
    <3>2. holder[cursor[t]] = t
      BY ZenonT(60), <1>6, <2>3, <3>1 DEF OwnInv
    <3> QED BY ZenonT(60), <1>1, <1>2, <2>3, <3>1, <3>2 DEF Busy
  <2> QED BY <2>1, <2>2, <2>3
<1>7. \A u \in Threads : cont'[u] = "unlink" =>
        /\ pc'[u] \in {"reset", "clear", "up", "unlink", "exit"}
        /\ pc'[u] = "up" => arg'[u] \in Locks
  BY ZenonT(60), <1>1, <1>2 DEF OwnInv
<1>8. \A u \in Threads : IsInjective(lock_list'[u])
  BY <1>4
<1> QED BY ZenonT(60), <1>5, <1>6, <1>7, <1>8 DEF OwnInv

\* Where the loop of thread_exit goes next: to another lock of the list.
LEMMA NextIsOther ==
  ASSUME NEW ll \in Seq(Locks), IsInjective(ll), NEW l, NEW n \in NextLock(ll, l), n # NoLock
  PROVE  n # l /\ Contains(ll, n)
<1>1. CASE ~Contains(ll, l)
  BY <1>1 DEF NextLock, Contains, Range
<1>2. CASE Contains(ll, l)
  <2>1. Place(ll, l) \in 1 .. Len(ll) /\ ll[Place(ll, l)] = l
    BY <1>2 DEF Place, Contains
  <2>2. /\ Place(ll, l) < Len(ll) /\ n = ll[Place(ll, l) + 1]
        /\ Place(ll, l) + 1 \in 1 .. Len(ll) /\ Place(ll, l) + 1 # Place(ll, l)
    BY <1>2, <2>1 DEF NextLock
  <2> QED BY <2>1, <2>2 DEF IsInjective, Contains
<1> QED BY ZenonT(60), <1>1, <1>2

\* Every step keeps each lock_list, and the cursor of thread_exit, to the locks that
\* their thread holds.
LEMMA NextOwns == LockInv /\ OwnInv /\ [Next]_vars => OwnInv'
<1> SUFFICES ASSUME LockInv, OwnInv, [Next]_vars PROVE OwnInv'
  OBVIOUS
<1>0. /\ TypeOK /\ TypeOK' /\ Main \in Threads
      /\ pc \in [Threads -> PC] /\ arg \in [Threads -> SemaIds \cup {NoLock}]
      /\ cont \in [Threads -> Conts] /\ cursor \in [Threads -> Locks \cup {NoLock}]
      /\ lock_list \in [Threads -> Seq(Locks)]
      /\ Locks \cap Threads = {} /\ Locks \cap Semas = {} /\ NoLock \notin Locks
      /\ \A t \in Threads : Located(pc[t], arg[t], cont[t], cond[t])
      /\ \A t \in Threads : cont[t] = "unlink" =>
           /\ pc[t] \in {"reset", "clear", "up", "unlink", "exit"}
           /\ pc[t] = "up" => arg[t] \in Locks
  BY ZenonT(60), NextType, ThreadAssumption, SynchAssumption
     DEF ThreadAssumption, SynchAssumption, LockInv, TypeOK, SemaIds, ArgOK, OwnInv
<1> USE <1>0
<1>1. CASE UNCHANGED <<lock_list, holder, pc, arg, cont, cursor>>
  <2>1. /\ \A l \in Locks : Busy(Main, l)' => Busy(Main, l)
        /\ Exiting(Main)' => Exiting(Main)
    BY Zenon, <1>1 DEF Busy, Exiting
  <2> QED BY Zenon, <1>1, <2>1, OwnFrame
<1> DEFINE Alone(t) ==
             /\ UNCHANGED <<lock_list, holder, cursor>>
             /\ \A u \in Threads \ {t} : pc'[u] = pc[u] /\ arg'[u] = arg[u] /\ cont'[u] = cont[u]
             /\ pc'[t] \notin {"enlist", "reset", "clear", "exit", "unlink"}
             /\ cont'[t] # "unlink"
<1>2. ASSUME NEW t \in Threads, Alone(t) PROVE OwnInv'
  <2>1. /\ \A l \in Locks : ~Busy(t, l)'
        /\ ~Exiting(t)'
    BY ZenonT(60), <1>2 DEF Busy, Exiting
  <2> QED BY Zenon, <1>2, <2>1, OwnFrame
<1>3. ASSUME NEW t \in Threads, ThreadOps(t) PROVE OwnInv'
  <2>1. CASE create_yield(t)
    <3>1. Alone(t)
      BY ZenonT(60), <2>1 DEF create_yield, At, Return, lockVars
    <3> QED BY Zenon, <1>2, <3>1
  <2>2. ASSUME NEW u \in Threads, NEW p \in Priorities, thread_create(t, u, p)
        PROVE  OwnInv'
    <3>1. Alone(t)
      BY ZenonT(60), <2>2 DEF thread_create, At, GoTo, lockVars
    <3> QED BY <1>2, <3>1
  <2>3. CASE UNCHANGED <<lockVars, ctlVars>>
    BY <1>1, <2>3 DEF lockVars, ctlVars
  <2> QED BY <1>3, <2>1, <2>2, <2>3 DEF ThreadOps, thread_set_priority, sleep
<1>4. ASSUME NEW t \in Threads, SemaOps(t) PROVE OwnInv'
  <2>1. CASE sema_down_block(t)
    BY ZenonT(60), <1>1, <2>1 DEF sema_down_block, lockVars, ctlVars
  <2>2. CASE sema_down_take(t)
    <3>1. Alone(t)
      BY ZenonT(60), <2>2 DEF sema_down_take, At, GoTo, Return, lockVars
    <3> QED BY <1>2, <3>1
  <2>3. CASE sema_up(t)
    <3>1. /\ At(t, "up") /\ pc[t] = "up" /\ after_up(t)
          /\ UNCHANGED <<lock_list, holder, cont, cursor>>
      BY Zenon, <2>3 DEF sema_up, At, lockVars
    <3>2. /\ \A u \in Threads \ {t} : pc'[u] = pc[u] /\ arg'[u] = arg[u]
          /\ pc'[t] \in {"down", "unlink", "bcast", "run"}
          /\ pc'[t] = "unlink" <=> arg[t] \in Locks /\ cont[t] = "unlink"
      BY Zenon, <3>1, AfterUp
    <3>3. /\ \A l \in Locks : ~Busy(t, l)'
          /\ Exiting(t)' => Exiting(t)
      BY <3>1, <3>2 DEF Busy, Exiting
    <3>4. cont'[t] = "unlink" => pc'[t] = "unlink"
      BY Zenon, <3>1, <3>2
    <3> QED BY Zenon, <3>1, <3>2, <3>3, <3>4, OwnFrame
  <2>4. ASSUME NEW s \in Semas, call_sema_down(t, s) \/ call_sema_up(t, s)
        PROVE  OwnInv'
    <3>1. Alone(t)
      BY Zenon, <2>4 DEF call_sema_down, call_sema_up, At, GoTo, lockVars
    <3> QED BY <1>2, <3>1
  <2> QED BY ZenonT(60), <1>4, <2>1, <2>2, <2>3, <2>4 DEF SemaOps
<1>5. ASSUME NEW t \in Threads, LockOps(t) PROVE OwnInv'
  <2>1. ASSUME NEW l \in Locks, lock_acquire(t, l) PROVE OwnInv'
    <3>1. Alone(t)
      BY Zenon, <2>1 DEF lock_acquire, acquire, At, GoTo
    <3> QED BY Zenon, <1>2, <3>1
  <2>2. ASSUME NEW l \in Locks, lock_release(t, l) PROVE OwnInv'
    <3>1. holder[l] = t /\ release(t, l, "run") /\ UNCHANGED cursor /\ "run" \in Conts
      BY Zenon, <2>2 DEF lock_release, Conts
    <3> QED BY Zenon, <3>1, ReleaseOwns
  <2>3. CASE lock_own(t) \/ lock_enlist(t)
    BY Zenon, <2>3, AcquireOwns
  <2>4. CASE lock_reset(t)
    <3>1. /\ pc[t] = "reset" /\ pc'[t] = "clear" /\ \A u \in Threads \ {t} : pc'[u] = pc[u]
          /\ UNCHANGED <<lock_list, holder, arg, cont, cursor>>
      BY Zenon, <2>4 DEF lock_reset, At, GoTo, lockVars
    <3>2. /\ \A l \in Locks : Busy(t, l)' => Busy(t, l)
          /\ Exiting(t)' => Exiting(t)
      BY ZenonT(60), <3>1 DEF Busy, Exiting
    <3> QED BY ZenonT(60), <3>1, <3>2, OwnFrame
  <2>5. CASE lock_clear(t)
    BY <2>5, ClearOwns
  <2> QED BY ZenonT(60), <1>5, <2>1, <2>2, <2>3, <2>4, <2>5 DEF LockOps
<1>6. ASSUME NEW t \in Threads, CondOps(t) PROVE OwnInv'
  <2>1. ASSUME NEW c \in Conds, cond_wait(t, c) PROVE OwnInv'
    <3>1. /\ holder[CondLock[c]] = t /\ release(t, CondLock[c], "wait") /\ UNCHANGED cursor
          /\ "wait" \in Conts /\ CondLock[c] \in Locks
      BY ZenonT(60), <2>1, SynchAssumption DEF SynchAssumption, cond_wait, Conts
    <3> QED BY Zenon, <3>1, ReleaseOwns
  <2>2. ASSUME NEW c \in Conds, cond_signal(t, c) PROVE OwnInv'
    <3>1. Alone(t)
      BY Zenon, <2>2 DEF cond_signal, signal, At, GoTo, lockVars
    <3> QED BY <1>2, <3>1
  <2>3. ASSUME NEW c \in Conds, cond_broadcast(t, c) PROVE OwnInv'
    <3>1. Alone(t)
      BY Zenon, <2>3 DEF cond_broadcast, At, GoTo, lockVars
    <3> QED BY <1>2, <3>1
  <2>4. CASE broadcast_next(t)
    <3>1. Alone(t)
      BY Zenon, <2>4 DEF broadcast_next, signal, At, GoTo, lockVars
    <3> QED BY <1>2, <3>1
  <2>5. CASE broadcast_done(t)
    <3>1. Alone(t)
      BY ZenonT(60), <2>5 DEF broadcast_done, At, Return, lockVars
    <3> QED BY <1>2, <3>1
  <2>6. CASE cond_reacquire(t)
    <3>1. Alone(t)
      BY Zenon, <2>6 DEF cond_reacquire, acquire, At, GoTo
    <3> QED BY <1>2, <3>1
  <2> QED BY ZenonT(60), <1>6, <2>1, <2>2, <2>3, <2>4, <2>5, <2>6 DEF CondOps
<1>7. ASSUME NEW t \in Threads, ExitOps(t) PROVE OwnInv'
  <2>1. CASE thread_exit(t) \/ exit_unlink(t)
    BY <2>1, ExitOwns
  <2>2. CASE exit_release(t)
    <3>1. /\ cursor[t] \in Locks /\ holder[cursor[t]] = t
          /\ release(t, cursor[t], "unlink") /\ "unlink" \in Conts
      BY Zenon, <2>2 DEF exit_release, Conts
    <3>2. PICK n \in NextLock(lock_list[t], cursor[t]) : cursor' = [cursor EXCEPT ![t] = n]
      BY Zenon, <2>2 DEF exit_release
    <3>3. n # NoLock => n # cursor[t] /\ Contains(lock_list[t], n)
      BY ZenonT(60), NextIsOther DEF OwnInv
    <3>4. cursor'[t] = n /\ \A u \in Threads \ {t} : cursor'[u] = cursor[u]
      BY <3>2
    <3> QED BY Zenon, <3>1, <3>3, <3>4, ReleaseOwns
  <2>3. CASE exit_die(t)
    BY Zenon, <1>1, <2>3 DEF exit_die, lockVars, ctlVars
  <2> QED BY ZenonT(60), <1>7, <2>1, <2>2, <2>3 DEF ExitOps
<1>8. CASE Preempt \/ Tick \/ idle \/ UNCHANGED vars \/ \E s \in Semas : sema_up_intr(s)
  BY Zenon, <1>1, <1>8 DEF Preempt, Tick, idle, sema_up_intr, vars, lockVars, ctlVars
<1> QED BY ZenonT(60), <1>3, <1>4, <1>5, <1>6, <1>7, <1>8 DEF Next, Step

\* The loop of thread_exit only releases locks that the dying thread holds,
\* although the list under its cursor is changed by its own lock_release and
\* by the loop's second list_remove, and other threads run in between.
THEOREM ExitReleases == Spec => []ExitReleasesOwn
<1>1. Init => OwnInv
  <2> SUFFICES ASSUME Init PROVE OwnInv
    OBVIOUS
  <2>1. /\ lock_list = [t \in Threads |-> <<>>] /\ pc = [t \in Threads |-> "run"]
        /\ cont = [t \in Threads |-> "run"]
    BY DEF Init
  <2>2. IsInjective(<<>>) /\ \A e : ~Contains(<<>>, e)
    BY DEF IsInjective, Contains
  <2>3. \A t \in Threads : ~Exiting(t)
    BY ZenonT(60), <2>1 DEF Exiting
  <2> QED BY ZenonT(60), <2>1, <2>2, <2>3 DEF OwnInv
<1>2. OwnInv => ExitReleasesOwn
  BY DEF OwnInv, ExitReleasesOwn, Exiting
<1> QED BY <1>1, <1>2, InitLockInv, NextLockInv, NextOwns, PTL DEF Spec

-----------------------------------------------------------------------------
\* A step of t that writes priorities: it sets one thread's priority to at
\* least its base priority, or donates, which only raises.
LEMMA StepFloor ==
  ASSUME TypeOK, PriorityFloor, NEW t \in Threads, Step(t)
  PROVE  PriorityFloor'
<1>0. /\ priority \in [All -> Priorities] /\ original_priority \in [All -> Priorities]
      /\ \A u \in All : /\ priority[u] \in Int /\ original_priority[u] \in Int
                        /\ priority[u] >= original_priority[u]
      /\ Threads \subseteq All
  BY Zenon, PriorityInt DEF TypeOK, ThreadTypeOK, PriorityFloor, All
<1>1. CASE UNCHANGED prioVars
  BY Zenon, <1>0, <1>1 DEF prioVars, PriorityFloor
<1>2. ASSUME NEW u \in All, NEW p \in Int, NEW o \in Int, p >= o,
             priority' = [priority EXCEPT ![u] = p],
             original_priority' = [original_priority EXCEPT ![u] = o]
      PROVE  PriorityFloor'
  BY <1>0, <1>2 DEF PriorityFloor
<1>3. ASSUME NEW l, donate_lock(t, l), UNCHANGED original_priority
      PROVE  PriorityFloor'
  <2> DEFINE holders == {holder[m] : m \in DonationChain(t, l)}
  <2>1. priority' = [u \in All |-> IF u \in holders /\ priority[u] < priority[t]
                                   THEN priority[t] ELSE priority[u]]
    BY <1>3 DEF donate_lock
  <2> HIDE DEF holders
  <2>2. \A u \in All : priority'[u] >= priority[u] /\ priority'[u] \in Int
    BY <1>0, <2>1
  <2> QED BY <1>0, <1>3, <2>2 DEF PriorityFloor
<1>4. ASSUME ThreadOps(t) PROVE PriorityFloor'
  <2>1. CASE create_yield(t)
    BY <1>1, <2>1 DEF create_yield
  <2>2. ASSUME NEW u \in Threads, NEW p \in Priorities, thread_create(t, u, p)
        PROVE  PriorityFloor'
    <3>1. p \in Int /\ p >= p
      BY PriorityInt
    <3> QED BY ZenonT(60), <1>0, <1>2, <2>2, <3>1 DEF thread_create
  <2>3. ASSUME NEW p \in Priorities, thread_set_priority(t, p)
        PROVE  PriorityFloor'
    <3> DEFINE q == IF /\ priority[t] > p
                       /\ lock_list[t] # <<>>
                       /\ priority[t] # original_priority[t]
                    THEN priority[t] ELSE p
    <3>1. p \in Int /\ q \in Int /\ q >= p
      BY <1>0, PriorityInt
    <3>2. /\ priority' = [priority EXCEPT ![t] = q]
          /\ original_priority' = [original_priority EXCEPT ![t] = p]
      BY <2>3 DEF thread_set_priority
    <3> HIDE DEF q
    <3> QED BY ZenonT(60), <1>0, <1>2, <3>1, <3>2
  <2>4. ASSUME NEW n \in 1..MaxSleep, sleep(t, n) PROVE PriorityFloor'
    BY <1>1, <2>4 DEF sleep
  <2> QED BY ZenonT(60), <1>4, <2>1, <2>2, <2>3, <2>4 DEF ThreadOps
<1>5. ASSUME SemaOps(t) PROVE PriorityFloor'
  BY Zenon, <1>1, <1>5 DEF SemaOps, sema_down_block, sema_down_take, sema_up, call_sema_down,
                    call_sema_up
<1>6. ASSUME LockOps(t) PROVE PriorityFloor'
  <2>1. ASSUME NEW l \in Locks, lock_acquire(t, l) PROVE PriorityFloor'
    BY ZenonT(60), <1>3, <2>1 DEF lock_acquire, acquire
  <2>2. ASSUME NEW l \in Locks, lock_release(t, l) PROVE PriorityFloor'
    BY <1>1, <2>2 DEF lock_release, release
  <2>3. CASE lock_own(t) \/ lock_enlist(t) \/ lock_clear(t)
    BY Zenon, <1>1, <2>3 DEF lock_own, lock_enlist, lock_clear
  <2>4. CASE lock_reset(t)
    <3> DEFINE ll == lock_list[t]
               q == IF ll = <<>> \/ original_priority[t] >= lock_priority[Head(ll)]
                    THEN original_priority[t] ELSE lock_priority[Head(ll)]
    <3>1. /\ priority' = [priority EXCEPT ![t] = q]
          /\ original_priority' = [original_priority EXCEPT ![t] = original_priority[t]]
      BY ZenonT(60), <1>0, <2>4 DEF lock_reset
    <3>2. ll # <<>> => lock_priority[Head(ll)] \in Int
      <4>1. ll \in Seq(Locks)
        BY DEF TypeOK
      <4>2. ll # <<>> => Head(ll) \in Locks
        BY <4>1
      <4> QED BY ZenonT(60), <4>2, PriorityInt DEF TypeOK
    <3> HIDE DEF ll
    <3>3. q \in Int /\ q >= original_priority[t]
      BY <1>0, <3>2
    <3> HIDE DEF q
    <3> DEFINE o == original_priority[t]
    <3>4. /\ o \in Int /\ q >= o
          /\ original_priority' = [original_priority EXCEPT ![t] = o]
      BY Zenon, <1>0, <3>1, <3>3
    <3> HIDE DEF o
    <3> QED BY ZenonT(60), <1>0, <1>2, <3>1, <3>3, <3>4
  <2> QED BY ZenonT(60), <1>6, <2>1, <2>2, <2>3, <2>4 DEF LockOps
<1>7. ASSUME CondOps(t) PROVE PriorityFloor'
  <2>1. CASE cond_reacquire(t)
    BY ZenonT(60), <1>3, <2>1 DEF cond_reacquire, acquire
  <2>2. CASE broadcast_next(t) \/ broadcast_done(t)
    BY <1>1, <2>2 DEF broadcast_next, broadcast_done, signal
  <2>3. ASSUME NEW c \in Conds,
               cond_wait(t, c) \/ cond_signal(t, c) \/ cond_broadcast(t, c)
        PROVE  PriorityFloor'
    BY ZenonT(60), <1>1, <2>3 DEF cond_wait, release, cond_signal, signal, cond_broadcast
  <2> QED BY ZenonT(60), <1>7, <2>1, <2>2, <2>3 DEF CondOps
<1>8. ASSUME ExitOps(t) PROVE PriorityFloor'
  BY <1>1, <1>8 DEF ExitOps, thread_exit, exit_release, release, exit_unlink, exit_die
<1> QED
  BY ZenonT(60), <1>4, <1>5, <1>6, <1>7, <1>8 DEF Step

\* Donation, its end in lock_release and thread_set_priority never leave a
\* thread below the base priority it asked for.
THEOREM DonationFloor == Spec => []PriorityFloor
<1>1. Init => PriorityFloor
  <2> SUFFICES ASSUME Init PROVE PriorityFloor
    OBVIOUS
  <2>1. \A t \in All : priority[t] \in Int
    BY InitType, PriorityInt DEF TypeOK, ThreadTypeOK
  <2> QED BY <2>1 DEF Init, ThreadInit, PriorityFloor
<1>2. TypeOK /\ PriorityFloor /\ [Next]_vars => PriorityFloor'
  <2> SUFFICES ASSUME TypeOK, PriorityFloor, [Next]_vars PROVE PriorityFloor'
    OBVIOUS
  <2>1. CASE UNCHANGED prioVars
    BY <2>1 DEF prioVars, PriorityFloor
  <2> QED BY Zenon, <2>1, StepFloor DEF Next, Preempt, Tick, idle, sema_up_intr, vars
<1> QED
  BY <1>1, <1>2, TypeCorrect, PTL DEF Spec
=============================================================================
