----------------------------- MODULE QueueProofs -----------------------------
(***************************************************************************)
(* The lists of the scheduler and of the semaphores, for any number of     *)
(* threads, semaphores, locks and condition variables: what each operation *)
(* does to them (SignalProofs has the theorems), and that the CPU and a    *)
(* semaphore go to the thread of the highest priority on them.             *)
(***************************************************************************)
EXTENDS TypeProofs

\* The provers for the steps that name none, in this order.
USE SMTT(20), Z3T(20), ZenonT(60)

\* The run queue rl and the sleeping list sl hold the threads that the states
\* st say, each once.
Queued(rl, sl, st) ==
  /\ rl \in Seq(Threads) /\ sl \in Seq(Threads) /\ st \in [All -> Status]
  /\ IsInjective(rl) /\ IsInjective(sl)
  /\ \A t \in Threads : st[t] = "READY" <=> Contains(rl, t)
  /\ \A t \in Threads : st[t] = "SLEEPING" <=> Contains(sl, t)

OneRuns(st, r) == \A t \in All : st[t] = "RUNNING" <=> t = r

\* A wait list holds, once, the threads blocked in sema_down on its semaphore,
\* and only its owner ever waits on the semaphore of a cond_wait.
WaitsPlaced ==
  /\ \A s \in SemaIds : IsInjective(waiters[s])
  /\ \A t \in Threads, s \in SemaIds :
       Contains(waiters[s], t) <=> status[t] = "BLOCKED" /\ pc[t] = "down" /\ arg[t] = s
  /\ \A t \in Threads : pc[t] = "down" /\ arg[t] \in Threads => arg[t] = t

ListInv ==
  /\ TypeOK
  /\ Queued(ready_list, sleeping_list, status)
  /\ OneRuns(status, running)
  /\ WaitsPlaced

\* What the scheduler may do to the threads' states: a ready thread runs, a
\* sleeper wakes, and nobody else changes.
Rescheduled(st, st1) ==
  \A t \in Threads :
    /\ st[t] \in {"READY", "RUNNING"} => st1[t] \in {"READY", "RUNNING"}
    /\ st[t] \in {"NONE", "BLOCKED", "DYING"} => st1[t] = st[t]
    /\ st[t] = "SLEEPING" => st1[t] \in {"SLEEPING", "READY", "RUNNING"}

\* A step that leaves the semaphores alone and diverts no thread that has been
\* woken, or never slept, on its way to test a value.
Steady ==
  /\ UNCHANGED <<value, waiters>>
  /\ \A t \in Threads :
       pc[t] = "down" /\ status[t] \in {"READY", "RUNNING"} =>
         pc'[t] = "down" /\ arg'[t] = arg[t] /\ status'[t] \in {"READY", "RUNNING"}

\* The lists after schedule, called when no thread is running.
LEMMA ScheduleQueues ==
  ASSUME NEW rl, NEW sl, NEW st, NEW wake, NEW pr,
         Queued(rl, sl, st), \A t \in All : st[t] # "RUNNING",
         schedule(rl, sl, st, wake, pr)
  PROVE  /\ Queued(ready_list', sleeping_list', status')
         /\ OneRuns(status', running')
         /\ Rescheduled(st, status')
<1> DEFINE due  == sl # <<>> /\ wake[Head(sl)] = 0
           sl1  == IF due THEN Tail(sl) ELSE sl
           rl1  == IF due THEN list_insert_ordered(rl, Head(sl), pr) ELSE rl
           st1  == IF due THEN [st EXCEPT ![Head(sl)] = "READY"] ELSE st
           next == IF rl1 = <<>> THEN Idle ELSE Head(rl1)
           rl2  == IF rl1 = <<>> THEN rl1 ELSE Tail(rl1)
           st2  == [st1 EXCEPT ![next] = "RUNNING"]
<1>1. /\ sleeping_list' = sl1 /\ ready_list' = rl2 /\ status' = st2 /\ running' = next
  BY DEF schedule
<1>2. Threads \subseteq All /\ Idle \in All /\ Idle \notin Threads /\ "READY" \in Status
      /\ "RUNNING" \in Status
  BY ThreadAssumption DEF All, Status, ThreadAssumption
<1>3. /\ Queued(rl1, sl1, st1) /\ \A t \in All : st1[t] # "RUNNING"
      /\ \A t \in Threads : \/ st1[t] = st[t]
                            \/ st[t] = "SLEEPING" /\ st1[t] = "READY"
  <2>1. CASE ~due
    BY <2>1
  <2>2. CASE due
    <3> DEFINE h == Head(sl)
    <3>1. /\ h \in Threads /\ Contains(sl, h) /\ Tail(sl) \in Seq(Threads)
          /\ IsInjective(Tail(sl))
          /\ \A e : Contains(Tail(sl), e) <=> Contains(sl, e) /\ e # h
      BY <2>2, TailOnce DEF Queued
    <3>2. sl1 = Tail(sl) /\ rl1 = list_insert_ordered(rl, h, pr)
          /\ st1 = [st EXCEPT ![h] = "READY"]
      BY <2>2
    <3> HIDE DEF h, sl1, rl1, st1
    <3>3. st[h] = "SLEEPING" /\ ~Contains(rl, h)
      BY <3>1 DEF Queued
    <3>4. /\ rl1 \in Seq(Threads) /\ IsInjective(rl1)
          /\ \A e : Contains(rl1, e) <=> e = h \/ Contains(rl, e)
      BY <3>1, <3>2, <3>3, InsertProperties, InsertOnce DEF Queued
    <3>5. /\ st1 \in [All -> Status] /\ st1[h] = "READY"
          /\ \A t \in All : t # h => st1[t] = st[t]
      BY <1>2, <3>1, <3>2 DEF Queued
    <3>6. ASSUME NEW t \in Threads PROVE st1[t] = "READY" <=> Contains(rl1, t)
      BY <1>2, <3>4, <3>5 DEF Queued
    <3>7. \A t \in Threads : st1[t] = "SLEEPING" <=> Contains(sl1, t)
      BY <1>2, <3>1, <3>2, <3>5 DEF Queued
    <3>8. sl1 \in Seq(Threads) /\ IsInjective(sl1)
      BY <3>1, <3>2
    <3>9. \A t \in All : st1[t] # "RUNNING"
      BY <3>5
    <3>10. \A t \in Threads : st1[t] = st[t] \/ (st[t] = "SLEEPING" /\ st1[t] = "READY")
      BY <1>2, <3>3, <3>5
    <3> QED BY <3>4, <3>5, <3>6, <3>7, <3>8, <3>9, <3>10 DEF Queued
  <2> QED BY <2>1, <2>2
<1> HIDE DEF sl1, rl1, st1, due
<1>4. CASE rl1 = <<>>
  <2>1. next = Idle /\ rl2 = rl1
    BY <1>4
  <2>2. /\ st2 \in [All -> Status] /\ st2[Idle] = "RUNNING"
        /\ \A t \in All : t # Idle => st2[t] = st1[t]
    BY <1>2, <1>3, <2>1 DEF Queued
  <2> HIDE DEF next, rl2, st2
  <2>3. Queued(rl2, sl1, st2)
    BY <1>2, <1>3, <2>1, <2>2 DEF Queued
  <2>4. OneRuns(st2, next)
    BY <1>3, <2>1, <2>2 DEF OneRuns
  <2>5. Rescheduled(st, st2)
    BY <1>2, <1>3, <2>2 DEF Rescheduled
  <2> QED BY <1>1, <2>3, <2>4, <2>5
<1>5. CASE rl1 # <<>>
  <2>1. /\ next = Head(rl1) /\ rl2 = Tail(rl1)
    BY <1>5
  <2>2. /\ next \in Threads /\ Contains(rl1, next) /\ rl2 \in Seq(Threads) /\ IsInjective(rl2)
        /\ \A e : Contains(rl2, e) <=> Contains(rl1, e) /\ e # next
    BY <1>3, <1>5, <2>1, TailOnce DEF Queued
  <2>3. /\ st2 \in [All -> Status] /\ st2[next] = "RUNNING"
        /\ \A t \in All : t # next => st2[t] = st1[t]
    BY <1>2, <1>3, <2>2 DEF Queued
  <2> HIDE DEF next, rl2, st2
  <2>4. st1[next] = "READY"
    BY <1>3, <2>2 DEF Queued
  <2>5. \A t \in Threads : st2[t] = "READY" <=> Contains(rl2, t)
    BY <1>2, <1>3, <2>2, <2>3 DEF Queued
  <2>6. \A t \in Threads : st2[t] = "SLEEPING" <=> Contains(sl1, t)
    BY <1>2, <1>3, <2>2, <2>3, <2>4 DEF Queued
  <2>7. Queued(rl2, sl1, st2)
    BY <1>3, <2>2, <2>3, <2>5, <2>6 DEF Queued
  <2>8. OneRuns(st2, next)
    BY <1>3, <2>3 DEF OneRuns
  <2>9. Rescheduled(st, st2)
    BY <1>2, <1>3, <2>3, <2>4 DEF Rescheduled
  <2> QED BY <1>1, <2>7, <2>8, <2>9
<1> QED BY <1>4, <1>5

\* thread_yield by the running thread t, idle_thread included.
LEMMA YieldQueues ==
  ASSUME NEW t \in All, NEW rl, NEW st, NEW pr,
         Queued(rl, sleeping_list, st), OneRuns(st, t),
         thread_yield(t, rl, st, pr)
  PROVE  /\ Queued(ready_list', sleeping_list', status')
         /\ OneRuns(status', running')
         /\ Rescheduled(st, status')
<1> DEFINE rl1 == IF t = Idle THEN rl ELSE list_insert_ordered(rl, t, pr)
           st1 == [st EXCEPT ![t] = "READY"]
<1>1. schedule(rl1, sleeping_list, st1, wake_in, pr)
  BY DEF thread_yield
<1>2. Threads \subseteq All /\ Idle \in All /\ Idle \notin Threads /\ "READY" \in Status
  BY ThreadAssumption DEF All, Status, ThreadAssumption
<1>3. /\ st1 \in [All -> Status] /\ st1[t] = "READY"
      /\ \A u \in All : u # t => st1[u] = st[u]
  BY <1>2 DEF Queued
<1>4. \A u \in All : st1[u] # "RUNNING"
  BY <1>3 DEF OneRuns
<1>5. /\ rl1 \in Seq(Threads) /\ IsInjective(rl1)
      /\ \A e : Contains(rl1, e) <=> (e = t /\ t # Idle) \/ Contains(rl, e)
  <2>1. CASE t = Idle
    BY <2>1 DEF Queued
  <2>2. CASE t # Idle
    <3>1. t \in Threads /\ ~Contains(rl, t)
      BY <1>2, <2>2 DEF Queued, OneRuns, All
    <3> QED BY <2>2, <3>1, InsertProperties, InsertOnce DEF Queued
  <2> QED BY <2>1, <2>2
<1> HIDE DEF rl1, st1
<1>6. Queued(rl1, sleeping_list, st1)
  <2>1. \A u \in Threads : st1[u] = "READY" <=> Contains(rl1, u)
    BY <1>2, <1>3, <1>5 DEF Queued
  <2>2. \A u \in Threads : st1[u] = "SLEEPING" <=> Contains(sleeping_list, u)
    BY <1>2, <1>3 DEF Queued, OneRuns
  <2> QED BY <1>3, <1>5, <2>1, <2>2 DEF Queued
<1>7. /\ Queued(ready_list', sleeping_list', status')
      /\ OneRuns(status', running')
      /\ Rescheduled(st1, status')
  BY ZenonT(60), <1>1, <1>4, <1>6, ScheduleQueues
<1>8. Rescheduled(st, status')
  <2> SUFFICES ASSUME NEW u \in Threads
               PROVE  /\ st[u] \in {"READY", "RUNNING"} => status'[u] \in {"READY", "RUNNING"}
                      /\ st[u] \in {"NONE", "BLOCKED", "DYING"} => status'[u] = st[u]
                      /\ st[u] = "SLEEPING" => status'[u] \in {"SLEEPING", "READY", "RUNNING"}
    BY DEF Rescheduled
  <2>1. CASE u = t
    BY <1>2, <1>3, <1>7, <2>1 DEF Rescheduled, OneRuns
  <2>2. CASE u # t
    BY <1>2, <1>3, <1>7, <2>2 DEF Rescheduled
  <2> QED BY <2>1, <2>2
<1> QED BY <1>7, <1>8

\* if_yield, in thread and in interrupt context.
LEMMA IfYieldQueues ==
  ASSUME NEW t \in All, NEW rl, NEW st, NEW pr \in [All -> Priorities], running = t,
         Queued(rl, sleeping_list, st), OneRuns(st, t),
         if_yield(t, rl, st, pr) \/ if_yield_intr(t, rl, st, pr)
  PROVE  /\ Queued(ready_list', sleeping_list', status')
         /\ OneRuns(status', running')
         /\ Rescheduled(st, status')
<1> DEFINE sorted == list_sort(rl, pr)
<1>1. \A e \in Threads : pr[e] \in Int
  BY PriorityInt DEF All
<1>2. /\ sorted \in Seq(Threads) /\ IsInjective(sorted)
      /\ \A e : Contains(sorted, e) <=> Contains(rl, e)
  BY <1>1, SortProperties, SortOrders DEF Queued
<1>3. \/ thread_yield(t, sorted, st, pr)
      \/ /\ ready_list' = sorted
         /\ status' = st
         /\ UNCHANGED <<running, sleeping_list, wake_in>>
  BY DEF if_yield, if_yield_intr
<1> HIDE DEF sorted
<1>4. Queued(sorted, sleeping_list, st)
  BY <1>2 DEF Queued
<1>5. CASE thread_yield(t, sorted, st, pr)
  BY <1>4, <1>5, YieldQueues
<1>6. CASE /\ ready_list' = sorted /\ status' = st
           /\ UNCHANGED <<running, sleeping_list, wake_in>>
  <2>1. Rescheduled(st, status')
    BY <1>6 DEF Rescheduled
  <2> QED BY <1>4, <1>6, <2>1 DEF OneRuns
<1> QED BY <1>3, <1>5, <1>6

\* A step that leaves the wait lists alone keeps the lists, if it reschedules
\* and moves only threads that run.
LEMMA ListStep ==
  ASSUME ListInv, TypeOK', UNCHANGED waiters,
         Queued(ready_list', sleeping_list', status'), OneRuns(status', running'),
         \A t \in Threads : status'[t] = "BLOCKED" <=> status[t] = "BLOCKED",
         \A t \in Threads : running = t \/ (pc'[t] = pc[t] /\ arg'[t] = arg[t]),
         \A t \in Threads : running = t /\ pc'[t] = "down" /\ arg'[t] \in Threads => arg'[t] = t
  PROVE  ListInv'
<1>1. \A t \in Threads : running = t => status[t] # "BLOCKED" /\ status'[t] # "BLOCKED"
  BY DEF ListInv, OneRuns, All
<1>2. ASSUME NEW t \in Threads, NEW s \in SemaIds
      PROVE  Contains(waiters'[s], t) <=>
               status'[t] = "BLOCKED" /\ pc'[t] = "down" /\ arg'[t] = s
  BY <1>1 DEF ListInv, WaitsPlaced
<1>3. \A t \in Threads : pc'[t] = "down" /\ arg'[t] \in Threads => arg'[t] = t
  BY DEF ListInv, WaitsPlaced
<1>4. \A s \in SemaIds : IsInjective(waiters'[s])
  BY DEF ListInv, WaitsPlaced
<1>5. WaitsPlaced'
  BY <1>2, <1>3, <1>4 DEF WaitsPlaced
<1> QED BY <1>5 DEF ListInv

\* The same for a step that does not schedule.
LEMMA ListQuiet ==
  ASSUME ListInv, TypeOK', UNCHANGED waiters, UNCHANGED schedVars, NEW t \in Threads, running = t,
         \A u \in Threads \ {t} : pc'[u] = pc[u] /\ arg'[u] = arg[u],
         pc'[t] = "down" /\ arg'[t] \in Threads => arg'[t] = t
  PROVE  ListInv'
<1>1. /\ Queued(ready_list', sleeping_list', status') /\ OneRuns(status', running')
      /\ status' = status
  BY DEF ListInv, schedVars, OneRuns
<1> QED BY <1>1, ListStep

\* A step by a thread that is not in sema_down is steady, unless it touches
\* the semaphores or stops another thread.
LEMMA SteadyStep ==
  ASSUME UNCHANGED <<value, waiters>>,
         \A t \in Threads : pc[t] = "down" /\ status[t] \in {"READY", "RUNNING"} =>
           /\ status'[t] \in {"READY", "RUNNING"}
           /\ pc'[t] = pc[t] /\ arg'[t] = arg[t]
  PROVE  Steady
BY DEF Steady

\* So is a step that does not touch the scheduler either.
LEMMA SteadyQuiet ==
  ASSUME UNCHANGED <<value, waiters>>, UNCHANGED schedVars, NEW t \in Threads, pc[t] # "down",
         \A u \in Threads \ {t} : pc'[u] = pc[u] /\ arg'[u] = arg[u]
  PROVE  Steady
BY DEF Steady, schedVars

\* Blocked threads stay blocked, and no other becomes so, when the scheduler
\* goes over the states.
LEMMA BlockedStay ==
  ASSUME NEW st \in [All -> Status], NEW st1, Rescheduled(st, st1), NEW t \in Threads
  PROVE  /\ st1[t] = "BLOCKED" <=> st[t] = "BLOCKED"
         /\ st1[t] = "SLEEPING" => st[t] = "SLEEPING"
BY DEF Rescheduled, Status, All

\* thread_create queues a new thread; the other operations of thread.c
\* reschedule.
LEMMA ThreadOpsLists ==
  ASSUME ListInv, TypeOK', NEW t \in Threads, ThreadOps(t)
  PROVE  ListInv' /\ Steady
<1>0. /\ Threads \subseteq All /\ Idle \notin Threads /\ running = t
      /\ priority \in [All -> Priorities] /\ priority' \in [All -> Priorities]
      /\ status \in [All -> Status] /\ pc \in [Threads -> PC]
      /\ arg \in [Threads -> SemaIds \cup {NoLock}]
      /\ Queued(ready_list, sleeping_list, status) /\ OneRuns(status, t)
      /\ NoLock \notin Threads
  BY ZenonT(60), ThreadAssumption, SynchAssumption
     DEF ThreadOps, create_yield, thread_create, thread_set_priority, sleep, At, All,
         ListInv, TypeOK, ThreadTypeOK, ThreadAssumption, SynchAssumption, SemaIds
<1> USE <1>0
<1>1. CASE create_yield(t)
  <2>1. /\ Queued(ready_list', sleeping_list', status') /\ OneRuns(status', running')
        /\ Rescheduled(status, status')
    BY <1>1, IfYieldQueues DEF create_yield
  <2>2. /\ pc'[t] = "run" /\ \A u \in Threads \ {t} : pc'[u] = pc[u] /\ arg'[u] = arg[u]
        /\ UNCHANGED <<value, waiters>> /\ pc[t] # "down"
    BY <1>1 DEF create_yield, Return, semaVars, At
  <2>3. Steady
    BY <2>1, <2>2, SteadyStep DEF Rescheduled
  <2> QED BY <2>1, <2>2, <2>3, BlockedStay, ListStep
<1>2. ASSUME NEW u \in Threads, NEW p \in Priorities, thread_create(t, u, p)
      PROVE  ListInv' /\ Steady
  <2>1. /\ status[u] = "NONE" /\ status' = [status EXCEPT ![u] = "READY"]
        /\ ready_list' = list_insert_ordered(ready_list, u, priority')
        /\ UNCHANGED <<running, sleeping_list, value, waiters, arg>>
        /\ pc' = [pc EXCEPT ![t] = "yield"] /\ pc[t] # "down"
    BY Zenon, <1>2 DEF thread_create, GoTo, semaVars, At
  <2>2. ~Contains(ready_list, u) /\ ~Contains(sleeping_list, u)
    BY Zenon, <2>1 DEF Queued
  <2>3. /\ ready_list' \in Seq(Threads) /\ IsInjective(ready_list')
        /\ \A e : Contains(ready_list', e) <=> e = u \/ Contains(ready_list, e)
    BY ZenonT(60), <2>1, <2>2, InsertProperties, InsertOnce DEF Queued
  <2>4. /\ status' \in [All -> Status] /\ status'[u] = "READY"
        /\ \A v \in All : v # u => status'[v] = status[v]
    BY Zenon, <2>1 DEF Status
  <2>5. ASSUME NEW v \in Threads
        PROVE  /\ status'[v] = "READY" <=> Contains(ready_list', v)
               /\ status'[v] = "SLEEPING" <=> Contains(sleeping_list', v)
               /\ status'[v] = "BLOCKED" <=> status[v] = "BLOCKED"
    BY ZenonT(60), <2>1, <2>2, <2>3, <2>4 DEF Queued
  <2>6. Queued(ready_list', sleeping_list', status')
    BY ZenonT(60), <2>1, <2>3, <2>4, <2>5 DEF Queued
  <2>7. OneRuns(status', running')
    BY <2>1, <2>4 DEF OneRuns
  <2>8. pc'[t] = "yield" /\ \A v \in Threads \ {t} : pc'[v] = pc[v] /\ arg'[v] = arg[v]
    BY Zenon, <2>1
  <2>9. Steady
    BY Zenon, <2>1, <2>4, <2>8, SteadyStep
  <2> QED BY ZenonT(60), <2>1, <2>5, <2>6, <2>7, <2>8, <2>9, ListStep
<1>3. ASSUME NEW p \in Priorities, thread_set_priority(t, p)
      PROVE  ListInv' /\ Steady
  <2>1. if_yield(t, ready_list, status, priority') /\ UNCHANGED <<value, waiters, pc, arg>>
    BY <1>3 DEF thread_set_priority, semaVars, ctlVars
  <2>2. /\ Queued(ready_list', sleeping_list', status') /\ OneRuns(status', running')
        /\ Rescheduled(status, status')
    BY Zenon, <2>1, IfYieldQueues
  <2>3. pc[t] = "run"
    BY Zenon, <1>3 DEF thread_set_priority, At
  <2>4. Steady
    BY Zenon, <2>1, <2>2, SteadyStep DEF Rescheduled
  <2> QED BY ZenonT(60), <2>1, <2>2, <2>3, <2>4, BlockedStay, ListStep
<1>4. ASSUME NEW n \in 1..MaxSleep, sleep(t, n)
      PROVE  ListInv' /\ Steady
  <2> DEFINE wake == [wake_in EXCEPT ![t] = n]
             key == [u \in Threads |-> -wake[u]]
             sl == list_insert_ordered(sleeping_list, t, key)
             st == [status EXCEPT ![t] = "SLEEPING"]
  <2>1. /\ schedule(ready_list, sl, st, wake, priority)
        /\ UNCHANGED <<value, waiters, pc, arg>> /\ pc[t] = "run"
    BY Zenon, <1>4 DEF sleep, thread_sleep, semaVars, ctlVars, At
  <2>2. status[t] = "RUNNING" /\ ~Contains(ready_list, t) /\ ~Contains(sleeping_list, t)
    BY ZenonT(60) DEF Queued, OneRuns
  <2>3. /\ sl \in Seq(Threads) /\ IsInjective(sl)
        /\ \A e : Contains(sl, e) <=> e = t \/ Contains(sleeping_list, e)
    <3> HIDE DEF key
    <3> QED BY <2>2, InsertProperties, InsertOnce DEF Queued
  <2>4. /\ st \in [All -> Status] /\ st[t] = "SLEEPING"
        /\ \A v \in All : v # t => st[v] = status[v]
    BY Zenon DEF Status
  <2> HIDE DEF sl, st, wake
  <2>5. ASSUME NEW v \in Threads
        PROVE  /\ st[v] = "READY" <=> Contains(ready_list, v)
               /\ st[v] = "SLEEPING" <=> Contains(sl, v)
    BY Zenon, <2>2, <2>3, <2>4 DEF Queued
  <2>6. Queued(ready_list, sl, st)
    BY Zenon, <2>3, <2>4, <2>5 DEF Queued
  <2>7. \A v \in All : st[v] # "RUNNING"
    BY <2>4 DEF OneRuns
  <2>8. /\ Queued(ready_list', sleeping_list', status') /\ OneRuns(status', running')
        /\ Rescheduled(st, status')
    BY Zenon, <2>1, <2>6, <2>7, ScheduleQueues
  <2>9. \A v \in Threads : status'[v] = "BLOCKED" <=> status[v] = "BLOCKED"
    BY ZenonT(60), <2>2, <2>4, <2>8, BlockedStay
  <2>10. Steady
    BY Zenon, <2>1, <2>4, <2>8, SteadyStep DEF Rescheduled
  <2> QED BY Zenon, <2>1, <2>8, <2>9, <2>10, ListStep
<1> QED BY ZenonT(60), <1>1, <1>2, <1>3, <1>4 DEF ThreadOps

\* A thread that finds the value zero queues on the semaphore and blocks.
LEMMA DownBlockLists ==
  ASSUME ListInv, TypeOK', NEW t \in Threads, sema_down_block(t)
  PROVE  /\ ListInv'
         /\ Rescheduled([status EXCEPT ![t] = "BLOCKED"], status')
<1> DEFINE s == arg[t]
           st == [status EXCEPT ![t] = "BLOCKED"]
<1>0. /\ Threads \subseteq All /\ running = t /\ s \in SemaIds /\ pc[t] = "down"
      /\ status \in [All -> Status] /\ waiters \in [SemaIds -> Seq(Threads)]
      /\ Queued(ready_list, sleeping_list, status) /\ OneRuns(status, t)
  BY Zenon DEF sema_down_block, At, All, ListInv, TypeOK, ThreadTypeOK, ArgOK, Located
<1> USE <1>0
<1>1. /\ waiters' = [waiters EXCEPT ![s] = list_insert_ordered(waiters[s], t, priority)]
      /\ schedule(ready_list, sleeping_list, st, wake_in, priority)
      /\ UNCHANGED <<pc, arg>>
  BY Zenon DEF sema_down_block, thread_block, ctlVars
<1>2. status[t] = "RUNNING" /\ ~Contains(ready_list, t) /\ ~Contains(sleeping_list, t)
  BY Zenon DEF Queued, OneRuns
<1>3. /\ st \in [All -> Status] /\ st[t] = "BLOCKED"
      /\ \A v \in All : v # t => st[v] = status[v]
  BY Zenon DEF Status
<1> HIDE DEF st, s
<1>4. Queued(ready_list, sleeping_list, st)
  <2>1. ASSUME NEW v \in Threads
        PROVE  /\ st[v] = "READY" <=> Contains(ready_list, v)
               /\ st[v] = "SLEEPING" <=> Contains(sleeping_list, v)
    BY <1>2, <1>3 DEF Queued
  <2> QED BY ZenonT(60), <1>3, <2>1 DEF Queued
<1>5. \A v \in All : st[v] # "RUNNING"
  BY <1>3 DEF OneRuns
<1>6. /\ Queued(ready_list', sleeping_list', status') /\ OneRuns(status', running')
      /\ Rescheduled(st, status')
  BY ZenonT(60), <1>1, <1>4, <1>5, ScheduleQueues
<1>7. \A v \in Threads : status'[v] = "BLOCKED" <=> (v = t \/ status[v] = "BLOCKED")
  BY <1>2, <1>3, <1>6, BlockedStay
<1>8. ~Contains(waiters[s], t)
  BY <1>2 DEF ListInv, WaitsPlaced
<1>9. /\ IsInjective(waiters'[s])
      /\ \A e : Contains(waiters'[s], e) <=> e = t \/ Contains(waiters[s], e)
      /\ \A q \in SemaIds : q # s => waiters'[q] = waiters[q]
  <2>1. waiters[s] \in Seq(Threads) /\ IsInjective(waiters[s])
    BY DEF ListInv, WaitsPlaced
  <2> DEFINE w == list_insert_ordered(waiters[s], t, priority)
  <2>2. IsInjective(w) /\ \A e : Contains(w, e) <=> e = t \/ Contains(waiters[s], e)
    BY ZenonT(60), <1>8, <2>1, InsertProperties, InsertOnce
  <2> HIDE DEF w
  <2> QED BY ZenonT(60), <1>1, <2>2 DEF w
<1>10. ASSUME NEW v \in Threads, NEW q \in SemaIds
       PROVE  Contains(waiters'[q], v) <=>
                status'[v] = "BLOCKED" /\ pc'[v] = "down" /\ arg'[v] = q
  <2>1. CASE v = t
    BY ZenonT(60), <1>1, <1>2, <1>7, <1>9, <2>1 DEF ListInv, WaitsPlaced, s
  <2>2. CASE v # t
    BY ZenonT(60), <1>1, <1>7, <1>9, <2>2 DEF ListInv, WaitsPlaced
  <2> QED BY Zenon, <2>1, <2>2
<1>11. WaitsPlaced'
  BY ZenonT(60), <1>1, <1>9, <1>10 DEF ListInv, WaitsPlaced
<1> QED BY Zenon, <1>6, <1>11 DEF ListInv, st

\* sema_up(s) takes the front of the sorted wait list, if there is one, and makes
\* it ready; r is the running thread.
LEMMA UpLists ==
  ASSUME ListInv, TypeOK', NEW s \in SemaIds,
         waiters' = [waiters EXCEPT ![s] = IF waiters_by_priority(s) = <<>>
                       THEN waiters_by_priority(s) ELSE Tail(waiters_by_priority(s))],
         IF waiters_by_priority(s) = <<>>
           THEN \/ if_yield(running, ready_list, status, priority)
                \/ if_yield_intr(running, ready_list, status, priority)
           ELSE LET h == Head(waiters_by_priority(s))
                    rl == list_insert_ordered(ready_list, h, priority)
                    st == [status EXCEPT ![h] = "READY"]
                IN  if_yield(running, rl, st, priority) \/ if_yield_intr(running, rl, st, priority),
         \A t \in Threads : running = t \/ (pc'[t] = pc[t] /\ arg'[t] = arg[t]),
         \A t \in Threads : running = t /\ pc'[t] = "down" /\ arg'[t] \in Threads => arg'[t] = t
  PROVE  /\ ListInv'
         /\ \/ waiters[s] = <<>> /\ Rescheduled(status, status') /\ waiters' = waiters
            \/ \E h \in Threads :
                 /\ Contains(waiters[s], h)
                 /\ Rescheduled([status EXCEPT ![h] = "READY"], status')
<1> DEFINE w == waiters_by_priority(s)
           h == Head(w)
           rl == list_insert_ordered(ready_list, h, priority)
           st == [status EXCEPT ![h] = "READY"]
<1>0. /\ Threads \subseteq All /\ running \in All /\ priority \in [All -> Priorities]
      /\ status \in [All -> Status] /\ waiters \in [SemaIds -> Seq(Threads)]
      /\ Queued(ready_list, sleeping_list, status) /\ OneRuns(status, running)
      /\ waiters[s] \in Seq(Threads) /\ IsInjective(waiters[s])
  BY ZenonT(60) DEF All, ListInv, TypeOK, ThreadTypeOK, WaitsPlaced
<1> USE <1>0
<1>1. /\ w \in Seq(Threads) /\ IsInjective(w) /\ Len(w) = Len(waiters[s])
      /\ \A e : Contains(w, e) <=> Contains(waiters[s], e)
  <2>1. \A e \in Threads : priority[e] \in Int
    BY Zenon, PriorityInt
  <2> QED BY ZenonT(60), <2>1, SortProperties, SortOrders DEF waiters_by_priority
<1>2. CASE w = <<>>
  <2>1. waiters[s] = <<>>
    <3>1. Len(waiters[s]) = Len(<<>>) /\ waiters[s] \in Seq(Threads)
      BY ZenonT(60), <1>1, <1>2
    <3> QED BY Zenon, <3>1, LenEmpty
  <2>2. waiters' = waiters
    BY ZenonT(60), <1>2, <2>1
  <2>3. /\ Queued(ready_list', sleeping_list', status') /\ OneRuns(status', running')
        /\ Rescheduled(status, status')
    BY ZenonT(60), <1>2, IfYieldQueues
  <2>4. \A t \in Threads : status'[t] = "BLOCKED" <=> status[t] = "BLOCKED"
    BY ZenonT(60), <2>3, BlockedStay
  <2> QED BY ZenonT(60), <2>1, <2>2, <2>3, <2>4, ListStep
<1>3. CASE w # <<>>
  <2> HIDE DEF w
  <2>1. /\ h \in Threads /\ Contains(w, h) /\ IsInjective(Tail(w))
        /\ \A e : Contains(Tail(w), e) <=> Contains(w, e) /\ e # h
    BY ZenonT(60), <1>1, <1>3, TailOnce
  <2>2. /\ waiters' = [waiters EXCEPT ![s] = Tail(w)]
        /\ if_yield(running, rl, st, priority) \/ if_yield_intr(running, rl, st, priority)
    BY <1>3 DEF w
  <2> HIDE DEF h
  <2>3. Contains(waiters[s], h) /\ status[h] = "BLOCKED" /\ pc[h] = "down" /\ arg[h] = s
    BY ZenonT(60), <1>1, <2>1 DEF ListInv, WaitsPlaced
  <2>4. ~Contains(ready_list, h) /\ ~Contains(sleeping_list, h) /\ h # running
    BY <2>1, <2>3 DEF Queued, OneRuns
  <2>5. /\ rl \in Seq(Threads) /\ IsInjective(rl)
        /\ \A e : Contains(rl, e) <=> e = h \/ Contains(ready_list, e)
    BY ZenonT(60), <2>1, <2>4, InsertProperties, InsertOnce DEF Queued
  <2>6. /\ st \in [All -> Status] /\ st[h] = "READY"
        /\ \A v \in All : v # h => st[v] = status[v]
    BY ZenonT(60), <2>1 DEF Status
  <2> HIDE DEF rl, st
  <2>7. Queued(rl, sleeping_list, st)
    <3>1. ASSUME NEW v \in Threads
          PROVE  /\ st[v] = "READY" <=> Contains(rl, v)
                 /\ st[v] = "SLEEPING" <=> Contains(sleeping_list, v)
      BY ZenonT(60), <2>4, <2>5, <2>6 DEF Queued
    <3> QED BY ZenonT(60), <2>5, <2>6, <3>1 DEF Queued
  <2>8. OneRuns(st, running)
    BY Zenon, <2>4, <2>6 DEF OneRuns
  <2>9. /\ Queued(ready_list', sleeping_list', status') /\ OneRuns(status', running')
        /\ Rescheduled(st, status')
    BY ZenonT(60), <2>2, <2>7, <2>8, IfYieldQueues
  <2>10. \A v \in Threads : status'[v] = "BLOCKED" <=> (v # h /\ status[v] = "BLOCKED")
    BY ZenonT(60), <2>1, <2>6, <2>9, BlockedStay
  <2>11. /\ waiters'[s] = Tail(w)
         /\ \A q \in SemaIds : q # s => waiters'[q] = waiters[q]
    BY Zenon, <2>2
  <2>12. ASSUME NEW v \in Threads, NEW q \in SemaIds
         PROVE  Contains(waiters'[q], v) <=>
                  status'[v] = "BLOCKED" /\ pc'[v] = "down" /\ arg'[v] = q
    <3>1. Contains(waiters[q], v) <=> status[v] = "BLOCKED" /\ pc[v] = "down" /\ arg[v] = q
      BY Zenon DEF ListInv, WaitsPlaced
    <3>2. Contains(waiters'[q], v) <=> Contains(waiters[q], v) /\ ~(q = s /\ v = h)
      <4>1. CASE q = s
        <5>1. waiters'[q] = Tail(w) /\ waiters[q] = waiters[s]
          BY ZenonT(60), <2>11, <4>1
        <5>2. Contains(Tail(w), v) <=> Contains(waiters[s], v) /\ v # h
          BY Zenon, <1>1, <2>1
        <5> QED BY Zenon, <4>1, <5>1, <5>2
      <4>2. CASE q # s
        BY Zenon, <2>11, <4>2
      <4> QED BY Zenon, <4>1, <4>2
    <3>3. Contains(waiters[q], v) /\ v = h => q = s
      BY ZenonT(60), <2>3, <3>1
    <3>4. status'[v] = "BLOCKED" <=> (v # h /\ status[v] = "BLOCKED")
      BY Zenon, <2>10
    <3>5. status[v] = "BLOCKED" => pc'[v] = pc[v] /\ arg'[v] = arg[v]
      <4>1. status[v] = "BLOCKED" => v # running
        BY DEF OneRuns
      <4> QED BY ZenonT(60), <4>1
    <3> QED BY Zenon, <3>1, <3>2, <3>3, <3>4, <3>5
  <2>13. \A q \in SemaIds : IsInjective(waiters'[q])
    BY ZenonT(60), <2>1, <2>11 DEF ListInv, WaitsPlaced
  <2>14. \A v \in Threads : pc'[v] = "down" /\ arg'[v] \in Threads => arg'[v] = v
    BY ZenonT(60) DEF ListInv, WaitsPlaced
  <2>15. WaitsPlaced'
    BY <2>12, <2>13, <2>14 DEF WaitsPlaced
  <2> QED BY ZenonT(60), <2>1, <2>3, <2>9, <2>15 DEF ListInv, st
<1> QED BY ZenonT(60), <1>2, <1>3

\* A call of sema_down or sema_up changes no list.
LEMMA SemaCallsLists ==
  ASSUME ListInv, TypeOK', NEW t \in Threads, NEW s \in Semas,
         call_sema_down(t, s) \/ call_sema_up(t, s)
  PROVE  ListInv' /\ Steady
<1>1. /\ running = t /\ pc[t] # "down" /\ arg'[t] = s /\ s \notin Threads
      /\ UNCHANGED <<value, waiters>> /\ UNCHANGED schedVars
      /\ \A u \in Threads \ {t} : pc'[u] = pc[u] /\ arg'[u] = arg[u]
  BY SynchAssumption DEF SynchAssumption, call_sema_down, call_sema_up, At, GoTo, semaVars,
     ListInv, TypeOK
<1> QED BY ZenonT(60), <1>1, ListQuiet, SteadyQuiet

\* sema_down past its loop takes the value and changes no list.
LEMMA DownTakeLists ==
  ASSUME ListInv, TypeOK', NEW t \in Threads, sema_down_take(t)
  PROVE  ListInv'
<1>1. /\ running = t /\ pc'[t] # "down"
      /\ UNCHANGED waiters /\ UNCHANGED schedVars
      /\ \A u \in Threads \ {t} : pc'[u] = pc[u] /\ arg'[u] = arg[u]
  BY DEF sema_down_take, At, GoTo, Return, ListInv, TypeOK
<1> QED BY ZenonT(60), <1>1, ListQuiet

\* sema_up takes at most one thread off the wait list, and makes it ready.
LEMMA SemaUpLists ==
  ASSUME ListInv, TypeOK', NEW t \in Threads, sema_up(t)
  PROVE  /\ ListInv'
         /\ \/ waiters[arg[t]] = <<>> /\ Rescheduled(status, status') /\ waiters' = waiters
            \/ \E h \in Threads :
                 /\ Contains(waiters[arg[t]], h)
                 /\ Rescheduled([status EXCEPT ![h] = "READY"], status')
<1> DEFINE s == arg[t]
<1>1. /\ running = t /\ s \in SemaIds /\ At(t, "up") /\ TypeOK /\ after_up(t)
      /\ waiters' = [waiters EXCEPT ![s] = IF waiters_by_priority(s) = <<>>
                       THEN waiters_by_priority(s) ELSE Tail(waiters_by_priority(s))]
  BY Zenon DEF sema_up, At, ListInv, TypeOK, ArgOK, Located
<1>2. IF waiters_by_priority(s) = <<>>
        THEN if_yield(running, ready_list, status, priority)
        ELSE LET h == Head(waiters_by_priority(s))
                 rl == list_insert_ordered(ready_list, h, priority)
                 st == [status EXCEPT ![h] = "READY"]
             IN  if_yield(running, rl, st, priority)
  BY ZenonT(60), <1>1 DEF sema_up
<1> HIDE DEF s
<1>3. /\ \A u \in Threads : running = u \/ (pc'[u] = pc[u] /\ arg'[u] = arg[u])
      /\ \A u \in Threads : running = u /\ pc'[u] = "down" /\ arg'[u] \in Threads => arg'[u] = u
  BY <1>1, AfterUp
<1>4. /\ ListInv'
      /\ \/ waiters[s] = <<>> /\ Rescheduled(status, status') /\ waiters' = waiters
         \/ \E h \in Threads :
              /\ Contains(waiters[s], h)
              /\ Rescheduled([status EXCEPT ![h] = "READY"], status')
  BY ZenonT(60), <1>1, <1>2, <1>3, UpLists
<1> QED BY <1>4 DEF s

\* So does sema_up in an interrupt handler.
LEMMA SemaUpIntrLists ==
  ASSUME ListInv, TypeOK', NEW s \in Semas, sema_up_intr(s)
  PROVE  /\ ListInv'
         /\ \/ waiters[s] = <<>> /\ Rescheduled(status, status') /\ waiters' = waiters
            \/ \E h \in Threads :
                 /\ Contains(waiters[s], h)
                 /\ Rescheduled([status EXCEPT ![h] = "READY"], status')
<1>1. /\ s \in SemaIds /\ UNCHANGED <<pc, arg>>
      /\ waiters' = [waiters EXCEPT ![s] = IF waiters_by_priority(s) = <<>>
                       THEN waiters_by_priority(s) ELSE Tail(waiters_by_priority(s))]
      /\ \A t \in Threads : pc[t] = "down" /\ arg[t] \in Threads => arg[t] = t
  BY DEF sema_up_intr, ctlVars, SemaIds, ListInv, WaitsPlaced
<1>2. IF waiters_by_priority(s) = <<>>
        THEN if_yield_intr(running, ready_list, status, priority)
        ELSE LET h == Head(waiters_by_priority(s))
                 rl == list_insert_ordered(ready_list, h, priority)
                 st == [status EXCEPT ![h] = "READY"]
             IN  if_yield_intr(running, rl, st, priority)
  BY DEF sema_up_intr
<1> QED BY ZenonT(60), <1>1, <1>2, UpLists

\* The locks, the condition variables and thread_exit move the thread that
\* runs, by steps that do not schedule.
LEMMA LockOpsLists ==
  ASSUME ListInv, TypeOK', NEW t \in Threads, LockOps(t)
  PROVE  ListInv' /\ Steady
<1>0. /\ pc \in [Threads -> PC] /\ arg \in [Threads -> SemaIds \cup {NoLock}]
      /\ Locks \cap Threads = {}
  BY SynchAssumption DEF SynchAssumption, ListInv, TypeOK
<1> USE <1>0
<1> DEFINE Quiet ==
             /\ running = t /\ pc[t] # "down"
             /\ UNCHANGED <<value, waiters>> /\ UNCHANGED schedVars
             /\ \A u \in Threads \ {t} : pc'[u] = pc[u] /\ arg'[u] = arg[u]
             /\ pc'[t] = "down" => arg'[t] \in Locks
<1>1. ASSUME NEW l \in Locks, lock_acquire(t, l)
      PROVE  Quiet
  BY ZenonT(60), <1>1 DEF lock_acquire, acquire, At, GoTo, semaVars
<1>2. ASSUME NEW l \in Locks, lock_release(t, l)
      PROVE  Quiet
  BY ZenonT(60), <1>2 DEF lock_release, release, At, GoTo, semaVars
<1>3. ASSUME lock_own(t) PROVE Quiet
  BY <1>3 DEF lock_own, At, GoTo, semaVars
<1>4. ASSUME lock_enlist(t) PROVE Quiet
  BY ZenonT(60), <1>4 DEF lock_enlist, At, Return, semaVars
<1>5. ASSUME lock_reset(t) PROVE Quiet
  BY Zenon, <1>5 DEF lock_reset, At, GoTo, semaVars
<1>6. ASSUME lock_clear(t) PROVE Quiet
  BY Zenon, <1>6 DEF lock_clear, At, GoTo, semaVars
<1>7. Quiet => ListInv' /\ Steady
  BY Zenon, ListQuiet, SteadyQuiet
<1> HIDE DEF Quiet
<1> QED BY ZenonT(60), <1>1, <1>2, <1>3, <1>4, <1>5, <1>6, <1>7 DEF LockOps

\* cond_wait starts with a fresh semaphore; nobody can be waiting on the old
\* one, since only its owner ever does and the owner is running.
LEMMA CondWaitLists ==
  ASSUME ListInv, TypeOK', NEW t \in Threads, NEW c \in Conds, cond_wait(t, c)
  PROVE  ListInv' /\ waiters' = waiters
<1>1. /\ running = t /\ pc[t] = "run" /\ UNCHANGED schedVars
      /\ waiters' = [waiters EXCEPT ![t] = <<>>]
      /\ pc' = [pc EXCEPT ![t] = "reset"] /\ arg' = [arg EXCEPT ![t] = CondLock[c]]
      /\ pc \in [Threads -> PC] /\ arg \in [Threads -> SemaIds \cup {NoLock}]
      /\ waiters \in [SemaIds -> Seq(Threads)] /\ t \in SemaIds
  BY Zenon DEF cond_wait, release, At, GoTo, ListInv, TypeOK, SemaIds
<1>2. ASSUME NEW u \in Threads, Contains(waiters[t], u) PROVE FALSE
  <2>1. /\ WaitsPlaced /\ t \in SemaIds
        /\ \A v \in Threads : pc[v] = "down" /\ arg[v] \in Threads => arg[v] = v
    BY Zenon, <1>1 DEF ListInv, WaitsPlaced
  <2>2. pc[u] = "down" /\ arg[u] = t
    BY Zenon, <1>2, <2>1 DEF WaitsPlaced
  <2>3. u = t
    BY ZenonT(60), <2>1, <2>2
  <2> QED BY <1>1, <2>2, <2>3
<1>3. waiters[t] = <<>>
  <2>1. waiters[t] \in Seq(Threads)
    BY <1>1
  <2>2. ASSUME waiters[t] # <<>> PROVE FALSE
    <3>1. waiters[t][1] \in Threads /\ Contains(waiters[t], waiters[t][1])
      BY <2>1, <2>2 DEF Contains
    <3> QED BY <1>2, <3>1
  <2> QED BY <2>2
<1>4. waiters' = waiters
  BY Zenon, <1>1, <1>3
<1> QED BY ZenonT(60), <1>1, <1>4, ListQuiet

\* The operations on condition variables keep the scheduler's lists.  A cond_wait
\* starts a semaphore; the others leave the semaphores alone.
LEMMA CondOpsLists ==
  ASSUME ListInv, TypeOK', NEW t \in Threads, CondOps(t)
  PROVE  \/ \E c \in Conds : cond_wait(t, c) /\ ListInv' /\ waiters' = waiters
         \/ ListInv' /\ Steady
<1>0. /\ pc \in [Threads -> PC] /\ arg \in [Threads -> SemaIds \cup {NoLock}]
      /\ Locks \cap Threads = {}
  BY SynchAssumption DEF SynchAssumption, ListInv, TypeOK
<1> USE <1>0
<1> DEFINE Quiet ==
             /\ running = t /\ pc[t] # "down"
             /\ UNCHANGED <<value, waiters>> /\ UNCHANGED schedVars
             /\ \A u \in Threads \ {t} : pc'[u] = pc[u] /\ arg'[u] = arg[u]
             /\ pc'[t] = "down" => arg'[t] \in Locks
<1>1. Quiet => ListInv' /\ Steady
  BY ListQuiet, SteadyQuiet
<1>2. ASSUME NEW c \in Conds, cond_wait(t, c)
      PROVE  ListInv' /\ waiters' = waiters
  BY Zenon, <1>2, CondWaitLists
<1>3. ASSUME NEW c \in Conds, cond_signal(t, c)
      PROVE  Quiet
  BY ZenonT(60), <1>3 DEF cond_signal, signal, At, GoTo, semaVars
<1>4. ASSUME NEW c \in Conds, cond_broadcast(t, c)
      PROVE  Quiet
  BY <1>4 DEF cond_broadcast, At, GoTo, semaVars
<1>5. CASE cond_reacquire(t)
  <2>1. CondLock[cond[t]] \in Locks
    BY ZenonT(60), <1>5, SynchAssumption
       DEF SynchAssumption, cond_reacquire, At, ListInv, TypeOK, ArgOK, Located
  <2>2. Quiet
    BY ZenonT(60), <1>5, <2>1 DEF cond_reacquire, acquire, At, GoTo, semaVars
  <2> QED BY ZenonT(60), <1>1, <2>2
<1>6. CASE broadcast_next(t)
  <2>1. Quiet
    BY ZenonT(60), <1>6 DEF broadcast_next, signal, At, GoTo, semaVars
  <2> QED BY Zenon, <1>1, <2>1
<1>7. CASE broadcast_done(t)
  <2>1. Quiet
    BY Zenon, <1>7 DEF broadcast_done, At, Return, semaVars
  <2> QED BY <1>1, <2>1
<1> HIDE DEF Quiet
<1> QED BY ZenonT(60), <1>1, <1>2, <1>3, <1>4, <1>5, <1>6, <1>7 DEF CondOps

\* A dying thread leaves the CPU for good.
LEMMA ExitDieLists ==
  ASSUME ListInv, TypeOK', NEW t \in Threads, exit_die(t)
  PROVE  ListInv' /\ Steady
<1> DEFINE st == [status EXCEPT ![t] = "DYING"]
<1>0. /\ Threads \subseteq All /\ running = t /\ pc[t] = "exit"
      /\ status \in [All -> Status] /\ UNCHANGED <<value, waiters, pc, arg>>
      /\ Queued(ready_list, sleeping_list, status) /\ OneRuns(status, t)
      /\ schedule(ready_list, sleeping_list, st, wake_in, priority)
  BY Zenon DEF exit_die, At, All, ListInv, TypeOK, ThreadTypeOK, semaVars, ctlVars
<1> USE <1>0
<1>1. status[t] = "RUNNING" /\ ~Contains(ready_list, t) /\ ~Contains(sleeping_list, t)
  BY Zenon DEF Queued, OneRuns
<1>2. /\ st \in [All -> Status] /\ st[t] = "DYING"
      /\ \A v \in All : v # t => st[v] = status[v]
  BY ZenonT(60) DEF Status
<1> HIDE DEF st
<1>3. Queued(ready_list, sleeping_list, st)
  <2>1. ASSUME NEW v \in Threads
        PROVE  /\ st[v] = "READY" <=> Contains(ready_list, v)
               /\ st[v] = "SLEEPING" <=> Contains(sleeping_list, v)
    BY Zenon, <1>1, <1>2 DEF Queued
  <2> QED BY <1>2, <2>1 DEF Queued
<1>4. \A v \in All : st[v] # "RUNNING"
  BY Zenon, <1>2 DEF OneRuns
<1>5. /\ Queued(ready_list', sleeping_list', status') /\ OneRuns(status', running')
      /\ Rescheduled(st, status')
  BY ZenonT(60), <1>3, <1>4, ScheduleQueues
<1>6. \A v \in Threads : status'[v] = "BLOCKED" <=> status[v] = "BLOCKED"
  BY <1>1, <1>2, <1>5, BlockedStay
<1>7. Steady
  BY Zenon, <1>2, <1>5, SteadyStep DEF Rescheduled
<1> QED BY ZenonT(60), <1>5, <1>6, <1>7, ListStep

\* thread_exit keeps the lists: the thread that leaves the CPU is on none.
LEMMA ExitOpsLists ==
  ASSUME ListInv, TypeOK', NEW t \in Threads, ExitOps(t)
  PROVE  ListInv' /\ Steady
<1>0. /\ pc \in [Threads -> PC] /\ arg \in [Threads -> SemaIds \cup {NoLock}]
  BY Zenon DEF ListInv, TypeOK
<1> USE <1>0
<1> DEFINE Quiet ==
             /\ running = t /\ pc[t] # "down" /\ pc'[t] # "down"
             /\ UNCHANGED <<value, waiters>> /\ UNCHANGED schedVars
             /\ \A u \in Threads \ {t} : pc'[u] = pc[u] /\ arg'[u] = arg[u]
<1>1. Quiet => ListInv' /\ Steady
  BY Zenon, ListQuiet, SteadyQuiet
<1>2. CASE thread_exit(t)
  <2>1. Quiet
    BY Zenon, <1>2 DEF thread_exit, At, GoTo, semaVars
  <2> QED BY <1>1, <2>1
<1>3. CASE exit_release(t)
  <2>1. Quiet
    BY ZenonT(60), <1>3 DEF exit_release, release, At, GoTo, semaVars
  <2> QED BY <1>1, <2>1
<1>4. CASE exit_unlink(t)
  <2>1. Quiet
    BY <1>4 DEF exit_unlink, At, GoTo, semaVars
  <2> QED BY <1>1, <2>1
<1>5. CASE exit_die(t)
  BY ZenonT(60), <1>5, ExitDieLists
<1> QED BY ZenonT(60), <1>2, <1>3, <1>4, <1>5 DEF ExitOps

\* The end of a time slice, a tick, and the loop of the idle thread.
LEMMA InterruptLists ==
  ASSUME ListInv, TypeOK', Preempt \/ Tick \/ idle
  PROVE  ListInv' /\ Steady
<1>0. /\ Threads \subseteq All /\ Idle \in All /\ Idle \notin Threads /\ running \in All
      /\ status \in [All -> Status] /\ priority \in [All -> Priorities]
      /\ UNCHANGED <<value, waiters, pc, arg>>
      /\ Queued(ready_list, sleeping_list, status) /\ OneRuns(status, running)
      /\ \A t \in Threads : pc[t] = "down" /\ arg[t] \in Threads => arg[t] = t
  BY ZenonT(60), ThreadAssumption DEF ThreadAssumption, Preempt, Tick, idle, All, ListInv, TypeOK,
     ThreadTypeOK, semaVars, ctlVars, WaitsPlaced
<1> USE <1>0
<1>1. CASE Preempt
  <2>1. /\ Queued(ready_list', sleeping_list', status') /\ OneRuns(status', running')
        /\ Rescheduled(status, status')
    BY Zenon, <1>1, YieldQueues DEF Preempt
  <2>2. Steady
    BY ZenonT(60), <2>1, SteadyStep DEF Rescheduled
  <2> QED BY ZenonT(60), <2>1, <2>2, BlockedStay, ListStep
<1>2. CASE Tick
  <2>1. UNCHANGED <<running, status, ready_list, sleeping_list>>
    BY Zenon, <1>2 DEF Tick, timer_tick
  <2>2. Steady
    BY Zenon, <2>1, SteadyStep
  <2>3. /\ Queued(ready_list', sleeping_list', status') /\ OneRuns(status', running')
        /\ \A t \in Threads : status'[t] = "BLOCKED" <=> status[t] = "BLOCKED"
    BY Zenon, <2>1
  <2> QED BY Zenon, <2>2, <2>3, ListStep
<1>3. CASE idle
  <2> DEFINE st == [status EXCEPT ![Idle] = "BLOCKED"]
  <2>1. running = Idle /\ schedule(ready_list, sleeping_list, st, wake_in, priority)
    BY Zenon, <1>3 DEF idle, thread_block
  <2>2. /\ st \in [All -> Status] /\ st[Idle] = "BLOCKED"
        /\ \A v \in Threads : st[v] = status[v]
    BY ZenonT(60) DEF Status
  <2> HIDE DEF st
  <2>3. Queued(ready_list, sleeping_list, st) /\ Rescheduled(status, st)
    BY Zenon, <2>2 DEF Queued, Rescheduled
  <2>4. \A v \in All : st[v] # "RUNNING"
    BY Zenon, <2>1, <2>2 DEF OneRuns, All
  <2>5. /\ Queued(ready_list', sleeping_list', status') /\ OneRuns(status', running')
        /\ Rescheduled(st, status')
    BY ZenonT(60), <2>1, <2>3, <2>4, ScheduleQueues
  <2>6. \A v \in Threads : status'[v] = "BLOCKED" <=> status[v] = "BLOCKED"
    BY ZenonT(60), <2>2, <2>5, BlockedStay
  <2>7. Steady
    BY <2>2, <2>5, SteadyStep DEF Rescheduled
  <2> QED BY ZenonT(60), <2>5, <2>6, <2>7, ListStep
<1> QED BY <1>1, <1>2, <1>3

\* At boot only the main thread runs, and the lists are empty.
LEMMA InitLists == Init => ListInv
<1> SUFFICES ASSUME Init PROVE ListInv
  OBVIOUS
<1>1. TypeOK
  BY InitType
<1>2. /\ ready_list = <<>> /\ sleeping_list = <<>> /\ running = Main
      /\ waiters = [s \in SemaIds |-> <<>>] /\ pc = [t \in Threads |-> "run"]
      /\ status = [t \in All |-> CASE t = Main -> "RUNNING"
                                   [] t = Idle -> "BLOCKED"
                                   [] OTHER    -> "NONE"]
  BY DEF Init, ThreadInit
<1>3. \A t : ~Contains(<<>>, t)
  BY DEF Contains
<1>4. IsInjective(<<>>)
  BY DEF IsInjective
<1>5. /\ Main \in Threads /\ Idle \notin Threads /\ All = Threads \cup {Idle}
  BY ThreadAssumption DEF ThreadAssumption, All
<1>6. \A t \in Threads : status[t] \in {"RUNNING", "NONE"}
  BY <1>2, <1>5
<1>7. Queued(ready_list, sleeping_list, status)
  BY ZenonT(60), <1>1, <1>2, <1>3, <1>4, <1>6 DEF Queued, TypeOK, ThreadTypeOK
<1>8. OneRuns(status, running)
  BY <1>2, <1>5 DEF OneRuns
<1>9. WaitsPlaced
  BY ZenonT(60), <1>2, <1>3, <1>4 DEF WaitsPlaced
<1> QED BY <1>1, <1>7, <1>8, <1>9 DEF ListInv

-----------------------------------------------------------------------------
\* No thread on the list has a higher priority than r.
Tops(r, rl, pr) == \A u : Contains(rl, u) => pr[r] >= pr[u]

\* if_yield leaves the CPU to a thread that no thread on the run queue beats,
\* in whatever order donation has left the queue.
LEMMA IfYieldTops ==
  ASSUME NEW t \in Threads, running = t, NEW rl \in Seq(Threads), NEW st,
         NEW pr \in [All -> Priorities], sleeping_list \in Seq(Threads),
         if_yield(t, rl, st, pr)
  PROVE  Tops(running', ready_list', pr)
<1> DEFINE sorted == list_sort(rl, pr)
           both == list_insert_ordered(sorted, t, pr)
           woken == list_insert_ordered(both, Head(sleeping_list), pr)
<1>1. \A u \in Threads : pr[u] \in Int
  BY PriorityInt DEF All
<1>2. sorted \in Seq(Threads) /\ Descending(sorted, pr)
  BY ZenonT(60), <1>1, SortProperties, SortOrders
<1>3. both \in Seq(Threads) /\ Descending(both, pr) /\ Len(both) > 0
  <2> HIDE DEF sorted
  <2>1. both \in Seq(Threads) /\ Len(both) = Len(sorted) + 1 /\ Len(sorted) \in Nat
    BY <1>2, InsertProperties
  <2> QED BY <1>1, <1>2, <2>1, InsertOrders
<1>4. sleeping_list # <<>> =>
        woken \in Seq(Threads) /\ Descending(woken, pr) /\ Len(woken) > 0
  <2> HIDE DEF both
  <2> SUFFICES ASSUME sleeping_list # <<>>
               PROVE  woken \in Seq(Threads) /\ Descending(woken, pr) /\ Len(woken) > 0
    OBVIOUS
  <2>1. ASSUME NEW h \in Threads
        PROVE  /\ list_insert_ordered(both, h, pr) \in Seq(Threads)
               /\ Descending(list_insert_ordered(both, h, pr), pr)
               /\ Len(list_insert_ordered(both, h, pr)) > 0
    <3>1. /\ list_insert_ordered(both, h, pr) \in Seq(Threads)
          /\ Len(list_insert_ordered(both, h, pr)) = Len(both) + 1 /\ Len(both) \in Nat
      BY <1>3, InsertProperties
    <3>2. Descending(list_insert_ordered(both, h, pr), pr)
      BY <1>1, <1>3, InsertOrders
    <3> QED BY <3>1, <3>2
  <2>2. Head(sleeping_list) \in Threads
    OBVIOUS
  <2> QED BY Zenon, <2>1, <2>2
<1>5. ASSUME NEW q \in Seq(Threads), Descending(q, pr), Len(q) > 0,
             running' = Head(q), ready_list' = Tail(q)
      PROVE  Tops(running', ready_list', pr)
  BY <1>5, FrontIsLargest DEF Tops
<1>6. CASE sorted # <<>> /\ pr[t] < pr[Head(sorted)]
  <2>1. thread_yield(t, sorted, st, pr) /\ t # Idle
    BY Zenon, <1>6, ThreadAssumption DEF if_yield, ThreadAssumption
  <2> DEFINE due == sleeping_list # <<>> /\ wake_in[Head(sleeping_list)] = 0
             q == IF due THEN woken ELSE both
  <2>2. q \in Seq(Threads) /\ Descending(q, pr) /\ Len(q) > 0
    <3> HIDE DEF woken, both
    <3> QED BY ZenonT(60), <1>3, <1>4
  <2>3. /\ running' = (IF q = <<>> THEN Idle ELSE Head(q))
        /\ ready_list' = (IF q = <<>> THEN q ELSE Tail(q))
    <3> HIDE DEF sorted
    <3> QED BY <2>1 DEF thread_yield, schedule
  <2> HIDE DEF q
  <2> QED BY <1>5, <2>2, <2>3
<1>7. CASE ~(sorted # <<>> /\ pr[t] < pr[Head(sorted)])
  <2>1. ready_list' = sorted /\ running' = t
    BY <1>7 DEF if_yield
  <2> HIDE DEF sorted
  <2>2. CASE sorted = <<>>
    BY <2>1, <2>2 DEF Tops, Contains
  <2>3. CASE sorted # <<>>
    <3>1. \A u : Contains(sorted, u) => u \in Threads /\ pr[Head(sorted)] >= pr[u]
      BY <1>2, <2>3, FrontIsLargest DEF Contains
    <3>2. Head(sorted) \in Threads
      BY <1>2, <2>3
    <3>3. pr[t] >= pr[Head(sorted)]
      BY <1>1, <1>7, <2>3, <3>2
    <3> QED BY <1>1, <2>1, <3>1, <3>2, <3>3 DEF Tops
  <2> QED BY <2>2, <2>3
<1> QED BY <1>6, <1>7

\* A thread moves on from the if_yield of sema_up or thread_create only in the
\* step that runs it.
LEMMA YieldStep ==
  ASSUME TypeOK, Next, NEW t \in Threads, pc[t] \in {"up", "yield"}, pc'[t] # pc[t]
  PROVE  sema_up(t) \/ create_yield(t)
<1>0. pc \in [Threads -> PC]
  BY DEF TypeOK
<1>1. ASSUME NEW r \in Threads, Step(r), r # t PROVE FALSE
  <2>1. ASSUME NEW p, GoTo(r, p) PROVE FALSE
    BY <1>0, <1>1, <2>1 DEF GoTo
  <2>2. CASE Return(r)
    BY <1>0, <1>1, <2>2 DEF Return
  <2>3. CASE UNCHANGED pc
    BY Zenon, <2>3
  <2>4. CASE ThreadOps(r)
    BY ZenonT(60), <2>1, <2>2, <2>3, <2>4 DEF ThreadOps, create_yield, thread_create,
       thread_set_priority, sleep, ctlVars
  <2>5. CASE SemaOps(r)
    BY <2>1, <2>2, <2>3, <2>5 DEF SemaOps, sema_down_block, sema_down_take, sema_up,
       after_up, call_sema_down, call_sema_up, ctlVars
  <2>6. CASE LockOps(r)
    BY ZenonT(60), <2>1, <2>2, <2>3, <2>6 DEF LockOps, lock_acquire, acquire, lock_release, release,
       lock_own, lock_enlist, lock_reset, lock_clear
  <2>7. CASE CondOps(r)
    BY ZenonT(60), <2>1, <2>2, <2>3, <2>7 DEF CondOps, cond_wait, release, cond_signal, signal,
       cond_broadcast, cond_reacquire, acquire, broadcast_next, broadcast_done
  <2>8. CASE ExitOps(r)
    BY ZenonT(60), <2>1, <2>2, <2>3, <2>8 DEF ExitOps, thread_exit, exit_release, release,
       exit_unlink, exit_die, ctlVars
  <2> QED BY ZenonT(60), <1>1, <2>4, <2>5, <2>6, <2>7, <2>8 DEF Step
<1>2. CASE Step(t)
  <2>1. CASE ThreadOps(t)
    BY <2>1 DEF ThreadOps, thread_create, thread_set_priority, sleep, At
  <2>2. CASE SemaOps(t)
    BY Zenon, <2>2 DEF SemaOps, sema_down_block, sema_down_take, call_sema_down, call_sema_up, At
  <2>3. CASE LockOps(t)
    BY Zenon, <2>3 DEF LockOps, lock_acquire, lock_release, lock_own, lock_enlist, lock_reset,
       lock_clear, At
  <2>4. CASE CondOps(t)
    BY Zenon, <2>4 DEF CondOps, cond_wait, cond_signal, cond_broadcast, cond_reacquire,
       broadcast_next, broadcast_done, At
  <2>5. CASE ExitOps(t)
    BY Zenon, <2>5 DEF ExitOps, thread_exit, exit_release, exit_unlink, exit_die, At
  <2> QED BY ZenonT(60), <1>2, <2>1, <2>2, <2>3, <2>4, <2>5 DEF Step
<1>3. CASE UNCHANGED pc
  BY <1>3
<1> QED BY ZenonT(60), <1>1, <1>2, <1>3 DEF Next, Preempt, Tick, idle, sema_up_intr, ctlVars

\* When if_yield has run, at the end of sema_up or of thread_create, no ready
\* thread has a higher priority than the running one.
THEOREM YieldsCorrect == Spec => YieldsToHigher
<1> DEFINE A == \A t \in Threads : (pc[t] \in {"up", "yield"} /\ pc'[t] # pc[t]) =>
                  \A u \in Range(ready_list') : priority'[running'] >= priority'[u]
<1>1. TypeOK /\ [Next]_vars => [A]_vars
  <2> SUFFICES ASSUME TypeOK, Next, NEW t \in Threads, pc[t] \in {"up", "yield"},
                      pc'[t] # pc[t], NEW u \in Range(ready_list')
               PROVE  priority'[running'] >= priority'[u]
    BY Zenon
  <2>0. /\ priority \in [All -> Priorities] /\ ready_list \in Seq(Threads)
        /\ sleeping_list \in Seq(Threads)
        /\ waiters \in [SemaIds -> Seq(Threads)] /\ \A v \in Threads : priority[v] \in Int
    BY ZenonT(60), PriorityInt DEF TypeOK, ThreadTypeOK, All
  <2>1. ready_list' \in Seq(Threads)
    BY ZenonT(60), NextType DEF TypeOK, ThreadTypeOK
  <2>2. Contains(ready_list', u)
    BY <2>1 DEF Range, Contains
  <2>3. sema_up(t) \/ create_yield(t)
    BY YieldStep
  <2>4. CASE create_yield(t)
    <3>1. running = t /\ priority' = priority /\ if_yield(t, ready_list, status, priority)
      BY Zenon, <2>4 DEF create_yield, At, prioVars
    <3> QED BY ZenonT(60), <2>0, <2>2, <3>1, IfYieldTops DEF Tops
  <2>5. CASE sema_up(t)
    <3> DEFINE w == waiters_by_priority(arg[t])
               rl == IF w = <<>> THEN ready_list
                     ELSE list_insert_ordered(ready_list, Head(w), priority)
               st == IF w = <<>> THEN status ELSE [status EXCEPT ![Head(w)] = "READY"]
    <3>1. running = t /\ priority' = priority /\ if_yield(t, rl, st, priority) /\ pc[t] = "up"
      BY ZenonT(60), <2>5 DEF sema_up, At, prioVars
    <3>2. arg[t] \in SemaIds
      BY <3>1 DEF TypeOK, ArgOK, Located
    <3>3. w \in Seq(Threads)
      BY ZenonT(60), <2>0, <3>2, SortProperties DEF waiters_by_priority
    <3> HIDE DEF w, st
    <3>4. rl \in Seq(Threads)
      <4>1. w # <<>> => Head(w) \in Threads
        BY <3>3
      <4> QED BY ZenonT(60), <2>0, <3>3, <4>1, InsertProperties
    <3> HIDE DEF rl
    <3> QED BY ZenonT(60), <2>0, <2>2, <3>1, <3>4, IfYieldTops DEF Tops
  <2> QED BY <2>3, <2>4, <2>5
<1> QED BY <1>1, TypeCorrect, PTL DEF Spec, YieldsToHigher

\* The only steps that take a thread off the wait list of s are sema_up on s
\* and the sema_init of a fresh waiter.
LEMMA WaitersStep ==
  ASSUME TypeOK, [Next]_vars, NEW s \in SemaIds
  PROVE  \/ \A u : Contains(waiters[s], u) => Contains(waiters'[s], u)
         \/ waiters'[s] = <<>>
         \/ /\ waiters_by_priority(s) # <<>>
            /\ waiters'[s] = Tail(waiters_by_priority(s))
<1> DEFINE Goal == \/ \A u : Contains(waiters[s], u) => Contains(waiters'[s], u)
                   \/ waiters'[s] = <<>>
                   \/ /\ waiters_by_priority(s) # <<>>
                      /\ waiters'[s] = Tail(waiters_by_priority(s))
<1>0. /\ waiters \in [SemaIds -> Seq(Threads)]
      /\ \A t \in Threads : priority[t] \in Int
  BY PriorityInt DEF TypeOK, ThreadTypeOK, All
<1> USE <1>0
<1>1. CASE UNCHANGED waiters
  BY ZenonT(60), <1>1
<1>2. ASSUME NEW q \in SemaIds, NEW w, w = waiters_by_priority(q),
             waiters' = [waiters EXCEPT ![q] = IF w = <<>> THEN w ELSE Tail(w)]
      PROVE  Goal
  <2>1. CASE q = s
    BY <1>2, <2>1
  <2>2. CASE q # s
    BY <1>2, <2>2
  <2> QED BY <2>1, <2>2
<1>3. ASSUME NEW q \in Semas, sema_up_intr(q) PROVE Goal
  BY Zenon, <1>2, <1>3 DEF sema_up_intr, SemaIds
<1>4. ASSUME NEW t \in Threads, sema_up(t) PROVE Goal
  <2>1. arg[t] \in SemaIds
    BY ZenonT(60), <1>4 DEF TypeOK, ArgOK, Located, sema_up, At
  <2> QED BY ZenonT(60), <1>2, <1>4, <2>1 DEF sema_up
<1>5. ASSUME NEW t \in Threads, sema_down_block(t) PROVE Goal
  <2>1. waiters' = [waiters EXCEPT ![arg[t]] = list_insert_ordered(@, t, priority)]
    BY Zenon, <1>5 DEF sema_down_block
  <2>2. CASE arg[t] = s
    <3>1. waiters'[s] = list_insert_ordered(waiters[s], t, priority)
      BY <2>1, <2>2
    <3>2. \A u : Contains(waiters[s], u) => Contains(waiters'[s], u)
      BY <3>1, InsertProperties
    <3> QED BY Zenon, <3>2
  <2>3. CASE arg[t] # s
    BY <2>1, <2>3
  <2> QED BY Zenon, <2>2, <2>3
<1>6. ASSUME NEW t \in Threads, NEW c \in Conds, cond_wait(t, c) PROVE Goal
  BY Zenon, <1>6 DEF cond_wait
<1>7. ASSUME NEW t \in Threads, Step(t) PROVE Goal
  <2>1. CASE ThreadOps(t)
    BY <1>1, <2>1 DEF ThreadOps, create_yield, thread_create, thread_set_priority, sleep,
       semaVars
  <2>2. CASE SemaOps(t)
    BY ZenonT(60), <1>1, <1>4, <1>5, <2>2 DEF SemaOps, sema_down_take, call_sema_down, call_sema_up,
       semaVars
  <2>3. CASE LockOps(t)
    BY Zenon, <1>1, <2>3 DEF LockOps, lock_acquire, acquire, lock_release, lock_own, lock_enlist,
       lock_reset, lock_clear, semaVars
  <2>4. CASE CondOps(t)
    BY ZenonT(60), <1>1, <1>6, <2>4 DEF CondOps, cond_signal, signal, cond_broadcast, cond_reacquire,
       acquire, broadcast_next, broadcast_done, semaVars
  <2>5. CASE ExitOps(t)
    BY Zenon, <1>1, <2>5 DEF ExitOps, thread_exit, exit_release, exit_unlink, exit_die, semaVars
  <2> QED BY ZenonT(60), <1>7, <2>1, <2>2, <2>3, <2>4, <2>5 DEF Step
<1> QED BY ZenonT(60), <1>1, <1>3, <1>7 DEF Next, Preempt, Tick, idle, semaVars, vars

\* What is on a list is its front or on the rest.
LEMMA FrontOrRest ==
  ASSUME NEW S, NEW w \in Seq(S), w # <<>>, NEW e, Contains(w, e)
  PROVE  e = Head(w) \/ Contains(Tail(w), e)
<1>1. PICK i \in 1 .. Len(w) : w[i] = e
  BY Zenon DEF Contains
<1>2. /\ Head(w) = w[1] /\ Len(Tail(w)) = Len(w) - 1
      /\ \A k \in 1 .. Len(w) - 1 : Tail(w)[k] = w[k + 1]
  OBVIOUS
<1>3. CASE i = 1
  BY Zenon, <1>1, <1>2, <1>3
<1>4. CASE i # 1
  <2>1. i - 1 \in 1 .. Len(w) - 1 /\ (i - 1) + 1 = i
    BY <1>4
  <2>2. Tail(w)[i - 1] = e
    BY Zenon, <1>1, <1>2, <2>1
  <2> QED BY Zenon, <1>2, <2>1, <2>2 DEF Contains
<1> QED BY Zenon, <1>3, <1>4

\* sema_up takes a waiter off the list that no remaining waiter beats, although
\* donation may have raised a waiter after it had queued.
THEOREM WakesCorrect == Spec => WakesHighest
<1> DEFINE A == waiters' # waiters =>
                  \A s \in SemaIds : \A t \in Range(waiters[s]) \ Range(waiters'[s]) :
                     \A u \in Range(waiters'[s]) : priority[t] >= priority[u]
<1>1. TypeOK /\ [Next]_vars => [A]_vars
  <2> SUFFICES ASSUME TypeOK, [Next]_vars, NEW s \in SemaIds,
                      NEW t \in Range(waiters[s]) \ Range(waiters'[s]),
                      NEW u \in Range(waiters'[s])
               PROVE  priority[t] >= priority[u]
    BY Zenon
  <2> DEFINE w == waiters_by_priority(s)
  <2>0. /\ waiters[s] \in Seq(Threads) /\ \A v \in Threads : priority[v] \in Int
    BY ZenonT(60), PriorityInt DEF TypeOK, ThreadTypeOK, All
  <2>1. waiters'[s] \in Seq(Threads)
    BY NextType DEF TypeOK
  <2>2. /\ Contains(waiters[s], t) /\ ~Contains(waiters'[s], t) /\ Contains(waiters'[s], u)
    BY Zenon, <2>0, <2>1, RangeContains
  <2>3. waiters'[s] # <<>>
    BY ZenonT(60), <2>2, NothingOnEmpty
  <2>4. w # <<>> /\ waiters'[s] = Tail(w)
    BY Zenon, <2>2, <2>3, WaitersStep
  <2>5. /\ w \in Seq(Threads) /\ Descending(w, priority)
        /\ \A e : Contains(w, e) <=> Contains(waiters[s], e)
    BY Zenon, <2>0, SortProperties, SortOrders DEF waiters_by_priority
  <2> HIDE DEF w
  <2>6. ASSUME NEW e, Contains(w, e) PROVE e = Head(w) \/ Contains(Tail(w), e)
    BY ZenonT(60), <2>4, <2>5, <2>6, FrontOrRest
  <2>7. t = Head(w) /\ Contains(w, u)
    BY Zenon, <2>2, <2>4, <2>5, <2>6, FrontIsLargest
  <2> QED BY ZenonT(60), <2>4, <2>5, <2>7, FrontIsLargest
<1> QED BY <1>1, TypeCorrect, PTL DEF Spec, WakesHighest
=============================================================================
