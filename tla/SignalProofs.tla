---------------------------- MODULE SignalProofs ----------------------------
(***************************************************************************)
(* For any number of threads, semaphores, locks and condition variables: a *)
(* thread is on the list its state says and on no other, and no wake-up of *)
(* sema_up and no signal of cond_signal is lost.                           *)
(***************************************************************************)
EXTENDS QueueProofs

\* The provers for the steps that name none, in this order.
USE SMTT(20), Z3T(20), ZenonT(60)

\* The woken threads are finitely many, so more of them means a larger number.
LEMMA WokenCount ==
  ASSUME NEW s
  PROVE  /\ IsFiniteSet(Woken(s)) /\ Cardinality(Woken(s)) \in Nat
         /\ IsFiniteSet(Woken(s)') /\ Cardinality(Woken(s)') \in Nat
         /\ Woken(s) \subseteq Woken(s)' => Cardinality(Woken(s)) <= Cardinality(Woken(s)')
         /\ \A t : Woken(s) \ {t} \subseteq Woken(s)' =>
              Cardinality(Woken(s)) - 1 <= Cardinality(Woken(s)')
         /\ \A t : Woken(s) \cup {t} \subseteq Woken(s)' /\ t \notin Woken(s) =>
              Cardinality(Woken(s)) + 1 <= Cardinality(Woken(s)')
<1>1. IsFiniteSet(Threads) /\ Woken(s) \subseteq Threads /\ Woken(s)' \subseteq Threads
  BY SynchAssumption DEF SynchAssumption, Woken
<1> DEFINE A == Woken(s)
           B == Woken(s)'
<1> HIDE DEF A, B
<1>2. IsFiniteSet(A) /\ IsFiniteSet(B)
  BY <1>1, FS_Subset DEF A, B
<1>3. Cardinality(A) \in Nat /\ Cardinality(B) \in Nat
  BY <1>2, FS_CardinalityType
<1>4. A \subseteq B => Cardinality(A) <= Cardinality(B)
  BY <1>2, FS_Subset
<1>5. ASSUME NEW t, A \ {t} \subseteq B
      PROVE  Cardinality(A) - 1 <= Cardinality(B)
  <2>1. Cardinality(A \ {t}) <= Cardinality(B)
    BY <1>2, <1>5, FS_Subset
  <2>2. Cardinality(A \ {t}) = IF t \in A THEN Cardinality(A) - 1 ELSE Cardinality(A)
    BY Zenon, <1>2, FS_RemoveElement
  <2> QED BY <1>3, <2>1, <2>2
<1>6. ASSUME NEW t, A \cup {t} \subseteq B, t \notin A
      PROVE  Cardinality(A) + 1 <= Cardinality(B)
  <2>1. Cardinality(A \cup {t}) <= Cardinality(B)
    BY <1>2, <1>6, FS_Subset
  <2>2. Cardinality(A \cup {t}) = Cardinality(A) + 1
    BY <1>2, <1>6, FS_AddElement
  <2> QED BY <2>1, <2>2
<1> QED BY <1>2, <1>3, <1>4, <1>5, <1>6 DEF A, B

\* A semaphore whose value and woken threads stay has lost no wake-up.
LEMMA WokenStay ==
  ASSUME NEW s \in SemaIds, value[s] \in Nat, value'[s] = value[s],
         value[s] <= Cardinality(Woken(s)), Woken(s) \subseteq Woken(s)'
  PROVE  value'[s] <= Cardinality(Woken(s)')
BY WokenCount

\* A steady step loses no wake-up: every woken thread is still on its way.
LEMMA SteadyWakeups ==
  ASSUME TypeOK, NoLostWakeup, Steady
  PROVE  NoLostWakeup'
<1> SUFFICES ASSUME NEW s \in SemaIds, waiters'[s] # <<>>
             PROVE  value'[s] <= Cardinality(Woken(s)')
  BY DEF NoLostWakeup
<1>1. Woken(s) \subseteq Woken(s)'
  BY DEF Steady, Woken
<1>2. value'[s] = value[s] /\ value[s] \in Nat /\ value[s] <= Cardinality(Woken(s))
  BY DEF Steady, NoLostWakeup, TypeOK
<1> QED BY <1>1, <1>2, WokenStay

\* A thread that blocks found the value zero; one that takes the value leaves
\* the woken threads, and the value falls with their number.
LEMMA DownWakeups ==
  ASSUME ListInv, NoLostWakeup, NEW t \in Threads,
         \/ sema_down_block(t) /\ Rescheduled([status EXCEPT ![t] = "BLOCKED"], status')
         \/ sema_down_take(t)
  PROVE  NoLostWakeup'
<1> SUFFICES ASSUME NEW s \in SemaIds, waiters'[s] # <<>>
             PROVE  value'[s] <= Cardinality(Woken(s)')
  BY ZenonT(60) DEF NoLostWakeup
<1>0. /\ Threads \subseteq All /\ status \in [All -> Status] /\ pc \in [Threads -> PC]
      /\ arg \in [Threads -> SemaIds \cup {NoLock}] /\ arg[t] \in SemaIds
      /\ value \in [SemaIds -> Nat] /\ waiters \in [SemaIds -> Seq(Threads)]
      /\ pc[t] = "down" /\ value[s] \in Nat
  BY DEF sema_down_block, sema_down_take, At, All, ListInv, TypeOK, ThreadTypeOK, ArgOK, Located
<1> USE <1>0
<1>1. CASE sema_down_block(t) /\ Rescheduled([status EXCEPT ![t] = "BLOCKED"], status')
  <2> DEFINE st == [status EXCEPT ![t] = "BLOCKED"]
  <2>1. /\ value[arg[t]] = 0 /\ UNCHANGED <<value, pc, arg>>
        /\ \A q \in SemaIds : q # arg[t] => waiters'[q] = waiters[q]
        /\ \A v \in Threads : v # t => st[v] = status[v]
    BY <1>1 DEF sema_down_block, ctlVars
  <2>2. CASE s = arg[t]
    <3>1. value'[s] = 0
      BY <2>1, <2>2
    <3> QED BY <3>1, WokenCount
  <2>3. CASE s # arg[t]
    <3> HIDE DEF st
    <3>1. Rescheduled(st, status')
      BY <1>1 DEF st
    <3>2. ASSUME NEW v \in Woken(s) PROVE v \in Woken(s)'
      <4>1. /\ v \in Threads /\ v # t /\ pc[v] = "down" /\ arg[v] = s
            /\ status[v] \in {"READY", "RUNNING"}
        BY <2>3 DEF Woken
      <4>2. status'[v] \in {"READY", "RUNNING"}
        BY ZenonT(60), <2>1, <3>1, <4>1 DEF Rescheduled
      <4> QED BY ZenonT(60), <2>1, <4>1, <4>2 DEF Woken
    <3>3. value'[s] = value[s] /\ waiters[s] # <<>>
      BY <2>1, <2>3
    <3>4. value[s] <= Cardinality(Woken(s))
      BY ZenonT(60), <3>3 DEF NoLostWakeup
    <3> QED BY ZenonT(60), <3>2, <3>3, <3>4, WokenStay
  <2> QED BY <2>2, <2>3
<1>2. CASE sema_down_take(t)
  <2>1. /\ UNCHANGED <<waiters, status>>
        /\ value' = [value EXCEPT ![arg[t]] = value[arg[t]] - 1]
        /\ \A u \in Threads \ {t} : pc'[u] = pc[u] /\ arg'[u] = arg[u]
    BY <1>2 DEF sema_down_take, GoTo, Return, schedVars
  <2>2. Woken(s) \ {t} \subseteq Woken(s)'
    BY <2>1 DEF Woken
  <2>3. value[s] <= Cardinality(Woken(s))
    BY <2>1 DEF NoLostWakeup
  <2>4. CASE s = arg[t]
    <3>1. value'[s] = value[s] - 1
      BY <2>1, <2>4
    <3>2. Cardinality(Woken(s)) - 1 <= Cardinality(Woken(s)')
      BY ZenonT(60), <2>2, WokenCount
    <3>3. Cardinality(Woken(s)) \in Nat /\ Cardinality(Woken(s)') \in Nat
      BY WokenCount
    <3> QED BY <2>3, <3>1, <3>2, <3>3
  <2>5. CASE s # arg[t]
    <3>1. value'[s] = value[s] /\ Woken(s) \subseteq Woken(s)'
      BY ZenonT(60), <2>1, <2>2, <2>5 DEF Woken
    <3> QED BY Zenon, <2>3, <3>1, WokenStay
  <2> QED BY <2>4, <2>5
<1> QED BY <1>1, <1>2

\* sema_up wakes one waiter as it increments the value.
LEMMA UpWakeups ==
  ASSUME ListInv, NoLostWakeup, NEW s \in SemaIds,
         value' = [value EXCEPT ![s] = @ + 1],
         \A q \in SemaIds : q # s => waiters'[q] = waiters[q],
         \A t \in Threads : pc[t] = "down" => pc'[t] = pc[t] /\ arg'[t] = arg[t],
         \/ waiters[s] = <<>> /\ Rescheduled(status, status') /\ waiters' = waiters
         \/ \E h \in Threads :
              /\ Contains(waiters[s], h)
              /\ Rescheduled([status EXCEPT ![h] = "READY"], status')
  PROVE  NoLostWakeup'
<1> SUFFICES ASSUME NEW q \in SemaIds, waiters'[q] # <<>>
             PROVE  value'[q] <= Cardinality(Woken(q)')
  BY Zenon DEF NoLostWakeup
<1>0. /\ Threads \subseteq All /\ status \in [All -> Status] /\ value \in [SemaIds -> Nat]
      /\ value[q] \in Nat
  BY ZenonT(60) DEF All, ListInv, TypeOK, ThreadTypeOK
<1> USE <1>0
<1>1. CASE waiters[s] = <<>> /\ Rescheduled(status, status') /\ waiters' = waiters
  <2>1. Woken(q) \subseteq Woken(q)'
    BY ZenonT(60), <1>1 DEF Woken, Rescheduled
  <2>2. value'[q] = value[q] /\ value[q] <= Cardinality(Woken(q))
    BY <1>1 DEF NoLostWakeup
  <2> QED BY <2>1, <2>2, WokenStay
<1>2. ASSUME NEW h \in Threads, Contains(waiters[s], h),
             Rescheduled([status EXCEPT ![h] = "READY"], status')
      PROVE  value'[q] <= Cardinality(Woken(q)')
  <2> DEFINE st == [status EXCEPT ![h] = "READY"]
  <2>1. status[h] = "BLOCKED" /\ pc[h] = "down" /\ arg[h] = s
    BY <1>2 DEF ListInv, WaitsPlaced
  <2>2. st[h] = "READY" /\ \A v \in Threads : v # h => st[v] = status[v]
    OBVIOUS
  <2>3. Rescheduled(st, status')
    BY <1>2
  <2> HIDE DEF st
  <2>4. Woken(q) \subseteq Woken(q)'
    <3> SUFFICES ASSUME NEW v \in Woken(q) PROVE v \in Woken(q)'
      OBVIOUS
    <3>1. v \in Threads /\ pc[v] = "down" /\ arg[v] = q /\ status[v] \in {"READY", "RUNNING"}
      BY DEF Woken
    <3>2. st[v] \in {"READY", "RUNNING"}
      BY Zenon, <2>2, <3>1
    <3>3. status'[v] \in {"READY", "RUNNING"}
      BY ZenonT(60), <2>3, <3>1, <3>2 DEF Rescheduled
    <3> QED BY <3>1, <3>3 DEF Woken
  <2>5. waiters[q] # <<>>
    <3>1. waiters[s] # <<>>
      BY <1>2 DEF Contains
    <3> QED BY <3>1
  <2>6. value[q] <= Cardinality(Woken(q))
    BY <2>5 DEF NoLostWakeup
  <2>7. CASE q = s
    <3>1. status'[h] \in {"READY", "RUNNING"}
      BY Zenon, <2>2, <2>3 DEF Rescheduled
    <3>2. h \in Woken(q)' /\ h \notin Woken(q)
      BY ZenonT(60), <2>1, <2>7, <3>1 DEF Woken
    <3>3. Woken(q) \cup {h} \subseteq Woken(q)'
      BY ZenonT(60), <2>4, <3>2
    <3>4. Cardinality(Woken(q)) + 1 <= Cardinality(Woken(q)')
      BY ZenonT(60), <3>2, <3>3, WokenCount
    <3>5. value'[q] = value[q] + 1
      BY Zenon, <2>7
    <3>6. Cardinality(Woken(q)) \in Nat /\ Cardinality(Woken(q)') \in Nat
      BY Zenon, WokenCount
    <3> QED BY <2>6, <3>4, <3>5, <3>6
  <2>8. CASE q # s
    <3>1. value'[q] = value[q]
      BY Zenon, <2>8
    <3> QED BY ZenonT(60), <2>4, <2>6, <3>1, WokenStay
  <2> QED BY ZenonT(60), <2>7, <2>8
<1> QED BY Zenon, <1>1, <1>2

\* A fresh cond_wait starts at zero.
LEMMA CondWaitWakeups ==
  ASSUME ListInv, NoLostWakeup, NEW t \in Threads, NEW c \in Conds, cond_wait(t, c),
         waiters' = waiters
  PROVE  NoLostWakeup'
<1> SUFFICES ASSUME NEW s \in SemaIds, waiters'[s] # <<>>
             PROVE  value'[s] <= Cardinality(Woken(s)')
  BY Zenon DEF NoLostWakeup
<1>0. /\ value \in [SemaIds -> Nat] /\ waiters \in [SemaIds -> Seq(Threads)] /\ t \in SemaIds
      /\ pc \in [Threads -> PC] /\ arg \in [Threads -> SemaIds \cup {NoLock}]
  BY ZenonT(60) DEF ListInv, TypeOK, SemaIds
<1>1. /\ value' = [value EXCEPT ![t] = 0] /\ UNCHANGED status /\ pc[t] = "run"
      /\ waiters' = [waiters EXCEPT ![t] = <<>>]
      /\ \A u \in Threads \ {t} : pc'[u] = pc[u] /\ arg'[u] = arg[u]
  BY <1>0 DEF cond_wait, release, At, GoTo, schedVars
<1>2. s # t
  BY <1>0, <1>1
<1>3. value'[s] = value[s] /\ value[s] \in Nat
  BY <1>0, <1>1, <1>2
<1>4. Woken(s) \subseteq Woken(s)'
  BY <1>1 DEF Woken
<1>5. value[s] <= Cardinality(Woken(s))
  BY DEF NoLostWakeup
<1> QED BY ZenonT(60), <1>3, <1>4, <1>5, WokenStay

-----------------------------------------------------------------------------
\* Every step keeps the lists and loses no wake-up.
LEMMA NextLists ==
  ASSUME ListInv, [Next]_vars
  PROVE  ListInv' /\ (NoLostWakeup => NoLostWakeup')
<1>0. TypeOK /\ TypeOK'
  BY NextType DEF ListInv
<1> USE <1>0
<1>1. Steady /\ NoLostWakeup => NoLostWakeup'
  BY SteadyWakeups
<1>2. ASSUME NEW t \in Threads, SemaOps(t)
      PROVE  ListInv' /\ (NoLostWakeup => NoLostWakeup')
  <2>1. CASE sema_down_block(t)
    BY Zenon, <2>1, DownBlockLists, DownWakeups
  <2>2. CASE sema_down_take(t)
    BY Zenon, <2>2, DownTakeLists, DownWakeups
  <2>3. CASE sema_up(t)
    <3>1. /\ ListInv'
          /\ \/ waiters[arg[t]] = <<>> /\ Rescheduled(status, status') /\ waiters' = waiters
             \/ \E h \in Threads :
                  /\ Contains(waiters[arg[t]], h)
                  /\ Rescheduled([status EXCEPT ![h] = "READY"], status')
      BY <2>3, SemaUpLists
    <3>2. /\ At(t, "up") /\ after_up(t) /\ arg[t] \in SemaIds
          /\ value' = [value EXCEPT ![arg[t]] = @ + 1]
          /\ \A q \in SemaIds : q # arg[t] => waiters'[q] = waiters[q]
      BY ZenonT(60), <2>3 DEF sema_up, TypeOK, ArgOK, Located, At
    <3>3. \A u \in Threads : pc[u] = "down" => pc'[u] = pc[u] /\ arg'[u] = arg[u]
      BY <3>2, AfterUp DEF At
    <3> QED BY ZenonT(60), <3>1, <3>2, <3>3, UpWakeups
  <2>4. ASSUME NEW s \in Semas, call_sema_down(t, s) \/ call_sema_up(t, s)
        PROVE  ListInv' /\ (NoLostWakeup => NoLostWakeup')
    BY Zenon, <1>1, <2>4, SemaCallsLists
  <2> QED BY <1>2, <2>1, <2>2, <2>3, <2>4 DEF SemaOps
<1>3. ASSUME NEW t \in Threads, CondOps(t)
      PROVE  ListInv' /\ (NoLostWakeup => NoLostWakeup')
  BY ZenonT(60), <1>1, <1>3, CondOpsLists, CondWaitWakeups
<1>4. ASSUME NEW t \in Threads, Step(t)
      PROVE  ListInv' /\ (NoLostWakeup => NoLostWakeup')
  BY ZenonT(60), <1>1, <1>2, <1>3, <1>4, ThreadOpsLists, LockOpsLists, ExitOpsLists DEF Step
<1>5. CASE Preempt \/ Tick \/ idle
  BY <1>1, <1>5, InterruptLists
<1>6. ASSUME NEW s \in Semas, sema_up_intr(s)
      PROVE  ListInv' /\ (NoLostWakeup => NoLostWakeup')
  <2>1. /\ ListInv'
        /\ \/ waiters[s] = <<>> /\ Rescheduled(status, status') /\ waiters' = waiters
           \/ \E h \in Threads :
                /\ Contains(waiters[s], h)
                /\ Rescheduled([status EXCEPT ![h] = "READY"], status')
    BY ZenonT(60), <1>6, SemaUpIntrLists
  <2>2. /\ s \in SemaIds /\ value' = [value EXCEPT ![s] = @ + 1] /\ UNCHANGED <<pc, arg>>
        /\ \A q \in SemaIds : q # s => waiters'[q] = waiters[q]
    BY <1>6 DEF sema_up_intr, ctlVars, TypeOK, SemaIds
  <2> QED BY Zenon, <2>1, <2>2, UpWakeups
<1>7. CASE UNCHANGED vars
  <2>1. /\ UNCHANGED <<running, status, ready_list, sleeping_list, waiters, value, pc, arg>>
    BY <1>7 DEF vars, schedVars, semaVars, ctlVars
  <2>2. WaitsPlaced'
    BY <2>1 DEF ListInv, WaitsPlaced
  <2>3. Queued(ready_list', sleeping_list', status') /\ OneRuns(status', running')
    BY <2>1 DEF ListInv
  <2>4. Steady
    BY <2>1 DEF Steady
  <2> QED BY ZenonT(60), <1>1, <2>2, <2>3, <2>4 DEF ListInv
<1> QED BY ZenonT(60), <1>4, <1>5, <1>6, <1>7 DEF Next

\* The lists of the scheduler and of the semaphores: each thread is on the list
\* that its state names and on no other, each list holds it once, and exactly
\* one thread is running.  struct thread has only one list element for all of
\* them (thread.h), and no code checks that it is free when it is inserted.
THEOREM ListsCorrect == Spec => []ListsExclusive
<1>1. ListInv /\ [Next]_vars => ListInv'
  BY ZenonT(60), NextLists
<1>2. ListInv => ListsExclusive
  <2> SUFFICES ASSUME ListInv PROVE ListsExclusive
    BY ZenonT(60)
  <2>1. /\ ready_list \in Seq(Threads) /\ sleeping_list \in Seq(Threads)
        /\ \A s \in SemaIds : waiters[s] \in Seq(Threads)
    BY ZenonT(60) DEF ListInv, TypeOK, ThreadTypeOK
  <2>2. /\ NoDuplicates(ready_list) /\ NoDuplicates(sleeping_list)
        /\ \A s \in SemaIds : NoDuplicates(waiters[s])
    BY <2>1, OnceByCardinality DEF ListInv, Queued, WaitsPlaced, NoDuplicates
  <2>3. ~Contains(ready_list, Idle)
    BY <2>1, ThreadAssumption DEF ThreadAssumption, Contains
  <2> QED BY <2>2, <2>3 DEF ListsExclusive, ListInv, Queued, OneRuns, WaitsPlaced
<1> QED BY <1>1, <1>2, InitLists, PTL DEF Spec

\* No wake-up of sema_up is lost, whichever thread gets to the value first.
THEOREM WakeupsKept == Spec => []NoLostWakeup
<1>1. Init => ListInv /\ NoLostWakeup
  <2>1. Init => NoLostWakeup
    BY DEF Init, NoLostWakeup
  <2> QED BY ZenonT(60), <2>1, InitLists
<1>2. ListInv /\ NoLostWakeup /\ [Next]_vars => (ListInv /\ NoLostWakeup)'
  BY NextLists
<1> QED BY <1>1, <1>2, PTL DEF Spec

-----------------------------------------------------------------------------
\* t is in cond_wait and has not been through its sema_down yet.
Waits(t) == cont[t] = "wait" /\ pc[t] \in {"reset", "clear", "up", "down"}

\* u is about to sema_up the semaphore of t's cond_wait.
Signals(u, t) == pc[u] = "up" /\ arg[u] = t

Listed(t) == \E c \in Conds : Contains(cond_waiters[c], t)

\* A signal is at one place at a time: a waiter is on the list of its condition
\* variable, or one signaller is about to raise its semaphore, or the semaphore
\* is up; and only a thread in cond_wait is at one of them.
SignalInv ==
  /\ \A c \in Conds : IsInjective(cond_waiters[c])
  /\ \A t \in Threads, c \in Conds : Contains(cond_waiters[c], t) => Waits(t) /\ cond[t] = c
  /\ \A t, u \in Threads : Signals(u, t) => Waits(t) /\ ~Listed(t) /\ value[t] = 0
  /\ \A t, u, v \in Threads : Signals(u, t) /\ Signals(v, t) => u = v
  /\ \A t \in Threads : value[t] # 0 => value[t] = 1 /\ Waits(t) /\ ~Listed(t)
  /\ \A t \in Threads : Waits(t) =>
       Listed(t) \/ value[t] = 1 \/ \E u \in Threads : Signals(u, t)
  /\ \A t \in Threads : pc[t] = "down" /\ arg[t] \in Threads => arg[t] = t

\* A step of r that neither enters nor leaves a wait and neither starts nor
\* ends a signal.
LEMMA SignalFrame ==
  ASSUME SignalInv, NEW r \in Threads,
         UNCHANGED cond_waiters, \A t \in Threads : value'[t] = value[t],
         \A u \in Threads \ {r} : /\ pc'[u] = pc[u] /\ arg'[u] = arg[u]
                                  /\ cont'[u] = cont[u] /\ cond'[u] = cond[u],
         Waits(r)' <=> Waits(r), Waits(r) => cond'[r] = cond[r],
         \A t \in Threads : Signals(r, t)' <=> Signals(r, t),
         pc'[r] = "down" /\ arg'[r] \in Threads => arg'[r] = r
  PROVE  SignalInv'
<1>1. ASSUME NEW t \in Threads
      PROVE  /\ Waits(t)' <=> Waits(t)
             /\ Listed(t)' <=> Listed(t)
             /\ Waits(t) => cond'[t] = cond[t]
             /\ \A u \in Threads : Signals(u, t)' <=> Signals(u, t)
             /\ pc'[t] = "down" /\ arg'[t] \in Threads => arg'[t] = t
  <2>1. \A u \in Threads : Signals(u, t)' <=> Signals(u, t)
    BY DEF Signals
  <2>2. Listed(t)' <=> Listed(t)
    BY Zenon DEF Listed
  <2>3. CASE t = r
    BY ZenonT(60), <2>1, <2>2, <2>3
  <2>4. CASE t # r
    BY ZenonT(60), <2>1, <2>2, <2>4 DEF Waits, SignalInv
  <2> QED BY ZenonT(60), <2>3, <2>4
<1>2. \A t \in Threads, c \in Conds :
        Contains(cond_waiters'[c], t) => Waits(t)' /\ cond'[t] = c
  BY ZenonT(60), <1>1 DEF SignalInv
<1>3. \A t, u \in Threads : Signals(u, t)' => Waits(t)' /\ ~Listed(t)' /\ value'[t] = 0
  BY ZenonT(60), <1>1 DEF SignalInv
<1>4. \A t, u, v \in Threads : Signals(u, t)' /\ Signals(v, t)' => u = v
  BY <1>1 DEF SignalInv
<1>5. \A t \in Threads : value'[t] # 0 => value'[t] = 1 /\ Waits(t)' /\ ~Listed(t)'
  <2>1. \A t \in Threads : value[t] # 0 => value[t] = 1 /\ Waits(t) /\ ~Listed(t)
    BY Zenon DEF SignalInv
  <2> QED BY ZenonT(60), <1>1, <2>1
<1>6. \A t \in Threads : Waits(t)' =>
        Listed(t)' \/ value'[t] = 1 \/ \E u \in Threads : Signals(u, t)'
  BY ZenonT(60), <1>1 DEF SignalInv
<1>7. \A c \in Conds : IsInjective(cond_waiters'[c])
  BY Zenon DEF SignalInv
<1>8. \A t \in Threads : pc'[t] = "down" /\ arg'[t] \in Threads => arg'[t] = t
  BY Zenon, <1>1
<1> QED BY ZenonT(60), <1>2, <1>3, <1>4, <1>5, <1>6, <1>7, <1>8 DEF SignalInv

\* A step of r that is outside both before and after.
LEMMA SignalApart ==
  ASSUME TypeOK, SignalInv, NEW r \in Threads,
         UNCHANGED cond_waiters, \A t \in Threads : value'[t] = value[t],
         \A u \in Threads \ {r} : /\ pc'[u] = pc[u] /\ arg'[u] = arg[u]
                                  /\ cont'[u] = cont[u] /\ cond'[u] = cond[u],
         cont[r] # "wait", cont'[r] # "wait",
         pc[r] = "up" => arg[r] \notin Threads,
         pc'[r] \in {"up", "down"} => arg'[r] \notin Threads
  PROVE  SignalInv'
<1>1. ~Waits(r) /\ ~Waits(r)'
  BY DEF Waits
<1>2. \A t \in Threads : ~Signals(r, t) /\ ~Signals(r, t)'
  BY DEF Signals
<1> QED BY Zenon, <1>1, <1>2, SignalFrame

\* cond_wait puts its thread on one list, with the semaphore down.
LEMMA CondWaitSignals ==
  ASSUME TypeOK, TypeOK', SignalInv, NEW t \in Threads, NEW c \in Conds, cond_wait(t, c)
  PROVE  SignalInv'
<1>0. /\ pc \in [Threads -> PC] /\ arg \in [Threads -> SemaIds \cup {NoLock}]
      /\ cont \in [Threads -> Conts] /\ cond \in [Threads -> Conds \cup {NoCond}]
      /\ value \in [SemaIds -> Nat] /\ t \in SemaIds /\ Threads \subseteq SemaIds
      /\ cond_waiters \in [Conds -> Seq(Threads)] /\ cond_waiters[c] \in Seq(Threads)
  BY ZenonT(60) DEF TypeOK, SemaIds
<1> DEFINE w == list_insert_ordered(cond_waiters[c], t, cond_priority')
<1>1. /\ pc[t] = "run" /\ pc' = [pc EXCEPT ![t] = "reset"] /\ cont' = [cont EXCEPT ![t] = "wait"]
      /\ arg' = [arg EXCEPT ![t] = CondLock[c]] /\ cond' = [cond EXCEPT ![t] = c]
      /\ value' = [value EXCEPT ![t] = 0] /\ cond_waiters' = [cond_waiters EXCEPT ![c] = w]
  BY Zenon DEF cond_wait, release, At, GoTo
<1>2. /\ pc'[t] = "reset" /\ cont'[t] = "wait" /\ cond'[t] = c /\ value'[t] = 0
      /\ \A u \in Threads \ {t} : /\ pc'[u] = pc[u] /\ arg'[u] = arg[u]
                                  /\ cont'[u] = cont[u] /\ cond'[u] = cond[u]
                                  /\ value'[u] = value[u]
  BY ZenonT(60), <1>0, <1>1
<1>3. ~Waits(t) /\ Waits(t)' /\ ~Listed(t) /\ value[t] = 0
  BY ZenonT(60), <1>1, <1>2 DEF Waits, SignalInv, Listed
<1>4. \A u, v \in Threads : Signals(u, v)' <=> Signals(u, v)
  BY <1>1, <1>2 DEF Signals
<1>5. \A u \in Threads : ~Signals(u, t)
  BY Zenon, <1>3 DEF SignalInv
<1>6. /\ IsInjective(w)
      /\ \A e : Contains(w, e) <=> e = t \/ Contains(cond_waiters[c], e)
  <2>1. IsInjective(cond_waiters[c]) /\ ~Contains(cond_waiters[c], t)
    BY Zenon, <1>3 DEF SignalInv, Listed
  <2> QED BY ZenonT(60), <1>0, <2>1, InsertProperties, InsertOnce
<1> HIDE DEF w
<1>7. /\ cond_waiters'[c] = w
      /\ \A d \in Conds : d # c => cond_waiters'[d] = cond_waiters[d]
  BY ZenonT(60), <1>0, <1>1
<1>8. ASSUME NEW u \in Threads, u # t
      PROVE  /\ Listed(u)' <=> Listed(u)
             /\ Waits(u)' <=> Waits(u)
             /\ \A d \in Conds : Contains(cond_waiters'[d], u) <=> Contains(cond_waiters[d], u)
  <2>1. \A d \in Conds : Contains(cond_waiters'[d], u) <=> Contains(cond_waiters[d], u)
    BY ZenonT(60), <1>6, <1>7, <1>8
  <2>2. Waits(u)' <=> Waits(u)
    BY ZenonT(60), <1>2, <1>8 DEF Waits
  <2> QED BY ZenonT(60), <2>1, <2>2 DEF Listed
<1>9. Listed(t)'
  BY ZenonT(60), <1>6, <1>7 DEF Listed
<1>10. \A u \in Threads, d \in Conds :
         Contains(cond_waiters'[d], u) => Waits(u)' /\ cond'[u] = d
  <2> SUFFICES ASSUME NEW u \in Threads, NEW d \in Conds, Contains(cond_waiters'[d], u)
               PROVE  Waits(u)' /\ cond'[u] = d
    BY Zenon
  <2>1. CASE u = t
    BY ZenonT(60), <1>2, <1>3, <1>7, <2>1 DEF Listed
  <2>2. CASE u # t
    <3>1. Contains(cond_waiters[d], u) => Waits(u) /\ cond[u] = d
      BY Zenon DEF SignalInv
    <3> QED BY ZenonT(60), <1>2, <1>8, <2>2, <3>1
  <2> QED BY ZenonT(60), <2>1, <2>2
<1>11. \A u, v \in Threads : Signals(v, u)' => Waits(u)' /\ ~Listed(u)' /\ value'[u] = 0
  <2> SUFFICES ASSUME NEW u \in Threads, NEW v \in Threads, Signals(v, u)'
               PROVE  Waits(u)' /\ ~Listed(u)' /\ value'[u] = 0
    OBVIOUS
  <2>1. Signals(v, u) /\ u # t
    BY ZenonT(60), <1>4, <1>5
  <2>2. Waits(u) /\ ~Listed(u) /\ value[u] = 0
    BY ZenonT(60), <2>1 DEF SignalInv
  <2> QED BY ZenonT(60), <1>2, <1>8, <2>1, <2>2
<1>12. \A u, v, x \in Threads : Signals(v, u)' /\ Signals(x, u)' => v = x
  BY <1>4 DEF SignalInv
<1>13. \A u \in Threads : value'[u] # 0 => value'[u] = 1 /\ Waits(u)' /\ ~Listed(u)'
  BY ZenonT(60), <1>2, <1>8 DEF SignalInv
<1>14. \A u \in Threads : Waits(u)' =>
         Listed(u)' \/ value'[u] = 1 \/ \E v \in Threads : Signals(v, u)'
  BY ZenonT(60), <1>2, <1>4, <1>8, <1>9 DEF SignalInv
<1>15. \A d \in Conds : IsInjective(cond_waiters'[d])
  BY ZenonT(60), <1>6, <1>7 DEF SignalInv
<1>16. \A u \in Threads : pc'[u] = "down" /\ arg'[u] \in Threads => arg'[u] = u
  BY <1>2 DEF SignalInv
<1> QED BY ZenonT(60), <1>10, <1>11, <1>12, <1>13, <1>14, <1>15, <1>16 DEF SignalInv

\* cond_signal takes one waiter off the list and becomes its signaller.
LEMMA SignalStep ==
  ASSUME TypeOK, TypeOK', SignalInv, NEW t \in Threads, NEW c \in Conds,
         pc[t] \in {"run", "bcast"}, signal(t, c), UNCHANGED cond
  PROVE  SignalInv'
<1> DEFINE w == list_sort(cond_waiters[c], cond_priority)
           h == Head(w)
<1>0. /\ pc \in [Threads -> PC] /\ arg \in [Threads -> SemaIds \cup {NoLock}]
      /\ Threads \subseteq SemaIds
      /\ cond_waiters \in [Conds -> Seq(Threads)] /\ cond_waiters[c] \in Seq(Threads)
      /\ \A e \in Threads : cond_priority[e] \in Int
  BY ZenonT(60), PriorityInt DEF TypeOK, SemaIds
<1>1. /\ w # <<>> /\ cond_waiters' = [cond_waiters EXCEPT ![c] = Tail(w)]
      /\ pc' = [pc EXCEPT ![t] = "up"] /\ arg' = [arg EXCEPT ![t] = h]
      /\ UNCHANGED <<value, cont, cond>>
  BY DEF signal, GoTo, semaVars
<1>2. /\ w \in Seq(Threads) /\ IsInjective(w)
      /\ \A e : Contains(w, e) <=> Contains(cond_waiters[c], e)
  BY ZenonT(60), <1>0, SortProperties, SortOrders DEF SignalInv
<1> HIDE DEF w
<1>3. /\ h \in Threads /\ Contains(w, h) /\ IsInjective(Tail(w))
      /\ \A e : Contains(Tail(w), e) <=> Contains(w, e) /\ e # h
  BY ZenonT(60), <1>1, <1>2, TailOnce
<1> HIDE DEF h
<1>4. /\ pc'[t] = "up" /\ arg'[t] = h
      /\ \A u \in Threads \ {t} : pc'[u] = pc[u] /\ arg'[u] = arg[u]
      /\ cond_waiters'[c] = Tail(w)
      /\ \A d \in Conds : d # c => cond_waiters'[d] = cond_waiters[d]
  BY <1>0, <1>1
<1>5. Contains(cond_waiters[c], h) /\ Waits(h) /\ cond[h] = c /\ Listed(h)
  BY ZenonT(60), <1>2, <1>3 DEF SignalInv, Listed
<1>6. h # t /\ cont[t] # "wait"
  <2>1. cont[t] # "wait"
    BY ZenonT(60) DEF TypeOK, ArgOK, Located
  <2> QED BY ZenonT(60), <1>5, <2>1 DEF Waits
<1>7. value[h] = 0 /\ \A u \in Threads : ~Signals(u, h)
  BY ZenonT(60), <1>3, <1>5 DEF SignalInv
<1>8. \A u \in Threads : Waits(u)' <=> Waits(u)
  BY ZenonT(60), <1>1, <1>4, <1>6 DEF Waits
<1>9. \A u, v \in Threads : Signals(u, v)' <=> Signals(u, v) \/ (u = t /\ v = h)
  BY Zenon, <1>4 DEF Signals
<1>10. \A u \in Threads, d \in Conds :
         Contains(cond_waiters'[d], u) <=> Contains(cond_waiters[d], u) /\ u # h
  <2> SUFFICES ASSUME NEW u \in Threads, NEW d \in Conds
               PROVE  Contains(cond_waiters'[d], u) <=> Contains(cond_waiters[d], u) /\ u # h
    OBVIOUS
  <2>1. CASE d = c
    <3>1. Contains(Tail(w), u) <=> Contains(cond_waiters[c], u) /\ u # h
      BY ZenonT(60), <1>2, <1>3
    <3> QED BY ZenonT(60), <1>4, <2>1, <3>1
  <2>2. CASE d # c
    <3>1. Contains(cond_waiters[d], u) => u # h
      BY ZenonT(60), <1>5, <2>2 DEF SignalInv
    <3> QED BY ZenonT(60), <1>4, <2>2, <3>1
  <2> QED BY ZenonT(60), <2>1, <2>2
<1>11. \A u \in Threads : Listed(u)' <=> Listed(u) /\ u # h
  BY <1>10 DEF Listed
<1>12. \A u \in Threads, d \in Conds :
         Contains(cond_waiters'[d], u) => Waits(u)' /\ cond'[u] = d
  BY ZenonT(60), <1>1, <1>8, <1>10 DEF SignalInv
<1>13. \A u, v \in Threads : Signals(v, u)' => Waits(u)' /\ ~Listed(u)' /\ value'[u] = 0
  <2> SUFFICES ASSUME NEW u \in Threads, NEW v \in Threads, Signals(v, u)'
               PROVE  Waits(u)' /\ ~Listed(u)' /\ value'[u] = 0
    OBVIOUS
  <2>1. CASE Signals(v, u)
    BY ZenonT(60), <1>1, <1>8, <1>11, <2>1 DEF SignalInv
  <2>2. CASE v = t /\ u = h
    BY ZenonT(60), <1>1, <1>5, <1>7, <1>8, <1>11, <2>2
  <2> QED BY ZenonT(60), <1>9, <2>1, <2>2
<1>14. \A u, v, x \in Threads : Signals(v, u)' /\ Signals(x, u)' => v = x
  <2> SUFFICES ASSUME NEW u \in Threads, NEW v \in Threads, NEW x \in Threads,
                      Signals(v, u)', Signals(x, u)'
               PROVE  v = x
    OBVIOUS
  <2>1. CASE u = h
    BY ZenonT(60), <1>7, <1>9, <2>1
  <2>2. CASE u # h
    <3>1. Signals(v, u) /\ Signals(x, u)
      BY Zenon, <1>9, <2>2
    <3> QED BY Zenon, <3>1 DEF SignalInv
  <2> QED BY ZenonT(60), <2>1, <2>2
<1>15. \A u \in Threads : value'[u] # 0 => value'[u] = 1 /\ Waits(u)' /\ ~Listed(u)'
  BY ZenonT(60), <1>1, <1>8, <1>11 DEF SignalInv
<1>16. \A u \in Threads : Waits(u)' =>
         Listed(u)' \/ value'[u] = 1 \/ \E v \in Threads : Signals(v, u)'
  BY ZenonT(60), <1>1, <1>8, <1>9, <1>11 DEF SignalInv
<1>17. \A d \in Conds : IsInjective(cond_waiters'[d])
  BY ZenonT(60), <1>3, <1>4 DEF SignalInv
<1>18. \A u \in Threads : pc'[u] = "down" /\ arg'[u] \in Threads => arg'[u] = u
  BY <1>4 DEF SignalInv
<1> QED BY ZenonT(60), <1>12, <1>13, <1>14, <1>15, <1>16, <1>17, <1>18 DEF SignalInv

\* The signaller raises the waiter's semaphore, once.
LEMMA RaiseSignals ==
  ASSUME TypeOK, TypeOK', SignalInv, NEW t \in Threads, sema_up(t), arg[t] \in Threads
  PROVE  SignalInv'
<1> DEFINE h == arg[t]
<1>0. /\ pc \in [Threads -> PC] /\ value \in [SemaIds -> Nat] /\ Threads \subseteq SemaIds
      /\ h \in Threads /\ h \notin Locks
  BY SynchAssumption DEF SynchAssumption, TypeOK, SemaIds
<1>1. /\ At(t, "up") /\ pc[t] = "up" /\ after_up(t) /\ UNCHANGED <<cond_waiters, cont, cond>>
      /\ value' = [value EXCEPT ![h] = @ + 1]
  BY ZenonT(60) DEF sema_up, At, condVars
<1>2. /\ \A u \in Threads \ {t} : pc'[u] = pc[u] /\ arg'[u] = arg[u]
      /\ pc'[t] \in {"unlink", "bcast", "run"}
  BY <1>0, <1>1, AfterUp
<1>3. Signals(t, h) /\ Waits(h) /\ ~Listed(h) /\ value[h] = 0
  BY ZenonT(60), <1>1 DEF Signals, SignalInv
<1> HIDE DEF h
<1>4. cont[t] # "wait" /\ h # t
  <2>1. cont[t] # "wait"
    BY ZenonT(60), <1>0, <1>1 DEF h, TypeOK, ArgOK, Located
  <2> QED BY Zenon, <1>3, <2>1 DEF Waits
<1>5. value'[h] = 1 /\ \A u \in Threads \ {h} : value'[u] = value[u]
  <2>1. h \in SemaIds /\ value[h] + 1 = 1
    BY <1>0, <1>3
  <2> QED BY ZenonT(60), <1>0, <1>1, <2>1
<1>6. \A u \in Threads : (Waits(u)' <=> Waits(u)) /\ (Listed(u)' <=> Listed(u))
  BY ZenonT(60), <1>1, <1>2, <1>4 DEF Waits, Listed
<1>7. \A u, v \in Threads : Signals(u, v)' <=> Signals(u, v) /\ u # t
  BY <1>2 DEF Signals
<1>8. \A v \in Threads : Signals(t, v) <=> v = h
  BY <1>3 DEF Signals, h
<1>9. \A u \in Threads, d \in Conds :
        Contains(cond_waiters'[d], u) => Waits(u)' /\ cond'[u] = d
  BY Zenon, <1>1, <1>6 DEF SignalInv
<1>10. \A u, v \in Threads : Signals(v, u)' => Waits(u)' /\ ~Listed(u)' /\ value'[u] = 0
  <2> SUFFICES ASSUME NEW u \in Threads, NEW v \in Threads, Signals(v, u)'
               PROVE  Waits(u)' /\ ~Listed(u)' /\ value'[u] = 0
    OBVIOUS
  <2>1. Signals(v, u) /\ v # t
    BY <1>7
  <2>2. ASSUME u = h PROVE FALSE
    <3>1. Signals(v, u) /\ Signals(t, u)
      BY ZenonT(60), <1>3, <2>1, <2>2
    <3> QED BY Zenon, <2>1, <3>1 DEF SignalInv
  <2> QED BY ZenonT(60), <1>5, <1>6, <2>1, <2>2 DEF SignalInv
<1>11. \A u, v, x \in Threads : Signals(v, u)' /\ Signals(x, u)' => v = x
  BY Zenon, <1>7 DEF SignalInv
<1>12. \A u \in Threads : value'[u] # 0 => value'[u] = 1 /\ Waits(u)' /\ ~Listed(u)'
  BY ZenonT(60), <1>3, <1>5, <1>6 DEF SignalInv
<1>13. \A u \in Threads : Waits(u)' =>
         Listed(u)' \/ value'[u] = 1 \/ \E v \in Threads : Signals(v, u)'
  <2> SUFFICES ASSUME NEW u \in Threads, Waits(u)', ~Listed(u)', value'[u] # 1
               PROVE  \E v \in Threads : Signals(v, u)'
    OBVIOUS
  <2>1. u # h /\ value[u] # 1 /\ Waits(u) /\ ~Listed(u)
    BY Zenon, <1>5, <1>6
  <2>2. PICK v \in Threads : Signals(v, u)
    BY Zenon, <2>1 DEF SignalInv
  <2>3. v # t
    BY <1>8, <2>1, <2>2
  <2> QED BY <1>7, <2>2, <2>3
<1>14. \A d \in Conds : IsInjective(cond_waiters'[d])
  BY Zenon, <1>1 DEF SignalInv
<1>15. \A u \in Threads : pc'[u] = "down" /\ arg'[u] \in Threads => arg'[u] = u
  BY ZenonT(60), <1>2 DEF SignalInv
<1> QED BY ZenonT(60), <1>9, <1>10, <1>11, <1>12, <1>13, <1>14, <1>15 DEF SignalInv

\* The waiter takes the signal and leaves.
LEMMA TakeSignals ==
  ASSUME TypeOK, TypeOK', SignalInv, NEW t \in Threads, sema_down_take(t), arg[t] \in Threads
  PROVE  SignalInv'
<1>0. /\ pc \in [Threads -> PC] /\ value \in [SemaIds -> Nat] /\ Threads \subseteq SemaIds
      /\ Threads \cap Locks = {} /\ Threads \cap Semas = {}
  BY ZenonT(60), SynchAssumption DEF SynchAssumption, TypeOK, SemaIds
<1>1. pc[t] = "down" /\ arg[t] = t /\ value[t] # 0
  <2>1. pc[t] = "down" /\ value[arg[t]] > 0
    BY Zenon DEF sema_down_take, At
  <2>2. arg[t] = t
    BY ZenonT(60), <2>1 DEF SignalInv
  <2> QED BY <2>1, <2>2
<1>2. /\ value' = [value EXCEPT ![t] = value[t] - 1] /\ pc' = [pc EXCEPT ![t] = "reacq"]
      /\ UNCHANGED <<arg, cont, cond, cond_waiters>>
  BY Zenon, <1>0, <1>1 DEF sema_down_take, GoTo, condVars
<1>3. value[t] = 1 /\ ~Listed(t) /\ \A u \in Threads : ~Signals(u, t)
  BY ZenonT(60), <1>1 DEF SignalInv
<1>4. /\ value'[t] = 0 /\ \A u \in Threads \ {t} : value'[u] = value[u] /\ pc'[u] = pc[u]
      /\ pc'[t] = "reacq"
  BY <1>0, <1>2, <1>3
<1>5. \A u \in Threads : (Waits(u)' <=> Waits(u) /\ u # t) /\ (Listed(u)' <=> Listed(u))
  BY ZenonT(60), <1>2, <1>4 DEF Waits, Listed
<1>6. \A u, v \in Threads : Signals(u, v)' <=> Signals(u, v)
  BY <1>1, <1>2, <1>4 DEF Signals
<1>7. \A u \in Threads, d \in Conds :
        Contains(cond_waiters'[d], u) => Waits(u)' /\ cond'[u] = d
  <2> SUFFICES ASSUME NEW u \in Threads, NEW d \in Conds, Contains(cond_waiters[d], u)
               PROVE  Waits(u)' /\ cond'[u] = d
    BY <1>2
  <2>1. Waits(u) /\ cond[u] = d
    BY Zenon DEF SignalInv
  <2>2. Listed(u)
    BY Zenon DEF Listed
  <2> QED BY ZenonT(60), <1>2, <1>3, <1>5, <2>1, <2>2
<1>8. \A u, v \in Threads : Signals(v, u)' => Waits(u)' /\ ~Listed(u)' /\ value'[u] = 0
  <2> SUFFICES ASSUME NEW u \in Threads, NEW v \in Threads, Signals(v, u)'
               PROVE  Waits(u)' /\ ~Listed(u)' /\ value'[u] = 0
    OBVIOUS
  <2>1. Signals(v, u) /\ u # t
    BY Zenon, <1>3, <1>6
  <2>2. Waits(u) /\ ~Listed(u) /\ value[u] = 0
    BY Zenon, <2>1 DEF SignalInv
  <2> QED BY ZenonT(60), <1>4, <1>5, <2>1, <2>2
<1>9. \A u, v, x \in Threads : Signals(v, u)' /\ Signals(x, u)' => v = x
  BY Zenon, <1>6 DEF SignalInv
<1>10. \A u \in Threads : value'[u] # 0 => value'[u] = 1 /\ Waits(u)' /\ ~Listed(u)'
  BY ZenonT(60), <1>4, <1>5 DEF SignalInv
<1>11. \A u \in Threads : Waits(u)' =>
         Listed(u)' \/ value'[u] = 1 \/ \E v \in Threads : Signals(v, u)'
  BY ZenonT(60), <1>4, <1>5, <1>6 DEF SignalInv
<1>12. \A d \in Conds : IsInjective(cond_waiters'[d])
  BY Zenon, <1>2 DEF SignalInv
<1>13. \A u \in Threads : pc'[u] = "down" /\ arg'[u] \in Threads => arg'[u] = u
  BY Zenon, <1>2, <1>4 DEF SignalInv
<1> QED BY Zenon, <1>7, <1>8, <1>9, <1>10, <1>11, <1>12, <1>13 DEF SignalInv

\* Every step moves a signal from one place to the next, or leaves it where it is.
LEMMA NextSignals == TypeOK /\ SignalInv /\ [Next]_vars => SignalInv'
<1> SUFFICES ASSUME TypeOK, SignalInv, [Next]_vars PROVE SignalInv'
  OBVIOUS
<1>0. /\ TypeOK' /\ Main \in Threads
      /\ pc \in [Threads -> PC] /\ arg \in [Threads -> SemaIds \cup {NoLock}]
      /\ cont \in [Threads -> Conts] /\ cond \in [Threads -> Conds \cup {NoCond}]
      /\ value \in [SemaIds -> Nat] /\ Threads \subseteq SemaIds
      /\ Locks \cap Threads = {} /\ Semas \cap Threads = {} /\ Semas \cap Locks = {}
      /\ NoLock \notin Threads
      /\ \A t \in Threads : Located(pc[t], arg[t], cont[t], cond[t])
  BY ZenonT(60), NextType, ThreadAssumption, SynchAssumption
     DEF ThreadAssumption, SynchAssumption, TypeOK, SemaIds, ArgOK
<1> USE <1>0
<1>1. CASE /\ UNCHANGED <<pc, arg, cont, cond, cond_waiters>>
           /\ \A t \in Threads : value'[t] = value[t]
  <2>1. Waits(Main)' <=> Waits(Main)
    BY Zenon, <1>1 DEF Waits
  <2>2. \A t \in Threads : Signals(Main, t)' <=> Signals(Main, t)
    BY ZenonT(60), <1>1 DEF Signals
  <2>3. pc'[Main] = "down" /\ arg'[Main] \in Threads => arg'[Main] = Main
    BY <1>1 DEF SignalInv
  <2> QED BY ZenonT(60), <1>1, <2>1, <2>2, <2>3, SignalFrame
<1> DEFINE Alone(t) ==
             /\ UNCHANGED cond_waiters /\ \A u \in Threads : value'[u] = value[u]
             /\ \A u \in Threads \ {t} : /\ pc'[u] = pc[u] /\ arg'[u] = arg[u]
                                         /\ cont'[u] = cont[u] /\ cond'[u] = cond[u]
             /\ pc'[t] \in {"up", "down"} => arg'[t] \notin Threads
             /\ cont[t] # "wait" /\ cont'[t] # "wait"
             /\ pc[t] = "up" => arg[t] \notin Threads
<1>2. \A t \in Threads : Alone(t) => SignalInv'
  BY Zenon, SignalApart
<1>3. ASSUME NEW t \in Threads, ThreadOps(t) PROVE SignalInv'
  <2>1. CASE create_yield(t)
    <3>1. Alone(t)
      BY Zenon, <2>1 DEF create_yield, At, Return, semaVars, condVars, Located
    <3> QED BY ZenonT(60), <1>2, <3>1
  <2>2. ASSUME NEW u \in Threads, NEW p \in Priorities, thread_create(t, u, p)
        PROVE  SignalInv'
    <3>1. Alone(t)
      BY ZenonT(60), <2>2 DEF thread_create, At, GoTo, semaVars, condVars, Located
    <3> QED BY ZenonT(60), <1>2, <3>1
  <2>3. CASE UNCHANGED <<semaVars, condVars, ctlVars>>
    BY ZenonT(60), <1>1, <2>3 DEF semaVars, condVars, ctlVars
  <2> QED BY ZenonT(60), <1>3, <2>1, <2>2, <2>3 DEF ThreadOps, thread_set_priority, sleep
<1>4. ASSUME NEW t \in Threads, SemaOps(t) PROVE SignalInv'
  <2>1. CASE sema_down_block(t)
    BY ZenonT(60), <1>1, <2>1 DEF sema_down_block, condVars, ctlVars
  <2>2. CASE sema_down_take(t) /\ arg[t] \notin Threads
    <3>1. /\ pc[t] = "down" /\ arg[t] \in SemaIds /\ cont[t] # "wait"
      BY Zenon, <2>2 DEF sema_down_take, At, Located
    <3>2. Alone(t)
      BY ZenonT(60), <2>2, <3>1 DEF sema_down_take, GoTo, Return, condVars
    <3> QED BY <1>2, <3>2
  <2>3. CASE sema_down_take(t) /\ arg[t] \in Threads
    BY Zenon, <2>3, TakeSignals
  <2>4. CASE sema_up(t) /\ arg[t] \in Threads
    BY <2>4, RaiseSignals
  <2>5. CASE sema_up(t) /\ arg[t] \notin Threads
    <3>1. /\ At(t, "up") /\ pc[t] = "up" /\ arg[t] \in SemaIds /\ after_up(t)
          /\ UNCHANGED <<cond_waiters, cont, cond>>
          /\ value' = [value EXCEPT ![arg[t]] = @ + 1]
      BY Zenon, <2>5 DEF sema_up, At, Located, condVars
    <3>2. /\ \A u \in Threads \ {t} : pc'[u] = pc[u] /\ arg'[u] = arg[u]
          /\ pc'[t] \in {"down", "unlink", "bcast", "run"}
          /\ pc'[t] = "down" <=> arg[t] \in Locks /\ cont[t] = "wait"
          /\ pc'[t] = "down" => arg'[t] = t
      BY ZenonT(60), <3>1, AfterUp
    <3>3. \A u \in Threads : value'[u] = value[u]
      BY ZenonT(60), <2>5, <3>1
    <3>4. \A u \in Threads : ~Signals(t, u) /\ ~Signals(t, u)'
      BY ZenonT(60), <2>5, <3>2 DEF Signals
    <3>5. Waits(t)' <=> Waits(t)
      BY Zenon, <3>1, <3>2 DEF Waits, Located
    <3> QED BY ZenonT(60), <3>1, <3>2, <3>3, <3>4, <3>5, SignalFrame
  <2>6. ASSUME NEW s \in Semas, call_sema_down(t, s) \/ call_sema_up(t, s)
        PROVE  SignalInv'
    <3>1. Alone(t)
      BY <2>6 DEF call_sema_down, call_sema_up, At, GoTo, semaVars, condVars, Located
    <3> QED BY ZenonT(60), <1>2, <3>1
  <2> QED BY ZenonT(60), <1>4, <2>1, <2>2, <2>3, <2>4, <2>5, <2>6 DEF SemaOps
<1>5. ASSUME NEW t \in Threads, LockOps(t) PROVE SignalInv'
  <2>1. ASSUME NEW l \in Locks, lock_acquire(t, l) PROVE SignalInv'
    <3>1. Alone(t)
      BY ZenonT(60), <2>1 DEF lock_acquire, acquire, At, GoTo, semaVars, Located
    <3> QED BY ZenonT(60), <1>2, <3>1
  <2>2. ASSUME NEW l \in Locks, lock_release(t, l) PROVE SignalInv'
    <3>1. Alone(t)
      BY ZenonT(60), <2>2 DEF lock_release, release, At, GoTo, semaVars, condVars, Located
    <3> QED BY <1>2, <3>1
  <2>3. CASE lock_own(t)
    <3>1. Alone(t)
      BY ZenonT(60), <2>3 DEF lock_own, At, GoTo, semaVars, condVars, Located
    <3> QED BY <1>2, <3>1
  <2>4. CASE lock_enlist(t)
    <3>1. Alone(t)
      BY Zenon, <2>4 DEF lock_enlist, At, Return, semaVars, condVars, Located
    <3> QED BY <1>2, <3>1
  <2>5. CASE lock_reset(t) \/ lock_clear(t)
    <3>1. /\ pc[t] \in {"reset", "clear"} /\ pc'[t] \in {"clear", "up"} /\ arg[t] \in Locks
          /\ UNCHANGED <<cond_waiters, value, arg, cont, cond>>
          /\ \A u \in Threads \ {t} : pc'[u] = pc[u]
      BY Zenon, <2>5 DEF lock_reset, lock_clear, At, GoTo, semaVars, condVars, Located
    <3>2. \A u \in Threads : ~Signals(t, u) /\ ~Signals(t, u)'
      BY ZenonT(60), <3>1 DEF Signals
    <3>3. Waits(t)' <=> Waits(t)
      BY Zenon, <3>1 DEF Waits
    <3> QED BY ZenonT(60), <3>1, <3>2, <3>3, SignalFrame
  <2> QED BY ZenonT(60), <1>5, <2>1, <2>2, <2>3, <2>4, <2>5 DEF LockOps
<1>6. ASSUME NEW t \in Threads, CondOps(t) PROVE SignalInv'
  <2>1. ASSUME NEW c \in Conds, cond_wait(t, c) PROVE SignalInv'
    BY Zenon, <2>1, CondWaitSignals
  <2>2. ASSUME NEW c \in Conds, cond_signal(t, c) PROVE SignalInv'
    BY Zenon, <2>2, SignalStep DEF cond_signal, At
  <2>3. CASE broadcast_next(t)
    <3>1. cond[t] \in Conds
      BY <2>3 DEF broadcast_next, At, Located
    <3> QED BY ZenonT(60), <2>3, <3>1, SignalStep DEF broadcast_next, At
  <2>4. ASSUME NEW c \in Conds, cond_broadcast(t, c) PROVE SignalInv'
    <3>1. Alone(t)
      BY ZenonT(60), <2>4 DEF cond_broadcast, At, GoTo, semaVars, Located
    <3> QED BY ZenonT(60), <1>2, <3>1
  <2>5. CASE broadcast_done(t)
    <3>1. Alone(t)
      BY <2>5 DEF broadcast_done, At, Return, semaVars, Located
    <3> QED BY <1>2, <3>1
  <2>6. CASE cond_reacquire(t)
    <3>1. /\ pc[t] = "reacq" /\ CondLock[cond[t]] \in Locks
      BY <2>6, SynchAssumption DEF SynchAssumption, cond_reacquire, At, Located
    <3>2. /\ UNCHANGED <<cond_waiters, value>>
          /\ \A u \in Threads \ {t} : /\ pc'[u] = pc[u] /\ arg'[u] = arg[u]
                                      /\ cont'[u] = cont[u] /\ cond'[u] = cond[u]
          /\ pc'[t] = "down" /\ arg'[t] \in Locks /\ cont'[t] = "run"
      BY ZenonT(60), <2>6, <3>1 DEF cond_reacquire, acquire, GoTo, semaVars
    <3>3. /\ ~Waits(t) /\ ~Waits(t)' /\ \A u \in Threads : ~Signals(t, u) /\ ~Signals(t, u)'
      BY Zenon, <3>1, <3>2 DEF Waits, Signals
    <3> QED BY ZenonT(60), <3>2, <3>3, SignalFrame
  <2> QED BY ZenonT(60), <1>6, <2>1, <2>2, <2>3, <2>4, <2>5, <2>6 DEF CondOps
<1>7. ASSUME NEW t \in Threads, ExitOps(t) PROVE SignalInv'
  <2>1. CASE thread_exit(t)
    <3>1. Alone(t)
      BY ZenonT(60), <2>1 DEF thread_exit, At, GoTo, semaVars, condVars, Located
    <3> QED BY <1>2, <3>1
  <2>2. CASE exit_release(t)
    <3>1. Alone(t)
      BY ZenonT(60), <2>2 DEF exit_release, release, At, GoTo, semaVars, condVars, Located
    <3> QED BY <1>2, <3>1
  <2>3. CASE exit_unlink(t)
    <3>1. Alone(t)
      BY Zenon, <2>3 DEF exit_unlink, At, GoTo, semaVars, condVars, Located
    <3> QED BY <1>2, <3>1
  <2>4. CASE exit_die(t)
    BY ZenonT(60), <1>1, <2>4 DEF exit_die, semaVars, condVars, ctlVars
  <2> QED BY ZenonT(60), <1>7, <2>1, <2>2, <2>3, <2>4 DEF ExitOps
<1>8. CASE Preempt \/ Tick \/ idle \/ UNCHANGED vars
  BY ZenonT(60), <1>1, <1>8 DEF Preempt, Tick, idle, vars, semaVars, condVars, ctlVars
<1>9. ASSUME NEW s \in Semas, sema_up_intr(s) PROVE SignalInv'
  <2>1. value' = [value EXCEPT ![s] = @ + 1] /\ UNCHANGED <<pc, arg, cont, cond, cond_waiters>>
    BY <1>9 DEF sema_up_intr, condVars, ctlVars
  <2> QED BY ZenonT(60), <1>1, <2>1
<1> QED BY ZenonT(60), <1>3, <1>4, <1>5, <1>6, <1>7, <1>8, <1>9 DEF Next, Step

\* No signal of cond_signal or cond_broadcast is lost between the lock_release
\* and the sema_down of cond_wait, for any number of condition variables.
THEOREM SignalsKept == Spec => []NoLostSignal
<1>1. Init => SignalInv
  <2> SUFFICES ASSUME Init PROVE SignalInv
    OBVIOUS
  <2>1. /\ cond_waiters = [c \in Conds |-> <<>>] /\ pc = [t \in Threads |-> "run"]
        /\ \A t \in Threads : value[t] = 0
    BY SynchAssumption DEF Init, SynchAssumption, SemaIds
  <2>2. /\ IsInjective(<<>>) /\ \A e : ~Contains(<<>>, e)
    BY DEF IsInjective, Contains
  <2>3. \A t, u \in Threads : ~Waits(t) /\ ~Signals(u, t)
    BY <2>1 DEF Waits, Signals
  <2> QED BY <2>1, <2>2, <2>3 DEF SignalInv
<1>2. TypeOK /\ SignalInv => NoLostSignal
  <2> SUFFICES ASSUME SignalInv, NEW t \in Threads,
                      cond[t] # NoCond, pc[t] \in {"reset", "clear", "up", "down"},
                      cont[t] = "wait"
               PROVE  \/ Contains(cond_waiters[cond[t]], t)
                      \/ value[t] = 1
                      \/ \E u \in Threads : pc[u] = "up" /\ arg[u] = t
    BY Zenon DEF NoLostSignal
  <2>1. Waits(t)
    BY DEF Waits
  <2>2. Listed(t) \/ value[t] = 1 \/ \E u \in Threads : Signals(u, t)
    BY Zenon, <2>1 DEF SignalInv
  <2> QED BY ZenonT(60), <2>2 DEF SignalInv, Listed, Signals
<1> QED BY <1>1, <1>2, NextSignals, TypeCorrect, PTL DEF Spec
=============================================================================
