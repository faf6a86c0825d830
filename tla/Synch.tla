------------------------------- MODULE Synch -------------------------------
(***************************************************************************)
(* synch.c on top of the scheduler: semaphores, locks with priority        *)
(* donation, Mesa condition variables, and the thread operations of        *)
(* thread.c that use them.                                                 *)
(*                                                                         *)
(* One step is what runs with interrupts off, or one access to shared      *)
(* state with interrupts on.  Between two steps of a thread the timer may  *)
(* preempt it (Preempt), so pc[t] names the places where that matters:     *)
(*   "run"     in the caller's code, between two kernel operations         *)
(*   "yield"   thread_create: thread queued, if_yield still to come        *)
(*   "down"    in sema_down(arg), also while blocked in its loop           *)
(*   "own"     lock_acquire: semaphore taken, holder not set yet           *)
(*   "enlist"  lock_acquire: holder set, lock not yet on lock_list         *)
(*   "reset"   lock_release: lock off lock_list, priority not recomputed   *)
(*   "clear"   lock_release: priority recomputed, holder still set         *)
(*   "up"      about to sema_up(arg)                                       *)
(*   "reacq"   cond_wait: signalled, about to lock_acquire again           *)
(*   "bcast"   cond_broadcast: at the head of its loop                     *)
(*   "exit"    thread_exit: at the head of the loop over lock_list         *)
(*   "unlink"  thread_exit: lock released, second list_remove to come      *)
(***************************************************************************)
EXTENDS Thread

CONSTANTS
  Locks, Semas, Conds,
  CondLock,   \* the one lock each condition variable is used with
  NoThread, NoLock, NoCond,
  MaxValue,   \* bound on the value of a plain semaphore
  Ops         \* the operations the callers in this instance use

\* The semaphore inside a lock is named by the lock, the semaphore that
\* cond_wait keeps on the stack of thread t is named t.
SemaIds == Locks \cup Semas \cup Threads

ASSUME SynchAssumption ==
  /\ IsFiniteSet(Threads)
  /\ Locks \cap Semas = {} /\ Locks \cap Threads = {} /\ Semas \cap Threads = {}
  /\ CondLock \in [Conds -> Locks]
  /\ NoThread \notin All /\ NoLock \notin SemaIds /\ NoCond \notin Conds
  /\ MaxValue \in Nat

VARIABLES
  value, waiters,          \* struct semaphore
  holder, lock_priority,   \* struct lock
  lock_list, wait_lock,    \* struct thread: locks held; the lock waited for
  cond_waiters,            \* struct condition: waiters
  cond_priority,           \* struct semaphore_elem: priority
  pc, arg,                 \* where each thread is, and the object it works on
  cont,                    \* where sema_up of a lock returns to
  cond,                    \* the condition variable of cond_wait/broadcast
  cursor                   \* thread_exit: the next lock to release

semaVars == <<value, waiters>>
lockVars == <<holder, lock_priority, lock_list, wait_lock>>
condVars == <<cond_waiters, cond_priority, cond>>
ctlVars  == <<pc, arg, cont, cursor>>
vars == <<schedVars, prioVars, semaVars, lockVars, condVars, ctlVars>>

PC == {"run", "yield", "down", "own", "enlist", "reset", "clear", "up",
       "reacq", "bcast", "exit", "unlink"}
Conts == {"run", "wait", "unlink"}

\* At p a thread works on an object a of the right kind; cond_wait runs from
\* its lock_release to its lock_acquire with k = "wait" and its condition c.
Located(p, a, k, c) ==
  /\ p \in {"down", "up"} => a \in SemaIds
  /\ p \in {"own", "enlist", "reset", "clear", "unlink"} => a \in Locks
  /\ p = "down" => (a \in Threads <=> k = "wait")
  /\ p = "reacq" => k = "wait"
  /\ p = "bcast" => c \in Conds
  /\ k = "wait" => /\ p \in {"reset", "clear", "up", "down", "reacq"}
                   /\ p = "up" => a \in Locks
                   /\ c \in Conds

ArgOK == \A t \in Threads : Located(pc[t], arg[t], cont[t], cond[t])

\* Every variable has its type, and an operation in progress has its object.
TypeOK ==
  /\ ThreadTypeOK
  /\ value \in [SemaIds -> Nat]
  /\ waiters \in [SemaIds -> Seq(Threads)]
  /\ holder \in [Locks -> Threads \cup {NoThread}]
  /\ lock_priority \in [Locks -> Priorities]
  /\ lock_list \in [Threads -> Seq(Locks)]
  /\ wait_lock \in [Threads -> Locks \cup {NoLock}]
  /\ cond_waiters \in [Conds -> Seq(Threads)]
  /\ cond_priority \in [Threads -> Priorities]
  /\ cond \in [Threads -> Conds \cup {NoCond}]
  /\ pc \in [Threads -> PC]
  /\ arg \in [Threads -> SemaIds \cup {NoLock}]
  /\ cont \in [Threads -> Conts]
  /\ cursor \in [Threads -> Locks \cup {NoLock}]
  /\ ArgOK

Init ==
  /\ ThreadInit
  /\ value = [s \in SemaIds |-> IF s \in Locks THEN 1 ELSE 0]
  /\ waiters = [s \in SemaIds |-> <<>>]
  /\ holder = [l \in Locks |-> NoThread]
  /\ lock_priority = [l \in Locks |-> PRI_MIN]
  /\ lock_list = [t \in Threads |-> <<>>]
  /\ wait_lock = [t \in Threads |-> NoLock]
  /\ cond_waiters = [c \in Conds |-> <<>>]
  /\ cond_priority = [t \in Threads |-> PRI_MIN]
  /\ cond = [t \in Threads |-> NoCond]
  /\ pc = [t \in Threads |-> "run"]
  /\ arg = [t \in Threads |-> NoLock]
  /\ cont = [t \in Threads |-> "run"]
  /\ cursor = [t \in Threads |-> NoLock]

-----------------------------------------------------------------------------
\* t is the thread on the CPU and has reached p.
At(t, p) == running = t /\ pc[t] = p
GoTo(t, p) == pc' = [pc EXCEPT ![t] = p]

\* The kernel operation of t is over.
Return(t) == pc' = [pc EXCEPT ![t] = "run"] /\ arg' = [arg EXCEPT ![t] = NoLock]

(************************** threads (thread.c) *****************************)

\* thread_create: initialise u, queue it, then (pc "yield") if_yield.
thread_create(t, u, p) ==
  /\ At(t, "run") /\ status[u] = "NONE"
  /\ priority' = [priority EXCEPT ![u] = p]
  /\ original_priority' = [original_priority EXCEPT ![u] = p]
  /\ ready_list' = list_insert_ordered(ready_list, u, priority')
  /\ status' = [status EXCEPT ![u] = "READY"]
  /\ GoTo(t, "yield")
  /\ UNCHANGED <<running, sleeping_list, wake_in, semaVars, lockVars, condVars,
                 arg, cont, cursor>>

create_yield(t) ==
  /\ At(t, "yield")
  /\ if_yield(t, ready_list, status, priority)
  /\ Return(t)
  /\ UNCHANGED <<prioVars, semaVars, lockVars, condVars, cont, cursor>>

\* Mutant: a thread with locks keeps its priority, also below its new base.
thread_set_priority_kept(t, p) ==
  /\ At(t, "run")
  /\ priority' = [priority EXCEPT ![t] = IF lock_list[t] # <<>> THEN @ ELSE p]
  /\ original_priority' = [original_priority EXCEPT ![t] = p]
  /\ if_yield(t, ready_list, status, priority')
  /\ UNCHANGED <<semaVars, lockVars, condVars, ctlVars>>

\* thread_set_priority: a donated priority survives a lower base priority
\* while the thread holds locks.
thread_set_priority(t, p) ==
  /\ At(t, "run")
  /\ priority' = [priority EXCEPT ![t] =
       IF /\ priority[t] > p
          /\ lock_list[t] # <<>>
          /\ priority[t] # original_priority[t]
       THEN @ ELSE p]
  /\ original_priority' = [original_priority EXCEPT ![t] = p]
  /\ if_yield(t, ready_list, status, priority')
  /\ UNCHANGED <<semaVars, lockVars, condVars, ctlVars>>

sleep(t, n) ==
  /\ At(t, "run")
  /\ thread_sleep(t, n)
  /\ UNCHANGED <<prioVars, semaVars, lockVars, condVars, ctlVars>>

\* The end of a time slice, anywhere outside the interrupts-off code.
Preempt ==
  /\ thread_yield(running, ready_list, status, priority)
  /\ UNCHANGED <<prioVars, semaVars, lockVars, condVars, ctlVars>>

Tick ==
  /\ timer_tick
  /\ UNCHANGED <<prioVars, semaVars, lockVars, condVars, ctlVars>>

\* One turn of the loop in idle().
idle ==
  /\ running = Idle
  /\ thread_block(Idle)
  /\ UNCHANGED <<prioVars, semaVars, lockVars, condVars, ctlVars>>

(************************ semaphores (synch.c) *****************************)

\* A caller begins sema_down or sema_up on a plain semaphore.
call_sema_down(t, s) ==
  /\ At(t, "run")
  /\ GoTo(t, "down")
  /\ arg' = [arg EXCEPT ![t] = s]
  /\ UNCHANGED <<schedVars, prioVars, semaVars, lockVars, condVars, cont, cursor>>

call_sema_up(t, s) ==
  /\ At(t, "run") /\ value[s] < MaxValue
  /\ GoTo(t, "up")
  /\ arg' = [arg EXCEPT ![t] = s]
  /\ UNCHANGED <<schedVars, prioVars, semaVars, lockVars, condVars, cont, cursor>>

\* sema_down finds the value zero: queue on the semaphore and block.  The
\* loop tests the value again when the thread next runs.
sema_down_block(t) ==
  LET s == arg[t]
  IN  /\ At(t, "down") /\ value[s] = 0
      /\ waiters' = [waiters EXCEPT ![s] = list_insert_ordered(@, t, priority)]
      /\ thread_block(t)
      /\ UNCHANGED <<value, prioVars, lockVars, condVars, ctlVars>>

\* Mutant: the value is not tested again after the wake-up.
sema_down_take_untested(t) ==
  LET s == arg[t]
  IN  /\ At(t, "down")
      /\ value' = [value EXCEPT ![s] = @ - 1]
      /\ IF s \in Semas THEN Return(t)
         ELSE GoTo(t, IF s \in Locks THEN "own" ELSE "reacq") /\ UNCHANGED arg
      /\ UNCHANGED <<waiters, schedVars, prioVars, lockVars, condVars, cont, cursor>>

sema_down_take(t) ==
  LET s == arg[t]
  IN  /\ At(t, "down") /\ value[s] > 0
      /\ value' = [value EXCEPT ![s] = @ - 1]
      /\ IF s \in Semas THEN Return(t)
         ELSE GoTo(t, IF s \in Locks THEN "own" ELSE "reacq") /\ UNCHANGED arg
      /\ UNCHANGED <<waiters, schedVars, prioVars, lockVars, condVars, cont, cursor>>

\* Where sema_up returns to: lock_release returns to its caller, to the rest
\* of cond_wait or to the loop of thread_exit; cond_signal to its caller or to
\* the loop of cond_broadcast.
after_up(t) ==
  CASE arg[t] \in Locks /\ cont[t] = "wait" ->
         GoTo(t, "down") /\ arg' = [arg EXCEPT ![t] = t]
    [] arg[t] \in Locks /\ cont[t] = "unlink" ->
         GoTo(t, "unlink") /\ UNCHANGED arg
    [] arg[t] \in Threads /\ cond[t] # NoCond ->
         GoTo(t, "bcast") /\ UNCHANGED arg
    [] OTHER -> Return(t)

\* Mutant: the waiters in the order they had when they queued.
waiters_unsorted(s) == waiters[s]

\* sema_up sorts the waiters again before it takes the front one.
waiters_by_priority(s) == list_sort(waiters[s], priority)

\* sema_up: wake the front waiter after sorting, increment, if_yield.
sema_up(t) ==
  LET s == arg[t]
      w == waiters_by_priority(s)
  IN  /\ At(t, "up")
      /\ value' = [value EXCEPT ![s] = @ + 1]
      /\ waiters' = [waiters EXCEPT ![s] = IF w = <<>> THEN w ELSE Tail(w)]
      /\ IF w = <<>>
           THEN if_yield(t, ready_list, status, priority)
           ELSE if_yield(t, list_insert_ordered(ready_list, Head(w), priority),
                         [status EXCEPT ![Head(w)] = "READY"], priority)
      /\ after_up(t)
      /\ UNCHANGED <<prioVars, lockVars, condVars, cont, cursor>>

\* Mutant: the value is incremented, no waiter is woken.
sema_up_intr_no_wake(s) ==
  /\ value[s] < MaxValue
  /\ value' = [value EXCEPT ![s] = @ + 1]
  /\ UNCHANGED <<waiters, schedVars, prioVars, lockVars, condVars, ctlVars>>

\* sema_up from an interrupt handler, on behalf of a device.
sema_up_intr(s) ==
  LET w == waiters_by_priority(s)
  IN  /\ value[s] < MaxValue
      /\ value' = [value EXCEPT ![s] = @ + 1]
      /\ waiters' = [waiters EXCEPT ![s] = IF w = <<>> THEN w ELSE Tail(w)]
      /\ IF w = <<>>
           THEN if_yield_intr(running, ready_list, status, priority)
           ELSE if_yield_intr(running,
                              list_insert_ordered(ready_list, Head(w), priority),
                              [status EXCEPT ![Head(w)] = "READY"], priority)
      /\ UNCHANGED <<prioVars, lockVars, condVars, ctlVars>>

(*************************** locks (synch.c) *******************************)

\* The locks donate_lock visits when t waits for l: l, then the lock its
\* holder waits for, and on while the holder has a lower priority than t.
DonationChain(t, l) ==
  LET After(m) ==
        IF /\ m # NoLock
           /\ holder[m] # NoThread
           /\ priority[holder[m]] < priority[t]
        THEN wait_lock[holder[m]] ELSE NoLock
      chain[i \in 0..Cardinality(Threads)] == IF i = 0 THEN l ELSE After(chain[i-1])
  IN  {m \in Locks : holder[m] # NoThread /\ \E i \in DOMAIN chain : chain[i] = m}

\* donate_lock: raise the visited locks and their holders to t's priority.
donate_lock(t, l) ==
  LET visited == DonationChain(t, l)
      holders == {holder[m] : m \in visited}
  IN  /\ lock_priority' = [m \in Locks |->
            IF m \in visited /\ lock_priority[m] < priority[t]
            THEN priority[t] ELSE lock_priority[m]]
      /\ priority' = [u \in All |->
            IF u \in holders /\ priority[u] < priority[t]
            THEN priority[t] ELSE priority[u]]

\* lock_acquire up to sema_down: record the wait and donate, interrupts off.
acquire(t, l) ==
  /\ wait_lock' = [wait_lock EXCEPT ![t] = l]
  /\ donate_lock(t, l)
  /\ GoTo(t, "down")
  /\ arg' = [arg EXCEPT ![t] = l]
  /\ UNCHANGED <<schedVars, original_priority, semaVars, holder, lock_list,
                 cond_waiters, cond_priority, cursor>>

lock_acquire(t, l) ==
  /\ At(t, "run") /\ holder[l] # t
  /\ acquire(t, l)
  /\ UNCHANGED <<cond, cont>>

\* lock_acquire after sema_down, with interrupts on: set the holder, ...
lock_own(t) ==
  /\ At(t, "own")
  /\ holder' = [holder EXCEPT ![arg[t]] = t]
  /\ GoTo(t, "enlist")
  /\ UNCHANGED <<schedVars, prioVars, semaVars, lock_priority, lock_list, wait_lock,
                 condVars, arg, cont, cursor>>

\* ... then stop waiting, reset the lock's priority and put it on lock_list.
lock_enlist(t) ==
  LET l == arg[t]
  IN  /\ At(t, "enlist")
      /\ wait_lock' = [wait_lock EXCEPT ![t] = NoLock]
      /\ lock_priority' = [lock_priority EXCEPT ![l] = original_priority[t]]
      /\ lock_list' = [lock_list EXCEPT ![t] = list_insert_ordered(@, l, lock_priority')]
      /\ Return(t)
      /\ UNCHANGED <<schedVars, prioVars, semaVars, holder, condVars, cont, cursor>>

\* lock_release, first step: take the lock off lock_list and sort the rest.
release(t, l, k) ==
  /\ lock_list' = [lock_list EXCEPT ![t] = list_sort(list_remove(@, l), lock_priority)]
  /\ GoTo(t, "reset")
  /\ arg' = [arg EXCEPT ![t] = l]
  /\ cont' = [cont EXCEPT ![t] = k]
  /\ UNCHANGED <<schedVars, prioVars, holder, lock_priority, wait_lock>>

lock_release(t, l) ==
  /\ At(t, "run") /\ holder[l] = t
  /\ release(t, l, "run")
  /\ UNCHANGED <<semaVars, condVars, cursor>>

\* Second step: back to the base priority, or to that of the front lock.
lock_reset(t) ==
  LET ll == lock_list[t]
  IN  /\ At(t, "reset")
      /\ priority' = [priority EXCEPT ![t] =
           IF ll = <<>> \/ original_priority[t] >= lock_priority[Head(ll)]
           THEN original_priority[t] ELSE lock_priority[Head(ll)]]
      /\ GoTo(t, "clear")
      /\ UNCHANGED <<original_priority, schedVars, semaVars, lockVars, condVars,
                     arg, cont, cursor>>

\* Mutant: the holder is not cleared.
lock_clear_nothing(t) ==
  /\ At(t, "clear")
  /\ GoTo(t, "up")
  /\ UNCHANGED <<schedVars, prioVars, semaVars, lockVars, condVars, arg, cont, cursor>>

\* Third step: no holder; sema_up follows.
lock_clear(t) ==
  /\ At(t, "clear")
  /\ holder' = [holder EXCEPT ![arg[t]] = NoThread]
  /\ GoTo(t, "up")
  /\ UNCHANGED <<schedVars, prioVars, semaVars, lock_priority, lock_list, wait_lock,
                 condVars, arg, cont, cursor>>

(******************** condition variables (synch.c) ************************)

\* cond_wait: queue a fresh waiter with the caller's current priority, then
\* lock_release; its sema_up continues with sema_down of the waiter.
cond_wait(t, c) ==
  /\ At(t, "run") /\ holder[CondLock[c]] = t
  /\ value' = [value EXCEPT ![t] = 0]
  /\ waiters' = [waiters EXCEPT ![t] = <<>>]
  /\ cond_priority' = [cond_priority EXCEPT ![t] = priority[t]]
  /\ cond_waiters' = [cond_waiters EXCEPT ![c] =
                        list_insert_ordered(@, t, cond_priority')]
  /\ cond' = [cond EXCEPT ![t] = c]
  /\ release(t, CondLock[c], "wait")
  /\ UNCHANGED cursor

\* cond_wait, after the signal: lock_acquire.
cond_reacquire(t) ==
  /\ At(t, "reacq")
  /\ acquire(t, CondLock[cond[t]])
  /\ cond' = [cond EXCEPT ![t] = NoCond]
  /\ cont' = [cont EXCEPT ![t] = "run"]

\* Mutant: the other waiters are forgotten.
signal_drops_rest(t, c) ==
  LET w == list_sort(cond_waiters[c], cond_priority)
  IN  /\ w # <<>>
      /\ cond_waiters' = [cond_waiters EXCEPT ![c] = <<>>]
      /\ GoTo(t, "up")
      /\ arg' = [arg EXCEPT ![t] = Head(w)]
      /\ UNCHANGED <<schedVars, prioVars, semaVars, lockVars, cond_priority, cont, cursor>>

\* cond_signal: pop the front waiter; sema_up of its semaphore follows.
signal(t, c) ==
  LET w == list_sort(cond_waiters[c], cond_priority)
  IN  /\ w # <<>>
      /\ cond_waiters' = [cond_waiters EXCEPT ![c] = Tail(w)]
      /\ GoTo(t, "up")
      /\ arg' = [arg EXCEPT ![t] = Head(w)]
      /\ UNCHANGED <<schedVars, prioVars, semaVars, lockVars, cond_priority, cont, cursor>>

cond_signal(t, c) ==
  /\ At(t, "run") /\ holder[CondLock[c]] = t
  /\ signal(t, c)
  /\ UNCHANGED cond

\* cond_broadcast: cond_signal until no waiter is left.
cond_broadcast(t, c) ==
  /\ At(t, "run") /\ holder[CondLock[c]] = t
  /\ cond' = [cond EXCEPT ![t] = c]
  /\ GoTo(t, "bcast")
  /\ UNCHANGED <<schedVars, prioVars, semaVars, lockVars, cond_waiters, cond_priority,
                 arg, cont, cursor>>

broadcast_next(t) ==
  /\ At(t, "bcast")
  /\ signal(t, cond[t])
  /\ UNCHANGED cond

broadcast_done(t) ==
  /\ At(t, "bcast") /\ cond_waiters[cond[t]] = <<>>
  /\ cond' = [cond EXCEPT ![t] = NoCond]
  /\ Return(t)
  /\ UNCHANGED <<schedVars, prioVars, semaVars, lockVars, cond_waiters, cond_priority,
                 cont, cursor>>

(************************ thread_exit (thread.c) ***************************)

FirstLock(ll) == IF ll = <<>> THEN NoLock ELSE Head(ll)

\* What list_next of l on ll can be: if l has been removed under the loop
\* (exit_unlink), its links are stale.
NextLock(ll, l) ==
  IF ~Contains(ll, l) THEN Range(ll) \cup {NoLock}
  ELSE {IF Place(ll, l) < Len(ll) THEN ll[Place(ll, l) + 1] ELSE NoLock}

thread_exit(t) ==
  /\ At(t, "run")
  /\ cursor' = [cursor EXCEPT ![t] = FirstLock(lock_list[t])]
  /\ GoTo(t, "exit")
  /\ UNCHANGED <<schedVars, prioVars, semaVars, lockVars, condVars, arg, cont>>

\* Mutant: the loop does not advance.
exit_release_same(t) ==
  LET l == cursor[t]
  IN  /\ At(t, "exit") /\ l # NoLock /\ holder[l] = t
      /\ release(t, l, "unlink")
      /\ UNCHANGED <<cursor, semaVars, condVars>>

\* The loop remembers the next element, then releases the lock.
exit_release(t) ==
  LET l == cursor[t]
  IN  /\ At(t, "exit") /\ l # NoLock /\ holder[l] = t
      /\ \E next \in NextLock(lock_list[t], l) : cursor' = [cursor EXCEPT ![t] = next]
      /\ release(t, l, "unlink")
      /\ UNCHANGED <<semaVars, condVars>>

\* The second list_remove of the released lock.  If another thread has put
\* the lock on its own list meanwhile, that is where it is removed from.
\* Otherwise the stale links splice t's list together again at the next lock.
exit_unlink(t) ==
  LET l == arg[t]
      ll == lock_list[t]
  IN  /\ At(t, "unlink")
      /\ lock_list' =
           IF \E u \in Threads : Contains(lock_list[u], l)
           THEN [u \in Threads |-> list_remove(lock_list[u], l)]
           ELSE [lock_list EXCEPT ![t] =
                  IF cursor[t] = NoLock THEN <<>>
                  ELSE IF Contains(ll, cursor[t])
                       THEN SubSeq(ll, Place(ll, cursor[t]), Len(ll)) ELSE ll]
      /\ GoTo(t, "exit")
      /\ UNCHANGED <<schedVars, prioVars, semaVars, holder, lock_priority, wait_lock,
                     condVars, arg, cont, cursor>>

\* Dying: the next thread frees the page.
exit_die(t) ==
  /\ At(t, "exit") /\ cursor[t] = NoLock
  /\ schedule(ready_list, sleeping_list, [status EXCEPT ![t] = "DYING"], wake_in,
              priority)
  /\ UNCHANGED <<prioVars, semaVars, lockVars, condVars, ctlVars>>

-----------------------------------------------------------------------------
ThreadOps(t) ==
  \/ create_yield(t)
  \/ "create" \in Ops /\ \E u \in Threads, p \in Priorities : thread_create(t, u, p)
  \/ "setprio" \in Ops /\ \E p \in Priorities : thread_set_priority(t, p)
  \/ "sleep" \in Ops /\ \E n \in 1..MaxSleep : sleep(t, n)

SemaOps(t) ==
  \/ sema_down_block(t)
  \/ sema_down_take(t)
  \/ sema_up(t)
  \/ \E s \in Semas : call_sema_down(t, s) \/ call_sema_up(t, s)

LockOps(t) ==
  \/ \E l \in Locks : lock_acquire(t, l) \/ lock_release(t, l)
  \/ lock_own(t)
  \/ lock_enlist(t)
  \/ lock_reset(t)
  \/ lock_clear(t)

CondOps(t) ==
  \/ \E c \in Conds : cond_wait(t, c) \/ cond_signal(t, c) \/ cond_broadcast(t, c)
  \/ cond_reacquire(t)
  \/ broadcast_next(t)
  \/ broadcast_done(t)

ExitOps(t) ==
  \/ "exit" \in Ops /\ thread_exit(t)
  \/ exit_release(t)
  \/ exit_unlink(t)
  \/ exit_die(t)

Step(t) == ThreadOps(t) \/ SemaOps(t) \/ LockOps(t) \/ CondOps(t) \/ ExitOps(t)

Next ==
  \/ \E t \in Threads : Step(t)
  \/ Preempt
  \/ Tick
  \/ idle
  \/ \E s \in Semas : sema_up_intr(s)

Spec == Init /\ [][Next]_vars

-----------------------------------------------------------------------------
(******************************* properties ********************************)

NoDuplicates(s) == Cardinality(Range(s)) = Len(s)

\* The run queue, the sleeping list and the semaphore wait lists share the one
\* list element of struct thread (thread.h): the queue holds exactly the ready
\* threads, each once; a thread on a wait list is blocked in sema_down on that
\* very semaphore; the idle thread is on no list; one thread is running.
ListsExclusive ==
  /\ \A t \in Threads : status[t] = "READY" <=> Contains(ready_list, t)
  /\ \A t \in Threads : status[t] = "SLEEPING" <=> Contains(sleeping_list, t)
  /\ \A t \in Threads, s \in SemaIds :
       Contains(waiters[s], t) <=> status[t] = "BLOCKED" /\ pc[t] = "down" /\ arg[t] = s
  /\ NoDuplicates(ready_list) /\ NoDuplicates(sleeping_list)
  /\ \A s \in SemaIds : NoDuplicates(waiters[s])
  /\ \A t \in All : status[t] = "RUNNING" <=> running = t
  /\ ~Contains(ready_list, Idle)

\* t is past the sema_down of lock_acquire(l) and not past the sema_up of
\* lock_release(l).
Inside(t, l) == holder[l] = t \/ (pc[t] \in {"own", "up"} /\ arg[t] = l)

\* Locks exclude: at most one thread is inside a lock, from the moment it
\* takes the semaphore to the moment it gives it back, and the semaphore is
\* zero exactly as long as some thread is.
LockMutex ==
  \A l \in Locks :
    /\ value[l] = IF \E t \in Threads : Inside(t, l) THEN 0 ELSE 1
    /\ \A t, u \in Threads : Inside(t, l) /\ Inside(u, l) => t = u

\* Threads that sema_up(s) has woken and that have not tested the value yet.
Woken(s) == {t \in Threads : /\ pc[t] = "down" /\ arg[t] = s
                             /\ status[t] \in {"READY", "RUNNING"}}

\* No wake-up is lost: while threads wait on a semaphore whose value is
\* positive, at least as many woken threads as the value are on their way to
\* test it, whatever third thread takes the value first.
NoLostWakeup ==
  \A s \in SemaIds : waiters[s] # <<>> => value[s] <= Cardinality(Woken(s))

\* No signal is lost between the lock_release and the sema_down of cond_wait:
\* a waiter off the condition's list has its semaphore up, or is about to.
NoLostSignal ==
  \A t \in Threads :
    (cond[t] # NoCond /\ pc[t] \in {"reset", "clear", "up", "down"} /\ cont[t] = "wait") =>
       \/ Contains(cond_waiters[cond[t]], t)
       \/ value[t] = 1
       \/ \E u \in Threads : pc[u] = "up" /\ arg[u] = t

\* Donation never leaves a thread below its own base priority.
PriorityFloor == \A t \in All : priority[t] >= original_priority[t]

\* A thread that has died holds no lock: donate_lock follows lock->holder.
NoDeadHolder == \A t \in Threads : status[t] = "DYING" => \A l \in Locks : ~Inside(t, l)

\* When if_yield has run, no ready thread has a higher priority than the
\* running thread, although donation changes priorities of queued threads.
YieldsToHigher ==
  [][\A t \in Threads : (pc[t] \in {"up", "yield"} /\ pc'[t] # pc[t]) =>
        \A u \in Range(ready_list') : priority'[running'] >= priority'[u]]_vars

\* sema_up wakes a waiter of the highest priority, also when donation raised
\* a waiter after it had queued.
WakesHighest ==
  [][waiters' # waiters =>
       \A s \in SemaIds : \A t \in Range(waiters[s]) \ Range(waiters'[s]) :
          \A u \in Range(waiters'[s]) : priority[t] >= priority[u]]_vars

\* The assertion of lock_release holds in the loop of thread_exit: the thread
\* holds the lock the loop is about to release.
ExitReleasesOwn ==
  \A t \in Threads : pc[t] = "exit" /\ cursor[t] # NoLock => holder[cursor[t]] = t

-----------------------------------------------------------------------------
\* The timer interrupt keeps coming: ticks advance and time slices end.
Fairness == WF_vars(Tick) /\ WF_vars(Preempt)
FairSpec == Spec /\ Fairness

\* Every sleeper wakes, although schedule wakes only the first of the list and
\* only when it is called.
SleepersWake == \A t \in Threads : status[t] = "SLEEPING" ~> status[t] # "SLEEPING"
=============================================================================
