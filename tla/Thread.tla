------------------------------- MODULE Thread -------------------------------
(***************************************************************************)
(* The uniprocessor scheduler of thread.c: thread states, the run queue,   *)
(* the sleeping list and the pieces of code that switch threads.  Code     *)
(* that runs with interrupts off is one atomic step; the pieces below are  *)
(* the bodies such steps are composed of in module Synch.                  *)
(*                                                                         *)
(* wake_time is kept relative to timer_ticks(): wake_in[t] is the number   *)
(* of ticks left, and 0 once t is due.                                     *)
(***************************************************************************)
EXTENDS OrderedList

CONSTANTS
  Threads,     \* the threads that can exist, idle_thread excluded
  Main,        \* initial_thread
  Idle,        \* idle_thread
  Priorities,  \* the thread priorities in use
  PRI_MIN, PRI_DEFAULT,
  MaxSleep     \* bound on the argument of thread_sleep

ASSUME ThreadAssumption ==
  /\ Main \in Threads
  /\ Idle \notin Threads
  /\ Priorities \subseteq Nat
  /\ PRI_MIN \in Priorities /\ PRI_DEFAULT \in Priorities
  /\ MaxSleep \in Nat

VARIABLES
  running,            \* the thread on the CPU
  status,             \* struct thread: status ("NONE": not created)
  ready_list,         \* the run queue
  sleeping_list,      \* threads in thread_sleep, earliest wake-up first
  wake_in,            \* struct thread: wake_time - timer_ticks()
  priority,           \* struct thread: priority
  original_priority   \* struct thread: original_priority

schedVars == <<running, status, ready_list, sleeping_list, wake_in>>
prioVars  == <<priority, original_priority>>

All == Threads \cup {Idle}
Status == {"NONE", "RUNNING", "READY", "SLEEPING", "BLOCKED", "DYING"}

ThreadTypeOK ==
  /\ running \in All
  /\ status \in [All -> Status]
  /\ ready_list \in Seq(Threads)
  /\ sleeping_list \in Seq(Threads)
  /\ wake_in \in [Threads -> 0..MaxSleep]
  /\ priority \in [All -> Priorities]
  /\ original_priority \in [All -> Priorities]

\* The state thread_start leaves behind: main runs, idle has blocked.
ThreadInit ==
  /\ running = Main
  /\ status = [t \in All |-> CASE t = Main -> "RUNNING"
                               [] t = Idle -> "BLOCKED"
                               [] OTHER    -> "NONE"]
  /\ ready_list = <<>>
  /\ sleeping_list = <<>>
  /\ wake_in = [t \in Threads |-> 0]
  /\ priority = [t \in All |-> IF t = Main THEN PRI_DEFAULT ELSE PRI_MIN]
  /\ original_priority = priority

-----------------------------------------------------------------------------
\* schedule: wake the first sleeper if it is due (at most one per call), then
\* switch to the front of the run queue, or to idle_thread.  rl, sl, st, wake
\* and pr are the run queue, the sleeping list, the states, the wake-up times
\* and the priorities when schedule is called.
schedule(rl, sl, st, wake, pr) ==
  LET due  == sl # <<>> /\ wake[Head(sl)] = 0
      rl1  == IF due THEN list_insert_ordered(rl, Head(sl), pr) ELSE rl
      st1  == IF due THEN [st EXCEPT ![Head(sl)] = "READY"] ELSE st
      next == IF rl1 = <<>> THEN Idle ELSE Head(rl1)
  IN  /\ sleeping_list' = IF due THEN Tail(sl) ELSE sl
      /\ ready_list' = IF rl1 = <<>> THEN rl1 ELSE Tail(rl1)
      /\ status' = [st1 EXCEPT ![next] = "RUNNING"]
      /\ running' = next
      /\ wake_in' = wake

\* Mutant: the state is not set before schedule.
thread_block_running(t) ==
  schedule(ready_list, sleeping_list, status, wake_in, priority)

thread_block(t) ==
  schedule(ready_list, sleeping_list, [status EXCEPT ![t] = "BLOCKED"],
           wake_in, priority)

\* Mutant: idle_thread joins the run queue.
thread_yield_idle(t, rl, st, pr) ==
  schedule(list_insert_ordered(rl, t, pr),
           sleeping_list, [st EXCEPT ![t] = "READY"], wake_in, pr)

\* thread_yield by t; idle_thread never joins the run queue.
thread_yield(t, rl, st, pr) ==
  schedule(IF t = Idle THEN rl ELSE list_insert_ordered(rl, t, pr),
           sleeping_list, [st EXCEPT ![t] = "READY"], wake_in, pr)

\* Mutant: the run queue is not sorted again.
if_yield_unsorted(t, rl, st, pr) ==
  IF rl # <<>> /\ pr[t] < pr[Head(rl)]
    THEN thread_yield(t, rl, st, pr)
    ELSE /\ ready_list' = rl
         /\ status' = st
         /\ UNCHANGED <<running, sleeping_list, wake_in>>

\* if_yield in thread context: re-sort the run queue and give way to a front
\* thread of higher priority.
if_yield(t, rl, st, pr) ==
  LET sorted == list_sort(rl, pr)
  IN  IF sorted # <<>> /\ pr[t] < pr[Head(sorted)]
        THEN thread_yield(t, sorted, st, pr)
        ELSE /\ ready_list' = sorted
             /\ status' = st
             /\ UNCHANGED <<running, sleeping_list, wake_in>>

\* if_yield in interrupt context: the yield happens when the handler returns.
\* Besides a higher front thread, the tick count it increments may ask for it.
if_yield_intr(t, rl, st, pr) ==
  LET sorted == list_sort(rl, pr)
  IN  \/ /\ sorted # <<>>
         /\ thread_yield(t, sorted, st, pr)
      \/ /\ sorted # <<>> => pr[t] >= pr[Head(sorted)]
         /\ ready_list' = sorted
         /\ status' = st
         /\ UNCHANGED <<running, sleeping_list, wake_in>>

\* Mutant: the list is ordered latest wake-up first.
thread_sleep_latest(t, ticks) ==
  LET wake == [wake_in EXCEPT ![t] = ticks]
  IN  schedule(ready_list, list_insert_ordered(sleeping_list, t, wake),
               [status EXCEPT ![t] = "SLEEPING"], wake, priority)

\* thread_sleep(ticks) by t: sleep until the wake-up time.
thread_sleep(t, ticks) ==
  LET wake == [wake_in EXCEPT ![t] = ticks]
  IN  schedule(ready_list,
               list_insert_ordered(sleeping_list, t, [u \in Threads |-> -wake[u]]),
               [status EXCEPT ![t] = "SLEEPING"], wake, priority)

\* A timer tick brings every pending wake-up time one tick closer.
timer_tick ==
  /\ \E t \in Threads : wake_in[t] > 0
  /\ wake_in' = [t \in Threads |-> IF wake_in[t] > 0 THEN wake_in[t] - 1 ELSE 0]
  /\ UNCHANGED <<running, status, ready_list, sleeping_list>>
=============================================================================
