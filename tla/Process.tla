------------------------------ MODULE Process ------------------------------
(***************************************************************************)
(* The life of user processes (process.c, and exec, wait and exit of       *)
(* syscall.c): a parent creates a child thread with a heap-allocated       *)
(* record, waits on the record's load_barrier for the child to load, may   *)
(* wait on its wait_barrier for the child to exit, and frees the record.   *)
(* Parent and child share the record with no lock.                         *)
(*                                                                         *)
(* A tid names both a thread and the record made for it (tids are never    *)
(* reused); Main is the initial thread, which has no record.  pc[p] is the *)
(* place of p in the kernel:                                               *)
(*   "load", "loaded"   in load, before and after process->load is set     *)
(*   "run"              in user mode                                       *)
(*   "exec", "wait"     blocked on the load_barrier / wait_barrier of      *)
(*                      arg[p]                                             *)
(*   "exit", "set"      in exit, before and after thread_exist             *)
(*   "free", "signal"   in process_exit, freeing the child records /       *)
(*   "close", "die"     before sema_up / in close_all / after process_exit *)
(*                                                                         *)
(* A record that is not allocated is never read or changed by the model:   *)
(* what such an access does to the memory's next owner is left out.        *)
(***************************************************************************)
EXTENDS Integers

CONSTANTS
  MaxTid,    \* bound on the threads ever created (allocate_tid)
  Statuses   \* the values a program passes to exit

Main == 1
Tids == 1 .. MaxTid
NoTid == 0
Garbage == -2   \* what malloc leaves in status, told apart from every status

ASSUME ProcessAssumption ==
  /\ MaxTid \in Nat \ {0}
  /\ Statuses \subseteq Int /\ Garbage \notin Statuses

VARIABLES
  pc, arg,       \* control
  code,          \* the argument of the exit call in progress
  next_tid,
  parent,        \* thread->parent
  allocated,     \* the records that are malloc'ed and not freed
  record,        \* struct child_process_elem
  ended,         \* how each process really ended: its exit status, -1 when killed
  ret            \* what the last exec or wait of each process returned

vars == <<pc, arg, code, next_tid, parent, allocated, record, ended, ret>>

Places == {"none", "load", "loaded", "run", "exec", "wait", "exit", "set",
           "free", "signal", "close", "die", "dead", "off"}

child_process_elem ==
  [process_wait : BOOLEAN, exit : BOOLEAN, load : BOOLEAN,
   status : Statuses \cup {-1, Garbage},
   load_barrier : 0 .. 1, wait_barrier : 0 .. 1]

\* What create_child leaves in a new record.
create_child ==
  [process_wait |-> FALSE, exit |-> FALSE, load |-> FALSE, status |-> Garbage,
   load_barrier |-> 0, wait_barrier |-> 0]

NoReturn == [call |-> "none", child |-> NoTid, value |-> 0]

\* Every variable has its type; no barrier is raised twice.
TypeOK ==
  /\ pc \in [Tids -> Places]
  /\ arg \in [Tids -> Tids \cup {NoTid}]
  /\ code \in [Tids -> Statuses \cup {-1}]
  /\ next_tid \in 2 .. MaxTid + 1
  /\ parent \in [Tids -> Tids \cup {NoTid}]
  /\ allocated \subseteq Tids \ {Main}
  /\ record \in [Tids -> child_process_elem]
  /\ ended \in [Tids -> Statuses \cup {-1, Garbage}]
  /\ \A p \in Tids :
       /\ ret[p].call \in {"none", "exec", "wait"}
       /\ ret[p].child \in Tids \cup {NoTid}

Init ==
  /\ pc = [p \in Tids |-> IF p = Main THEN "run" ELSE "none"]
  /\ arg = [p \in Tids |-> NoTid]
  /\ code = [p \in Tids |-> -1]
  /\ next_tid = 2
  /\ parent = [p \in Tids |-> NoTid]
  /\ allocated = {}
  /\ record = [p \in Tids |-> create_child]
  /\ ended = [p \in Tids |-> Garbage]
  /\ ret = [p \in Tids |-> NoReturn]

-----------------------------------------------------------------------------
\* The records on the child_process_list of p.
child_process_list(p) == {c \in allocated : parent[c] = p}

thread_exist(p) == p \in Tids /\ pc[p] \notin {"none", "dead"}

\* p changes the record of c, if it is still there.
Update(c, r) ==
  record' = IF c \in allocated THEN [record EXCEPT ![c] = r] ELSE record

Returns(p, call, c, v) ==
  ret' = [ret EXCEPT ![p] = [call |-> call, child |-> c, value |-> v]]

\* process_execute and thread_create: the child, its record and its parent
\* pointer are made before it can run; p goes on at `place`.
process_execute(p, place) ==
  LET c == next_tid IN
  /\ c <= MaxTid
  /\ next_tid' = c + 1
  /\ pc' = [pc EXCEPT ![p] = place, ![c] = "load"]
  /\ arg' = [arg EXCEPT ![p] = c]
  /\ parent' = [parent EXCEPT ![c] = p]
  /\ allocated' = allocated \cup {c}
  /\ record' = [record EXCEPT ![c] = create_child]
  /\ UNCHANGED <<code, ended, ret>>

\* Mutant: exec does not wait until the child is loaded.
exec_no_wait(p) == p # Main /\ pc[p] = "run" /\ process_execute(p, "run")

\* run_task: Main starts one task, and waits for it without waiting for its load.
run_task ==
  pc[Main] = "run" /\ next_tid = 2 /\ process_execute(Main, "run")

\* exec: create the child, then sema_down its load_barrier.
exec(p) == p # Main /\ pc[p] = "run" /\ process_execute(p, "exec")

\* Mutant: the load flag of the child is not consulted.
exec_return_unchecked(p) ==
  LET c == arg[p] IN
  /\ pc[p] = "exec" /\ record[c].load_barrier > 0
  /\ record' = [record EXCEPT ![c].load_barrier = @ - 1]
  /\ pc' = [pc EXCEPT ![p] = "run"]
  /\ Returns(p, "exec", c, c)
  /\ UNCHANGED <<arg, code, next_tid, parent, allocated, ended>>

\* exec after sema_down.  When the load failed the record stays on the list.
exec_return(p) ==
  LET c == arg[p] IN
  /\ pc[p] = "exec" /\ record[c].load_barrier > 0
  /\ record' = [record EXCEPT ![c].load_barrier = @ - 1]
  /\ pc' = [pc EXCEPT ![p] = "run"]
  /\ Returns(p, "exec", c, IF record[c].load THEN c ELSE -1)
  /\ UNCHANGED <<arg, code, next_tid, parent, allocated, ended>>

\* load up to the assignment of process->load: it succeeds or fails.
load(p) ==
  /\ pc[p] = "load"
  /\ \E success \in BOOLEAN : Update(p, [record[p] EXCEPT !.load = success])
  /\ pc' = [pc EXCEPT ![p] = "loaded"]
  /\ UNCHANGED <<arg, code, next_tid, parent, allocated, ended, ret>>

\* Mutant: only a child that loaded raises the barrier.
load_end_on_success(p) ==
  /\ pc[p] = "loaded"
  /\ Update(p, [record[p] EXCEPT !.load_barrier = IF record[p].load THEN @ + 1 ELSE @])
  /\ pc' = [pc EXCEPT ![p] = IF record[p].load THEN "run" ELSE "exit"]
  /\ code' = [code EXCEPT ![p] = -1]
  /\ ended' = IF record[p].load THEN ended ELSE [ended EXCEPT ![p] = -1]
  /\ UNCHANGED <<arg, next_tid, parent, allocated, ret>>

\* The end of load (sema_up) and of start_process: a child that did not load
\* calls exit(-1).
load_end(p) ==
  /\ pc[p] = "loaded"
  /\ Update(p, [record[p] EXCEPT !.load_barrier = @ + 1])
  /\ pc' = [pc EXCEPT ![p] = IF record[p].load THEN "run" ELSE "exit"]
  /\ code' = [code EXCEPT ![p] = -1]
  /\ ended' = IF record[p].load THEN ended ELSE [ended EXCEPT ![p] = -1]
  /\ UNCHANGED <<arg, next_tid, parent, allocated, ret>>

-----------------------------------------------------------------------------
\* process_wait of a tid that is not on the list, or already waited for.
wait_refused(p, c) ==
  /\ p # Main /\ pc[p] = "run"
  /\ c \notin child_process_list(p) \/ record[c].process_wait
  /\ Returns(p, "wait", NoTid, -1)
  /\ UNCHANGED <<pc, arg, code, next_tid, parent, allocated, record, ended>>

\* process_wait of a child, up to sema_down.
process_wait(p, c) ==
  /\ pc[p] = "run"
  /\ c \in child_process_list(p) /\ ~record[c].process_wait
  /\ record' = [record EXCEPT ![c].process_wait = TRUE]
  /\ pc' = [pc EXCEPT ![p] = "wait"]
  /\ arg' = [arg EXCEPT ![p] = c]
  /\ UNCHANGED <<code, next_tid, parent, allocated, ended, ret>>

\* Mutant: the exit flag is not consulted.
wait_return_unchecked(p) ==
  LET c == arg[p] IN
  /\ pc[p] = "wait" /\ record[c].wait_barrier > 0
  /\ Returns(p, "wait", c, record[c].status)
  /\ record' = [record EXCEPT ![c].wait_barrier = @ - 1]
  /\ allocated' = allocated \ {c}
  /\ pc' = [pc EXCEPT ![p] = IF p = Main THEN "off" ELSE "run"]
  /\ UNCHANGED <<arg, code, next_tid, parent, ended>>

\* process_wait after sema_down: a child that never called exit has status -1;
\* remove_child frees the record.  Main then shuts the machine down.
wait_return(p) ==
  LET c == arg[p] IN
  /\ pc[p] = "wait" /\ record[c].wait_barrier > 0
  /\ Returns(p, "wait", c, IF record[c].exit THEN record[c].status ELSE -1)
  /\ record' = [record EXCEPT ![c].wait_barrier = @ - 1]
  /\ allocated' = allocated \ {c}
  /\ pc' = [pc EXCEPT ![p] = IF p = Main THEN "off" ELSE "run"]
  /\ UNCHANGED <<arg, code, next_tid, parent, ended>>

-----------------------------------------------------------------------------
\* exit up to the call of thread_exist(cur->parent).
exit(p, status) ==
  /\ p # Main /\ pc[p] = "run"
  /\ pc' = [pc EXCEPT ![p] = "exit"]
  /\ code' = [code EXCEPT ![p] = status]
  /\ ended' = [ended EXCEPT ![p] = status]
  /\ UNCHANGED <<arg, next_tid, parent, allocated, record, ret>>

\* The result of thread_exist is used after it was computed: the parent may
\* exit in between.
exit_check(p) ==
  /\ pc[p] = "exit"
  /\ pc' = [pc EXCEPT ![p] = IF thread_exist(parent[p]) THEN "set" ELSE "free"]
  /\ UNCHANGED <<arg, code, next_tid, parent, allocated, record, ended, ret>>

\* Mutant: exit raises the wait_barrier, which process_exit raises again.
exit_set_signals(p) ==
  /\ pc[p] = "set"
  /\ Update(p, [record[p] EXCEPT !.status = code[p], !.exit = TRUE,
                                 !.wait_barrier = @ + 1])
  /\ pc' = [pc EXCEPT ![p] = "free"]
  /\ UNCHANGED <<arg, code, next_tid, parent, allocated, ended, ret>>

\* exit: store the status and go on to thread_exit.
exit_set(p) ==
  /\ pc[p] = "set"
  /\ Update(p, [record[p] EXCEPT !.status = code[p], !.exit = TRUE])
  /\ pc' = [pc EXCEPT ![p] = "free"]
  /\ UNCHANGED <<arg, code, next_tid, parent, allocated, ended, ret>>

\* kill: an exception in user mode goes straight to thread_exit.
kill(p) ==
  /\ p # Main /\ pc[p] = "run"
  /\ pc' = [pc EXCEPT ![p] = "free"]
  /\ ended' = [ended EXCEPT ![p] = -1]
  /\ UNCHANGED <<arg, code, next_tid, parent, allocated, record, ret>>

\* process_exit pops and frees the records of the children, one at a time, in
\* the order they were created, whether or not the children still run.
free_children(p) ==
  /\ pc[p] = "free"
  /\ LET list == child_process_list(p)
         first == CHOOSE c \in list : \A d \in list : c <= d
     IN IF list = {}
          THEN pc' = [pc EXCEPT ![p] = "signal"] /\ UNCHANGED allocated
          ELSE allocated' = allocated \ {first} /\ UNCHANGED pc
  /\ UNCHANGED <<arg, code, next_tid, parent, record, ended, ret>>

\* Mutant: a process that was killed does not raise its barrier.
signal_exited(p) ==
  /\ pc[p] = "signal"
  /\ Update(p, [record[p] EXCEPT !.wait_barrier = IF record[p].exit THEN @ + 1 ELSE @])
  /\ pc' = [pc EXCEPT ![p] = "close"]
  /\ UNCHANGED <<arg, code, next_tid, parent, allocated, ended, ret>>

\* process_exit: sema_up the wait_barrier.
signal(p) ==
  /\ pc[p] = "signal"
  /\ Update(p, [record[p] EXCEPT !.wait_barrier = @ + 1])
  /\ pc' = [pc EXCEPT ![p] = "close"]
  /\ UNCHANGED <<arg, code, next_tid, parent, allocated, ended, ret>>

\* close_all and the rest of process_exit: the files of the record are closed.
close_all(p) ==
  /\ pc[p] = "close"
  /\ pc' = [pc EXCEPT ![p] = "die"]
  /\ UNCHANGED <<arg, code, next_tid, parent, allocated, record, ended, ret>>

\* The end of thread_exit: p leaves all_list.
die(p) ==
  /\ pc[p] = "die"
  /\ pc' = [pc EXCEPT ![p] = "dead"]
  /\ UNCHANGED <<arg, code, next_tid, parent, allocated, record, ended, ret>>

-----------------------------------------------------------------------------
\* What the kernel does on behalf of p without a choice of the program.
Kernel(p) ==
  \/ load(p) \/ load_end(p) \/ exec_return(p) \/ wait_return(p)
  \/ exit_check(p) \/ exit_set(p) \/ free_children(p) \/ signal(p)
  \/ close_all(p) \/ die(p)

\* What the program of p may ask for, or suffer.
Program(p) ==
  \/ exec(p)
  \/ \E c \in Tids : process_wait(p, c) \/ wait_refused(p, c)
  \/ \E status \in Statuses : exit(p, status)
  \/ kill(p)

Next == run_task \/ \E p \in Tids : Kernel(p) \/ Program(p)

Spec == Init /\ [][Next]_vars

\* The scheduler runs every ready thread again and again, and no kernel path
\* here loops for ever; programs may run as long as they like.
FairSpec == Spec /\ \A p \in Tids : WF_vars(Kernel(p))

-----------------------------------------------------------------------------
\* process_wait returns the status the child passed to exit, -1 for a child
\* that was killed or did not load, and -1 for a tid it may not wait for.  The
\* status travels through the record, across the check of thread_exist and the
\* barrier.
WaitStatus ==
  \A p \in Tids : ret[p].call = "wait" =>
    ret[p].value = IF ret[p].child = NoTid THEN -1 ELSE ended[ret[p].child]

\* exec returns the pid of the child only when it was loaded: a child whose
\* load failed can only be on its way out with status -1.
ExecReports ==
  \A p \in Tids : ret[p].call = "exec" =>
    LET c == ret[p].child IN
    IF ret[p].value = c
      THEN pc[c] \notin {"none", "load", "loaded"}
           /\ (c \in allocated => record[c].load)
      ELSE pc[c] \in {"exit", "set", "free", "signal", "close", "die", "dead"}
           /\ ended[c] = -1

\* load writes to the child's record, so the parent must not have freed it: a
\* parent in exec stays there until load is over, and Main never exits first.
LoadOwnsRecord == \A c \in Tids : pc[c] \in {"load", "loaded"} => c \in allocated

\* exec always comes back, whether or not the child loads.
ExecEnds == \A p \in Tids : pc[p] = "exec" ~> pc[p] # "exec"

\* A wait comes back once the child is on its way out, whether it called exit
\* or was killed.
WaitEnds ==
  \A p, c \in Tids :
    (pc[p] = "wait" /\ arg[p] = c /\ pc[c] \in {"exit", "set", "free"})
      ~> pc[p] # "wait"

\* The comment of process_wait: it "waits for thread TID to die".
WaitMeansDead ==
  \A p \in Tids : ret[p].call = "wait" /\ ret[p].child # NoTid =>
    pc[ret[p].child] = "dead"
=============================================================================
