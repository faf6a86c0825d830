--------------------------- MODULE ProcessProofs ---------------------------
(***************************************************************************)
(* For any number of processes and any statuses: load never loses its      *)
(* record, wait returns the status of the child, exec reports its load.    *)
(*                                                                         *)
(* No record is locked, so the argument is about who can free a record and *)
(* when.  A record goes when its parent passes wait_barrier, which is 0    *)
(* until the child is past its last use in load and exit, or when its      *)
(* parent exits, which it cannot do while it is in exec for the child;     *)
(* and Main, which does not wait for the load, does not exit.              *)
(***************************************************************************)
EXTENDS Process, WellFoundedInduction, TLAPS

\* The provers for the steps that name none, in this order.
USE SMTT(20), Z3T(20), ZenonT(60)

Loading == {"load", "loaded"}
Live == {"run", "exec", "wait"}
Leaving == {"exit", "set"}
Left == {"free", "signal", "close", "die", "dead"}
Signalled == {"close", "die", "dead"}
Returned == [call : {"none", "exec", "wait"}, child : Tids \cup {NoTid}, value : Int]

\* Tids are handed out in order, and everything refers to tids handed out.
TidsInv ==
  /\ ret \in [Tids -> Returned]
  /\ \A c \in Tids : pc[c] = "none" <=> c >= next_tid
  /\ pc[Main] \in {"run", "wait", "off"}
  /\ \A c \in Tids \ {Main} : pc[c] # "off"
  /\ \A c \in allocated : c < next_tid
  /\ \A c \in Tids : c # Main /\ c < next_tid => parent[c] \in Tids /\ pc[parent[c]] # "none"

\* A thread that is blocked on a barrier is the parent of the record's thread,
\* and the record is there.
BlockedInv ==
  \A p \in Tids : pc[p] \in {"exec", "wait"} =>
    arg[p] \in allocated /\ parent[arg[p]] = p

\* The parent of a child that loads is in exec for it, or is Main.
LoadInv ==
  \A c \in Tids : pc[c] \in Loading =>
    /\ c # Main /\ c \in allocated
    /\ parent[c] # Main => pc[parent[c]] = "exec" /\ arg[parent[c]] = c

\* A process past the loop of process_exit has no child on its list.
FreedInv ==
  \A c \in allocated : pc[parent[c]] \notin {"signal", "close", "die", "dead"}

\* The barriers are 0 until the child raises them.
BarrierInv ==
  \A c \in Tids :
    /\ pc[c] \in Loading \cup {"none"} => record[c].load_barrier = 0
    /\ pc[c] \notin Signalled => record[c].wait_barrier = 0

\* What the record says of its process, as long as it is there.
RecordInv ==
  /\ \A c \in Tids : pc[c] \in Leaving => code[c] = ended[c]
  /\ \A c \in allocated :
       /\ pc[c] \in Left =>
            ended[c] = (IF record[c].exit = TRUE THEN record[c].status ELSE -1)
       /\ pc[c] \notin Left => record[c].exit = FALSE
       /\ pc[c] \in Live => record[c].load = TRUE
       /\ pc[c] \in Leaving \cup Left /\ record[c].load = FALSE => ended[c] = -1

\* A child that was waited for has passed its barrier.
WaitedInv ==
  \A p \in Tids : ret[p].call = "wait" /\ ret[p].child # NoTid => pc[ret[p].child] \in Signalled

\* A child exec returned for is a process.
ExecedInv ==
  \A p \in Tids : ret[p].call = "exec" => ret[p].child \in Tids /\ ret[p].value \in {ret[p].child, -1}

IInv == /\ TypeOK /\ TidsInv /\ BlockedInv /\ LoadInv /\ FreedInv /\ BarrierInv /\ RecordInv
        /\ WaitedInv /\ ExecedInv /\ WaitStatus /\ ExecReports

\* A set of tids that is not empty has a first one: the list_pop_front of process_exit.
LEMMA SmallestTid ==
  ASSUME NEW S, S \subseteq Nat, S # {}
  PROVE  \E c \in S : \A d \in S : c <= d
<1>1. PICK c \in S : \A d \in S : <<d, c>> \notin OpToRel(<, Nat)
  BY NatLessThanWellFounded, WFMin
<1>2. \A d \in S : ~(d < c)
  <2> SUFFICES ASSUME NEW d \in S, d < c PROVE FALSE
    OBVIOUS
  <2>1. <<d, c>> \in {ss \in Nat \X Nat : ss[1] < ss[2]}
    OBVIOUS
  <2>2. OpToRel(<, Nat) = {ss \in Nat \X Nat : ss[1] < ss[2]}
    BY Zenon DEF OpToRel
  <2> QED BY <1>1, <2>1, <2>2
<1>3. \A d \in S : c <= d
  <2> SUFFICES ASSUME NEW d \in S PROVE c <= d
    OBVIOUS
  <2>1. d \in Nat /\ c \in Nat /\ ~(d < c)
    BY <1>2
  <2> QED BY <2>1
<1> QED BY <1>3

\* What the operations write in a record leaves it a record.
LEMMA RecordUpdates ==
  ASSUME NEW e \in child_process_elem
  PROVE  /\ \A b \in BOOLEAN : [e EXCEPT !.load = b] \in child_process_elem
         /\ [e EXCEPT !.process_wait = TRUE] \in child_process_elem
         /\ \A n \in 0 .. 1 : [e EXCEPT !.load_barrier = n] \in child_process_elem
         /\ \A n \in 0 .. 1 : [e EXCEPT !.wait_barrier = n] \in child_process_elem
         /\ \A s \in Statuses \cup {-1, Garbage} :
              [e EXCEPT !.status = s, !.exit = TRUE] \in child_process_elem
BY Zenon DEF child_process_elem

\* A new child gets a fresh tid, which nothing refers to yet.
LEMMA Step_process_execute ==
  ASSUME IInv, NEW p \in Tids, NEW place, process_execute(p, place), pc[p] = "run",
         \/ p = Main /\ place = "run"
         \/ p # Main /\ place = "exec"
  PROVE  IInv'
<1> USE ProcessAssumption DEF ProcessAssumption, Tids, Main, NoTid, IInv,
        Loading, Live, Leaving, Left, Signalled
<1>1. TypeOK'
  BY DEF process_execute, TypeOK, Places, child_process_elem, create_child
<1>2. TidsInv'
  BY DEF process_execute, TidsInv, TypeOK, Returned
<1>3. BlockedInv'
  BY DEF process_execute, BlockedInv, TypeOK, TidsInv
<1>4. LoadInv'
  BY DEF process_execute, LoadInv, TypeOK, TidsInv
<1>5. FreedInv'
  BY DEF process_execute, FreedInv, TypeOK, TidsInv
<1>6. BarrierInv'
  BY Zenon DEF process_execute, BarrierInv, TypeOK, TidsInv, create_child
<1>7. RecordInv'
  BY DEF process_execute, RecordInv, TypeOK, TidsInv, create_child
<1>8. (WaitedInv /\ ExecedInv /\ WaitStatus)'
  BY DEF process_execute, WaitedInv, TypeOK, TidsInv, Returned, ExecedInv, WaitStatus
<1>9. ExecReports'
  <2> SUFFICES ASSUME NEW q \in Tids, ret[q].call = "exec", NEW c \in Tids, c = ret[q].child
               PROVE  IF ret[q].value = c
                        THEN /\ pc'[c] \notin {"none", "load", "loaded"}
                             /\ c \in allocated' => record'[c].load
                        ELSE /\ pc'[c] \in {"exit", "set", "free", "signal", "close", "die", "dead"}
                             /\ ended'[c] = -1
    BY ZenonT(60) DEF ExecReports, ExecedInv, process_execute
  <2>1. IF ret[q].value = c
          THEN /\ pc[c] \notin {"none", "load", "loaded"}
               /\ c \in allocated => record[c].load
          ELSE /\ pc[c] \in {"exit", "set", "free", "signal", "close", "die", "dead"}
               /\ ended[c] = -1
    BY DEF ExecReports
  <2>2. c # next_tid /\ pc[next_tid] = "none"
    BY <2>1 DEF TidsInv, TypeOK, process_execute
  <2> QED BY <2>1, <2>2 DEF process_execute, TypeOK
<1> QED BY <1>1, <1>2, <1>3, <1>4, <1>5, <1>6, <1>7, <1>8, <1>9

\* load writes in a record that is still there.
LEMMA Step_load ==
  ASSUME IInv, NEW p \in Tids, load(p)
  PROVE  IInv'
<1> USE ProcessAssumption DEF ProcessAssumption, Tids, Main, NoTid, IInv,
        Loading, Live, Leaving, Left, Signalled
<1>1. PICK success \in BOOLEAN : record' = [record EXCEPT ![p] = [record[p] EXCEPT !.load = success]]
  BY DEF load, Update, LoadInv
<1>2. TypeOK'
  <2>1. record[p] \in child_process_elem
    BY DEF TypeOK
  <2>2. record' \in [Tids -> child_process_elem]
    <3>1. [record[p] EXCEPT !.load = success] \in child_process_elem
      BY Zenon, <2>1, RecordUpdates
    <3> QED BY <1>1, <3>1 DEF TypeOK
  <2> QED BY <1>1, <2>2 DEF load, Update, TypeOK, Places
<1>3. (TidsInv /\ BlockedInv /\ LoadInv /\ FreedInv /\ BarrierInv)'
  BY <1>1 DEF load, Update, TidsInv, TypeOK, Returned, BlockedInv, LoadInv, FreedInv,
     BarrierInv
<1>4. RecordInv'
  BY <1>1 DEF load, Update, RecordInv, TypeOK, TidsInv
<1>5. (WaitedInv /\ ExecedInv /\ WaitStatus /\ ExecReports)'
  BY <1>1 DEF load, Update, WaitedInv, TypeOK, TidsInv, ExecedInv, WaitStatus,
     ExecReports
<1> QED BY <1>2, <1>3, <1>4, <1>5

\* The barrier goes from 0 to 1, and a child that did not load is on its way out.
LEMMA Step_load_end ==
  ASSUME IInv, NEW p \in Tids, load_end(p)
  PROVE  IInv'
<1> USE ProcessAssumption DEF ProcessAssumption, Tids, Main, NoTid, IInv,
        Loading, Live, Leaving, Left, Signalled
<1>1. /\ record' = [record EXCEPT ![p] = [record[p] EXCEPT !.load_barrier = 1]]
      /\ p \in allocated
  <2>1. record[p].load_barrier = 0 /\ p \in allocated
    BY DEF load_end, LoadInv, BarrierInv
  <2>2. record[p].load_barrier + 1 = 1
    BY <2>1
  <2> QED BY <2>1, <2>2 DEF load_end, Update
<1>2. TypeOK'
  <2>1. record[p] \in child_process_elem
    BY DEF TypeOK
  <2>2. record' \in [Tids -> child_process_elem]
    <3>1. [record[p] EXCEPT !.load_barrier = 1] \in child_process_elem
      <4>1. 1 \in 0 .. 1
        OBVIOUS
      <4> QED BY Zenon, <2>1, <4>1, RecordUpdates
    <3> QED BY <1>1, <3>1 DEF TypeOK
  <2> QED BY <1>1, <2>2 DEF load_end, Update, TypeOK, Places
<1>3. (TidsInv /\ BlockedInv /\ LoadInv /\ FreedInv /\ BarrierInv)'
  BY <1>1 DEF load_end, Update, TidsInv, TypeOK, Returned, BlockedInv, LoadInv,
     FreedInv, BarrierInv
<1>4. RecordInv'
  BY <1>1 DEF load_end, Update, RecordInv, TypeOK, TidsInv
<1>5. (WaitedInv /\ ExecedInv /\ ExecReports)'
  BY <1>1 DEF load_end, Update, WaitedInv, TypeOK, TidsInv, ExecedInv, ExecReports
<1>6. WaitStatus'
  <2> SUFFICES ASSUME NEW q \in Tids, ret[q].call = "wait"
               PROVE  ret[q].value = IF ret[q].child = NoTid THEN -1 ELSE ended'[ret[q].child]
    BY DEF WaitStatus, load_end
  <2>1. ret[q].child # NoTid => ret[q].child # p
    BY DEF WaitedInv, load_end
  <2> QED BY <2>1 DEF WaitStatus, load_end, TypeOK
<1> QED BY <1>2, <1>3, <1>4, <1>5, <1>6

\* exec gets past the barrier of a child that is past its load.
LEMMA Step_exec_return ==
  ASSUME IInv, NEW p \in Tids, exec_return(p)
  PROVE  IInv'
<1> USE ProcessAssumption DEF ProcessAssumption, Tids, Main, NoTid, IInv,
        Loading, Live, Leaving, Left, Signalled
<1>1. /\ arg[p] \in allocated /\ arg[p] \in Tids /\ parent[arg[p]] = p
      /\ record[arg[p]] \in child_process_elem
      /\ pc[p] = "exec" /\ pc[arg[p]] \notin Loading \cup {"none"}
  BY DEF exec_return, BlockedInv, BarrierInv, TypeOK
<1>2. record[arg[p]].load_barrier = 1
  BY <1>1 DEF exec_return, child_process_elem
<1>3. TypeOK'
  <2>1. record[arg[p]] \in child_process_elem
    BY <1>1
  <2>2. record' = [record EXCEPT ![arg[p]] = [record[arg[p]] EXCEPT !.load_barrier = 0]]
    BY <1>1, <1>2 DEF exec_return, Returns
  <2>3. record' \in [Tids -> child_process_elem]
    <3>1. [record[arg[p]] EXCEPT !.load_barrier = 0] \in child_process_elem
      <4>1. 0 \in 0 .. 1
        OBVIOUS
      <4> QED BY Zenon, <2>1, <4>1, RecordUpdates
    <3> QED BY Zenon, <2>2, <3>1 DEF TypeOK
  <2> QED BY <1>1, <1>2, <2>3 DEF exec_return, Returns, TypeOK, Places
<1>4. (TidsInv /\ BlockedInv /\ LoadInv /\ FreedInv /\ BarrierInv)'
  BY <1>1, <1>2 DEF exec_return, Returns, TidsInv, TypeOK, Returned, BlockedInv,
     LoadInv, BarrierInv, FreedInv
<1>5. RecordInv'
  BY <1>1, <1>2 DEF exec_return, Returns, RecordInv, TypeOK, TidsInv
<1>6. (WaitedInv /\ ExecedInv /\ WaitStatus)'
  BY <1>1, <1>2 DEF exec_return, Returns, WaitedInv, TypeOK, TidsInv, ExecedInv,
     BlockedInv, WaitStatus
<1>7. ExecReports'
  <2> SUFFICES ASSUME NEW q \in Tids, ret'[q].call = "exec", NEW c, c = ret'[q].child
               PROVE  IF ret'[q].value = c
                        THEN /\ pc'[c] \notin {"none", "load", "loaded"}
                             /\ c \in allocated => record'[c].load
                        ELSE /\ pc'[c] \in {"exit", "set", "free", "signal", "close", "die", "dead"}
                             /\ ended[c] = -1
    BY DEF ExecReports, exec_return
  <2>0. \A d \in Tids : record'[d].load = record[d].load
    BY <1>1 DEF exec_return, TypeOK, child_process_elem
  <2>1. CASE q # p
    <3>1. ret'[q] = ret[q] /\ c \in Tids
      BY <2>1 DEF exec_return, Returns, TidsInv, ExecedInv
    <3>2. pc'[c] = IF c = p THEN "run" ELSE pc[c]
      BY <3>1 DEF exec_return, TypeOK
    <3> QED BY <1>1, <2>0, <3>1, <3>2 DEF ExecReports
  <2>2. CASE q = p
    <3>1. c = arg[p] /\ ret'[q].value = IF record[c].load THEN c ELSE -1
      BY <2>2 DEF exec_return, Returns, TidsInv
    <3>2. pc'[c] = IF c = p THEN "run" ELSE pc[c]
      BY <1>1, <3>1 DEF exec_return, TypeOK
    <3>3. CASE record[c].load = TRUE
      BY <1>1, <2>0, <3>1, <3>2, <3>3
    <3>4. CASE record[c].load = FALSE
      <4>1. c # -1 /\ ret'[q].value = -1
        BY <1>1, <3>1, <3>4
      <4>2. pc[c] \notin Live /\ pc[c] # "off"
        BY <1>1, <3>1, <3>4 DEF RecordInv, TypeOK, TidsInv
      <4>3. pc[c] \in Leaving \cup Left
        BY <1>1, <3>1, <4>2 DEF TypeOK, Places
      <4>4. ended[c] = -1
        BY <1>1, <3>1, <3>4, <4>3 DEF RecordInv
      <4>5. c # p
        BY <1>1, <4>3
      <4> QED BY <3>2, <4>1, <4>3, <4>4, <4>5
    <3> QED BY Zenon, <1>1, <3>1, <3>3, <3>4 DEF child_process_elem
  <2> QED BY <2>1, <2>2
<1> QED BY <1>3, <1>4, <1>5, <1>6, <1>7

\* wait gets past the barrier of a child that has stored its status, or never will.
LEMMA Step_wait_return ==
  ASSUME IInv, NEW p \in Tids, wait_return(p)
  PROVE  IInv'
<1> USE ProcessAssumption DEF ProcessAssumption, Tids, Main, NoTid, IInv,
        Loading, Live, Leaving, Left, Signalled
<1>1. /\ arg[p] \in allocated /\ arg[p] \in Tids /\ parent[arg[p]] = p
      /\ record[arg[p]] \in child_process_elem
      /\ pc[p] = "wait" /\ pc[arg[p]] \in Signalled
  BY DEF wait_return, BlockedInv, BarrierInv, TypeOK
<1>2. record[arg[p]].wait_barrier = 1
  BY <1>1 DEF wait_return, child_process_elem
<1>3. (IF record[arg[p]].exit THEN record[arg[p]].status ELSE -1) = ended[arg[p]]
  BY <1>1 DEF RecordInv, child_process_elem
<1>4. ended[arg[p]] \in Int
  <2>1. ended[arg[p]] \in Statuses \cup {-1, Garbage} /\ Statuses \subseteq Int
    BY <1>1 DEF TypeOK
  <2>2. Garbage \in Int /\ -1 \in Int
    BY DEF Garbage
  <2> QED BY Zenon, <2>1, <2>2
<1>5. TypeOK'
  <2>1. record[arg[p]] \in child_process_elem
    BY <1>1
  <2>2. record' = [record EXCEPT ![arg[p]] = [record[arg[p]] EXCEPT !.wait_barrier = 0]]
    BY <1>1, <1>2, <1>3, <1>4 DEF wait_return, Returns
  <2>3. record' \in [Tids -> child_process_elem]
    <3>1. [record[arg[p]] EXCEPT !.wait_barrier = 0] \in child_process_elem
      <4>1. 0 \in 0 .. 1
        OBVIOUS
      <4> QED BY Zenon, <2>1, <4>1, RecordUpdates
    <3> QED BY Zenon, <2>2, <3>1 DEF TypeOK
  <2> QED BY <1>1, <1>2, <1>3, <1>4, <2>3 DEF wait_return, Returns, TypeOK, Places
<1>6. (TidsInv /\ BlockedInv /\ LoadInv /\ FreedInv /\ BarrierInv)'
  BY <1>1, <1>2, <1>3, <1>4 DEF wait_return, Returns, TidsInv, TypeOK, Returned,
     BlockedInv, BarrierInv, RecordInv, child_process_elem, LoadInv, FreedInv
<1>7. RecordInv'
  BY <1>1, <1>2, <1>3, <1>4 DEF wait_return, Returns, RecordInv, TypeOK, TidsInv
<1>8. (WaitedInv /\ ExecedInv /\ WaitStatus /\ ExecReports)'
  BY <1>1, <1>2, <1>3, <1>4 DEF wait_return, Returns, WaitedInv, TypeOK, TidsInv,
     BarrierInv, BlockedInv, ExecedInv, WaitStatus, RecordInv, child_process_elem,
     ExecReports
<1> QED BY <1>5, <1>6, <1>7, <1>8

\* A process that finds no parent has no record, so the status it does not store is
\* not missed.
LEMMA Step_exit_check ==
  ASSUME IInv, NEW p \in Tids, exit_check(p)
  PROVE  IInv'
<1> USE ProcessAssumption DEF ProcessAssumption, Tids, Main, NoTid, IInv,
        Loading, Live, Leaving, Left, Signalled
<1>1. TypeOK'
  BY DEF exit_check, thread_exist, TypeOK, Places
<1>2. TidsInv'
  BY DEF exit_check, thread_exist, TidsInv, TypeOK, Returned
<1>3. BlockedInv'
  BY DEF exit_check, thread_exist, BlockedInv, TypeOK, TidsInv
<1>4. LoadInv'
  BY DEF exit_check, thread_exist, LoadInv, TypeOK, TidsInv
<1>5. FreedInv'
  BY DEF exit_check, thread_exist, FreedInv, TypeOK, TidsInv
<1>6. BarrierInv'
  BY Zenon DEF exit_check, thread_exist, BarrierInv, TypeOK, TidsInv
<1>7. RecordInv'
  BY DEF exit_check, thread_exist, RecordInv, TypeOK, TidsInv, FreedInv, LoadInv
<1>8. (WaitedInv /\ ExecedInv /\ WaitStatus /\ ExecReports)'
  BY DEF exit_check, thread_exist, WaitedInv, TypeOK, TidsInv, ExecedInv, WaitStatus,
     ExecReports
<1> QED BY <1>1, <1>2, <1>3, <1>4, <1>5, <1>6, <1>7, <1>8

\* The status stored is the one the process ended with.
LEMMA Step_exit_set ==
  ASSUME IInv, NEW p \in Tids, exit_set(p)
  PROVE  IInv'
<1> USE ProcessAssumption DEF ProcessAssumption, Tids, Main, NoTid, IInv,
        Loading, Live, Leaving, Left, Signalled
<1>1. TypeOK'
  <2>1. record[p] \in child_process_elem
    BY DEF TypeOK
  <2>2. record' \in {record, [record EXCEPT ![p] = [record[p] EXCEPT !.status = code[p], !.exit = TRUE]]}
    BY DEF exit_set, Update
  <2>3. record' \in [Tids -> child_process_elem]
    <3>1. code[p] \in Statuses \cup {-1, Garbage}
      BY DEF TypeOK
    <3>2. [record[p] EXCEPT !.status = code[p], !.exit = TRUE] \in child_process_elem
      BY Zenon, <2>1, <3>1, RecordUpdates
    <3> QED BY ZenonT(60), <2>2, <3>2 DEF TypeOK
  <2> QED BY <2>3 DEF exit_set, Update, TypeOK, Places
<1>2. (TidsInv /\ BlockedInv /\ LoadInv /\ FreedInv /\ BarrierInv)'
  BY DEF exit_set, Update, TidsInv, TypeOK, Returned, BlockedInv, LoadInv, FreedInv,
     BarrierInv
<1>3. RecordInv'
  BY DEF exit_set, Update, RecordInv, TypeOK, TidsInv
<1>4. (WaitedInv /\ ExecedInv /\ WaitStatus /\ ExecReports)'
  BY DEF exit_set, Update, WaitedInv, TypeOK, TidsInv, ExecedInv, WaitStatus,
     ExecReports
<1> QED BY <1>1, <1>2, <1>3, <1>4

\* A parent that frees the records of its children is in no exec, so none of the
\* children is loading.
LEMMA Step_free_children ==
  ASSUME IInv, NEW p \in Tids, free_children(p)
  PROVE  IInv'
<1> USE ProcessAssumption DEF ProcessAssumption, Tids, Main, NoTid, IInv,
        Loading, Live, Leaving, Left, Signalled
<1>1. \/ child_process_list(p) = {} /\ pc' = [pc EXCEPT ![p] = "signal"] /\ UNCHANGED allocated
      \/ \E f \in child_process_list(p) : allocated' = allocated \ {f} /\ UNCHANGED pc
  <2> DEFINE list == child_process_list(p)
             first == CHOOSE c \in list : \A d \in list : c <= d
  <2>1. list \subseteq Nat
    <3>1. list \subseteq Tids
      BY Zenon DEF child_process_list, TypeOK
    <3> QED BY <3>1
  <2>2. CASE list = {}
    BY <2>2 DEF free_children
  <2>3. CASE list # {}
    <3>1. first \in list
      <4> HIDE DEF list
      <4> QED BY Zenon, <2>1, <2>3, SmallestTid
    <3>2. allocated' = allocated \ {first} /\ UNCHANGED pc
      BY <2>3 DEF free_children
    <3> QED BY Zenon, <3>1, <3>2
  <2> QED BY <2>2, <2>3
<1>2. /\ allocated' \subseteq allocated
      /\ \A c \in allocated : parent[c] # p => c \in allocated'
      /\ \/ pc' = pc
         \/ pc' = [pc EXCEPT ![p] = "signal"] /\ \A c \in allocated : parent[c] # p
  BY <1>1 DEF child_process_list
<1>3. pc[p] = "free" /\ UNCHANGED <<arg, code, next_tid, parent, record, ended, ret>>
  BY DEF free_children
<1>4. TypeOK'
  BY <1>2, <1>3 DEF TypeOK, Places
<1>5. TidsInv'
  BY <1>2, <1>3 DEF TidsInv, TypeOK, Returned
<1>6. BlockedInv'
  BY <1>2, <1>3 DEF BlockedInv, TypeOK, TidsInv
<1>7. LoadInv'
  BY <1>2, <1>3 DEF LoadInv, TypeOK, TidsInv
<1>8. FreedInv'
  BY <1>2, <1>3 DEF FreedInv, TypeOK, TidsInv
<1>9. BarrierInv'
  BY <1>2, <1>3 DEF BarrierInv, TypeOK, TidsInv
<1>10. RecordInv'
  BY <1>2, <1>3 DEF RecordInv, TypeOK, TidsInv
<1>11. WaitedInv'
  BY <1>2, <1>3 DEF WaitedInv, TypeOK, TidsInv
<1>12. ExecedInv'
  BY <1>2, <1>3 DEF ExecedInv, TypeOK, TidsInv
<1>13. WaitStatus'
  BY <1>2, <1>3 DEF WaitStatus, TypeOK, TidsInv
<1>14. ExecReports'
  BY <1>2, <1>3 DEF ExecReports, ExecedInv, TypeOK, TidsInv
<1> QED BY <1>4, <1>5, <1>6, <1>7, <1>8, <1>9, <1>10, <1>11, <1>12, <1>13, <1>14

\* The barrier is raised once, by a process that has no more children on its list.
LEMMA Step_signal ==
  ASSUME IInv, NEW p \in Tids, signal(p)
  PROVE  IInv'
<1> USE ProcessAssumption DEF ProcessAssumption, Tids, Main, NoTid, IInv,
        Loading, Live, Leaving, Left, Signalled
<1>1. TypeOK'
  <2>1. record[p] \in child_process_elem
    BY DEF TypeOK
  <2>2. record' \in {record, [record EXCEPT ![p] = [record[p] EXCEPT !.wait_barrier = 1]]}
    <3>1. record[p].wait_barrier + 1 = 1
      BY DEF signal, BarrierInv
    <3> QED BY Zenon, <3>1 DEF signal, Update
  <2>3. record' \in [Tids -> child_process_elem]
    <3>1. [record[p] EXCEPT !.wait_barrier = 1] \in child_process_elem
      <4>1. 1 \in 0 .. 1
        OBVIOUS
      <4> QED BY Zenon, <2>1, <4>1, RecordUpdates
    <3> QED BY ZenonT(60), <2>2, <3>1 DEF TypeOK
  <2> QED BY <2>3 DEF signal, Update, TypeOK, Places
<1>2. (TidsInv /\ BlockedInv /\ LoadInv /\ FreedInv /\ BarrierInv)'
  BY DEF signal, Update, TidsInv, TypeOK, Returned, BlockedInv, LoadInv, FreedInv,
     BarrierInv
<1>3. RecordInv'
  BY DEF signal, Update, RecordInv, TypeOK, TidsInv
<1>4. (WaitedInv /\ ExecedInv /\ WaitStatus /\ ExecReports)'
  BY DEF signal, Update, WaitedInv, TypeOK, TidsInv, ExecedInv, WaitStatus, ExecReports
<1> QED BY <1>1, <1>2, <1>3, <1>4

\* From here on only the place of the process changes.
LEMMA Step_close_all ==
  ASSUME IInv, NEW p \in Tids, close_all(p)
  PROVE  IInv'
<1> USE ProcessAssumption DEF ProcessAssumption, Tids, Main, NoTid, IInv,
        Loading, Live, Leaving, Left, Signalled
<1>1. TypeOK'
  BY DEF close_all, TypeOK, Places
<1>2. (TidsInv /\ BlockedInv /\ LoadInv /\ FreedInv /\ BarrierInv)'
  BY DEF close_all, TidsInv, TypeOK, Returned, BlockedInv, LoadInv, FreedInv, BarrierInv
<1>3. RecordInv'
  BY DEF close_all, RecordInv, TypeOK, TidsInv
<1>4. (WaitedInv /\ ExecedInv /\ WaitStatus /\ ExecReports)'
  BY DEF close_all, WaitedInv, TypeOK, TidsInv, ExecedInv, WaitStatus, ExecReports
<1> QED BY <1>1, <1>2, <1>3, <1>4

\* The end of the thread changes nothing a parent may look at.
LEMMA Step_die ==
  ASSUME IInv, NEW p \in Tids, die(p)
  PROVE  IInv'
<1> USE ProcessAssumption DEF ProcessAssumption, Tids, Main, NoTid, IInv,
        Loading, Live, Leaving, Left, Signalled
<1>1. TypeOK'
  BY DEF die, TypeOK, Places
<1>2. (TidsInv /\ BlockedInv /\ LoadInv /\ FreedInv /\ BarrierInv)'
  BY DEF die, TidsInv, TypeOK, Returned, BlockedInv, LoadInv, FreedInv, BarrierInv
<1>3. RecordInv'
  BY DEF die, RecordInv, TypeOK, TidsInv
<1>4. (WaitedInv /\ ExecedInv /\ WaitStatus /\ ExecReports)'
  BY DEF die, WaitedInv, TypeOK, TidsInv, ExecedInv, WaitStatus, ExecReports
<1> QED BY <1>1, <1>2, <1>3, <1>4

\* A parent blocks on the record of a child of its own.
LEMMA Step_process_wait ==
  ASSUME IInv, NEW p \in Tids, NEW c \in Tids, process_wait(p, c)
  PROVE  IInv'
<1> USE ProcessAssumption DEF ProcessAssumption, Tids, Main, NoTid, IInv,
        Loading, Live, Leaving, Left, Signalled
<1>1. TypeOK'
  <2>1. record[c] \in child_process_elem
    BY DEF TypeOK
  <2>2. record' = [record EXCEPT ![c] = [record[c] EXCEPT !.process_wait = TRUE]]
    BY DEF process_wait, child_process_list
  <2>3. record' \in [Tids -> child_process_elem]
    BY Zenon, <2>1, <2>2, RecordUpdates DEF TypeOK
  <2> QED BY <2>3 DEF process_wait, child_process_list, TypeOK, Places
<1>2. (TidsInv /\ BlockedInv /\ LoadInv /\ FreedInv /\ BarrierInv)'
  BY DEF process_wait, child_process_list, TidsInv, TypeOK, Returned, BlockedInv,
     LoadInv, FreedInv, BarrierInv
<1>3. RecordInv'
  BY DEF process_wait, child_process_list, RecordInv, TypeOK, TidsInv
<1>4. (WaitedInv /\ ExecedInv /\ WaitStatus /\ ExecReports)'
  BY DEF process_wait, child_process_list, WaitedInv, TypeOK, TidsInv, ExecedInv,
     WaitStatus, ExecReports
<1> QED BY <1>1, <1>2, <1>3, <1>4

\* A refused wait returns -1 and changes no record.
LEMMA Step_wait_refused ==
  ASSUME IInv, NEW p \in Tids, NEW c \in Tids, wait_refused(p, c)
  PROVE  IInv'
<1> USE ProcessAssumption DEF ProcessAssumption, Tids, Main, NoTid, IInv,
        Loading, Live, Leaving, Left, Signalled
<1>1. TypeOK'
  BY DEF wait_refused, Returns, child_process_list, TypeOK, Places
<1>2. TidsInv'
  BY DEF wait_refused, Returns, child_process_list, TidsInv, TypeOK, Returned
<1>3. BlockedInv'
  BY DEF wait_refused, Returns, child_process_list, BlockedInv, TypeOK, TidsInv
<1>4. LoadInv'
  BY DEF wait_refused, Returns, child_process_list, LoadInv, TypeOK, TidsInv
<1>5. FreedInv'
  BY DEF wait_refused, Returns, child_process_list, FreedInv, TypeOK, TidsInv
<1>6. BarrierInv'
  BY DEF wait_refused, Returns, child_process_list, BarrierInv, TypeOK, TidsInv
<1>7. RecordInv'
  BY DEF wait_refused, Returns, child_process_list, RecordInv, TypeOK, TidsInv
<1>8. (WaitedInv /\ ExecedInv /\ WaitStatus /\ ExecReports)'
  BY DEF wait_refused, Returns, child_process_list, WaitedInv, TypeOK, TidsInv,
     ExecedInv, WaitStatus, ExecReports
<1> QED BY <1>1, <1>2, <1>3, <1>4, <1>5, <1>6, <1>7, <1>8

\* A process that calls exit has not been waited for.
LEMMA Step_exit ==
  ASSUME IInv, NEW p \in Tids, NEW status \in Statuses, exit(p, status)
  PROVE  IInv'
<1> USE ProcessAssumption DEF ProcessAssumption, Tids, Main, NoTid, IInv,
        Loading, Live, Leaving, Left, Signalled
<1>1. TypeOK'
  BY DEF exit, TypeOK, Places
<1>2. TidsInv'
  BY DEF exit, TidsInv, TypeOK, Returned
<1>3. BlockedInv'
  BY DEF exit, BlockedInv, TypeOK, TidsInv
<1>4. LoadInv'
  BY DEF exit, LoadInv, TypeOK, TidsInv
<1>5. FreedInv'
  BY DEF exit, FreedInv, TypeOK, TidsInv
<1>6. BarrierInv'
  BY Zenon DEF exit, BarrierInv, TypeOK, TidsInv
<1>7. RecordInv'
  BY DEF exit, RecordInv, TypeOK, TidsInv
<1>8. WaitedInv'
  BY DEF exit, WaitedInv, TypeOK, TidsInv
<1>9. ExecedInv'
  BY DEF exit, ExecedInv, TypeOK, TidsInv
<1>10. WaitStatus'
  BY Zenon DEF exit, WaitStatus, TypeOK, TidsInv, WaitedInv
<1>11. ExecReports'
  BY DEF exit, ExecReports, TypeOK, TidsInv, ExecedInv, RecordInv
<1> QED BY <1>1, <1>2, <1>3, <1>4, <1>5, <1>6, <1>7, <1>8, <1>9, <1>10, <1>11

\* A process that is killed ends with -1 and leaves exit unset.
LEMMA Step_kill ==
  ASSUME IInv, NEW p \in Tids, kill(p)
  PROVE  IInv'
<1> USE ProcessAssumption DEF ProcessAssumption, Tids, Main, NoTid, IInv,
        Loading, Live, Leaving, Left, Signalled
<1>1. TypeOK'
  BY DEF kill, TypeOK, Places
<1>2. TidsInv'
  BY DEF kill, TidsInv, TypeOK, Returned
<1>3. BlockedInv'
  BY DEF kill, BlockedInv, TypeOK, TidsInv
<1>4. LoadInv'
  BY DEF kill, LoadInv, TypeOK, TidsInv
<1>5. FreedInv'
  BY DEF kill, FreedInv, TypeOK, TidsInv
<1>6. BarrierInv'
  BY Zenon DEF kill, BarrierInv, TypeOK, TidsInv
<1>7. RecordInv'
  BY DEF kill, RecordInv, TypeOK, TidsInv
<1>8. (WaitedInv /\ ExecedInv /\ WaitStatus /\ ExecReports)'
  BY ZenonT(60) DEF kill, WaitedInv, TypeOK, TidsInv, ExecedInv, WaitStatus, ExecReports
<1> QED BY <1>1, <1>2, <1>3, <1>4, <1>5, <1>6, <1>7, <1>8

\* The inductive invariant holds at the start.
LEMMA IndInit == Init => IInv
<1> USE ProcessAssumption DEF ProcessAssumption, Tids, Main, NoTid, Init, IInv
<1> SUFFICES ASSUME Init PROVE IInv
  OBVIOUS
<1>1. TypeOK
  BY DEF TypeOK, Places, child_process_elem, create_child, NoReturn
<1>2. TidsInv
  BY DEF TidsInv, Returned, NoReturn
<1>3. BlockedInv /\ LoadInv /\ FreedInv
  BY DEF BlockedInv, LoadInv, FreedInv, Loading
<1>4. BarrierInv /\ RecordInv
  BY DEF BarrierInv, RecordInv, create_child, Leaving
<1>5. WaitedInv /\ ExecedInv /\ WaitStatus /\ ExecReports
  BY DEF WaitedInv, ExecedInv, WaitStatus, ExecReports, NoReturn
<1> QED BY <1>1, <1>2, <1>3, <1>4, <1>5

\* Steps of the rest of the system leave it alone.
LEMMA IndStutter == IInv /\ UNCHANGED vars => IInv'
BY DEF vars, IInv, TypeOK, TidsInv, BlockedInv, LoadInv, FreedInv, BarrierInv,
   RecordInv, WaitedInv, ExecedInv, WaitStatus, ExecReports, child_process_elem,
   Returned

\* The inductive invariant holds for any number of processes and any statuses.
THEOREM IndInvariant == Spec => []IInv
<1>1. IInv /\ [Next]_vars => IInv'
  <2> SUFFICES ASSUME IInv, [Next]_vars PROVE IInv'
    OBVIOUS
  <2>1. CASE run_task
    <3>1. Main \in Tids
      BY ProcessAssumption DEF Tids, Main, ProcessAssumption
    <3>2. pc[Main] = "run" /\ process_execute(Main, "run")
      BY <2>1 DEF run_task
    <3> QED BY <3>1, <3>2, Step_process_execute
  <2>2. ASSUME NEW p \in Tids, Kernel(p) PROVE IInv'
    BY <2>2, Step_load, Step_load_end, Step_exec_return, Step_wait_return,
       Step_exit_check, Step_exit_set, Step_free_children, Step_signal, Step_close_all,
       Step_die DEF Kernel
  <2>3. ASSUME NEW p \in Tids, Program(p) PROVE IInv'
    <3>1. CASE exec(p)
      BY <3>1, Step_process_execute DEF exec
    <3> QED
      BY <2>3, <3>1, Step_process_wait, Step_wait_refused, Step_exit,
         Step_kill DEF Program
  <2> QED BY <2>1, <2>2, <2>3, IndStutter DEF Next
<1> QED BY IndInit, <1>1, PTL DEF Spec

\* Every variable of the process model keeps its type; in particular no barrier of
\* process.c is ever raised twice.
THEOREM TypeCorrect == Spec => []TypeOK
<1>1. IInv => TypeOK
  BY DEF IInv
<1> QED BY IndInvariant, <1>1, PTL

\* load (process.c) never writes to a record its parent has freed.
THEOREM LoadSafe == Spec => []LoadOwnsRecord
<1>1. IInv => LoadOwnsRecord
  BY DEF IInv, LoadInv, LoadOwnsRecord, Loading
<1> QED BY IndInvariant, <1>1, PTL

\* process_wait returns the status the child passed to exit, and -1 for a child that
\* was killed, did not load or is not its own to wait for.
THEOREM WaitCorrect == Spec => []WaitStatus
<1>1. IInv => WaitStatus
  BY DEF IInv
<1> QED BY IndInvariant, <1>1, PTL

\* exec returns a pid only for a child that loaded, and -1 only for one that is on its
\* way out with status -1.
THEOREM ExecCorrect == Spec => []ExecReports
<1>1. IInv => ExecReports
  BY DEF IInv
<1> QED BY IndInvariant, <1>1, PTL
=============================================================================
