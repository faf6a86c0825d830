------------------------------ MODULE MCSynch ------------------------------
(***************************************************************************)
(* Instances of Synch for TLC.  Locks are interchangeable, and so are the  *)
(* threads that thread_create makes; the initial thread t1 is not.         *)
(***************************************************************************)
EXTENDS Synch, TLC
CONSTANTS t1, t2, t3, t4, l1, l2, l3, s1, c1
MCThreads2 == {t1, t2}
MCThreads3 == {t1, t2, t3}
MCThreads4 == {t1, t2, t3, t4}
MCCondLock == [c \in Conds |-> l1]
Symmetry == {f @@ g : f \in Permutations(Locks), g \in Permutations(Threads \ {Main})}
=============================================================================
