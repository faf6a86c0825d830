---------------------------- MODULE OrderedList ----------------------------
(***************************************************************************)
(* The two ordering operations of the kernel's doubly linked list that the *)
(* scheduler and the synchronization primitives rely on, on sequences      *)
(* without duplicates.  Every comparison function the code passes          *)
(* (thread.c: big, small; synch.c: lock_big, cond_big) compares one        *)
(* integer field, so a list is ordered by a key function, largest first.   *)
(***************************************************************************)
EXTENDS Integers, Sequences, FiniteSets, FiniteSetsExt

\* The operators on sequences that the lists need, defined here rather than taken
\* from SequencesExt, whose modules would weigh on every proof obligation.

\* e is on the list s.
Contains(s, e) == \E i \in 1..Len(s) : s[i] = e

\* x at place i of s, the rest behind it; and s without its place i.
InsertAt(s, i, x) ==
  [k \in 1..Len(s)+1 |-> IF k < i THEN s[k] ELSE IF k = i THEN x ELSE s[k-1]]
RemoveAt(s, i) == [k \in 1..Len(s)-1 |-> IF k < i THEN s[k] ELSE s[k+1]]

\* The insertion point: before the first element with a smaller key.
InsertPoint(s, x, key) ==
  LET Smaller == {i \in DOMAIN s : key[x] > key[s[i]]}
  IN  IF Smaller = {} THEN Len(s) + 1 ELSE Min(Smaller)

\* list_insert_ordered: equal keys stay first come, first served.
list_insert_ordered(s, x, key) == InsertAt(s, InsertPoint(s, x, key), x)

\* Position i is at or before position j in the stable descending order of s.
SortsBefore(s, key, i, j) ==
  \/ key[s[i]] > key[s[j]]
  \/ key[s[i]] = key[s[j]] /\ i <= j

\* How many positions sort at or before position j.
Rank(s, key, j) == Cardinality({i \in DOMAIN s : SortsBefore(s, key, i, j)})

\* list_sort: a stable merge sort, so the element of rank k ends at place k.
list_sort(s, key) ==
  [k \in 1..Len(s) |-> s[CHOOSE j \in DOMAIN s : Rank(s, key, j) = k]]

\* The position of x on s.
Place(s, x) == CHOOSE i \in DOMAIN s : s[i] = x

\* list_remove of x; nothing happens when x is not on the list.
list_remove(s, x) == IF Contains(s, x) THEN RemoveAt(s, Place(s, x)) ELSE s
=============================================================================
