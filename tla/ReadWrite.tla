----------------------------- MODULE ReadWrite -----------------------------
(***************************************************************************)
(* The readers/writer protocol of a cache block (cache.c: read_cache,      *)
(* end_read, write_cache, end_write), which inode.c repeats for an inode   *)
(* (read_inode, read_end, write_inode, write_end): a lock io, a count of   *)
(* readers and a condition variable read_end.  A reader holds io only to   *)
(* change the count, a writer for the whole write.                         *)
(*                                                                         *)
(* at[p] is where thread p is: "out", "reading", "waiting" (in cond_wait), *)
(* "woken" (signalled, not holding io again yet) or "writing".             *)
(***************************************************************************)
EXTENDS Naturals, FiniteSets

CONSTANTS Threads, Objects, NoThread

ASSUME ReadWriteAssumption == NoThread \notin Threads /\ IsFiniteSet(Threads)

VARIABLES
  io,        \* the thread that holds the lock io of each object
  read_cnt,
  read_end,  \* the threads that wait on the condition variable
  at, on     \* where each thread is, and with which object

rwVars == <<io, read_cnt, read_end, at, on>>

\* Every variable has its type.
RWTypeOK ==
  /\ io \in [Objects -> Threads \cup {NoThread}]
  /\ read_cnt \in [Objects -> Nat]
  /\ read_end \in [Objects -> SUBSET Threads]
  /\ at \in [Threads -> {"out", "reading", "waiting", "woken", "writing"}]
  /\ on \in [Threads -> Objects]

RWInit ==
  /\ io = [o \in Objects |-> NoThread]
  /\ read_cnt = [o \in Objects |-> 0]
  /\ read_end = [o \in Objects |-> {}]
  /\ at = [p \in Threads |-> "out"]
  /\ on \in [Threads -> Objects]

-----------------------------------------------------------------------------
\* cond_signal while p leaves: at most one waiter is taken off the list.
leave_signal(p, o) ==
  IF read_end[o] = {}
    THEN at' = [at EXCEPT ![p] = "out"] /\ UNCHANGED read_end
    ELSE \E w \in read_end[o] :
           /\ read_end' = [read_end EXCEPT ![o] = @ \ {w}]
           /\ at' = [at EXCEPT ![p] = "out", ![w] = "woken"]

\* Mutant: the reader is not counted.
read_cache_uncounted(p, o) ==
  /\ at[p] = "out" /\ io[o] = NoThread
  /\ at' = [at EXCEPT ![p] = "reading"]
  /\ on' = [on EXCEPT ![p] = o]
  /\ UNCHANGED <<io, read_cnt, read_end>>

\* read_cache: acquire io, count the reader, release io.
read_cache(p, o) ==
  /\ at[p] = "out" /\ io[o] = NoThread
  /\ read_cnt' = [read_cnt EXCEPT ![o] = @ + 1]
  /\ at' = [at EXCEPT ![p] = "reading"]
  /\ on' = [on EXCEPT ![p] = o]
  /\ UNCHANGED <<io, read_end>>

\* end_read: the last reader signals.
end_read(p) ==
  LET o == on[p]
  IN  /\ at[p] = "reading" /\ io[o] = NoThread
      /\ read_cnt' = [read_cnt EXCEPT ![o] = @ - 1]
      /\ IF read_cnt'[o] = 0 THEN leave_signal(p, o)
         ELSE at' = [at EXCEPT ![p] = "out"] /\ UNCHANGED read_end
      /\ UNCHANGED <<io, on>>

\* write_cache: acquire io, and keep it unless there are readers.
write_cache(p, o) ==
  /\ at[p] = "out" /\ io[o] = NoThread
  /\ on' = [on EXCEPT ![p] = o]
  /\ IF read_cnt[o] > 0
       THEN /\ read_end' = [read_end EXCEPT ![o] = @ \cup {p}]
            /\ at' = [at EXCEPT ![p] = "waiting"]
            /\ UNCHANGED io
       ELSE /\ io' = [io EXCEPT ![o] = p]
            /\ at' = [at EXCEPT ![p] = "writing"]
            /\ UNCHANGED read_end
  /\ UNCHANGED read_cnt

\* Mutant: cond_wait returns without the lock.
write_resume_unlocked(p) ==
  /\ at[p] = "woken" /\ io[on[p]] = NoThread
  /\ at' = [at EXCEPT ![p] = "writing"]
  /\ UNCHANGED <<io, read_cnt, read_end, on>>

\* The cond_wait of write_cache returns holding io; the code does not look at
\* read_cnt again.
write_resume(p) ==
  /\ at[p] = "woken" /\ io[on[p]] = NoThread
  /\ io' = [io EXCEPT ![on[p]] = p]
  /\ at' = [at EXCEPT ![p] = "writing"]
  /\ UNCHANGED <<read_cnt, read_end, on>>

\* Mutant: the writer leaves without a signal.
end_write_silent(p) ==
  LET o == on[p]
  IN  /\ at[p] = "writing"
      /\ at' = [at EXCEPT ![p] = "out"]
      /\ io' = [io EXCEPT ![o] = NoThread]
      /\ UNCHANGED <<read_cnt, read_end, on>>

\* end_write: signal, release io.
end_write(p) ==
  LET o == on[p]
  IN  /\ at[p] = "writing"
      /\ leave_signal(p, o)
      /\ io' = [io EXCEPT ![o] = NoThread]
      /\ UNCHANGED <<read_cnt, on>>

\* The protocol by itself: any thread may read or write any object.
RWNext ==
  \E p \in Threads :
    \/ \E o \in Objects : read_cache(p, o) \/ write_cache(p, o)
    \/ end_read(p) \/ write_resume(p) \/ end_write(p)

RWSpec == RWInit /\ [][RWNext]_rwVars

-----------------------------------------------------------------------------
Inside(o, phase) == {p \in Threads : on[p] = o /\ at[p] = phase}

\* The count that decides whether a writer waits is the number of readers, and
\* the lock is held by the one thread that writes.
CountsReaders ==
  \A o \in Objects :
    /\ read_cnt[o] = Cardinality(Inside(o, "reading"))
    /\ Inside(o, "writing") = IF io[o] = NoThread THEN {} ELSE {io[o]}
    /\ read_end[o] = Inside(o, "waiting")

\* No writer is left behind on the condition variable: while one waits, there
\* is a reader, or a woken or writing thread, that has yet to signal.
NoStuckWriter ==
  \A o \in Objects : read_end[o] # {} =>
    read_cnt[o] > 0 \/ Inside(o, "woken") \cup Inside(o, "writing") # {}

\* A writer is alone: write_cache waits for the readers to leave.
WriterAlone ==
  \A o \in Objects : Inside(o, "writing") # {} => Inside(o, "reading") = {}
=============================================================================
