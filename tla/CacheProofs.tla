---------------------------- MODULE CacheProofs ----------------------------
(***************************************************************************)
(* The readers/writer protocol and the buffer cache, for any numbers of    *)
(* threads, blocks, sectors and values:                                    *)
(*   - the protocol of ReadWrite keeps its count and forgets no writer, on *)
(*     objects that stay allocated;                                        *)
(*   - the list of the cache keeps to CACHE_SIZE, whatever its clients do; *)
(*   - with one client at a time, as file_lock makes it, the block a call  *)
(*     found or created stays the only one of its sector and on the list   *)
(*     until the call is over, and while the write-behind thread sleeps    *)
(*     the cache is the store of sectors of BlockStore.                    *)
(***************************************************************************)
EXTENDS Cache, FiniteSetTheorems, TLAPS

\* The provers for the steps that name none, in this order.
USE SMTT(20), Z3T(20), ZenonT(60)

-----------------------------------------------------------------------------
(********************* the readers/writer protocol *************************)

\* CountsReaders and NoStuckWriter together are inductive: that the last reader
\* sees the count reach 0 takes the first, that it then wakes a waiter the second.
RWInv == RWTypeOK /\ CountsReaders /\ NoStuckWriter

\* Adding and removing one thread changes the size of a set of threads by one.
LEMMA CountOne ==
  ASSUME NEW S \in SUBSET Threads, NEW p \in Threads
  PROVE  /\ Cardinality(S) \in Nat
         /\ p \notin S => Cardinality(S \cup {p}) = Cardinality(S) + 1
         /\ p \in S => /\ Cardinality(S \ {p}) = Cardinality(S) - 1
                       /\ Cardinality(S) > 0
<1>1. IsFiniteSet(S)
  BY FS_Subset, ReadWriteAssumption DEF ReadWriteAssumption
<1>2. Cardinality(S) \in Nat
  BY <1>1, FS_CardinalityType
<1>3. p \notin S => Cardinality(S \cup {p}) = Cardinality(S) + 1
  BY <1>1, FS_AddElement
<1>4. ASSUME p \in S
      PROVE  Cardinality(S \ {p}) = Cardinality(S) - 1 /\ Cardinality(S) > 0
  <2>1. Cardinality(S \ {p}) = Cardinality(S) - 1
    BY <1>1, <1>4, FS_RemoveElement
  <2>2. IsFiniteSet(S \ {p}) /\ Cardinality(S \ {p}) \in Nat
    BY <1>1, FS_Subset, FS_CardinalityType
  <2> QED BY <1>2, <2>1, <2>2
<1> QED BY <1>2, <1>3, <1>4

\* A reader that enters an object nobody writes is counted.
LEMMA ReadCacheStep ==
  ASSUME RWInv, NEW p \in Threads, NEW o \in Objects, read_cache(p, o)
  PROVE  RWInv'
<1> USE ReadWriteAssumption DEF ReadWriteAssumption, RWInv
<1>1. RWTypeOK'
  BY DEF RWTypeOK, read_cache
<1>2. /\ Inside(o, "reading")' = Inside(o, "reading") \cup {p}
      /\ p \notin Inside(o, "reading")
      /\ \A x \in Objects \ {o} : Inside(x, "reading")' = Inside(x, "reading")
      /\ \A x \in Objects : /\ Inside(x, "waiting")' = Inside(x, "waiting")
                            /\ Inside(x, "writing")' = Inside(x, "writing")
                            /\ Inside(x, "woken")' = Inside(x, "woken")
  BY DEF RWTypeOK, read_cache, Inside
<1>3. Inside(o, "reading") \in SUBSET Threads
  BY DEF Inside
<1>4. read_cnt'[o] = Cardinality(Inside(o, "reading")')
  BY <1>2, <1>3, CountOne DEF RWTypeOK, read_cache, CountsReaders
<1>5. CountsReaders'
  BY <1>2, <1>4 DEF RWTypeOK, read_cache, CountsReaders
<1>6. NoStuckWriter'
  BY <1>2 DEF RWTypeOK, read_cache, NoStuckWriter
<1> QED BY <1>1, <1>5, <1>6

\* A writer that finds readers waits behind at least one of them.
LEMMA WriteCacheStep ==
  ASSUME RWInv, NEW p \in Threads, NEW o \in Objects, write_cache(p, o)
  PROVE  RWInv'
<1> USE ReadWriteAssumption DEF ReadWriteAssumption, RWInv
<1>1. CASE read_cnt[o] > 0
  <2>1. RWTypeOK'
    BY <1>1 DEF RWTypeOK, write_cache
  <2>2. /\ Inside(o, "waiting")' = Inside(o, "waiting") \cup {p}
        /\ \A x \in Objects \ {o} : Inside(x, "waiting")' = Inside(x, "waiting")
        /\ \A x \in Objects : /\ Inside(x, "reading")' = Inside(x, "reading")
                              /\ Inside(x, "writing")' = Inside(x, "writing")
                              /\ Inside(x, "woken")' = Inside(x, "woken")
    BY <1>1 DEF RWTypeOK, write_cache, Inside
  <2>3. CountsReaders'
    <3>1. /\ read_cnt' = read_cnt /\ io' = io
          /\ read_end'[o] = read_end[o] \cup {p}
          /\ \A x \in Objects \ {o} : read_end'[x] = read_end[x]
      BY <1>1 DEF RWTypeOK, write_cache
    <3> QED BY Zenon, <2>2, <3>1 DEF CountsReaders
  <2>4. NoStuckWriter'
    BY <1>1, <2>2 DEF RWTypeOK, write_cache, NoStuckWriter
  <2> QED BY <2>1, <2>3, <2>4
<1>2. CASE ~(read_cnt[o] > 0)
  <2>1. RWTypeOK'
    BY <1>2 DEF RWTypeOK, write_cache
  <2>2. /\ Inside(o, "writing")' = Inside(o, "writing") \cup {p}
        /\ \A x \in Objects \ {o} : Inside(x, "writing")' = Inside(x, "writing")
        /\ \A x \in Objects : /\ Inside(x, "reading")' = Inside(x, "reading")
                              /\ Inside(x, "waiting")' = Inside(x, "waiting")
                              /\ Inside(x, "woken")' = Inside(x, "woken")
    BY <1>2 DEF RWTypeOK, write_cache, Inside
  <2>3. CountsReaders'
    BY <1>2, <2>2 DEF RWTypeOK, write_cache, CountsReaders
  <2>4. NoStuckWriter'
    BY <1>2, <2>2 DEF RWTypeOK, write_cache, NoStuckWriter
  <2> QED BY <2>1, <2>3, <2>4
<1> QED BY <1>1, <1>2

\* What cond_signal does as p leaves o: p goes out, and a waiter of o, if there is
\* one, goes from waiting to woken.
LEMMA LeaveSignal ==
  ASSUME RWInv, NEW p \in Threads, NEW o \in Objects, on[p] = o,
         at[p] \in {"reading", "writing"}, leave_signal(p, o), UNCHANGED on
  PROVE  /\ at' \in [Threads -> {"out", "reading", "waiting", "woken", "writing"}]
         /\ read_end' \in [Objects -> SUBSET Threads]
         /\ \A x \in Objects, l \in {"reading", "writing"} :
              Inside(x, l)' = Inside(x, l) \ {p}
         /\ \A x \in Objects : read_end'[x] = Inside(x, "waiting")'
         /\ \A x \in Objects \ {o} : /\ read_end'[x] = read_end[x]
                                     /\ Inside(x, "woken")' = Inside(x, "woken")
         /\ read_end'[o] # {} => Inside(o, "woken")' # {}
<1> USE DEF RWInv
<1>1. CASE read_end[o] = {}
  <2>1. at' = [at EXCEPT ![p] = "out"] /\ read_end' = read_end
    BY <1>1 DEF leave_signal
  <2>2. \A t \in Threads : at'[t] = IF t = p THEN "out" ELSE at[t]
    BY <2>1 DEF RWTypeOK
  <2>3. \A x \in Objects, l \in {"reading", "writing"} : Inside(x, l)' = Inside(x, l) \ {p}
    BY <2>2 DEF Inside
  <2>4. \A x \in Objects, l \in {"waiting", "woken"} : Inside(x, l)' = Inside(x, l)
    BY <2>2 DEF Inside
  <2> QED BY <1>1, <2>1, <2>3, <2>4 DEF RWTypeOK, CountsReaders
<1>2. CASE read_end[o] # {}
  <2>1. PICK w \in read_end[o] :
          /\ read_end' = [read_end EXCEPT ![o] = read_end[o] \ {w}]
          /\ at' = [at EXCEPT ![p] = "out", ![w] = "woken"]
    BY <1>2 DEF leave_signal
  <2>2. w \in Threads /\ on[w] = o /\ at[w] = "waiting" /\ w # p
    <3>1. w \in Inside(o, "waiting")
      BY <2>1 DEF CountsReaders
    <3> QED BY <3>1 DEF Inside
  <2>3. \A t \in Threads : at'[t] = IF t = p THEN "out" ELSE IF t = w THEN "woken" ELSE at[t]
    BY <2>1, <2>2 DEF RWTypeOK
  <2>4. /\ at' \in [Threads -> {"out", "reading", "waiting", "woken", "writing"}]
        /\ read_end' \in [Objects -> SUBSET Threads]
    BY <2>1, <2>2 DEF RWTypeOK
  <2>5. \A x \in Objects, l \in {"reading", "writing"} : Inside(x, l)' = Inside(x, l) \ {p}
    BY <2>2, <2>3 DEF Inside
  <2>6. \A x \in Objects : read_end'[x] = Inside(x, "waiting")'
    BY ZenonT(60), <2>1, <2>2, <2>3 DEF Inside, CountsReaders, RWTypeOK
  <2>7. \A x \in Objects \ {o} : /\ read_end'[x] = read_end[x]
                                 /\ Inside(x, "woken")' = Inside(x, "woken")
    BY <2>1, <2>2, <2>3 DEF Inside, RWTypeOK
  <2>8. w \in Inside(o, "woken")'
    BY <2>2, <2>3 DEF Inside
  <2> QED BY <2>4, <2>5, <2>6, <2>7, <2>8
<1> QED BY <1>1, <1>2

\* The last reader to leave wakes a writer; another one leaves a reader behind.
LEMMA EndReadStep ==
  ASSUME RWInv, NEW p \in Threads, end_read(p)
  PROVE  RWInv'
<1> USE ReadWriteAssumption DEF ReadWriteAssumption, RWInv
<1> DEFINE o == on[p]
<1>1. /\ o \in Objects /\ at[p] = "reading" /\ UNCHANGED <<io, on>>
      /\ p \in Inside(o, "reading") /\ io[o] = NoThread
      /\ read_cnt' = [read_cnt EXCEPT ![o] = read_cnt[o] - 1]
  BY DEF end_read, RWTypeOK, Inside
<1>2. \A x \in Objects : Inside(x, "reading") \in SUBSET Threads
  BY DEF Inside
<1>3. /\ read_cnt[o] > 0 /\ read_cnt' \in [Objects -> Nat]
      /\ read_cnt'[o] = Cardinality(Inside(o, "reading") \ {p})
      /\ \A x \in Objects \ {o} : read_cnt'[x] = read_cnt[x]
  <2>1. Cardinality(Inside(o, "reading")) > 0 /\ Cardinality(Inside(o, "reading")) \in Nat
        /\ Cardinality(Inside(o, "reading") \ {p}) = Cardinality(Inside(o, "reading")) - 1
    BY Zenon, <1>1, <1>2, CountOne
  <2>2. read_cnt[o] = Cardinality(Inside(o, "reading"))
    BY <1>1 DEF CountsReaders
  <2> QED BY <1>1, <2>1, <2>2 DEF RWTypeOK
<1>4. CASE read_cnt'[o] = 0
  <2>1. leave_signal(p, o)
    BY <1>4 DEF end_read
  <2>2. /\ at' \in [Threads -> {"out", "reading", "waiting", "woken", "writing"}]
        /\ read_end' \in [Objects -> SUBSET Threads]
        /\ \A x \in Objects, l \in {"reading", "writing"} : Inside(x, l)' = Inside(x, l) \ {p}
        /\ \A x \in Objects : read_end'[x] = Inside(x, "waiting")'
        /\ \A x \in Objects \ {o} : /\ read_end'[x] = read_end[x]
                                    /\ Inside(x, "woken")' = Inside(x, "woken")
        /\ read_end'[o] # {} => Inside(o, "woken")' # {}
    BY <1>1, <2>1, LeaveSignal
  <2>3. \A x \in Objects : /\ x # o => p \notin Inside(x, "reading")
                           /\ p \notin Inside(x, "writing")
    BY <1>1 DEF Inside
  <2>4. RWTypeOK'
    BY <1>1, <1>3, <2>2 DEF RWTypeOK
  <2>5. CountsReaders'
    <3> SUFFICES ASSUME NEW x \in Objects
                 PROVE  /\ read_cnt'[x] = Cardinality(Inside(x, "reading")')
                        /\ Inside(x, "writing")' = IF io'[x] = NoThread THEN {} ELSE {io'[x]}
                        /\ read_end'[x] = Inside(x, "waiting")'
      BY DEF CountsReaders
    <3>1. /\ read_cnt[x] = Cardinality(Inside(x, "reading"))
          /\ Inside(x, "writing") = IF io[x] = NoThread THEN {} ELSE {io[x]}
          /\ read_end[x] = Inside(x, "waiting")
      BY DEF CountsReaders
    <3>2. CASE x = o
      BY ZenonT(60), <1>1, <1>3, <2>2, <2>3, <3>1, <3>2
    <3>3. CASE x # o
      <4>1. Inside(x, "reading")' = Inside(x, "reading")
        <5>1. Inside(x, "reading")' = Inside(x, "reading") \ {p}
          BY <2>2
        <5>2. p \notin Inside(x, "reading")
          BY <2>3, <3>3
        <5> QED BY <5>1, <5>2
      <4>2. Inside(x, "writing")' = Inside(x, "writing")
        <5>1. Inside(x, "writing")' = Inside(x, "writing") \ {p}
          BY <2>2
        <5>2. p \notin Inside(x, "writing")
          BY <2>3
        <5> QED BY <5>1, <5>2
      <4> QED BY <1>1, <1>3, <2>2, <3>1, <3>3, <4>1, <4>2
    <3> QED BY <3>2, <3>3
  <2>6. NoStuckWriter'
    BY <1>1, <1>3, <2>2, <2>3 DEF NoStuckWriter
  <2> QED BY <2>4, <2>5, <2>6
<1>5. CASE read_cnt'[o] # 0
  <2>1. at' = [at EXCEPT ![p] = "out"] /\ UNCHANGED read_end
    BY <1>5 DEF end_read
  <2>2. /\ Inside(o, "reading")' = Inside(o, "reading") \ {p}
        /\ \A x \in Objects \ {o} : Inside(x, "reading")' = Inside(x, "reading")
        /\ \A x \in Objects : /\ Inside(x, "writing")' = Inside(x, "writing")
                              /\ Inside(x, "waiting")' = Inside(x, "waiting")
                              /\ Inside(x, "woken")' = Inside(x, "woken")
    BY <1>1, <2>1 DEF Inside, RWTypeOK
  <2>3. RWTypeOK'
    BY <1>1, <1>3, <2>1 DEF RWTypeOK
  <2>4. CountsReaders'
    <3> SUFFICES ASSUME NEW x \in Objects
                 PROVE  /\ read_cnt'[x] = Cardinality(Inside(x, "reading")')
                        /\ Inside(x, "writing")' = IF io'[x] = NoThread THEN {} ELSE {io'[x]}
                        /\ read_end'[x] = Inside(x, "waiting")'
      BY DEF CountsReaders
    <3>1. /\ read_cnt[x] = Cardinality(Inside(x, "reading"))
          /\ Inside(x, "writing") = IF io[x] = NoThread THEN {} ELSE {io[x]}
          /\ read_end[x] = Inside(x, "waiting")
      BY DEF CountsReaders
    <3>2. CASE x = o
      BY Zenon, <1>1, <1>3, <2>1, <2>2, <3>1, <3>2
    <3>3. CASE x # o
      BY ZenonT(60), <1>1, <1>3, <2>1, <2>2, <3>1, <3>3
    <3> QED BY <3>2, <3>3
  <2>5. NoStuckWriter'
    <3>1. read_cnt'[o] > 0
      <4>1. read_cnt'[o] \in Nat
        BY <1>1, <1>3
      <4> QED BY <1>5, <4>1
    <3> QED BY <1>1, <1>3, <2>1, <2>2, <3>1 DEF NoStuckWriter
  <2> QED BY <2>3, <2>4, <2>5
<1> QED BY <1>4, <1>5

\* A woken writer gets io, which nobody holds.
LEMMA WriteResumeStep ==
  ASSUME RWInv, NEW p \in Threads, write_resume(p)
  PROVE  RWInv'
<1> USE ReadWriteAssumption DEF ReadWriteAssumption, RWInv
<1> DEFINE o == on[p]
<1>1. RWTypeOK' /\ o \in Objects
  BY DEF RWTypeOK, write_resume
<1>2. /\ Inside(o, "writing")' = Inside(o, "writing") \cup {p}
      /\ \A x \in Objects \ {o} : /\ Inside(x, "writing")' = Inside(x, "writing")
                                  /\ Inside(x, "woken")' = Inside(x, "woken")
      /\ \A x \in Objects : /\ Inside(x, "reading")' = Inside(x, "reading")
                            /\ Inside(x, "waiting")' = Inside(x, "waiting")
  BY DEF RWTypeOK, write_resume, Inside
<1>3. CountsReaders'
  BY <1>1, <1>2 DEF RWTypeOK, write_resume, CountsReaders
<1>4. NoStuckWriter'
  BY <1>1, <1>2 DEF RWTypeOK, write_resume, NoStuckWriter
<1> QED BY <1>1, <1>3, <1>4

\* The writer releases io and passes the signal on.
LEMMA EndWriteStep ==
  ASSUME RWInv, NEW p \in Threads, end_write(p)
  PROVE  RWInv'
<1> USE ReadWriteAssumption DEF ReadWriteAssumption, RWInv
<1> DEFINE o == on[p]
<1>1. /\ o \in Objects /\ at[p] = "writing" /\ UNCHANGED <<read_cnt, on>>
      /\ io' = [io EXCEPT ![o] = NoThread] /\ leave_signal(p, o)
  BY DEF end_write, RWTypeOK
<1>2. /\ at' \in [Threads -> {"out", "reading", "waiting", "woken", "writing"}]
      /\ read_end' \in [Objects -> SUBSET Threads]
      /\ \A x \in Objects, l \in {"reading", "writing"} : Inside(x, l)' = Inside(x, l) \ {p}
      /\ \A x \in Objects : read_end'[x] = Inside(x, "waiting")'
      /\ \A x \in Objects \ {o} : /\ read_end'[x] = read_end[x]
                                  /\ Inside(x, "woken")' = Inside(x, "woken")
      /\ read_end'[o] # {} => Inside(o, "woken")' # {}
  BY <1>1, LeaveSignal
<1>3. /\ p \in Inside(o, "writing")
      /\ \A x \in Objects : /\ x # o => p \notin Inside(x, "writing")
                            /\ p \notin Inside(x, "reading")
  BY <1>1 DEF Inside
<1>4. Inside(o, "writing") = {p}
  BY <1>1, <1>3 DEF CountsReaders
<1>5. RWTypeOK'
  BY Zenon, <1>1, <1>2 DEF RWTypeOK
<1>6. CountsReaders'
  <2> SUFFICES ASSUME NEW x \in Objects
               PROVE  /\ read_cnt'[x] = Cardinality(Inside(x, "reading")')
                      /\ Inside(x, "writing")' = IF io'[x] = NoThread THEN {} ELSE {io'[x]}
                      /\ read_end'[x] = Inside(x, "waiting")'
    BY DEF CountsReaders
  <2>1. /\ read_cnt[x] = Cardinality(Inside(x, "reading"))
        /\ Inside(x, "writing") = IF io[x] = NoThread THEN {} ELSE {io[x]}
        /\ read_end[x] = Inside(x, "waiting")
    BY DEF CountsReaders
  <2>2. CASE x = o
    BY <1>1, <1>2, <1>3, <1>4, <2>1, <2>2 DEF RWTypeOK
  <2>3. CASE x # o
    <3>1. Inside(x, "writing")' = Inside(x, "writing")
      <4>1. Inside(x, "writing")' = Inside(x, "writing") \ {p}
        BY <1>2
      <4>2. p \notin Inside(x, "writing")
        BY <1>3, <2>3
      <4> QED BY <4>1, <4>2
    <3>2. Inside(x, "reading")' = Inside(x, "reading")
      <4>1. Inside(x, "reading")' = Inside(x, "reading") \ {p}
        BY <1>2
      <4>2. p \notin Inside(x, "reading")
        BY <1>3
      <4> QED BY <4>1, <4>2
    <3>3. io'[x] = io[x] /\ read_cnt'[x] = read_cnt[x]
      BY <1>1, <2>3 DEF RWTypeOK
    <3> QED BY <1>2, <2>1, <3>1, <3>2, <3>3
  <2> QED BY <2>2, <2>3
<1>7. NoStuckWriter'
  BY <1>1, <1>2, <1>3 DEF NoStuckWriter
<1> QED BY <1>5, <1>6, <1>7

\* The count that decides whether write_cache and write_inode wait is the number of
\* readers, io is held by the one writer, and a writer that waits is always behind a
\* thread that has yet to signal, for any number of threads.
THEOREM ProtocolCorrect == RWSpec => [](CountsReaders /\ NoStuckWriter)
<1>1. RWInit => RWInv
  <2> SUFFICES ASSUME RWInit PROVE RWInv
    OBVIOUS
  <2>1. \A o \in Objects, l \in {"reading", "writing", "waiting"} : Inside(o, l) = {}
    BY DEF RWInit, Inside
  <2>2. CountsReaders
    BY <2>1, FS_EmptySet DEF RWInit, CountsReaders
  <2> QED BY <2>2 DEF RWInit, RWInv, RWTypeOK, NoStuckWriter
<1>2. RWInv /\ [RWNext]_rwVars => RWInv'
  <2> SUFFICES ASSUME RWInv, [RWNext]_rwVars PROVE RWInv'
    OBVIOUS
  <2>1. CASE RWNext
    BY <2>1, ReadCacheStep, WriteCacheStep, EndReadStep, WriteResumeStep, EndWriteStep
       DEF RWNext
  <2>2. CASE UNCHANGED rwVars
    BY <2>2 DEF rwVars, RWInv, RWTypeOK, CountsReaders, NoStuckWriter, Inside
  <2> QED BY <2>1, <2>2
<1>3. RWInv => CountsReaders /\ NoStuckWriter
  BY DEF RWInv
<1> QED BY <1>1, <1>2, <1>3, PTL DEF RWSpec

\* A writer that waits for the readers to leave is behind one that is still inside,
\* or a thread has been woken or is writing, for any number of threads.
THEOREM WritersWake == RWSpec => []NoStuckWriter
BY ProtocolCorrect, PTL

-----------------------------------------------------------------------------
(*************************** the cache's list ******************************)

\* The two ways to say that e is on a list.
LEMMA RangeContains ==
  ASSUME NEW S, NEW s \in Seq(S), NEW e
  PROVE  e \in Range(s) <=> Contains(s, e)
BY DEF Range, Contains

\* A nonempty set of natural numbers has a least element.
LEMMA LeastNat ==
  ASSUME NEW T \in SUBSET Nat, T # {}
  PROVE  /\ Min(T) \in T
         /\ \A n \in T : Min(T) <= n
<1>1. PICK m \in T : \A n \in T : ~(<<n, m>> \in OpToRel(<, Nat))
  BY NatLessThanWellFounded, WFMin
<1>2. ASSUME NEW n \in T PROVE m <= n
  <2>1. CASE n < m
    <3>1. <<n, m>> \in OpToRel(<, Nat)
      BY <2>1, <<n, m>>[1] < <<n, m>>[2], <<n, m>> \in Nat \X Nat DEF OpToRel
    <3> QED BY <1>1, <3>1
  <2> QED BY <2>1
<1> QED
  BY <1>1, <1>2 DEF Min

\* What is on a list without duplicates after the removal of its i-th element.
LEMMA RemoveOnce ==
  ASSUME NEW S, NEW s \in Seq(S), NEW i \in 1 .. Len(s),
         IsInjective(s)
  PROVE  /\ RemoveAt(s, i) \in Seq(S)
         /\ IsInjective(RemoveAt(s, i))
         /\ \A e : Contains(RemoveAt(s, i), e) <=> Contains(s, e) /\ e # s[i]
<1> DEFINE r == RemoveAt(s, i)
<1>7. r \in Seq(S) /\ Len(r) = Len(s) - 1 /\ DOMAIN r = 1 .. Len(s) - 1
  BY DEF RemoveAt
<1>8. \A k \in 1 .. Len(s) - 1 : r[k] = IF k < i THEN s[k] ELSE s[k + 1]
  BY DEF RemoveAt
<1> HIDE DEF r
<1>9. IsInjective(r)
  <2> DEFINE old(n) == IF n < i THEN n ELSE n + 1
  <2>1. ASSUME NEW j \in 1 .. Len(s) - 1, NEW k \in 1 .. Len(s) - 1, r[j] = r[k]
        PROVE  j = k
    <3>1. /\ old(j) \in 1 .. Len(s) /\ r[j] = s[old(j)]
          /\ old(k) \in 1 .. Len(s) /\ r[k] = s[old(k)]
      BY <1>8
    <3> HIDE DEF old
    <3>2. \A m, n \in 1 .. Len(s) : s[m] = s[n] => m = n
      BY DEF IsInjective
    <3>3. old(j) = old(k)
      BY Zenon, <2>1, <3>1, <3>2
    <3> USE DEF old
    <3> QED BY <3>3
  <2> QED BY <1>7, <2>1 DEF IsInjective
<1>10. ASSUME NEW e, Contains(s, e), e # s[i] PROVE Contains(r, e)
  <2>1. PICK k \in 1 .. Len(s) : s[k] = e
    BY <1>10 DEF Contains
  <2>2. k # i
    BY <1>10, <2>1
  <2>3. CASE k < i
    BY <2>1, <2>3, <1>7, <1>8 DEF Contains
  <2>4. CASE k > i
    <3>1. k - 1 \in 1 .. Len(s) - 1 /\ ~(k - 1 < i) /\ (k - 1) + 1 = k
      BY <2>4
    <3>2. r[k - 1] = e
      BY <2>1, <3>1, <1>8
    <3> QED BY <3>1, <3>2, <1>7 DEF Contains
  <2> QED BY <2>2, <2>3, <2>4
<1>11. ASSUME NEW e, Contains(r, e) PROVE Contains(s, e) /\ e # s[i]
  <2>1. PICK k \in 1 .. Len(s) - 1 : r[k] = e
    BY <1>7, <1>11 DEF Contains
  <2>2. PICK n \in 1 .. Len(s) : s[n] = e /\ n # i
    <3>2. CASE k < i
      BY <2>1, <3>2, <1>8
    <3>3. CASE ~(k < i)
      BY <2>1, <3>3, <1>8
    <3> QED BY <3>2, <3>3
  <2>3. e # s[i]
    BY <2>2 DEF IsInjective
  <2> QED BY <2>2, <2>3 DEF Contains
<1> QED BY <1>7, <1>9, <1>10, <1>11 DEF r

\* list_remove of an element that is on such a list, or is not.
LEMMA ListRemoveOnce ==
  ASSUME NEW S, NEW s \in Seq(S), NEW x, IsInjective(s)
  PROVE  /\ list_remove(s, x) \in Seq(S)
         /\ IsInjective(list_remove(s, x))
         /\ \A e : Contains(list_remove(s, x), e) <=> Contains(s, e) /\ e # x
<1>1. CASE ~Contains(s, x)
  BY <1>1 DEF list_remove
<1>2. CASE Contains(s, x)
  <2>1. Place(s, x) \in 1 .. Len(s) /\ s[Place(s, x)] = x
    BY <1>2 DEF Place, Contains
  <2>2. list_remove(s, x) = RemoveAt(s, Place(s, x))
    BY <1>2 DEF list_remove
  <2> HIDE DEF Place
  <2> QED BY <2>1, <2>2, RemoveOnce
<1> QED BY <1>1, <1>2

\* The front of a list is one of its elements.
LEMMA FrontOf ==
  ASSUME NEW S, NEW s \in Seq(S), s # <<>>
  PROVE  Head(s) \in S
  OBVIOUS

\* An element appended to a list it is not on.
LEMMA AppendOnce ==
  ASSUME NEW S, NEW s \in Seq(S), NEW x \in S, ~Contains(s, x),
         IsInjective(s)
  PROVE  /\ Append(s, x) \in Seq(S)
         /\ IsInjective(Append(s, x))
         /\ \A e : Contains(Append(s, x), e) <=> Contains(s, e) \/ e = x
<1>1. /\ Append(s, x) \in Seq(S) /\ Len(Append(s, x)) = Len(s) + 1
      /\ \A k \in 1 .. Len(s) : Append(s, x)[k] = s[k]
      /\ Append(s, x)[Len(s) + 1] = x
  OBVIOUS
<1>2. \A k \in 1 .. Len(s) : s[k] # x
  BY DEF Contains
<1> DEFINE r == Append(s, x)
<1>3. DOMAIN r = 1 .. Len(s) + 1 /\ DOMAIN s = 1 .. Len(s) /\ Len(s) \in Nat
  BY <1>1
<1> HIDE DEF r
<1>4. IsInjective(r)
  BY <1>1, <1>2, <1>3 DEF r, IsInjective
<1>5. \A e : Contains(r, e) <=> Contains(s, e) \/ e = x
  BY <1>1, <1>3 DEF r, Contains
<1> QED BY <1>1, <1>4, <1>5 DEF r

\* The rest of a nonempty list without duplicates.
LEMMA TailOnce ==
  ASSUME NEW S, NEW s \in Seq(S), s # <<>>, IsInjective(s)
  PROVE  /\ Head(s) \in S /\ Contains(s, Head(s))
         /\ Tail(s) \in Seq(S)
         /\ IsInjective(Tail(s))
         /\ \A e : Contains(Tail(s), e) <=> Contains(s, e) /\ e # Head(s)
<1> DEFINE r == Tail(s)
<1>1. /\ Len(s) \in Nat /\ Len(s) > 0 /\ DOMAIN s = 1 .. Len(s)
      /\ r \in Seq(S) /\ Len(r) = Len(s) - 1 /\ DOMAIN r = 1 .. Len(s) - 1
      /\ \A k \in 1 .. Len(s) - 1 : r[k] = s[k + 1]
      /\ Head(s) = s[1] /\ s[1] \in S
  OBVIOUS
<1> HIDE DEF r
<1>2. IsInjective(r)
  <2>1. ASSUME NEW j \in 1 .. Len(s) - 1, NEW k \in 1 .. Len(s) - 1, r[j] = r[k]
        PROVE  j = k
    <3>1. j + 1 \in DOMAIN s /\ k + 1 \in DOMAIN s /\ s[j + 1] = s[k + 1]
      BY <1>1, <2>1
    <3>2. j + 1 = k + 1
      BY <3>1 DEF IsInjective
    <3> QED BY <3>2
  <2> QED BY <1>1, <2>1 DEF IsInjective
<1>3. ASSUME NEW e PROVE Contains(r, e) <=> Contains(s, e) /\ e # Head(s)
  <2>1. ASSUME NEW k \in 1 .. Len(s) - 1, r[k] = e
        PROVE  Contains(s, e) /\ e # Head(s)
    <3>1. k + 1 \in 1 .. Len(s) /\ s[k + 1] = e /\ k + 1 # 1 /\ 1 \in 1 .. Len(s)
      BY <1>1, <2>1
    <3> QED BY Zenon, <1>1, <3>1 DEF Contains, IsInjective
  <2>2. ASSUME NEW k \in 1 .. Len(s), s[k] = e, e # Head(s)
        PROVE  Contains(r, e)
    <3>1. k - 1 \in 1 .. Len(s) - 1 /\ r[k - 1] = e
      BY <1>1, <2>2
    <3> QED BY <1>1, <3>1 DEF Contains
  <2> QED BY <1>1, <2>1, <2>2 DEF Contains
<1>4. Contains(s, Head(s))
  BY <1>1 DEF Contains
<1> QED BY <1>1, <1>2, <1>3, <1>4 DEF r

\* A list holds no element twice exactly when it has as many elements as places.
LEMMA OnceByCardinality ==
  ASSUME NEW S, NEW s \in Seq(S)
  PROVE  Cardinality(Range(s)) = Len(s) <=> IsInjective(s)
<1> DEFINE D == 1 .. Len(s)
<1>1. Len(s) \in Nat /\ DOMAIN s = D /\ s \in [D -> S]
  OBVIOUS
<1>2. Range(s) = {s[i] : i \in D}
  BY <1>1 DEF Range
<1>3. s \in Surjection(D, Range(s))
  BY <1>1, <1>2 DEF Surjection
<1>4. IsFiniteSet(D) /\ Cardinality(D) = Len(s)
  <2>1. ASSUME NEW n \in Nat PROVE IsFiniteSet(1 .. n) /\ Cardinality(1 .. n) = n
    <3>1. /\ IsFiniteSet(1 .. n)
          /\ Cardinality(1 .. n) = IF 1 > n THEN 0 ELSE n - 1 + 1
      BY FS_Interval
    <3> QED BY <3>1
  <2> QED BY Zenon, <1>1, <2>1
<1>5. Cardinality(Range(s)) = Cardinality(D) <=> s \in Injection(D, Range(s))
  BY <1>3, <1>4, FS_Surjection
<1>6. s \in Injection(D, Range(s)) <=> IsInjective(s)
  BY <1>3 DEF Injection, Surjection
<1> QED BY <1>4, <1>5, <1>6

\* Removing a place shortens a list by one; list_remove shortens it or not.
LEMMA RemoveShortens ==
  ASSUME NEW S, NEW s \in Seq(S)
  PROVE  /\ \A i \in 1 .. Len(s) : /\ RemoveAt(s, i) \in Seq(S)
                                   /\ Len(RemoveAt(s, i)) = Len(s) - 1
         /\ \A x : list_remove(s, x) \in Seq(S) /\ Len(list_remove(s, x)) <= Len(s)
<1>1. ASSUME NEW i \in 1 .. Len(s)
      PROVE  RemoveAt(s, i) \in Seq(S) /\ Len(RemoveAt(s, i)) = Len(s) - 1
  BY DEF RemoveAt
<1>2. ASSUME NEW x
      PROVE  list_remove(s, x) \in Seq(S) /\ Len(list_remove(s, x)) <= Len(s)
  <2>1. CASE ~Contains(s, x)
    BY <2>1 DEF list_remove
  <2>2. CASE Contains(s, x)
    <3>1. Place(s, x) \in 1 .. Len(s)
      BY <2>2 DEF Place, Contains
    <3> HIDE DEF Place
    <3> QED BY <1>1, <2>2, <3>1 DEF list_remove
  <2> QED BY <2>1, <2>2
<1> QED BY <1>1, <1>2

-----------------------------------------------------------------------------
(************************ any number of clients ****************************)

Places == {"idle", "find", "touch", "create", "fill", "io", "copy", "leave", "write",
           "remove", "flush", "off", "sleep", "walk"}

\* The loops over cache_list run under cache_lock, and cache_evict is at a
\* place of the list: that is why it shortens the list when it counts down.
CapInv ==
  /\ cache_list \in Seq(Blocks) /\ used_cache \in Nat
  /\ pc \in [Threads -> Places] /\ hand \in [Threads -> Nat \ {0}]
  /\ \A p \in Threads : pc[p] \in {"fill", "flush", "walk"} => cache_lock = p
  /\ \A p \in Threads : pc[p] = "fill" =>
       (cache_list # <<>> => hand[p] <= Len(cache_list))
  /\ Capacity

\* The hand of cache_evict is on the list, and so is that of write_to_disk until
\* it is past the end.
LEMMA HandOnList ==
  ASSUME CapInv, NEW p \in Threads,
         (pc[p] = "fill" /\ cache_list # <<>>) \/ hand[p] <= Len(cache_list)
  PROVE  hand[p] \in 1 .. Len(cache_list)
<1>1. hand[p] \in Nat \ {0} /\ Len(cache_list) \in Nat /\ hand[p] <= Len(cache_list)
  BY DEF CapInv
<1> QED BY <1>1

\* A step of p that leaves the list alone and takes the lock only when it is
\* free.
LEMMA CapFrame ==
  ASSUME CapInv, NEW p \in Threads, NEW l \in Places, GoTo(p, l), UNCHANGED listVars,
         UNCHANGED <<cache_lock, hand>>, l \notin {"fill", "flush", "walk"}
  PROVE  CapInv'
<1>1. \A q \in Threads : q # p => pc'[q] = pc[q]
  BY DEF CapInv, GoTo
<1>2. pc' \in [Threads -> Places] /\ pc'[p] = l
  BY DEF CapInv, GoTo
<1> QED BY <1>1, <1>2 DEF CapInv, listVars, Capacity

\* A step of p that takes cache_lock.
LEMMA CapTake ==
  ASSUME CapInv, NEW p \in Threads, NEW l \in {"fill", "flush", "walk"}, GoTo(p, l),
         UNCHANGED listVars, cache_lock = NoThread, cache_lock' = p,
         \/ UNCHANGED hand /\ l = "flush"
         \/ hand' = [hand EXCEPT ![p] = 1]
  PROVE  CapInv'
<1>1. \A q \in Threads : q # p => pc'[q] = pc[q] /\ pc[q] \notin {"fill", "flush", "walk"}
  BY ReadWriteAssumption DEF CapInv, GoTo, ReadWriteAssumption
<1>2. pc' \in [Threads -> Places] /\ pc'[p] = l
  BY DEF CapInv, GoTo, Places
<1>3. hand' \in [Threads -> Nat \ {0}] /\ (l = "fill" => hand'[p] = 1)
  BY DEF CapInv
<1>4. cache_list # <<>> => Len(cache_list) >= 1
  BY DEF CapInv
<1> QED BY Zenon, <1>1, <1>2, <1>3, <1>4 DEF CapInv, listVars, Capacity

\* A step of p that gives cache_lock back.
LEMMA CapGive ==
  ASSUME CapInv, NEW p \in Threads, pc[p] \in {"fill", "flush", "walk"},
         NEW l \in Places, GoTo(p, l), l \notin {"fill", "flush", "walk"},
         cache_list' \in Seq(Blocks), used_cache' \in Nat, Capacity', UNCHANGED hand
  PROVE  CapInv'
<1>1. \A q \in Threads : q # p => pc'[q] = pc[q] /\ pc[q] \notin {"fill", "flush", "walk"}
  BY DEF CapInv, GoTo
<1>2. pc' \in [Threads -> Places] /\ pc'[p] = l
  BY DEF CapInv, GoTo
<1> QED BY Zenon, <1>1, <1>2 DEF CapInv

\* Under cache_lock, cache_evict and free_cache shorten the list and count down.
LEMMA CapShorten ==
  ASSUME CapInv, NEW p \in Threads, pc[p] \in {"fill", "flush"}, UNCHANGED <<pc, cache_lock>>,
         cache_list # <<>>, cache_list' \in Seq(Blocks), Len(cache_list') = Len(cache_list) - 1,
         used_cache' = used_cache - 1,
         \/ hand' = [hand EXCEPT ![p] = 1]
         \/ UNCHANGED hand /\ pc[p] = "flush"
  PROVE  CapInv'
<1>1. \A q \in Threads : q # p => pc[q] \notin {"fill", "flush", "walk"}
  BY DEF CapInv
<1>2. Len(cache_list) \in Nat /\ Len(cache_list) >= 1 /\ Len(cache_list') \in Nat
  BY DEF CapInv
<1>3. used_cache' \in Nat /\ Capacity'
  BY <1>2, CacheAssumption DEF CapInv, Capacity, CacheAssumption
<1>4. /\ hand' \in [Threads -> Nat \ {0}]
      /\ pc[p] = "fill" => hand'[p] = 1
      /\ cache_list' # <<>> => Len(cache_list') >= 1
  BY DEF CapInv
<1> QED BY <1>1, <1>3, <1>4 DEF CapInv

\* No step of a client breaks the capacity of the list.
LEMMA ClientCap ==
  ASSUME CapInv, NEW p \in Clients, ClientStep(p)
  PROVE  CapInv'
<1>0. p \in Threads
  BY CacheAssumption DEF CacheAssumption
<1> USE <1>0
<1>1. ASSUME NEW l \in Places, GoTo(p, l), UNCHANGED <<listVars, cache_lock, hand>>,
             l \notin {"fill", "flush", "walk"}
      PROVE  CapInv'
  BY <1>1, CapFrame
<1>2. CASE \/ \E k \in {"read", "write", "remove"}, s \in Sectors, v \in Values : call(p, k, s, v)
           \/ touch(p) \/ read_begin(p) \/ read_copy(p) \/ read_done(p)
           \/ write_begin(p) \/ write_done(p)
  BY Zenon, <1>1, <1>2 DEF call, touch, read_begin, read_copy, read_done, write_begin, write_done,
     Return, Places
<1>3. CASE find_cache(p)
  BY <1>1, <1>3 DEF find_cache, Return, Places
<1>4. CASE create_lock(p)
  BY Zenon, <1>4, CapTake DEF create_lock
<1>5. CASE cache_evict(p)
  <2> DEFINE c == cache_list[hand[p]]
  <2>1. /\ pc[p] = "fill" /\ cache_list # <<>> /\ UNCHANGED <<pc, cache_lock>>
        /\ hand[p] \in 1 .. Len(cache_list) /\ Len(cache_list) \in Nat
    BY <1>5 DEF cache_evict, CapInv
  <2>2. CASE AB[c]
    <3>1. hand' = [hand EXCEPT ![p] = Wrap(hand[p])] /\ UNCHANGED listVars
      BY Zenon, <1>5, <2>2 DEF cache_evict
    <3>2. Wrap(hand[p]) \in 1 .. Len(cache_list)
      BY <2>1 DEF Wrap
    <3>3. /\ hand' \in [Threads -> Nat \ {0}] /\ hand'[p] \in 1 .. Len(cache_list)
          /\ \A q \in Threads : q # p => hand'[q] = hand[q]
      BY <2>1, <3>1, <3>2 DEF CapInv
    <3> QED BY <2>1, <3>1, <3>3 DEF CapInv, Capacity, listVars
  <2>3. CASE ~AB[c]
    <3>1. /\ cache_list' = RemoveAt(cache_list, hand[p]) /\ used_cache' = used_cache - 1
          /\ hand' = [hand EXCEPT ![p] = 1]
      BY <1>5, <2>3 DEF cache_evict
    <3>2. cache_list' \in Seq(Blocks) /\ Len(cache_list') = Len(cache_list) - 1
      BY <2>1, <3>1, RemoveShortens DEF CapInv
    <3> QED BY ZenonT(60), <2>1, <3>1, <3>2, CapShorten
  <2> QED BY <2>2, <2>3
<1>6. ASSUME NEW c \in Blocks \ Range(cache_list), create_cache(p, c) PROVE CapInv'
  <2>1. /\ pc[p] = "fill" /\ GoTo(p, "io") /\ UNCHANGED hand /\ used_cache < CACHE_SIZE
        /\ cache_list' = Append(cache_list, c) /\ used_cache' = used_cache + 1
    BY <1>6 DEF create_cache
  <2>2. /\ cache_list' \in Seq(Blocks) /\ Len(cache_list') = Len(cache_list) + 1
        /\ Len(cache_list) \in Nat
    BY <2>1 DEF CapInv
  <2>3. used_cache' \in Nat /\ Capacity'
    BY <2>1, <2>2, CacheAssumption DEF CapInv, Capacity, CacheAssumption
  <2> QED BY ZenonT(60), <2>1, <2>2, <2>3, CapGive DEF Places
<1>7. CASE write_wake(p)
  BY <1>7 DEF write_wake, CapInv, listVars, Capacity
<1>8. CASE cache_remove(p)
  <2>1. /\ cache_list' = list_remove(cache_list, cur[p]) /\ cache_lock = NoThread
        /\ GoTo(p, "idle") /\ UNCHANGED <<used_cache, cache_lock, hand>>
    BY <1>8 DEF cache_remove, Return
  <2>2. /\ cache_list' \in Seq(Blocks) /\ Len(cache_list') <= Len(cache_list)
        /\ Len(cache_list) \in Nat /\ Len(cache_list') \in Nat
    BY <2>1, RemoveShortens DEF CapInv
  <2>3. \A q \in Threads : pc[q] \notin {"fill", "flush", "walk"}
    BY <2>1, ReadWriteAssumption DEF CapInv, ReadWriteAssumption
  <2>4. pc' \in [Threads -> Places] /\ \A q \in Threads : pc'[q] \in {pc[q], "idle"}
    BY <2>1 DEF CapInv, GoTo, Places
  <2> QED BY <2>1, <2>2, <2>3, <2>4, CacheAssumption DEF CapInv, Capacity, CacheAssumption
<1>9. CASE flush_lock(p)
  BY <1>9, CapTake DEF flush_lock
<1>10. CASE free_cache(p)
  <2>1. /\ pc[p] = "flush" /\ cache_list # <<>> /\ UNCHANGED <<pc, cache_lock, hand>>
        /\ cache_list' = Tail(cache_list) /\ used_cache' = used_cache - 1
    BY <1>10 DEF free_cache
  <2>2. cache_list' \in Seq(Blocks) /\ Len(cache_list') = Len(cache_list) - 1
    BY <2>1 DEF CapInv
  <2> QED BY <2>1, <2>2, CapShorten
<1>11. CASE flush_done(p)
  BY <1>11, CapGive DEF flush_done, CapInv, Places, listVars, Capacity
<1> QED
  BY ZenonT(60), <1>2, <1>3, <1>4, <1>5, <1>6, <1>7, <1>8, <1>9, <1>10, <1>11 DEF ClientStep

\* The cache starts empty.
LEMMA InitCap == Init => CapInv
BY CacheAssumption DEF Init, CapInv, Capacity, CacheAssumption, Places

\* No step, of a client or of the write-behind thread, breaks the capacity.
LEMMA NextCap == CapInv /\ [Next]_vars => CapInv'
<1> SUFFICES ASSUME CapInv, [Next]_vars PROVE CapInv'
  OBVIOUS
<1>0. Daemon \in Threads
  BY CacheAssumption DEF CacheAssumption
<1>1. CASE UNCHANGED vars
  BY <1>1 DEF CapInv, Capacity, vars, listVars
<1>2. CASE cwf_lock
  BY Zenon, <1>0, <1>2, CapTake DEF cwf_lock
<1>3. CASE write_to_disk
  <2>1. /\ pc[Daemon] = "walk" /\ UNCHANGED <<pc, cache_lock, listVars>>
        /\ hand' = [hand EXCEPT ![Daemon] = hand[Daemon] + 1]
    BY <1>3 DEF write_to_disk
  <2>2. /\ hand' \in [Threads -> Nat \ {0}]
        /\ \A q \in Threads : q # Daemon => hand'[q] = hand[q]
    BY <1>0, <2>1 DEF CapInv
  <2> QED BY <1>0, <2>1, <2>2 DEF CapInv, Capacity, listVars
<1>4. CASE cwf_unlock
  BY <1>0, <1>4, CapGive DEF cwf_unlock, CapInv, Places, listVars, Capacity
<1> QED BY <1>1, <1>2, <1>3, <1>4, ClientCap DEF Next

\* cache_evict, create_cache, free_cache and cache_remove keep the list within
\* the count and the count within CACHE_SIZE, with any number of clients.
THEOREM CapacityKept == Spec => []Capacity
<1>1. CapInv => Capacity
  BY DEF CapInv
<1> QED BY <1>1, InitCap, NextCap, PTL DEF Spec

-----------------------------------------------------------------------------
(****************************** one client *********************************)

\* The callers that file_lock lets in one at a time.
OneClient == \A p, q \in Clients : p = q

On(b) == Contains(cache_list, b)
Reading(p) == pc[p] \in {"copy", "leave"}

\* No block is listed twice, and no two blocks on the list hold one sector.
OneBlock ==
  /\ IsInjective(cache_list)
  /\ \A b, c \in Blocks : On(b) /\ On(c) /\ sid[b] = sid[c] => b = c

\* What each place in the code knows of the call in progress.
CallOK(p) ==
  /\ pc[p] \in {"idle", "flush", "off"} => op[p] = NoCall
  /\ pc[p] = "find" => op[p].kind # "none"
  /\ pc[p] \in {"touch", "create", "fill", "io"} => op[p].kind \in {"read", "write"}
  /\ Reading(p) => op[p].kind = "read"
  /\ pc[p] = "write" => op[p].kind = "write"
  /\ pc[p] = "remove" => op[p].kind = "remove"
  /\ pc[p] \notin {"sleep", "walk"}

\* A caller that has missed its sector finds it still missing when it creates a
\* block; one that has its block finds it still there.
BlockOK(p) ==
  /\ pc[p] \in {"create", "fill"} => \A b \in Blocks : On(b) => sid[b] # op[p].sector
  /\ pc[p] \in {"touch", "io", "copy", "leave", "write", "remove"} =>
       On(cur[p]) /\ sid[cur[p]] = op[p].sector

\* The client is the only reader or writer, so it never waits for another.
AccessOK(p) ==
  /\ at[p] = IF Reading(p) THEN "reading" ELSE IF pc[p] = "write" THEN "writing" ELSE "out"
  /\ Reading(p) => on[p] = cur[p]
  /\ \A b \in Blocks : /\ read_end[b] = {}
                        /\ read_cnt[b] = IF Reading(p) /\ cur[p] = b THEN 1 ELSE 0

SoleInv ==
  /\ OneClient /\ CapInv /\ TypeOK /\ OneBlock
  /\ \A p \in Clients : CallOK(p) /\ BlockOK(p) /\ AccessOK(p)

\* While the write-behind thread sleeps: a clean block is what the disk holds, and
\* the value last written to a sector in use is in its block, or on the disk.
Clean == \A b \in Blocks : On(b) /\ ~DB[b] => data[b] = disk[sid[b]]
Current(s) ==
  /\ \A b \in Blocks : On(b) /\ sid[b] = s => data[b] = latest[s]
  /\ (\A b \in Blocks : On(b) => sid[b] # s) => disk[s] = latest[s]
DataOK(p) ==
  /\ pc[p] \in {"io", "write"} /\ op[p].kind = "write" => DB[cur[p]]
  /\ op[p].kind = "read" => op[p].sector \notin freed

StoreInv ==
  /\ ~DaemonRuns /\ pc[Daemon] = "sleep"
  /\ Clean
  /\ \A s \in Sectors \ freed : Current(s)
  /\ \A p \in Clients : DataOK(p)

\* The fields nobody reads before they are set have a value.
LEMMA UnsetMember ==
  Unset(Blocks) \in Blocks /\ Unset(Sectors) \in Sectors /\ Unset(Values) \in Values
BY CacheAssumption DEF Unset, CacheAssumption

\* The readers/writer part of a step keeps its types: the one client leaves a block
\* it has been counted in.
LEMMA SoleAccess ==
  ASSUME SoleInv, NEW p \in Clients, ClientStep(p)
  PROVE  RWTypeOK'
<1>0. /\ RWTypeOK /\ p \in Threads /\ cur \in [Clients -> Blocks] /\ cur[p] \in Blocks
      /\ AccessOK(p)
  BY CacheAssumption DEF SoleInv, TypeOK, CacheAssumption
<1> USE <1>0
<1>1. CASE UNCHANGED rwVars
  BY <1>1 DEF rwVars, RWTypeOK
<1>2. CASE read_begin(p)
  <2>1. /\ at' = [at EXCEPT ![p] = "reading"] /\ on' = [on EXCEPT ![p] = cur[p]]
        /\ read_cnt' = [read_cnt EXCEPT ![cur[p]] = @ + 1] /\ UNCHANGED <<io, read_end>>
    BY Zenon, <1>2 DEF read_begin, read_cache
  <2> QED BY <2>1 DEF RWTypeOK, Blocks
<1>3. ASSUME NEW o \in Blocks, leave_signal(p, o)
      PROVE  /\ at' \in [Threads -> {"out", "reading", "waiting", "woken", "writing"}]
             /\ UNCHANGED read_end
  BY <1>3 DEF leave_signal, AccessOK, RWTypeOK, Blocks
<1>4. CASE read_done(p)
  <2>1. /\ pc[p] = "leave" /\ end_read(p)
    BY <1>4 DEF read_done
  <2>2. on[p] \in Blocks /\ read_cnt[on[p]] = 1
    BY <2>1 DEF AccessOK, Reading
  <2>3. read_cnt' \in [Objects -> Nat] /\ UNCHANGED <<io, on>>
    BY <2>1, <2>2 DEF end_read, RWTypeOK, Blocks
  <2>4. /\ at' \in [Threads -> {"out", "reading", "waiting", "woken", "writing"}]
        /\ UNCHANGED read_end
    BY ZenonT(60), <1>3, <2>1, <2>2 DEF end_read, RWTypeOK
  <2> QED BY <2>3, <2>4 DEF RWTypeOK
<1>5. CASE write_begin(p)
  BY <1>5 DEF write_begin, write_cache, RWTypeOK, Blocks
<1>6. CASE write_wake(p)
  BY <1>6 DEF write_wake, write_resume, RWTypeOK
<1>7. CASE write_done(p)
  BY ZenonT(60), <1>3, <1>7, ReadWriteAssumption DEF write_done, end_write, RWTypeOK, Blocks,
     ReadWriteAssumption
<1>8. ASSUME NEW c \in Blocks, create_cache(p, c) PROVE RWTypeOK'
  BY Zenon, <1>8 DEF create_cache, RWTypeOK, Blocks
<1> QED
  BY ZenonT(60), <1>1, <1>2, <1>4, <1>5, <1>6, <1>7, <1>8
     DEF ClientStep, call, find_cache, touch, create_lock, cache_evict, read_copy,
         cache_remove, flush_lock, free_cache, flush_done

CallType == [kind : {"none", "read", "write", "remove"}, sector : Sectors, value : Values]

\* The types of the blocks, the disk and the calls.
LEMMA SoleTypes ==
  ASSUME SoleInv, NEW p \in Clients, ClientStep(p), CapInv'
  PROVE  TypeOK'
<1>0. /\ TypeOK /\ p \in Threads /\ cur[p] \in Blocks
      /\ op[p] \in CallType /\ NoCall \in CallType /\ Unset(Blocks) \in Blocks
      /\ cache_list \in Seq(Blocks)
  BY CacheAssumption, UnsetMember
     DEF SoleInv, TypeOK, CacheAssumption, CallType, NoCall
<1> USE <1>0
<1>1. op' \in [Clients -> CallType] /\ cur' \in [Clients -> Blocks]
  <2>1. CASE Return(p)
    BY <2>1 DEF Return, TypeOK, CallType
  <2>2. CASE UNCHANGED callVars
    BY Zenon, <2>2 DEF callVars, TypeOK, CallType
  <2>3. ASSUME NEW k \in {"read", "write", "remove"}, NEW s \in Sectors, NEW v \in Values,
               call(p, k, s, v)
        PROVE  op' \in [Clients -> CallType] /\ cur' \in [Clients -> Blocks]
    BY Zenon, <2>3 DEF call, TypeOK, CallType
  <2>4. CASE find_cache(p)
    <3> DEFINE hits == Hits(op[p].sector)
    <3>1. CASE hits = {}
      BY Zenon, <2>1, <2>2, <2>4, <3>1 DEF find_cache
    <3>2. CASE hits # {}
      <4>1. hits \in SUBSET Nat /\ hits \in SUBSET (1 .. Len(cache_list))
        BY DEF Hits
      <4>2. cur' = [cur EXCEPT ![p] = cache_list[Min(hits)]] /\ UNCHANGED op
        BY Zenon, <2>4, <3>2 DEF find_cache
      <4> HIDE DEF hits
      <4>3. Min(hits) \in 1 .. Len(cache_list)
        BY ZenonT(60), <3>2, <4>1, LeastNat
      <4>4. cache_list[Min(hits)] \in Blocks
        BY <4>3
      <4> QED BY ZenonT(60), <4>2, <4>4 DEF TypeOK, CallType
    <3> QED BY Zenon, <3>1, <3>2
  <2>5. ASSUME NEW c \in Blocks, create_cache(p, c)
        PROVE  op' \in [Clients -> CallType] /\ cur' \in [Clients -> Blocks]
    BY <2>5 DEF create_cache, TypeOK, CallType
  <2> QED
    BY ZenonT(60), <2>1, <2>2, <2>3, <2>4, <2>5
       DEF ClientStep, touch, create_lock, cache_evict, read_begin, read_copy, read_done,
           write_begin, write_wake, write_done, cache_remove, flush_lock, free_cache,
           flush_done
<1>2. /\ sid' \in [Blocks -> Sectors]
      /\ AB' \in [Blocks -> BOOLEAN] /\ DB' \in [Blocks -> BOOLEAN]
      /\ data' \in [Blocks -> Values] /\ disk' \in [Sectors -> Values]
  <2> DEFINE Goal == /\ sid' \in [Blocks -> Sectors]
                     /\ AB' \in [Blocks -> BOOLEAN] /\ DB' \in [Blocks -> BOOLEAN]
                     /\ data' \in [Blocks -> Values] /\ disk' \in [Sectors -> Values]
  <2>0. op[p].sector \in Sectors /\ op[p].value \in Values
    BY DEF CallType
  <2>1. CASE UNCHANGED <<blockVars, disk>>
    BY ZenonT(60), <2>1 DEF blockVars, TypeOK
  <2>2. CASE touch(p)
    BY <2>2 DEF touch, TypeOK
  <2>3. ASSUME NEW c \in Blocks,
               disk' = disk \/ disk' = [disk EXCEPT ![sid[c]] = data[c]]
        PROVE  disk' \in [Sectors -> Values]
    BY <2>3 DEF TypeOK
  <2>4. CASE cache_evict(p)
    <3> DEFINE c == cache_list[hand[p]]
    <3>1. /\ c \in Blocks
          /\ \/ AB' = [AB EXCEPT ![c] = FALSE] /\ disk' = disk
             \/ AB' = AB /\ (disk' = disk \/ disk' = [disk EXCEPT ![sid[c]] = data[c]])
          /\ UNCHANGED <<sid, DB, data>>
      <4>1. pc[p] = "fill" /\ cache_list # <<>> /\ CapInv
        BY Zenon, <2>4 DEF cache_evict, SoleInv
      <4>2. hand[p] \in 1 .. Len(cache_list)
        BY ZenonT(60), <4>1, HandOnList
      <4>3. c \in Blocks
        BY <4>1, <4>2 DEF CapInv
      <4> QED BY Zenon, <2>4, <4>3 DEF cache_evict
    <3> HIDE DEF c
    <3> QED BY Zenon, <2>3, <3>1 DEF TypeOK
  <2>5. ASSUME NEW c \in Blocks, create_cache(p, c) PROVE Goal
    BY Zenon, <2>0, <2>5 DEF create_cache, TypeOK
  <2>6. CASE write_done(p)
    BY Zenon, <2>0, <2>6 DEF write_done, TypeOK
  <2>7. CASE free_cache(p)
    <3>1. Head(cache_list) \in Blocks
      <4>1. cache_list \in Seq(Blocks) /\ cache_list # <<>>
        BY Zenon, <2>7 DEF free_cache, TypeOK
      <4> QED BY Zenon, <4>1, FrontOf
    <3> QED BY Zenon, <2>3, <2>7, <3>1 DEF free_cache, blockVars, TypeOK
  <2> QED
    BY ZenonT(60), <2>1, <2>2, <2>4, <2>5, <2>6, <2>7
       DEF ClientStep, call, find_cache, create_lock, read_begin, read_copy, read_done,
           write_begin, write_wake, cache_remove, flush_lock, flush_done
<1>3. /\ got' \in [Clients -> Values] /\ latest' \in [Sectors -> Values]
      /\ removes' \in Nat /\ freed' \subseteq Sectors
  <2>0. op[p].sector \in Sectors /\ op[p].value \in Values
    BY DEF CallType
  <2>1. got' \in [Clients -> Values]
    <3>1. UNCHANGED got \/ got' = [got EXCEPT ![p] = data[cur[p]]]
      BY Zenon DEF ClientStep, call, find_cache, touch, create_lock, cache_evict, create_cache,
             read_begin, read_copy, read_done, write_begin, write_wake, write_done,
             cache_remove, flush_lock, free_cache, flush_done
    <3> QED BY Zenon, <3>1 DEF TypeOK
  <2>2. CASE UNCHANGED histVars
    BY <2>1, <2>2 DEF histVars, TypeOK
  <2>3. CASE find_cache(p) \/ write_done(p) \/ cache_remove(p)
    <3>1. /\ freed' \in {freed, freed \cup {op[p].sector}, freed \ {op[p].sector}}
          /\ removes' \in {removes, removes + 1}
          /\ latest' = latest \/ latest' = [latest EXCEPT ![op[p].sector] = op[p].value]
      BY Zenon, <2>3 DEF find_cache, write_done, cache_remove
    <3>2. latest' \in [Sectors -> Values]
      BY Zenon, <2>0, <3>1 DEF TypeOK
    <3>3. freed' \subseteq Sectors
      BY ZenonT(60), <2>0, <3>1 DEF TypeOK
    <3>4. removes' \in Nat
      BY <3>1 DEF TypeOK
    <3> QED BY <2>1, <3>2, <3>3, <3>4
  <2> QED
    BY Zenon, <2>1, <2>2, <2>3
       DEF ClientStep, call, touch, create_lock, cache_evict, create_cache, read_begin,
           read_copy, read_done, write_begin, write_wake, flush_lock, free_cache,
           flush_done, TypeOK
<1>4. cache_lock' \in Threads \cup {NoThread}
  BY Zenon DEF ClientStep, call, find_cache, touch, create_lock, cache_evict, create_cache,
         read_begin, read_copy, read_done, write_begin, write_wake, write_done,
         cache_remove, flush_lock, free_cache, flush_done, TypeOK
<1> QED BY ZenonT(60), <1>1, <1>2, <1>3, <1>4, SoleAccess DEF TypeOK, CallType, CapInv, Places

Sole(p) == OneBlock /\ CallOK(p) /\ BlockOK(p) /\ AccessOK(p)

\* A call ends with its client outside every block.
LEMMA SoleReturn ==
  ASSUME TypeOK, TypeOK', NEW p \in Clients, Return(p), OneBlock', at'[p] = "out",
         \A b \in Blocks : read_end'[b] = {} /\ read_cnt'[b] = 0
  PROVE  Sole(p)'
<1>1. pc'[p] = "idle" /\ op'[p] = NoCall
  BY Zenon, CacheAssumption DEF Return, GoTo, TypeOK, CacheAssumption
<1> QED BY ZenonT(60), <1>1 DEF Sole, CallOK, BlockOK, AccessOK, Reading

\* Steps that leave the list, the sectors of its blocks and the access to them
\* alone.
LEMMA SoleMoves ==
  ASSUME SoleInv, TypeOK', NEW p \in Clients, Sole(p)
  PROVE  /\ \A k \in {"read", "write", "remove"}, s \in Sectors, v \in Values :
              call(p, k, s, v) => Sole(p)'
         /\ touch(p) \/ create_lock(p) \/ read_copy(p) => Sole(p)'
         /\ flush_lock(p) \/ flush_done(p) => Sole(p)'
<1>0. /\ TypeOK /\ pc \in [Threads -> Places] /\ p \in Threads
      /\ op \in [Clients -> CallType] /\ cur \in [Clients -> Blocks]
      /\ OneBlock /\ CallOK(p) /\ BlockOK(p) /\ AccessOK(p)
  BY Zenon, CacheAssumption DEF SoleInv, CapInv, TypeOK, CacheAssumption, CallType, Sole
<1> USE <1>0
<1>1. ASSUME NEW l, GoTo(p, l), UNCHANGED <<rwVars, cache_list, sid, cur>>,
             Reading(p)' <=> Reading(p), pc[p] # "write", l # "write"
      PROVE  pc'[p] = l /\ OneBlock' /\ AccessOK(p)'
  BY Zenon, <1>1 DEF GoTo, OneBlock, On, AccessOK, rwVars
<1>2. ASSUME NEW k \in {"read", "write", "remove"}, NEW s \in Sectors, NEW v \in Values,
             call(p, k, s, v)
      PROVE  Sole(p)'
  <2>1. pc'[p] = "find" /\ pc[p] = "idle" /\ op'[p].kind = k
    BY ZenonT(60), <1>2 DEF call, GoTo, CallType
  <2>2. OneBlock' /\ AccessOK(p)'
    BY <1>1, <1>2, <2>1 DEF call, listVars, blockVars, Reading
  <2> QED BY Zenon, <2>1, <2>2 DEF Sole, CallOK, BlockOK, Reading
<1>3. ASSUME NEW l \in {"io", "fill", "leave", "flush", "off"}, GoTo(p, l),
             UNCHANGED <<rwVars, cache_list, sid, cur, op>>,
             \/ l = "io" /\ pc[p] = "touch"
             \/ l = "fill" /\ pc[p] = "create"
             \/ l = "leave" /\ pc[p] = "copy"
             \/ l = "flush" /\ pc[p] = "idle"
             \/ l = "off" /\ pc[p] = "flush"
      PROVE  Sole(p)'
  <2>1. pc'[p] = l
    BY <1>3 DEF GoTo
  <2>2. OneBlock' /\ AccessOK(p)'
    BY <1>1, <1>3, <2>1 DEF Reading
  <2>3. CallOK(p)' /\ BlockOK(p)'
    BY ZenonT(60), <1>3, <2>1 DEF CallOK, BlockOK, Reading, On
  <2> QED BY <2>2, <2>3 DEF Sole
<1>4. CASE touch(p)
  BY <1>3, <1>4 DEF touch, listVars, callVars
<1>5. CASE create_lock(p)
  BY Zenon, <1>3, <1>5 DEF create_lock, listVars, callVars, blockVars
<1>6. CASE read_copy(p)
  BY Zenon, <1>3, <1>6 DEF read_copy, listVars, callVars, blockVars
<1>7. CASE flush_lock(p)
  BY ZenonT(60), <1>3, <1>7 DEF flush_lock, listVars, callVars, blockVars
<1>8. CASE flush_done(p)
  BY <1>3, <1>8 DEF flush_done, listVars, callVars, blockVars
<1> QED BY ZenonT(60), <1>2, <1>4, <1>5, <1>6, <1>7, <1>8

\* find_cache returns a block of the sector, and only if there is none reports a
\* miss.
LEMMA SoleFind ==
  ASSUME SoleInv, TypeOK', NEW p \in Clients, Sole(p), find_cache(p)
  PROVE  Sole(p)'
<1>0. /\ TypeOK /\ pc \in [Threads -> Places] /\ p \in Threads
      /\ op \in [Clients -> CallType] /\ cur \in [Clients -> Blocks]
      /\ OneBlock /\ CallOK(p) /\ BlockOK(p) /\ AccessOK(p) /\ cache_list \in Seq(Blocks)
  BY ZenonT(60), CacheAssumption DEF SoleInv, CapInv, TypeOK, CacheAssumption, CallType, Sole
<1> USE <1>0
<1> DEFINE s == op[p].sector
           hits == Hits(s)
<1>1. pc[p] = "find" /\ UNCHANGED <<rwVars, cache_list, sid>> /\ op[p].kind # "none"
  BY DEF find_cache, listVars, blockVars, CallOK
<1>2. OneBlock'
  BY ZenonT(60), <1>1 DEF OneBlock, On
<1>3. hits \in SUBSET Nat /\ hits = {i \in 1 .. Len(cache_list) : sid[cache_list[i]] = s}
  BY DEF Hits
<1>4. CASE hits # {}
  <2>1. /\ cur' = [cur EXCEPT ![p] = cache_list[Min(hits)]] /\ UNCHANGED op
        /\ GoTo(p, IF op[p].kind = "remove" THEN "remove" ELSE "touch")
    BY <1>4 DEF find_cache
  <2> HIDE DEF hits
  <2>2. Min(hits) \in 1 .. Len(cache_list) /\ sid[cache_list[Min(hits)]] = s
    BY Zenon, <1>3, <1>4, LeastNat
  <2>3. On(cur[p])' /\ sid'[cur'[p]] = s
    BY Zenon, <1>1, <2>1, <2>2 DEF On, Contains
  <2>4. /\ pc'[p] = IF op[p].kind = "remove" THEN "remove" ELSE "touch"
        /\ op'[p] = op[p] /\ op[p].kind \in {"read", "write", "remove"}
    BY Zenon, <1>1, <2>1 DEF GoTo, CallType
  <2>5. AccessOK(p)'
    BY Zenon, <1>1, <2>4 DEF AccessOK, Reading, rwVars
  <2> QED BY ZenonT(60), <1>2, <2>3, <2>4, <2>5 DEF Sole, CallOK, BlockOK, Reading
<1>5. CASE hits = {} /\ op[p].kind = "remove"
  <2>1. Return(p)
    BY <1>5 DEF find_cache
  <2>2. at'[p] = "out" /\ \A b \in Blocks : read_end'[b] = {} /\ read_cnt'[b] = 0
    BY Zenon, <1>1 DEF AccessOK, Reading, rwVars
  <2> QED BY ZenonT(60), <1>2, <2>1, <2>2, SoleReturn
<1>6. CASE hits = {} /\ op[p].kind # "remove"
  <2>1. GoTo(p, "create") /\ UNCHANGED <<op, cur>>
    BY <1>6 DEF find_cache, callVars
  <2>2. \A b \in Blocks : On(b)' => sid'[b] # s
    BY Zenon, <1>1, <1>3, <1>6 DEF On, Contains
  <2>3. /\ pc'[p] = "create" /\ op'[p] = op[p] /\ op[p].kind \in {"read", "write"}
    BY <1>1, <1>6, <2>1 DEF GoTo, CallType
  <2>4. AccessOK(p)'
    BY Zenon, <1>1, <2>3 DEF AccessOK, Reading, rwVars
  <2> QED BY ZenonT(60), <1>2, <2>2, <2>3, <2>4 DEF Sole, CallOK, BlockOK, Reading
<1> QED BY Zenon, <1>4, <1>5, <1>6

\* Steps that take a block off the list, or put one at its end.
LEMMA SoleList ==
  ASSUME SoleInv, TypeOK', NEW p \in Clients, Sole(p)
  PROVE  /\ cache_evict(p) \/ cache_remove(p) \/ free_cache(p) => Sole(p)'
         /\ \A c \in Blocks \ Range(cache_list) : create_cache(p, c) => Sole(p)'
<1>0. /\ TypeOK /\ pc \in [Threads -> Places] /\ p \in Threads
      /\ op \in [Clients -> CallType] /\ cur \in [Clients -> Blocks]
      /\ OneBlock /\ CallOK(p) /\ BlockOK(p) /\ AccessOK(p) /\ cache_list \in Seq(Blocks)
  BY Zenon, CacheAssumption DEF SoleInv, CapInv, TypeOK, CacheAssumption, CallType, Sole
<1> USE <1>0
<1>1. ASSUME UNCHANGED sid, IsInjective(cache_list'), \A b \in Blocks : On(b)' => On(b)
      PROVE  OneBlock'
  BY <1>1 DEF OneBlock
<1>2. ASSUME UNCHANGED <<pc, rwVars, sid, op, cur>>, pc[p] \in {"fill", "flush"},
             IsInjective(cache_list'), \A b \in Blocks : On(b)' => On(b)
      PROVE  Sole(p)'
  <2>1. OneBlock'
    BY <1>1, <1>2
  <2>2. CallOK(p)' /\ BlockOK(p)'
    BY Zenon, <1>2 DEF CallOK, BlockOK, Reading
  <2>3. AccessOK(p)'
    BY Zenon, <1>2 DEF AccessOK, Reading, rwVars
  <2> QED BY Zenon, <2>1, <2>2, <2>3 DEF Sole
<1>3. CASE cache_evict(p)
  <2>1. /\ pc[p] = "fill" /\ hand[p] \in 1 .. Len(cache_list)
        /\ UNCHANGED <<pc, rwVars, sid, op, cur>>
        /\ cache_list' = cache_list \/ cache_list' = RemoveAt(cache_list, hand[p])
    <3>1. /\ pc[p] = "fill" /\ cache_list # <<>> /\ UNCHANGED <<pc, rwVars, sid, op, cur>>
          /\ cache_list' = cache_list \/ cache_list' = RemoveAt(cache_list, hand[p])
      BY Zenon, <1>3 DEF cache_evict, callVars, listVars
    <3>2. CapInv
      BY Zenon DEF SoleInv
    <3> QED BY Zenon, <3>1, <3>2, HandOnList
  <2>2. IsInjective(cache_list') /\ \A b \in Blocks : On(b)' => On(b)
    <3>1. IsInjective(cache_list)
      BY Zenon DEF OneBlock
    <3>2. CASE cache_list' = cache_list
      BY Zenon, <3>1, <3>2 DEF On
    <3>3. CASE cache_list' = RemoveAt(cache_list, hand[p])
      <4>1. /\ IsInjective(cache_list')
            /\ \A b : Contains(cache_list', b) <=> Contains(cache_list, b) /\ b # cache_list[hand[p]]
        BY Zenon, <2>1, <3>1, <3>3, RemoveOnce
      <4> QED BY Zenon, <4>1 DEF On
    <3> QED BY Zenon, <2>1, <3>2, <3>3
  <2> QED BY <1>2, <2>1, <2>2
<1>4. CASE cache_remove(p)
  <2>1. /\ pc[p] = "remove" /\ cache_list' = list_remove(cache_list, cur[p])
        /\ UNCHANGED <<rwVars, sid>> /\ Return(p)
    BY Zenon, <1>4 DEF cache_remove, blockVars
  <2>2. IsInjective(cache_list') /\ \A b \in Blocks : On(b)' => On(b)
    BY Zenon, <2>1, ListRemoveOnce DEF OneBlock, On
  <2>3. at'[p] = "out" /\ \A b \in Blocks : read_end'[b] = {} /\ read_cnt'[b] = 0
    BY Zenon, <2>1 DEF AccessOK, Reading, rwVars
  <2> QED BY Zenon, <1>1, <2>1, <2>2, <2>3, SoleReturn
<1>5. CASE free_cache(p)
  <2>1. /\ pc[p] = "flush" /\ cache_list # <<>> /\ cache_list' = Tail(cache_list)
        /\ UNCHANGED <<pc, rwVars, sid, op, cur>>
    BY ZenonT(60), <1>5 DEF free_cache, callVars, blockVars
  <2>2. IsInjective(cache_list') /\ \A b \in Blocks : On(b)' => On(b)
    BY <2>1, TailOnce DEF OneBlock, On
  <2> QED BY Zenon, <1>2, <2>1, <2>2
<1>6. ASSUME NEW c \in Blocks \ Range(cache_list), create_cache(p, c) PROVE Sole(p)'
  <2> DEFINE s == op[p].sector
  <2>1. /\ pc[p] = "fill" /\ cache_list' = Append(cache_list, c) /\ UNCHANGED <<at, on, op>>
        /\ sid' = [sid EXCEPT ![c] = s] /\ cur' = [cur EXCEPT ![p] = c] /\ GoTo(p, "io")
        /\ read_cnt' = [read_cnt EXCEPT ![c] = 0] /\ read_end' = [read_end EXCEPT ![c] = {}]
    BY ZenonT(60), <1>6 DEF create_cache
  <2>2. ~Contains(cache_list, c)
    BY DEF Range, Contains
  <2>3. IsInjective(cache_list') /\ \A b : On(b)' <=> On(b) \/ b = c
    BY ZenonT(60), <2>1, <2>2, AppendOnce DEF OneBlock, On
  <2>4. /\ sid'[c] = s /\ s \in Sectors /\ \A b \in Blocks : b # c => sid'[b] = sid[b]
        /\ \A b \in Blocks : On(b) => sid[b] # s
    BY <2>1 DEF TypeOK, CallType, BlockOK
  <2>5. OneBlock'
    BY Zenon, <2>2, <2>3, <2>4 DEF OneBlock, On
  <2>6. pc'[p] = "io" /\ cur'[p] = c /\ op'[p] = op[p]
    BY Zenon, <2>1 DEF GoTo
  <2>7. CallOK(p)'
    BY Zenon, <2>1, <2>6 DEF CallOK, Reading
  <2>8. On(cur[p])' /\ sid'[cur'[p]] = op'[p].sector
    BY Zenon, <2>1, <2>3, <2>4, <2>6 DEF On
  <2>9. AccessOK(p)'
    BY ZenonT(60), <2>1, <2>6 DEF AccessOK, Reading, TypeOK, RWTypeOK, Blocks
  <2> QED BY Zenon, <2>5, <2>6, <2>7, <2>8, <2>9 DEF Sole, BlockOK
<1> QED BY Zenon, <1>3, <1>4, <1>5, <1>6

\* The read and the write of the client's block.
LEMMA SoleIo ==
  ASSUME SoleInv, TypeOK', NEW p \in Clients, Sole(p),
         read_begin(p) \/ read_done(p) \/ write_begin(p) \/ write_wake(p) \/ write_done(p)
  PROVE  Sole(p)'
<1>0. /\ TypeOK /\ pc \in [Threads -> Places] /\ p \in Threads
      /\ op \in [Clients -> CallType] /\ cur[p] \in Blocks
      /\ OneBlock /\ CallOK(p) /\ BlockOK(p) /\ AccessOK(p)
      /\ at \in [Threads -> {"out", "reading", "waiting", "woken", "writing"}]
      /\ on \in [Threads -> Blocks] /\ read_cnt \in [Blocks -> Nat]
      /\ UNCHANGED <<cache_list, sid>>
  BY Zenon, CacheAssumption
     DEF SoleInv, CapInv, TypeOK, RWTypeOK, CacheAssumption, CallType, Sole, read_begin, read_done,
         write_begin, write_wake, write_done, listVars, blockVars, Blocks
<1>z. 0 + 1 = 1
  OBVIOUS
<1> USE <1>0
<1>1. OneBlock'
  BY Zenon DEF OneBlock, On
<1>2. CASE read_begin(p)
  <2>1. /\ pc[p] = "io" /\ op[p].kind = "read" /\ UNCHANGED <<op, cur, read_end>>
        /\ pc'[p] = "copy" /\ at'[p] = "reading" /\ on'[p] = cur[p]
        /\ read_cnt' = [read_cnt EXCEPT ![cur[p]] = @ + 1]
    BY Zenon, <1>2 DEF read_begin, read_cache, GoTo, callVars
  <2>2. ASSUME NEW b \in Blocks
        PROVE  read_end[b] = {} /\ read_cnt'[b] = IF cur[p] = b THEN 1 ELSE 0
    <3>1. read_end[b] = {} /\ read_cnt[b] = 0
      BY Zenon, <2>1 DEF AccessOK, Reading
    <3>2. CASE b = cur[p]
      <4>1. read_cnt'[cur[p]] = read_cnt[cur[p]] + 1
        BY Zenon, <2>1
      <4> QED BY Zenon, <3>1, <3>2, <4>1, <1>z
    <3>3. CASE b # cur[p]
      BY Zenon, <2>1, <3>1, <3>3
    <3> QED BY Zenon, <3>1, <3>2, <3>3
  <2>3. AccessOK(p)'
    BY ZenonT(60), <2>1, <2>2 DEF AccessOK, Reading
  <2> QED BY Zenon, <1>1, <2>1, <2>3 DEF Sole, CallOK, BlockOK, Reading, On
<1>3. ASSUME NEW o \in Blocks, leave_signal(p, o)
      PROVE  at'[p] = "out" /\ UNCHANGED read_end
  BY <1>3 DEF leave_signal, AccessOK
<1>4. CASE read_done(p)
  <2>1. /\ pc[p] = "leave" /\ end_read(p) /\ Return(p)
    BY <1>4 DEF read_done
  <2>2. on[p] = cur[p] /\ \A b \in Blocks : read_cnt[b] = IF cur[p] = b THEN 1 ELSE 0
    BY Zenon, <2>1 DEF AccessOK, Reading
  <2>3. ASSUME NEW b \in Blocks PROVE read_cnt'[b] = 0
    <3>1. read_cnt' = [read_cnt EXCEPT ![cur[p]] = @ - 1]
      BY ZenonT(60), <2>1, <2>2 DEF end_read
    <3>2. CASE b = cur[p]
      BY <2>2, <3>1, <3>2
    <3>3. CASE b # cur[p]
      BY <2>2, <3>1, <3>3
    <3> QED BY Zenon, <3>2, <3>3
  <2>4. at'[p] = "out" /\ UNCHANGED read_end
    BY Zenon, <1>3, <2>1, <2>2 DEF end_read
  <2> QED BY ZenonT(60), <1>1, <2>1, <2>3, <2>4, SoleReturn DEF AccessOK
<1>5. CASE write_begin(p)
  <2>1. /\ pc[p] = "io" /\ op[p].kind = "write" /\ UNCHANGED <<op, cur, read_cnt>>
        /\ pc'[p] = "write" /\ write_cache(p, cur[p])
    BY Zenon, <1>5 DEF write_begin, write_cache, GoTo, callVars
  <2>2. read_cnt[cur[p]] = 0
    BY Zenon, <2>1 DEF AccessOK, Reading
  <2>3. at'[p] = "writing" /\ UNCHANGED read_end
    <3>1. ~(read_cnt[cur[p]] > 0)
      BY <2>2
    <3> QED BY Zenon, <2>1, <3>1 DEF write_cache
  <2>4. AccessOK(p)'
    BY Zenon, <2>1, <2>3 DEF AccessOK, Reading
  <2> QED BY Zenon, <1>1, <2>1, <2>4 DEF Sole, CallOK, BlockOK, Reading, On
<1>6. CASE write_wake(p)
  BY Zenon, <1>6 DEF write_wake, write_resume, AccessOK
<1>7. CASE write_done(p)
  <2>1. /\ pc[p] = "write" /\ end_write(p) /\ Return(p) /\ UNCHANGED read_cnt
    BY <1>7 DEF write_done, end_write
  <2>2. at'[p] = "out" /\ UNCHANGED read_end
    BY Zenon, <1>3, <2>1 DEF end_write
  <2>3. \A b \in Blocks : read_end[b] = {} /\ read_cnt[b] = 0
    BY ZenonT(60), <2>1 DEF AccessOK, Reading
  <2> QED BY ZenonT(60), <1>1, <2>1, <2>2, <2>3, SoleReturn
<1> QED BY <1>2, <1>4, <1>5, <1>6, <1>7

\* The steps of the write-behind thread do not touch what the client relies on.
LEMMA SoleDaemon ==
  ASSUME SoleInv, CapInv', cwf_lock \/ write_to_disk \/ cwf_unlock
  PROVE  TypeOK' /\ \A p \in Clients : Sole(p)'
<1>0. TypeOK /\ Daemon \in Threads /\ Daemon \notin Clients /\ Clients \subseteq Threads
  BY CacheAssumption DEF SoleInv, CacheAssumption
<1>1. UNCHANGED <<rwVars, cache_list, used_cache, sid, AB, data, op, cur, got, histVars>>
  BY Zenon DEF cwf_lock, write_to_disk, cwf_unlock, listVars, blockVars, callVars
<1>2. pc' = pc \/ \E l \in Places : pc' = [pc EXCEPT ![Daemon] = l]
  BY Zenon DEF cwf_lock, write_to_disk, cwf_unlock, GoTo, Places
<1>3. \A p \in Clients : pc'[p] = pc[p]
  BY <1>0, <1>2 DEF TypeOK
<1>4. ASSUME NEW p \in Clients PROVE Sole(p)'
  <2>1. OneBlock /\ CallOK(p) /\ BlockOK(p) /\ AccessOK(p)
    BY DEF SoleInv
  <2>2. OneBlock' /\ CallOK(p)' /\ BlockOK(p)'
    BY Zenon, <1>1, <1>3, <2>1 DEF OneBlock, CallOK, BlockOK, On, Reading
  <2>3. AccessOK(p)'
    BY ZenonT(60), <1>1, <1>3, <2>1 DEF AccessOK, rwVars, Reading
  <2> QED BY <2>2, <2>3 DEF Sole
<1>5. cache_lock' \in Threads \cup {NoThread}
  BY <1>0 DEF cwf_lock, write_to_disk, cwf_unlock, TypeOK
<1>6. DB' \in [Blocks -> BOOLEAN] /\ disk' \in [Sectors -> Values]
  <2>1. CASE cwf_lock \/ cwf_unlock
    BY <1>0, <2>1 DEF cwf_lock, cwf_unlock, blockVars, TypeOK
  <2>2. CASE write_to_disk
    <3> DEFINE c == cache_list[hand[Daemon]]
    <3>1. /\ DB' = [DB EXCEPT ![c] = FALSE]
          /\ disk' = disk \/ disk' = [disk EXCEPT ![sid[c]] = data[c]]
      BY Zenon, <2>2 DEF write_to_disk
    <3>2. c \in Blocks
      <4>1. hand[Daemon] \in 1 .. Len(cache_list)
        <5>1. CapInv /\ hand[Daemon] <= Len(cache_list)
          BY Zenon, <2>2 DEF write_to_disk, SoleInv
        <5> QED BY Zenon, <1>0, <5>1, HandOnList
      <4> QED BY <1>0, <4>1 DEF TypeOK
    <3> HIDE DEF c
    <3> QED BY ZenonT(60), <1>0, <3>1, <3>2 DEF TypeOK
  <2> QED BY ZenonT(60), <2>1, <2>2
<1> QED BY ZenonT(60), <1>0, <1>1, <1>4, <1>5, <1>6 DEF TypeOK, RWTypeOK, rwVars, histVars, CapInv, Places

\* The one client finds the cache empty.
LEMMA InitSole == OneClient /\ Init => SoleInv
<1> SUFFICES ASSUME OneClient, Init PROVE SoleInv
  BY Zenon
<1>0. Clients \subseteq Threads /\ Daemon \notin Clients /\ \A b : ~On(b)
  BY CacheAssumption DEF CacheAssumption, Init, On, Contains
<1>1. NoCall \in CallType
  BY ZenonT(60), UnsetMember DEF NoCall, CallType
<1>2. TypeOK
  BY <1>0, <1>1, UnsetMember DEF Init, TypeOK, RWInit, RWTypeOK, CallType, Blocks
<1>3. OneBlock
  BY <1>0 DEF OneBlock, Init, IsInjective
<1>4. ASSUME NEW p \in Clients PROVE CallOK(p) /\ BlockOK(p) /\ AccessOK(p)
  <2>1. /\ pc[p] = "idle" /\ op[p] = NoCall /\ at[p] = "out"
        /\ \A b \in Blocks : read_end[b] = {} /\ read_cnt[b] = 0
    BY <1>0 DEF Init, RWInit, Blocks
  <2> QED BY Zenon, <2>1 DEF CallOK, BlockOK, AccessOK, Reading
<1> QED BY <1>2, <1>3, <1>4, InitCap DEF SoleInv

\* No step breaks what the one client relies on.
LEMMA NextSole == SoleInv /\ [Next]_vars => SoleInv'
<1> SUFFICES ASSUME SoleInv, [Next]_vars PROVE SoleInv'
  OBVIOUS
<1>1. CapInv' /\ OneClient
  BY NextCap DEF SoleInv
<1>2. CASE UNCHANGED vars
  <2>1. TypeOK'
    BY <1>2 DEF SoleInv, TypeOK, RWTypeOK, vars, rwVars, listVars, blockVars, callVars,
                histVars
  <2>2. OneBlock' /\ \A p \in Clients : CallOK(p)' /\ BlockOK(p)' /\ AccessOK(p)'
    <3>1. UNCHANGED <<cache_list, sid, pc, op, cur>> /\ UNCHANGED <<at, on, read_end, read_cnt>>
      BY Zenon, <1>2 DEF vars, rwVars, listVars, blockVars, callVars
    <3>2. OneBlock'
      BY Zenon, <3>1 DEF SoleInv, OneBlock, On
    <3>3. ASSUME NEW p \in Clients PROVE CallOK(p)' /\ BlockOK(p)' /\ AccessOK(p)'
      <4>1. CallOK(p) /\ BlockOK(p) /\ AccessOK(p)
        BY Zenon DEF SoleInv
      <4>2. CallOK(p)' /\ BlockOK(p)'
        BY Zenon, <3>1, <4>1 DEF CallOK, BlockOK, Reading, On
      <4> QED BY Zenon, <3>1, <4>1, <4>2 DEF AccessOK, Reading
    <3> QED BY Zenon, <3>2, <3>3
  <2> QED BY ZenonT(60), <1>1, <2>1, <2>2 DEF SoleInv
<1>3. ASSUME NEW p \in Clients, ClientStep(p) PROVE SoleInv'
  <2>1. TypeOK'
    BY <1>1, <1>3, SoleTypes
  <2>2. Sole(p)
    BY Zenon DEF SoleInv, Sole
  <2>3. Sole(p)'
    BY ZenonT(60), <1>3, <2>1, <2>2, SoleMoves, SoleFind, SoleList, SoleIo DEF ClientStep
  <2> QED BY <1>1, <1>3, <2>1, <2>3 DEF SoleInv, Sole, OneClient
<1>4. CASE cwf_lock \/ write_to_disk \/ cwf_unlock
  <2>1. TypeOK' /\ \A p \in Clients : Sole(p)'
    BY <1>1, <1>4, SoleDaemon
  <2>2. OneBlock'
    BY Zenon, <1>4 DEF SoleInv, OneBlock, On, cwf_lock, write_to_disk, cwf_unlock, listVars, blockVars
  <2> QED BY <1>1, <2>1, <2>2 DEF SoleInv, Sole
<1> QED BY <1>2, <1>3, <1>4 DEF Next

\* With one caller at a time, every block access keeps its types: the count of
\* readers never falls below zero.
THEOREM TypeKept == OneClient /\ Spec => []TypeOK
<1>1. SoleInv => TypeOK
  BY DEF SoleInv
<1> QED BY <1>1, InitSole, NextSole, PTL DEF Spec

\* With one caller at a time, find_cache and create_cache never hold a sector
\* twice, whatever is evicted or removed between them.
THEOREM SectorsOnce == OneClient /\ Spec => []OneBlockPerSector
<1>1. SoleInv => OneBlockPerSector
  <2> SUFFICES ASSUME SoleInv PROVE OneBlockPerSector
    OBVIOUS
  <2>0. cache_list \in Seq(Blocks) /\ OneBlock
    BY DEF SoleInv, CapInv
  <2>1. Cardinality(Range(cache_list)) = Len(cache_list)
    BY <2>0, OnceByCardinality DEF OneBlock
  <2>2. ASSUME NEW s \in Sectors PROVE Cardinality(Hits(s)) <= 1
    <3>1. \A i, j \in Hits(s) : i = j
      <4>1. ASSUME NEW i \in Hits(s), NEW j \in Hits(s) PROVE i = j
        <5>1. /\ i \in 1 .. Len(cache_list) /\ j \in 1 .. Len(cache_list)
              /\ DOMAIN cache_list = 1 .. Len(cache_list)
              /\ sid[cache_list[i]] = s /\ sid[cache_list[j]] = s
          BY <2>0 DEF Hits
        <5>2. cache_list[i] = cache_list[j]
          BY <2>0, <5>1 DEF OneBlock, On, Contains
        <5> QED BY Zenon, <2>0, <5>1, <5>2 DEF OneBlock, IsInjective
      <4> QED BY Zenon, <4>1
    <3>2. CASE Hits(s) = {}
      BY <3>2, FS_EmptySet
    <3>3. CASE Hits(s) # {}
      <4>1. PICK i : Hits(s) = {i}
        BY ZenonT(60), <3>1, <3>3
      <4> QED BY <4>1, FS_Singleton
    <3> QED BY Zenon, <3>2, <3>3
  <2> QED BY <2>1, <2>2 DEF OneBlockPerSector
<1> QED BY <1>1, InitSole, NextSole, PTL DEF Spec

\* With one caller at a time, the block cache_block returned is still there,
\* with the sector asked for, until the access is over.
THEOREM BlockHeld == OneClient /\ Spec => []HoldsItsBlock
<1>1. SoleInv => HoldsItsBlock
  BY DEF SoleInv, BlockOK, HoldsItsBlock, On
<1> QED BY <1>1, InitSole, NextSole, PTL DEF Spec

-----------------------------------------------------------------------------
(************************* the store of sectors ****************************)

\* Steps that change neither the list nor what its blocks and the disk hold: more
\* blocks may be dirty, and more sectors out of use.
LEMMA StoreSame ==
  ASSUME StoreInv, UNCHANGED <<cache_list, sid, data, disk, latest>>,
         \A b \in Blocks : DB[b] => DB'[b], freed \subseteq freed'
  PROVE  Clean' /\ \A s \in Sectors \ freed' : Current(s)'
<1>1. Clean'
  BY ZenonT(60) DEF StoreInv, Clean, On
<1>2. ASSUME NEW s \in Sectors \ freed' PROVE Current(s)'
  <2>1. Current(s)
    BY Zenon DEF StoreInv
  <2> QED BY <2>1 DEF Current, On
<1> QED BY Zenon, <1>1, <1>2

\* A block leaves the list, written to disk unless it is clean: its sector is on the
\* disk then, and no other sector is touched.
LEMMA StoreDrop ==
  ASSUME SoleInv, StoreInv, NEW c \in Blocks, On(c),
         \A b \in Blocks : On(b)' <=> On(b) /\ b # c,
         UNCHANGED <<sid, DB, data, latest, freed>>,
         \/ disk' = disk /\ ~DB[c]
         \/ disk' = [disk EXCEPT ![sid[c]] = data[c]]
  PROVE  Clean' /\ \A s \in Sectors \ freed' : Current(s)'
<1>0. /\ sid \in [Blocks -> Sectors] /\ disk \in [Sectors -> Values]
      /\ \A b \in Blocks : On(b) /\ sid[b] = sid[c] => b = c
  BY DEF SoleInv, TypeOK, OneBlock
<1>1. disk'[sid[c]] = data[c] /\ \A s \in Sectors : s # sid[c] => disk'[s] = disk[s]
  BY Zenon, <1>0 DEF StoreInv, Clean
<1>2. Clean'
  BY Zenon, <1>0, <1>1 DEF StoreInv, Clean
<1>3. ASSUME NEW s \in Sectors \ freed' PROVE Current(s)'
  <2>1. Current(s)
    BY Zenon DEF StoreInv
  <2>2. CASE s = sid[c]
    BY Zenon, <1>0, <1>1, <2>1, <2>2 DEF Current
  <2>3. CASE s # sid[c]
    BY Zenon, <1>0, <1>1, <2>1, <2>3 DEF Current
  <2> QED BY Zenon, <2>2, <2>3
<1> QED BY ZenonT(60), <1>2, <1>3

\* A step of the client that returns, or goes to a place where nothing is known of
\* the block, needs no dirty bit.
LEMMA StoreClient ==
  ASSUME SoleInv, StoreInv, NEW p \in Clients, ClientStep(p),
         Clean', \A s \in Sectors \ freed' : Current(s)', DataOK(p)'
  PROVE  StoreInv'
<1>0. Daemon \in Threads /\ Daemon # p /\ p \in Threads /\ pc \in [Threads -> Places]
  BY CacheAssumption DEF CacheAssumption, SoleInv, CapInv
<1>1. pc' = pc \/ \E l : pc' = [pc EXCEPT ![p] = l]
  BY Zenon DEF ClientStep, call, find_cache, touch, create_lock, cache_evict, create_cache,
         read_begin, read_copy, read_done, write_begin, write_wake, write_done,
         cache_remove, flush_lock, free_cache, flush_done, GoTo, Return
<1>2. pc'[Daemon] = "sleep"
  BY Zenon, <1>0, <1>1 DEF StoreInv
<1> QED BY Zenon, <1>2 DEF StoreInv, SoleInv, OneClient

\* Steps that leave blocks and disk alone.
LEMMA StoreMoves ==
  ASSUME SoleInv, StoreInv, NEW p \in Clients, Sole(p)
  PROVE  /\ \A k \in {"read", "write", "remove"}, s \in Sectors, v \in Values :
              call(p, k, s, v) => DataOK(p)' /\ UNCHANGED <<DB, freed>>
         /\ find_cache(p) => DataOK(p)' /\ UNCHANGED DB /\ freed \subseteq freed'
         /\ \/ create_lock(p) \/ read_begin(p) \/ read_copy(p) \/ read_done(p)
            \/ write_begin(p) \/ write_wake(p) \/ flush_lock(p) \/ flush_done(p)
            => DataOK(p)' /\ UNCHANGED <<DB, freed>>
<1>0. /\ pc \in [Threads -> Places] /\ p \in Threads /\ DataOK(p) /\ CallOK(p)
      /\ op \in [Clients -> CallType] /\ cur \in [Clients -> Blocks] /\ AccessOK(p)
  BY Zenon, CacheAssumption DEF SoleInv, CapInv, TypeOK, CacheAssumption, CallType, Sole, StoreInv
<1> USE <1>0
<1>1. ASSUME NEW k \in {"read", "write", "remove"}, NEW s \in Sectors, NEW v \in Values,
             call(p, k, s, v)
      PROVE  DataOK(p)' /\ UNCHANGED <<DB, freed>>
  <2>1. /\ pc'[p] = "find" /\ op'[p].kind = k /\ op'[p].sector = s
        /\ UNCHANGED <<DB, freed>> /\ (k = "read" => s \notin freed)
    BY <1>1 DEF call, GoTo, blockVars, histVars
  <2> QED BY ZenonT(60), <2>1 DEF DataOK
<1>2. ASSUME Return(p) PROVE DataOK(p)'
  <2>1. pc'[p] = "idle" /\ op'[p].kind = "none"
    BY ZenonT(60), <1>2 DEF Return, GoTo, NoCall
  <2> QED BY Zenon, <2>1 DEF DataOK
<1>3. ASSUME NEW l, GoTo(p, l), UNCHANGED <<op, cur, DB, freed>>,
             l \notin {"io", "write"} \/ (l = "write" /\ pc[p] = "io")
      PROVE  DataOK(p)'
  <2>1. pc'[p] = l
    BY <1>3 DEF GoTo
  <2> QED BY <1>3, <2>1 DEF DataOK
<1>4. ASSUME find_cache(p) PROVE DataOK(p)' /\ UNCHANGED DB /\ freed \subseteq freed'
  <2>1. UNCHANGED DB /\ freed \subseteq freed'
    BY <1>4 DEF find_cache, blockVars
  <2>2. CASE Return(p)
    BY Zenon, <1>2, <2>1, <2>2
  <2>3. CASE ~Return(p)
    <3>1. /\ UNCHANGED <<op, freed>> /\ pc'[p] \in {"remove", "touch", "create"}
      BY <1>4, <2>3 DEF find_cache, callVars, GoTo
    <3> QED BY ZenonT(60), <2>1, <3>1 DEF DataOK
  <2> QED BY ZenonT(60), <2>2, <2>3
<1>5. CASE create_lock(p) \/ read_begin(p) \/ read_copy(p)
           \/ write_begin(p) \/ flush_lock(p) \/ flush_done(p)
  BY ZenonT(60), <1>3, <1>5 DEF create_lock, read_begin, read_copy, write_begin, flush_lock, flush_done,
                    callVars, blockVars, histVars
<1>6. CASE read_done(p)
  BY <1>2, <1>6 DEF read_done, blockVars, histVars
<1>7. CASE write_wake(p)
  BY ZenonT(60), <1>7 DEF write_wake, write_resume, AccessOK
<1> QED BY Zenon, <1>1, <1>4, <1>5, <1>6, <1>7

\* The steps that write to a block or to the disk, or change the list.
LEMMA StoreWrites ==
  ASSUME SoleInv, StoreInv, NEW p \in Clients, Sole(p),
         \/ touch(p) \/ cache_evict(p)
         \/ \E c \in Blocks \ Range(cache_list) : create_cache(p, c)
         \/ write_done(p) \/ cache_remove(p) \/ free_cache(p)
  PROVE  Clean' /\ (\A s \in Sectors \ freed' : Current(s)') /\ DataOK(p)'
<1> DEFINE Goal == Clean' /\ (\A s \in Sectors \ freed' : Current(s)') /\ DataOK(p)'
<1>0. /\ pc \in [Threads -> Places] /\ p \in Threads /\ DataOK(p) /\ CallOK(p) /\ BlockOK(p)
      /\ op \in [Clients -> CallType] /\ cur \in [Clients -> Blocks] /\ OneBlock
      /\ cache_list \in Seq(Blocks) /\ DB \in [Blocks -> BOOLEAN]
      /\ data \in [Blocks -> Values] /\ sid \in [Blocks -> Sectors]
      /\ disk \in [Sectors -> Values] /\ latest \in [Sectors -> Values]
      /\ Clean /\ \A s \in Sectors \ freed : Current(s)
  BY Zenon, CacheAssumption
     DEF SoleInv, CapInv, TypeOK, CacheAssumption, CallType, Sole, StoreInv
<1> USE <1>0
<1>1. CASE touch(p)
  <2>1. /\ DB' = [DB EXCEPT ![cur[p]] = @ \/ op[p].kind = "write"] /\ GoTo(p, "io")
        /\ UNCHANGED <<cache_list, sid, data, disk, latest, freed, op, cur>>
    BY ZenonT(60), <1>1 DEF touch, listVars, histVars, callVars
  <2>2. \A b \in Blocks : DB[b] => DB'[b]
    BY <2>1
  <2>3. op[p].kind = "write" => DB'[cur'[p]]
    BY ZenonT(60), <2>1
  <2>4. DataOK(p)'
    BY <2>1, <2>3 DEF DataOK
  <2> QED BY Zenon, <2>1, <2>2, <2>4, StoreSame
<1>2. CASE cache_evict(p)
  <2> DEFINE c == cache_list[hand[p]]
  <2>1. /\ pc[p] = "fill" /\ hand[p] \in 1 .. Len(cache_list)
        /\ UNCHANGED <<pc, sid, DB, data, latest, freed, op>>
    <3>1. /\ pc[p] = "fill" /\ cache_list # <<>>
          /\ UNCHANGED <<pc, sid, DB, data, latest, freed, op>>
      BY Zenon, <1>2 DEF cache_evict, histVars, callVars
    <3>2. CapInv
      BY Zenon DEF SoleInv
    <3> QED BY Zenon, <3>1, <3>2, HandOnList
  <2>2. DataOK(p)'
    BY Zenon, <2>1 DEF DataOK
  <2>3. CASE AB[c]
    BY ZenonT(60), <1>2, <2>1, <2>2, <2>3, StoreSame DEF cache_evict, listVars
  <2>4. CASE ~AB[c]
    <3>1. /\ cache_list' = RemoveAt(cache_list, hand[p])
          /\ \/ disk' = disk /\ ~DB[c]
             \/ disk' = [disk EXCEPT ![sid[c]] = data[c]]
      BY ZenonT(60), <1>2, <2>4 DEF cache_evict
    <3>2. c \in Blocks /\ On(c)
      <4>1. c \in Blocks
        BY <2>1
      <4>2. On(c)
        BY ZenonT(60), <2>1 DEF On, Contains
      <4> QED BY Zenon, <4>1, <4>2
    <3>3. \A b \in Blocks : On(b)' <=> On(b) /\ b # c
      BY <2>1, <3>1, RemoveOnce DEF OneBlock, On
    <3> HIDE DEF c
    <3> QED BY <2>1, <2>2, <3>1, <3>2, <3>3, StoreDrop
  <2> QED BY Zenon, <2>3, <2>4
<1>3. CASE free_cache(p)
  <2> DEFINE c == Head(cache_list)
  <2>1. /\ pc[p] = "flush" /\ cache_list # <<>> /\ cache_list' = Tail(cache_list)
        /\ UNCHANGED <<pc, sid, DB, data, latest, freed, op>>
        /\ disk' = [disk EXCEPT ![sid[c]] = data[c]]
    BY Zenon, <1>3 DEF free_cache, histVars, callVars, blockVars
  <2>2. DataOK(p)'
    BY Zenon, <2>1 DEF DataOK
  <2>3. c \in Blocks /\ On(c) /\ \A b \in Blocks : On(b)' <=> On(b) /\ b # c
    BY ZenonT(60), <2>1, TailOnce DEF OneBlock, On
  <2> HIDE DEF c
  <2> QED BY ZenonT(60), <2>1, <2>2, <2>3, StoreDrop
<1>4. ASSUME NEW c \in Blocks \ Range(cache_list), create_cache(p, c) PROVE Goal
  <2> DEFINE s == op[p].sector
  <2>1. /\ pc[p] = "fill" /\ cache_list' = Append(cache_list, c)
        /\ UNCHANGED <<op, disk, latest, freed>>
        /\ sid' = [sid EXCEPT ![c] = s] /\ cur' = [cur EXCEPT ![p] = c] /\ GoTo(p, "io")
        /\ DB' = [DB EXCEPT ![c] = op[p].kind = "write"]
        /\ data' = [data EXCEPT ![c] = disk[s]]
    BY Zenon, <1>4 DEF create_cache, histVars
  <2>2. ~Contains(cache_list, c)
    BY ZenonT(60), RangeContains
  <2>3. \A b : On(b)' <=> On(b) \/ b = c
    BY <2>1, <2>2, AppendOnce DEF OneBlock, On
  <2>4. /\ sid'[c] = s /\ data'[c] = disk[s] /\ s \in Sectors
        /\ DB'[c] = (op[p].kind = "write")
        /\ \A b \in Blocks : b # c => sid'[b] = sid[b] /\ data'[b] = data[b] /\ DB'[b] = DB[b]
        /\ \A b \in Blocks : On(b) => sid[b] # s /\ b # c
    BY Zenon, <2>1, <2>2 DEF CallType, BlockOK, On
  <2>5. Clean'
    BY ZenonT(60), <2>1, <2>3, <2>4 DEF Clean
  <2>6. ASSUME NEW r \in Sectors \ freed' PROVE Current(r)'
    <3>1. Current(r)
      BY <2>1
    <3>2. CASE r = s
      BY ZenonT(60), <2>1, <2>3, <2>4, <3>1, <3>2 DEF Current
    <3>3. CASE r # s
      BY ZenonT(60), <2>1, <2>3, <2>4, <3>1, <3>3 DEF Current
    <3> QED BY Zenon, <3>2, <3>3
  <2>7. DataOK(p)'
    BY ZenonT(60), <2>1, <2>4 DEF DataOK, GoTo
  <2> QED BY <2>5, <2>6, <2>7
<1>5. ASSUME Return(p) PROVE DataOK(p)'
  <2>1. pc'[p] = "idle" /\ op'[p].kind = "none"
    BY ZenonT(60), <1>5 DEF Return, GoTo, NoCall
  <2> QED BY Zenon, <2>1 DEF DataOK
<1>6. CASE write_done(p)
  <2> DEFINE s == op[p].sector
             v == op[p].value
             c == cur[p]
  <2>1. /\ pc[p] = "write" /\ Return(p) /\ UNCHANGED <<cache_list, sid, DB, disk>>
        /\ data' = [data EXCEPT ![c] = v] /\ latest' = [latest EXCEPT ![s] = v]
        /\ freed' = freed \ {s}
    BY Zenon, <1>6 DEF write_done, listVars
  <2>2. /\ On(c) /\ sid[c] = s /\ DB[c] /\ s \in Sectors /\ c \in Blocks
        /\ \A b \in Blocks : On(b) /\ sid[b] = s => b = c
    BY Zenon, <2>1 DEF BlockOK, CallOK, DataOK, OneBlock, CallType
  <2> HIDE DEF s, v, c
  <2>3. /\ data'[c] = v /\ \A b \in Blocks : b # c => data'[b] = data[b]
        /\ latest'[s] = v /\ \A r \in Sectors : r # s => latest'[r] = latest[r]
        /\ \A b : On(b)' <=> On(b)
    BY Zenon, <2>1, <2>2 DEF On
  <2>4. Clean'
    BY Zenon, <2>1, <2>2, <2>3 DEF Clean
  <2>5. ASSUME NEW r \in Sectors \ freed' PROVE Current(r)'
    <3>1. CASE r = s
      BY Zenon, <2>1, <2>2, <2>3, <3>1 DEF Current
    <3>2. CASE r # s
      <4>1. Current(r)
        BY Zenon, <2>1, <3>2
      <4> QED BY ZenonT(60), <2>1, <2>2, <2>3, <3>2, <4>1 DEF Current
    <3> QED BY Zenon, <3>1, <3>2
  <2> QED BY <1>5, <2>1, <2>4, <2>5
<1>7. CASE cache_remove(p)
  <2> DEFINE s == op[p].sector
             c == cur[p]
  <2>1. /\ pc[p] = "remove" /\ Return(p) /\ UNCHANGED <<sid, DB, data, disk, latest>>
        /\ cache_list' = list_remove(cache_list, c) /\ freed' = freed \cup {s}
    BY Zenon, <1>7 DEF cache_remove, blockVars
  <2>2. sid[c] = s
    BY ZenonT(60), <2>1 DEF BlockOK
  <2>3. \A b : On(b)' <=> On(b) /\ b # c
    BY <2>1, ListRemoveOnce DEF OneBlock, On
  <2> HIDE DEF s, c
  <2>4. Clean'
    BY Zenon, <2>1, <2>3 DEF Clean
  <2>5. ASSUME NEW r \in Sectors \ freed' PROVE Current(r)'
    <3>1. Current(r) /\ r # s
      BY <2>1
    <3> QED BY ZenonT(60), <2>1, <2>2, <2>3, <3>1 DEF Current
  <2> QED BY Zenon, <1>5, <2>1, <2>4, <2>5
<1> QED BY ZenonT(60), <1>1, <1>2, <1>3, <1>4, <1>6, <1>7

\* The disk holds every sector at the start.
LEMMA InitStore == ~DaemonRuns /\ Init => StoreInv
<1> SUFFICES ASSUME ~DaemonRuns, Init PROVE StoreInv
  OBVIOUS
<1>1. \A b : ~On(b)
  BY DEF Init, On, Contains
<1>2. Daemon \in Threads /\ pc[Daemon] = "sleep" /\ disk = latest
  BY ZenonT(60), CacheAssumption DEF CacheAssumption, Init
<1>3. \A p \in Clients : op[p].kind = "none"
  BY DEF Init, NoCall
<1> QED BY Zenon, <1>1, <1>2, <1>3 DEF StoreInv, Clean, Current, DataOK

\* No step loses what was written.
LEMMA NextStore == SoleInv /\ StoreInv /\ [Next]_vars => StoreInv'
<1> SUFFICES ASSUME SoleInv, StoreInv, [Next]_vars PROVE StoreInv'
  OBVIOUS
<1>1. CASE UNCHANGED vars
  BY ZenonT(60), <1>1 DEF StoreInv, vars, listVars, blockVars, callVars, histVars, Clean, Current, On,
              DataOK
<1>2. ASSUME NEW p \in Clients, ClientStep(p) PROVE StoreInv'
  <2>1. Sole(p)
    BY ZenonT(60) DEF SoleInv, Sole
  <2>2. ASSUME NEW k \in {"read", "write", "remove"}, NEW s \in Sectors, NEW v \in Values,
               call(p, k, s, v)
        PROVE  StoreInv'
    <3>1. /\ DataOK(p)' /\ UNCHANGED <<DB, freed>>
          /\ UNCHANGED <<cache_list, sid, data, disk, latest>>
      BY ZenonT(60), <2>1, <2>2, StoreMoves DEF call, listVars, blockVars, histVars
    <3> QED BY <1>2, <3>1, StoreSame, StoreClient
  <2>3. CASE \/ find_cache(p)
             \/ create_lock(p) \/ read_begin(p) \/ read_copy(p) \/ read_done(p)
             \/ write_begin(p) \/ write_wake(p) \/ flush_lock(p) \/ flush_done(p)
    <3>1. DataOK(p)' /\ UNCHANGED DB /\ freed \subseteq freed'
      BY <2>1, <2>3, StoreMoves
    <3>2. UNCHANGED <<cache_list, sid, data, disk, latest>>
      BY ZenonT(60), <2>3 DEF find_cache, create_lock, read_begin, read_copy, read_done, write_begin,
                  write_wake, flush_lock, flush_done, listVars, blockVars, histVars
    <3> QED BY ZenonT(60), <1>2, <3>1, <3>2, StoreSame, StoreClient
  <2>4. CASE \/ touch(p) \/ cache_evict(p)
             \/ \E c \in Blocks \ Range(cache_list) : create_cache(p, c)
             \/ write_done(p) \/ cache_remove(p) \/ free_cache(p)
    BY <1>2, <2>1, <2>4, StoreWrites, StoreClient
  <2> QED BY <1>2, <2>2, <2>3, <2>4 DEF ClientStep
<1>3. CASE cwf_lock \/ write_to_disk \/ cwf_unlock
  BY ZenonT(60), <1>3 DEF StoreInv, cwf_lock, write_to_disk, cwf_unlock
<1> QED BY <1>1, <1>2, <1>3 DEF Next

\* What a caller would find in a sector is the value last written to it.
LEMMA FindsLatest == SoleInv /\ StoreInv => [s \in Sectors |-> Lookup(s)] = latest
<1> SUFFICES ASSUME SoleInv, StoreInv PROVE [s \in Sectors |-> Lookup(s)] = latest
  OBVIOUS
<1>0. cache_list \in Seq(Blocks) /\ latest \in [Sectors -> Values]
  BY DEF SoleInv, TypeOK
<1>1. ASSUME NEW s \in Sectors PROVE Lookup(s) = latest[s]
  <2>1. CASE s \in freed
    BY Zenon, <2>1 DEF Lookup
  <2>2. CASE s \notin freed
    <3>0. /\ Current(s) /\ Hits(s) \in SUBSET Nat
          /\ \A i : i \in Hits(s) <=> i \in 1 .. Len(cache_list) /\ sid[cache_list[i]] = s
      BY <1>0, <2>2 DEF StoreInv, Hits
    <3>1. CASE Hits(s) = {}
      <4>1. \A b \in Blocks : On(b) => sid[b] # s
        BY <3>0, <3>1 DEF On, Contains
      <4> QED BY ZenonT(60), <2>2, <3>0, <3>1, <4>1 DEF Lookup, Current
    <3>2. CASE Hits(s) # {}
      <4>1. Min(Hits(s)) \in Hits(s)
        BY Zenon, <3>0, <3>2, LeastNat
      <4> DEFINE i == Min(Hits(s))
      <4>2. i \in 1 .. Len(cache_list) /\ sid[cache_list[i]] = s
        BY Zenon, <3>0, <4>1
      <4>3. Lookup(s) = data[cache_list[i]]
        BY ZenonT(60), <2>2, <3>2 DEF Lookup
      <4> HIDE DEF i
      <4>4. cache_list[i] \in Blocks /\ On(cache_list[i])
        BY <1>0, <4>2 DEF On, Contains
      <4> QED BY ZenonT(60), <3>0, <4>2, <4>3, <4>4 DEF Current
    <3> QED BY ZenonT(60), <3>1, <3>2
  <2> QED BY Zenon, <2>1, <2>2
<1> QED BY <1>0, <1>1

\* Every step of the cache is a step of the store, or none: a call, a read, a write
\* and a return are steps of the store, everything else is invisible.
LEMMA StoreStep ==
  ASSUME SoleInv, StoreInv, [s \in Sectors |-> Lookup(s)] = latest,
         [s \in Sectors |-> Lookup(s)]' = latest', [Next]_vars
  PROVE  [Store!Next]_<<[s \in Sectors |-> Lookup(s)], op, got>>
<1> DEFINE Content == [s \in Sectors |-> Lookup(s)]
           Same == UNCHANGED <<Content, op, got>>
<1>0. Content = latest /\ Content' = latest'
  BY ZenonT(60)
<1> HIDE DEF Content
<1>1. CASE UNCHANGED vars
  BY <1>0, <1>1 DEF vars, callVars, histVars
<1>2. ASSUME NEW p \in Clients, ClientStep(p) PROVE Store!Next \/ Same
  <2>0. CallOK(p) /\ BlockOK(p) /\ DataOK(p) /\ cur[p] \in Blocks /\ op[p].sector \in Sectors
    BY DEF SoleInv, StoreInv, TypeOK
  <2>1. ASSUME NEW k \in {"read", "write", "remove"}, NEW s \in Sectors, NEW v \in Values,
               call(p, k, s, v)
        PROVE  Store!Next
    <3>1. /\ op[p] = NoCall /\ UNCHANGED <<latest, got>>
          /\ op' = [op EXCEPT ![p] = [kind |-> k, sector |-> s, value |-> v]]
      BY ZenonT(60), <2>0, <2>1 DEF call, CallOK, histVars
    <3>2. Store!Call(p, k, s, v)
      BY <1>0, <3>1 DEF Store!Call, Content
    <3> QED BY <3>2 DEF Store!Next
  <2>2. CASE read_copy(p)
    <3>1. /\ op[p].kind = "read" /\ UNCHANGED <<latest, op>>
          /\ got' = [got EXCEPT ![p] = data[cur[p]]]
          /\ On(cur[p]) /\ sid[cur[p]] = op[p].sector
      BY ZenonT(60), <2>0, <2>2 DEF read_copy, CallOK, BlockOK, Reading, histVars, callVars
    <3>2. data[cur[p]] = latest[op[p].sector]
      BY Zenon, <2>0, <3>1 DEF StoreInv, Current, DataOK
    <3>3. Store!Read(p)
      BY ZenonT(60), <1>0, <3>1, <3>2 DEF Store!Read, Content
    <3> QED BY <3>3 DEF Store!Next
  <2>3. CASE write_done(p)
    <3>1. /\ op[p].kind = "write" /\ UNCHANGED got
          /\ latest' = [latest EXCEPT ![op[p].sector] = op[p].value]
          /\ op' = [op EXCEPT ![p] = NoCall]
      BY ZenonT(60), <2>0, <2>3 DEF write_done, CallOK, Return
    <3>2. Store!Write(p)
      BY <1>0, <3>1 DEF Store!Write, Content
    <3> QED BY <3>2 DEF Store!Next
  <2>4. ASSUME Return(p), op[p].kind \in {"read", "remove"}, UNCHANGED <<latest, got>>
        PROVE  Store!Next
    <3>1. Store!Return(p)
      BY <1>0, <2>4 DEF Store!Return, Content, Return
    <3> QED BY ZenonT(60), <3>1 DEF Store!Next
  <2>5. CASE read_done(p) \/ cache_remove(p)
    BY ZenonT(60), <2>0, <2>4, <2>5 DEF read_done, cache_remove, CallOK, Reading, histVars
  <2>6. CASE find_cache(p)
    BY ZenonT(60), <1>0, <2>4, <2>6 DEF find_cache, callVars
  <2>7. CASE UNCHANGED <<latest, op, got>>
    BY <1>0, <2>7
  <2> QED
    BY ZenonT(60), <1>2, <2>1, <2>2, <2>3, <2>5, <2>6, <2>7
       DEF ClientStep, touch, create_lock, cache_evict, create_cache, read_begin,
           write_begin, write_wake, flush_lock, free_cache, flush_done, callVars, histVars
<1>3. CASE cwf_lock \/ write_to_disk \/ cwf_unlock
  BY Zenon, <1>0, <1>3 DEF cwf_lock, write_to_disk, cwf_unlock, callVars, histVars
<1> QED BY <1>1, <1>2, <1>3 DEF Next, Content

\* With one caller at a time, and until the write-behind thread wakes up, the cache
\* is a store of sectors: a read returns what was last written, and no eviction,
\* removal or shutdown changes what a sector holds.
THEOREM StoreImplemented == OneClient /\ ~DaemonRuns /\ Spec => StoreSpec
<1>1. OneClient /\ ~DaemonRuns /\ Init => Store!Init
  <2> SUFFICES ASSUME OneClient, ~DaemonRuns, Init PROVE Store!Init
    OBVIOUS
  <2>1. [s \in Sectors |-> Lookup(s)] = latest
    BY ZenonT(60), InitSole, InitStore, FindsLatest
  <2>2. /\ latest \in [Sectors -> Values] /\ op = [p \in Clients |-> NoCall]
        /\ got \in [Clients -> Values]
    BY UnsetMember DEF Init
  <2> QED BY <2>1, <2>2 DEF Store!Init
<1>2. (SoleInv /\ StoreInv => [s \in Sectors |-> Lookup(s)] = latest)'
  BY FindsLatest, PTL
<1>3. SoleInv /\ StoreInv /\ [Next]_vars =>
        [Store!Next]_<<[s \in Sectors |-> Lookup(s)], op, got>>
  BY <1>2, NextSole, NextStore, FindsLatest, StoreStep
<1> QED BY <1>1, <1>3, InitSole, InitStore, NextSole, NextStore, PTL
        DEF Spec, StoreSpec, Store!Spec
=============================================================================
