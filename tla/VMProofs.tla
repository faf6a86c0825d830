------------------------------ MODULE VMProofs ------------------------------
(***************************************************************************)
(* Frames and swap slots are accounted for, and frames are never shared,   *)
(* for any number of processes, pages, frames and swap slots; and paging   *)
(* is invisible to a process that has the memory to itself.                *)
(***************************************************************************)
EXTENDS VM, WellFoundedInduction, TLAPS

\* The provers for the steps that name none, in this order.
USE SMTT(20), Z3T(20), ZenonT(60)

-----------------------------------------------------------------------------
(***************************** the lists ***********************************)

\* A nonempty set of natural numbers has a least element.
LEMMA LeastNat ==
  ASSUME NEW T \in SUBSET Nat, T # {}
  PROVE  /\ Min(T) \in T
         /\ \A n \in T : Min(T) <= n
<1>1. PICK m \in T : \A n \in T : ~(<<n, m>> \in OpToRel(<, Nat))
  BY NatLessThanWellFounded, WFMin
<1>2. ASSUME NEW n \in T PROVE m <= n
  <2>1. CASE n < m
    <3>1. <<n, m>> \in OpToRel(<, Nat)
      BY <2>1, <<n, m>>[1] < <<n, m>>[2], <<n, m>> \in Nat \X Nat DEF OpToRel
    <3> QED BY <1>1, <3>1
  <2> QED BY <2>1
<1> QED
  BY <1>1, <1>2 DEF Min

\* What is on a list without duplicates after the removal of its i-th element.
LEMMA RemoveOnce ==
  ASSUME NEW S, NEW s \in Seq(S), NEW i \in 1 .. Len(s),
         IsInjective(s)
  PROVE  /\ RemoveAt(s, i) \in Seq(S)
         /\ IsInjective(RemoveAt(s, i))
         /\ \A e : Contains(RemoveAt(s, i), e) <=> Contains(s, e) /\ e # s[i]
<1> DEFINE r == RemoveAt(s, i)
<1>7. r \in Seq(S) /\ Len(r) = Len(s) - 1 /\ DOMAIN r = 1 .. Len(s) - 1
  BY DEF RemoveAt
<1>8. \A k \in 1 .. Len(s) - 1 : r[k] = IF k < i THEN s[k] ELSE s[k + 1]
  BY DEF RemoveAt
<1> HIDE DEF r
<1>9. IsInjective(r)
  <2> DEFINE old(n) == IF n < i THEN n ELSE n + 1
  <2>1. ASSUME NEW j \in 1 .. Len(s) - 1, NEW k \in 1 .. Len(s) - 1, r[j] = r[k]
        PROVE  j = k
    <3>1. /\ old(j) \in 1 .. Len(s) /\ r[j] = s[old(j)]
          /\ old(k) \in 1 .. Len(s) /\ r[k] = s[old(k)]
      BY <1>8
    <3> HIDE DEF old
    <3>2. \A m, n \in 1 .. Len(s) : s[m] = s[n] => m = n
      BY DEF IsInjective
    <3>3. old(j) = old(k)
      BY Zenon, <2>1, <3>1, <3>2
    <3> USE DEF old
    <3> QED BY <3>3
  <2> QED BY <1>7, <2>1 DEF IsInjective
<1>10. ASSUME NEW e, Contains(s, e), e # s[i] PROVE Contains(r, e)
  <2>1. PICK k \in 1 .. Len(s) : s[k] = e
    BY <1>10 DEF Contains
  <2>2. k # i
    BY <1>10, <2>1
  <2>3. CASE k < i
    BY <2>1, <2>3, <1>7, <1>8 DEF Contains
  <2>4. CASE k > i
    <3>1. k - 1 \in 1 .. Len(s) - 1 /\ ~(k - 1 < i) /\ (k - 1) + 1 = k
      BY <2>4
    <3>2. r[k - 1] = e
      BY <2>1, <3>1, <1>8
    <3> QED BY <3>1, <3>2, <1>7 DEF Contains
  <2> QED BY <2>2, <2>3, <2>4
<1>11. ASSUME NEW e, Contains(r, e) PROVE Contains(s, e) /\ e # s[i]
  <2>1. PICK k \in 1 .. Len(s) - 1 : r[k] = e
    BY <1>7, <1>11 DEF Contains
  <2>2. PICK n \in 1 .. Len(s) : s[n] = e /\ n # i
    <3>2. CASE k < i
      BY <2>1, <3>2, <1>8
    <3>3. CASE ~(k < i)
      BY <2>1, <3>3, <1>8
    <3> QED BY <3>2, <3>3
  <2>3. e # s[i]
    BY <2>2 DEF IsInjective
  <2> QED BY <2>2, <2>3 DEF Contains
<1> QED BY <1>7, <1>9, <1>10, <1>11 DEF r

\* list_remove of an element that is on such a list, or is not.
LEMMA ListRemoveOnce ==
  ASSUME NEW S, NEW s \in Seq(S), NEW x, IsInjective(s)
  PROVE  /\ list_remove(s, x) \in Seq(S)
         /\ IsInjective(list_remove(s, x))
         /\ \A e : Contains(list_remove(s, x), e) <=> Contains(s, e) /\ e # x
<1>1. CASE ~Contains(s, x)
  BY <1>1 DEF list_remove
<1>2. CASE Contains(s, x)
  <2>1. Place(s, x) \in 1 .. Len(s) /\ s[Place(s, x)] = x
    BY <1>2 DEF Place, Contains
  <2>2. list_remove(s, x) = RemoveAt(s, Place(s, x))
    BY <1>2 DEF list_remove
  <2> HIDE DEF Place
  <2> QED BY <2>1, <2>2, RemoveOnce
<1> QED BY <1>1, <1>2

\* An element appended to a list it is not on.
LEMMA AppendOnce ==
  ASSUME NEW S, NEW s \in Seq(S), NEW x \in S, ~Contains(s, x),
         IsInjective(s)
  PROVE  /\ Append(s, x) \in Seq(S)
         /\ IsInjective(Append(s, x))
         /\ \A e : Contains(Append(s, x), e) <=> Contains(s, e) \/ e = x
<1>1. /\ Append(s, x) \in Seq(S) /\ Len(Append(s, x)) = Len(s) + 1
      /\ \A k \in 1 .. Len(s) : Append(s, x)[k] = s[k]
      /\ Append(s, x)[Len(s) + 1] = x
  OBVIOUS
<1>2. \A k \in 1 .. Len(s) : s[k] # x
  BY DEF Contains
<1> DEFINE r == Append(s, x)
<1>3. DOMAIN r = 1 .. Len(s) + 1 /\ DOMAIN s = 1 .. Len(s) /\ Len(s) \in Nat
  BY <1>1
<1> HIDE DEF r
<1>4. IsInjective(r)
  BY <1>1, <1>2, <1>3 DEF r, IsInjective
<1>5. \A e : Contains(r, e) <=> Contains(s, e) \/ e = x
  BY <1>1, <1>3 DEF r, Contains
<1> QED BY <1>1, <1>4, <1>5 DEF r

-----------------------------------------------------------------------------
(*************************** the invariants ********************************)

Calls == {NONE, "out", "load", "check", "copy", "munmap", "exit"}
Ptes == [p : BOOLEAN, kpage : Kpages \cup {0}, d : BOOLEAN, a : BOOLEAN]
Frames == [type : {NONE, "FILE", "MMAP", "SWAP"}, load : BOOLEAN,
           kpage : Kpages \cup {0}, index : Slots \cup {-1}, spt : BOOLEAN]
Ops == [call : Calls, fault : Upages \cup {NONE}, new : BOOLEAN,
        buffer : Seq(Upages), todo : Seq(Upages)]

\* The types of what the proofs are about.
TypeInv ==
  /\ pte \in [Pages -> Ptes] /\ frame \in [Pages -> Frames]
  /\ frame_table \in Seq(Pages)
  /\ pool \subseteq Kpages /\ kdirty \subseteq Kpages /\ swap_bitmap \subseteq Slots
  /\ op \in [Procs -> Ops]

\* The frame table lists the pages in memory, once each.
TableInv ==
  /\ \A pg \in Pages : frame[pg].load <=> Contains(frame_table, pg)
  /\ IsInjective(frame_table)

\* A page in memory has a frame of its own, which the kernel has written; a frame
\* that no page has is free.
PoolInv ==
  /\ \A pg \in Pages : frame[pg].load => frame[pg].kpage \in kdirty \ pool
  /\ \A pg, g \in Pages :
       frame[pg].load /\ frame[g].load /\ frame[pg].kpage = frame[g].kpage => pg = g
  /\ \A k \in Kpages \ pool : \E pg \in Pages : frame[pg].load /\ frame[pg].kpage = k

Swapped(pg) == frame[pg].type = "SWAP" /\ ~frame[pg].load

\* A page in swap has a slot of its own; a slot that no page has is free.
SwapInv ==
  /\ \A pg \in Pages : Swapped(pg) => frame[pg].index \in swap_bitmap
  /\ \A pg, g \in Pages :
       Swapped(pg) /\ Swapped(g) /\ frame[pg].index = frame[g].index => pg = g
  /\ \A s \in swap_bitmap : \E pg \in Pages : Swapped(pg) /\ frame[pg].index = s

\* A page is being entered into the tables by its process.
Entering(pg) == op[pg[1]].new /\ op[pg[1]].fault = pg[2]

\* A page is present when it is in memory, unless its process has yet to map it.
PteInv ==
  \A pg \in Pages :
    /\ pte[pg].p => frame[pg].load /\ pte[pg].kpage = frame[pg].kpage
    /\ frame[pg].load => pte[pg].p \/ Entering(pg)

\* A process brings in a page it does not have; while it enters a new page, evict
\* leaves that page alone, and the process does nothing else.
OpOK(p) ==
  LET pg == <<p, op[p].fault>>
  IN  /\ op[p].new => /\ op[p].fault # NONE /\ frame[pg].load
                      /\ ~frame[pg].spt /\ frame[pg].type = "SWAP"
      /\ op[p].fault # NONE => ~pte[pg].p
      /\ op[p].call \in {"out", "munmap", "exit"} => op[p].fault = NONE
      /\ op[p].call = "out" => \A g \in Pages : g[1] = p => frame[g] = NoFrame
OpInv == \A p \in Procs : OpOK(p)

IInv == TypeInv /\ TableInv /\ PoolInv /\ SwapInv /\ PteInv /\ OpInv

-----------------------------------------------------------------------------
\* A page is a process and an upage.
LEMMA PageParts ==
  /\ \A pg \in Pages : pg[1] \in Procs /\ pg[2] \in Upages /\ pg = <<pg[1], pg[2]>>
  /\ \A p \in Procs, u \in Upages : /\ <<p, u>> \in Pages
                                    /\ <<p, u>>[1] = p /\ <<p, u>>[2] = u
BY DEF Pages

\* The fields of a process's operation have their types.
LEMMA OpTypes ==
  /\ Idle \in Ops
  /\ \A c \in Calls : [Idle EXCEPT !.call = c] \in Ops
  /\ [Idle EXCEPT !.call = "load", !.fault = StackTop] \in Ops
  /\ \A b \in Buffers : [Idle EXCEPT !.call = "check", !.buffer = b, !.todo = b] \in Ops
<1>1. Buffers \subseteq Seq(Upages) /\ StackTop \in Upages /\ <<>> \in Seq(Upages)
  BY VMAssumption DEF VMAssumption, Upages
<1>2. Idle \in Ops
  BY <1>1 DEF Idle, Ops, Calls
<1> QED BY Zenon, <1>1, <1>2 DEF Idle, Ops, Calls

\* The initial states satisfy the invariant.
LEMMA InitInv == Init => IInv
<1> SUFFICES ASSUME Init PROVE IInv
  OBVIOUS
<1> USE VMAssumption DEF VMAssumption
<1>1. NoPte \in Ptes /\ NoFrame \in Frames
  BY DEF NoPte, NoFrame, Ptes, Frames
<1>2. TypeInv
  <2>1. pte \in [Pages -> Ptes] /\ frame \in [Pages -> Frames]
    BY <1>1 DEF Init
  <2>2. op \in [Procs -> Ops]
    BY Zenon, OpTypes DEF Init, Calls
  <2> QED BY <2>1, <2>2 DEF Init, TypeInv
<1>3. \A pg \in Pages : ~frame[pg].load /\ ~Swapped(pg) /\ ~pte[pg].p /\ frame[pg] = NoFrame
  BY DEF Init, NoFrame, NoPte, Swapped, NONE
<1>4. TableInv
  BY <1>3 DEF Init, TableInv, Contains, IsInjective
<1>5. PoolInv /\ SwapInv /\ PteInv
  BY <1>3 DEF Init, PoolInv, SwapInv, PteInv
<1>6. \A p \in Procs : op[p].fault = NONE /\ ~op[p].new
  BY DEF Init, Idle
<1>7. OpInv
  BY <1>3, <1>6 DEF OpInv, OpOK
<1> QED BY <1>2, <1>4, <1>5, <1>7 DEF IInv

\* A frame that is free and a slot that is free, as evict and palloc_get_page find
\* them.
LEMMA FreeFrame ==
  ASSUME TypeInv, pool # {}
  PROVE  kpage \in pool /\ kpage \in Kpages
<1>1. pool \in SUBSET Nat
  BY VMAssumption DEF TypeInv, Kpages, VMAssumption
<1> QED BY Zenon, <1>1, LeastNat DEF kpage, TypeInv

-----------------------------------------------------------------------------
\* What a step of p that changes neither memory nor swap has to respect: p may go on
\* to another operation, and pages that have no frame and no slot may change.
LEMMA QuietStep ==
  ASSUME IInv, NEW p \in Procs, NEW o \in Ops, op' = [op EXCEPT ![p] = o],
         ~op[p].new, ~o.new,
         o.fault # NONE => ~pte[<<p, o.fault>>].p,
         o.call \in {"out", "munmap", "exit"} => o.fault = NONE,
         o.call = "out" => \A g \in Pages : g[1] = p => frame'[g] = NoFrame,
         frame' \in [Pages -> Frames],
         \A pg \in Pages : pg[1] # p => frame'[pg] = frame[pg],
         \A pg \in Pages :
           \/ frame'[pg] = frame[pg]
           \/ /\ ~frame[pg].load /\ ~frame'[pg].load
              /\ frame[pg].type # "SWAP" /\ frame'[pg].type # "SWAP",
         pte' \in [Pages -> Ptes],
         \A pg \in Pages : /\ pte'[pg].p = pte[pg].p
                           /\ pte[pg].p => pte'[pg].kpage = pte[pg].kpage,
         UNCHANGED <<frame_table, pool, kdirty, swap_bitmap>>
  PROVE  IInv'
<1> USE DEF IInv
<1>1. TypeInv'
  BY DEF TypeInv
<1>2. \A pg \in Pages : /\ frame'[pg].load = frame[pg].load
                        /\ Swapped(pg)' <=> Swapped(pg)
                        /\ frame[pg].load \/ Swapped(pg) => frame'[pg] = frame[pg]
  BY DEF Swapped, TypeInv, Frames
<1>3. TableInv'
  BY <1>2 DEF TableInv
<1>4. PoolInv'
  BY <1>2 DEF PoolInv, TypeInv
<1>5. SwapInv'
  BY <1>2 DEF SwapInv, TypeInv
<1>6. \A pg \in Pages : Entering(pg)' <=> Entering(pg)
  <2> TAKE pg \in Pages
  <2>1. CASE pg[1] = p
    BY <2>1, PageParts DEF Entering, TypeInv
  <2>2. CASE pg[1] # p
    BY <2>2, PageParts DEF Entering, TypeInv
  <2> QED BY <2>1, <2>2
<1>7. PteInv'
  BY <1>2, <1>6 DEF PteInv
<1>8. OpInv'
  <2> SUFFICES ASSUME NEW q \in Procs PROVE OpOK(q)'
    BY DEF OpInv, OpOK
  <2>1. CASE q = p
    <3>1. op'[q] = o
      BY <2>1 DEF TypeInv
    <3>2. o.fault # NONE => <<p, o.fault>> \in Pages
      BY PageParts DEF Ops
    <3> QED BY <2>1, <3>1, <3>2 DEF OpOK
  <2>2. CASE q # p
    <3>1. op'[q] = op[q]
      BY <2>2 DEF TypeInv
    <3>2. op[q].fault # NONE => <<q, op[q].fault>> \in Pages /\ <<q, op[q].fault>>[1] = q
      BY PageParts DEF TypeInv, Ops
    <3>3. \A g \in Pages : g[1] = q => frame'[g] = frame[g]
      BY <2>2
    <3> QED BY <3>1, <3>2, <3>3 DEF OpInv, OpOK
  <2> QED BY <2>1, <2>2
<1> QED BY <1>1, <1>3, <1>4, <1>5, <1>7, <1>8

\* The page a process brings in is a page that is not in memory, unless the process
\* is entering it.
LEMMA FaultPage ==
  ASSUME IInv, NEW p \in Procs, op[p].fault # NONE
  PROVE  /\ op[p].fault \in Upages /\ <<p, op[p].fault>> \in Pages
         /\ <<p, op[p].fault>>[1] = p /\ <<p, op[p].fault>>[2] = op[p].fault
         /\ op[p].call \notin {"out", "munmap", "exit"}
         /\ ~op[p].new => ~frame[<<p, op[p].fault>>].load
<1>1. op[p].fault \in Upages
  BY DEF IInv, TypeInv, Ops
<1>2. /\ <<p, op[p].fault>> \in Pages
      /\ <<p, op[p].fault>>[1] = p /\ <<p, op[p].fault>>[2] = op[p].fault
  BY <1>1, PageParts
<1>3. op[p].call \notin {"out", "munmap", "exit"} /\ ~pte[<<p, op[p].fault>>].p
  BY DEF IInv, OpInv, OpOK
<1>4. ~op[p].new => ~frame[<<p, op[p].fault>>].load
  BY <1>2, <1>3 DEF IInv, PteInv, Entering
<1> QED BY <1>1, <1>2, <1>3, <1>4

\* A page that has been filled, in page_back or file_back, is the only one in its
\* frame, and the slot it was in is free.
LEMMA LoadedStep ==
  ASSUME IInv, NEW p \in Procs, NEW pg, pg = <<p, op[p].fault>>,
         op[p].fault # NONE, ~op[p].new, pool # {}, Loaded(p, pg),
         swap_bitmap' = IF frame[pg].type = "SWAP" THEN swap_bitmap \ {frame[pg].index}
                                                   ELSE swap_bitmap
  PROVE  IInv'
<1> USE DEF IInv
<1>1. /\ pg \in Pages /\ pg[1] = p /\ pg[2] = op[p].fault /\ ~frame[pg].load
      /\ op[p].call \notin {"out", "munmap", "exit"}
  BY FaultPage
<1>2. kpage \in pool /\ kpage \in Kpages
  BY FreeFrame
<1> DEFINE k == kpage
<1>3. /\ k \in pool /\ k \in Kpages /\ pool' = pool \ {k} /\ kdirty' = kdirty \cup {k}
      /\ frame' = [frame EXCEPT ![pg].load = TRUE, ![pg].kpage = k, ![pg].index = -1]
      /\ frame_table' = Append(frame_table, pg)
      /\ pte' = [pte EXCEPT ![pg] = [NoPte EXCEPT !.p = TRUE, !.kpage = k]]
      /\ op' = [op EXCEPT ![p].fault = NONE]
  BY <1>2 DEF Loaded, install_page
<1> HIDE DEF k
<1>4. /\ frame'[pg].load /\ frame'[pg].kpage = k /\ frame'[pg].type = frame[pg].type
      /\ frame'[pg] \in Frames
      /\ \A g \in Pages \ {pg} : frame'[g] = frame[g]
  BY ZenonT(60), <1>1, <1>3 DEF TypeInv, Frames
<1>5. /\ pte'[pg] \in Ptes /\ pte'[pg].p /\ pte'[pg].kpage = k
      /\ \A g \in Pages \ {pg} : pte'[g] = pte[g]
  BY Zenon, <1>1, <1>3 DEF TypeInv, Ptes, NoPte
<1>6. /\ op'[p] \in Ops /\ op'[p].fault = NONE /\ ~op'[p].new /\ op'[p].call = op[p].call
      /\ \A q \in Procs \ {p} : op'[q] = op[q]
  BY Zenon, <1>3 DEF TypeInv, Ops
<1>7. ~Contains(frame_table, pg)
  BY <1>1 DEF TableInv
<1>8. /\ frame_table' \in Seq(Pages) /\ IsInjective(frame_table')
      /\ \A e : Contains(frame_table', e) <=> Contains(frame_table, e) \/ e = pg
  <2>1. frame_table \in Seq(Pages) /\ IsInjective(frame_table)
    BY DEF TypeInv, TableInv
  <2>2. /\ Append(frame_table, pg) \in Seq(Pages) /\ IsInjective(Append(frame_table, pg))
        /\ \A e : Contains(Append(frame_table, pg), e) <=> Contains(frame_table, e) \/ e = pg
    BY <2>1, <1>1, <1>7, AppendOnce
  <2> QED BY Zenon, <2>2, <1>3
<1>9. TypeInv'
  <2>1. frame' \in [Pages -> Frames] /\ pte' \in [Pages -> Ptes] /\ op' \in [Procs -> Ops]
    BY ZenonT(60), <1>3, <1>4, <1>5, <1>6 DEF TypeInv
  <2>2. pool' \subseteq Kpages /\ kdirty' \subseteq Kpages /\ swap_bitmap' \subseteq Slots
    BY <1>3 DEF TypeInv
  <2> QED BY <2>1, <2>2, <1>8 DEF TypeInv
<1>10. TableInv'
  BY <1>4, <1>8 DEF TableInv
<1>11. PoolInv'
  <2>1. k \in pool /\ pool' = pool \ {k} /\ kdirty' = kdirty \cup {k}
    BY <1>3
  <2>2. PoolInv
    OBVIOUS
  <2>3. \A g \in Pages : frame'[g].load => frame'[g].kpage \in kdirty' \ pool'
    BY <2>1, <2>2, <1>1, <1>4 DEF PoolInv
  <2>4. \A g \in Pages \ {pg} : frame'[g].load => frame'[g].kpage # k
    BY <2>1, <2>2, <1>4 DEF PoolInv
  <2>5. \A g, h \in Pages :
          frame'[g].load /\ frame'[h].load /\ frame'[g].kpage = frame'[h].kpage => g = h
    BY <2>4, <2>2, <1>4 DEF PoolInv
  <2>6. \A j \in Kpages \ pool' : \E g \in Pages : frame'[g].load /\ frame'[g].kpage = j
    <3> TAKE j \in Kpages \ pool'
    <3>1. CASE j = k
      BY <3>1, <1>1, <1>4
    <3>2. CASE j # k
      <4>1. PICK g \in Pages : frame[g].load /\ frame[g].kpage = j
        BY <3>2, <2>1, <2>2 DEF PoolInv
      <4> QED BY <4>1, <1>1, <1>4
    <3> QED BY <3>1, <3>2
  <2> QED BY <2>3, <2>5, <2>6 DEF PoolInv
<1>12. SwapInv'
  <2>1. ~Swapped(pg)' /\ \A g \in Pages \ {pg} : Swapped(g)' <=> Swapped(g)
    BY <1>4 DEF Swapped
  <2>2. Swapped(pg) <=> frame[pg].type = "SWAP"
    BY <1>1 DEF Swapped
  <2> HIDE DEF Swapped
  <2> QED BY <2>1, <2>2, <1>1, <1>4 DEF SwapInv
<1>13. \A g \in Pages : Entering(g)' <=> Entering(g)
  BY <1>6, PageParts DEF Entering
<1>14. PteInv'
  BY <1>4, <1>5, <1>13 DEF PteInv
<1>15. OpInv'
  <2>1. \A q \in Procs \ {p} : op[q].fault # NONE => <<q, op[q].fault>> \in Pages \ {pg}
    BY <1>1, FaultPage
  <2>2. \A g \in Pages : g[1] # p => frame'[g] = frame[g]
    BY ZenonT(60), <1>1, <1>4
  <2>3. ASSUME NEW q \in Procs \ {p} PROVE OpOK(q)'
    BY <2>1, <2>2, <1>4, <1>5, <1>6 DEF OpInv, OpOK
  <2> QED BY Zenon, <2>3, <1>1, <1>6 DEF OpInv, OpOK
<1> QED BY <1>9, <1>10, <1>11, <1>12, <1>14, <1>15

\* page_back and file_back.
LEMMA BackSteps ==
  ASSUME IInv, NEW p \in Procs, page_back(p) \/ file_back(p)
  PROVE  IInv'
<1> DEFINE pg == <<p, op[p].fault>>
<1>1. CASE page_back(p)
  <2>1. /\ op[p].fault # NONE /\ ~op[p].new /\ pool # {} /\ Loaded(p, pg)
        /\ frame[pg].type = "SWAP" /\ swap_bitmap' = swap_bitmap \ {frame[pg].index}
    BY <1>1 DEF page_back, sback
  <2> QED BY Zenon, <2>1, LoadedStep
<1>2. CASE file_back(p)
  <2>1. /\ op[p].fault # NONE /\ pool # {} /\ Loaded(p, pg)
        /\ frame[pg].type \in {"FILE", "MMAP"} /\ swap_bitmap' = swap_bitmap
    BY <1>2 DEF file_back
  <2>2. frame[pg].type # "SWAP"
    BY <2>1
  <2>3. op[p].new \in BOOLEAN /\ (op[p].new => frame[pg].type = "SWAP")
    BY DEF IInv, TypeInv, Ops, OpInv, OpOK
  <2>4. ~op[p].new
    BY <2>2, <2>3
  <2> QED BY <2>1, <2>2, <2>4, LoadedStep
<1> QED BY Zenon, <1>1, <1>2

\* frame_table_insert: the process that enters a page has it in a frame of its own.
LEMMA InsertStep ==
  ASSUME IInv, NEW p \in Procs, NEW pg, pg = <<p, op[p].fault>>, frame_table_insert(p)
  PROVE  IInv'
<1> USE DEF IInv
<1> DEFINE k == kpage
<1>1. op[p].fault # NONE /\ pool # {} /\ frame[pg] = NoFrame
  BY DEF frame_table_insert
<1>2. /\ pg \in Pages /\ pg[1] = p /\ pg[2] = op[p].fault
      /\ op[p].call \notin {"out", "munmap", "exit"} /\ ~pte[pg].p
  BY <1>1, FaultPage DEF OpInv, OpOK
<1>3. ~frame[pg].load /\ frame[pg].type # "SWAP"
  BY <1>1 DEF NoFrame, NONE
<1>4. k \in pool /\ k \in Kpages
  BY <1>1, FreeFrame
<1>5. /\ pool' = pool \ {k} /\ kdirty' = kdirty \cup {k}
      /\ frame_table' = Append(frame_table, pg)
      /\ op' = [op EXCEPT ![p].new = TRUE]
      /\ frame' = [frame EXCEPT ![pg] =
                     [NoFrame EXCEPT !.type = "SWAP", !.load = TRUE, !.kpage = k]]
      /\ pte' = pte /\ swap_bitmap' = swap_bitmap
  BY DEF frame_table_insert
<1> HIDE DEF k
<1>6. /\ frame'[pg].load /\ frame'[pg].kpage = k /\ frame'[pg].type = "SWAP"
      /\ ~frame'[pg].spt /\ frame'[pg] \in Frames
      /\ \A g \in Pages \ {pg} : frame'[g] = frame[g]
  BY Zenon, <1>2, <1>4, <1>5 DEF TypeInv, Frames, NoFrame
<1>7. /\ op'[p] \in Ops /\ op'[p].fault = op[p].fault /\ op'[p].new /\ op'[p].call = op[p].call
      /\ \A q \in Procs \ {p} : op'[q] = op[q]
  BY Zenon, <1>5 DEF TypeInv, Ops
<1>8. /\ frame_table' \in Seq(Pages) /\ IsInjective(frame_table')
      /\ \A e : Contains(frame_table', e) <=> Contains(frame_table, e) \/ e = pg
  <2>1. frame_table \in Seq(Pages) /\ IsInjective(frame_table) /\ ~Contains(frame_table, pg)
    BY <1>2, <1>3 DEF TypeInv, TableInv
  <2>2. /\ Append(frame_table, pg) \in Seq(Pages) /\ IsInjective(Append(frame_table, pg))
        /\ \A e : Contains(Append(frame_table, pg), e) <=> Contains(frame_table, e) \/ e = pg
    BY <2>1, <1>2, AppendOnce
  <2> QED BY Zenon, <2>2, <1>5
<1>9. TypeInv'
  <2>1. frame' \in [Pages -> Frames] /\ op' \in [Procs -> Ops]
    BY Zenon, <1>5, <1>6, <1>7 DEF TypeInv
  <2> QED BY <2>1, <1>4, <1>5, <1>8 DEF TypeInv
<1>10. TableInv'
  BY Zenon, <1>6, <1>8 DEF TableInv
<1>11. PoolInv'
  <2>1. k \in pool /\ pool' = pool \ {k} /\ kdirty' = kdirty \cup {k}
    BY <1>4, <1>5
  <2>2. PoolInv
    OBVIOUS
  <2>3. \A g \in Pages : frame'[g].load => frame'[g].kpage \in kdirty' \ pool'
    BY <2>1, <2>2, <1>2, <1>6 DEF PoolInv
  <2>4. \A g \in Pages \ {pg} : frame'[g].load => frame'[g].kpage # k
    BY <2>1, <2>2, <1>6 DEF PoolInv
  <2>5. \A g, h \in Pages :
          frame'[g].load /\ frame'[h].load /\ frame'[g].kpage = frame'[h].kpage => g = h
    BY <2>2, <2>4, <1>6 DEF PoolInv
  <2>6. \A j \in Kpages \ pool' : \E g \in Pages : frame'[g].load /\ frame'[g].kpage = j
    <3> TAKE j \in Kpages \ pool'
    <3>1. CASE j = k
      BY <3>1, <1>2, <1>6
    <3>2. CASE j # k
      <4>1. PICK g \in Pages : frame[g].load /\ frame[g].kpage = j
        BY <3>2, <2>1, <2>2 DEF PoolInv
      <4> QED BY <4>1, <1>3, <1>6
    <3> QED BY <3>1, <3>2
  <2> QED BY <2>3, <2>5, <2>6 DEF PoolInv
<1>12. SwapInv'
  <2>1. \A g \in Pages : Swapped(g)' <=> Swapped(g)
    BY <1>3, <1>6 DEF Swapped
  <2>2. \A g \in Pages : Swapped(g) => frame'[g] = frame[g]
    BY <1>3, <1>6 DEF Swapped
  <2>3. swap_bitmap' = swap_bitmap /\ SwapInv
    BY <1>5
  <2> QED BY <2>1, <2>2, <2>3 DEF SwapInv
<1>13. PteInv'
  <2>1. Entering(pg)'
    BY <1>2, <1>7 DEF Entering
  <2>2. \A g \in Pages \ {pg} : Entering(g) => Entering(g)'
    BY <1>7, PageParts DEF Entering
  <2> QED BY Zenon, <2>1, <2>2, <1>2, <1>5, <1>6 DEF PteInv
<1>14. OpInv'
  <2>1. \A q \in Procs \ {p} : op[q].fault # NONE => <<q, op[q].fault>> \in Pages \ {pg}
    BY <1>2, FaultPage
  <2>2. \A g \in Pages : g[1] # p => frame'[g] = frame[g]
    BY <1>2, <1>6
  <2>3. ASSUME NEW q \in Procs \ {p} PROVE OpOK(q)'
    BY <2>1, <2>2, <1>5, <1>6, <1>7 DEF OpInv, OpOK
  <2>4. <<p, op'[p].fault>> = pg /\ pte' = pte /\ op'[p].fault # NONE
    BY <1>1, <1>5, <1>7
  <2>5. op'[p].call \notin {"out", "munmap", "exit"}
    BY <1>2, <1>7
  <2>6. OpOK(p)'
    BY <2>4, <2>5, <1>2, <1>6 DEF OpOK
  <2> QED BY <2>3, <2>6 DEF OpInv
<1> QED BY <1>9, <1>10, <1>11, <1>12, <1>13, <1>14

\* spt_init: the page that was entered is mapped.
LEMMA MapStep ==
  ASSUME IInv, NEW p \in Procs, NEW pg, pg = <<p, op[p].fault>>, spt_init(p)
  PROVE  IInv'
<1> USE DEF IInv
<1>1. op[p].new
  BY DEF spt_init
<1>2. /\ op[p].fault # NONE /\ frame[pg].load /\ frame[pg].type = "SWAP"
      /\ pg \in Pages /\ pg[1] = p /\ pg[2] = op[p].fault
      /\ op[p].call \notin {"out", "munmap", "exit"}
  <2>1. op[p].fault # NONE /\ frame[pg].load /\ frame[pg].type = "SWAP"
    BY <1>1 DEF OpInv, OpOK
  <2> QED BY Zenon, <2>1, FaultPage
<1>3. /\ frame' = [frame EXCEPT ![pg].spt = TRUE]
      /\ pte' = [pte EXCEPT ![pg] = [NoPte EXCEPT !.p = TRUE, !.kpage = frame[pg].kpage]]
      /\ op' = [op EXCEPT ![p].new = FALSE, ![p].fault = NONE]
      /\ UNCHANGED <<frame_table, pool, kdirty, swap_bitmap>>
  BY DEF spt_init, install_page
<1>4. /\ frame'[pg].load /\ frame'[pg].kpage = frame[pg].kpage /\ frame'[pg].type = "SWAP"
      /\ frame'[pg] \in Frames
      /\ \A g \in Pages \ {pg} : frame'[g] = frame[g]
  BY ZenonT(60), <1>2, <1>3 DEF TypeInv, Frames
<1>5. /\ pte'[pg] \in Ptes /\ pte'[pg].p /\ pte'[pg].kpage = frame[pg].kpage
      /\ \A g \in Pages \ {pg} : pte'[g] = pte[g]
  BY Zenon, <1>2, <1>3 DEF TypeInv, Ptes, Frames, NoPte
<1>6. /\ op'[p] \in Ops /\ op'[p].fault = NONE /\ ~op'[p].new /\ op'[p].call = op[p].call
      /\ \A q \in Procs \ {p} : op'[q] = op[q]
  BY Zenon, <1>3 DEF TypeInv, Ops
<1>7. TypeInv'
  <2>1. frame' \in [Pages -> Frames] /\ pte' \in [Pages -> Ptes] /\ op' \in [Procs -> Ops]
    BY Zenon, <1>3, <1>4, <1>5, <1>6 DEF TypeInv
  <2> QED BY <2>1, <1>3 DEF TypeInv
<1>8. \A g \in Pages : /\ frame'[g].load = frame[g].load /\ frame'[g].kpage = frame[g].kpage
                       /\ Swapped(g)' <=> Swapped(g)
                       /\ Swapped(g) => frame'[g] = frame[g]
  <2>1. frame[pg].load \in BOOLEAN /\ frame'[pg].load \in BOOLEAN
    BY <1>2, <1>4 DEF TypeInv, Frames
  <2>2. frame[pg].load = TRUE /\ frame'[pg].load = TRUE
    BY <2>1, <1>2, <1>4
  <2> QED BY Zenon, <2>2, <1>2, <1>4 DEF Swapped
<1>9. TableInv' /\ PoolInv' /\ SwapInv'
  <2>1. TableInv'
    BY <1>3, <1>8 DEF TableInv
  <2>2. PoolInv'
    BY <1>3, <1>8 DEF PoolInv
  <2>3. SwapInv'
    BY <1>3, <1>8 DEF SwapInv
  <2> QED BY <2>1, <2>2, <2>3
<1>10. PteInv'
  <2>1. \A g \in Pages \ {pg} : Entering(g) => Entering(g)'
    <3> TAKE g \in Pages \ {pg}
    <3>1. CASE g[1] = p
      BY <3>1, <1>2, PageParts DEF Entering
    <3>2. CASE g[1] # p
      BY <3>2, <1>6, PageParts DEF Entering
    <3> QED BY <3>1, <3>2
  <2> QED BY <2>1, <1>4, <1>5 DEF PteInv
<1>11. OpInv'
  <2>1. \A q \in Procs \ {p} : op[q].fault # NONE => <<q, op[q].fault>> \in Pages \ {pg}
    BY <1>2, FaultPage
  <2>2. \A g \in Pages : g[1] # p => frame'[g] = frame[g]
    BY <1>2, <1>4
  <2>3. ASSUME NEW q \in Procs \ {p} PROVE OpOK(q)'
    BY <2>1, <2>2, <1>4, <1>5, <1>6 DEF OpInv, OpOK
  <2> QED BY ZenonT(60), <2>3, <1>2, <1>6 DEF OpInv, OpOK
<1> QED BY <1>7, <1>9, <1>10, <1>11

\* A page leaves memory or the process: in evict, and in spt_free.  What it had is
\* free, and what it goes to is its own.
LEMMA LeaveStep ==
  ASSUME IInv, NEW pg \in Pages,
         op[pg[1]].call # "out", op' = op,
         frame' \in [Pages -> Frames], ~frame'[pg].load,
         \A g \in Pages \ {pg} : frame'[g] = frame[g],
         pte' \in [Pages -> Ptes], ~pte'[pg].p,
         \A g \in Pages \ {pg} : pte'[g].p = pte[g].p /\ pte'[g].kpage = pte[g].kpage,
         frame_table' \in Seq(Pages), IsInjective(frame_table'),
         \A g \in Pages : Contains(frame_table', g) <=> Contains(frame_table, g) /\ g # pg,
         pool' = IF frame[pg].load THEN pool \cup {frame[pg].kpage} ELSE pool,
         kdirty' = kdirty,
         swap_bitmap' \subseteq Slots, SwapInv',
         op[pg[1]].new => op[pg[1]].fault # pg[2]
  PROVE  IInv'
<1> USE DEF IInv
<1>1. TypeInv'
  BY DEF TypeInv, PoolInv
<1>2. TableInv'
  BY Zenon DEF TableInv
<1>3. PoolInv'
  <2>1. PoolInv
    OBVIOUS
  <2>2. \A g \in Pages : frame'[g].load => g # pg /\ frame'[g] = frame[g]
    BY ZenonT(60)
  <2>3. \A g \in Pages : frame'[g].load => frame'[g].kpage \in kdirty' \ pool'
    BY <2>1, <2>2 DEF PoolInv
  <2>4. \A g, h \in Pages :
          frame'[g].load /\ frame'[h].load /\ frame'[g].kpage = frame'[h].kpage => g = h
    BY Zenon, <2>1, <2>2 DEF PoolInv
  <2>5. \A j \in Kpages \ pool' : \E g \in Pages : frame'[g].load /\ frame'[g].kpage = j
    <3> TAKE j \in Kpages \ pool'
    <3>1. PICK g \in Pages : frame[g].load /\ frame[g].kpage = j
      BY Zenon, <2>1 DEF PoolInv
    <3>2. g # pg
      BY <3>1
    <3> QED BY <3>1, <3>2
  <2> QED BY Zenon, <2>3, <2>4, <2>5 DEF PoolInv
<1>4. \A g \in Pages : Entering(g)' <=> Entering(g)
  BY Zenon DEF Entering
<1>5. PteInv'
  <2>1. PteInv
    OBVIOUS
  <2> QED BY Zenon, <2>1, <1>4 DEF PteInv
<1>6. OpInv'
  <2>1. ASSUME NEW q \in Procs PROVE OpOK(q)'
    <3>1. OpOK(q)
      BY ZenonT(60) DEF OpInv
    <3>2. op[q].fault # NONE => <<q, op[q].fault>> \in Pages
      BY FaultPage
    <3>3. op[q].new => <<q, op[q].fault>> # pg
      BY PageParts
    <3>4. op[q].call = "out" => \A g \in Pages : g[1] = q => g # pg
      OBVIOUS
    <3> QED BY Zenon, <3>1, <3>2, <3>3, <3>4 DEF OpOK
  <2> QED BY Zenon, <2>1 DEF OpInv
<1> QED BY ZenonT(60), <1>1, <1>2, <1>3, <1>5, <1>6

\* The frame evict chooses is on the frame table.
LEMMA VictimOnTable ==
  ASSUME TypeInv, NEW p, frame_table # <<>>
  PROVE  victim(p) \in 1 .. Len(frame_table)
<1>1. DOMAIN frame_table = 1 .. Len(frame_table) /\ Len(frame_table) \in Nat \ {0}
  BY DEF TypeInv
<1>2. clean(p) \subseteq 1 .. Len(frame_table)
  BY <1>1 DEF clean
<1>3. CASE clean(p) = {}
  BY <1>1, <1>3 DEF victim
<1>4. CASE clean(p) # {}
  <2>1. clean(p) \in SUBSET Nat
    BY <1>1, <1>2
  <2>2. Min(clean(p)) \in clean(p)
    BY <2>1, <1>4, LeastNat
  <2> QED BY <2>2, <1>2, <1>4 DEF victim
<1> QED BY <1>3, <1>4

\* evict: the victim leaves memory for a free slot, or for its file.
LEMMA EvictStep ==
  ASSUME IInv, NEW p \in Procs, NEW pg, pg = frame_table[victim(p)], evict(p)
  PROVE  IInv'
<1> USE DEF IInv
<1> DEFINE v == victim(p)
           slot == Min(Slots \ swap_bitmap)
           out == to_swap(p, pg)
<1>1. v \in 1 .. Len(frame_table) /\ frame_table \in Seq(Pages) /\ IsInjective(frame_table)
  BY VictimOnTable DEF evict, TypeInv, TableInv
<1>2. /\ \A g \in Range(frame_table) : frame[g].spt
      /\ out => Slots \ swap_bitmap # {}
      /\ frame_table' = RemoveAt(frame_table, v)
      /\ frame' = [frame EXCEPT ![pg] =
           [frame[pg] EXCEPT !.load = FALSE, !.kpage = 0,
                             !.type = IF out THEN "SWAP" ELSE frame[pg].type,
                             !.index = IF out THEN slot ELSE frame[pg].index]]
      /\ swap_bitmap' = IF out THEN swap_bitmap \cup {slot} ELSE swap_bitmap
      /\ pte' = [scanned(p) EXCEPT ![pg].p = FALSE, ![pg].kpage = 0]
      /\ pool' = pool \cup {frame[pg].kpage}
      /\ kdirty' = kdirty /\ op' = op
  BY DEF evict
<1>3. out \in BOOLEAN /\ (~out => frame[pg].type # "SWAP")
  BY DEF to_swap
<1>4. out => slot \in Slots /\ slot \notin swap_bitmap
  <2>1. Slots \ swap_bitmap \in SUBSET Nat
    BY VMAssumption DEF Slots, VMAssumption
  <2> QED BY <2>1, <1>2, LeastNat
<1> HIDE DEF v, slot, out
<1>5. pg \in Pages /\ Contains(frame_table, pg) /\ frame[pg].spt
  <2>1. pg = frame_table[v]
    BY DEF v
  <2>2. pg \in Pages /\ Contains(frame_table, pg)
    BY <2>1, <1>1 DEF Contains
  <2>3. pg \in Range(frame_table)
    BY <2>1, <1>1 DEF Range
  <2> QED BY <2>2, <2>3, <1>2
<1>6. frame[pg].load /\ pg[1] \in Procs
  BY <1>5, PageParts DEF TableInv
<1>7. /\ ~frame'[pg].load /\ frame'[pg] \in Frames
      /\ frame'[pg].type = IF out THEN "SWAP" ELSE frame[pg].type
      /\ out => frame'[pg].index = slot
      /\ \A g \in Pages \ {pg} : frame'[g] = frame[g]
      /\ frame' = [g \in Pages |-> frame'[g]]
  <2> DEFINE ty == IF out THEN "SWAP" ELSE frame[pg].type
             ix == IF out THEN slot ELSE frame[pg].index
  <2>1. frame[pg] \in Frames /\ DOMAIN frame = Pages
    BY <1>5 DEF TypeInv
  <2>6. PICK f : /\ f = [frame[pg] EXCEPT !.load = FALSE, !.kpage = 0, !.type = ty, !.index = ix]
                 /\ frame' = [frame EXCEPT ![pg] = f]
    BY Zenon, <1>2
  <2>7. /\ frame'[pg] = f /\ \A g \in Pages \ {pg} : frame'[g] = frame[g]
        /\ frame' = [g \in Pages |-> frame'[g]]
    <3>1. frame' = [frame EXCEPT ![pg] = f]
      BY <2>6
    <3> QED BY Zenon, <2>1, <3>1, <1>5
  <2>2. ty \in {NONE, "FILE", "MMAP", "SWAP"} /\ ix \in Slots \cup {-1}
    BY <2>1, <1>4 DEF Frames
  <2>3. out => ix = slot
    OBVIOUS
  <2> HIDE DEF ty, ix
  <2>4. f \in Frames /\ ~f.load /\ f.type = ty /\ f.index = ix
    <3>1. f = [frame[pg] EXCEPT !.load = FALSE, !.kpage = 0, !.type = ty, !.index = ix]
      BY <2>6
    <3> QED BY Zenon, <2>1, <2>2, <3>1 DEF Frames
  <2> QED BY <2>3, <2>4, <2>7 DEF ty
<1>8. frame' \in [Pages -> Frames]
  <2>1. \A g \in Pages : frame'[g] \in Frames
    BY <1>7 DEF TypeInv
  <2> QED BY <2>1, <1>7
<1>9. /\ scanned(p) \in [Pages -> Ptes]
      /\ \A g \in Pages : scanned(p)[g].p = pte[g].p /\ scanned(p)[g].kpage = pte[g].kpage
  <2>1. \A g \in Pages : /\ pte[g] \in Ptes /\ [pte[g] EXCEPT !.a = FALSE] \in Ptes
                         /\ [pte[g] EXCEPT !.a = FALSE].p = pte[g].p
                         /\ [pte[g] EXCEPT !.a = FALSE].kpage = pte[g].kpage
    BY Zenon DEF TypeInv, Ptes
  <2>2. scanned(p) = [g \in Pages |-> scanned(p)[g]]
    BY DEF scanned
  <2>3. \A g \in Pages : scanned(p)[g] \in {pte[g], [pte[g] EXCEPT !.a = FALSE]}
    BY DEF scanned
  <2> QED BY Zenon, <2>1, <2>2, <2>3
<1>10. /\ pte' \in [Pages -> Ptes] /\ ~pte'[pg].p
       /\ \A g \in Pages \ {pg} : pte'[g].p = pte[g].p /\ pte'[g].kpage = pte[g].kpage
  <2> DEFINE sc == scanned(p)
  <2>1. sc \in [Pages -> Ptes] /\ pte' = [sc EXCEPT ![pg].p = FALSE, ![pg].kpage = 0]
    BY <1>2, <1>9
  <2> HIDE DEF sc
  <2>2. /\ pte' \in [Pages -> Ptes] /\ ~pte'[pg].p
        /\ \A g \in Pages \ {pg} : pte'[g] = sc[g]
    BY ZenonT(60), <2>1, <1>5 DEF Ptes
  <2> QED BY <2>2, <1>9 DEF sc
<1>11. /\ frame_table' \in Seq(Pages) /\ IsInjective(frame_table')
       /\ \A g \in Pages : Contains(frame_table', g) <=> Contains(frame_table, g) /\ g # pg
  <2>1. /\ RemoveAt(frame_table, v) \in Seq(Pages) /\ IsInjective(RemoveAt(frame_table, v))
        /\ \A g : Contains(RemoveAt(frame_table, v), g)
                    <=> Contains(frame_table, g) /\ g # frame_table[v]
    BY <1>1, RemoveOnce
  <2> QED BY <2>1, <1>2 DEF v
<1>12. swap_bitmap' \subseteq Slots
  BY <1>2, <1>4 DEF TypeInv
<1>13. SwapInv'
  <2>1. /\ Swapped(pg)' <=> out
        /\ ~Swapped(pg)
        /\ \A g \in Pages \ {pg} : Swapped(g)' <=> Swapped(g)
    BY <1>3, <1>6, <1>7 DEF Swapped
  <2>2. SwapInv
    OBVIOUS
  <2>3. CASE out
    <3>1. /\ slot \notin swap_bitmap /\ swap_bitmap' = swap_bitmap \cup {slot}
          /\ frame'[pg].index = slot /\ Swapped(pg)'
      BY Zenon, <2>1, <2>3, <1>2, <1>4, <1>7
    <3>2. \A g \in Pages : Swapped(g)' => frame'[g].index \in swap_bitmap'
      BY Zenon, <3>1, <2>1, <2>2, <1>7 DEF SwapInv
    <3>3. \A g \in Pages \ {pg} : Swapped(g)' => frame'[g].index # slot
      BY <3>1, <2>1, <2>2, <1>7 DEF SwapInv
    <3>4. \A g, h \in Pages :
            Swapped(g)' /\ Swapped(h)' /\ frame'[g].index = frame'[h].index => g = h
      BY <3>1, <3>3, <2>1, <2>2, <1>7 DEF SwapInv
    <3>5. \A s \in swap_bitmap' : \E g \in Pages : Swapped(g)' /\ frame'[g].index = s
      BY <3>1, <2>1, <2>2, <1>5, <1>7 DEF SwapInv
    <3> QED BY <3>2, <3>4, <3>5 DEF SwapInv
  <2>4. CASE ~out
    <3>1. swap_bitmap' = swap_bitmap /\ ~Swapped(pg)'
      BY ZenonT(60), <2>1, <2>4, <1>2
    <3> QED BY <3>1, <2>1, <2>2, <1>7 DEF SwapInv
  <2> QED BY <2>3, <2>4, <1>3
<1>14. op[pg[1]].new => op[pg[1]].fault # pg[2]
  <2>1. OpOK(pg[1])
    BY <1>6 DEF OpInv
  <2> QED BY <2>1, <1>5, PageParts DEF OpOK
<1>15. op[pg[1]].call # "out"
  <2>1. OpOK(pg[1])
    BY <1>6 DEF OpInv
  <2>2. ~NoFrame.load /\ frame[pg].load
    BY <1>6 DEF NoFrame
  <2>3. frame[pg] # NoFrame
    BY Zenon, <2>2
  <2> QED BY ZenonT(60), <2>1, <2>3, <1>5 DEF OpOK
<1> QED
  BY ZenonT(60), <1>2, <1>5, <1>6, <1>7, <1>8, <1>10, <1>11, <1>12, <1>13, <1>14, <1>15, LeaveStep

\* spt_free with frame_free: a page leaves the process.
LEMMA FreeStep ==
  ASSUME IInv, NEW p \in Procs, NEW pg \in Pages, pg[1] = p,
         op[p].call \in {"munmap", "exit"}, spt_free(p, pg)
  PROVE  IInv'
<1> USE DEF IInv
<1>1. /\ frame' = [frame EXCEPT ![pg] = NoFrame] /\ kdirty' = kdirty /\ op' = op
      /\ pte' = IF frame[pg].load THEN [pte EXCEPT ![pg].p = FALSE, ![pg].kpage = 0] ELSE pte
      /\ frame_free(pg)
  BY DEF spt_free
<1>2. /\ frame_table \in Seq(Pages) /\ IsInjective(frame_table)
      /\ frame[pg].load \in BOOLEAN /\ (frame[pg].load <=> Contains(frame_table, pg))
  BY Zenon DEF TypeInv, TableInv, Frames
<1>3. NoFrame \in Frames /\ ~NoFrame.load /\ NoFrame.type # "SWAP"
  BY DEF NoFrame, Frames, NONE
<1>4. /\ frame' \in [Pages -> Frames] /\ frame'[pg] = NoFrame
      /\ \A g \in Pages \ {pg} : frame'[g] = frame[g]
  BY Zenon, <1>1, <1>3 DEF TypeInv
<1>5. /\ pte' \in [Pages -> Ptes] /\ ~pte'[pg].p
      /\ \A g \in Pages \ {pg} : pte'[g].p = pte[g].p /\ pte'[g].kpage = pte[g].kpage
  <2>1. CASE frame[pg].load
    BY ZenonT(60), <2>1, <1>1 DEF TypeInv, Ptes
  <2>2. CASE ~frame[pg].load
    BY <2>2, <1>1 DEF TypeInv, PteInv
  <2> QED BY <2>1, <2>2
<1>6. /\ pool' = IF frame[pg].load THEN pool \cup {frame[pg].kpage} ELSE pool
      /\ swap_bitmap' = IF Swapped(pg) THEN swap_bitmap \ {frame[pg].index} ELSE swap_bitmap
  BY <1>1 DEF frame_free, Swapped
<1>7. /\ frame_table' \in Seq(Pages) /\ IsInjective(frame_table')
      /\ \A g \in Pages : Contains(frame_table', g) <=> Contains(frame_table, g) /\ g # pg
  <2>1. CASE frame[pg].load
    <3>1. frame_table' = list_remove(frame_table, pg)
      BY <2>1, <1>1 DEF frame_free
    <3>2. /\ list_remove(frame_table, pg) \in Seq(Pages)
          /\ IsInjective(list_remove(frame_table, pg))
          /\ \A g : Contains(list_remove(frame_table, pg), g)
                      <=> Contains(frame_table, g) /\ g # pg
      BY <1>2, ListRemoveOnce
    <3> QED BY <3>1, <3>2
  <2>2. CASE ~frame[pg].load
    <3>1. frame_table' = frame_table
      BY <2>2, <1>1 DEF frame_free
    <3> QED BY <2>2, <3>1, <1>2
  <2> QED BY <2>1, <2>2
<1>8. swap_bitmap' \subseteq Slots
  BY <1>6 DEF TypeInv
<1>9. SwapInv'
  <2>1. ~Swapped(pg)' /\ \A g \in Pages \ {pg} : Swapped(g)' <=> Swapped(g)
    BY <1>3, <1>4 DEF Swapped
  <2>2. SwapInv
    BY ZenonT(60)
  <2>3. CASE Swapped(pg)
    <3>1. swap_bitmap' = swap_bitmap \ {frame[pg].index}
      BY Zenon, <2>3, <1>6
    <3> QED BY <2>1, <2>2, <2>3, <3>1, <1>4 DEF SwapInv
  <2>4. CASE ~Swapped(pg)
    <3>1. swap_bitmap' = swap_bitmap
      BY <2>4, <1>6
    <3> QED BY Zenon, <2>1, <2>2, <2>4, <3>1, <1>4 DEF SwapInv
  <2> QED BY <2>3, <2>4
<1>10. op[p].fault = NONE /\ op[p].call # "out" /\ ~op[p].new
  BY Zenon DEF OpInv, OpOK
<1> QED
  BY Zenon, <1>1, <1>3, <1>4, <1>5, <1>6, <1>7, <1>8, <1>9, <1>10, LeaveStep

\* A process that does nothing in the kernel, or has no page to bring in, enters none.
LEMMA NotEntering ==
  ASSUME IInv, NEW p \in Procs, op[p].fault = NONE
  PROVE  ~op[p].new
BY Zenon DEF IInv, OpInv, OpOK

\* Steps that only take a process to another operation.
LEMMA CallSteps ==
  ASSUME IInv, NEW p \in Procs, NEW o \in Ops, op[p].fault = NONE,
         op' = [op EXCEPT ![p] = o], ~o.new,
         o.fault # NONE => ~pte[<<p, o.fault>>].p,
         o.call \in {"out", "munmap", "exit"} => o.fault = NONE, o.call # "out",
         UNCHANGED <<pte, frame, frame_table, pool, kdirty, swap_bitmap>>
  PROVE  IInv'
<1>1. frame' \in [Pages -> Frames] /\ pte' \in [Pages -> Ptes]
  BY DEF IInv, TypeInv
<1>2. ~op[p].new
  BY NotEntering
<1> QED BY Zenon, <1>1, <1>2, QuietStep

\* The fault of a process on u.
LEMMA FaultStep ==
  ASSUME IInv, NEW p \in Procs, NEW u \in Upages, op[p].fault = NONE,
         op[p].call \in {NONE, "check", "copy"}, page_fault(p, u)
  PROVE  IInv'
<1> DEFINE o == [op[p] EXCEPT !.fault = u]
<1>1. op' = [op EXCEPT ![p] = o] /\ op[p] \in Ops
  BY DEF page_fault, IInv, TypeInv
<1>2. o \in Ops /\ o.fault = u /\ o.new = op[p].new /\ o.call = op[p].call
  BY <1>1 DEF Ops
<1>3. ~op[p].new /\ ~pte[<<p, u>>].p
  BY NotEntering DEF page_fault, MayFault
<1>4. UNCHANGED <<pte, frame, frame_table, pool, kdirty, swap_bitmap>>
  BY DEF page_fault
<1>5. o.call \notin {"out", "munmap", "exit"}
  BY <1>2 DEF NONE
<1> HIDE DEF o
<1> QED BY Zenon, <1>1, <1>2, <1>3, <1>4, <1>5, CallSteps

\* The processor's access to a page that is present.
LEMMA TouchStep ==
  ASSUME IInv, NEW p \in Procs, NEW pg \in Pages, NEW write \in BOOLEAN, NEW o \in Ops,
         op[p].fault = NONE, op' = [op EXCEPT ![p] = o], ~o.new, o.fault = NONE,
         o.call # "out", Touch(pg, write),
         UNCHANGED <<frame, frame_table, pool, kdirty, swap_bitmap>>
  PROVE  IInv'
<1>1. frame' \in [Pages -> Frames] /\ pte \in [Pages -> Ptes]
  BY DEF IInv, TypeInv
<1>2. pte' = [pte EXCEPT ![pg].a = TRUE, ![pg].d = pte[pg].d \/ write]
  BY DEF Touch
<1>3. pte' \in [Pages -> Ptes]
  BY ZenonT(60), <1>1, <1>2 DEF Ptes
<1>4. \A g \in Pages : pte'[g].p = pte[g].p /\ pte'[g].kpage = pte[g].kpage
  BY <1>1, <1>2 DEF Ptes
<1>5. ~op[p].new
  BY NotEntering
<1> QED BY Zenon, <1>1, <1>3, <1>4, <1>5, QuietStep

\* load_segment and mmap: pages without a frame or a slot are entered.
LEMMA InstallSteps ==
  ASSUME IInv, NEW p \in Procs, load(p) \/ mmap(p)
  PROVE  IInv'
<1>1. \A type \in {"FILE", "MMAP"} :
        LET f == [NoFrame EXCEPT !.type = type, !.spt = TRUE]
        IN  f \in Frames /\ ~f.load /\ f.type # "SWAP"
  BY Zenon DEF NoFrame, Frames, NONE
<1>2. ~NoFrame.load /\ NoFrame.type # "SWAP"
  BY DEF NoFrame, NONE
<1>3. /\ frame \in [Pages -> Frames] /\ pte \in [Pages -> Ptes] /\ op \in [Procs -> Ops]
      /\ OpOK(p)
  BY DEF IInv, TypeInv, OpInv
<1>4. ASSUME NEW type \in {"FILE", "MMAP"}, NEW new \in SUBSET Pages,
             \A pg \in new : pg[1] = p /\ frame[pg] = NoFrame,
             frame' = install_file(new, type)
      PROVE  /\ frame' \in [Pages -> Frames]
             /\ \A pg \in Pages : pg[1] # p => frame'[pg] = frame[pg]
             /\ \A pg \in Pages :
                  \/ frame'[pg] = frame[pg]
                  \/ /\ ~frame[pg].load /\ ~frame'[pg].load
                     /\ frame[pg].type # "SWAP" /\ frame'[pg].type # "SWAP"
  <2> DEFINE f == [NoFrame EXCEPT !.type = type, !.spt = TRUE]
  <2>1. f \in Frames /\ ~f.load /\ f.type # "SWAP"
    BY Zenon, <1>1
  <2>2. frame' = [pg \in Pages |-> IF pg \in new THEN f ELSE frame[pg]]
    BY <1>4 DEF install_file
  <2> HIDE DEF f
  <2> QED BY <2>1, <2>2, <1>2, <1>3, <1>4
<1>5. CASE load(p)
  <2> DEFINE o == [Idle EXCEPT !.call = "load", !.fault = StackTop]
             new == {pg \in Pages : pg[1] = p /\ pg[2] \in ExecPages}
  <2>1. /\ op[p].call = "out" /\ frame' = install_file(new, "FILE")
        /\ op' = [op EXCEPT ![p] = o]
        /\ UNCHANGED <<pte, frame_table, pool, kdirty, swap_bitmap>>
    BY <1>5 DEF load
  <2>2. op[p].fault = NONE /\ \A g \in Pages : g[1] = p => frame[g] = NoFrame
    BY <2>1, <1>3 DEF OpOK
  <2>3. o \in Ops /\ ~o.new /\ o.fault = StackTop /\ o.call = "load"
    BY Zenon, OpTypes DEF Idle
  <2>4. <<p, StackTop>> \in Pages /\ <<p, StackTop>>[1] = p
    BY VMAssumption, PageParts DEF VMAssumption, Upages
  <2>5. ~pte[<<p, StackTop>>].p
    BY <2>2, <2>4, <1>2 DEF IInv, PteInv
  <2> HIDE DEF o
  <2>6. \A pg \in new : pg[1] = p /\ frame[pg] = NoFrame
    BY <2>2
  <2>7. ~op[p].new
    BY ZenonT(60), <2>2, NotEntering
  <2>8. /\ frame' \in [Pages -> Frames]
        /\ \A pg \in Pages : pg[1] # p => frame'[pg] = frame[pg]
        /\ \A pg \in Pages :
             \/ frame'[pg] = frame[pg]
             \/ /\ ~frame[pg].load /\ ~frame'[pg].load
                /\ frame[pg].type # "SWAP" /\ frame'[pg].type # "SWAP"
    BY <2>1, <2>6, <1>4
  <2> QED BY Zenon, <2>1, <2>3, <2>5, <2>7, <2>8, <1>3, QuietStep
<1>6. CASE mmap(p)
  <2> DEFINE new == {pg \in Pages : pg[1] = p /\ pg[2] \in MapPages}
  <2>1. /\ op[p] = Idle /\ frame' = install_file(new, "MMAP") /\ op' = op
        /\ \A pg \in new : pg[1] = p /\ frame[pg] = NoFrame
        /\ UNCHANGED <<pte, frame_table, pool, kdirty, swap_bitmap>>
    BY <1>6 DEF mmap, Running
  <2>2. Idle \in Ops /\ ~Idle.new /\ Idle.fault = NONE /\ Idle.call = NONE
    BY Zenon, OpTypes DEF Idle
  <2>3. op' = [op EXCEPT ![p] = Idle]
    BY ZenonT(60), <2>1, <1>3
  <2>4. /\ frame' \in [Pages -> Frames]
        /\ \A pg \in Pages : pg[1] # p => frame'[pg] = frame[pg]
        /\ \A pg \in Pages :
             \/ frame'[pg] = frame[pg]
             \/ /\ ~frame[pg].load /\ ~frame'[pg].load
                /\ frame[pg].type # "SWAP" /\ frame'[pg].type # "SWAP"
    BY <2>1, <1>4
  <2>5. Idle.call \notin {"out", "munmap", "exit"} /\ ~op[p].new
    BY <2>1, <2>2 DEF NONE
  <2> QED BY ZenonT(60), <2>1, <2>2, <2>3, <2>4, <2>5, <1>3, QuietStep
<1> QED BY <1>5, <1>6

\* The steps of a process between calls and faults.
LEMMA ProcessSteps ==
  ASSUME IInv, NEW p \in Procs,
         \/ load_end(p) \/ mmap_fails(p) \/ munmap_call(p) \/ munmap_return(p)
         \/ (Running(p) /\ exit_call(p))
         \/ \E buffer \in Buffers : read(p, buffer)
  PROVE  IInv'
<1>1. op \in [Procs -> Ops] /\ OpOK(p)
  BY DEF IInv, TypeInv, OpInv
<1>2. /\ Idle \in Ops /\ ~Idle.new /\ Idle.fault = NONE /\ Idle.call = NONE
      /\ NONE \notin {"out", "munmap", "exit"}
  BY Zenon, OpTypes DEF Idle, NONE
<1>3. CASE load_end(p)
  BY Zenon, <1>2, <1>3, CallSteps DEF load_end
<1>4. CASE mmap_fails(p)
  <2>1. op[p] = Idle /\ op' = op /\ op' = [op EXCEPT ![p] = Idle]
    BY <1>1, <1>4 DEF mmap_fails, Running
  <2> QED BY Zenon, <2>1, <1>2, <1>4, CallSteps DEF mmap_fails
<1>5. CASE munmap_call(p)
  <2> DEFINE o == [Idle EXCEPT !.call = "munmap"]
  <2>1. op[p] = Idle /\ op' = [op EXCEPT ![p] = o]
    BY <1>1, <1>5 DEF munmap_call, Running
  <2>2. o \in Ops /\ ~o.new /\ o.fault = NONE /\ o.call = "munmap"
    BY Zenon, OpTypes DEF Idle, Calls
  <2> HIDE DEF o
  <2> QED BY Zenon, <2>1, <2>2, <1>2, <1>5, CallSteps DEF munmap_call
<1>6. CASE munmap_return(p)
  <2>1. op[p].call = "munmap" /\ op' = [op EXCEPT ![p] = Idle]
    BY <1>6 DEF munmap_return
  <2>2. op[p].fault = NONE
    BY Zenon, <2>1, <1>1 DEF OpOK
  <2> QED BY Zenon, <2>1, <2>2, <1>2, <1>6, CallSteps DEF munmap_return
<1>7. CASE Running(p) /\ exit_call(p)
  <2> DEFINE o == [Idle EXCEPT !.call = "exit"]
  <2>1. op[p] = Idle /\ op' = [op EXCEPT ![p] = o]
    BY <1>7 DEF exit_call, Running
  <2>2. o \in Ops /\ ~o.new /\ o.fault = NONE /\ o.call = "exit"
    BY Zenon, OpTypes DEF Idle, Calls
  <2> HIDE DEF o
  <2> QED BY Zenon, <2>1, <2>2, <1>2, <1>7, CallSteps DEF exit_call
<1>8. CASE \E buffer \in Buffers : read(p, buffer)
  <2>1. PICK b \in Buffers : read(p, b)
    BY <1>8
  <2> DEFINE o == [Idle EXCEPT !.call = "check", !.buffer = b, !.todo = b]
  <2>2. op[p] = Idle /\ op' = [op EXCEPT ![p] = o]
    BY Zenon, <2>1 DEF read, Running
  <2>3. o \in Ops /\ ~o.new /\ o.fault = NONE /\ o.call = "check"
    BY Zenon, OpTypes DEF Idle
  <2> HIDE DEF o
  <2> QED BY Zenon, <2>1, <2>2, <2>3, <1>2, CallSteps DEF read
<1> QED BY <1>3, <1>4, <1>5, <1>6, <1>7, <1>8

\* The steps of a read call.
LEMMA ReadSteps ==
  ASSUME IInv, NEW p \in Procs, check_valid_esp(p) \/ file_read(p)
  PROVE  IInv'
<1>1. op \in [Procs -> Ops] /\ op[p] \in Ops /\ OpOK(p)
  BY DEF IInv, TypeInv, OpInv
<1>2. op[p].fault = NONE /\ op[p].call \in {"check", "copy"}
  BY Zenon DEF check_valid_esp, file_read
<1>3. ~op[p].new
  BY <1>2, NotEntering
<1>4. op[p].todo \in Seq(Upages) /\ op[p].buffer \in Seq(Upages)
  BY <1>1 DEF Ops
<1>5. op[p].todo # <<>> => Head(op[p].todo) \in Upages /\ Tail(op[p].todo) \in Seq(Upages)
  BY <1>4
<1>6. CASE op[p].todo # <<>> /\ page_fault(p, Head(op[p].todo))
  BY <1>2, <1>5, <1>6, FaultStep
<1>7. CASE op[p].todo # <<>> /\ ~page_fault(p, Head(op[p].todo)) /\ ~exit_call(p)
  <2> DEFINE o == [op[p] EXCEPT !.todo = Tail(op[p].todo)]
  <2>1. o \in Ops /\ o.new = op[p].new /\ o.fault = op[p].fault /\ o.call = op[p].call
    BY Zenon, <1>1, <1>5, <1>7 DEF Ops
  <2>2. op' = [op EXCEPT ![p] = o]
    BY Zenon, <1>1, <1>7 DEF check_valid_esp, file_read
  <2> HIDE DEF o
  <2>3. o.call \notin {"out", "munmap", "exit"}
    BY <2>1, <1>2
  <2>4. CASE check_valid_esp(p)
    <3>1. UNCHANGED <<pte, frame, frame_table, pool, kdirty, swap_bitmap>>
      BY <2>4, <1>7 DEF check_valid_esp
    <3> QED BY ZenonT(60), <2>1, <2>2, <2>3, <3>1, <1>2, <1>3, CallSteps
  <2>5. CASE file_read(p)
    <3> DEFINE pg == <<p, Head(op[p].todo)>>
    <3>1. pg \in Pages
      BY <1>5, <1>7, PageParts
    <3>2. Touch(pg, TRUE) /\ UNCHANGED <<frame, frame_table, pool, kdirty, swap_bitmap>>
      BY Zenon, <2>5, <1>7 DEF file_read
    <3> HIDE DEF pg
    <3> QED BY Zenon, <2>1, <2>2, <2>3, <3>1, <3>2, <1>2, <1>3, TouchStep
  <2> QED BY <2>4, <2>5
<1>8. CASE op[p].todo # <<>> /\ exit_call(p)
  <2> DEFINE o == [Idle EXCEPT !.call = "exit"]
  <2>1. op' = [op EXCEPT ![p] = o] /\ UNCHANGED <<pte, frame, frame_table, pool, kdirty, swap_bitmap>>
    BY <1>8 DEF exit_call
  <2>2. o \in Ops /\ ~o.new /\ o.fault = NONE /\ o.call = "exit"
    BY Zenon, OpTypes DEF Idle, Calls
  <2> HIDE DEF o
  <2> QED BY Zenon, <2>1, <2>2, <1>2, CallSteps
<1>9. CASE op[p].todo = <<>> /\ check_valid_esp(p)
  <2> DEFINE o == [op[p] EXCEPT !.call = "copy", !.todo = op[p].buffer]
  <2>1. o \in Ops /\ o.new = op[p].new /\ o.fault = op[p].fault /\ o.call = "copy"
    BY Zenon, <1>1, <1>4 DEF Ops, Calls
  <2>2. op' = [op EXCEPT ![p] = o] /\ UNCHANGED <<pte, frame, frame_table, pool, kdirty, swap_bitmap>>
    BY Zenon, <1>1, <1>9 DEF check_valid_esp
  <2> HIDE DEF o
  <2> QED BY Zenon, <2>1, <2>2, <1>2, <1>3, CallSteps
<1>10. CASE op[p].todo = <<>> /\ file_read(p)
  <2>1. /\ op' = [op EXCEPT ![p] = Idle]
        /\ UNCHANGED <<pte, frame, frame_table, pool, kdirty, swap_bitmap>>
    BY <1>10 DEF file_read
  <2>2. Idle \in Ops /\ ~Idle.new /\ Idle.fault = NONE /\ Idle.call \notin {"out", "munmap", "exit"}
    BY Zenon, OpTypes DEF Idle, NONE
  <2> QED BY Zenon, <2>1, <2>2, <1>2, CallSteps
<1> QED BY <1>6, <1>7, <1>8, <1>9, <1>10

\* An instruction of the user program.
LEMMA UserStep ==
  ASSUME IInv, NEW p \in Procs, NEW u \in Upages, NEW write \in BOOLEAN, user(p, u, write)
  PROVE  IInv'
<1>1. op[p] = Idle /\ op \in [Procs -> Ops]
  BY DEF user, Running, IInv, TypeInv
<1>2. Idle \in Ops /\ ~Idle.new /\ Idle.fault = NONE /\ Idle.call = NONE /\ NONE # "out"
  BY Zenon, OpTypes DEF Idle, NONE
<1>3. CASE page_fault(p, u)
  BY <1>1, <1>2, <1>3, FaultStep
<1>4. CASE ~page_fault(p, u)
  <2>1. /\ Touch(<<p, u>>, write) /\ op' = op
        /\ UNCHANGED <<frame, frame_table, pool, kdirty, swap_bitmap>>
    BY <1>4 DEF user
  <2>2. <<p, u>> \in Pages /\ op' = [op EXCEPT ![p] = Idle]
    BY <2>1, <1>1, PageParts
  <2> QED BY ZenonT(60), <2>1, <2>2, <1>1, <1>2, TouchStep
<1> QED BY <1>3, <1>4

\* pagedir_destroy meets no page that is present.
LEMMA ExitStep ==
  ASSUME IInv, NEW p \in Procs, process_exit(p)
  PROVE  IInv'
<1>1. /\ op[p].call = "exit" /\ Left(p, Upages) = {}
      /\ pte' = [pg \in Pages |-> IF pg[1] = p THEN NoPte ELSE pte[pg]]
      /\ op' = [op EXCEPT ![p].call = "out"]
      /\ UNCHANGED <<frame, frame_table, pool, kdirty, swap_bitmap>>
  BY DEF process_exit
<1>2. op[p] \in Ops /\ op[p].fault = NONE /\ ~op[p].new
      /\ frame' \in [Pages -> Frames] /\ pte \in [Pages -> Ptes]
  BY Zenon, <1>1 DEF IInv, TypeInv, OpInv, OpOK
<1>3. \A pg \in Pages : pg[1] = p => frame[pg] = NoFrame
  BY <1>1, PageParts DEF Left
<1>4. \A pg \in Pages : pg[1] = p => ~pte[pg].p
  BY <1>3 DEF NoFrame, IInv, PteInv
<1>5. NoPte \in Ptes /\ ~NoPte.p /\ NoPte.p = FALSE
  BY DEF NoPte, Ptes
<1>6. pte' \in [Pages -> Ptes]
  BY <1>1, <1>2, <1>5
<1>7. \A pg \in Pages : /\ pte'[pg].p = pte[pg].p
                        /\ pte[pg].p => pte'[pg].kpage = pte[pg].kpage
  <2>1. \A pg \in Pages : pte[pg].p \in BOOLEAN
    BY <1>2 DEF Ptes
  <2> QED BY Zenon, <2>1, <1>1, <1>4, <1>5
<1> DEFINE o == [op[p] EXCEPT !.call = "out"]
<1>8. o \in Ops /\ ~o.new /\ o.fault = NONE /\ op' = [op EXCEPT ![p] = o]
  BY Zenon, <1>1, <1>2 DEF Ops, Calls, IInv, TypeInv
<1> HIDE DEF o
<1> QED BY Zenon, <1>1, <1>2, <1>3, <1>6, <1>7, <1>8, QuietStep

\* Every step preserves the invariant.
LEMMA NextInv ==
  ASSUME IInv, [Next]_vars PROVE IInv'
<1>1. CASE UNCHANGED vars
  BY ZenonT(60), <1>1 DEF vars, IInv, TypeInv, TableInv, PoolInv, SwapInv, PteInv, OpInv, OpOK,
              Entering, Swapped
<1>2. CASE Next
  <2>1. PICK p \in Procs :
          \/ load(p) \/ load_end(p) \/ serve(p)
          \/ \E u \in Upages, write \in BOOLEAN : user(p, u, write)
          \/ mmap(p) \/ mmap_fails(p) \/ munmap_call(p) \/ munmap(p) \/ munmap_return(p)
          \/ (Running(p) /\ exit_call(p)) \/ exit_pages(p) \/ process_exit(p)
          \/ \E buffer \in Buffers : read(p, buffer)
          \/ check_valid_esp(p) \/ file_read(p)
    BY <1>2 DEF Next
  <2>2. CASE serve(p)
    <3>1. CASE evict(p)
      BY <3>1, EvictStep
    <3>2. CASE page_back(p) \/ file_back(p)
      BY <3>2, BackSteps
    <3>3. CASE frame_table_insert(p)
      BY Zenon, <3>3, InsertStep
    <3>4. CASE spt_init(p)
      BY Zenon, <3>4, MapStep
    <3> QED BY <2>2, <3>1, <3>2, <3>3, <3>4 DEF serve
  <2>3. CASE munmap(p) \/ exit_pages(p)
    <3>1. PICK pg \in Pages : pg[1] = p /\ spt_free(p, pg)
      BY ZenonT(60), <2>3 DEF munmap, exit_pages, Left
    <3>2. op[p].call \in {"munmap", "exit"}
      BY <2>3 DEF munmap, exit_pages
    <3> QED BY Zenon, <3>1, <3>2, FreeStep
  <2>4. CASE load(p) \/ mmap(p)
    BY <2>4, InstallSteps
  <2>5. CASE \E u \in Upages, write \in BOOLEAN : user(p, u, write)
    BY <2>5, UserStep
  <2>6. CASE process_exit(p)
    BY <2>6, ExitStep
  <2>7. CASE check_valid_esp(p) \/ file_read(p)
    BY <2>7, ReadSteps
  <2> QED BY <2>1, <2>2, <2>3, <2>4, <2>5, <2>6, <2>7, ProcessSteps
<1> QED BY Zenon, <1>1, <1>2

\* The invariant is one of the system.
THEOREM IndInvariant == Spec => []IInv
<1>1. Init => IInv
  BY InitInv
<1>2. IInv /\ [Next]_vars => IInv'
  BY NextInv
<1> QED BY <1>1, <1>2, PTL DEF Spec

\* frame.c, swap.c: no frame and no slot is used twice or lost, a page is present only
\* where its frame is, for any number of processes and any sizes of memory and swap.
THEOREM Accounted == Spec => []FramesAccounted
<1>1. ASSUME IInv PROVE FramesAccounted
  <2> DEFINE loaded == {pg \in Pages : frame[pg].load}
             swapped == {pg \in Pages : frame[pg].type = "SWAP" /\ ~frame[pg].load}
  <2> USE <1>1 DEF IInv
  <2>1. Range(frame_table) = loaded
    <3>1. frame_table \in Seq(Pages) /\ DOMAIN frame_table = 1 .. Len(frame_table)
      BY DEF TypeInv
    <3>2. \A e : e \in Range(frame_table) <=> Contains(frame_table, e)
      BY <3>1 DEF Range, Contains
    <3>3. \A e : Contains(frame_table, e) => e \in Pages
      BY <3>1 DEF Contains
    <3> QED BY <3>2, <3>3 DEF TableInv
  <2>2. IsInjective(frame_table)
    BY DEF TableInv
  <2>3. pool = Kpages \ {frame[pg].kpage : pg \in loaded}
    <3>1. pool \subseteq Kpages \ {frame[pg].kpage : pg \in loaded}
      BY DEF TypeInv, PoolInv
    <3>2. Kpages \ {frame[pg].kpage : pg \in loaded} \subseteq pool
      BY DEF PoolInv
    <3> QED BY <3>1, <3>2
  <2>4. \A pg, g \in loaded : frame[pg].kpage = frame[g].kpage => pg = g
    BY DEF PoolInv
  <2>5. \A pg \in Pages : pte[pg].p => frame[pg].load /\ pte[pg].kpage = frame[pg].kpage
    BY DEF PteInv
  <2>6. swap_bitmap = {frame[pg].index : pg \in swapped}
    BY DEF SwapInv, Swapped
  <2>7. \A pg, g \in swapped : frame[pg].index = frame[g].index => pg = g
    BY Zenon DEF SwapInv, Swapped
  <2> QED BY Zenon, <2>1, <2>2, <2>3, <2>4, <2>5, <2>6, <2>7 DEF FramesAccounted
<1> QED BY <1>1, IndInvariant, PTL

\* check_match never finds a frame to share, for any number of processes: the branches
\* of evict, page_back, file_back and spt_free for shared frames are dead code.
THEOREM Unshared == Spec => []NeverShared
<1>1. ASSUME IInv PROVE NeverShared
  <2>1. ASSUME NEW k \in DOMAIN frame_table PROVE frame[frame_table[k]].kpage \in kdirty
    <3>1. frame_table \in Seq(Pages) /\ k \in 1 .. Len(frame_table)
      BY <1>1, <2>1 DEF IInv, TypeInv
    <3>2. frame_table[k] \in Pages /\ Contains(frame_table, frame_table[k])
      BY <3>1 DEF Contains
    <3> QED BY <3>2, <1>1 DEF IInv, TableInv, PoolInv
  <2> QED BY Zenon, <2>1 DEF NeverShared, check_match
<1> QED BY <1>1, IndInvariant, PTL

-----------------------------------------------------------------------------
(************************** what pages hold ********************************)

\* Memory, slots and files hold versions of pages; the frame of a page in memory, and
\* the slot of a page in swap, are not blank.
ContentInv ==
  /\ mem \in [Kpages -> Held \cup {Blank}] /\ swap \in [Slots -> Held \cup {Blank}]
  /\ file \in [Pages -> Held] /\ file_lock \in Procs \cup {NONE}
  /\ \A pg \in Pages : frame[pg].load => mem[frame[pg].kpage] \in Held
  /\ \A pg \in Pages : Swapped(pg) => swap[frame[pg].index] \in Held

\* A page that has a file behind it, and has not been written since it was read, is as
\* in the file: evict may drop it.
CleanInv ==
  \A pg \in Pages : frame[pg].load /\ frame[pg].type # "SWAP" /\ ~pte[pg].d =>
    mem[frame[pg].kpage] = file[pg]

\* The pages of a mapping are backed by its file as long as it is there, and a process
\* that faults on one has the mapping.
MapInv ==
  /\ \A pg \in Pages : pg[2] \in MapPages => frame[pg] = NoFrame \/ frame[pg].type = "MMAP"
  /\ \A p \in Procs : op[p].fault # NONE /\ op[p].fault \in MapPages =>
       frame[<<p, op[p].fault>>] # NoFrame

SameFrame(pg) ==
  /\ frame'[pg].load = frame[pg].load /\ frame'[pg].kpage = frame[pg].kpage
  /\ frame'[pg].type = frame[pg].type /\ frame'[pg].index = frame[pg].index

\* A step that changes neither memory, swap nor files keeps every page.
LEMMA ContentQuiet ==
  ASSUME ContentInv, UNCHANGED <<mem, swap, file>>, file_lock' \in Procs \cup {NONE},
         \A pg \in Pages : \/ SameFrame(pg)
                           \/ /\ ~frame[pg].load /\ ~frame'[pg].load
                              /\ frame[pg].type # "SWAP" /\ frame'[pg].type # "SWAP",
         \A pg \in Pages : frame'[pg].load /\ frame'[pg].type # "SWAP" => pte'[pg].d = pte[pg].d
  PROVE  /\ ContentInv' /\ (CleanInv => CleanInv')
         /\ \A pg \in Pages : Content(pg)' = Content(pg)
<1>1. ContentInv'
  BY ZenonT(60) DEF ContentInv, SameFrame, Swapped
<1>2. CleanInv => CleanInv'
  BY DEF CleanInv, SameFrame
<1>3. \A pg \in Pages : Content(pg)' = Content(pg)
  BY DEF Content, SameFrame
<1> QED BY Zenon, <1>1, <1>2, <1>3

\* An access to a page that is present changes that page only, and marks it dirty if it
\* does.
LEMMA ContentTouch ==
  ASSUME IInv, ContentInv, NEW pg \in Pages, NEW write \in BOOLEAN, pte[pg].p,
         Touch(pg, write), UNCHANGED <<frame, swap, file, file_lock>>
  PROVE  /\ ContentInv' /\ (CleanInv => CleanInv')
         /\ \A g \in Pages : \/ Content(g)' = Content(g)
                             \/ g = pg /\ pte'[pg].p /\ pte'[pg].d
<1> DEFINE k == frame[pg].kpage
<1>1. /\ frame[pg].load /\ k \in Kpages /\ mem[k] \in Held /\ pte \in [Pages -> Ptes]
      /\ pte[pg].kpage = k
      /\ \A g \in Pages \ {pg} : frame[g].load => frame[g].kpage # k /\ frame[g].kpage \in Kpages
  BY Zenon DEF IInv, PteInv, PoolInv, TypeInv, ContentInv
<1>2. pte' = [pte EXCEPT ![pg].a = TRUE, ![pg].d = pte[pg].d \/ write]
  BY DEF Touch
<1>3. /\ \A g \in Pages \ {pg} : pte'[g] = pte[g]
      /\ pte'[pg].d = (pte[pg].d \/ write) /\ pte'[pg].p
  BY <1>1, <1>2 DEF Ptes
<1>4. mem' = IF write THEN [mem EXCEPT ![k] = <<pg, 1 - mem[k][2]>>] ELSE mem
  BY ZenonT(60), <1>1 DEF Touch
<1>5. <<pg, 1 - mem[k][2]>> \in Held
  BY <1>1 DEF Held
<1> HIDE DEF k
<1>6. /\ mem' \in [Kpages -> Held \cup {Blank}] /\ mem'[k] \in Held
      /\ \A g \in Pages \ {pg} : frame[g].load => mem'[frame[g].kpage] = mem[frame[g].kpage]
  BY Zenon, <1>1, <1>4, <1>5 DEF ContentInv
<1>7. ContentInv'
  BY Zenon, <1>1, <1>6 DEF ContentInv, Swapped, k
<1>8. CleanInv => CleanInv'
  <2> SUFFICES ASSUME CleanInv PROVE CleanInv'
    OBVIOUS
  <2>1. ASSUME NEW g \in Pages, frame'[g].load, frame'[g].type # "SWAP", ~pte'[g].d
        PROVE  mem'[frame'[g].kpage] = file'[g]
    <3>1. CASE g = pg
      BY ZenonT(60), <1>3, <1>4, <2>1, <3>1 DEF CleanInv
    <3>2. CASE g # pg
      BY Zenon, <1>3, <1>6, <2>1, <3>2 DEF CleanInv
    <3> QED BY <3>1, <3>2
  <2> QED BY Zenon, <2>1 DEF CleanInv
<1>9. ASSUME NEW g \in Pages
      PROVE  \/ Content(g)' = Content(g)
             \/ g = pg /\ pte'[pg].p /\ pte'[pg].d
  BY ZenonT(60), <1>1, <1>3, <1>4, <1>6 DEF Content, k
<1> QED BY <1>7, <1>8, <1>9

\* A page comes into a free frame, from its slot, from its file or new.
LEMMA ContentIn ==
  ASSUME IInv, ContentInv, NEW pg \in Pages, NEW k \in pool, NEW v \in Held,
         ~frame[pg].load, mem' = [mem EXCEPT ![k] = v],
         frame'[pg].load, frame'[pg].kpage = k,
         \A g \in Pages \ {pg} : frame'[g] = frame[g] /\ pte'[g] = pte[g],
         \/ Swapped(pg) /\ swap' = [swap EXCEPT ![frame[pg].index] = Blank]
         \/ ~Swapped(pg) /\ swap' = swap,
         file' = file, file_lock' \in Procs \cup {NONE},
         frame'[pg].type # "SWAP" => v = file[pg]
  PROVE  /\ ContentInv' /\ (CleanInv => CleanInv') /\ Content(pg)' = v
         /\ \A g \in Pages \ {pg} : Content(g)' = Content(g)
<1>1. /\ k \in Kpages /\ mem \in [Kpages -> Held \cup {Blank}]
      /\ swap \in [Slots -> Held \cup {Blank}]
      /\ \A g \in Pages : frame[g].load => frame[g].kpage # k /\ frame[g].kpage \in Kpages
      /\ \A g \in Pages : Swapped(g) => frame[g].index \in Slots
      /\ \A g \in Pages \ {pg} :
           Swapped(g) /\ Swapped(pg) => frame[g].index # frame[pg].index
  BY ZenonT(60) DEF IInv, TypeInv, PoolInv, SwapInv, ContentInv
<1>2. /\ mem' \in [Kpages -> Held \cup {Blank}] /\ mem'[k] = v
      /\ \A g \in Pages : frame[g].load => mem'[frame[g].kpage] = mem[frame[g].kpage]
  BY Zenon, <1>1
<1>3. /\ swap' \in [Slots -> Held \cup {Blank}]
      /\ \A g \in Pages \ {pg} : Swapped(g) => swap'[frame[g].index] = swap[frame[g].index]
  BY ZenonT(60), <1>1
<1>4. ContentInv'
  BY <1>2, <1>3 DEF ContentInv, Swapped
<1>5. CleanInv => CleanInv'
  BY ZenonT(60), <1>2 DEF CleanInv
<1>6. ASSUME NEW g \in Pages \ {pg} PROVE Content(g)' = Content(g)
  BY <1>2, <1>3 DEF Content, Swapped
<1> QED BY ZenonT(60), <1>2, <1>4, <1>5, <1>6 DEF Content

\* A page leaves its frame, for a free slot, for its file or for good.
LEMMA ContentOut ==
  ASSUME IInv, ContentInv, NEW pg \in Pages, frame[pg].load, ~frame'[pg].load,
         mem' = [mem EXCEPT ![frame[pg].kpage] = Blank],
         \A g \in Pages \ {pg} : frame'[g] = frame[g] /\ pte'[g].d = pte[g].d,
         \/ frame'[pg].type # "SWAP" /\ swap' = swap
         \/ /\ frame'[pg].type = "SWAP" /\ frame'[pg].index \in Slots \ swap_bitmap
            /\ swap' = [swap EXCEPT ![frame'[pg].index] = mem[frame[pg].kpage]],
         file' = file \/ file' = [file EXCEPT ![pg] = mem[frame[pg].kpage]],
         file_lock' \in Procs \cup {NONE}
  PROVE  /\ ContentInv' /\ (CleanInv => CleanInv')
         /\ Content(pg)' = IF frame'[pg].type = "SWAP" THEN mem[frame[pg].kpage] ELSE file'[pg]
         /\ \A g \in Pages \ {pg} : Content(g)' = Content(g)
<1> DEFINE k == frame[pg].kpage
<1>1. /\ k \in Kpages /\ mem \in [Kpages -> Held \cup {Blank}] /\ mem[k] \in Held
      /\ swap \in [Slots -> Held \cup {Blank}] /\ file \in [Pages -> Held]
      /\ \A g \in Pages \ {pg} : frame[g].load => frame[g].kpage # k /\ frame[g].kpage \in Kpages
      /\ \A g \in Pages : Swapped(g) => frame[g].index \in swap_bitmap
      /\ swap_bitmap \subseteq Slots
  BY ZenonT(60) DEF IInv, TypeInv, PoolInv, SwapInv, ContentInv
<1>2. /\ mem' \in [Kpages -> Held \cup {Blank}]
      /\ \A g \in Pages \ {pg} : frame[g].load => mem'[frame[g].kpage] = mem[frame[g].kpage]
  BY Zenon, <1>1
<1>3. /\ swap' \in [Slots -> Held \cup {Blank}]
      /\ \A g \in Pages : Swapped(g) => swap'[frame[g].index] = swap[frame[g].index]
      /\ frame'[pg].type = "SWAP" => swap'[frame'[pg].index] = mem[k]
  BY Zenon, <1>1
<1>4. file' \in [Pages -> Held] /\ \A g \in Pages \ {pg} : file'[g] = file[g]
  BY <1>1
<1> HIDE DEF k
<1>5. ContentInv'
  <2>1. ASSUME NEW g \in Pages, frame'[g].load PROVE mem'[frame'[g].kpage] \in Held
    <3>1. g \in Pages \ {pg} /\ frame'[g] = frame[g] /\ frame[g].load
      BY Zenon, <2>1
    <3>2. mem[frame[g].kpage] \in Held
      BY Zenon, <3>1 DEF ContentInv
    <3> QED BY Zenon, <1>2, <3>1, <3>2
  <2>2. ASSUME NEW g \in Pages, Swapped(g)' PROVE swap'[frame'[g].index] \in Held
    <3>1. CASE g = pg
      BY Zenon, <1>1, <1>3, <2>2, <3>1 DEF Swapped
    <3>2. CASE g # pg
      <4>1. frame'[g] = frame[g] /\ Swapped(g)
        BY Zenon, <2>2, <3>2 DEF Swapped
      <4>2. swap[frame[g].index] \in Held
        BY ZenonT(60), <4>1 DEF ContentInv
      <4> QED BY Zenon, <1>3, <4>1, <4>2
    <3> QED BY Zenon, <3>1, <3>2
  <2> QED BY Zenon, <1>2, <1>3, <1>4, <2>1, <2>2 DEF ContentInv
<1>6. ASSUME CleanInv PROVE CleanInv'
  <2>1. ASSUME NEW g \in Pages, frame'[g].load, frame'[g].type # "SWAP", ~pte'[g].d
        PROVE  mem'[frame'[g].kpage] = file'[g]
    <3>1. g \in Pages \ {pg} /\ frame'[g] = frame[g] /\ frame[g].load /\ ~pte[g].d
      BY Zenon, <2>1
    <3>2. mem[frame[g].kpage] = file[g]
      BY ZenonT(60), <1>6, <2>1, <3>1 DEF CleanInv
    <3> QED BY Zenon, <1>2, <1>4, <3>1, <3>2
  <2> QED BY Zenon, <2>1 DEF CleanInv
<1>7. ASSUME NEW g \in Pages \ {pg} PROVE Content(g)' = Content(g)
  <2>1. frame'[g] = frame[g] /\ file'[g] = file[g]
    BY Zenon, <1>4
  <2>2. CASE frame[g].load
    BY ZenonT(60), <1>2, <2>1, <2>2 DEF Content
  <2>3. CASE ~frame[g].load
    <3>1. CASE Swapped(g)
      BY Zenon, <1>3, <2>1, <3>1 DEF Content, Swapped
    <3>2. CASE ~Swapped(g)
      BY Zenon, <2>1, <2>3, <3>2 DEF Content, Swapped
    <3> QED BY <3>1, <3>2
  <2> QED BY <2>2, <2>3
<1> QED BY Zenon, <1>3, <1>5, <1>6, <1>7 DEF Content, k

\* A page that is not in memory is given up, with its slot if it has one.
LEMMA ContentDrop ==
  ASSUME IInv, ContentInv, NEW pg \in Pages, ~frame[pg].load, frame'[pg] = NoFrame,
         \A g \in Pages \ {pg} : frame'[g] = frame[g],
         UNCHANGED <<pte, mem, file, file_lock>>,
         \/ Swapped(pg) /\ swap' = [swap EXCEPT ![frame[pg].index] = Blank]
         \/ ~Swapped(pg) /\ swap' = swap
  PROVE  /\ ContentInv' /\ (CleanInv => CleanInv') /\ Content(pg)' = file[pg]
         /\ \A g \in Pages \ {pg} : Content(g)' = Content(g)
<1>1. /\ swap \in [Slots -> Held \cup {Blank}]
      /\ \A g \in Pages : Swapped(g) => frame[g].index \in Slots
      /\ \A g \in Pages \ {pg} :
           Swapped(g) /\ Swapped(pg) => frame[g].index # frame[pg].index
  BY Zenon DEF IInv, TypeInv, SwapInv, ContentInv
<1>2. /\ swap' \in [Slots -> Held \cup {Blank}]
      /\ \A g \in Pages \ {pg} : Swapped(g) => swap'[frame[g].index] = swap[frame[g].index]
  BY ZenonT(60), <1>1
<1>3. ~frame'[pg].load /\ frame'[pg].type # "SWAP"
  BY DEF NoFrame, NONE
<1>4. ContentInv'
  BY Zenon, <1>2, <1>3 DEF ContentInv, Swapped
<1>5. CleanInv => CleanInv'
  BY Zenon, <1>3 DEF CleanInv
<1>6. ASSUME NEW g \in Pages \ {pg} PROVE Content(g)' = Content(g)
  BY ZenonT(60), <1>2 DEF Content, Swapped
<1> QED BY Zenon, <1>3, <1>4, <1>5, <1>6 DEF Content

\* What a step does to the page pg, as KeepsContent has it.
Keeps(pg) ==
  (frame[pg] # NoFrame /\ frame'[pg] # NoFrame) \/ pg[2] \in MapPages =>
    \/ Content(pg)' = Content(pg)
    \/ pte[pg].p /\ pte'[pg].p /\ pte'[pg].d

\* evict asks the page directory of the process that needs a frame about the victim,
\* so what pages hold is sure to be kept only if there is one process.
OneProcess == \A p, q \in Procs : p = q

\* What a step has to do for the contents of the pages, on top of IInv.
ContentKept ==
  /\ ContentInv'
  /\ CleanInv /\ MapInv /\ OneProcess => CleanInv' /\ \A pg \in Pages : Keeps(pg)

\* page_back and file_back.
LEMMA BackContent ==
  ASSUME IInv, ContentInv, NEW p \in Procs, page_back(p) \/ file_back(p)
  PROVE  ContentKept
<1> DEFINE pg == <<p, op[p].fault>>
<1>1. /\ op[p].fault # NONE /\ pool # {} /\ ~op[p].new /\ Loaded(p, pg)
      /\ file' = file /\ file_lock' \in Procs \cup {NONE}
  BY Zenon DEF page_back, file_back, IInv, OpInv, OpOK, ContentInv
<1>2. pg \in Pages /\ ~frame[pg].load
  BY ZenonT(60), <1>1, FaultPage
<1>3. kpage \in pool
  BY <1>1, FreeFrame DEF IInv
<1>4. PICK v \in Held :
        /\ mem' = [mem EXCEPT ![kpage] = v] /\ v = Content(pg)
        /\ \/ Swapped(pg) /\ swap' = [swap EXCEPT ![frame[pg].index] = Blank]
           \/ ~Swapped(pg) /\ swap' = swap
        /\ frame[pg].type # "SWAP" => v = file[pg]
  <2>1. CASE page_back(p)
    BY Zenon, <1>2, <2>1 DEF page_back, ContentInv, Swapped, Content
  <2>2. CASE file_back(p)
    BY Zenon, <1>2, <2>2 DEF file_back, ContentInv, Swapped, Content
  <2> QED BY Zenon, <2>1, <2>2
<1>5. /\ frame'[pg].load /\ frame'[pg].kpage = kpage /\ frame'[pg].type = frame[pg].type
      /\ \A g \in Pages \ {pg} : frame'[g] = frame[g] /\ pte'[g] = pte[g]
  BY <1>1, <1>2 DEF Loaded, install_page, IInv, TypeInv, Frames
<1> HIDE DEF pg
<1>6. /\ ContentInv' /\ (CleanInv => CleanInv')
      /\ \A g \in Pages : Content(g)' = Content(g)
  BY ZenonT(60), <1>1, <1>2, <1>3, <1>4, <1>5, ContentIn
<1> QED BY <1>6 DEF ContentKept, Keeps

\* frame_table_insert: a page of the stack, which had no content.
LEMMA InsertContent ==
  ASSUME IInv, ContentInv, NEW p \in Procs, frame_table_insert(p)
  PROVE  ContentKept
<1> DEFINE pg == <<p, op[p].fault>>
<1>1. /\ op[p].fault # NONE /\ pool # {} /\ frame[pg] = NoFrame
      /\ mem' = [mem EXCEPT ![kpage] = Zero(pg)]
      /\ frame' = [frame EXCEPT ![pg] =
                      [NoFrame EXCEPT !.type = "SWAP", !.load = TRUE, !.kpage = kpage]]
      /\ UNCHANGED <<pte, swap, file, file_lock>>
  BY DEF frame_table_insert
<1>2. pg \in Pages /\ pg[2] = op[p].fault /\ pg[1] = p
  BY <1>1, FaultPage
<1>3. kpage \in pool
  BY <1>1, FreeFrame DEF IInv
<1>4. /\ ~frame[pg].load /\ ~Swapped(pg) /\ Zero(pg) \in Held
  BY <1>1, <1>2 DEF NoFrame, NONE, Swapped, Zero, Held
<1>5. /\ frame'[pg].load /\ frame'[pg].kpage = kpage /\ frame'[pg].type = "SWAP"
      /\ \A g \in Pages \ {pg} : frame'[g] = frame[g]
  BY <1>1, <1>2 DEF NoFrame, IInv, TypeInv
<1>6. MapInv => pg[2] \notin MapPages
  BY <1>1, <1>2 DEF MapInv
<1>7. file_lock' \in Procs \cup {NONE}
  BY <1>1 DEF ContentInv
<1> HIDE DEF pg
<1>8. /\ ContentInv' /\ (CleanInv => CleanInv')
      /\ \A g \in Pages \ {pg} : Content(g)' = Content(g)
  BY Zenon, <1>1, <1>2, <1>3, <1>4, <1>5, <1>7, ContentIn
<1> QED BY <1>1, <1>6, <1>8 DEF ContentKept, Keeps

\* evict: with one process the dirty bit it looks at is the victim's own, so that a page
\* that is dropped is as in its file.
LEMMA EvictContent ==
  ASSUME IInv, ContentInv, NEW p \in Procs, NEW pg, pg = frame_table[victim(p)], evict(p)
  PROVE  ContentKept
<1> DEFINE k == frame[pg].kpage
           slot == Min(Slots \ swap_bitmap)
           out == to_swap(p, pg)
<1>1. /\ out => Slots \ swap_bitmap # {}
      /\ frame' = [frame EXCEPT ![pg] =
           [frame[pg] EXCEPT !.load = FALSE, !.kpage = 0,
                             !.type = IF out THEN "SWAP" ELSE frame[pg].type,
                             !.index = IF out THEN slot ELSE frame[pg].index]]
      /\ swap' = IF out THEN [swap EXCEPT ![slot] = mem[k]] ELSE swap
      /\ file' = IF to_file(p, pg) THEN [file EXCEPT ![pg] = mem[k]] ELSE file
      /\ file_lock' = IF to_file(p, pg) THEN NONE ELSE file_lock
      /\ pte' = [scanned(p) EXCEPT ![pg].p = FALSE, ![pg].kpage = 0]
      /\ mem' = [mem EXCEPT ![k] = Blank]
  BY DEF evict
<1>2. pg \in Pages /\ frame[pg].load
  <2>1. victim(p) \in 1 .. Len(frame_table) /\ frame_table \in Seq(Pages)
    BY VictimOnTable DEF evict, IInv, TypeInv
  <2>2. pg \in Pages /\ Contains(frame_table, pg)
    BY <2>1 DEF Contains
  <2> QED BY ZenonT(60), <2>2 DEF IInv, TableInv
<1>3. out => slot \in Slots \ swap_bitmap
  <2>1. Slots \ swap_bitmap \in SUBSET Nat
    BY VMAssumption DEF Slots, VMAssumption
  <2> QED BY Zenon, <1>1, <2>1, LeastNat
<1>4. /\ out = (frame[pg].type # "MMAP" /\ (frame[pg].type # "FILE" \/ pte[<<p, pg[2]>>].d))
      /\ to_file(p, pg) = (frame[pg].type = "MMAP" /\ pte[<<p, pg[2]>>].d)
      /\ out \in BOOLEAN
  BY DEF to_swap, to_file, is_dirty
<1>5. OneProcess => <<p, pg[2]>> = pg
  BY <1>2, PageParts DEF OneProcess
<1>6. \A g \in Pages \ {pg} : pte'[g].d = pte[g].d
  <2>1. /\ scanned(p) = [g \in Pages |-> scanned(p)[g]]
        /\ \A g \in Pages : scanned(p)[g] \in {pte[g], [pte[g] EXCEPT !.a = FALSE]}
    BY DEF scanned
  <2>2. \A g \in Pages : pte[g] \in Ptes
    BY DEF IInv, TypeInv
  <2>3. \A g \in Pages : scanned(p)[g].d = pte[g].d
    BY <2>1, <2>2 DEF Ptes
  <2> QED BY <1>1, <2>1, <2>3
<1> HIDE DEF k, slot, out
<1>7. /\ ~frame'[pg].load /\ \A g \in Pages \ {pg} : frame'[g] = frame[g]
      /\ frame'[pg].type = IF out THEN "SWAP" ELSE frame[pg].type
      /\ out => frame'[pg].index = slot
  BY <1>1, <1>2 DEF IInv, TypeInv, Frames
<1>8. file_lock' \in Procs \cup {NONE}
  BY <1>1 DEF ContentInv
<1>9. k = frame[pg].kpage
  BY DEF k
<1>10. ~out => frame[pg].type # "SWAP"
  BY ZenonT(60), <1>4
<1>11. /\ ContentInv' /\ (CleanInv => CleanInv')
       /\ Content(pg)' = IF out THEN mem[k] ELSE file'[pg]
       /\ \A g \in Pages \ {pg} : Content(g)' = Content(g)
  <2>1. /\ \/ frame'[pg].type # "SWAP" /\ swap' = swap
           \/ /\ frame'[pg].type = "SWAP" /\ frame'[pg].index \in Slots \ swap_bitmap
              /\ swap' = [swap EXCEPT ![frame'[pg].index] = mem[frame[pg].kpage]]
        /\ file' = file \/ file' = [file EXCEPT ![pg] = mem[frame[pg].kpage]]
        /\ mem' = [mem EXCEPT ![frame[pg].kpage] = Blank]
        /\ \A g \in Pages \ {pg} : frame'[g] = frame[g] /\ pte'[g].d = pte[g].d
    BY ZenonT(60), <1>1, <1>3, <1>6, <1>7, <1>9, <1>10
  <2>2. /\ ContentInv' /\ (CleanInv => CleanInv')
        /\ Content(pg)' = IF frame'[pg].type = "SWAP" THEN mem[frame[pg].kpage] ELSE file'[pg]
        /\ \A g \in Pages \ {pg} : Content(g)' = Content(g)
    BY ZenonT(60), <1>2, <1>7, <1>8, <2>1, ContentOut
  <2> QED BY <1>7, <1>9, <1>10, <2>2
<1>12. Content(pg) = mem[k] /\ file \in [Pages -> Held]
  BY Zenon, <1>2, <1>9 DEF Content, ContentInv
<1>13. ASSUME CleanInv, OneProcess PROVE Content(pg)' = Content(pg)
  <2>1. CASE out
    BY <1>11, <1>12, <2>1
  <2>2. CASE ~out /\ pte[pg].d
    BY ZenonT(60), <1>1, <1>2, <1>4, <1>5, <1>11, <1>12, <1>13, <2>2
  <2>3. CASE ~out /\ ~pte[pg].d
    <3>1. file' = file /\ mem[k] = file[pg]
      BY ZenonT(60), <1>1, <1>2, <1>4, <1>5, <1>9, <1>10, <1>13, <2>3 DEF CleanInv
    <3> QED BY <1>11, <1>12, <2>3, <3>1
  <2> QED BY ZenonT(60), <2>1, <2>2, <2>3
<1>14. CleanInv /\ OneProcess => \A g \in Pages : Content(g)' = Content(g)
  BY <1>11, <1>13
<1> QED BY Zenon, <1>11, <1>14 DEF ContentKept, Keeps

\* spt_free: a mapped page that is dirty is written to its file before it goes.
LEMMA FreeContent ==
  ASSUME IInv, ContentInv, NEW p \in Procs, NEW pg \in Pages, pg[1] = p, spt_free(p, pg)
  PROVE  ContentKept
<1>1. /\ file' = IF frame[pg].load /\ to_file(p, pg)
                    THEN [file EXCEPT ![pg] = mem[frame[pg].kpage]] ELSE file
      /\ pte' = IF frame[pg].load THEN [pte EXCEPT ![pg].p = FALSE, ![pg].kpage = 0] ELSE pte
      /\ frame_free(pg) /\ frame' = [frame EXCEPT ![pg] = NoFrame] /\ file_lock' = file_lock
  BY DEF spt_free
<1>2. /\ frame'[pg] = NoFrame /\ \A g \in Pages \ {pg} : frame'[g] = frame[g] /\ pte'[g] = pte[g]
  BY <1>1 DEF IInv, TypeInv
<1>3. file_lock' \in Procs \cup {NONE} /\ file \in [Pages -> Held]
  BY <1>1 DEF ContentInv
<1>4. ~NoFrame.load /\ NoFrame.type # "SWAP"
  BY ZenonT(60) DEF NoFrame, NONE
<1>5. CASE frame[pg].load
  <2>1. /\ mem' = [mem EXCEPT ![frame[pg].kpage] = Blank] /\ swap' = swap
    BY <1>1, <1>5 DEF frame_free
  <2>2. file' = file \/ file' = [file EXCEPT ![pg] = mem[frame[pg].kpage]]
    BY <1>1
  <2>3. /\ ContentInv' /\ (CleanInv => CleanInv') /\ Content(pg)' = file'[pg]
        /\ \A g \in Pages \ {pg} : Content(g)' = Content(g)
    BY ZenonT(60), <1>2, <1>3, <1>4, <1>5, <2>1, <2>2, ContentOut
  <2>4. ASSUME CleanInv, MapInv, pg[2] \in MapPages PROVE Content(pg)' = Content(pg)
    <3>1. Content(pg) = mem[frame[pg].kpage] /\ frame[pg].type = "MMAP" /\ <<p, pg[2]>> = pg
      BY <1>4, <1>5, <2>4, PageParts DEF Content, MapInv
    <3>2. CASE pte[pg].d
      <4>1. to_file(p, pg)
        BY <3>1, <3>2 DEF to_file, is_dirty
      <4> QED BY ZenonT(60), <1>1, <1>3, <1>5, <2>3, <3>1, <4>1
    <3>3. CASE ~pte[pg].d
      <4>1. ~to_file(p, pg)
        BY ZenonT(60), <3>1, <3>3 DEF to_file, is_dirty
      <4> QED BY ZenonT(60), <1>1, <1>5, <2>3, <2>4, <3>1, <3>3, <4>1 DEF CleanInv
    <3> QED BY ZenonT(60), <3>2, <3>3
  <2> QED BY <1>2, <2>3, <2>4 DEF ContentKept, Keeps
<1>6. CASE ~frame[pg].load
  <2>1. /\ \/ Swapped(pg) /\ swap' = [swap EXCEPT ![frame[pg].index] = Blank]
           \/ ~Swapped(pg) /\ swap' = swap
        /\ UNCHANGED <<pte, mem, file, file_lock>>
    BY <1>1, <1>6 DEF frame_free, Swapped
  <2>2. /\ ContentInv' /\ (CleanInv => CleanInv') /\ Content(pg)' = file[pg]
        /\ \A g \in Pages \ {pg} : Content(g)' = Content(g)
    BY ZenonT(60), <1>2, <1>6, <2>1, ContentDrop
  <2>3. MapInv /\ pg[2] \in MapPages => Content(pg) = file[pg]
    BY <1>4, <1>6 DEF MapInv, Content
  <2> QED BY <1>2, <2>2, <2>3 DEF ContentKept, Keeps
<1> QED BY <1>5, <1>6

\* The steps that move no page: what is entered has no frame and no slot, and the
\* page that spt_init maps has no file.
LEMMA OtherContent ==
  ASSUME IInv, ContentInv, NEW p \in Procs,
         \/ load(p) \/ load_end(p) \/ spt_init(p) \/ mmap(p) \/ mmap_fails(p)
         \/ munmap_call(p) \/ munmap_return(p) \/ exit_call(p) \/ process_exit(p)
         \/ (\E buffer \in Buffers : read(p, buffer))
         \/ (\E u \in Upages : page_fault(p, u))
         \/ (check_valid_esp(p) /\ UNCHANGED <<pte, frame>>)
         \/ (file_read(p) /\ UNCHANGED <<pte, frame, mem>>)
  PROVE  ContentKept
<1>1. UNCHANGED <<mem, swap, file>> /\ file_lock' \in Procs \cup {NONE}
  BY Zenon DEF load, load_end, spt_init, mmap, mmap_fails, munmap_call, munmap_return, exit_call,
         process_exit, read, page_fault, check_valid_esp, file_read, ContentInv
<1>2. ~NoFrame.load /\ NoFrame.type # "SWAP"
  BY DEF NoFrame, NONE
<1>3. ASSUME \A pg \in Pages : \/ SameFrame(pg)
                               \/ /\ ~frame[pg].load /\ ~frame'[pg].load
                                  /\ frame[pg].type # "SWAP" /\ frame'[pg].type # "SWAP",
             \A pg \in Pages : frame'[pg].load /\ frame'[pg].type # "SWAP" =>
               pte'[pg].d = pte[pg].d
      PROVE  ContentKept
  BY ZenonT(60), <1>1, <1>3, ContentQuiet DEF ContentKept, Keeps
<1>4. CASE UNCHANGED <<pte, frame>>
  BY <1>3, <1>4 DEF SameFrame
<1>5. CASE process_exit(p)
  <2>1. /\ \A pg \in Pages : pg[1] = p => frame[pg] = NoFrame
        /\ UNCHANGED frame
        /\ pte' = [pg \in Pages |-> IF pg[1] = p THEN NoPte ELSE pte[pg]]
    BY <1>5, PageParts DEF process_exit, Left
  <2> QED BY Zenon, <1>2, <1>3, <2>1 DEF SameFrame
<1>6. CASE spt_init(p)
  <2> DEFINE pg == <<p, op[p].fault>>
  <2>1. /\ pg \in Pages /\ frame[pg].type = "SWAP"
        /\ frame' = [frame EXCEPT ![pg].spt = TRUE]
        /\ pte' = install_page(pg, frame[pg].kpage)
    BY <1>6, FaultPage DEF spt_init, IInv, OpInv, OpOK
  <2> HIDE DEF pg
  <2>2. \A g \in Pages : SameFrame(g)
    BY <2>1 DEF SameFrame, IInv, TypeInv, Frames
  <2>3. \A g \in Pages \ {pg} : pte'[g] = pte[g]
    BY Zenon, <2>1 DEF install_page, IInv, TypeInv
  <2> QED BY ZenonT(60), <1>3, <2>1, <2>2, <2>3 DEF SameFrame
<1>7. ASSUME NEW type \in {"FILE", "MMAP"}, NEW new \in SUBSET Pages,
             \A pg \in new : frame[pg] = NoFrame,
             frame' = install_file(new, type), pte' = pte
      PROVE  ContentKept
  <2> DEFINE f == [NoFrame EXCEPT !.type = type, !.spt = TRUE]
  <2>1. ~f.load /\ f.type # "SWAP"
    BY <1>7 DEF NoFrame
  <2>2. frame' = [pg \in Pages |-> IF pg \in new THEN f ELSE frame[pg]]
    BY <1>7 DEF install_file
  <2> HIDE DEF f
  <2> QED BY ZenonT(60), <1>2, <1>3, <1>7, <2>1, <2>2 DEF SameFrame
<1>8. CASE load(p)
  <2>1. \A pg \in Pages : pg[1] = p => frame[pg] = NoFrame
    BY Zenon, <1>8 DEF load, IInv, OpInv, OpOK
  <2> QED BY <1>7, <1>8, <2>1 DEF load
<1>9. CASE mmap(p)
  BY Zenon, <1>7, <1>9 DEF mmap
<1> QED
  BY Zenon, <1>4, <1>5, <1>6, <1>8, <1>9
     DEF load_end, mmap_fails, munmap_call, munmap_return, exit_call, read, page_fault

\* Every step.
LEMMA NextContent ==
  ASSUME IInv, ContentInv, [Next]_vars PROVE ContentKept
<1>1. CASE UNCHANGED vars
  <2>1. /\ UNCHANGED <<mem, swap, file, frame, pte>> /\ file_lock' \in Procs \cup {NONE}
        /\ \A pg \in Pages : SameFrame(pg)
    BY <1>1 DEF vars, SameFrame, ContentInv
  <2> QED BY ZenonT(60), <2>1, ContentQuiet DEF ContentKept, Keeps
<1>2. ASSUME NEW p \in Procs, serve(p) PROVE ContentKept
  BY <1>2, EvictContent, BackContent, InsertContent, OtherContent DEF serve
<1>3. ASSUME NEW p \in Procs, NEW u \in Upages, NEW write \in BOOLEAN, pte[<<p, u>>].p,
             Touch(<<p, u>>, write), UNCHANGED <<frame, swap, file, file_lock>>
      PROVE  ContentKept
  <2>1. <<p, u>> \in Pages
    BY PageParts
  <2> QED BY Zenon, <1>3, <2>1, ContentTouch DEF ContentKept, Keeps
<1>4. ASSUME NEW p \in Procs, NEW u \in Upages, NEW write \in BOOLEAN, user(p, u, write)
      PROVE  ContentKept
  BY Zenon, <1>3, <1>4, OtherContent DEF user
<1>5. ASSUME NEW p \in Procs, check_valid_esp(p) \/ file_read(p) PROVE ContentKept
  <2>1. op[p].todo # <<>> => Head(op[p].todo) \in Upages
    BY DEF IInv, TypeInv, Ops
  <2>2. CASE check_valid_esp(p)
    BY Zenon, <2>2, OtherContent DEF check_valid_esp, page_fault, exit_call
  <2>3. CASE file_read(p)
    <3>1. CASE UNCHANGED <<pte, frame, mem>>
      BY <2>3, <3>1, OtherContent
    <3>2. CASE ~UNCHANGED <<pte, frame, mem>>
      BY Zenon, <1>3, <2>1, <2>3, <3>2 DEF file_read, page_fault
    <3> QED BY <3>1, <3>2
  <2> QED BY <1>5, <2>2, <2>3
<1>6. ASSUME NEW p \in Procs, munmap(p) \/ exit_pages(p) PROVE ContentKept
  <2>1. PICK pg \in Pages : pg[1] = p /\ spt_free(p, pg)
    BY <1>6 DEF munmap, exit_pages, Left
  <2> QED BY ZenonT(60), <2>1, FreeContent
<1>7. ASSUME NEW p \in Procs,
             \/ load(p) \/ load_end(p) \/ mmap(p) \/ mmap_fails(p)
             \/ munmap_call(p) \/ munmap_return(p) \/ exit_call(p) \/ process_exit(p)
             \/ \E buffer \in Buffers : read(p, buffer)
      PROVE  ContentKept
  BY Zenon, <1>7, OtherContent
<1> QED BY ZenonT(60), <1>1, <1>2, <1>4, <1>5, <1>6, <1>7 DEF Next

\* A mapped page keeps its type until it is given up, and that is not while it is
\* brought in.
LEMMA NextMap ==
  ASSUME IInv, MapInv, [Next]_vars PROVE MapInv'
<1> DEFINE Goal == MapInv'
<1>0. /\ frame \in [Pages -> Frames] /\ op \in [Procs -> Ops]
      /\ \A p \in Procs : op[p].fault \in MapPages =>
           <<p, op[p].fault>> \in Pages /\ <<p, op[p].fault>>[1] = p
  BY Zenon, PageParts DEF IInv, TypeInv, Upages
<1>1. ASSUME NEW p \in Procs,
             \A q \in Procs \ {p} : op'[q] = op[q],
             op'[p].fault # NONE /\ op'[p].fault \in MapPages =>
               frame'[<<p, op'[p].fault>>] # NoFrame,
             \A pg \in Pages : \/ frame'[pg] = frame[pg]
                               \/ /\ frame'[pg] # NoFrame
                                  /\ pg[2] \in MapPages => frame'[pg].type = "MMAP"
                               \/ frame'[pg] = NoFrame /\ pg[1] = p
      PROVE  MapInv'
  <2>1. \A pg \in Pages : pg[2] \in MapPages => frame'[pg] = NoFrame \/ frame'[pg].type = "MMAP"
    BY ZenonT(60), <1>1 DEF MapInv
  <2>2. ASSUME NEW q \in Procs \ {p}, op'[q].fault # NONE, op'[q].fault \in MapPages
        PROVE  frame'[<<q, op'[q].fault>>] # NoFrame
    BY <1>0, <1>1, <2>2 DEF MapInv
  <2> QED BY Zenon, <1>1, <2>1, <2>2 DEF MapInv
<1>2. CASE UNCHANGED vars
  BY <1>2 DEF vars, MapInv
<1>3. ASSUME NEW p \in Procs, evict(p) PROVE Goal
  <2> DEFINE pg == frame_table[victim(p)]
  <2>1. /\ op' = op /\ pg \in Pages /\ frame[pg].load /\ frame[pg].spt
        /\ frame' = [frame EXCEPT ![pg] =
             [frame[pg] EXCEPT !.load = FALSE, !.kpage = 0,
                !.type = IF to_swap(p, pg) THEN "SWAP" ELSE frame[pg].type,
                !.index = IF to_swap(p, pg) THEN Min(Slots \ swap_bitmap) ELSE frame[pg].index]]
    <3>1. victim(p) \in 1 .. Len(frame_table) /\ frame_table \in Seq(Pages)
      BY <1>3, VictimOnTable DEF evict, IInv, TypeInv
    <3>2. pg \in Pages /\ Contains(frame_table, pg) /\ pg \in Range(frame_table)
      BY <3>1 DEF Contains, Range
    <3> QED BY <1>3, <3>2 DEF evict, IInv, TableInv
  <2> HIDE DEF pg
  <2>2. /\ frame'[pg].spt /\ \A g \in Pages \ {pg} : frame'[g] = frame[g]
        /\ frame'[pg].type = IF to_swap(p, pg) THEN "SWAP" ELSE frame[pg].type
    BY <1>0, <2>1 DEF Frames
  <2>3. ~NoFrame.load /\ ~NoFrame.spt
    BY DEF NoFrame
  <2>4. pg[2] \in MapPages => frame'[pg].type = "MMAP"
    BY ZenonT(60), <2>1, <2>2, <2>3 DEF MapInv, to_swap
  <2> QED BY ZenonT(60), <1>0, <1>1, <2>1, <2>2, <2>3, <2>4 DEF MapInv
<1>4. ASSUME NEW p \in Procs, page_back(p) \/ file_back(p) \/ frame_table_insert(p) \/ spt_init(p)
      PROVE  Goal
  <2> DEFINE pg == <<p, op[p].fault>>
  <2>1. pg \in Pages /\ pg[2] = op[p].fault /\ op[p].fault # NONE
    BY ZenonT(60), <1>4, FaultPage DEF page_back, file_back, frame_table_insert, spt_init, IInv, OpInv, OpOK
  <2>2. /\ \A q \in Procs \ {p} : op'[q] = op[q]
        /\ op'[p].fault \in {NONE, op[p].fault}
    BY <1>0, <1>4
       DEF page_back, file_back, Loaded, frame_table_insert, spt_init, Ops
  <2>3. ~NoFrame.load /\ ~NoFrame.spt
    BY DEF NoFrame
  <2>4. /\ frame'[pg] # NoFrame /\ \A g \in Pages \ {pg} : frame'[g] = frame[g]
        /\ frame[pg] # NoFrame => frame'[pg].type = frame[pg].type
    <3>1. CASE page_back(p) \/ file_back(p)
      <4>1. frame' = [frame EXCEPT ![pg].load = TRUE, ![pg].kpage = kpage, ![pg].index = -1]
        BY <3>1 DEF page_back, file_back, Loaded
      <4>2. /\ frame'[pg].load /\ frame'[pg].type = frame[pg].type
            /\ \A g \in Pages \ {pg} : frame'[g] = frame[g]
        BY <1>0, <2>1, <4>1 DEF Frames
      <4> QED BY ZenonT(60), <2>3, <4>2
    <3>2. CASE frame_table_insert(p)
      BY ZenonT(60), <1>0, <2>1, <2>3, <3>2 DEF frame_table_insert, NoFrame
    <3>3. CASE spt_init(p)
      <4>1. frame' = [frame EXCEPT ![pg].spt = TRUE]
        BY <3>3 DEF spt_init
      <4>2. /\ frame'[pg].spt /\ frame'[pg].type = frame[pg].type
            /\ \A g \in Pages \ {pg} : frame'[g] = frame[g]
        BY <1>0, <2>1, <4>1 DEF Frames
      <4> QED BY <2>3, <4>2
    <3> QED BY Zenon, <1>4, <3>1, <3>2, <3>3
  <2>5. pg[2] \in MapPages => frame[pg] # NoFrame /\ frame[pg].type = "MMAP"
    BY ZenonT(60), <2>1 DEF MapInv
  <2>6. op'[p].fault # NONE => frame'[<<p, op'[p].fault>>] # NoFrame
    BY <2>2, <2>4
  <2> HIDE DEF pg
  <2> QED BY <1>1, <2>2, <2>4, <2>5, <2>6
<1>5. ASSUME NEW p \in Procs, NEW type \in {"FILE", "MMAP"}, NEW new \in SUBSET Pages,
             frame' = install_file(new, type),
             type = "FILE" => \A pg \in new : pg[2] \notin MapPages
      PROVE  \A pg \in Pages : \/ frame'[pg] = frame[pg]
                               \/ /\ frame'[pg] # NoFrame
                                  /\ pg[2] \in MapPages => frame'[pg].type = "MMAP"
  <2> DEFINE f == [NoFrame EXCEPT !.type = type, !.spt = TRUE]
  <2>1. f # NoFrame /\ f.type = type
    BY Zenon DEF NoFrame
  <2>2. frame' = [pg \in Pages |-> IF pg \in new THEN f ELSE frame[pg]]
    BY <1>5 DEF install_file
  <2> HIDE DEF f
  <2> QED BY <1>5, <2>1, <2>2
<1>6. ASSUME NEW p \in Procs, load(p) PROVE Goal
  <2>1. /\ op' = [op EXCEPT ![p] = [Idle EXCEPT !.call = "load", !.fault = StackTop]]
        /\ frame' = install_file({pg \in Pages : pg[1] = p /\ pg[2] \in ExecPages}, "FILE")
    BY <1>6 DEF load
  <2>2. op'[p].fault = StackTop /\ \A q \in Procs \ {p} : op'[q] = op[q]
    BY <1>0, <2>1 DEF Idle
  <2>3. StackTop \notin MapPages /\ ExecPages \cap MapPages = {}
    BY VMAssumption DEF VMAssumption
  <2>4. \A pg \in Pages : \/ frame'[pg] = frame[pg]
                          \/ /\ frame'[pg] # NoFrame
                             /\ pg[2] \in MapPages => frame'[pg].type = "MMAP"
    BY Zenon, <1>5, <2>1, <2>3
  <2> QED BY Zenon, <1>1, <2>2, <2>3, <2>4
<1>7. ASSUME NEW p \in Procs, mmap(p) PROVE Goal
  <2>1. /\ op' = op /\ op[p].fault = NONE
        /\ frame' = install_file({pg \in Pages : pg[1] = p /\ pg[2] \in MapPages}, "MMAP")
    BY <1>7 DEF mmap, Running, Idle
  <2> QED BY ZenonT(60), <1>1, <1>5, <2>1
<1>8. ASSUME NEW p \in Procs, munmap(p) \/ exit_pages(p) PROVE Goal
  <2>1. PICK pg \in Pages : pg[1] = p /\ spt_free(p, pg)
    BY <1>8 DEF munmap, exit_pages, Left
  <2>2. op[p].fault = NONE
    BY Zenon, <1>8 DEF munmap, exit_pages, IInv, OpInv, OpOK
  <2>3. op' = op /\ frame'[pg] = NoFrame /\ \A g \in Pages \ {pg} : frame'[g] = frame[g]
    BY ZenonT(60), <1>0, <2>1 DEF spt_free
  <2> QED BY ZenonT(60), <1>1, <2>1, <2>2, <2>3
<1>9. ASSUME NEW p \in Procs, NEW u \in Upages, page_fault(p, u) PROVE Goal
  <2>1. /\ op'[p].fault = u /\ \A q \in Procs \ {p} : op'[q] = op[q]
        /\ frame' = frame /\ (frame[<<p, u>>] # NoFrame \/ u \in StackPages)
    BY <1>0, <1>9 DEF page_fault, MayFault, Ops
  <2>2. u \in MapPages => u \notin StackPages
    BY VMAssumption DEF VMAssumption
  <2> QED BY <1>1, <2>1, <2>2
<1>10. ASSUME NEW p \in Procs, UNCHANGED frame, op'[p].fault = NONE,
              \A q \in Procs \ {p} : op'[q] = op[q]
       PROVE  Goal
  BY ZenonT(60), <1>1, <1>10
<1>11. ASSUME NEW p \in Procs,
              \/ load_end(p) \/ mmap_fails(p) \/ munmap_call(p) \/ munmap_return(p)
              \/ exit_call(p) \/ process_exit(p)
              \/ \E buffer \in Buffers : read(p, buffer)
       PROVE  Goal
  <2>1. UNCHANGED frame /\ \A q \in Procs \ {p} : op'[q] = op[q]
    BY Zenon, <1>0, <1>11 DEF load_end, mmap_fails, munmap_call, munmap_return, exit_call,
                       process_exit, read
  <2>2. op'[p].fault = NONE
    <3>1. CASE process_exit(p) \/ munmap_call(p) \/ mmap_fails(p)
      <4>1. op[p].fault = NONE
        <5>1. CASE process_exit(p)
          BY ZenonT(60), <5>1 DEF process_exit, IInv, OpInv, OpOK
        <5>2. CASE Running(p)
          BY <5>2 DEF Running, Idle
        <5> QED BY <3>1, <5>1, <5>2 DEF munmap_call, mmap_fails
      <4>2. op'[p].fault = op[p].fault
        BY <1>0, <3>1 DEF process_exit, munmap_call, mmap_fails, Ops
      <4> QED BY <4>1, <4>2
    <3>2. CASE load_end(p) \/ munmap_return(p) \/ exit_call(p)
               \/ \E buffer \in Buffers : read(p, buffer)
      <4>1. /\ Idle.fault = NONE /\ [Idle EXCEPT !.call = "exit"].fault = NONE
            /\ \A buffer : [Idle EXCEPT !.call = "check", !.buffer = buffer, !.todo = buffer].fault = NONE
        BY DEF Idle
      <4>2. CASE load_end(p) \/ munmap_return(p)
        BY <1>0, <4>1, <4>2 DEF load_end, munmap_return
      <4>3. CASE exit_call(p)
        BY <1>0, <4>1, <4>3 DEF exit_call
      <4>4. ASSUME NEW buffer \in Buffers, read(p, buffer) PROVE op'[p].fault = NONE
        BY ZenonT(60), <1>0, <4>1, <4>4 DEF read
      <4> QED BY <3>2, <4>2, <4>3, <4>4
    <3> QED BY ZenonT(60), <1>11, <3>1, <3>2
  <2> QED BY <1>10, <2>1, <2>2
<1>12. ASSUME NEW p \in Procs, check_valid_esp(p) \/ file_read(p) PROVE Goal
  <2>1. op[p].todo # <<>> => Head(op[p].todo) \in Upages
    BY <1>0 DEF Ops
  <2>2. CASE op[p].todo # <<>> /\ page_fault(p, Head(op[p].todo))
    BY <1>9, <2>1, <2>2
  <2>3. CASE exit_call(p)
    BY <1>11, <2>3
  <2>4. CASE ~(op[p].todo # <<>> /\ page_fault(p, Head(op[p].todo))) /\ ~exit_call(p)
    <3>0. op[p] \in Ops /\ op[p].fault = NONE
      BY Zenon, <1>0, <1>12 DEF check_valid_esp, file_read
    <3>1. /\ UNCHANGED frame
          /\ \/ op' = [op EXCEPT ![p].todo = Tail(op[p].todo)]
             \/ op' = [op EXCEPT ![p].call = "copy", ![p].todo = op[p].buffer]
             \/ op' = [op EXCEPT ![p] = Idle]
      BY Zenon, <1>12, <2>4 DEF check_valid_esp, file_read
    <3>2. (\A q \in Procs \ {p} : op'[q] = op[q]) /\ op'[p].fault = NONE
      BY <1>0, <3>0, <3>1 DEF Ops, Idle
    <3> QED BY <1>10, <3>1, <3>2
  <2> QED BY <2>2, <2>3, <2>4
<1>13. ASSUME NEW p \in Procs, NEW u \in Upages, NEW write \in BOOLEAN, user(p, u, write)
       PROVE  Goal
  <2>1. CASE page_fault(p, u)
    BY Zenon, <1>9, <2>1
  <2>2. CASE ~page_fault(p, u)
    <3>1. UNCHANGED <<frame, op>> /\ Running(p)
      BY ZenonT(60), <1>13, <2>2 DEF user
    <3>2. op[p].fault = NONE
      BY <3>1 DEF Running, Idle
    <3>3. op' = op
      BY <3>1
    <3> QED BY Zenon, <1>10, <3>1, <3>2, <3>3
  <2> QED BY Zenon, <2>1, <2>2
<1> QED
  BY ZenonT(60), <1>2, <1>3, <1>4, <1>6, <1>7, <1>8, <1>11, <1>12, <1>13 DEF Next, serve

\* No process has a page at first.
LEMMA InitContent == Init => ContentInv /\ CleanInv /\ MapInv
<1> SUFFICES ASSUME Init PROVE ContentInv /\ CleanInv /\ MapInv
  OBVIOUS
<1>1. /\ \A pg \in Pages : frame[pg] = NoFrame /\ ~frame[pg].load /\ ~Swapped(pg)
      /\ \A p \in Procs : op[p].fault = NONE
  BY DEF Init, NoFrame, Swapped, NONE, Idle
<1>2. /\ mem \in [Kpages -> Held \cup {Blank}] /\ swap \in [Slots -> Held \cup {Blank}]
      /\ file \in [Pages -> Held] /\ file_lock \in Procs \cup {NONE}
  BY DEF Init, Held, Zero
<1> QED BY <1>1, <1>2 DEF ContentInv, CleanInv, MapInv

\* What memory, swap and the files hold is always a version of a page.
THEOREM ContentCorrect == Spec => [](IInv /\ ContentInv)
<1>1. Init => IInv /\ ContentInv
  BY InitInv, InitContent
<1>2. IInv /\ ContentInv /\ [Next]_vars => (IInv /\ ContentInv)'
  BY NextInv, NextContent DEF ContentKept
<1> QED BY <1>1, <1>2, PTL DEF Spec

\* Page tables, the frame table, the swap table and file_lock keep their types.
THEOREM TypeCorrect == Spec => []TypeOK
<1>1. ASSUME IInv, ContentInv PROVE TypeOK
  <2>1. \A k \in DOMAIN frame_table : frame_table[k] \in Pages
    BY <1>1 DEF IInv, TypeInv
  <2>2. /\ pte \in [Pages -> Ptes] /\ frame \in [Pages -> Frames]
        /\ pool \subseteq Kpages /\ kdirty \subseteq Kpages /\ swap_bitmap \subseteq Slots
    BY <1>1 DEF IInv, TypeInv
  <2>3. \A p \in Procs : op[p].call \in Calls
    BY <1>1 DEF IInv, TypeInv, Ops
  <2> QED BY Zenon, <1>1, <2>1, <2>2, <2>3 DEF TypeOK, ContentInv, Ptes, Frames, Calls
<1> QED BY <1>1, ContentCorrect, PTL

\* Paging is invisible to a process that has the memory to itself, for any number of
\* frames, slots and pages: evict, page_back and file_back move a page but bring back
\* what it held, and munmap leaves in the file what the process wrote.
THEOREM PagingInvisible == OneProcess /\ Spec => KeepsContent
<1> DEFINE J == OneProcess /\ IInv /\ ContentInv /\ CleanInv /\ MapInv
           Step == \A pg \in Pages : Keeps(pg)
<1>1. OneProcess /\ Init => J
  BY Zenon, InitInv, InitContent
<1>2. J /\ [Next]_vars => J' /\ Step
  BY NextInv, NextContent, NextMap DEF ContentKept, OneProcess
<1>3. Step => [\A pg \in Pages :
               (frame[pg] # NoFrame /\ frame'[pg] # NoFrame) \/ pg[2] \in MapPages =>
                 \/ Content(pg)' = Content(pg)
                 \/ pte[pg].p /\ pte'[pg].p /\ pte'[pg].d]_vars
  BY Zenon DEF Keeps
<1> HIDE DEF J, Step
<1> QED BY <1>1, <1>2, <1>3, PTL DEF Spec, KeepsContent
=============================================================================
