----------------------------- MODULE TypeProofs -----------------------------
(***************************************************************************)
(* What list_insert_ordered, list_remove and list_sort return, for every   *)
(* list and every key; and type correctness of the scheduler and the       *)
(* synchronization primitives, for any number of threads, locks,           *)
(* semaphores and condition variables.                                     *)
(***************************************************************************)
EXTENDS Synch, FiniteSetTheorems, TLAPS

\* The provers for the steps that name none, in this order.
USE SMTT(20), Z3T(20), ZenonT(60)

-----------------------------------------------------------------------------
(*************************** ordered lists *********************************)

\* The two ways to say that e is on a list.
LEMMA RangeContains ==
  ASSUME NEW S, NEW s \in Seq(S), NEW e
  PROVE  e \in Range(s) <=> Contains(s, e)
BY DEF Range, Contains

\* A list as long as the empty one is empty.
LEMMA LenEmpty ==
  ASSUME NEW S, NEW s \in Seq(S), Len(s) = Len(<<>>)
  PROVE  s = <<>>
OBVIOUS

\* Nothing is on the empty list.
LEMMA NothingOnEmpty == ASSUME NEW e PROVE ~Contains(<<>>, e)
BY DEF Contains

\* The front of a nonempty list and the list behind it.
LEMMA FrontAndRest ==
  ASSUME NEW S, NEW s \in Seq(S), s # <<>>
  PROVE  Head(s) \in S /\ Tail(s) \in Seq(S) /\ Len(Tail(s)) = Len(s) - 1
OBVIOUS

\* A nonempty set of natural numbers has a least element.
LEMMA LeastNat ==
  ASSUME NEW T \in SUBSET Nat, T # {}
  PROVE  /\ Min(T) \in T
         /\ \A n \in T : Min(T) <= n
<1>1. PICK m \in T : \A n \in T : ~(<<n, m>> \in OpToRel(<, Nat))
  BY NatLessThanWellFounded, WFMin
<1>2. ASSUME NEW n \in T PROVE m <= n
  <2>1. CASE n < m
    <3>1. <<n, m>> \in OpToRel(<, Nat)
      BY <2>1, <<n, m>>[1] < <<n, m>>[2], <<n, m>> \in Nat \X Nat DEF OpToRel
    <3> QED BY <1>1, <3>1
  <2> QED BY <2>1
<1> QED
  BY <1>1, <1>2 DEF Min

\* list_insert_ordered finds its place inside the list or right after it.
LEMMA InsertPointRange ==
  ASSUME NEW S, NEW s \in Seq(S), NEW x, NEW key
  PROVE  InsertPoint(s, x, key) \in 1..Len(s)+1
<1> DEFINE Smaller == {i \in DOMAIN s : key[x] > key[s[i]]}
<1>1. Smaller \subseteq 1..Len(s) /\ Len(s) \in Nat
  OBVIOUS
<1>2. CASE Smaller = {}
  BY <1>1, <1>2 DEF InsertPoint
<1>3. CASE Smaller # {}
  <2> HIDE DEF Smaller
  <2>1. Min(Smaller) \in Smaller
    BY <1>1, <1>3, LeastNat
  <2>2. InsertPoint(s, x, key) = Min(Smaller)
    BY <1>3 DEF InsertPoint, Smaller
  <2>3. Min(Smaller) \in 1..Len(s)
    BY Zenon, <1>1, <2>1
  <2> QED
    BY <1>1, <2>2, <2>3
<1> QED
  BY <1>2, <1>3

\* Putting x into place p of s: the elements before p stay, the rest move up.
LEMMA InsertAtProperties ==
  ASSUME NEW S, NEW s \in Seq(S), NEW x \in S, NEW p \in 1..Len(s)+1
  PROVE  /\ InsertAt(s, p, x) \in Seq(S)
         /\ Len(InsertAt(s, p, x)) = Len(s) + 1
         /\ \A i \in 1..Len(s)+1 :
              InsertAt(s, p, x)[i] = IF i < p THEN s[i]
                                     ELSE IF i = p THEN x ELSE s[i-1]
BY DEF InsertAt

\* list_insert_ordered adds exactly the new element.
LEMMA InsertProperties ==
  ASSUME NEW S, NEW s \in Seq(S), NEW x \in S, NEW key
  PROVE  /\ list_insert_ordered(s, x, key) \in Seq(S)
         /\ Len(list_insert_ordered(s, x, key)) = Len(s) + 1
         /\ \A e : Contains(list_insert_ordered(s, x, key), e)
                     <=> e = x \/ Contains(s, e)
<1> DEFINE p == InsertPoint(s, x, key)
           r == InsertAt(s, p, x)
<1>1. p \in 1..Len(s)+1
  BY InsertPointRange
<1> HIDE DEF p
<1>2. /\ r \in Seq(S) /\ Len(r) = Len(s) + 1
      /\ \A i \in 1..Len(s)+1 : r[i] = IF i < p THEN s[i]
                                       ELSE IF i = p THEN x ELSE s[i-1]
  BY <1>1, InsertAtProperties
<1> HIDE DEF r
<1>3. ASSUME NEW e
      PROVE  Contains(r, e) <=> e = x \/ Contains(s, e)
  <2>1. ASSUME NEW i \in 1..Len(r)
        PROVE  r[i] = x \/ \E j \in 1..Len(s) : s[j] = r[i]
    <3>1. CASE i < p
      BY <1>1, <1>2, <3>1
    <3>2. CASE i = p
      BY <1>1, <1>2, <3>2
    <3>3. CASE i > p
      <4>1. i-1 \in 1..Len(s) /\ r[i] = s[i-1]
        BY <1>1, <1>2, <3>3
      <4> QED BY <4>1
    <3> QED BY <1>1, <3>1, <3>2, <3>3
  <2>2. \E i \in 1..Len(r) : r[i] = x
    BY <1>1, <1>2
  <2>3. ASSUME NEW j \in 1..Len(s)
        PROVE  \E i \in 1..Len(r) : r[i] = s[j]
    <3>1. CASE j < p
      BY <1>1, <1>2, <3>1
    <3>2. CASE j >= p
      <4>1. j+1 \in 1..Len(r) /\ r[j+1] = s[j]
        BY <1>1, <1>2, <3>2
      <4> QED BY <4>1
    <3> QED BY <1>1, <3>1, <3>2
  <2> QED
    BY <1>2, <2>1, <2>2, <2>3 DEF Contains
<1> QED
  BY <1>2, <1>3 DEF list_insert_ordered, r, p

\* list_remove takes the first occurrence of x away and keeps the others.
LEMMA RemoveProperties ==
  ASSUME NEW S, NEW s \in Seq(S), NEW x
  PROVE  /\ list_remove(s, x) \in Seq(S)
         /\ \A e : Contains(list_remove(s, x), e) => Contains(s, e)
<1>1. CASE ~Contains(s, x)
  BY <1>1 DEF list_remove
<1>2. CASE Contains(s, x)
  <2> DEFINE p == Place(s, x)
             r == RemoveAt(s, p)
  <2>1. p \in 1..Len(s)
    BY <1>2 DEF Place, Contains
  <2> HIDE DEF p
  <2>2. /\ r \in Seq(S) /\ Len(r) = Len(s) - 1
        /\ \A i \in 1..Len(s)-1 : r[i] = s[i] \/ r[i] = s[i+1]
    BY <2>1 DEF RemoveAt
  <2>3. list_remove(s, x) = r
    BY <1>2 DEF list_remove, p
  <2> HIDE DEF r
  <2> QED BY <2>2, <2>3 DEF Contains
<1> QED
  BY <1>1, <1>2

\* Every place of the sorted list is the rank of exactly one position.
LEMMA RankBijective ==
  ASSUME NEW S, NEW s \in Seq(S), NEW key, \A e \in S : key[e] \in Int
  PROVE  /\ \A j \in 1..Len(s) : Rank(s, key, j) \in 1..Len(s)
         /\ \A i, j \in 1..Len(s) : Rank(s, key, i) = Rank(s, key, j) => i = j
         /\ \A k \in 1..Len(s) : \E j \in 1..Len(s) : Rank(s, key, j) = k
<1> DEFINE D == 1..Len(s)
           R(j) == {i \in D : SortsBefore(s, key, i, j)}
<1>0. /\ DOMAIN s = D /\ Len(s) \in Nat
      /\ \A i \in D : s[i] \in S
      /\ IsFiniteSet(D) /\ Cardinality(D) = Len(s)
  <2>1. DOMAIN s = D /\ Len(s) \in Nat /\ \A i \in D : s[i] \in S
    OBVIOUS
  <2>2. ASSUME NEW n \in Nat PROVE IsFiniteSet(1..n) /\ Cardinality(1..n) = n
    <3>1. /\ IsFiniteSet(1..n)
          /\ Cardinality(1..n) = IF 1 > n THEN 0 ELSE n-1+1
      BY FS_Interval
    <3> QED BY <3>1
  <2> QED BY Zenon, <2>1, <2>2
<1>1. ASSUME NEW j \in D
      PROVE  /\ R(j) \in SUBSET D /\ IsFiniteSet(R(j)) /\ j \in R(j)
             /\ Rank(s, key, j) = Cardinality(R(j))
             /\ Cardinality(R(j)) \in 1..Len(s)
  <2>1. R(j) \in SUBSET D /\ j \in R(j)
    BY <1>0 DEF SortsBefore
  <2>2. Rank(s, key, j) = Cardinality(R(j))
    BY <1>0 DEF Rank
  <2> HIDE DEF R
  <2>3. IsFiniteSet(R(j)) /\ Cardinality(R(j)) <= Len(s)
    BY <1>0, <2>1, FS_Subset
  <2>4. Cardinality(R(j)) \in Nat /\ Cardinality(R(j)) # 0
    BY <2>1, <2>3, FS_CardinalityType, FS_EmptySet
  <2> QED BY <2>1, <2>2, <2>3, <2>4, <1>0
<1>2. ASSUME NEW i \in D, NEW j \in D, i # j, SortsBefore(s, key, i, j)
      PROVE  Rank(s, key, i) # Rank(s, key, j)
  <2>1. R(i) \in SUBSET R(j) /\ j \notin R(i)
    BY <1>0, <1>2 DEF SortsBefore
  <2>2. j \in R(j) /\ IsFiniteSet(R(j))
    BY <1>1
  <2>3. Rank(s, key, i) = Cardinality(R(i)) /\ Rank(s, key, j) = Cardinality(R(j))
    BY Zenon, <1>1
  <2> HIDE DEF R
  <2> QED BY <2>1, <2>2, <2>3, FS_Subset
<1>3. \A i, j \in D : i # j => SortsBefore(s, key, i, j) \/ SortsBefore(s, key, j, i)
  BY <1>0 DEF SortsBefore
<1>4. \A i, j \in D : Rank(s, key, i) = Rank(s, key, j) => i = j
  BY <1>2, <1>3
<1> DEFINE f == [j \in D |-> Rank(s, key, j)]
<1>5. f \in [D -> D]
  BY Zenon, <1>1
<1>6. f \in Injection(D, D)
  BY <1>4, <1>5 DEF Injection, IsInjective
<1>7. f \in Surjection(D, D)
  BY <1>0, <1>6, FS_Injection
<1>8. \A k \in D : \E j \in D : f[j] = k
  BY Zenon, <1>7 DEF Surjection
<1>9. \A k \in D : \E j \in D : Rank(s, key, j) = k
  BY <1>8
<1>10. \A j \in D : Rank(s, key, j) \in D
  BY Zenon, <1>1
<1> QED
  BY <1>4, <1>9, <1>10

\* list_sort permutes the list: same length, same elements.
LEMMA SortProperties ==
  ASSUME NEW S, NEW s \in Seq(S), NEW key, \A e \in S : key[e] \in Int
  PROVE  /\ list_sort(s, key) \in Seq(S)
         /\ Len(list_sort(s, key)) = Len(s)
         /\ \A e : Contains(list_sort(s, key), e) <=> Contains(s, e)
         /\ \A k \in 1..Len(s) : \E j \in 1..Len(s) :
              Rank(s, key, j) = k /\ list_sort(s, key)[k] = s[j]
<1> DEFINE D == 1..Len(s)
           at(k) == CHOOSE j \in D : Rank(s, key, j) = k
           r == list_sort(s, key)
<1>0. DOMAIN s = D /\ Len(s) \in Nat /\ \A i \in D : s[i] \in S
  OBVIOUS
<1>1. \A k \in D : at(k) \in D /\ Rank(s, key, at(k)) = k
  BY RankBijective
<1>2. r = [k \in D |-> s[at(k)]]
  BY <1>0 DEF list_sort
<1>3. \A j \in D : Rank(s, key, j) \in D /\ at(Rank(s, key, j)) = j
  BY RankBijective
<1> HIDE DEF at, r
<1>4. r \in [D -> S]
  BY <1>0, <1>1, <1>2
<1>5. r \in Seq(S) /\ Len(r) = Len(s)
  BY <1>0, <1>4
<1>6. ASSUME NEW e
      PROVE  Contains(r, e) <=> Contains(s, e)
  BY Zenon, <1>1, <1>2, <1>3, <1>5 DEF Contains
<1> QED
  BY <1>1, <1>2, <1>5, <1>6 DEF r

\* What is on a list without duplicates after the removal of its i-th element.
LEMMA RemoveOnce ==
  ASSUME NEW S, NEW s \in Seq(S), NEW i \in 1 .. Len(s),
         IsInjective(s)
  PROVE  /\ RemoveAt(s, i) \in Seq(S)
         /\ IsInjective(RemoveAt(s, i))
         /\ \A e : Contains(RemoveAt(s, i), e) <=> Contains(s, e) /\ e # s[i]
<1> DEFINE r == RemoveAt(s, i)
<1>7. r \in Seq(S) /\ Len(r) = Len(s) - 1 /\ DOMAIN r = 1 .. Len(s) - 1
  BY DEF RemoveAt
<1>8. \A k \in 1 .. Len(s) - 1 : r[k] = IF k < i THEN s[k] ELSE s[k + 1]
  BY DEF RemoveAt
<1> HIDE DEF r
<1>9. IsInjective(r)
  <2> DEFINE old(n) == IF n < i THEN n ELSE n + 1
  <2>1. ASSUME NEW j \in 1 .. Len(s) - 1, NEW k \in 1 .. Len(s) - 1, r[j] = r[k]
        PROVE  j = k
    <3>1. /\ old(j) \in 1 .. Len(s) /\ r[j] = s[old(j)]
          /\ old(k) \in 1 .. Len(s) /\ r[k] = s[old(k)]
      BY <1>8
    <3> HIDE DEF old
    <3>2. \A m, n \in 1 .. Len(s) : s[m] = s[n] => m = n
      BY DEF IsInjective
    <3>3. old(j) = old(k)
      BY Zenon, <2>1, <3>1, <3>2
    <3> USE DEF old
    <3> QED BY <3>3
  <2> QED BY <1>7, <2>1 DEF IsInjective
<1>10. ASSUME NEW e, Contains(s, e), e # s[i] PROVE Contains(r, e)
  <2>1. PICK k \in 1 .. Len(s) : s[k] = e
    BY <1>10 DEF Contains
  <2>2. k # i
    BY <1>10, <2>1
  <2>3. CASE k < i
    BY <2>1, <2>3, <1>7, <1>8 DEF Contains
  <2>4. CASE k > i
    <3>1. k - 1 \in 1 .. Len(s) - 1 /\ ~(k - 1 < i) /\ (k - 1) + 1 = k
      BY <2>4
    <3>2. r[k - 1] = e
      BY <2>1, <3>1, <1>8
    <3> QED BY <3>1, <3>2, <1>7 DEF Contains
  <2> QED BY <2>2, <2>3, <2>4
<1>11. ASSUME NEW e, Contains(r, e) PROVE Contains(s, e) /\ e # s[i]
  <2>1. PICK k \in 1 .. Len(s) - 1 : r[k] = e
    BY <1>7, <1>11 DEF Contains
  <2>2. PICK n \in 1 .. Len(s) : s[n] = e /\ n # i
    <3>2. CASE k < i
      BY <2>1, <3>2, <1>8
    <3>3. CASE ~(k < i)
      BY <2>1, <3>3, <1>8
    <3> QED BY <3>2, <3>3
  <2>3. e # s[i]
    BY <2>2 DEF IsInjective
  <2> QED BY <2>2, <2>3 DEF Contains
<1> QED BY <1>7, <1>9, <1>10, <1>11 DEF r

\* list_remove of an element that is on such a list, or is not.
LEMMA ListRemoveOnce ==
  ASSUME NEW S, NEW s \in Seq(S), NEW x, IsInjective(s)
  PROVE  /\ list_remove(s, x) \in Seq(S)
         /\ IsInjective(list_remove(s, x))
         /\ \A e : Contains(list_remove(s, x), e) <=> Contains(s, e) /\ e # x
<1>1. CASE ~Contains(s, x)
  BY <1>1 DEF list_remove
<1>2. CASE Contains(s, x)
  <2>1. Place(s, x) \in 1 .. Len(s) /\ s[Place(s, x)] = x
    BY <1>2 DEF Place, Contains
  <2>2. list_remove(s, x) = RemoveAt(s, Place(s, x))
    BY <1>2 DEF list_remove
  <2> HIDE DEF Place
  <2> QED BY <2>1, <2>2, RemoveOnce
<1> QED BY <1>1, <1>2

\* A list holds no element twice exactly when it has as many elements as places.
LEMMA OnceByCardinality ==
  ASSUME NEW S, NEW s \in Seq(S)
  PROVE  Cardinality(Range(s)) = Len(s) <=> IsInjective(s)
<1> DEFINE D == 1 .. Len(s)
<1>1. Len(s) \in Nat /\ DOMAIN s = D /\ s \in [D -> S]
  OBVIOUS
<1>2. Range(s) = {s[i] : i \in D}
  BY <1>1 DEF Range
<1>3. s \in Surjection(D, Range(s))
  BY <1>1, <1>2 DEF Surjection
<1>4. IsFiniteSet(D) /\ Cardinality(D) = Len(s)
  <2>1. ASSUME NEW n \in Nat PROVE IsFiniteSet(1 .. n) /\ Cardinality(1 .. n) = n
    <3>1. /\ IsFiniteSet(1 .. n)
          /\ Cardinality(1 .. n) = IF 1 > n THEN 0 ELSE n - 1 + 1
      BY FS_Interval
    <3> QED BY <3>1
  <2> QED BY Zenon, <1>1, <2>1
<1>5. Cardinality(Range(s)) = Cardinality(D) <=> s \in Injection(D, Range(s))
  BY <1>3, <1>4, FS_Surjection
<1>6. s \in Injection(D, Range(s)) <=> IsInjective(s)
  BY <1>3 DEF Injection, Surjection
<1> QED BY <1>4, <1>5, <1>6

\* The rest of a nonempty list without duplicates.
LEMMA TailOnce ==
  ASSUME NEW S, NEW s \in Seq(S), s # <<>>, IsInjective(s)
  PROVE  /\ Head(s) \in S /\ Contains(s, Head(s))
         /\ Tail(s) \in Seq(S)
         /\ IsInjective(Tail(s))
         /\ \A e : Contains(Tail(s), e) <=> Contains(s, e) /\ e # Head(s)
<1> DEFINE r == Tail(s)
<1>1. /\ Len(s) \in Nat /\ Len(s) > 0 /\ DOMAIN s = 1 .. Len(s)
      /\ r \in Seq(S) /\ Len(r) = Len(s) - 1 /\ DOMAIN r = 1 .. Len(s) - 1
      /\ \A k \in 1 .. Len(s) - 1 : r[k] = s[k + 1]
      /\ Head(s) = s[1] /\ s[1] \in S
  OBVIOUS
<1> HIDE DEF r
<1>2. IsInjective(r)
  <2>1. ASSUME NEW j \in 1 .. Len(s) - 1, NEW k \in 1 .. Len(s) - 1, r[j] = r[k]
        PROVE  j = k
    <3>1. j + 1 \in DOMAIN s /\ k + 1 \in DOMAIN s /\ s[j + 1] = s[k + 1]
      BY <1>1, <2>1
    <3>2. j + 1 = k + 1
      BY <3>1 DEF IsInjective
    <3> QED BY <3>2
  <2> QED BY <1>1, <2>1 DEF IsInjective
<1>3. ASSUME NEW e PROVE Contains(r, e) <=> Contains(s, e) /\ e # Head(s)
  <2>1. ASSUME NEW k \in 1 .. Len(s) - 1, r[k] = e
        PROVE  Contains(s, e) /\ e # Head(s)
    <3>1. k + 1 \in 1 .. Len(s) /\ s[k + 1] = e /\ k + 1 # 1 /\ 1 \in 1 .. Len(s)
      BY <1>1, <2>1
    <3> QED BY <1>1, <3>1 DEF Contains, IsInjective
  <2>2. ASSUME NEW k \in 1 .. Len(s), s[k] = e, e # Head(s)
        PROVE  Contains(r, e)
    <3>1. k - 1 \in 1 .. Len(s) - 1 /\ r[k - 1] = e
      BY <1>1, <2>2
    <3> QED BY <1>1, <3>1 DEF Contains
  <2> QED BY <1>1, <2>1, <2>2 DEF Contains
<1>4. Contains(s, Head(s))
  BY <1>1 DEF Contains
<1> QED BY <1>1, <1>2, <1>3, <1>4 DEF r

\* An element inserted in order into a list it is not on.
LEMMA InsertOnce ==
  ASSUME NEW S, NEW s \in Seq(S), NEW x \in S, NEW key, ~Contains(s, x), IsInjective(s)
  PROVE  IsInjective(list_insert_ordered(s, x, key))
<1> DEFINE p == InsertPoint(s, x, key)
           r == InsertAt(s, p, x)
<1>1. p \in 1 .. Len(s) + 1
  BY InsertPointRange
<1> HIDE DEF p
<1>2. /\ r \in Seq(S) /\ Len(r) = Len(s) + 1
      /\ \A i \in 1 .. Len(s) + 1 : r[i] = IF i < p THEN s[i] ELSE IF i = p THEN x ELSE s[i - 1]
  BY <1>1, InsertAtProperties
<1> HIDE DEF r
<1>3. \A i \in 1 .. Len(s) : s[i] # x
  BY DEF Contains
<1>4. ASSUME NEW i \in 1 .. Len(s) + 1, NEW j \in 1 .. Len(s) + 1, i < j
      PROVE  r[i] # r[j]
  <2>1. \A k, n \in 1 .. Len(s) : k # n => s[k] # s[n]
    BY DEF IsInjective
  <2>2. CASE j < p
    <3>1. r[i] = s[i] /\ r[j] = s[j] /\ i \in 1 .. Len(s) /\ j \in 1 .. Len(s) /\ i # j
      BY <1>1, <1>2, <1>4, <2>2
    <3> QED BY Zenon, <2>1, <3>1
  <2>3. CASE j = p
    <3>1. r[i] = s[i] /\ r[j] = x /\ i \in 1 .. Len(s)
      BY <1>1, <1>2, <1>4, <2>3
    <3> QED BY Zenon, <1>3, <3>1
  <2>4. CASE j > p /\ i < p
    <3>1. /\ r[i] = s[i] /\ r[j] = s[j - 1]
          /\ i \in 1 .. Len(s) /\ j - 1 \in 1 .. Len(s) /\ i # j - 1
      BY <1>1, <1>2, <1>4, <2>4
    <3> QED BY Zenon, <2>1, <3>1
  <2>5. CASE j > p /\ i = p
    <3>1. r[i] = x /\ r[j] = s[j - 1] /\ j - 1 \in 1 .. Len(s)
      BY <1>1, <1>2, <1>4, <2>5
    <3> QED BY Zenon, <1>3, <3>1
  <2>6. CASE j > p /\ i > p
    <3>1. /\ r[i] = s[i - 1] /\ r[j] = s[j - 1]
          /\ i - 1 \in 1 .. Len(s) /\ j - 1 \in 1 .. Len(s) /\ i - 1 # j - 1
      BY <1>1, <1>2, <1>4, <2>6
    <3> QED BY Zenon, <2>1, <3>1
  <2> QED BY <1>1, <2>2, <2>3, <2>4, <2>5, <2>6
<1>5. IsInjective(r)
  BY <1>2, <1>4 DEF IsInjective
<1> QED BY <1>5 DEF list_insert_ordered, r, p

\* Largest key first.
Descending(s, key) == \A i, j \in 1 .. Len(s) : i <= j => key[s[i]] >= key[s[j]]

\* list_sort keeps a list free of duplicates, and orders it.
LEMMA SortOrders ==
  ASSUME NEW S, NEW s \in Seq(S), NEW key, \A e \in S : key[e] \in Int
  PROVE  /\ Descending(list_sort(s, key), key)
         /\ IsInjective(s) => IsInjective(list_sort(s, key))
<1> DEFINE r == list_sort(s, key)
           D == 1 .. Len(s)
           R(j) == {i \in D : SortsBefore(s, key, i, j)}
<1>1. /\ Len(r) = Len(s) /\ r \in Seq(S)
      /\ \A k \in D : \E j \in D : Rank(s, key, j) = k /\ r[k] = s[j]
  BY SortProperties
<1> HIDE DEF r
<1>2. /\ DOMAIN s = D /\ Len(s) \in Nat /\ IsFiniteSet(D)
      /\ \A i \in D : s[i] \in S /\ key[s[i]] \in Int
  <2>1. DOMAIN s = D /\ Len(s) \in Nat /\ \A i \in D : s[i] \in S
    OBVIOUS
  <2>2. IsFiniteSet(D)
    BY <2>1, FS_Interval
  <2> QED BY <2>1, <2>2
<1>3. ASSUME NEW a \in D, NEW b \in D, key[s[a]] < key[s[b]]
      PROVE  Rank(s, key, b) < Rank(s, key, a)
  <2>1. R(b) \in SUBSET R(a) /\ a \in R(a) /\ a \notin R(b)
    BY <1>2, <1>3 DEF SortsBefore
  <2>2. Rank(s, key, a) = Cardinality(R(a)) /\ Rank(s, key, b) = Cardinality(R(b))
    BY <1>2 DEF Rank
  <2>3. R(a) \in SUBSET D
    OBVIOUS
  <2> HIDE DEF R
  <2>4. IsFiniteSet(R(a))
    BY <1>2, <2>3, FS_Subset
  <2>5. /\ IsFiniteSet(R(b)) /\ Cardinality(R(b)) <= Cardinality(R(a))
        /\ Cardinality(R(b)) # Cardinality(R(a))
    BY <2>1, <2>4, FS_Subset
  <2>6. Cardinality(R(a)) \in Nat /\ Cardinality(R(b)) \in Nat
    BY <2>4, <2>5, FS_CardinalityType
  <2> QED BY <2>2, <2>5, <2>6
<1>4. ASSUME NEW i \in D, NEW j \in D, i <= j
      PROVE  key[r[i]] >= key[r[j]]
  <2>1. PICK a \in D : Rank(s, key, a) = i /\ r[i] = s[a]
    BY Zenon, <1>1
  <2>2. PICK b \in D : Rank(s, key, b) = j /\ r[j] = s[b]
    BY Zenon, <1>1
  <2>3. ~(key[s[a]] < key[s[b]])
    BY <1>3, <1>4, <2>1, <2>2
  <2> QED BY <1>2, <2>1, <2>2, <2>3
<1>5. ASSUME IsInjective(s), NEW i \in D, NEW j \in D, r[i] = r[j]
      PROVE  i = j
  <2>1. PICK a \in D : Rank(s, key, a) = i /\ r[i] = s[a]
    BY Zenon, <1>1
  <2>2. PICK b \in D : Rank(s, key, b) = j /\ r[j] = s[b]
    BY Zenon, <1>1
  <2> QED BY Zenon, <1>2, <1>5, <2>1, <2>2 DEF IsInjective
<1>6. DOMAIN r = D
  BY <1>1
<1> QED BY <1>1, <1>4, <1>5, <1>6 DEF Descending, IsInjective, r

\* list_insert_ordered keeps an ordered list ordered.
LEMMA InsertOrders ==
  ASSUME NEW S, NEW s \in Seq(S), NEW x \in S, NEW key, \A e \in S : key[e] \in Int,
         Descending(s, key)
  PROVE  Descending(list_insert_ordered(s, x, key), key)
<1> DEFINE p == InsertPoint(s, x, key)
           r == InsertAt(s, p, x)
           Smaller == {i \in DOMAIN s : key[x] > key[s[i]]}
<1>1. p \in 1 .. Len(s) + 1
  BY InsertPointRange
<1>2. Smaller \in SUBSET Nat /\ DOMAIN s = 1 .. Len(s) /\ Len(s) \in Nat
  OBVIOUS
<1>3. /\ \A i \in 1 .. Len(s) : i < p => ~(key[x] > key[s[i]])
      /\ p <= Len(s) => key[x] > key[s[p]]
  <2>1. CASE Smaller = {}
    BY <1>2, <2>1 DEF InsertPoint
  <2>2. CASE Smaller # {}
    <3>1. p = Min(Smaller)
      BY <2>2 DEF InsertPoint
    <3> HIDE DEF Smaller, p
    <3>2. p \in Smaller /\ \A i \in Smaller : p <= i
      BY <1>2, <2>2, <3>1, LeastNat
    <3> USE DEF Smaller
    <3> QED BY <1>1, <1>2, <3>2
  <2> QED BY Zenon, <2>1, <2>2
<1> HIDE DEF p, Smaller
<1>4. /\ r \in Seq(S) /\ Len(r) = Len(s) + 1
      /\ \A i \in 1 .. Len(s) + 1 : r[i] = IF i < p THEN s[i] ELSE IF i = p THEN x ELSE s[i - 1]
  BY <1>1, InsertAtProperties
<1> HIDE DEF r
<1>5. /\ \A i \in 1 .. Len(s) : s[i] \in S /\ key[s[i]] \in Int
      /\ key[x] \in Int
      /\ \A i, j \in 1 .. Len(s) : i <= j => key[s[i]] >= key[s[j]]
  BY DEF Descending
<1>6. \A i \in 1 .. Len(s) : /\ i < p => key[s[i]] >= key[x]
                             /\ i >= p => key[x] >= key[s[i]]
  <2>1. ASSUME NEW i \in 1 .. Len(s), i < p PROVE key[s[i]] >= key[x]
    BY <1>3, <1>5, <2>1
  <2>2. ASSUME NEW i \in 1 .. Len(s), i >= p PROVE key[x] >= key[s[i]]
    <3>1. p \in 1 .. Len(s) /\ p <= i
      BY <1>1, <2>2
    <3>2. key[x] > key[s[p]] /\ key[s[p]] >= key[s[i]]
      BY <1>3, <1>5, <3>1
    <3>3. key[x] \in Int /\ key[s[p]] \in Int /\ key[s[i]] \in Int
      BY Zenon, <1>5, <3>1
    <3> QED BY <3>2, <3>3
  <2> QED BY Zenon, <2>1, <2>2
<1>7. ASSUME NEW i \in 1 .. Len(s) + 1, NEW j \in 1 .. Len(s) + 1, i < j
      PROVE  key[r[i]] >= key[r[j]]
  <2>1. CASE j < p
    <3>1. r[i] = s[i] /\ r[j] = s[j] /\ i \in 1 .. Len(s) /\ j \in 1 .. Len(s) /\ i <= j
      BY <1>1, <1>2, <1>4, <1>7, <2>1
    <3> QED BY <1>5, <3>1
  <2>2. CASE j = p
    <3>1. r[i] = s[i] /\ r[j] = x /\ i \in 1 .. Len(s) /\ i < p
      BY <1>1, <1>2, <1>4, <1>7, <2>2
    <3> QED BY <1>6, <3>1
  <2>3. CASE j > p /\ i < p
    <3>1. r[i] = s[i] /\ r[j] = s[j - 1] /\ i \in 1 .. Len(s) /\ j - 1 \in 1 .. Len(s) /\ i <= j - 1
      BY <1>1, <1>2, <1>4, <1>7, <2>3
    <3> QED BY <1>5, <3>1
  <2>4. CASE j > p /\ i = p
    <3>1. r[i] = x /\ r[j] = s[j - 1] /\ j - 1 \in 1 .. Len(s) /\ j - 1 >= p
      BY <1>1, <1>2, <1>4, <1>7, <2>4
    <3> QED BY <1>6, <3>1
  <2>5. CASE j > p /\ i > p
    <3>1. /\ r[i] = s[i - 1] /\ r[j] = s[j - 1] /\ i - 1 \in 1 .. Len(s)
          /\ j - 1 \in 1 .. Len(s) /\ i - 1 <= j - 1
      BY <1>1, <1>2, <1>4, <1>7, <2>5
    <3> QED BY <1>5, <3>1
  <2> QED BY <1>1, <2>1, <2>2, <2>3, <2>4, <2>5
<1>8. \A i \in 1 .. Len(s) + 1 : key[r[i]] \in Int
  BY <1>4
<1> QED BY <1>4, <1>7, <1>8 DEF Descending, list_insert_ordered, r, p

\* The front of an ordered list has the largest key.
LEMMA FrontIsLargest ==
  ASSUME NEW S, NEW s \in Seq(S), NEW key, s # <<>>, Descending(s, key)
  PROVE  /\ \A e : Contains(s, e) => key[Head(s)] >= key[e]
         /\ Tail(s) \in Seq(S) /\ \A e : Contains(Tail(s), e) => Contains(s, e)
<1>1. /\ Len(s) \in Nat /\ Len(s) > 0 /\ Head(s) = s[1]
      /\ Tail(s) \in Seq(S) /\ Len(Tail(s)) = Len(s) - 1
      /\ \A k \in 1 .. Len(s) - 1 : Tail(s)[k] = s[k + 1]
  OBVIOUS
<1>2. \A e : Contains(s, e) => key[Head(s)] >= key[e]
  BY <1>1 DEF Contains, Descending
<1>3. ASSUME NEW e, Contains(Tail(s), e) PROVE Contains(s, e)
  <2>1. PICK k \in 1 .. Len(s) - 1 : Tail(s)[k] = e
    BY <1>1, <1>3 DEF Contains
  <2>2. k + 1 \in 1 .. Len(s) /\ s[k + 1] = e
    BY <1>1, <2>1
  <2> QED BY <2>2 DEF Contains
<1> QED BY <1>1, <1>2, <1>3

-----------------------------------------------------------------------------
(****************************** types **************************************)

SchedType ==
  /\ running \in All
  /\ status \in [All -> Status]
  /\ ready_list \in Seq(Threads)
  /\ sleeping_list \in Seq(Threads)
  /\ wake_in \in [Threads -> 0..MaxSleep]

\* Priorities are numbers.
LEMMA PriorityInt == \A p \in Priorities : p \in Int /\ p \in Nat
  BY ThreadAssumption DEF ThreadAssumption

\* schedule keeps the types of the scheduler's state, whoever calls it.
LEMMA ScheduleType ==
  ASSUME NEW rl \in Seq(Threads), NEW sl \in Seq(Threads),
         NEW st \in [All -> Status], NEW wake \in [Threads -> 0..MaxSleep],
         NEW pr, schedule(rl, sl, st, wake, pr)
  PROVE  SchedType'
<1> DEFINE due  == sl # <<>> /\ wake[Head(sl)] = 0
           rl1  == IF due THEN list_insert_ordered(rl, Head(sl), pr) ELSE rl
           st1  == IF due THEN [st EXCEPT ![Head(sl)] = "READY"] ELSE st
           next == IF rl1 = <<>> THEN Idle ELSE Head(rl1)
<1>1. /\ sleeping_list' = IF due THEN Tail(sl) ELSE sl
      /\ ready_list' = IF rl1 = <<>> THEN rl1 ELSE Tail(rl1)
      /\ status' = [st1 EXCEPT ![next] = "RUNNING"]
      /\ running' = next
      /\ wake_in' = wake
  BY DEF schedule
<1>2. due => Head(sl) \in Threads /\ Tail(sl) \in Seq(Threads)
  OBVIOUS
<1>3. rl1 \in Seq(Threads)
  <2>1. CASE due
    <3>1. list_insert_ordered(rl, Head(sl), pr) \in Seq(Threads)
      BY <1>2, <2>1, InsertProperties
    <3> QED BY <2>1, <3>1
  <2>2. CASE ~due
    BY <2>2
  <2> QED BY <2>1, <2>2
<1>4. st1 \in [All -> Status]
  BY <1>2 DEF All, Status
<1> HIDE DEF due, rl1, st1
<1>5. next \in All /\ (rl1 # <<>> => Tail(rl1) \in Seq(Threads))
  BY <1>3 DEF All
<1> HIDE DEF next
<1> QED
  BY ZenonT(60), <1>1, <1>2, <1>3, <1>4, <1>5 DEF SchedType, Status

\* thread_yield keeps the types too.
LEMMA YieldType ==
  ASSUME SchedType, NEW t \in All, NEW rl \in Seq(Threads),
         NEW st \in [All -> Status], NEW pr,
         thread_yield(t, rl, st, pr)
  PROVE  SchedType'
<1> DEFINE rl1 == IF t = Idle THEN rl ELSE list_insert_ordered(rl, t, pr)
           st1 == [st EXCEPT ![t] = "READY"]
<1>1. rl1 \in Seq(Threads)
  <2>1. CASE t = Idle
    BY <2>1
  <2>2. CASE t # Idle
    <3>1. list_insert_ordered(rl, t, pr) \in Seq(Threads)
      BY <2>2, InsertProperties DEF All
    <3> QED BY <2>2, <3>1
  <2> QED BY <2>1, <2>2
<1>2. st1 \in [All -> Status]
  BY DEF Status
<1>3. schedule(rl1, sleeping_list, st1, wake_in, pr)
  BY DEF thread_yield
<1> HIDE DEF rl1, st1
<1> QED
  BY Zenon, <1>1, <1>2, <1>3, ScheduleType DEF SchedType

\* if_yield keeps the types, in thread and in interrupt context.
LEMMA IfYieldType ==
  ASSUME SchedType, NEW t \in All, NEW rl \in Seq(Threads),
         NEW st \in [All -> Status], NEW pr \in [All -> Priorities],
         if_yield(t, rl, st, pr) \/ if_yield_intr(t, rl, st, pr)
  PROVE  SchedType'
<1> DEFINE sorted == list_sort(rl, pr)
<1>1. sorted \in Seq(Threads)
  <2>1. \A e \in Threads : pr[e] \in Int
    BY PriorityInt DEF All
  <2> QED BY <2>1, SortProperties
<1>2. \/ thread_yield(t, sorted, st, pr)
      \/ /\ ready_list' = sorted
         /\ status' = st
         /\ UNCHANGED <<running, sleeping_list, wake_in>>
  BY DEF if_yield, if_yield_intr
<1> HIDE DEF sorted
<1>3. CASE thread_yield(t, sorted, st, pr)
  BY ZenonT(60), <1>1, <1>3, YieldType
<1> QED
  BY <1>1, <1>2, <1>3 DEF SchedType

PrioType ==
  /\ priority \in [All -> Priorities]
  /\ original_priority \in [All -> Priorities]
SemaType ==
  /\ value \in [SemaIds -> Nat]
  /\ waiters \in [SemaIds -> Seq(Threads)]
LockType ==
  /\ holder \in [Locks -> Threads \cup {NoThread}]
  /\ lock_priority \in [Locks -> Priorities]
  /\ lock_list \in [Threads -> Seq(Locks)]
  /\ wait_lock \in [Threads -> Locks \cup {NoLock}]
CondType ==
  /\ cond_waiters \in [Conds -> Seq(Threads)]
  /\ cond_priority \in [Threads -> Priorities]
  /\ cond \in [Threads -> Conds \cup {NoCond}]
CtlType ==
  /\ pc \in [Threads -> PC]
  /\ arg \in [Threads -> SemaIds \cup {NoLock}]
  /\ cont \in [Threads -> Conts]
  /\ cursor \in [Threads -> Locks \cup {NoLock}]

\* TypeOK by group of variables.
LEMMA TypeSplit ==
  /\ TypeOK <=> SchedType /\ PrioType /\ SemaType /\ LockType /\ CondType
             /\ CtlType /\ ArgOK
  /\ TypeOK' <=> SchedType' /\ PrioType' /\ SemaType' /\ LockType' /\ CondType'
              /\ CtlType' /\ ArgOK'
BY DEF TypeOK, ThreadTypeOK, SchedType, PrioType, SemaType, LockType, CondType, CtlType

\* What a step leaves alone keeps its type.
LEMMA UnchangedTypes ==
  /\ SchedType /\ UNCHANGED schedVars => SchedType'
  /\ PrioType /\ UNCHANGED prioVars => PrioType'
  /\ SemaType /\ UNCHANGED semaVars => SemaType'
  /\ LockType /\ UNCHANGED lockVars => LockType'
  /\ CondType /\ UNCHANGED condVars => CondType'
  /\ CtlType /\ UNCHANGED ctlVars => CtlType'
  /\ ArgOK /\ UNCHANGED <<ctlVars, condVars>> => ArgOK'
BY DEF ArgOK, SchedType, PrioType, SemaType, LockType, CondType, CtlType,
       schedVars, prioVars, semaVars, lockVars, condVars, ctlVars

\* A step that moves only thread t, to control point p with object a,
\* continuation k and condition variable c.
LEMMA ControlStep ==
  ASSUME CtlType, CondType, ArgOK, NEW t \in Threads,
         NEW p \in PC, NEW a \in SemaIds \cup {NoLock}, NEW k \in Conts,
         NEW c \in Conds \cup {NoCond},
         pc' = [pc EXCEPT ![t] = p], arg' = [arg EXCEPT ![t] = a],
         cont' = [cont EXCEPT ![t] = k], cond' = [cond EXCEPT ![t] = c],
         cursor' \in [Threads -> Locks \cup {NoLock}],
         Located(p, a, k, c)
  PROVE  CtlType' /\ ArgOK'
<1>1. CtlType'
  BY Zenon DEF CtlType
<1>2. ASSUME NEW u \in Threads
      PROVE  Located(pc'[u], arg'[u], cont'[u], cond'[u])
  <2>1. CASE u = t
    BY <2>1 DEF CtlType, CondType
  <2>2. CASE u # t
    BY <2>2 DEF CtlType, CondType, ArgOK
  <2> QED BY <2>1, <2>2
<1> QED
  BY <1>1, <1>2 DEF ArgOK

\* The same for a step that leaves continuation and condition variable alone.
LEMMA MoveStep ==
  ASSUME CtlType, CondType, ArgOK, NEW t \in Threads,
         NEW p \in PC, NEW a \in SemaIds \cup {NoLock},
         pc' = [pc EXCEPT ![t] = p], arg' = [arg EXCEPT ![t] = a],
         UNCHANGED <<cont, cond>>,
         cursor' \in [Threads -> Locks \cup {NoLock}],
         Located(p, a, cont[t], cond[t])
  PROVE  CtlType' /\ ArgOK'
<1>1. /\ cont' = [cont EXCEPT ![t] = cont[t]] /\ cond' = [cond EXCEPT ![t] = cond[t]]
      /\ cont[t] \in Conts /\ cond[t] \in Conds \cup {NoCond}
  BY DEF CtlType, CondType
<1> DEFINE k == cont[t]
           c == cond[t]
<1>2. /\ cont' = [cont EXCEPT ![t] = k] /\ cond' = [cond EXCEPT ![t] = c]
      /\ k \in Conts /\ c \in Conds \cup {NoCond}
      /\ Located(p, a, k, c)
  BY Zenon, <1>1
<1> HIDE DEF k, c
<1> QED
  BY Zenon, <1>2, ControlStep

\* The operations of thread.c keep the types.
LEMMA ThreadOpsType ==
  ASSUME TypeOK, NEW t \in Threads, ThreadOps(t)
  PROVE  TypeOK'
<1>0. /\ SchedType /\ PrioType /\ SemaType /\ LockType /\ CondType /\ CtlType /\ ArgOK
      /\ Located(pc[t], arg[t], cont[t], cond[t])
      /\ t \in All
  BY Zenon, TypeSplit DEF All, ArgOK
<1> USE <1>0
<1>1. CASE create_yield(t)
  <2>1. SchedType'
    BY Zenon, <1>1, IfYieldType DEF create_yield, SchedType, PrioType
  <2>2. CtlType' /\ ArgOK'
    <3>1. /\ pc[t] = "yield" /\ pc' = [pc EXCEPT ![t] = "run"]
          /\ arg' = [arg EXCEPT ![t] = NoLock] /\ UNCHANGED <<cont, cond>>
          /\ cursor' \in [Threads -> Locks \cup {NoLock}]
      BY <1>1 DEF create_yield, CtlType, Return, At, condVars
    <3> QED BY Zenon, <3>1, MoveStep DEF PC, Located
  <2> QED BY Zenon, TypeSplit, UnchangedTypes, <1>1, <2>1, <2>2 DEF create_yield
<1>2. ASSUME NEW u \in Threads, NEW p \in Priorities, thread_create(t, u, p)
      PROVE  TypeOK'
  <2>1. SchedType'
    <3>1. list_insert_ordered(ready_list, u, priority') \in Seq(Threads)
      BY ZenonT(60), InsertProperties DEF SchedType
    <3> QED BY ZenonT(60), <1>2, <3>1 DEF thread_create, SchedType, All, Status
  <2>2. PrioType'
    BY Zenon, <1>2 DEF thread_create, PrioType, All
  <2>3. CtlType' /\ ArgOK'
    <3>1. /\ pc[t] = "run" /\ pc' = [pc EXCEPT ![t] = "yield"]
          /\ arg' = [arg EXCEPT ![t] = arg[t]] /\ UNCHANGED <<cont, cond>>
          /\ arg[t] \in SemaIds \cup {NoLock}
          /\ cursor' \in [Threads -> Locks \cup {NoLock}]
      BY Zenon, <1>2 DEF thread_create, CtlType, GoTo, At, condVars
    <3> QED BY Zenon, <3>1, MoveStep DEF PC, Located
  <2> QED BY ZenonT(60), TypeSplit, UnchangedTypes, <1>2, <2>1, <2>2, <2>3 DEF thread_create
<1>3. ASSUME NEW p \in Priorities, thread_set_priority(t, p)
      PROVE  TypeOK'
  <2>1. PrioType'
    BY Zenon, <1>3 DEF thread_set_priority, PrioType
  <2>2. SchedType'
    <3>1. if_yield(t, ready_list, status, priority')
      BY Zenon, <1>3 DEF thread_set_priority
    <3> DEFINE pr == priority'
    <3>2. pr \in [All -> Priorities]
      BY <2>1 DEF PrioType
    <3>3. if_yield(t, ready_list, status, pr)
      BY Zenon, <3>1
    <3> HIDE DEF pr
    <3> QED BY Zenon, <3>2, <3>3, IfYieldType DEF SchedType
  <2> QED BY Zenon, TypeSplit, UnchangedTypes, <1>3, <2>1, <2>2 DEF thread_set_priority
<1>4. ASSUME NEW n \in 1..MaxSleep, sleep(t, n)
      PROVE  TypeOK'
  <2> DEFINE wake == [wake_in EXCEPT ![t] = n]
             sl == list_insert_ordered(sleeping_list, t, [u \in Threads |-> -wake[u]])
             st == [status EXCEPT ![t] = "SLEEPING"]
  <2>1. sl \in Seq(Threads)
    BY InsertProperties DEF SchedType
  <2>2. wake \in [Threads -> 0..MaxSleep] /\ st \in [All -> Status]
    <3>1. n \in 0..MaxSleep /\ "SLEEPING" \in Status
      BY ThreadAssumption DEF Status, ThreadAssumption
    <3>2. wake_in \in [Threads -> 0..MaxSleep] /\ status \in [All -> Status]
      BY Zenon DEF SchedType
    <3> QED BY Zenon, <3>1, <3>2
  <2>3. schedule(ready_list, sl, st, wake, priority)
    BY <1>4 DEF sleep, thread_sleep
  <2> HIDE DEF wake, sl, st
  <2>4. SchedType'
    BY Zenon, <2>1, <2>2, <2>3, ScheduleType DEF SchedType
  <2> QED BY ZenonT(60), TypeSplit, UnchangedTypes, <1>4, <2>4 DEF sleep
<1> QED
  BY Zenon, <1>1, <1>2, <1>3, <1>4 DEF ThreadOps

\* Every sort of a list by an integer key returns a list of the same elements.
LEMMA PrioritySort ==
  ASSUME PrioType, NEW s \in Seq(Threads)
  PROVE  /\ list_sort(s, priority) \in Seq(Threads)
         /\ list_sort(s, priority) # <<>> =>
              /\ Head(list_sort(s, priority)) \in Threads
              /\ Tail(list_sort(s, priority)) \in Seq(Threads)
<1>1. \A e \in Threads : priority[e] \in Int
  BY PriorityInt DEF PrioType, All
<1>2. list_sort(s, priority) \in Seq(Threads)
  BY <1>1, SortProperties
<1> QED
  BY <1>2, FrontAndRest

\* The part of sema_up that changes the scheduler and the semaphore.
LEMMA SemaUpType ==
  ASSUME TypeOK, NEW t \in All, NEW s \in SemaIds,
         NEW w \in Seq(Threads), w = list_sort(waiters[s], priority),
         value' = [value EXCEPT ![s] = @ + 1],
         waiters' = [waiters EXCEPT ![s] = IF w = <<>> THEN w ELSE Tail(w)],
         \/ IF w = <<>>
               THEN if_yield(t, ready_list, status, priority)
               ELSE if_yield(t, list_insert_ordered(ready_list, Head(w), priority),
                             [status EXCEPT ![Head(w)] = "READY"], priority)
         \/ IF w = <<>>
               THEN if_yield_intr(t, ready_list, status, priority)
               ELSE if_yield_intr(t, list_insert_ordered(ready_list, Head(w), priority),
                                  [status EXCEPT ![Head(w)] = "READY"], priority)
  PROVE  SchedType' /\ SemaType'
<1>0. SchedType /\ PrioType /\ SemaType
  BY Zenon, TypeSplit DEF ArgOK
<1> USE <1>0
<1>1. w # <<>> => Head(w) \in Threads /\ Tail(w) \in Seq(Threads)
  BY FrontAndRest
<1>2. SemaType'
  BY <1>1 DEF SemaType
<1>3. CASE w = <<>>
  <2>1. \/ if_yield(t, ready_list, status, priority)
        \/ if_yield_intr(t, ready_list, status, priority)
    BY <1>3
  <2> QED BY Zenon, <1>2, <2>1, IfYieldType DEF SchedType, PrioType
<1>4. CASE w # <<>>
  <2> DEFINE rl == list_insert_ordered(ready_list, Head(w), priority)
             st == [status EXCEPT ![Head(w)] = "READY"]
  <2>1. rl \in Seq(Threads)
    BY Zenon, <1>1, <1>4, InsertProperties DEF SchedType
  <2>2. st \in [All -> Status]
    BY Zenon, <1>1, <1>4 DEF SchedType, Status, All
  <2>3. if_yield(t, rl, st, priority) \/ if_yield_intr(t, rl, st, priority)
    BY Zenon, <1>4
  <2> HIDE DEF rl, st
  <2> QED BY Zenon, <1>2, <2>1, <2>2, <2>3, IfYieldType DEF PrioType
<1> QED
  BY Zenon, <1>2, <1>3, <1>4

\* The semaphore operations keep the types.
LEMMA SemaOpsType ==
  ASSUME TypeOK, NEW t \in Threads, SemaOps(t)
  PROVE  TypeOK'
<1>0. /\ SchedType /\ PrioType /\ SemaType /\ LockType /\ CondType /\ CtlType /\ ArgOK
      /\ Located(pc[t], arg[t], cont[t], cond[t])
      /\ t \in All
  BY TypeSplit DEF All, ArgOK
<1> USE <1>0
<1>1. CASE sema_down_block(t)
  <2>1. arg[t] \in SemaIds
    BY ZenonT(60), <1>1 DEF sema_down_block, Located, At
  <2>2. list_insert_ordered(waiters[arg[t]], t, priority) \in Seq(Threads)
    BY Zenon, <2>1, InsertProperties DEF SemaType
  <2>3. SemaType'
    BY ZenonT(60), <1>1, <2>1, <2>2 DEF sema_down_block, SemaType
  <2>4. schedule(ready_list, sleeping_list, [status EXCEPT ![t] = "BLOCKED"],
                 wake_in, priority)
    BY ZenonT(60), <1>1 DEF sema_down_block, thread_block
  <2>5. [status EXCEPT ![t] = "BLOCKED"] \in [All -> Status]
    BY DEF SchedType, Status
  <2>6. SchedType'
    BY ZenonT(60), <2>4, <2>5, ScheduleType DEF SchedType
  <2> QED BY ZenonT(60), TypeSplit, UnchangedTypes, <1>1, <2>3, <2>6 DEF sema_down_block
<1>2. CASE sema_down_take(t)
  <2>1. arg[t] \in SemaIds
    BY ZenonT(60), <1>2 DEF sema_down_take, Located, At
  <2>2. value[arg[t]] \in Nat /\ value[arg[t]] > 0
    BY <1>2, <2>1 DEF sema_down_take, SemaType
  <2>3. SemaType'
    <3>1. value[arg[t]] - 1 \in Nat
      BY <2>2
    <3>2. /\ value' = [value EXCEPT ![arg[t]] = value[arg[t]] - 1]
          /\ waiters' = waiters
      BY Zenon, <1>2 DEF sema_down_take
    <3> HIDE <1>2
    <3> QED BY ZenonT(60), <3>1, <3>2 DEF SemaType
  <2>4. CtlType' /\ ArgOK'
    <3>0. /\ pc[t] = "down" /\ UNCHANGED <<cont, cond, cursor>>
          /\ cursor' \in [Threads -> Locks \cup {NoLock}]
      BY <1>2 DEF sema_down_take, At, condVars, CtlType
    <3>1. CASE arg[t] \in Semas
      <4>1. pc' = [pc EXCEPT ![t] = "run"] /\ arg' = [arg EXCEPT ![t] = NoLock]
        BY ZenonT(60), <1>2, <3>1 DEF sema_down_take, Return
      <4>2. Located("run", NoLock, cont[t], cond[t])
        BY <3>0, <3>1, SynchAssumption DEF Located, SynchAssumption
      <4> QED BY ZenonT(60), <3>0, <4>1, <4>2, MoveStep DEF PC
    <3>2. CASE arg[t] \in Locks
      <4>1. /\ pc' = [pc EXCEPT ![t] = "own"]
            /\ arg' = [arg EXCEPT ![t] = arg[t]]
        BY ZenonT(60), <1>2, <3>2, SynchAssumption
           DEF sema_down_take, GoTo, CtlType, SynchAssumption
      <4>2. Located("own", arg[t], cont[t], cond[t])
        BY <3>0, <3>2, SynchAssumption DEF Located, SynchAssumption
      <4> QED BY ZenonT(60), <2>1, <3>0, <4>1, <4>2, MoveStep DEF PC
    <3>3. CASE arg[t] \in Threads
      <4>1. /\ pc' = [pc EXCEPT ![t] = "reacq"]
            /\ arg' = [arg EXCEPT ![t] = arg[t]]
            /\ cont[t] = "wait"
        BY ZenonT(60), <1>2, <3>0, <3>3, SynchAssumption
           DEF sema_down_take, GoTo, CtlType, Located, SynchAssumption
      <4> QED BY ZenonT(60), <2>1, <3>0, <4>1, MoveStep DEF PC, Located
    <3> QED BY ZenonT(60), <2>1, <3>1, <3>2, <3>3 DEF SemaIds
  <2> QED BY ZenonT(60), TypeSplit, UnchangedTypes, <1>2, <2>3, <2>4 DEF sema_down_take
<1>3. CASE sema_up(t)
  <2> DEFINE s == arg[t]
             w == list_sort(waiters[s], priority)
  <2>1. s \in SemaIds
    BY ZenonT(60), <1>3 DEF sema_up, Located, At
  <2>2. w \in Seq(Threads)
    BY ZenonT(60), <2>1, PrioritySort DEF SemaType
  <2>3. /\ value' = [value EXCEPT ![s] = @ + 1]
        /\ waiters' = [waiters EXCEPT ![s] = IF w = <<>> THEN w ELSE Tail(w)]
        /\ IF w = <<>>
              THEN if_yield(t, ready_list, status, priority)
              ELSE if_yield(t, list_insert_ordered(ready_list, Head(w), priority),
                            [status EXCEPT ![Head(w)] = "READY"], priority)
    BY Zenon, <1>3 DEF sema_up, waiters_by_priority
  <2>4. SchedType' /\ SemaType'
    BY ZenonT(60), <2>1, <2>2, <2>3, SemaUpType
  <2>5. CtlType' /\ ArgOK'
    <3>0. /\ after_up(t) /\ pc[t] = "up" /\ UNCHANGED <<cont, cond, cursor>>
          /\ cursor' \in [Threads -> Locks \cup {NoLock}]
          /\ arg = [arg EXCEPT ![t] = arg[t]]
      BY <1>3 DEF sema_up, At, condVars, CtlType
    <3>1. CASE arg[t] \in Locks /\ cont[t] = "wait"
      <4>1. pc' = [pc EXCEPT ![t] = "down"] /\ arg' = [arg EXCEPT ![t] = t]
        BY <3>0, <3>1, SynchAssumption DEF after_up, GoTo, SynchAssumption
      <4> QED BY Zenon, <3>0, <3>1, <4>1, MoveStep DEF PC, Located, SemaIds
    <3>2. CASE arg[t] \in Locks /\ cont[t] = "unlink"
      <4>1. pc' = [pc EXCEPT ![t] = "unlink"] /\ arg' = [arg EXCEPT ![t] = arg[t]]
        BY <3>0, <3>2, SynchAssumption DEF after_up, GoTo, SynchAssumption
      <4> QED BY Zenon, <2>1, <3>0, <3>2, <4>1, MoveStep DEF PC, Located
    <3>3. CASE arg[t] \in Threads /\ cond[t] # NoCond
      <4>1. pc' = [pc EXCEPT ![t] = "bcast"] /\ arg' = [arg EXCEPT ![t] = arg[t]]
        BY ZenonT(60), <3>0, <3>3, SynchAssumption DEF after_up, GoTo, SynchAssumption
      <4>2. cond[t] \in Conds
        BY <3>3 DEF CondType
      <4>3. Located("bcast", arg[t], cont[t], cond[t])
        BY <3>0, <3>3, <4>2, SynchAssumption DEF Located, SynchAssumption
      <4> QED BY Zenon, <2>1, <3>0, <4>1, <4>3, MoveStep DEF PC
    <3>4. CASE /\ ~(arg[t] \in Locks /\ cont[t] = "wait")
               /\ ~(arg[t] \in Locks /\ cont[t] = "unlink")
               /\ ~(arg[t] \in Threads /\ cond[t] # NoCond)
      <4>1. pc' = [pc EXCEPT ![t] = "run"] /\ arg' = [arg EXCEPT ![t] = NoLock]
        BY <3>0, <3>4 DEF after_up, Return
      <4>2. Located("run", NoLock, cont[t], cond[t])
        BY Zenon, <3>0, <3>4 DEF Located
      <4> QED BY Zenon, <3>0, <4>1, <4>2, MoveStep DEF PC
    <3> QED BY ZenonT(60), <3>1, <3>2, <3>3, <3>4
  <2> QED BY Zenon, TypeSplit, UnchangedTypes, <1>3, <2>4, <2>5 DEF sema_up
<1>4. ASSUME NEW s \in Semas, call_sema_down(t, s) \/ call_sema_up(t, s)
      PROVE  TypeOK'
  <2>1. CtlType' /\ ArgOK'
    <3>1. /\ pc' = [pc EXCEPT ![t] = "down"] \/ pc' = [pc EXCEPT ![t] = "up"]
          /\ arg' = [arg EXCEPT ![t] = s] /\ UNCHANGED <<cont, cond>>
          /\ cursor' \in [Threads -> Locks \cup {NoLock}]
          /\ s \in SemaIds /\ s \notin Threads /\ pc[t] = "run"
      BY Zenon, <1>4, SynchAssumption
         DEF call_sema_down, call_sema_up, CtlType, GoTo, condVars, SemaIds, At,
             SynchAssumption
    <3>2. CASE pc' = [pc EXCEPT ![t] = "down"]
      BY Zenon, <3>1, <3>2, MoveStep DEF PC, Located
    <3>3. CASE pc' = [pc EXCEPT ![t] = "up"]
      BY Zenon, <3>1, <3>3, MoveStep DEF PC, Located
    <3> QED BY Zenon, <3>1, <3>2, <3>3
  <2> QED BY Zenon, TypeSplit, UnchangedTypes, <1>4, <2>1 DEF call_sema_down, call_sema_up
<1> QED
  BY ZenonT(60), <1>1, <1>2, <1>3, <1>4 DEF SemaOps

\* donate_lock raises priorities only to priorities that some thread has.
LEMMA DonateType ==
  ASSUME PrioType, LockType, NEW t \in Threads, NEW l, donate_lock(t, l)
  PROVE  /\ lock_priority' \in [Locks -> Priorities]
         /\ priority' \in [All -> Priorities]
<1> DEFINE visited == DonationChain(t, l)
           holders == {holder[m] : m \in visited}
<1>1. /\ lock_priority' = [m \in Locks |->
            IF m \in visited /\ lock_priority[m] < priority[t]
            THEN priority[t] ELSE lock_priority[m]]
      /\ priority' = [u \in All |->
            IF u \in holders /\ priority[u] < priority[t]
            THEN priority[t] ELSE priority[u]]
  BY DEF donate_lock
<1>2. priority[t] \in Priorities
  BY DEF PrioType, All
<1> HIDE DEF visited, holders
<1>3. lock_priority' \in [Locks -> Priorities]
  BY <1>1, <1>2 DEF LockType
<1>4. priority' \in [All -> Priorities]
  BY Zenon, <1>1, <1>2 DEF PrioType
<1> QED
  BY ZenonT(60), <1>3, <1>4

\* The part of lock_acquire before sema_down.
LEMMA AcquireType ==
  ASSUME TypeOK, NEW t \in Threads, NEW l \in Locks, acquire(t, l),
         \/ UNCHANGED <<cont, cond>> /\ cont[t] # "wait"
         \/ cont' = [cont EXCEPT ![t] = "run"] /\ cond' = [cond EXCEPT ![t] = NoCond]
  PROVE  TypeOK'
<1>0. /\ SchedType /\ PrioType /\ SemaType /\ LockType /\ CondType /\ CtlType /\ ArgOK
      /\ Located(pc[t], arg[t], cont[t], cond[t])
      /\ l \in SemaIds /\ l \notin Threads
  BY ZenonT(60), TypeSplit, SynchAssumption DEF SemaIds, SynchAssumption, ArgOK
<1> USE <1>0
<1>1. PrioType' /\ LockType'
  <2>1. donate_lock(t, l)
    BY Zenon DEF acquire
  <2>2. /\ lock_priority' \in [Locks -> Priorities]
        /\ priority' \in [All -> Priorities]
    BY Zenon, <2>1, DonateType
  <2> QED BY <2>2 DEF acquire, PrioType, LockType
<1>2. CondType'
  BY Zenon DEF acquire, CondType
<1>3. /\ pc' = [pc EXCEPT ![t] = "down"] /\ arg' = [arg EXCEPT ![t] = l]
      /\ cursor' \in [Threads -> Locks \cup {NoLock}]
      /\ UNCHANGED schedVars /\ UNCHANGED semaVars
  BY Zenon DEF acquire, GoTo, CtlType
<1>4. CtlType' /\ ArgOK'
  <2>1. CASE UNCHANGED <<cont, cond>> /\ cont[t] # "wait"
    BY Zenon, <1>3, <2>1, MoveStep DEF PC, Located
  <2>2. CASE /\ cont' = [cont EXCEPT ![t] = "run"]
             /\ cond' = [cond EXCEPT ![t] = NoCond]
    BY Zenon, <1>3, <2>2, ControlStep DEF PC, Located, Conts
  <2> QED BY Zenon, <2>1, <2>2
<1> QED
  BY Zenon, <1>1, <1>2, <1>3, <1>4, TypeSplit, UnchangedTypes

\* The part of lock_release before the priority is recomputed.
LEMMA ReleaseType ==
  ASSUME TypeOK, NEW t \in Threads, NEW l \in Locks, NEW k \in Conts,
         NEW c \in Conds \cup {NoCond}, release(t, l, k),
         cond' = [cond EXCEPT ![t] = c], k = "wait" => c \in Conds,
         cursor' \in [Threads -> Locks \cup {NoLock}]
  PROVE  /\ SchedType' /\ PrioType' /\ LockType' /\ CtlType' /\ ArgOK'
<1>0. /\ SchedType /\ PrioType /\ SemaType /\ LockType /\ CondType /\ CtlType /\ ArgOK
      /\ Located(pc[t], arg[t], cont[t], cond[t])
      /\ l \in SemaIds /\ l \notin Threads
  BY ZenonT(60), TypeSplit, SynchAssumption DEF SemaIds, SynchAssumption, ArgOK
<1> USE <1>0
<1>1. LockType'
  <2> DEFINE rest == list_remove(lock_list[t], l)
             ll == list_sort(rest, lock_priority)
  <2>1. lock_list' = [lock_list EXCEPT ![t] = ll]
    BY Zenon DEF release
  <2>2. rest \in Seq(Locks)
    BY Zenon, RemoveProperties DEF LockType
  <2>3. \A e \in Locks : lock_priority[e] \in Int
    BY ZenonT(60), PriorityInt DEF LockType
  <2> HIDE DEF rest
  <2>4. ll \in Seq(Locks)
    BY <2>2, <2>3, SortProperties
  <2> HIDE DEF ll
  <2>5. UNCHANGED <<holder, lock_priority, wait_lock>>
    BY DEF release
  <2> QED BY Zenon, <2>1, <2>4, <2>5 DEF LockType
<1>2. /\ pc' = [pc EXCEPT ![t] = "reset"] /\ arg' = [arg EXCEPT ![t] = l]
      /\ cont' = [cont EXCEPT ![t] = k]
      /\ UNCHANGED schedVars /\ UNCHANGED prioVars
  BY DEF release, GoTo
<1>3. CtlType' /\ ArgOK'
  BY Zenon, <1>2, ControlStep DEF PC, Located
<1> QED
  BY Zenon, <1>1, <1>2, <1>3, UnchangedTypes

\* The lock operations keep the types.
LEMMA LockOpsType ==
  ASSUME TypeOK, NEW t \in Threads, LockOps(t)
  PROVE  TypeOK'
<1>0. /\ SchedType /\ PrioType /\ SemaType /\ LockType /\ CondType /\ CtlType /\ ArgOK
      /\ Located(pc[t], arg[t], cont[t], cond[t])
      /\ t \in All
      /\ arg = [arg EXCEPT ![t] = arg[t]] /\ arg[t] \in SemaIds \cup {NoLock}
  BY TypeSplit DEF All, CtlType, ArgOK
<1> USE <1>0
<1>1. ASSUME NEW l \in Locks, lock_acquire(t, l)
      PROVE  TypeOK'
  <2>1. cont[t] # "wait"
    BY Zenon, <1>1 DEF lock_acquire, At, Located
  <2> QED BY Zenon, <1>1, <2>1, AcquireType DEF lock_acquire
<1>2. ASSUME NEW l \in Locks, lock_release(t, l)
      PROVE  TypeOK'
  <2>1. /\ release(t, l, "run") /\ UNCHANGED <<semaVars, condVars>>
        /\ cond' = [cond EXCEPT ![t] = cond[t]]
        /\ cond[t] \in Conds \cup {NoCond}
        /\ cursor' \in [Threads -> Locks \cup {NoLock}]
    BY <1>2 DEF lock_release, condVars, CtlType, CondType
  <2>2. SchedType' /\ PrioType' /\ LockType' /\ CtlType' /\ ArgOK'
    BY Zenon, <2>1, ReleaseType DEF Conts
  <2> QED BY ZenonT(60), <2>1, <2>2, TypeSplit, UnchangedTypes
<1>3. CASE lock_own(t)
  <2>1. arg[t] \in Locks /\ pc[t] = "own" /\ pc' = [pc EXCEPT ![t] = "enlist"]
    BY Zenon, <1>3 DEF lock_own, Located, At, GoTo
  <2>2. LockType'
    BY <1>3, <2>1 DEF lock_own, LockType
  <2>3. CtlType' /\ ArgOK'
    <3>1. /\ arg' = [arg EXCEPT ![t] = arg[t]] /\ UNCHANGED <<cont, cond>>
          /\ cursor' \in [Threads -> Locks \cup {NoLock}]
      BY Zenon, <1>3 DEF lock_own, condVars, CtlType
    <3> QED BY Zenon, <2>1, <3>1, MoveStep DEF PC, Located
  <2> QED BY Zenon, <1>3, <2>2, <2>3, TypeSplit, UnchangedTypes DEF lock_own
<1>4. CASE lock_enlist(t)
  <2>1. /\ arg[t] \in Locks /\ pc[t] = "enlist"
        /\ pc' = [pc EXCEPT ![t] = "run"] /\ arg' = [arg EXCEPT ![t] = NoLock]
        /\ UNCHANGED <<cont, cond>>
        /\ cursor' \in [Threads -> Locks \cup {NoLock}]
    BY <1>4 DEF lock_enlist, Located, At, Return, condVars, CtlType
  <2>2. LockType'
    <3> DEFINE ll == list_insert_ordered(lock_list[t], arg[t], lock_priority')
    <3>1. ll \in Seq(Locks)
      BY <2>1, InsertProperties DEF LockType
    <3>2. original_priority[t] \in Priorities
      BY DEF PrioType
    <3>3. /\ lock_list' = [lock_list EXCEPT ![t] = ll]
          /\ lock_priority' = [lock_priority EXCEPT ![arg[t]] = original_priority[t]]
          /\ wait_lock' = [wait_lock EXCEPT ![t] = NoLock]
          /\ holder' = holder
      BY <1>4 DEF lock_enlist
    <3> HIDE DEF ll
    <3>4. lock_priority' \in [Locks -> Priorities]
      BY Zenon, <3>2, <3>3 DEF LockType
    <3> QED BY <3>1, <3>3, <3>4 DEF LockType
  <2>3. CtlType' /\ ArgOK'
    BY Zenon, <2>1, MoveStep DEF PC, Located
  <2> QED BY ZenonT(60), <1>4, <2>2, <2>3, TypeSplit, UnchangedTypes DEF lock_enlist
<1>5. CASE lock_reset(t)
  <2> DEFINE ll == lock_list[t]
             p == IF ll = <<>> \/ original_priority[t] >= lock_priority[Head(ll)]
                  THEN original_priority[t] ELSE lock_priority[Head(ll)]
  <2>1. /\ priority' = [priority EXCEPT ![t] = p]
        /\ original_priority' = original_priority
    BY <1>5 DEF lock_reset
  <2>2. p \in Priorities
    <3>1. ll \in Seq(Locks) /\ original_priority[t] \in Priorities
      BY DEF LockType, PrioType
    <3>2. ll # <<>> => Head(ll) \in Locks
      BY <3>1
    <3>3. ll # <<>> => lock_priority[Head(ll)] \in Priorities
      BY <3>2 DEF LockType
    <3> HIDE DEF ll
    <3> QED BY <3>1, <3>3
  <2> HIDE DEF p
  <2>3. PrioType'
    BY <2>1, <2>2 DEF PrioType
  <2>4. CtlType' /\ ArgOK'
    <3>1. /\ arg' = [arg EXCEPT ![t] = arg[t]] /\ UNCHANGED <<cont, cond>>
          /\ pc' = [pc EXCEPT ![t] = "clear"] /\ arg[t] \in Locks /\ pc[t] = "reset"
          /\ cursor' \in [Threads -> Locks \cup {NoLock}]
      BY Zenon, <1>5 DEF lock_reset, condVars, CtlType, GoTo, Located, At
    <3> QED BY ZenonT(60), <3>1, MoveStep DEF PC, Located
  <2> QED BY ZenonT(60), <1>5, <2>3, <2>4, TypeSplit, UnchangedTypes DEF lock_reset
<1>6. CASE lock_clear(t)
  <2>1. arg[t] \in Locks /\ pc' = [pc EXCEPT ![t] = "up"] /\ arg[t] \in SemaIds
    BY Zenon, <1>6 DEF lock_clear, Located, At, GoTo, SemaIds
  <2>2. LockType'
    BY <1>6, <2>1 DEF lock_clear, LockType
  <2>3. CtlType' /\ ArgOK'
    <3>1. /\ arg' = [arg EXCEPT ![t] = arg[t]] /\ UNCHANGED <<cont, cond>>
          /\ cursor' \in [Threads -> Locks \cup {NoLock}]
      BY <1>6 DEF lock_clear, condVars, CtlType
    <3> QED BY ZenonT(60), <2>1, <3>1, MoveStep DEF PC, Located
  <2> QED BY Zenon, <1>6, <2>2, <2>3, TypeSplit, UnchangedTypes DEF lock_clear
<1> QED
  BY ZenonT(60), <1>1, <1>2, <1>3, <1>4, <1>5, <1>6 DEF LockOps

\* The waiter cond_signal takes off a condition variable.
LEMMA SignalType ==
  ASSUME TypeOK, NEW t \in Threads, NEW c \in Conds, signal(t, c), UNCHANGED cond,
         cont[t] # "wait"
  PROVE  TypeOK'
<1>0. /\ SchedType /\ PrioType /\ SemaType /\ LockType /\ CondType /\ CtlType /\ ArgOK
      /\ Located(pc[t], arg[t], cont[t], cond[t])
  BY Zenon, TypeSplit DEF ArgOK
<1> USE <1>0
<1> DEFINE w == list_sort(cond_waiters[c], cond_priority)
<1>1. w \in Seq(Threads) /\ w # <<>>
  <2>1. \A e \in Threads : cond_priority[e] \in Int
    BY ZenonT(60), PriorityInt DEF CondType
  <2>2. cond_waiters[c] \in Seq(Threads)
    BY ZenonT(60) DEF CondType
  <2>3. w \in Seq(Threads)
    BY Zenon, <2>1, <2>2, SortProperties
  <2> QED BY Zenon, <2>3 DEF signal
<1>2. /\ cond_waiters' = [cond_waiters EXCEPT ![c] = Tail(w)]
      /\ pc' = [pc EXCEPT ![t] = "up"] /\ arg' = [arg EXCEPT ![t] = Head(w)]
      /\ UNCHANGED <<schedVars, prioVars, semaVars, lockVars, cond_priority, cont, cursor>>
  BY ZenonT(60) DEF signal, GoTo
<1> HIDE DEF w
<1>3. Head(w) \in SemaIds /\ Tail(w) \in Seq(Threads)
  BY <1>1, FrontAndRest DEF SemaIds
<1>4. CondType'
  BY <1>2, <1>3 DEF CondType
<1>5. cursor' \in [Threads -> Locks \cup {NoLock}]
  BY <1>2 DEF CtlType
<1>6. CtlType' /\ ArgOK'
  BY Zenon, <1>2, <1>3, <1>5, MoveStep DEF PC, Located
<1> QED
  BY Zenon, <1>2, <1>4, <1>6, TypeSplit, UnchangedTypes

\* The condition variable operations keep the types.
LEMMA CondOpsType ==
  ASSUME TypeOK, NEW t \in Threads, CondOps(t)
  PROVE  TypeOK'
<1>0. /\ SchedType /\ PrioType /\ SemaType /\ LockType /\ CondType /\ CtlType /\ ArgOK
      /\ Located(pc[t], arg[t], cont[t], cond[t])
      /\ t \in All /\ t \in SemaIds
      /\ arg = [arg EXCEPT ![t] = arg[t]] /\ arg[t] \in SemaIds \cup {NoLock}
      /\ cont = [cont EXCEPT ![t] = cont[t]] /\ cont[t] \in Conts
  BY TypeSplit DEF All, CtlType, SemaIds, ArgOK
<1> USE <1>0
<1>1. ASSUME NEW c \in Conds, cond_wait(t, c)
      PROVE  TypeOK'
  <2>1. CondLock[c] \in Locks
    BY SynchAssumption DEF SynchAssumption
  <2>2. /\ release(t, CondLock[c], "wait")
        /\ cond' = [cond EXCEPT ![t] = c]
        /\ cursor' \in [Threads -> Locks \cup {NoLock}]
    BY Zenon, <1>1 DEF cond_wait, CtlType
  <2>3. SchedType' /\ PrioType' /\ LockType' /\ CtlType' /\ ArgOK'
    BY ZenonT(60), <2>1, <2>2, ReleaseType DEF Conts
  <2>4. SemaType'
    BY <1>1 DEF cond_wait, SemaType
  <2>5. CondType'
    <3> DEFINE w == list_insert_ordered(cond_waiters[c], t, cond_priority')
    <3>1. w \in Seq(Threads)
      BY Zenon, InsertProperties DEF CondType
    <3>2. cond_waiters' = [cond_waiters EXCEPT ![c] = w]
      BY Zenon, <1>1 DEF cond_wait
    <3>3. cond_priority' \in [Threads -> Priorities]
      BY <1>1 DEF cond_wait, CondType, PrioType
    <3> HIDE DEF w
    <3> QED BY Zenon, <2>2, <3>1, <3>2, <3>3 DEF CondType
  <2> QED BY Zenon, <2>3, <2>4, <2>5, TypeSplit
<1>2. ASSUME NEW c \in Conds, cond_signal(t, c)
      PROVE  TypeOK'
  <2>1. cont[t] # "wait"
    BY Zenon, <1>2 DEF cond_signal, At, Located
  <2> QED BY Zenon, <1>2, <2>1, SignalType DEF cond_signal
<1>3. ASSUME NEW c \in Conds, cond_broadcast(t, c)
      PROVE  TypeOK'
  <2>1. /\ pc' = [pc EXCEPT ![t] = "bcast"] /\ arg' = [arg EXCEPT ![t] = arg[t]]
        /\ cont' = [cont EXCEPT ![t] = cont[t]] /\ cond' = [cond EXCEPT ![t] = c]
        /\ cursor' \in [Threads -> Locks \cup {NoLock}]
        /\ cont[t] # "wait"
    BY Zenon, <1>3 DEF cond_broadcast, GoTo, CtlType, At, Located
  <2> DEFINE k == cont[t]
             a == arg[t]
  <2>2. /\ k \in Conts /\ k # "wait" /\ a \in SemaIds \cup {NoLock}
        /\ cont' = [cont EXCEPT ![t] = k] /\ arg' = [arg EXCEPT ![t] = a]
    BY <2>1
  <2> HIDE DEF k, a
  <2>3. CtlType' /\ ArgOK'
    <3>1. Located("bcast", a, k, c)
      BY Zenon, <2>2 DEF Located
    <3>2. pc' = [pc EXCEPT ![t] = "bcast"] /\ cond' = [cond EXCEPT ![t] = c]
      BY Zenon, <2>1
    <3> QED BY Zenon, <2>1, <2>2, <3>1, <3>2, ControlStep DEF PC
  <2>4. CondType'
    BY <1>3 DEF cond_broadcast, CondType
  <2> QED BY Zenon, <1>3, <2>3, <2>4, TypeSplit, UnchangedTypes DEF cond_broadcast
<1>4. CASE cond_reacquire(t)
  <2>1. CondLock[cond[t]] \in Locks
    BY <1>4, SynchAssumption DEF cond_reacquire, At, Located, SynchAssumption
  <2> QED BY ZenonT(60), <1>4, <2>1, AcquireType DEF cond_reacquire
<1>5. CASE broadcast_next(t)
  <2>1. cond[t] \in Conds /\ cont[t] # "wait"
    BY ZenonT(60), <1>5 DEF broadcast_next, At, Located
  <2> QED BY Zenon, <1>5, <2>1, SignalType DEF broadcast_next
<1>6. CASE broadcast_done(t)
  <2>1. /\ pc' = [pc EXCEPT ![t] = "run"] /\ arg' = [arg EXCEPT ![t] = NoLock]
        /\ cont' = [cont EXCEPT ![t] = cont[t]] /\ cond' = [cond EXCEPT ![t] = NoCond]
        /\ cursor' \in [Threads -> Locks \cup {NoLock}]
    BY Zenon, <1>6 DEF broadcast_done, Return, CtlType
  <2>2. CtlType' /\ ArgOK'
    <3>1. cont[t] # "wait"
      BY <1>6 DEF broadcast_done, At, Located
    <3> DEFINE k == cont[t]
    <3>2. k \in Conts /\ k # "wait" /\ cont' = [cont EXCEPT ![t] = k]
      BY Zenon, <2>1, <3>1
    <3> HIDE DEF k
    <3> QED BY ZenonT(60), <2>1, <3>2, ControlStep DEF PC, Located
  <2>3. CondType'
    BY <1>6 DEF broadcast_done, CondType
  <2> QED BY <1>6, <2>2, <2>3, TypeSplit, UnchangedTypes DEF broadcast_done
<1> QED
  BY ZenonT(60), <1>1, <1>2, <1>3, <1>4, <1>5, <1>6 DEF CondOps

\* The steps of thread_exit keep the types.
LEMMA ExitOpsType ==
  ASSUME TypeOK, NEW t \in Threads, ExitOps(t)
  PROVE  TypeOK'
<1>0. /\ SchedType /\ PrioType /\ SemaType /\ LockType /\ CondType /\ CtlType /\ ArgOK
      /\ Located(pc[t], arg[t], cont[t], cond[t])
      /\ t \in All
      /\ arg = [arg EXCEPT ![t] = arg[t]] /\ arg[t] \in SemaIds \cup {NoLock}
      /\ cursor[t] \in Locks \cup {NoLock}
      /\ lock_list[t] \in Seq(Locks)
  BY ZenonT(60), TypeSplit DEF All, CtlType, LockType, ArgOK
<1> USE <1>0
<1>1. CASE thread_exit(t)
  <2>1. FirstLock(lock_list[t]) \in Locks \cup {NoLock}
    BY DEF FirstLock
  <2>2. /\ pc[t] = "run" /\ pc' = [pc EXCEPT ![t] = "exit"]
        /\ arg' = [arg EXCEPT ![t] = arg[t]] /\ UNCHANGED <<cont, cond>>
    BY <1>1 DEF thread_exit, At, GoTo, condVars
  <2>3. cursor' \in [Threads -> Locks \cup {NoLock}]
    BY Zenon, <1>1, <2>1 DEF thread_exit, CtlType
  <2>4. CtlType' /\ ArgOK'
    BY ZenonT(60), <2>2, <2>3, MoveStep DEF PC, Located
  <2> QED BY <1>1, <2>4, TypeSplit, UnchangedTypes DEF thread_exit
<1>2. CASE exit_release(t)
  <2>1. PICK next \in NextLock(lock_list[t], cursor[t]) :
           cursor' = [cursor EXCEPT ![t] = next]
    BY Zenon, <1>2 DEF exit_release
  <2>2. next \in Locks \cup {NoLock}
    <3> DEFINE ll == lock_list[t]
               l == cursor[t]
    <3>1. \A i \in 1..Len(ll) : ll[i] \in Locks
      OBVIOUS
    <3>2. Range(ll) \subseteq Locks
      BY <3>1 DEF Range
    <3>3. CASE ~Contains(ll, l)
      BY Zenon, <2>1, <3>2, <3>3 DEF NextLock
    <3>4. CASE Contains(ll, l)
      <4>1. Place(ll, l) \in 1..Len(ll)
        BY <3>4 DEF Contains, Place
      <4> DEFINE q == Place(ll, l)
      <4>2. next = IF q < Len(ll) THEN ll[q + 1] ELSE NoLock
        BY Zenon, <2>1, <3>4 DEF NextLock
      <4> HIDE DEF q, ll
      <4>3. q < Len(ll) => q + 1 \in 1..Len(ll)
        BY <4>1 DEF ll, q
      <4> QED BY <3>1, <4>2, <4>3
    <3> QED BY <3>3, <3>4
  <2>3. /\ cursor[t] \in Locks
        /\ release(t, cursor[t], "unlink") /\ UNCHANGED <<semaVars, condVars>>
        /\ cond' = [cond EXCEPT ![t] = cond[t]]
        /\ cond[t] \in Conds \cup {NoCond}
        /\ cursor' \in [Threads -> Locks \cup {NoLock}]
    BY Zenon, <1>2, <2>1, <2>2 DEF exit_release, condVars, CondType, CtlType
  <2>4. SchedType' /\ PrioType' /\ LockType' /\ CtlType' /\ ArgOK'
    BY ZenonT(60), <2>3, ReleaseType DEF Conts
  <2> QED BY <2>3, <2>4, TypeSplit, UnchangedTypes
<1>3. CASE exit_unlink(t)
  <2> DEFINE l == arg[t]
             ll == lock_list[t]
             rest == IF cursor[t] = NoLock THEN <<>>
                     ELSE IF Contains(ll, cursor[t])
                          THEN SubSeq(ll, Place(ll, cursor[t]), Len(ll)) ELSE ll
  <2>1. lock_list' = IF \E u \in Threads : Contains(lock_list[u], l)
                     THEN [u \in Threads |-> list_remove(lock_list[u], l)]
                     ELSE [lock_list EXCEPT ![t] = rest]
    BY <1>3 DEF exit_unlink
  <2>2. rest \in Seq(Locks)
    <3>1. ASSUME Contains(ll, cursor[t])
          PROVE  SubSeq(ll, Place(ll, cursor[t]), Len(ll)) \in Seq(Locks)
      <4>1. Place(ll, cursor[t]) \in 1..Len(ll)
        BY <3>1 DEF Contains, Place
      <4> QED BY <4>1
    <3>2. <<>> \in Seq(Locks) /\ ll \in Seq(Locks)
      OBVIOUS
    <3> QED BY <3>1, <3>2
  <2>3. \A u \in Threads : list_remove(lock_list[u], l) \in Seq(Locks)
    <3>1. \A u \in Threads : lock_list[u] \in Seq(Locks)
      BY DEF LockType
    <3> QED BY <3>1, RemoveProperties
  <2> HIDE DEF rest, l
  <2>4. lock_list' \in [Threads -> Seq(Locks)]
    BY Zenon, <2>1, <2>2, <2>3 DEF LockType
  <2>5. LockType'
    BY ZenonT(60), <1>3, <2>4 DEF exit_unlink, LockType
  <2>6. /\ pc[t] = "unlink" /\ pc' = [pc EXCEPT ![t] = "exit"]
        /\ arg' = [arg EXCEPT ![t] = arg[t]] /\ UNCHANGED <<cont, cond>>
        /\ cursor' \in [Threads -> Locks \cup {NoLock}]
    BY <1>3 DEF exit_unlink, At, GoTo, condVars, CtlType
  <2>7. CtlType' /\ ArgOK'
    BY Zenon, <2>6, MoveStep DEF PC, Located
  <2> QED BY ZenonT(60), <1>3, <2>5, <2>7, TypeSplit, UnchangedTypes DEF exit_unlink
<1>4. CASE exit_die(t)
  <2>1. [status EXCEPT ![t] = "DYING"] \in [All -> Status]
    BY DEF SchedType, Status
  <2>2. schedule(ready_list, sleeping_list, [status EXCEPT ![t] = "DYING"],
                 wake_in, priority)
    BY <1>4 DEF exit_die
  <2>3. SchedType'
    BY Zenon, <2>1, <2>2, ScheduleType DEF SchedType
  <2> QED BY Zenon, <1>4, <2>3, TypeSplit, UnchangedTypes DEF exit_die
<1> QED
  BY Zenon, <1>1, <1>2, <1>3, <1>4 DEF ExitOps

\* The initial state has the types.
LEMMA InitType == Init => TypeOK
<1> SUFFICES ASSUME Init PROVE TypeOK
  OBVIOUS
<1> USE ThreadAssumption, SynchAssumption
<1>1. SchedType
  BY DEF Init, ThreadInit, SchedType, All, Status, ThreadAssumption
<1>2. PrioType
  BY Zenon DEF Init, ThreadInit, PrioType, All, ThreadAssumption
<1>3. SemaType /\ LockType /\ CondType
  BY DEF Init, SemaType, LockType, CondType, ThreadAssumption
<1>4. CtlType /\ ArgOK
  BY DEF Init, CtlType, ArgOK, Located, PC, Conts
<1> QED
  BY <1>1, <1>2, <1>3, <1>4, TypeSplit

\* Every step of every thread, of the timer and of a device keeps the types.
LEMMA NextType == TypeOK /\ [Next]_vars => TypeOK'
<1> SUFFICES ASSUME TypeOK, [Next]_vars PROVE TypeOK'
  OBVIOUS
<1>0. SchedType /\ PrioType /\ SemaType /\ LockType /\ CondType /\ CtlType /\ ArgOK
  BY TypeSplit
<1> USE <1>0
<1>1. ASSUME NEW t \in Threads, Step(t) PROVE TypeOK'
  BY ZenonT(60), <1>1, ThreadOpsType, SemaOpsType, LockOpsType, CondOpsType, ExitOpsType DEF Step
<1>2. CASE Preempt
  <2>1. thread_yield(running, ready_list, status, priority)
    BY <1>2 DEF Preempt
  <2>2. SchedType'
    BY Zenon, <2>1, YieldType DEF SchedType
  <2> QED BY <1>2, <2>2, TypeSplit, UnchangedTypes DEF Preempt
<1>3. CASE Tick
  <2>1. \A t \in Threads : wake_in[t] \in 0..MaxSleep
    BY DEF SchedType
  <2>2. \A t \in Threads : (IF wake_in[t] > 0 THEN wake_in[t] - 1 ELSE 0) \in 0..MaxSleep
    BY <2>1, ThreadAssumption DEF ThreadAssumption
  <2>3. SchedType'
    BY Zenon, <1>3, <2>2 DEF Tick, timer_tick, SchedType
  <2> QED BY <1>3, <2>3, TypeSplit, UnchangedTypes DEF Tick
<1>4. CASE idle
  <2>1. [status EXCEPT ![Idle] = "BLOCKED"] \in [All -> Status]
    BY Zenon DEF SchedType, Status
  <2>2. schedule(ready_list, sleeping_list, [status EXCEPT ![Idle] = "BLOCKED"],
                 wake_in, priority)
    BY <1>4 DEF idle, thread_block
  <2>3. SchedType'
    BY ZenonT(60), <2>1, <2>2, ScheduleType DEF SchedType
  <2> QED BY <1>4, <2>3, TypeSplit, UnchangedTypes DEF idle
<1>5. ASSUME NEW s \in Semas, sema_up_intr(s) PROVE TypeOK'
  <2> DEFINE w == list_sort(waiters[s], priority)
  <2>1. s \in SemaIds /\ waiters[s] \in Seq(Threads) /\ running \in All
    BY DEF SemaIds, SemaType, SchedType
  <2>2. w \in Seq(Threads)
    BY ZenonT(60), <2>1, PrioritySort
  <2>3. /\ w = list_sort(waiters[s], priority)
        /\ value' = [value EXCEPT ![s] = @ + 1]
        /\ waiters' = [waiters EXCEPT ![s] = IF w = <<>> THEN w ELSE Tail(w)]
        /\ IF w = <<>>
             THEN if_yield_intr(running, ready_list, status, priority)
             ELSE if_yield_intr(running,
                                list_insert_ordered(ready_list, Head(w), priority),
                                [status EXCEPT ![Head(w)] = "READY"], priority)
    BY <1>5 DEF sema_up_intr, waiters_by_priority
  <2> HIDE DEF w
  <2>4. SchedType' /\ SemaType'
    BY ZenonT(60), <2>1, <2>2, <2>3, SemaUpType
  <2> QED BY <1>5, <2>4, TypeSplit, UnchangedTypes DEF sema_up_intr
<1>6. CASE UNCHANGED vars
  BY <1>6, TypeSplit, UnchangedTypes DEF vars
<1> QED
  BY <1>1, <1>2, <1>3, <1>4, <1>5, <1>6 DEF Next

\* Type correctness: in every reachable state of every instance each variable
\* has its type and each operation of synch.c works on an object of its kind.
THEOREM TypeCorrect == Spec => []TypeOK
  BY InitType, NextType, PTL DEF Spec

\* Where sema_up leaves the thread that calls it: in sema_down only as the
\* waiter of its own cond_wait.
LEMMA AfterUp ==
  ASSUME TypeOK, NEW t \in Threads, At(t, "up"), after_up(t)
  PROVE  /\ \A u \in Threads \ {t} : pc'[u] = pc[u] /\ arg'[u] = arg[u]
         /\ pc'[t] \in {"down", "unlink", "bcast", "run"}
         /\ pc'[t] = "down" <=> arg[t] \in Locks /\ cont[t] = "wait"
         /\ pc'[t] = "down" => arg'[t] = t
         /\ pc'[t] = "unlink" <=> arg[t] \in Locks /\ cont[t] = "unlink"
<1>1. pc \in [Threads -> PC] /\ arg \in [Threads -> SemaIds \cup {NoLock}]
  BY DEF TypeOK
<1>2. CASE arg[t] \in Locks /\ cont[t] = "wait"
  <2>1. arg[t] \notin Threads /\ cont[t] # "unlink"
    BY <1>2, SynchAssumption DEF SynchAssumption
  <2>2. pc' = [pc EXCEPT ![t] = "down"] /\ arg' = [arg EXCEPT ![t] = t]
    BY <1>2, <2>1 DEF after_up, GoTo
  <2> QED BY ZenonT(60), <1>1, <1>2, <2>1, <2>2
<1>3. CASE arg[t] \in Locks /\ cont[t] = "unlink"
  <2>1. arg[t] \notin Threads /\ cont[t] # "wait"
    BY <1>3, SynchAssumption DEF SynchAssumption
  <2>2. pc' = [pc EXCEPT ![t] = "unlink"] /\ UNCHANGED arg
    BY <1>3, <2>1 DEF after_up, GoTo
  <2> QED BY ZenonT(60), <1>1, <1>3, <2>1, <2>2
<1>4. CASE arg[t] \notin Locks
  BY Zenon, <1>1, <1>4 DEF after_up, GoTo, Return
<1>5. CASE arg[t] \in Locks /\ cont[t] = "run"
  <2>1. arg[t] \notin Threads
    BY <1>5, SynchAssumption DEF SynchAssumption
  <2>2. pc' = [pc EXCEPT ![t] = "run"] /\ arg' = [arg EXCEPT ![t] = NoLock]
    BY <1>5, <2>1 DEF after_up, Return
  <2> QED BY ZenonT(60), <1>1, <1>5, <2>2
<1> QED BY ZenonT(60), <1>2, <1>3, <1>4, <1>5 DEF TypeOK, Conts
=============================================================================
