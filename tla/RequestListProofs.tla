------------------------- MODULE RequestListProofs -------------------------
(***************************************************************************)
(* Proofs about the retry list: it is well typed, its map and its slice    *)
(* agree until a Mixup and the slice is sorted, for any number of          *)
(* requests, ids, hashes and instants.                                     *)
(***************************************************************************)
EXTENDS RequestList, WellFoundedInduction, SequenceTheorems, TLAPS

----------------------------------------------------------------------------
(* Facts about the operators the list is built from.                       *)

\* Every nonempty set of positions has a least element, so what sort.Search
\* returns exists.
LEMMA MinProperty ==
    ASSUME NEW S, S \subseteq Nat, S # {}
    PROVE  Min(S) \in S /\ \A k \in S : Min(S) <= k
<1>1. \E x \in S : \A y \in S : ~ (<<y, x>> \in OpToRel(<, Nat))
  BY NatLessThanWellFounded, WFMin, Zenon
<1>2. PICK x \in S : \A y \in S : ~ (<<y, x>> \in OpToRel(<, Nat))
  BY <1>1
<1>3. \A y \in S : x <= y
  <2> SUFFICES ASSUME NEW y \in S, ~(x <= y) PROVE FALSE
    OBVIOUS
  <2>1. y < x
    OBVIOUS
  <2>2. <<y, x>> \in OpToRel(<, Nat)
    BY <2>1 DEF OpToRel
  <2> QED BY <2>2, <1>2
<1> QED BY <1>3 DEF Min

\* What sort.Search returns for a set of positions of the slice.
LEMMA SearchProperty ==
    ASSUME sorted \in Seq(Request), NEW S, S \subseteq DOMAIN sorted
    PROVE  /\ search(S) \in 1..(Len(sorted) + 1)
           /\ search(S) # Len(sorted) + 1 => search(S) \in S
           /\ \A k \in S : search(S) <= k
           /\ \A k \in S : search(S) # Len(sorted) + 1
<1>1. DOMAIN sorted = 1..Len(sorted) /\ Len(sorted) \in Nat
  OBVIOUS
<1>2. CASE S = {}
  BY <1>1, <1>2 DEF search
<1>3. CASE S # {}
  <2>1. S \subseteq Nat
    BY <1>1
  <2>2. Min(S) \in S /\ \A k \in S : Min(S) <= k
    BY <2>1, <1>3, MinProperty
  <2>3. search(S) = Min(S)
    BY <1>3 DEF search
  <2> QED BY <1>1, <2>2, <2>3
<1> QED BY <1>2, <1>3

\* The slice after an insertion (append, copy, store).
LEMMA InsertAtProperty ==
    ASSUME NEW S, NEW s \in Seq(S), NEW e \in S, NEW i \in 1..(Len(s) + 1)
    PROVE  /\ InsertAt(s, i, e) \in Seq(S)
           /\ Len(InsertAt(s, i, e)) = Len(s) + 1
           /\ \A k \in 1..(Len(s) + 1) :
                 InsertAt(s, i, e)[k] = IF k < i THEN s[k]
                                        ELSE IF k = i THEN e ELSE s[k - 1]
<1> DEFINE a == SubSeq(s, 1, i - 1)
           c == SubSeq(s, i, Len(s))
<1>0. Len(s) \in Nat /\ i \in Nat /\ i <= Len(s) + 1 /\ 1 <= i
  OBVIOUS
<1>1. /\ a \in Seq(S) /\ Len(a) = i - 1
      /\ \A k \in 1..(i - 1) : a[k] = s[k]
  <2>1. \A k \in 1..(i - 1) : s[k] \in S
    BY <1>0, ElementOfSeq
  <2> HIDE DEF a
  <2> QED BY <1>0, <2>1, SubSeqProperties DEF a
<1>2. /\ c \in Seq(S) /\ Len(c) = Len(s) - i + 1
      /\ \A k \in 1..(Len(s) - i + 1) : c[k] = s[i + k - 1]
  <2>1. \A k \in i..Len(s) : s[k] \in S
    BY <1>0, ElementOfSeq
  <2> HIDE DEF c
  <2> QED BY <1>0, <2>1, SubSeqProperties DEF c
<1> DEFINE b == a \o <<e>>
<1> HIDE DEF a, c
<1>3. /\ b \in Seq(S) /\ Len(b) = i
      /\ \A k \in 1..i : b[k] = IF k < i THEN s[k] ELSE e
  <2>1. <<e>> \in Seq(S) /\ Len(<<e>>) = 1 /\ <<e>>[1] = e
    OBVIOUS
  <2> QED BY <1>0, <1>1, <2>1, ConcatProperties DEF b
<1> HIDE DEF b
<1>4. InsertAt(s, i, e) = b \o c
  BY DEF InsertAt, a, b, c
<1>5. /\ b \o c \in Seq(S)
      /\ Len(b \o c) = Len(b) + Len(c)
      /\ \A k \in 1..(Len(b) + Len(c)) :
            (b \o c)[k] = IF k <= Len(b) THEN b[k] ELSE c[k - Len(b)]
  BY <1>2, <1>3, ConcatProperties
<1>6. Len(b) + Len(c) = Len(s) + 1
  BY <1>0, <1>2, <1>3
<1>7. ASSUME NEW k \in 1..(Len(s) + 1)
      PROVE  (b \o c)[k] = IF k < i THEN s[k] ELSE IF k = i THEN e ELSE s[k - 1]
  <2>1. CASE k <= i
    <3>1. (b \o c)[k] = b[k]
      BY <1>0, <1>3, <1>5, <1>6, <2>1
    <3> QED BY <1>0, <1>3, <2>1, <3>1
  <2>2. CASE ~(k <= i)
    <3>1. (b \o c)[k] = c[k - i]
      BY <1>0, <1>3, <1>5, <1>6, <2>2
    <3>2. k - i \in 1..(Len(s) - i + 1) /\ i + (k - i) - 1 = k - 1
      BY <1>0, <2>2
    <3>3. c[k - i] = s[k - 1]
      BY <1>2, <3>2
    <3> QED BY <1>0, <2>2, <3>1, <3>3
  <2> QED BY <2>1, <2>2
<1> QED BY <1>4, <1>5, <1>6, <1>7

\* The slice after a removal (copy, truncate).
LEMMA RemoveAtProperty ==
    ASSUME NEW S, NEW s \in Seq(S), NEW i \in 1..Len(s)
    PROVE  /\ RemoveAt(s, i) \in Seq(S)
           /\ Len(RemoveAt(s, i)) = Len(s) - 1
           /\ \A k \in 1..(Len(s) - 1) :
                 RemoveAt(s, i)[k] = IF k < i THEN s[k] ELSE s[k + 1]
<1> DEFINE a == SubSeq(s, 1, i - 1)
           c == SubSeq(s, i + 1, Len(s))
<1>0. Len(s) \in Nat /\ i \in Nat /\ i <= Len(s) /\ 1 <= i
  OBVIOUS
<1>1. /\ a \in Seq(S) /\ Len(a) = i - 1
      /\ \A k \in 1..(i - 1) : a[k] = s[k]
  <2>1. \A k \in 1..(i - 1) : s[k] \in S
    BY <1>0, ElementOfSeq
  <2> HIDE DEF a
  <2> QED BY <1>0, <2>1, SubSeqProperties DEF a
<1>2. /\ c \in Seq(S) /\ Len(c) = Len(s) - i
      /\ \A k \in 1..(Len(s) - i) : c[k] = s[i + k]
  <2>1. \A k \in (i + 1)..Len(s) : s[k] \in S
    BY <1>0, ElementOfSeq
  <2> HIDE DEF c
  <2> QED BY <1>0, <2>1, SubSeqProperties DEF c
<1>3. RemoveAt(s, i) = a \o c
  BY DEF RemoveAt
<1> HIDE DEF a, c
<1>4. /\ a \o c \in Seq(S)
      /\ Len(a \o c) = Len(a) + Len(c)
      /\ \A k \in 1..(Len(a) + Len(c)) :
            (a \o c)[k] = IF k <= Len(a) THEN a[k] ELSE c[k - Len(a)]
  BY <1>1, <1>2, ConcatProperties
<1>5. Len(a) + Len(c) = Len(s) - 1
  BY <1>0, <1>1, <1>2
<1>6. ASSUME NEW k \in 1..(Len(s) - 1)
      PROVE  (a \o c)[k] = IF k < i THEN s[k] ELSE s[k + 1]
  <2>1. CASE k < i
    <3>1. (a \o c)[k] = a[k]
      BY <1>0, <1>1, <1>4, <1>5, <2>1
    <3> QED BY <1>0, <1>1, <2>1, <3>1
  <2>2. CASE ~(k < i)
    <3>1. (a \o c)[k] = c[k - (i - 1)]
      BY <1>0, <1>1, <1>4, <1>5, <2>2
    <3>2. k - (i - 1) \in 1..(Len(s) - i) /\ i + (k - (i - 1)) = k + 1
      BY <1>0, <2>2
    <3>3. c[k - (i - 1)] = s[k + 1]
      BY <1>2, <3>2
    <3> QED BY <2>2, <3>1, <3>3
  <2> QED BY <2>1, <2>2
<1> QED BY <1>3, <1>4, <1>5, <1>6

\* Milliseconds can be compared.
LEMMA MilliType == \A t \in Time : UnixMilli(t) \in Int
BY ListAssumption DEF UnixMilli

----------------------------------------------------------------------------
(* The methods of the list.                                                *)

ListInv == ListTypeOK /\ Consistent /\ SortedByRetry

\* Where add puts a request whose id is not in the list.
LEMMA AddIndex ==
    ASSUME ListInv, NEW r \in Request, list[IdOf[r]] = Nil,
           NEW map, map = [list EXCEPT ![IdOf[r]] = r]
    PROVE  /\ addSortIndex(map, r) \in 1..(Len(sorted) + 1)
           /\ \A k \in DOMAIN sorted :
                 k < addSortIndex(map, r) <=>
                     UnixMilli(nextRetry[sorted[k]]) <= UnixMilli(nextRetry[r])
<1> DEFINE S == {k \in DOMAIN sorted : isGreaterThan(map[IdOf[sorted[k]]], r)}
           i == search(S)
<1>1. /\ sorted \in Seq(Request) /\ list \in [Key -> Request \cup {Nil}]
      /\ nextRetry \in [Request -> Time]
  BY DEF ListInv, ListTypeOK
<1>2. \A k \in DOMAIN sorted : sorted[k] \in Request /\ IdOf[sorted[k]] \in Key
  BY <1>1, ListAssumption
<1>3. \A k \in DOMAIN sorted : map[IdOf[sorted[k]]] = sorted[k]
  BY <1>1, <1>2, ListAssumption DEF ListInv, Consistent, Listed
<1>4. \A k \in DOMAIN sorted :
         k \in S <=> UnixMilli(nextRetry[sorted[k]]) > UnixMilli(nextRetry[r])
  BY <1>3 DEF isGreaterThan
<1>5. \A k \in DOMAIN sorted : UnixMilli(nextRetry[sorted[k]]) \in Int
  BY <1>1, <1>2, MilliType
<1>6. UnixMilli(nextRetry[r]) \in Int
  BY <1>1, MilliType
<1> HIDE DEF S
<1>7. S \subseteq DOMAIN sorted
  BY DEF S
<1>8. /\ i \in 1..(Len(sorted) + 1)
      /\ i # Len(sorted) + 1 => i \in S
      /\ \A k \in S : i <= k
  BY <1>1, <1>7, SearchProperty
<1>9. addSortIndex(map, r) = i
  BY DEF addSortIndex, S
<1>10. DOMAIN sorted = 1..Len(sorted) /\ Len(sorted) \in Nat
  BY <1>1
<1> HIDE DEF i
<1>11. ASSUME NEW k \in DOMAIN sorted
       PROVE  k < i <=> UnixMilli(nextRetry[sorted[k]]) <= UnixMilli(nextRetry[r])
  <2>1. CASE k < i
    <3>1. k \notin S
      BY <1>8, <1>10, <2>1
    <3> QED BY <2>1, <3>1, <1>4, <1>5, <1>6
  <2>2. CASE ~(k < i)
    <3>1. i \in S /\ i \in DOMAIN sorted
      BY <1>7, <1>8, <1>10, <2>2
    <3>2. UnixMilli(nextRetry[sorted[i]]) > UnixMilli(nextRetry[r])
      BY <1>4, <3>1
    <3>3. i = k \/ i < k
      BY <1>8, <1>10, <2>2
    <3>4. UnixMilli(nextRetry[sorted[i]]) <= UnixMilli(nextRetry[sorted[k]])
      BY <3>1, <3>3, <1>5 DEF ListInv, SortedByRetry
    <3> QED BY <2>2, <3>1, <3>2, <3>4, <1>5, <1>6
  <2> QED BY <2>1, <2>2
<1> QED BY <1>8, <1>9, <1>11

\* What delete finds in the slice has the hash and the instant it looks for.
LEMMA DeleteIndex ==
    ASSUME ListTypeOK, NEW q \in Request, deleteFinds(q)
    PROVE  /\ deleteIndex(q) \in DOMAIN sorted
           /\ HashOf[sorted[deleteIndex(q)]] = HashOf[q]
           /\ nextRetry[sorted[deleteIndex(q)]] = nextRetry[q]
<1> DEFINE A == {k \in DOMAIN sorted : isGreaterOrEqualThan(list[IdOf[sorted[k]]], q)}
           B == {k \in DOMAIN sorted :
                    /\ k >= search(A)
                    /\ \/ nextRetry[sorted[k]] # nextRetry[q]
                       \/ HashOf[sorted[k]] = HashOf[q]}
           i == deleteIndex(q)
<1>1. sorted \in Seq(Request)
  BY DEF ListTypeOK
<1>2. i = search(B)
  BY DEF deleteIndex
<1>3. i # Len(sorted) + 1 /\ nextRetry[sorted[i]] = nextRetry[q]
  BY DEF deleteFinds
<1> HIDE DEF A, i
<1>4. i \in B
  <2>1. B \subseteq DOMAIN sorted
    OBVIOUS
  <2> HIDE DEF B
  <2> QED BY <1>1, <1>2, <1>3, <2>1, SearchProperty
<1>5. i \in DOMAIN sorted /\ HashOf[sorted[i]] = HashOf[q]
  BY <1>3, <1>4
<1> QED BY <1>3, <1>5 DEF i

\* A request that is the first of its millisecond is found by delete, and at
\* its own place: the search for the millisecond ends right there.
LEMMA DeleteFindsFirst ==
    ASSUME ListInv, NEW i \in DOMAIN sorted,
           \A j \in DOMAIN sorted :
               j < i => UnixMilli(nextRetry[sorted[j]]) < UnixMilli(nextRetry[sorted[i]])
    PROVE  deleteFinds(sorted[i]) /\ deleteIndex(sorted[i]) = i
<1> DEFINE q == sorted[i]
           A == {k \in DOMAIN sorted : isGreaterOrEqualThan(list[IdOf[sorted[k]]], q)}
           B == {k \in DOMAIN sorted :
                    /\ k >= search(A)
                    /\ \/ nextRetry[sorted[k]] # nextRetry[q]
                       \/ HashOf[sorted[k]] = HashOf[q]}
<1>1. sorted \in Seq(Request) /\ nextRetry \in [Request -> Time]
  BY DEF ListInv, ListTypeOK
<1>2. DOMAIN sorted = 1..Len(sorted) /\ Len(sorted) \in Nat
  BY <1>1
<1>3. \A k \in DOMAIN sorted : UnixMilli(nextRetry[sorted[k]]) \in Int
  BY <1>1, MilliType
<1>4. \A k \in DOMAIN sorted : list[IdOf[sorted[k]]] = sorted[k]
  BY DEF ListInv, Consistent, Listed
<1>5. i \in A /\ \A k \in A : ~(k < i)
  BY <1>3, <1>4 DEF isGreaterOrEqualThan
<1>6. search(A) = i
  <2>1. A \subseteq DOMAIN sorted
    OBVIOUS
  <2> HIDE DEF A
  <2> QED BY <1>1, <1>2, <1>5, <2>1, SearchProperty
<1>7. i \in B /\ \A k \in B : k >= i
  <2> HIDE DEF A
  <2> QED BY <1>2, <1>6
<1>8. search(B) = i
  <2>1. B \subseteq DOMAIN sorted
    OBVIOUS
  <2> HIDE DEF B
  <2> QED BY <1>1, <1>2, <1>7, <2>1, SearchProperty
<1>9. deleteIndex(q) = i
  BY <1>8 DEF deleteIndex
<1> QED BY <1>1, <1>2, <1>9 DEF deleteFinds

\* The list after add, if the id of the request is not in it.
LEMMA AddShape ==
    ASSUME ListInv, NEW r \in Request, list[IdOf[r]] = Nil, add(r)
    PROVE  /\ list' = [list EXCEPT ![IdOf[r]] = r]
           /\ sorted' \in Seq(Request) /\ Len(sorted') = Len(sorted) + 1
           /\ \E i \in 1..(Len(sorted) + 1) :
                 /\ \A k \in 1..(Len(sorted) + 1) :
                       sorted'[k] = IF k < i THEN sorted[k]
                                    ELSE IF k = i THEN r ELSE sorted[k - 1]
                 /\ \A k \in DOMAIN sorted :
                       k < i <=> UnixMilli(nextRetry[sorted[k]]) <= UnixMilli(nextRetry[r])
<1>1. /\ list' = [list EXCEPT ![IdOf[r]] = r]
      /\ sorted' = InsertAt(sorted, addSortIndex(list', r), r)
  BY DEF add
<1>2. PICK i \in 1..(Len(sorted) + 1) :
         /\ sorted' = InsertAt(sorted, i, r)
         /\ \A k \in DOMAIN sorted :
               k < i <=> UnixMilli(nextRetry[sorted[k]]) <= UnixMilli(nextRetry[r])
  BY <1>1, AddIndex
<1>3. sorted \in Seq(Request) /\ i \in 1..(Len(sorted) + 1) /\ r \in Request
  BY <1>2 DEF ListInv, ListTypeOK
<1> DEFINE s == InsertAt(sorted, i, r)
<1>4. /\ s \in Seq(Request)
      /\ Len(s) = Len(sorted) + 1
      /\ \A k \in 1..(Len(sorted) + 1) :
            s[k] = IF k < i THEN sorted[k] ELSE IF k = i THEN r ELSE sorted[k - 1]
  BY <1>3, InsertAtProperty
<1>5. sorted' = s
  BY <1>2
<1> HIDE DEF s
<1> QED BY <1>1, <1>2, <1>4, <1>5

\* The list after delete, if it finds the request: what leaves the slice is
\* the request or a twin of it.
LEMMA DeleteShape ==
    ASSUME ListInv, NEW r \in Request, delete(r),
           list[IdOf[r]] # Nil, deleteFinds(list[IdOf[r]])
    PROVE  /\ list[IdOf[r]] \in Request /\ IdOf[list[IdOf[r]]] = IdOf[r]
           /\ list' = [list EXCEPT ![IdOf[r]] = Nil]
           /\ sorted' \in Seq(Request) /\ Len(sorted') = Len(sorted) - 1
           /\ \E i \in DOMAIN sorted :
                 /\ HashOf[sorted[i]] = HashOf[list[IdOf[r]]]
                 /\ nextRetry[sorted[i]] = nextRetry[list[IdOf[r]]]
                 /\ \A k \in 1..(Len(sorted) - 1) :
                       sorted'[k] = IF k < i THEN sorted[k] ELSE sorted[k + 1]
<1> DEFINE q == list[IdOf[r]]
           i == deleteIndex(q)
<1>1. sorted \in Seq(Request) /\ list \in [Key -> Request \cup {Nil}] /\ ListTypeOK
  BY DEF ListInv, ListTypeOK
<1>2. q \in Request /\ IdOf[q] = IdOf[r]
  BY <1>1, ListAssumption DEF ListInv, Consistent
<1>3. /\ list' = [list EXCEPT ![IdOf[q]] = Nil]
      /\ sorted' = RemoveAt(sorted, i)
  BY DEF delete, removeKey, removeSorted
<1>4. /\ i \in DOMAIN sorted
      /\ HashOf[sorted[i]] = HashOf[q] /\ nextRetry[sorted[i]] = nextRetry[q]
  BY <1>1, <1>2, DeleteIndex
<1>5. DOMAIN sorted = 1..Len(sorted)
  BY <1>1
<1> HIDE DEF i, q
<1>6. /\ sorted' \in Seq(Request)
      /\ Len(sorted') = Len(sorted) - 1
      /\ \A k \in 1..(Len(sorted) - 1) :
            sorted'[k] = IF k < i THEN sorted[k] ELSE sorted[k + 1]
  BY <1>1, <1>3, <1>4, <1>5, RemoveAtProperty, Zenon
<1> QED BY <1>2, <1>3, <1>4, <1>6 DEF q

----------------------------------------------------------------------------
(* Each step of a client of the list preserves ListInv.                    *)

\* A new list is consistent and sorted.
LEMMA InitInv == ListInit => ListInv
<1> SUFFICES ASSUME ListInit PROVE ListInv
  OBVIOUS
<1>1. DOMAIN sorted = {} /\ sorted \in Seq(Request)
  BY DEF ListInit
<1>2. ListTypeOK
  BY <1>1, ListAssumption DEF ListInit, ListTypeOK
<1>3. Consistent
  BY <1>1 DEF ListInit, Consistent, IsInjective
<1>4. SortedByRetry
  BY <1>1 DEF SortedByRetry
<1> QED BY <1>2, <1>3, <1>4 DEF ListInv

\* A write of the nextRetry of a request that is not listed changes nothing
\* that the list looks at.
LEMMA SetNextRetryInv ==
    ASSUME ListInv, NEW r \in Request, NEW t \in Time, SetNextRetry(r, t)
    PROVE  ListInv'
<1>1. ListTypeOK'
  BY DEF ListInv, ListTypeOK, SetNextRetry
<1>2. Consistent'
  BY DEF ListInv, Consistent, Listed, SetNextRetry
<1>3. \A k \in DOMAIN sorted : nextRetry'[sorted[k]] = nextRetry[sorted[k]]
  BY DEF ListInv, ListTypeOK, Consistent, SetNextRetry
<1>4. SortedByRetry'
  BY <1>3 DEF ListInv, SortedByRetry, SetNextRetry, UnixMilli
<1> QED BY <1>1, <1>2, <1>4 DEF ListInv

\* add keeps map and slice in agreement and the slice sorted.
LEMMA AddInv ==
    ASSUME ListInv, NEW r \in Request, ListAdd(r)
    PROVE  ListInv'
<1>1. CASE list[IdOf[r]] # Nil
  <2>1. UNCHANGED listVars
    BY <1>1 DEF ListAdd, add, listVars
  <2> QED BY <2>1 DEF ListInv, ListTypeOK, Consistent, SortedByRetry, Listed,
                    listVars, UnixMilli
<1>2. CASE list[IdOf[r]] = Nil
  <2>1. list' = [list EXCEPT ![IdOf[r]] = r] /\ nextRetry' = nextRetry /\ add(r)
    BY <1>2 DEF ListAdd, add
  <2>2. /\ sorted \in Seq(Request) /\ list \in [Key -> Request \cup {Nil}]
        /\ nextRetry \in [Request -> Time]
    BY DEF ListInv, ListTypeOK
  <2>3. PICK i \in 1..(Len(sorted) + 1) :
           /\ \A k \in 1..(Len(sorted) + 1) :
                 sorted'[k] = IF k < i THEN sorted[k] ELSE IF k = i THEN r ELSE sorted[k - 1]
           /\ \A k \in DOMAIN sorted :
                 k < i <=> UnixMilli(nextRetry[sorted[k]]) <= UnixMilli(nextRetry[r])
    BY <1>2, <2>1, AddShape
  <2>4. /\ sorted' \in Seq(Request)
        /\ Len(sorted') = Len(sorted) + 1
        /\ \A k \in 1..(Len(sorted) + 1) :
              sorted'[k] = IF k < i THEN sorted[k] ELSE IF k = i THEN r ELSE sorted[k - 1]
    BY <1>2, <2>1, <2>3, AddShape
  <2>5. /\ DOMAIN sorted = 1..Len(sorted) /\ Len(sorted) \in Nat
        /\ DOMAIN sorted' = 1..(Len(sorted) + 1)
    BY <2>2, <2>4
  <2> DEFINE old(k) == IF k < i THEN k ELSE k - 1
  <2>6. \A k \in DOMAIN sorted' \ {i} : old(k) \in DOMAIN sorted /\ sorted'[k] = sorted[old(k)]
    BY <2>3, <2>4, <2>5
  <2>7. i \in DOMAIN sorted' /\ sorted'[i] = r
    BY <2>3, <2>4, <2>5
  <2>8. \A k \in DOMAIN sorted :
           /\ sorted[k] \in Request /\ sorted[k] # r
           /\ IdOf[sorted[k]] # IdOf[r] /\ IdOf[sorted[k]] \in Key
           /\ list[IdOf[sorted[k]]] = sorted[k]
    BY <1>2, <2>2, ListAssumption DEF ListInv, Consistent, Listed
  <2>9. ListTypeOK'
    BY <2>1, <2>2, <2>4, ListAssumption DEF ListTypeOK
  <2>10. Consistent'
    <3>1. ASSUME NEW n \in Key, list'[n] # Nil
          PROVE  IdOf[list'[n]] = n /\ list'[n] \in ToSet(sorted')
      <4>1. CASE n = IdOf[r]
        BY <2>1, <2>2, <2>7, <4>1 DEF ToSet
      <4>2. CASE n # IdOf[r]
        <5>1. list'[n] = list[n] /\ list[n] # Nil
          BY <2>1, <2>2, <3>1, <4>2
        <5>2. IdOf[list[n]] = n /\ list[n] \in ToSet(sorted)
          BY <5>1 DEF ListInv, Consistent
        <5>3. PICK k \in DOMAIN sorted : sorted[k] = list[n]
          BY <5>2 DEF ToSet
        <5>4. \E m \in DOMAIN sorted' : sorted'[m] = sorted[k]
          <6>1. CASE k < i
            BY <2>4, <2>5, <6>1
          <6>2. CASE ~(k < i)
            <7>1. k + 1 \in DOMAIN sorted' /\ ~(k + 1 < i) /\ k + 1 # i /\ (k + 1) - 1 = k
              BY <2>3, <2>5, <6>2
            <7> QED BY <2>4, <2>5, <7>1
          <6> QED BY <6>1, <6>2
        <5> QED BY <5>1, <5>2, <5>3, <5>4 DEF ToSet
      <4> QED BY <4>1, <4>2
    <3>2. ASSUME NEW k \in DOMAIN sorted'
          PROVE  list'[IdOf[sorted'[k]]] = sorted'[k]
      <4>1. CASE k = i
        BY <2>1, <2>2, <2>7, <4>1, ListAssumption
      <4>2. CASE k # i
        <5>1. PICK m \in DOMAIN sorted : sorted'[k] = sorted[m]
          BY <2>6, <4>2
        <5> QED BY <2>1, <2>2, <2>8, <5>1
      <4> QED BY <4>1, <4>2
    <3>3. ASSUME NEW j \in DOMAIN sorted', NEW k \in DOMAIN sorted', sorted'[j] = sorted'[k]
          PROVE  j = k
      <4>1. CASE j = i \/ k = i
        BY <2>6, <2>7, <2>8, <3>3, <4>1
      <4>2. CASE j # i /\ k # i
        <5>1. sorted[old(j)] = sorted[old(k)] /\ old(j) \in DOMAIN sorted /\ old(k) \in DOMAIN sorted
          BY <2>6, <3>3, <4>2
        <5>2. old(j) = old(k)
          BY <5>1 DEF ListInv, Consistent, IsInjective
        <5> QED BY <2>3, <2>5, <4>2, <5>2
      <4> QED BY <4>1, <4>2
    <3> QED BY <3>1, <3>2, <3>3 DEF Consistent, Listed, IsInjective
  <2>11. SortedByRetry'
    <3> SUFFICES ASSUME NEW j \in DOMAIN sorted', NEW k \in DOMAIN sorted', j < k
                 PROVE  UnixMilli(nextRetry[sorted'[j]]) <= UnixMilli(nextRetry[sorted'[k]])
      BY <2>1 DEF SortedByRetry, UnixMilli
    <3>1. /\ UnixMilli(nextRetry[r]) \in Int
          /\ \A m \in DOMAIN sorted : UnixMilli(nextRetry[sorted[m]]) \in Int
      BY <2>2, <2>8, MilliType
    <3>2. CASE j = i
      <4>1. old(k) \in DOMAIN sorted /\ ~(old(k) < i) /\ sorted'[k] = sorted[old(k)]
        BY <2>3, <2>5, <2>6, <3>2
      <4> QED BY <2>3, <2>7, <3>1, <3>2, <4>1
    <3>3. CASE k = i
      <4>1. j \in DOMAIN sorted /\ j < i /\ sorted'[j] = sorted[j]
        BY <2>3, <2>4, <2>5, <3>3
      <4> QED BY <2>3, <2>7, <3>3, <4>1
    <3>4. CASE j # i /\ k # i
      <4>1. /\ old(j) \in DOMAIN sorted /\ old(k) \in DOMAIN sorted /\ old(j) < old(k)
            /\ sorted'[j] = sorted[old(j)] /\ sorted'[k] = sorted[old(k)]
        BY <2>3, <2>5, <2>6, <3>4
      <4> QED BY <4>1 DEF ListInv, SortedByRetry
    <3> QED BY <3>2, <3>3, <3>4
  <2> QED BY <2>9, <2>10, <2>11 DEF ListInv
<1> QED BY <1>1, <1>2

\* A deletion leaves the slice sorted, whatever it takes out.
LEMMA DeleteSorted ==
    ASSUME ListInv, NEW r \in Request, ListDelete(r)
    PROVE  SortedByRetry'
<1>1. CASE ~(list[IdOf[r]] # Nil /\ deleteFinds(list[IdOf[r]]))
  <2>1. UNCHANGED listVars
    BY <1>1 DEF ListDelete, delete, listVars
  <2> QED BY <2>1 DEF ListInv, SortedByRetry, listVars, UnixMilli
<1>2. CASE list[IdOf[r]] # Nil /\ deleteFinds(list[IdOf[r]])
  <2>1. /\ sorted \in Seq(Request) /\ Len(sorted') = Len(sorted) - 1
        /\ sorted' \in Seq(Request)
    BY <1>2, DeleteShape DEF ListInv, ListTypeOK, ListDelete
  <2>2. PICK i \in DOMAIN sorted :
           \A k \in 1..(Len(sorted) - 1) :
               sorted'[k] = IF k < i THEN sorted[k] ELSE sorted[k + 1]
    BY <1>2, DeleteShape DEF ListDelete
  <2>3. /\ DOMAIN sorted = 1..Len(sorted) /\ Len(sorted) \in Nat
        /\ DOMAIN sorted' = 1..(Len(sorted) - 1)
    BY <2>1
  <2> DEFINE old(k) == IF k < i THEN k ELSE k + 1
  <2> SUFFICES ASSUME NEW j \in DOMAIN sorted', NEW k \in DOMAIN sorted', j < k
               PROVE  UnixMilli(nextRetry[sorted'[j]]) <= UnixMilli(nextRetry[sorted'[k]])
    BY DEF SortedByRetry, ListDelete, UnixMilli
  <2>4. /\ old(j) \in DOMAIN sorted /\ sorted'[j] = sorted[old(j)]
        /\ old(k) \in DOMAIN sorted /\ sorted'[k] = sorted[old(k)]
        /\ old(j) < old(k)
    BY <2>2, <2>3
  <2> QED BY <2>4 DEF ListInv, SortedByRetry
<1> QED BY <1>1, <1>2

\* So does delete, if it takes the same request out of both: if it takes
\* another one out of the slice, the two are twins.
LEMMA DeleteInv ==
    ASSUME ListInv, ~Mixup, NEW r \in Request, ListDelete(r)
    PROVE  ListInv'
<1> DEFINE q == list[IdOf[r]]
<1>1. CASE ~(q # Nil /\ deleteFinds(q))
  <2>1. UNCHANGED listVars
    BY <1>1 DEF ListDelete, delete, listVars
  <2> QED BY <2>1 DEF ListInv, ListTypeOK, Consistent, SortedByRetry, Listed,
                    listVars, UnixMilli
<1>2. CASE q # Nil /\ deleteFinds(q)
  <2>1. delete(r) /\ nextRetry' = nextRetry
    BY DEF ListDelete
  <2>2. /\ sorted \in Seq(Request) /\ list \in [Key -> Request \cup {Nil}]
        /\ nextRetry \in [Request -> Time]
    BY DEF ListInv, ListTypeOK
  <2>3. /\ q \in Request /\ Listed(q) /\ IdOf[q] \in Key
        /\ list' = [list EXCEPT ![IdOf[q]] = Nil]
    BY <1>2, <2>1, <2>2, DeleteShape, ListAssumption DEF Listed
  <2>4. PICK i \in DOMAIN sorted :
           /\ HashOf[sorted[i]] = HashOf[q] /\ nextRetry[sorted[i]] = nextRetry[q]
           /\ \A k \in 1..(Len(sorted) - 1) :
                 sorted'[k] = IF k < i THEN sorted[k] ELSE sorted[k + 1]
    BY <1>2, <2>1, DeleteShape
  <2>5. DOMAIN sorted = 1..Len(sorted) /\ Len(sorted) \in Nat
    BY <2>2
  <2>6. /\ sorted' \in Seq(Request)
        /\ Len(sorted') = Len(sorted) - 1
        /\ \A k \in 1..(Len(sorted) - 1) :
              sorted'[k] = IF k < i THEN sorted[k] ELSE sorted[k + 1]
    BY <1>2, <2>1, <2>4, DeleteShape
  <2> HIDE DEF q
  <2>7. DOMAIN sorted' = 1..(Len(sorted) - 1)
    BY <2>5, <2>6
  <2> DEFINE old(k) == IF k < i THEN k ELSE k + 1
  <2>8. \A k \in DOMAIN sorted' :
           /\ old(k) \in DOMAIN sorted /\ old(k) # i
           /\ sorted'[k] = sorted[old(k)]
    BY <2>4, <2>5, <2>6, <2>7
  <2>9. \A k \in DOMAIN sorted : /\ sorted[k] \in Request /\ IdOf[sorted[k]] \in Key
                                 /\ list[IdOf[sorted[k]]] = sorted[k]
    BY <2>2, ListAssumption DEF ListInv, Consistent, Listed
  <2>14. sorted[i] = q
    <3>1. \A j, k \in DOMAIN sorted : sorted[j] = sorted[k] => j = k
      BY DEF ListInv, Consistent, IsInjective
    <3>2. sorted[i] \in ToSet(sorted) /\ sorted[i] \notin ToSet(sorted')
      <4> HIDE DEF old
      <4> QED BY <2>4, <2>8, <3>1 DEF ToSet
    <3>3. list'[IdOf[q]] = Nil /\ sorted[i] \in Request
      BY <2>2, <2>3, <2>9
    <3> QED BY <2>3, <2>4, <3>2, <3>3 DEF Mixup
  <2>10. \A k \in DOMAIN sorted : k # i => IdOf[sorted[k]] # IdOf[q]
    BY <2>3, <2>9, <2>14 DEF ListInv, Consistent, Listed, IsInjective
  <2>11. ListTypeOK'
    BY <2>1, <2>2, <2>3, <2>6 DEF ListTypeOK
  <2>12. Consistent'
    <3>1. ASSUME NEW n \in Key, list'[n] # Nil
          PROVE  IdOf[list'[n]] = n /\ list'[n] \in ToSet(sorted')
      <4>1. list'[n] = list[n] /\ n # IdOf[q]
        BY <2>2, <2>3, <3>1
      <4>2. IdOf[list[n]] = n /\ list[n] \in ToSet(sorted)
        BY <3>1, <4>1 DEF ListInv, Consistent
      <4>3. PICK k \in DOMAIN sorted : sorted[k] = list[n]
        BY <4>2 DEF ToSet
      <4>4. k # i
        BY <2>14, <4>1, <4>2, <4>3
      <4>5. \E m \in DOMAIN sorted' : sorted'[m] = sorted[k]
        <5>1. CASE k < i
          BY <2>4, <2>5, <2>6, <2>7, <5>1
        <5>2. CASE ~(k < i)
          <6>1. k - 1 \in DOMAIN sorted' /\ ~(k - 1 < i) /\ (k - 1) + 1 = k
            BY <2>4, <2>5, <2>7, <4>4, <5>2
          <6> QED BY <2>6, <2>7, <6>1
        <5> QED BY <5>1, <5>2
      <4> QED BY <4>1, <4>2, <4>3, <4>5 DEF ToSet
    <3>2. ASSUME NEW k \in DOMAIN sorted'
          PROVE  list'[IdOf[sorted'[k]]] = sorted'[k]
      <4>1. PICK m \in DOMAIN sorted : m # i /\ sorted'[k] = sorted[m]
        BY <2>8
      <4> QED BY <2>2, <2>3, <2>9, <2>10, <4>1
    <3>3. ASSUME NEW j \in DOMAIN sorted', NEW k \in DOMAIN sorted', sorted'[j] = sorted'[k]
          PROVE  j = k
      <4>1. old(j) = old(k)
        BY <2>8, <3>3 DEF ListInv, Consistent, IsInjective
      <4> QED BY <2>4, <2>5, <2>7, <4>1
    <3> QED BY <3>1, <3>2, <3>3 DEF Consistent, Listed, IsInjective
  <2>13. SortedByRetry'
    BY DeleteSorted
  <2> QED BY <2>11, <2>12, <2>13 DEF ListInv
<1> QED BY <1>1, <1>2

\* Every step of a client that is no Mixup keeps the list consistent and sorted.
LEMMA StepInv ==
    ASSUME ListInv, [ListNext]_listVars, [~Mixup]_listVars
    PROVE  ListInv'
<1>1. CASE UNCHANGED listVars
  BY <1>1 DEF ListInv, ListTypeOK, Consistent, SortedByRetry, Listed, listVars, UnixMilli
<1>2. ASSUME NEW r \in Request, NEW t \in Time, SetNextRetry(r, t) PROVE ListInv'
  BY <1>2, SetNextRetryInv
<1>3. ASSUME NEW r \in Request, ListAdd(r) PROVE ListInv'
  BY <1>3, AddInv
<1>4. ASSUME NEW r \in Request, ListDelete(r), ~Mixup PROVE ListInv'
  BY <1>4, DeleteInv
<1> QED BY <1>1, <1>2, <1>3, <1>4 DEF ListNext

\* Every step keeps the slice sorted.
LEMMA StepSorted ==
    ASSUME ListInv, [ListNext]_listVars
    PROVE  SortedByRetry'
<1>1. CASE UNCHANGED listVars
  BY <1>1 DEF ListInv, SortedByRetry, listVars, UnixMilli
<1>2. ASSUME NEW r \in Request, NEW t \in Time, SetNextRetry(r, t) PROVE SortedByRetry'
  BY <1>2, SetNextRetryInv DEF ListInv
<1>3. ASSUME NEW r \in Request, ListAdd(r) PROVE SortedByRetry'
  BY <1>3, AddInv DEF ListInv
<1>4. ASSUME NEW r \in Request, ListDelete(r) PROVE SortedByRetry'
  BY <1>4, DeleteSorted
<1> QED BY <1>1, <1>2, <1>3, <1>4 DEF ListNext

\* Every step keeps the list well typed, also after a Mixup.
LEMMA StepTypes ==
    ASSUME ListTypeOK, [ListNext]_listVars
    PROVE  ListTypeOK'
<1>0. /\ list \in [Key -> Request \cup {Nil}] /\ sorted \in Seq(Request)
      /\ nextRetry \in [Request -> Time]
  BY DEF ListTypeOK
<1>1. CASE UNCHANGED listVars
  BY <1>1 DEF ListTypeOK, listVars
<1>2. ASSUME NEW r \in Request, NEW t \in Time, SetNextRetry(r, t) PROVE ListTypeOK'
  BY <1>2 DEF ListTypeOK, SetNextRetry
<1>3. ASSUME NEW r \in Request, ListAdd(r), list[IdOf[r]] = Nil PROVE ListTypeOK'
  <2> DEFINE i == addSortIndex(list', r)
  <2>1. /\ list' = [list EXCEPT ![IdOf[r]] = r] /\ nextRetry' = nextRetry
        /\ sorted' = InsertAt(sorted, i, r)
    BY <1>3 DEF ListAdd, add
  <2>2. i \in 1..(Len(sorted) + 1)
    <3> DEFINE S == {k \in DOMAIN sorted : isGreaterThan(list'[IdOf[sorted[k]]], r)}
    <3>1. i = search(S) /\ S \subseteq DOMAIN sorted
      BY DEF addSortIndex
    <3> HIDE DEF S, i
    <3> QED BY <1>0, <3>1, SearchProperty
  <2> HIDE DEF i
  <2>3. sorted' \in Seq(Request)
    BY <1>0, <2>1, <2>2, InsertAtProperty
  <2>4. list' \in [Key -> Request \cup {Nil}]
    BY <1>0, <2>1
  <2> QED BY <1>0, <2>1, <2>3, <2>4 DEF ListTypeOK
<1>4. ASSUME NEW r \in Request, ListDelete(r), UNCHANGED <<list, sorted>> PROVE ListTypeOK'
  BY <1>4 DEF ListTypeOK, ListDelete
<1>5. ASSUME NEW r \in Request, ListDelete(r),
             list[IdOf[r]] # Nil, deleteFinds(list[IdOf[r]])
      PROVE  ListTypeOK'
  <2> DEFINE q == list[IdOf[r]]
             i == deleteIndex(q)
  <2>1. /\ list' = [list EXCEPT ![IdOf[q]] = Nil] /\ nextRetry' = nextRetry
        /\ sorted' = RemoveAt(sorted, i)
    BY <1>5 DEF ListDelete, delete, removeKey, removeSorted
  <2>2. q \in Request
    BY <1>0, <1>5, ListAssumption
  <2>3. i \in 1..Len(sorted)
    BY <1>0, <1>5, <2>2, DeleteIndex
  <2> HIDE DEF i, q
  <2>4. sorted' \in Seq(Request)
    BY <1>0, <2>1, <2>3, RemoveAtProperty
  <2>5. list' \in [Key -> Request \cup {Nil}]
    BY <1>0, <2>1
  <2> QED BY <1>0, <2>1, <2>4, <2>5 DEF ListTypeOK
<1>6. ASSUME NEW r \in Request, ListAdd(r), list[IdOf[r]] # Nil PROVE ListTypeOK'
  BY <1>6 DEF ListTypeOK, ListAdd, add
<1>7. ASSUME NEW r \in Request, ListDelete(r) PROVE ListTypeOK'
  BY <1>4, <1>5, <1>7 DEF ListDelete, delete
<1> QED BY <1>1, <1>2, <1>3, <1>6, <1>7 DEF ListNext

----------------------------------------------------------------------------
(* A request that was the head of the list stays the first of its          *)
(* millisecond, whatever is added or deleted.                              *)

FirstOfMilli(q) ==
    \A j, k \in DOMAIN sorted :
        sorted[k] = q /\ j < k =>
            UnixMilli(nextRetry[sorted[j]]) < UnixMilli(nextRetry[q])

\* An added request goes behind the others of its millisecond.
LEMMA AddKeepsFirst ==
    ASSUME ListInv, NEW r \in Request, ListAdd(r), NEW q \in Request, q # r, FirstOfMilli(q)
    PROVE  FirstOfMilli(q)'
<1>1. CASE list[IdOf[r]] # Nil
  <2>1. UNCHANGED listVars
    BY <1>1 DEF ListAdd, add, listVars
  <2> QED BY <2>1 DEF FirstOfMilli, listVars, UnixMilli
<1>2. CASE list[IdOf[r]] = Nil
  <2>1. sorted \in Seq(Request) /\ nextRetry \in [Request -> Time]
    BY DEF ListInv, ListTypeOK
  <2>2. PICK i \in 1..(Len(sorted) + 1) :
           /\ \A k \in 1..(Len(sorted) + 1) :
                 sorted'[k] = IF k < i THEN sorted[k] ELSE IF k = i THEN r ELSE sorted[k - 1]
           /\ \A k \in DOMAIN sorted :
                 k < i <=> UnixMilli(nextRetry[sorted[k]]) <= UnixMilli(nextRetry[r])
    BY <1>2, AddShape DEF ListAdd
  <2>3. /\ DOMAIN sorted = 1..Len(sorted) /\ Len(sorted) \in Nat
        /\ DOMAIN sorted' = 1..(Len(sorted) + 1)
    BY <1>2, <2>1, AddShape DEF ListAdd
  <2>4. \A k \in DOMAIN sorted : UnixMilli(nextRetry[sorted[k]]) \in Int
    BY <2>1, MilliType
  <2>5. UnixMilli(nextRetry[r]) \in Int /\ UnixMilli(nextRetry[q]) \in Int
    BY <2>1, MilliType
  <2> DEFINE old(k) == IF k < i THEN k ELSE k - 1
  <2> SUFFICES ASSUME NEW j \in DOMAIN sorted', NEW k \in DOMAIN sorted',
                      sorted'[k] = q, j < k
               PROVE  UnixMilli(nextRetry[sorted'[j]]) < UnixMilli(nextRetry[q])
    BY DEF FirstOfMilli, ListAdd, UnixMilli
  <2>6. k # i /\ old(k) \in DOMAIN sorted /\ sorted[old(k)] = q
    BY <2>2, <2>3
  <2>7. CASE j = i
    <3>1. ~(old(k) < i) /\ sorted'[j] = r
      BY <2>2, <2>3, <2>6, <2>7
    <3> QED BY <2>2, <2>5, <2>6, <3>1
  <2>8. CASE j # i
    <3>1. old(j) \in DOMAIN sorted /\ sorted'[j] = sorted[old(j)] /\ old(j) < old(k)
      BY <2>2, <2>3, <2>6, <2>8
    <3> QED BY <2>6, <3>1 DEF FirstOfMilli
  <2> QED BY <2>7, <2>8
<1> QED BY <1>1, <1>2

\* A deletion moves requests forward only.
LEMMA DeleteKeepsFirst ==
    ASSUME ListInv, NEW r \in Request, ListDelete(r),
           NEW q \in Request, FirstOfMilli(q)
    PROVE  FirstOfMilli(q)'
<1>1. CASE ~(list[IdOf[r]] # Nil /\ deleteFinds(list[IdOf[r]]))
  <2>1. UNCHANGED listVars
    BY <1>1 DEF ListDelete, delete, listVars
  <2> QED BY <2>1 DEF FirstOfMilli, listVars, UnixMilli
<1>2. CASE list[IdOf[r]] # Nil /\ deleteFinds(list[IdOf[r]])
  <2>1. sorted \in Seq(Request) /\ Len(sorted') = Len(sorted) - 1 /\ sorted' \in Seq(Request)
    BY <1>2, DeleteShape DEF ListInv, ListTypeOK, ListDelete
  <2>2. PICK i \in DOMAIN sorted :
           \A k \in 1..(Len(sorted) - 1) :
               sorted'[k] = IF k < i THEN sorted[k] ELSE sorted[k + 1]
    BY <1>2, DeleteShape DEF ListDelete
  <2>3. /\ DOMAIN sorted = 1..Len(sorted) /\ Len(sorted) \in Nat
        /\ DOMAIN sorted' = 1..(Len(sorted) - 1)
    BY <2>1
  <2> DEFINE old(k) == IF k < i THEN k ELSE k + 1
  <2> SUFFICES ASSUME NEW j \in DOMAIN sorted', NEW k \in DOMAIN sorted',
                      sorted'[k] = q, j < k
               PROVE  UnixMilli(nextRetry[sorted'[j]]) < UnixMilli(nextRetry[q])
    BY DEF FirstOfMilli, ListDelete, UnixMilli
  <2>4. /\ old(j) \in DOMAIN sorted /\ sorted'[j] = sorted[old(j)]
        /\ old(k) \in DOMAIN sorted /\ sorted'[k] = sorted[old(k)]
        /\ old(j) < old(k)
    BY <2>2, <2>3
  <2> QED BY <2>4 DEF FirstOfMilli
<1> QED BY <1>1, <1>2

----------------------------------------------------------------------------
(* The theorems.                                                           *)

\* Whatever its clients do within ListSpec, the list is well typed: the slice
\* that add and delete edit in place holds requests only, never a nil one.
THEOREM ListTypes == ListSpec => []ListTypeOK
<1>1. ListInit => ListTypeOK
  BY InitInv DEF ListInv
<1>2. ListTypeOK /\ [ListNext]_listVars => ListTypeOK'
  BY StepTypes
<1> QED BY <1>1, <1>2, PTL DEF ListSpec

\* In every behaviour of its clients without a Mixup, the map and the slice of
\* the list hold the same requests and the slice is sorted by the millisecond
\* of nextRetry (add, delete and addSort of request_list.go).
THEOREM ListCorrect ==
    ListSpec /\ [][~Mixup]_listVars => [](ListTypeOK /\ Consistent /\ SortedByRetry)
<1>1. ListInit => ListInv
  BY InitInv
<1>2. ListInv /\ [ListNext]_listVars /\ [~Mixup]_listVars => ListInv'
  BY StepInv
<1> QED BY <1>1, <1>2, PTL DEF ListSpec, ListInv

\* Nothing but a Mixup parts the map from the slice: no sequence of calls and
\* of writes of nextRetry does, with any ids, hashes and times (delete of
\* request_list.go).
THEOREM ConsistentKeptHolds == ListSpec => ConsistentKept
<1>1. ListTypeOK /\ [ListNext]_listVars => [ListOK => Consistent' \/ Mixup]_listVars
  BY StepInv DEF ListInv, ListOK
<1> QED BY <1>1, ListTypes, PTL DEF ListSpec, ConsistentKept

\* No step, not even a Mixup, leaves the slice of an intact list out of order
\* (the bisections of request_list.go:47 and :117 rely on the order).
THEOREM SortedKeptHolds == ListSpec => SortedKept
<1>1. ListTypeOK /\ [ListNext]_listVars => [ListOK => SortedByRetry']_listVars
  BY StepSorted DEF ListInv, ListOK
<1> QED BY <1>1, ListTypes, PTL DEF ListSpec, SortedKept

\* Where no transaction is stored twice there is no Mixup.
LEMMA NoTwinsNoMixup ==
    ASSUME ListInv, \A r, s \in Request : HashOf[r] = HashOf[s] => IdOf[r] = IdOf[s]
    PROVE  ~Mixup
<1> SUFFICES ASSUME NEW q \in Request, NEW t \in Request, q # t,
                    HashOf[q] = HashOf[t], Listed(q), t \in ToSet(sorted)
             PROVE  FALSE
  BY DEF Mixup
<1>1. Listed(t)
  BY DEF ListInv, Consistent, ToSet
<1> QED BY <1>1 DEF Listed

----------------------------------------------------------------------------
(* What a step does to the order of the slice.                             *)

\* The slice after an insertion, seen from the positions after it: r is at
\* place i, behind its own and the earlier milliseconds, and every other
\* position holds what it held, moved by at most one.
LEMMA AddPlaces ==
    ASSUME ListInv, NEW r \in Request, ListAdd(r), list[IdOf[r]] = Nil
    PROVE  \E i \in DOMAIN sorted' :
             LET old(k) == IF k < i THEN k ELSE k - 1 IN
             /\ sorted'[i] = r /\ r \notin ToSet(sorted) /\ DOMAIN sorted' \subseteq Nat
             /\ \A k \in DOMAIN sorted' \ {i} :
                   old(k) \in DOMAIN sorted /\ sorted'[k] = sorted[old(k)]
             /\ \A k \in DOMAIN sorted' \ {i} :
                   k < i <=> UnixMilli(nextRetry[sorted'[k]]) <= UnixMilli(nextRetry[r])
<1>1. sorted \in Seq(Request) /\ r # Nil
  BY ListAssumption DEF ListInv, ListTypeOK
<1>2. /\ DOMAIN sorted = 1..Len(sorted) /\ Len(sorted) \in Nat
      /\ DOMAIN sorted' = 1..(Len(sorted) + 1)
  BY <1>1, AddShape DEF ListAdd
<1>3. PICK i \in 1..(Len(sorted) + 1) :
         /\ \A k \in 1..(Len(sorted) + 1) :
               sorted'[k] = IF k < i THEN sorted[k] ELSE IF k = i THEN r ELSE sorted[k - 1]
         /\ \A k \in DOMAIN sorted :
               k < i <=> UnixMilli(nextRetry[sorted[k]]) <= UnixMilli(nextRetry[r])
  BY AddShape DEF ListAdd
<1> DEFINE old(k) == IF k < i THEN k ELSE k - 1
<1>4. \A k \in DOMAIN sorted' \ {i} :
         /\ old(k) \in DOMAIN sorted /\ sorted'[k] = sorted[old(k)]
         /\ k < i <=> old(k) < i
  BY <1>2, <1>3
<1>5. \A k \in DOMAIN sorted' \ {i} :
         k < i <=> UnixMilli(nextRetry[sorted'[k]]) <= UnixMilli(nextRetry[r])
  <2> HIDE DEF old
  <2> QED BY <1>3, <1>4
<1>6. r \notin ToSet(sorted)
  BY <1>1 DEF ListInv, Consistent, Listed, ToSet
<1>7. sorted'[i] = r /\ DOMAIN sorted' \subseteq Nat /\ i \in DOMAIN sorted'
  BY <1>2, <1>3
<1> QED BY <1>4, <1>5, <1>6, <1>7

\* The slice after a removal: every position holds what one of the same or of
\* the next place held.
LEMMA DeletePlaces ==
    ASSUME ListInv, NEW r \in Request, ListDelete(r), sorted' # sorted
    PROVE  \E i \in DOMAIN sorted :
             LET old(k) == IF k < i THEN k ELSE k + 1 IN
             /\ i \in Nat /\ DOMAIN sorted' \subseteq Nat
             /\ \A k \in DOMAIN sorted' :
                   old(k) \in DOMAIN sorted /\ sorted'[k] = sorted[old(k)]
<1>1. list[IdOf[r]] # Nil /\ deleteFinds(list[IdOf[r]])
  BY DEF ListDelete, delete
<1>2. /\ sorted \in Seq(Request) /\ Len(sorted') = Len(sorted) - 1
      /\ sorted' \in Seq(Request)
  BY <1>1, DeleteShape DEF ListInv, ListTypeOK, ListDelete
<1>3. PICK i \in DOMAIN sorted :
         \A k \in 1..(Len(sorted) - 1) :
             sorted'[k] = IF k < i THEN sorted[k] ELSE sorted[k + 1]
  BY <1>1, DeleteShape DEF ListDelete
<1>4. /\ DOMAIN sorted = 1..Len(sorted) /\ Len(sorted) \in Nat
      /\ DOMAIN sorted' = 1..(Len(sorted) - 1)
  BY <1>2
<1> QED BY <1>3, <1>4

\* A step adds to the slice, deletes from it or leaves it alone.
LEMMA SliceStep ==
    ASSUME [ListNext]_listVars
    PROVE  \/ sorted' = sorted
           \/ \E r \in Request : ListAdd(r) /\ list[IdOf[r]] = Nil
           \/ \E r \in Request : ListDelete(r) /\ sorted' # sorted
BY DEF ListNext, SetNextRetry, ListAdd, ListDelete, add, listVars

\* A request is added behind those of its own or an earlier millisecond and
\* ahead of the others (addSort of request_list.go).
THEOREM AddGoesLastHolds == ListSpec => AddGoesLast
<1> DEFINE P(k) == sorted'[k] \notin ToSet(sorted) =>
                       \A j \in DOMAIN sorted' \ {k} :
                           j < k <=> UnixMilli(nextRetry[sorted'[j]])
                                       <= UnixMilli(nextRetry[sorted'[k]])
<1>1. ASSUME ListInv, [ListNext]_listVars PROVE \A k \in DOMAIN sorted' : P(k)
  <2>1. CASE sorted' = sorted
    BY <2>1 DEF ToSet
  <2>2. ASSUME NEW r \in Request, ListAdd(r), list[IdOf[r]] = Nil
        PROVE  \A k \in DOMAIN sorted' : P(k)
    <3>1. PICK i \in DOMAIN sorted' :
             /\ sorted'[i] = r
             /\ \A k \in DOMAIN sorted' \ {i} : sorted'[k] \in ToSet(sorted)
             /\ \A k \in DOMAIN sorted' \ {i} :
                   k < i <=> UnixMilli(nextRetry[sorted'[k]]) <= UnixMilli(nextRetry[r])
      BY <1>1, <2>2, AddPlaces DEF ToSet
    <3> QED BY <3>1
  <2>3. ASSUME NEW r \in Request, ListDelete(r), sorted' # sorted
        PROVE  \A k \in DOMAIN sorted' : P(k)
    BY <1>1, <2>3, DeletePlaces DEF ToSet
  <2> QED BY <1>1, <2>1, <2>2, <2>3, SliceStep
<1>2. ListTypeOK /\ [ListNext]_listVars
        => [ListOK => \A k \in DOMAIN sorted' : P(k)]_listVars
  BY <1>1 DEF ListInv, ListOK
<1> QED BY <1>2, ListTypes, PTL DEF ListSpec, AddGoesLast

\* Adding or deleting a request does not reorder the others (add and delete of
\* request_list.go): equal times stay in the order in which they were added.
THEOREM OrderKeptHolds == ListSpec => OrderKept
<1> DEFINE Kept == \A j, k \in DOMAIN sorted, m, n \in DOMAIN sorted' :
                      (/\ sorted[j] = sorted'[m]
                       /\ sorted[k] = sorted'[n]
                       /\ j < k) => m < n
<1>1. ASSUME ListInv, [ListNext]_listVars PROVE Kept
  <2>0. \A j, k \in DOMAIN sorted : sorted[j] = sorted[k] => j = k
    BY <1>1 DEF ListInv, Consistent, IsInjective
  <2> SUFFICES ASSUME NEW j \in DOMAIN sorted, NEW k \in DOMAIN sorted,
                      NEW m \in DOMAIN sorted', NEW n \in DOMAIN sorted',
                      sorted[j] = sorted'[m], sorted[k] = sorted'[n], j < k
               PROVE  m < n
    OBVIOUS
  <2>1. CASE sorted' = sorted
    BY <2>0, <2>1
  <2>2. ASSUME NEW r \in Request, ListAdd(r), list[IdOf[r]] = Nil PROVE m < n
    <3> DEFINE old(i, l) == IF l < i THEN l ELSE l - 1
    <3>1. PICK i \in DOMAIN sorted' :
             /\ sorted'[i] = r /\ r \notin ToSet(sorted) /\ DOMAIN sorted' \subseteq Nat
             /\ \A l \in DOMAIN sorted' \ {i} :
                   old(i, l) \in DOMAIN sorted /\ sorted'[l] = sorted[old(i, l)]
      BY <1>1, <2>2, AddPlaces
    <3>2. m # i /\ n # i
      BY <3>1 DEF ToSet
    <3>3. j = old(i, m) /\ k = old(i, n)
      <4> HIDE DEF old
      <4> QED BY <2>0, <3>1, <3>2
    <3>4. m \in Nat /\ n \in Nat /\ i \in Nat
      BY <3>1
    <3> QED BY <3>2, <3>3, <3>4
  <2>3. ASSUME NEW r \in Request, ListDelete(r), sorted' # sorted PROVE m < n
    <3> DEFINE old(i, l) == IF l < i THEN l ELSE l + 1
    <3>1. PICK i \in DOMAIN sorted :
             /\ i \in Nat /\ DOMAIN sorted' \subseteq Nat
             /\ \A l \in DOMAIN sorted' :
                   old(i, l) \in DOMAIN sorted /\ sorted'[l] = sorted[old(i, l)]
      BY <1>1, <2>3, DeletePlaces
    <3>2. j = old(i, m) /\ k = old(i, n)
      <4> HIDE DEF old
      <4> QED BY <2>0, <3>1
    <3>3. m \in Nat /\ n \in Nat /\ i \in Nat
      BY <3>1
    <3> QED BY <3>2, <3>3
  <2> QED BY <1>1, <2>1, <2>2, <2>3, SliceStep
<1>2. ListTypeOK /\ [ListNext]_listVars => [ListOK => Kept]_listVars
  BY <1>1 DEF ListInv, ListOK
<1> QED BY <1>2, ListTypes, PTL DEF ListSpec, OrderKept
============================================================================
