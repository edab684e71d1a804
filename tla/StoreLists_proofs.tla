-------------------------- MODULE StoreLists_proofs --------------------------
(***************************************************************************)
(* What the list operators of StoreLists return, for every list.           *)
(***************************************************************************)
EXTENDS StoreLists, FunctionTheorems, FiniteSetTheorems, SequenceTheorems, TLAPS

(***************************************************************************)
(* Elements and duplicates of the library's list operations.               *)
(***************************************************************************)

\* The elements of a list over S are elements of S.
LEMMA ItemsType ==
  ASSUME NEW S, NEW q \in Seq(S)
  PROVE  /\ Items(q) \subseteq S
         /\ DOMAIN q = 1..Len(q)
         /\ Len(q) \in Nat
         /\ \A i \in 1..Len(q) : q[i] \in S /\ q[i] \in Items(q)
         /\ q = <<>> <=> Items(q) = {}
<1>1. DOMAIN q = 1..Len(q) /\ Len(q) \in Nat
  BY LenProperties
<1>2. \A i \in 1..Len(q) : q[i] \in S
  BY ElementOfSeq
<1>3. q = <<>> => Items(q) = {}
  BY <1>1, EmptySeq DEF Items
<1>4. q # <<>> => 1 \in DOMAIN q
  BY <1>1, EmptySeq
<1> QED BY <1>1, <1>2, <1>3, <1>4 DEF Items

\* queue.push(s).
LEMMA AppendItems ==
  ASSUME NEW S, NEW q \in Seq(S), NEW s \in S
  PROVE  /\ Append(q, s) \in Seq(S)
         /\ Items(Append(q, s)) = Items(q) \cup {s}
         /\ Distinct(q) /\ s \notin Items(q) => Distinct(Append(q, s))
<1>1. /\ Append(q, s) \in Seq(S)
      /\ Len(Append(q, s)) = Len(q) + 1
      /\ \A i \in 1..Len(q) : Append(q, s)[i] = q[i]
      /\ Append(q, s)[Len(q) + 1] = s
  BY AppendProperties
<1>2. Len(q) \in Nat /\ DOMAIN q = 1..Len(q) /\ DOMAIN Append(q, s) = 1..(Len(q) + 1)
  BY <1>1, LenProperties
<1>3. Items(Append(q, s)) = Items(q) \cup {s}
  BY <1>1, <1>2 DEF Items
<1>4. ASSUME Distinct(q), s \notin Items(q) PROVE Distinct(Append(q, s))
  BY <1>1, <1>2, <1>4 DEF Items, Distinct
<1> QED BY <1>1, <1>3, <1>4

\* [...p, ...q].
LEMMA ConcatItems ==
  ASSUME NEW S, NEW p \in Seq(S), NEW q \in Seq(S)
  PROVE  /\ p \o q \in Seq(S)
         /\ Items(p \o q) = Items(p) \cup Items(q)
         /\ Distinct(p) /\ Distinct(q) /\ Items(p) \cap Items(q) = {} => Distinct(p \o q)
<1>1. /\ p \o q \in Seq(S)
      /\ Len(p \o q) = Len(p) + Len(q)
      /\ \A i \in 1..(Len(p) + Len(q)) :
            (p \o q)[i] = IF i <= Len(p) THEN p[i] ELSE q[i - Len(p)]
  BY ConcatProperties
<1>2. /\ Len(p) \in Nat /\ DOMAIN p = 1..Len(p)
      /\ Len(q) \in Nat /\ DOMAIN q = 1..Len(q)
      /\ DOMAIN (p \o q) = 1..(Len(p) + Len(q))
  BY <1>1, LenProperties
<1>3. Items(p \o q) \subseteq Items(p) \cup Items(q)
  BY <1>1, <1>2 DEF Items
<1>4. Items(p) \subseteq Items(p \o q)
  BY <1>1, <1>2 DEF Items
<1>5. Items(q) \subseteq Items(p \o q)
  <2>1. SUFFICES ASSUME NEW i \in 1..Len(q) PROVE q[i] \in Items(p \o q)
    BY <1>2 DEF Items
  <2>2. /\ Len(p) + i \in 1..(Len(p) + Len(q))
        /\ ~(Len(p) + i <= Len(p))
        /\ (Len(p) + i) - Len(p) = i
    BY <1>2, <2>1
  <2>3. (p \o q)[Len(p) + i] = q[i]
    BY <1>1, <2>2
  <2> QED BY <1>2, <2>2, <2>3 DEF Items
<1>6. ASSUME Distinct(p), Distinct(q), Items(p) \cap Items(q) = {}
      PROVE  Distinct(p \o q)
  <2>1. SUFFICES ASSUME NEW i \in 1..(Len(p) + Len(q)), NEW j \in 1..(Len(p) + Len(q)),
                        (p \o q)[i] = (p \o q)[j]
                 PROVE  i = j
    BY <1>2 DEF Distinct
  <2>2. CASE i <= Len(p) /\ j <= Len(p)
    BY <1>1, <1>2, <1>6, <2>1, <2>2 DEF Distinct
  <2>3. CASE ~(i <= Len(p)) /\ ~(j <= Len(p))
    <3>1. i - Len(p) \in DOMAIN q /\ j - Len(p) \in DOMAIN q
      BY <1>2, <2>3
    <3>2. q[i - Len(p)] = q[j - Len(p)]
      BY <1>1, <2>1, <2>3
    <3>3. i - Len(p) = j - Len(p)
      BY <1>6, <3>1, <3>2 DEF Distinct
    <3> QED BY <1>2, <3>3
  <2>4. ASSUME NEW a \in 1..(Len(p) + Len(q)), NEW b \in 1..(Len(p) + Len(q)),
               a <= Len(p), ~(b <= Len(p))
        PROVE  (p \o q)[a] # (p \o q)[b]
    <3>1. a \in DOMAIN p /\ b - Len(p) \in DOMAIN q
      BY <1>2, <2>4
    <3>2. (p \o q)[a] = p[a] /\ (p \o q)[b] = q[b - Len(p)]
      BY <1>1, <2>4
    <3>3. p[a] \in Items(p) /\ q[b - Len(p)] \in Items(q)
      BY <3>1 DEF Items
    <3> QED BY <1>6, <3>2, <3>3
  <2> QED BY <2>1, <2>2, <2>3, <2>4
<1> QED BY <1>1, <1>3, <1>4, <1>5, <1>6

\* queue.shift().
LEMMA TailItems ==
  ASSUME NEW S, NEW q \in Seq(S), q # <<>>
  PROVE  /\ Tail(q) \in Seq(S)
         /\ Head(q) \in S /\ Head(q) \in Items(q)
         /\ Items(q) = {Head(q)} \cup Items(Tail(q))
<1>1. /\ Head(q) \in S /\ Head(q) = q[1]
      /\ Tail(q) \in Seq(S)
      /\ Len(Tail(q)) = Len(q) - 1
      /\ \A i \in 1..Len(Tail(q)) : Tail(q)[i] = q[i + 1]
  BY HeadTailProperties
<1>2. /\ Len(q) \in Nat \ {0} /\ DOMAIN q = 1..Len(q)
      /\ DOMAIN Tail(q) = 1..(Len(q) - 1)
  BY <1>1, LenProperties, EmptySeq
<1>3. Items(q) \subseteq {Head(q)} \cup Items(Tail(q))
  <2>1. SUFFICES ASSUME NEW i \in 1..Len(q), i # 1 PROVE q[i] \in Items(Tail(q))
    BY <1>1, <1>2 DEF Items
  <2>2. i - 1 \in 1..(Len(q) - 1) /\ (i - 1) + 1 = i
    BY <1>2, <2>1
  <2>3. Tail(q)[i - 1] = q[i]
    BY <1>1, <2>2
  <2> QED BY <1>2, <2>2, <2>3 DEF Items
<1>4. {Head(q)} \cup Items(Tail(q)) \subseteq Items(q)
  BY <1>1, <1>2 DEF Items
<1> QED BY <1>1, <1>3, <1>4

\* queue.splice(i, 1) on a list without duplicates.
LEMMA SpliceItems ==
  ASSUME NEW S, NEW q \in Seq(S), NEW i \in DOMAIN q, Distinct(q)
  PROVE  LET r == SubSeq(q, 1, i - 1) \o SubSeq(q, i + 1, Len(q))
         IN  r \in Seq(S) /\ Distinct(r) /\ Items(r) = Items(q) \ {q[i]}
<1> DEFINE a == SubSeq(q, 1, i - 1)
           b == SubSeq(q, i + 1, Len(q))
<1>1. Len(q) \in Nat /\ DOMAIN q = 1..Len(q) /\ i \in 1..Len(q)
  BY LenProperties
<1>2. \A k \in 1..Len(q) : q[k] \in S
  BY ElementOfSeq
<1>3. /\ a \in Seq(S) /\ Len(a) = i - 1
      /\ \A k \in 1..(i - 1) : a[k] = q[k]
  <2>1. \A k \in 1..(i - 1) : q[k] \in S
    BY <1>1, <1>2
  <2> QED BY <1>1, <2>1, SubSeqProperties
<1>4. /\ b \in Seq(S) /\ Len(b) = Len(q) - i
      /\ \A k \in 1..(Len(q) - i) : b[k] = q[i + k]
  <2>1. \A k \in (i + 1)..Len(q) : q[k] \in S
    BY <1>1, <1>2
  <2>2. /\ b \in Seq(S)
        /\ Len(b) = IF i + 1 <= Len(q) THEN Len(q) - (i + 1) + 1 ELSE 0
        /\ \A k \in 1..(Len(q) - (i + 1) + 1) : b[k] = q[(i + 1) + k - 1]
    BY <1>1, <2>1, SubSeqProperties
  <2> QED BY <1>1, <2>2
<1>5. DOMAIN a = 1..(i - 1) /\ DOMAIN b = 1..(Len(q) - i)
  BY <1>3, <1>4, LenProperties
<1> HIDE DEF a, b
<1>6. Items(a) = {q[k] : k \in 1..(i - 1)}
  BY <1>3, <1>5 DEF Items
<1>7. Items(b) = {q[k] : k \in (i + 1)..Len(q)}
  <2>1. Items(b) \subseteq {q[k] : k \in (i + 1)..Len(q)}
    BY <1>1, <1>4, <1>5 DEF Items
  <2>2. ASSUME NEW k \in (i + 1)..Len(q) PROVE q[k] \in Items(b)
    <3>1. k - i \in 1..(Len(q) - i) /\ i + (k - i) = k
      BY <1>1
    <3>2. b[k - i] = q[k]
      BY <1>4, <3>1
    <3> QED BY <1>5, <3>1, <3>2 DEF Items
  <2> QED BY <2>1, <2>2
<1>8. Items(a) \cap Items(b) = {}
  BY <1>1, <1>6, <1>7 DEF Distinct
<1>9. Distinct(a)
  BY <1>1, <1>3, <1>5 DEF Distinct
<1>10. Distinct(b)
  <2>1. SUFFICES ASSUME NEW k \in 1..(Len(q) - i), NEW l \in 1..(Len(q) - i), b[k] = b[l]
                 PROVE  k = l
    BY <1>5 DEF Distinct
  <2>2. i + k \in DOMAIN q /\ i + l \in DOMAIN q /\ q[i + k] = q[i + l]
    BY <1>1, <1>4, <2>1
  <2>3. i + k = i + l
    BY <2>2 DEF Distinct
  <2> QED BY <1>1, <2>3
<1>11. Items(q) \ {q[i]} = {q[k] : k \in 1..(i - 1)} \cup {q[k] : k \in (i + 1)..Len(q)}
  <2>1. ASSUME NEW k \in 1..Len(q), q[k] # q[i]
        PROVE  k \in 1..(i - 1) \/ k \in (i + 1)..Len(q)
    BY <1>1, <2>1
  <2>2. \A k \in 1..(i - 1) : k \in DOMAIN q /\ q[k] # q[i]
    BY <1>1 DEF Distinct
  <2>3. \A k \in (i + 1)..Len(q) : k \in DOMAIN q /\ q[k] # q[i]
    BY <1>1 DEF Distinct
  <2> QED BY <1>1, <2>1, <2>2, <2>3 DEF Items
<1>12. /\ a \o b \in Seq(S)
       /\ Items(a \o b) = Items(a) \cup Items(b)
       /\ Distinct(a \o b)
  BY <1>3, <1>4, <1>8, <1>9, <1>10, ConcatItems
<1>13. Items(a \o b) = Items(q) \ {q[i]}
  BY <1>6, <1>7, <1>11, <1>12
<1> QED BY <1>12, <1>13 DEF a, b

(***************************************************************************)
(* Filtering.                                                              *)
(***************************************************************************)

\* Nth counts through a finite set of positions: it is a strictly increasing
\* enumeration of the set.
LEMMA NthEnumerates ==
  ASSUME NEW n \in Nat, NEW K \in SUBSET (1..n)
  PROVE  /\ Cardinality(K) \in Nat
         /\ \A m \in 1..Cardinality(K) : Nth(K, m) \in K
         /\ \A i \in K : \E m \in 1..Cardinality(K) : Nth(K, m) = i
         /\ \A l, m \in 1..Cardinality(K) : l < m => Nth(K, l) < Nth(K, m)
<1> DEFINE c == Cardinality(K)
           below(i) == {j \in K : j <= i}
           f == [i \in K |-> Rank(K, i)]
<1>0. \A i \in K : i \in Nat
  OBVIOUS
<1>1. IsFiniteSet(K) /\ c \in Nat
  <2>1. IsFiniteSet(1..n)
    BY FS_Interval
  <2>2. IsFiniteSet(K)
    BY <2>1, FS_Subset
  <2> QED BY <2>2, FS_CardinalityType
<1>2. \A i \in K : /\ IsFiniteSet(below(i)) /\ Cardinality(below(i)) \in Nat
                   /\ Cardinality(below(i)) <= c
                   /\ Cardinality(below(i)) # 0
  <2>1. SUFFICES ASSUME NEW i \in K
                 PROVE  /\ IsFiniteSet(below(i)) /\ Cardinality(below(i)) \in Nat
                        /\ Cardinality(below(i)) <= c
                        /\ Cardinality(below(i)) # 0
    OBVIOUS
  <2>2. below(i) \in SUBSET K /\ i \in below(i)
    OBVIOUS
  <2>3. IsFiniteSet(below(i)) /\ Cardinality(below(i)) <= c
    BY <1>1, <2>2, FS_Subset
  <2> QED BY <2>2, <2>3, FS_CardinalityType, FS_EmptySet
<1>3. \A i, j \in K : i < j => Rank(K, i) < Rank(K, j)
  <2>1. SUFFICES ASSUME NEW i \in K, NEW j \in K, i < j PROVE Rank(K, i) < Rank(K, j)
    OBVIOUS
  <2>2. below(i) \in SUBSET below(j) /\ j \in below(j) /\ j \notin below(i)
    <3>1. i \in Nat /\ j \in Nat
      BY <1>0
    <3>2. \A k \in K : k <= i => k <= j
      BY <1>0, <2>1, <3>1
    <3>3. j <= j /\ ~(j <= i)
      BY <2>1, <3>1
    <3> QED BY <3>2, <3>3
  <2>3. Cardinality(below(i)) <= Cardinality(below(j)) /\ Cardinality(below(i)) # Cardinality(below(j))
    BY <1>2, <2>2, FS_Subset
  <2> QED BY <1>2, <2>3 DEF Rank
<1>4. f \in [K -> 1..c]
  BY <1>1, <1>2 DEF Rank
<1>5. \A i, j \in K : f[i] = f[j] => i = j
  BY <1>2, <1>3 DEF Rank
<1>6. f \in Injection(K, 1..c)
  BY <1>4, <1>5, Fun_IsInj
<1>7. f \in Surjection(K, 1..c)
  <2>1. IsFiniteSet(1..c) /\ Cardinality(1..c) = c
    BY <1>1, FS_Interval
  <2> QED BY <1>6, <2>1, FS_Injection
<1>8. \A m \in 1..c : \E i \in K : Rank(K, i) = m
  BY <1>7 DEF Surjection
<1>9. \A m \in 1..c : Nth(K, m) \in K /\ Rank(K, Nth(K, m)) = m
  BY <1>8 DEF Nth
<1>10. \A i \in K : Rank(K, i) \in 1..c /\ Nth(K, Rank(K, i)) = i
  <2>1. SUFFICES ASSUME NEW i \in K PROVE Rank(K, i) \in 1..c /\ Nth(K, Rank(K, i)) = i
    OBVIOUS
  <2>2. Rank(K, i) \in 1..c
    BY <1>4
  <2>3. Nth(K, Rank(K, i)) \in K /\ Rank(K, Nth(K, Rank(K, i))) = Rank(K, i)
    BY <1>9, <2>2
  <2> QED BY <1>5, <2>2, <2>3
<1>11. ASSUME NEW l \in 1..c, NEW m \in 1..c, l < m PROVE Nth(K, l) < Nth(K, m)
  <2>1. /\ Nth(K, l) \in K /\ Nth(K, m) \in K
        /\ Rank(K, Nth(K, l)) = l /\ Rank(K, Nth(K, m)) = m
    BY <1>9
  <2>2. Nth(K, l) \in Nat /\ Nth(K, m) \in Nat
    BY <1>0, <2>1
  <2>3. Nth(K, m) < Nth(K, l) => m < l
    BY <1>3, <2>1
  <2> QED BY <1>1, <1>11, <2>1, <2>2, <2>3
<1> QED BY <1>1, <1>9, <1>10, <1>11

\* Picking positions keeps the order and invents and repeats nothing.
LEMMA PickItems ==
  ASSUME NEW S, NEW q \in Seq(S), NEW K \in SUBSET DOMAIN q
  PROVE  /\ Pick(q, K) \in Seq(S)
         /\ Items(Pick(q, K)) = {q[i] : i \in K}
         /\ Distinct(q) => Distinct(Pick(q, K))
<1>1. Len(q) \in Nat /\ DOMAIN q = 1..Len(q) /\ \A i \in K : q[i] \in S
  BY LenProperties, ElementOfSeq
<1> DEFINE c == Cardinality(K)
<1>2. /\ c \in Nat
      /\ \A m \in 1..c : Nth(K, m) \in K
      /\ \A i \in K : \E m \in 1..c : Nth(K, m) = i
      /\ \A l, m \in 1..c : l < m => Nth(K, l) < Nth(K, m)
  BY <1>1, NthEnumerates
<1>3. Pick(q, K) = [m \in 1..c |-> q[Nth(K, m)]]
  BY DEF Pick
<1> HIDE DEF c
<1>4. /\ DOMAIN Pick(q, K) = 1..c
      /\ \A m \in 1..c : Pick(q, K)[m] = q[Nth(K, m)]
  BY <1>3
<1>5. Pick(q, K) \in Seq(S)
  <2>1. Pick(q, K) \in [1..c -> S]
    BY <1>1, <1>2, <1>3
  <2> QED BY <1>2, <2>1, SeqDef
<1>6. Items(Pick(q, K)) = {q[i] : i \in K}
  BY <1>2, <1>4 DEF Items
<1>7. ASSUME Distinct(q) PROVE Distinct(Pick(q, K))
  <2>1. SUFFICES ASSUME NEW l \in 1..c, NEW m \in 1..c,
                        q[Nth(K, l)] = q[Nth(K, m)]
                 PROVE  l = m
    BY <1>4 DEF Distinct
  <2>2. Nth(K, l) \in DOMAIN q /\ Nth(K, m) \in DOMAIN q
    BY <1>2
  <2>3. Nth(K, l) = Nth(K, m)
    BY <1>7, <2>1, <2>2 DEF Distinct
  <2>4. l < m => Nth(K, l) < Nth(K, m)
    BY <1>2
  <2>5. m < l => Nth(K, m) < Nth(K, l)
    BY <1>2
  <2>6. ~(Nth(K, l) < Nth(K, m)) /\ ~(Nth(K, m) < Nth(K, l))
    BY <1>1, <2>2, <2>3
  <2> QED BY <1>2, <2>4, <2>5, <2>6
<1> QED BY <1>5, <1>6, <1>7

\* q.filter((x) => !R.has(x)).
LEMMA WithoutItems ==
  ASSUME NEW S, NEW q \in Seq(S), NEW R
  PROVE  /\ Without(q, R) \in Seq(S)
         /\ Items(Without(q, R)) = Items(q) \ R
         /\ Distinct(q) => Distinct(Without(q, R))
<1> DEFINE K == {i \in DOMAIN q : q[i] \notin R}
<1>1. K \in SUBSET DOMAIN q /\ Without(q, R) = Pick(q, K)
  BY DEF Without
<1>2. {q[i] : i \in K} = Items(q) \ R
  BY DEF Items
<1> HIDE DEF K
<1> QED BY <1>1, <1>2, PickItems

\* q.filter((x) => R.has(x)).
LEMMA WithinItems ==
  ASSUME NEW S, NEW q \in Seq(S), NEW R
  PROVE  /\ Within(q, R) \in Seq(S)
         /\ Items(Within(q, R)) = Items(q) \cap R
         /\ Distinct(q) => Distinct(Within(q, R))
<1> DEFINE K == {i \in DOMAIN q : q[i] \in R}
<1>1. K \in SUBSET DOMAIN q /\ Within(q, R) = Pick(q, K)
  BY DEF Within
<1>2. {q[i] : i \in K} = Items(q) \cap R
  BY DEF Items
<1> HIDE DEF K
<1> QED BY <1>1, <1>2, PickItems

\* [...p, ...q] without later copies.
LEMMA MergeItems ==
  ASSUME NEW S, NEW p \in Seq(S), NEW q \in Seq(S)
  PROVE  /\ Merge(p, q) \in Seq(S)
         /\ Items(Merge(p, q)) = Items(p) \cup Items(q)
         /\ Distinct(p) /\ Distinct(q) => Distinct(Merge(p, q))
<1>1. /\ Without(q, Items(p)) \in Seq(S)
      /\ Items(Without(q, Items(p))) = Items(q) \ Items(p)
      /\ Distinct(q) => Distinct(Without(q, Items(p)))
  BY WithoutItems
<1> QED BY <1>1, ConcatItems DEF Merge

(***************************************************************************)
(* Filters and concatenations as lists, not only as sets of elements: what *)
(* a refinement that speaks of an order needs.                             *)
(***************************************************************************)

\* The m-th position of an interval that begins with 1 or 2.
LEMMA NthOfInterval ==
  ASSUME NEW a \in {1, 2}, NEW n \in Nat
  PROVE  /\ Cardinality(a..n) = IF a <= n THEN n - a + 1 ELSE 0
         /\ \A m \in 1..Cardinality(a..n) : Nth(a..n, m) = a + m - 1
<1>1. Cardinality(a..n) = IF a <= n THEN n - a + 1 ELSE 0
  BY FS_Interval
<1>2. ASSUME NEW i \in a..n PROVE Rank(a..n, i) = i - a + 1
  <2>1. {j \in a..n : j <= i} = a..i /\ a <= i
    OBVIOUS
  <2>2. Cardinality(a..i) = i - a + 1
    BY <2>1, FS_Interval
  <2> QED BY <2>1, <2>2 DEF Rank
<1>3. ASSUME NEW m \in 1..Cardinality(a..n)
      PROVE  Nth(a..n, m) = a + m - 1
  <2>1. a + m - 1 \in a..n
    BY <1>1, <1>3
  <2>2. Rank(a..n, a + m - 1) = m
    BY <1>2, <2>1
  <2>3. \A i \in a..n : Rank(a..n, i) = m => i = a + m - 1
    BY <1>2
  <2> QED BY <2>1, <2>2, <2>3 DEF Nth
<1> QED BY <1>1, <1>3

\* Picking every position gives the list back.
LEMMA PickAll ==
  ASSUME NEW S, NEW q \in Seq(S)
  PROVE  Pick(q, DOMAIN q) = q
<1>1. Len(q) \in Nat /\ DOMAIN q = 1..Len(q) /\ q = [i \in 1..Len(q) |-> q[i]]
  BY LenProperties
<1>2. /\ Cardinality(1..Len(q)) = Len(q)
      /\ \A m \in 1..Len(q) : Nth(1..Len(q), m) = m
  BY <1>1, NthOfInterval
<1> QED BY <1>1, <1>2 DEF Pick

\* A filter that excludes nothing of the list leaves it alone.
LEMMA WithoutNone ==
  ASSUME NEW S, NEW q \in Seq(S), NEW R, Items(q) \cap R = {}
  PROVE  Without(q, R) = q
<1>1. {i \in DOMAIN q : q[i] \notin R} = DOMAIN q
  BY DEF Items
<1> QED BY <1>1, PickAll DEF Without

\* Nor does one that admits all of it change it.
LEMMA WithinAll ==
  ASSUME NEW S, NEW q \in Seq(S), NEW R, Items(q) \subseteq R
  PROVE  Within(q, R) = q
<1>1. {i \in DOMAIN q : q[i] \in R} = DOMAIN q
  BY DEF Items
<1> QED BY <1>1, PickAll DEF Within

\* Dropping the first element of a list without duplicates is its tail.
LEMMA WithoutHead ==
  ASSUME NEW S, NEW q \in Seq(S), q # <<>>, Distinct(q)
  PROVE  Without(q, {Head(q)}) = Tail(q)
<1>1. /\ Len(q) \in Nat \ {0} /\ DOMAIN q = 1..Len(q) /\ Head(q) = q[1]
      /\ Tail(q) = [i \in 1..Len(q) - 1 |-> q[i + 1]]
  <2>1. Len(q) \in Nat \ {0} /\ DOMAIN q = 1..Len(q)
    BY LenProperties, EmptySeq
  <2>2. Head(q) = q[1]
    OBVIOUS
  <2>3. /\ Tail(q) \in Seq(S) /\ Len(Tail(q)) = Len(q) - 1
        /\ \A i \in 1..Len(q) - 1 : Tail(q)[i] = q[i + 1]
    BY <2>1, HeadTailProperties
  <2>4. Tail(q) = [i \in 1..Len(Tail(q)) |-> Tail(q)[i]]
    BY <2>3, LenProperties
  <2> QED BY <2>1, <2>2, <2>3, <2>4
<1>2. {i \in DOMAIN q : q[i] \notin {Head(q)}} = 2..Len(q)
  BY <1>1 DEF Distinct
<1>3. /\ Cardinality(2..Len(q)) = Len(q) - 1
      /\ \A m \in 1..Len(q) - 1 : Nth(2..Len(q), m) = m + 1
  BY <1>1, NthOfInterval
<1> QED BY <1>1, <1>2, <1>3 DEF Without, Pick

\* Filtering keeps the order of what it keeps.
LEMMA WithoutKeepsOrder ==
  ASSUME NEW S, NEW q \in Seq(S), NEW R
  PROVE  LET r == Without(q, R)
         IN  \A i, j \in 1..Len(r) : i < j =>
                \E k, l \in 1..Len(q) : k < l /\ r[i] = q[k] /\ r[j] = q[l]
<1> DEFINE K == {i \in DOMAIN q : q[i] \notin R}
           c == Cardinality(K)
<1>1. Len(q) \in Nat /\ DOMAIN q = 1..Len(q) /\ K \in SUBSET (1..Len(q))
  BY LenProperties
<1>2. Without(q, R) = [m \in 1..c |-> q[Nth(K, m)]]
  BY DEF Without, Pick
<1> HIDE DEF K
<1>3. /\ c \in Nat
      /\ \A m \in 1..c : Nth(K, m) \in K
      /\ \A l, m \in 1..c : l < m => Nth(K, l) < Nth(K, m)
  BY <1>1, NthEnumerates
<1> HIDE DEF c
<1>4. DOMAIN Without(q, R) = 1..c /\ Without(q, R) \in Seq(S)
  BY <1>2, WithoutItems
<1>5. Len(Without(q, R)) = c
  <2>1. /\ Len(Without(q, R)) \in Nat
        /\ DOMAIN Without(q, R) = 1..Len(Without(q, R))
    BY <1>4, LenProperties
  <2> QED BY <1>3, <1>4, <2>1
<1> SUFFICES ASSUME NEW i \in 1..c, NEW j \in 1..c, i < j
             PROVE  \E k, l \in 1..Len(q) :
                       k < l /\ Without(q, R)[i] = q[k] /\ Without(q, R)[j] = q[l]
  BY <1>5
<1>6. Nth(K, i) \in 1..Len(q) /\ Nth(K, j) \in 1..Len(q) /\ Nth(K, i) < Nth(K, j)
  BY <1>1, <1>3
<1> QED BY <1>2, <1>6

\* And its head, if that is kept.
LEMMA WithoutKeepsHead ==
  ASSUME NEW S, NEW q \in Seq(S), q # <<>>, NEW R, Head(q) \notin R
  PROVE  Without(q, R) # <<>> /\ Head(Without(q, R)) = Head(q)
<1> DEFINE K == {i \in DOMAIN q : q[i] \notin R}
           c == Cardinality(K)
<1>1. Len(q) \in Nat \ {0} /\ DOMAIN q = 1..Len(q) /\ Head(q) = q[1]
  <2>1. Len(q) \in Nat \ {0} /\ DOMAIN q = 1..Len(q)
    BY LenProperties, EmptySeq
  <2>2. Head(q) = q[1]
    OBVIOUS
  <2> QED BY <2>1, <2>2
<1>2. K \in SUBSET (1..Len(q)) /\ 1 \in K
  BY <1>1
<1>3. Without(q, R) = [m \in 1..c |-> q[Nth(K, m)]]
  BY DEF Without, Pick
<1> HIDE DEF K
<1>4. /\ c \in Nat
      /\ \A m \in 1..c : Nth(K, m) \in K
      /\ \E m \in 1..c : Nth(K, m) = 1
      /\ \A l, m \in 1..c : l < m => Nth(K, l) < Nth(K, m)
  BY <1>1, <1>2, NthEnumerates
<1> HIDE DEF c
<1>5. PICK m \in 1..c : Nth(K, m) = 1
  BY <1>4
<1>6. Nth(K, 1) = 1 /\ 1 \in 1..c
  <2>1. 1 \in 1..c /\ Nth(K, 1) \in 1..Len(q)
    <3>1. 1 \in 1..c
      BY <1>4, <1>5
    <3> QED BY <1>2, <1>4, <3>1
  <2>2. 1 < m => Nth(K, 1) < 1
    BY <1>4, <1>5, <2>1
  <2>3. m = 1
    BY <1>1, <2>1, <2>2
  <2> QED BY <1>5, <2>1, <2>3
<1>7. Without(q, R)[1] = q[1] /\ Without(q, R) # <<>>
  <2>1. Without(q, R)[1] = q[1] /\ DOMAIN Without(q, R) = 1..c
    BY <1>3, <1>6
  <2>2. Without(q, R) = <<>> => DOMAIN Without(q, R) = {}
    OBVIOUS
  <2> QED BY <1>6, <2>1, <2>2
<1>8. Head(Without(q, R)) = Without(q, R)[1]
  OBVIOUS
<1> QED BY <1>1, <1>7, <1>8

\* Appending to the second part of a concatenation.
LEMMA ConcatAppend ==
  ASSUME NEW S, NEW p \in Seq(S), NEW q \in Seq(S), NEW s \in S
  PROVE  p \o Append(q, s) = Append(p \o q, s)
<1>1. <<s>> \in Seq(S) /\ p \o q \in Seq(S)
  BY ConcatProperties
<1>2. Append(q, s) = q \o <<s>> /\ Append(p \o q, s) = (p \o q) \o <<s>>
  BY <1>1, AppendIsConcat
<1> QED BY <1>1, <1>2, ConcatAssociative

\* Taking from the front of a concatenation.
LEMMA ConcatTail ==
  ASSUME NEW S, NEW p \in Seq(S), NEW q \in Seq(S), p # <<>>
  PROVE  p \o q # <<>> /\ Head(p \o q) = Head(p) /\ Tail(p \o q) = Tail(p) \o q
<1> DEFINE r == p \o q
<1>1. /\ Len(p) \in Nat \ {0} /\ Len(q) \in Nat
  BY LenProperties, EmptySeq
<1>2. /\ r \in Seq(S) /\ Len(r) = Len(p) + Len(q)
      /\ \A i \in 1..Len(p) + Len(q) : r[i] = IF i <= Len(p) THEN p[i] ELSE q[i - Len(p)]
  BY ConcatProperties
<1> HIDE DEF r
<1>3. r # <<>>
  BY <1>1, <1>2, EmptySeq
<1>4. /\ Tail(p) \in Seq(S) /\ Len(Tail(p)) = Len(p) - 1
      /\ \A i \in 1..Len(p) - 1 : Tail(p)[i] = p[i + 1]
  BY <1>1, HeadTailProperties
<1>5. /\ Tail(r) \in Seq(S) /\ Len(Tail(r)) = Len(r) - 1
      /\ \A i \in 1..Len(r) - 1 : Tail(r)[i] = r[i + 1]
      /\ Head(r) = r[1] /\ Head(p) = p[1]
  BY <1>1, <1>2, <1>3, HeadTailProperties
<1> DEFINE t == Tail(p)
           u == t \o q
           v == Tail(r)
<1>6. /\ u \in Seq(S) /\ Len(u) = Len(t) + Len(q)
      /\ \A i \in 1..Len(t) + Len(q) : u[i] = IF i <= Len(t) THEN t[i] ELSE q[i - Len(t)]
  BY <1>4, ConcatProperties
<1>7. /\ t \in Seq(S) /\ Len(t) = Len(p) - 1
      /\ \A i \in 1..Len(p) - 1 : t[i] = p[i + 1]
      /\ v \in Seq(S) /\ Len(v) = Len(p) + Len(q) - 1
      /\ \A i \in 1..Len(p) + Len(q) - 1 : v[i] = r[i + 1]
  BY <1>2, <1>4, <1>5
<1> HIDE DEF t, u, v
<1>8. Len(u) = Len(v) /\ \A i \in 1..Len(v) : u[i] = v[i]
  BY <1>1, <1>2, <1>6, <1>7
<1>9. u = v
  BY <1>6, <1>7, <1>8, SeqEqual
<1>10. Head(r) = Head(p)
  BY <1>1, <1>2, <1>5
<1>11. r # <<>> /\ Head(r) = Head(p) /\ Tail(r) = Tail(p) \o q
  BY <1>3, <1>9, <1>10 DEF t, u, v
<1> QED BY <1>11 DEF r

\* The elements of a list from which one position is cut out.
LEMMA SpliceElements ==
  ASSUME NEW S, NEW q \in Seq(S), NEW i \in 1..Len(q)
  PROVE  LET r == SubSeq(q, 1, i - 1) \o SubSeq(q, i + 1, Len(q))
         IN  /\ r \in Seq(S) /\ Len(r) = Len(q) - 1
             /\ \A k \in 1..Len(q) - 1 : r[k] = IF k < i THEN q[k] ELSE q[k + 1]
<1> DEFINE a == SubSeq(q, 1, i - 1)
           b == SubSeq(q, i + 1, Len(q))
<1>1. Len(q) \in Nat /\ \A k \in 1..Len(q) : q[k] \in S
  BY LenProperties, ElementOfSeq
<1>2. /\ a \in Seq(S) /\ Len(a) = i - 1
      /\ \A k \in 1..(i - 1) : a[k] = q[k]
  <2>1. \A k \in 1..(i - 1) : q[k] \in S
    BY <1>1
  <2> QED BY <1>1, <2>1, SubSeqProperties
<1>3. /\ b \in Seq(S) /\ Len(b) = Len(q) - i
      /\ \A k \in 1..(Len(q) - i) : b[k] = q[i + k]
  <2>1. \A k \in (i + 1)..Len(q) : q[k] \in S
    BY <1>1
  <2>2. /\ b \in Seq(S)
        /\ Len(b) = IF i + 1 <= Len(q) THEN Len(q) - (i + 1) + 1 ELSE 0
        /\ \A k \in 1..(Len(q) - (i + 1) + 1) : b[k] = q[(i + 1) + k - 1]
    BY <1>1, <2>1, SubSeqProperties
  <2> QED BY <1>1, <2>2
<1> HIDE DEF a, b
<1>4. /\ a \o b \in Seq(S) /\ Len(a \o b) = Len(a) + Len(b)
      /\ \A k \in 1..Len(a) + Len(b) : (a \o b)[k] = IF k <= Len(a) THEN a[k] ELSE b[k - Len(a)]
  BY <1>2, <1>3, ConcatProperties
<1>5. /\ a \o b \in Seq(S) /\ Len(a \o b) = Len(q) - 1
      /\ \A k \in 1..Len(q) - 1 : (a \o b)[k] = IF k < i THEN q[k] ELSE q[k + 1]
  <2>1. ASSUME NEW k \in 1..Len(q) - 1
        PROVE  (a \o b)[k] = IF k < i THEN q[k] ELSE q[k + 1]
    <3>1. CASE k < i
      BY <1>1, <1>2, <1>3, <1>4, <3>1
    <3>2. CASE ~(k < i)
      <4>1. k - (i - 1) \in 1..(Len(q) - i) /\ i + (k - (i - 1)) = k + 1
        BY <1>1, <3>2
      <4>2. (a \o b)[k] = b[k - (i - 1)]
        BY <1>1, <1>2, <1>3, <1>4, <3>2
      <4>3. b[k - (i - 1)] = q[i + (k - (i - 1))]
        BY <1>3, <4>1
      <4> QED BY <3>2, <4>1, <4>2, <4>3
    <3> QED BY <3>1, <3>2
  <2> QED BY <1>1, <1>2, <1>3, <1>4, <2>1
<1> QED BY <1>5 DEF a, b

\* Cutting a position out of the second part of a concatenation.
LEMMA ConcatSplice ==
  ASSUME NEW S, NEW p \in Seq(S), NEW q \in Seq(S), NEW i \in DOMAIN q
  PROVE  \E k \in DOMAIN (p \o q) :
            p \o (SubSeq(q, 1, i - 1) \o SubSeq(q, i + 1, Len(q)))
              = SubSeq(p \o q, 1, k - 1) \o SubSeq(p \o q, k + 1, Len(p \o q))
<1> DEFINE r == p \o q
           k == Len(p) + i
           u == SubSeq(q, 1, i - 1) \o SubSeq(q, i + 1, Len(q))
           v == SubSeq(r, 1, k - 1) \o SubSeq(r, k + 1, Len(r))
           w == p \o u
<1>1. Len(p) \in Nat /\ Len(q) \in Nat /\ i \in 1..Len(q)
  BY LenProperties
<1>2. /\ r \in Seq(S) /\ Len(r) = Len(p) + Len(q)
      /\ \A j \in 1..Len(p) + Len(q) : r[j] = IF j <= Len(p) THEN p[j] ELSE q[j - Len(p)]
  BY ConcatProperties
<1>3. /\ u \in Seq(S) /\ Len(u) = Len(q) - 1
      /\ \A j \in 1..Len(q) - 1 : u[j] = IF j < i THEN q[j] ELSE q[j + 1]
  BY <1>1, SpliceElements
<1> HIDE DEF r
<1>4. k \in 1..Len(r) /\ k \in DOMAIN r
  BY <1>1, <1>2, LenProperties
<1> HIDE DEF k
<1>5. /\ v \in Seq(S) /\ Len(v) = Len(r) - 1
      /\ \A j \in 1..Len(r) - 1 : v[j] = IF j < k THEN r[j] ELSE r[j + 1]
  BY <1>2, <1>4, SpliceElements
<1> HIDE DEF u, v
<1>6. /\ w \in Seq(S) /\ Len(w) = Len(p) + Len(u)
      /\ \A j \in 1..Len(p) + Len(u) : w[j] = IF j <= Len(p) THEN p[j] ELSE u[j - Len(p)]
  BY <1>3, ConcatProperties
<1> HIDE DEF w
<1>7. Len(w) = Len(v)
  BY <1>1, <1>2, <1>3, <1>5, <1>6
<1>8. ASSUME NEW j \in 1..Len(w) PROVE w[j] = v[j]
  <2>1. j \in 1..Len(p) + Len(q) - 1 /\ k = Len(p) + i
    BY <1>1, <1>3, <1>6 DEF k
  <2>2. CASE j <= Len(p)
    <3>1. w[j] = p[j]
      BY <1>1, <1>3, <1>6, <2>1, <2>2
    <3>2. j < k /\ j \in 1..Len(r) - 1 /\ j \in 1..Len(p) + Len(q)
      BY <1>1, <1>2, <2>1, <2>2
    <3>3. v[j] = r[j] /\ r[j] = p[j]
      BY <1>2, <1>5, <2>2, <3>2
    <3> QED BY <3>1, <3>3
  <2>3. CASE j > Len(p)
    <3>1. j - Len(p) \in 1..Len(q) - 1
      BY <1>1, <2>1, <2>3
    <3>2. w[j] = IF j < k THEN q[j - Len(p)] ELSE q[(j - Len(p)) + 1]
      <4> DEFINE m == j - Len(p)
      <4>1. w[j] = u[m]
        BY <1>1, <1>3, <1>6, <2>1, <2>3
      <4>2. m < i <=> j < k
        BY <1>1, <2>1
      <4>3. m \in 1..Len(q) - 1
        BY <3>1
      <4> HIDE DEF m
      <4>4. u[m] = IF m < i THEN q[m] ELSE q[m + 1]
        BY <1>3, <4>3
      <4>5. w[j] = IF j < k THEN q[m] ELSE q[m + 1]
        BY <4>1, <4>2, <4>4
      <4> QED BY <4>5 DEF m
    <3>3. CASE j < k
      BY <1>1, <1>2, <1>5, <2>1, <2>3, <3>2, <3>3
    <3>4. CASE ~(j < k)
      <4>1. j + 1 \in 1..Len(p) + Len(q) /\ j + 1 > Len(p) /\ (j + 1) - Len(p) = (j - Len(p)) + 1
        BY <1>1, <2>1, <2>3
      <4>2. v[j] = r[j + 1]
        BY <1>1, <1>2, <1>5, <2>1, <3>4
      <4>3. r[j + 1] = q[(j + 1) - Len(p)]
        BY <1>1, <1>2, <4>1
      <4> QED BY <3>2, <3>4, <4>1, <4>2, <4>3
    <3> QED BY <3>3, <3>4
  <2> QED BY <1>1, <2>1, <2>2, <2>3
<1>9. w = v
  BY <1>5, <1>6, <1>7, <1>8, SeqEqual
<1> QED BY <1>4, <1>9 DEF r, u, v, w

\* A list and its two parts.
LEMMA SplitItems ==
  ASSUME NEW S, NEW q \in Seq(S), NEW k \in 0..Len(q)
  PROVE  LET a == SubSeq(q, 1, k)
             b == SubSeq(q, k + 1, Len(q))
         IN  /\ a \in Seq(S) /\ Len(a) = k /\ \A i \in 1..k : a[i] = q[i]
             /\ b \in Seq(S) /\ Len(b) = Len(q) - k /\ \A i \in 1..Len(q) - k : b[i] = q[k + i]
             /\ Items(a) = {q[i] : i \in 1..k} /\ Items(b) = {q[i] : i \in (k + 1)..Len(q)}
<1> DEFINE a == SubSeq(q, 1, k)
           b == SubSeq(q, k + 1, Len(q))
<1>1. Len(q) \in Nat /\ k \in Nat /\ k <= Len(q) /\ \A i \in 1..Len(q) : q[i] \in S
  BY LenProperties, ElementOfSeq
<1>2. a \in Seq(S) /\ Len(a) = k /\ \A i \in 1..k : a[i] = q[i]
  <2>1. \A i \in 1..k : q[i] \in S
    BY <1>1
  <2> QED BY <1>1, <2>1, SubSeqProperties
<1>3. b \in Seq(S) /\ Len(b) = Len(q) - k /\ \A i \in 1..Len(q) - k : b[i] = q[k + i]
  <2>1. \A i \in (k + 1)..Len(q) : q[i] \in S
    BY <1>1
  <2>2. /\ b \in Seq(S)
        /\ Len(b) = IF k + 1 <= Len(q) THEN Len(q) - (k + 1) + 1 ELSE 0
        /\ \A i \in 1..(Len(q) - (k + 1) + 1) : b[i] = q[(k + 1) + i - 1]
    BY <1>1, <2>1, SubSeqProperties
  <2> QED BY <1>1, <2>2
<1>4. DOMAIN a = 1..k /\ DOMAIN b = 1..(Len(q) - k)
  BY <1>2, <1>3, LenProperties
<1> HIDE DEF a, b
<1>5. Items(a) = {q[i] : i \in 1..k}
  BY <1>2, <1>4 DEF Items
<1>6. Items(b) = {q[i] : i \in (k + 1)..Len(q)}
  <2>1. Items(b) \subseteq {q[i] : i \in (k + 1)..Len(q)}
    BY <1>1, <1>3, <1>4 DEF Items
  <2>2. ASSUME NEW i \in (k + 1)..Len(q) PROVE q[i] \in Items(b)
    <3>1. i - k \in 1..(Len(q) - k) /\ k + (i - k) = i
      BY <1>1
    <3>2. b[i - k] = q[i]
      BY <1>3, <3>1
    <3> QED BY <1>4, <3>1, <3>2 DEF Items
  <2> QED BY <2>1, <2>2
<1> QED BY <1>2, <1>3, <1>5, <1>6 DEF a, b

\* A list put into another one.
LEMMA InsertItems ==
  ASSUME NEW S, NEW q \in Seq(S), NEW m \in Seq(S), NEW k \in 0..Len(q),
         Distinct(q), Distinct(m), Items(q) \cap Items(m) = {}
  PROVE  LET r == SubSeq(q, 1, k) \o m \o SubSeq(q, k + 1, Len(q))
         IN  r \in Seq(S) /\ Distinct(r) /\ Items(r) = Items(q) \cup Items(m)
<1> DEFINE a == SubSeq(q, 1, k)
           b == SubSeq(q, k + 1, Len(q))
<1>1. Len(q) \in Nat /\ DOMAIN q = 1..Len(q) /\ k \in Nat /\ k <= Len(q)
  BY LenProperties
<1>2. /\ a \in Seq(S) /\ Len(a) = k /\ \A i \in 1..k : a[i] = q[i]
      /\ b \in Seq(S) /\ Len(b) = Len(q) - k /\ \A i \in 1..Len(q) - k : b[i] = q[k + i]
      /\ Items(a) = {q[i] : i \in 1..k} /\ Items(b) = {q[i] : i \in (k + 1)..Len(q)}
  BY SplitItems
<1>3. DOMAIN a = 1..k /\ DOMAIN b = 1..(Len(q) - k)
  BY <1>2, LenProperties
<1> HIDE DEF a, b
<1>4. Items(a) \cap Items(b) = {}
  <2>1. SUFFICES ASSUME NEW x \in Items(a), x \in Items(b) PROVE FALSE
    OBVIOUS
  <2>2. PICK i \in 1..k : x = q[i]
    BY <1>2
  <2>3. PICK j \in (k + 1)..Len(q) : x = q[j]
    BY <1>2, <2>1
  <2>4. i \in DOMAIN q /\ j \in DOMAIN q /\ i # j
    BY <1>1
  <2> QED BY <2>2, <2>3, <2>4 DEF Distinct
<1>5. Distinct(a)
  BY <1>1, <1>2, <1>3 DEF Distinct
<1>6. Distinct(b)
  <2>1. SUFFICES ASSUME NEW i \in 1..(Len(q) - k), NEW j \in 1..(Len(q) - k), b[i] = b[j]
                 PROVE  i = j
    BY <1>3 DEF Distinct
  <2>2. k + i \in DOMAIN q /\ k + j \in DOMAIN q /\ q[k + i] = q[k + j]
    BY <1>1, <1>2, <2>1
  <2>3. k + i = k + j
    BY <2>2 DEF Distinct
  <2> QED BY <1>1, <2>3
<1>7. Items(a) \cup Items(b) = Items(q)
  <2>1. /\ \A i \in 1..Len(q) : i \in 1..k \/ i \in (k + 1)..Len(q)
        /\ 1..k \subseteq 1..Len(q) /\ (k + 1)..Len(q) \subseteq 1..Len(q)
    BY <1>1
  <2>2. Items(q) = {q[i] : i \in 1..Len(q)}
    BY <1>1 DEF Items
  <2>3. Items(a) \subseteq Items(q) /\ Items(b) \subseteq Items(q)
    BY <1>2, <2>1, <2>2
  <2>4. ASSUME NEW x \in Items(q) PROVE x \in Items(a) \cup Items(b)
    <3>1. PICK i \in 1..Len(q) : x = q[i]
      BY <2>2
    <3>2. i \in 1..k => x \in Items(a)
      BY <1>2, <3>1
    <3>3. i \in (k + 1)..Len(q) => x \in Items(b)
      BY <1>2, <3>1
    <3> QED BY <2>1, <3>2, <3>3
  <2> QED BY <2>3, <2>4
<1>8. /\ a \o m \in Seq(S) /\ Items(a \o m) = Items(a) \cup Items(m) /\ Distinct(a \o m)
  <2>1. Items(a) \cap Items(m) = {}
    BY <1>7
  <2>2. a \in Seq(S)
    BY <1>2
  <2> QED BY <1>5, <2>1, <2>2, ConcatItems
<1>9. /\ (a \o m) \o b \in Seq(S)
      /\ Items((a \o m) \o b) = Items(a \o m) \cup Items(b) /\ Distinct((a \o m) \o b)
  <2>1. Items(a \o m) \cap Items(b) = {}
    BY <1>4, <1>7, <1>8
  <2>2. PICK c : c = a \o m
    OBVIOUS
  <2>3. c \in Seq(S) /\ b \in Seq(S) /\ Distinct(c) /\ Items(c) \cap Items(b) = {}
    BY <1>2, <1>8, <2>1, <2>2
  <2>4. c \o b \in Seq(S) /\ Items(c \o b) = Items(c) \cup Items(b) /\ Distinct(c \o b)
    BY <1>6, <2>3, ConcatItems
  <2> QED BY <2>2, <2>4
<1>10. Items((a \o m) \o b) = Items(q) \cup Items(m)
  BY <1>7, <1>8, <1>9
<1> QED BY <1>9, <1>10 DEF a, b

\* r is q with m's only element behind the first k.
Extends(q, m, k, r) ==
    /\ Len(r) = Len(q) + 1
    /\ \A i \in 1..Len(r) : r[i] = IF i <= k THEN q[i]
                                   ELSE IF i = k + 1 THEN m[1] ELSE q[i - 1]

\* The elements of a list into which one is put.
LEMMA InsertElements ==
  ASSUME NEW S, NEW q \in Seq(S), NEW m \in Seq(S), NEW k \in 0..Len(q), Len(m) = 1
  PROVE  Extends(q, m, k, SubSeq(q, 1, k) \o m \o SubSeq(q, k + 1, Len(q)))
<1> DEFINE a == SubSeq(q, 1, k)
           b == SubSeq(q, k + 1, Len(q))
<1>1. Len(q) \in Nat /\ k \in Nat /\ k <= Len(q)
  BY LenProperties
<1>2. /\ a \in Seq(S) /\ Len(a) = k /\ \A i \in 1..k : a[i] = q[i]
      /\ b \in Seq(S) /\ Len(b) = Len(q) - k /\ \A i \in 1..Len(q) - k : b[i] = q[k + i]
  BY SplitItems
<1>3. PICK s : s = m[1]
  OBVIOUS
<1> HIDE DEF a, b
<1>4. /\ a \o m \in Seq(S) /\ Len(a \o m) = k + 1
      /\ \A i \in 1..k + 1 : (a \o m)[i] = IF i <= k THEN a[i] ELSE m[i - k]
  <2>1. a \in Seq(S) /\ m \in Seq(S)
    BY <1>2, <1>3
  <2>2. /\ a \o m \in Seq(S) /\ Len(a \o m) = Len(a) + Len(m)
        /\ \A i \in 1..Len(a) + Len(m) :
              (a \o m)[i] = IF i <= Len(a) THEN a[i] ELSE m[i - Len(a)]
    BY <2>1, ConcatProperties
  <2>3. Len(a) = k /\ Len(m) = 1
    BY <1>2, <1>3
  <2> QED BY <2>2, <2>3
<1>5. \A i \in 1..k + 1 : (a \o m)[i] = IF i <= k THEN q[i] ELSE s
  <2>1. \A i \in 1..k + 1 : i <= k => i \in 1..k
    BY <1>1
  <2>2. \A i \in 1..k + 1 : ~(i <= k) => i - k = 1
    BY <1>1
  <2> QED BY <1>2, <1>3, <1>4, <2>1, <2>2
<1>6. /\ Len((a \o m) \o b) = Len(q) + 1
      /\ \A i \in 1..Len(q) + 1 :
            ((a \o m) \o b)[i] = IF i <= k + 1 THEN (a \o m)[i] ELSE b[i - (k + 1)]
  <2>1. /\ Len((a \o m) \o b) = Len(a \o m) + Len(b)
        /\ \A i \in 1..Len(a \o m) + Len(b) :
              ((a \o m) \o b)[i] = IF i <= Len(a \o m) THEN (a \o m)[i] ELSE b[i - Len(a \o m)]
    <3>1. a \o m \in Seq(S) /\ b \in Seq(S)
      BY <1>2, <1>4
    <3> QED BY <3>1, ConcatProperties
  <2>2. Len(a \o m) + Len(b) = Len(q) + 1
    <3>1. Len(a \o m) = k + 1 /\ Len(b) = Len(q) - k
      BY <1>2, <1>4
    <3> QED BY <1>1, <3>1
  <2> QED BY <1>4, <2>1, <2>2
<1>7. ASSUME NEW i \in 1..Len(q) + 1
      PROVE  ((a \o m) \o b)[i] = IF i <= k THEN q[i] ELSE IF i = k + 1 THEN s ELSE q[i - 1]
  <2>1. CASE i <= k + 1
    <3>1. i \in 1..k + 1 /\ (i <= k \/ i = k + 1)
      BY <1>1, <2>1
    <3>2. ((a \o m) \o b)[i] = (a \o m)[i]
      BY <1>6, <2>1
    <3>3. (a \o m)[i] = IF i <= k THEN q[i] ELSE s
      BY <1>5, <3>1
    <3> QED BY <3>1, <3>2, <3>3
  <2>2. CASE i > k + 1
    <3>1. i - (k + 1) \in 1..Len(q) - k /\ k + (i - (k + 1)) = i - 1
      BY <1>1, <2>2
    <3>2. b[i - (k + 1)] = q[k + (i - (k + 1))]
      BY <1>2, <3>1
    <3>3. ((a \o m) \o b)[i] = b[i - (k + 1)]
      BY <1>1, <1>6, <2>2
    <3>4. ~(i <= k) /\ i # k + 1
      BY <1>1, <2>2
    <3> QED BY <3>1, <3>2, <3>3, <3>4
  <2>3. i <= k + 1 \/ i > k + 1
    BY <1>1
  <2> QED BY <2>1, <2>2, <2>3
<1> QED BY <1>3, <1>6, <1>7 DEF a, b, Extends
=============================================================================
