-------------------------- MODULE CachedProxyProofs -------------------------
(***************************************************************************)
(* Proofs about the answer cache and the handlers that use it: the list    *)
(* and the map agree, the cache implements an LRU store, and no client     *)
(* keeps a record beyond twice its TTL.                                    *)
(***************************************************************************)
EXTENDS CachedProxy, FiniteSetTheorems, SequenceTheorems, WellFoundedInduction,
        TLAPS

-----------------------------------------------------------------------------
(* Sets of numbers.                                                        *)

LEMMA MinMaxOfTwo ==
    ASSUME NEW a \in Int, NEW b \in Int
    PROVE  /\ Max({a, b}) = IF a >= b THEN a ELSE b
           /\ Min({a, b}) = IF a <= b THEN a ELSE b
BY DEF Max, Min

LEMMA MinOfNaturals ==
    ASSUME NEW S \in SUBSET Nat, S # {}
    PROVE  Min(S) \in S /\ \A n \in S : Min(S) <= n
<1> DEFINE less == {ss \in Nat \X Nat : ss[1] < ss[2]}
<1>1. IsWellFoundedOn(less, Nat)
  BY NatLessThanWellFounded DEF OpToRel
<1> HIDE DEF less
<1>2. PICK m \in S : \A n \in S : <<n, m>> \notin less
  BY <1>1, WFMin
<1>3. ASSUME NEW n \in S, n < m
      PROVE  FALSE
  <2>1. <<n, m>> \in Nat \X Nat
    OBVIOUS
  <2>2. <<n, m>> \in less
    BY <1>3, <2>1 DEF less
  <2> QED
    BY <1>2, <2>2
<1>4. \A n \in S : m <= n
  BY <1>3
<1> QED
  BY <1>4 DEF Min

-----------------------------------------------------------------------------
(* Sequences.                                                              *)

LEMMA SuffixOfSeq ==
    ASSUME NEW S, NEW s \in Seq(S), NEW q \in 1..(Len(s) + 1)
    PROVE  /\ SubSeq(s, q, Len(s)) \in Seq(S)
           /\ Len(SubSeq(s, q, Len(s))) = Len(s) - q + 1
           /\ \A i \in 1..(Len(s) - q + 1) :
                 SubSeq(s, q, Len(s))[i] = s[q + i - 1]
<1>1. Len(s) \in Nat /\ q \in Int /\ q <= Len(s) + 1 /\ q >= 1
  BY LenProperties
<1>2. \A i \in q..Len(s) : s[i] \in S
  BY <1>1, ElementOfSeq
<1>3. SubSeq(s, q, Len(s)) \in Seq(S)
  BY <1>1, <1>2, SubSeqProperties
<1>4. Len(SubSeq(s, q, Len(s))) = Len(s) - q + 1
  <2>1. CASE q <= Len(s)
    BY <1>1, <1>2, <2>1, SubSeqProperties
  <2>2. CASE q = Len(s) + 1
    BY <1>1, <1>2, <2>2, SubSeqProperties
  <2> QED
    BY <1>1, <2>1, <2>2
<1>5. \A i \in 1..(Len(s) - q + 1) : SubSeq(s, q, Len(s))[i] = s[q + i - 1]
  BY <1>1, <1>2, SubSeqProperties
<1> QED
  BY <1>3, <1>4, <1>5

LEMMA RemoveAtProperties ==
    ASSUME NEW S, NEW s \in Seq(S), NEW p \in 1..Len(s)
    PROVE  /\ RemoveAt(s, p) \in Seq(S)
           /\ Len(RemoveAt(s, p)) = Len(s) - 1
           /\ \A i \in 1..(Len(s) - 1) :
                 RemoveAt(s, p)[i] = IF i < p THEN s[i] ELSE s[i + 1]
<1> DEFINE a == SubSeq(s, 1, p - 1)
           b == SubSeq(s, p + 1, Len(s))
           t == RemoveAt(s, p)
<1>1. Len(s) \in Nat /\ p \in Nat /\ p >= 1 /\ p <= Len(s)
  BY LenProperties
<1>2. /\ a \in Seq(S)
      /\ Len(a) = p - 1
      /\ \A i \in 1..(p - 1) : a[i] = s[i]
  <2>1. \A i \in 1..(p - 1) : s[i] \in S
    BY <1>1, ElementOfSeq
  <2> QED
    BY <1>1, <2>1
<1>3. /\ b \in Seq(S)
      /\ Len(b) = Len(s) - p
      /\ \A i \in 1..(Len(s) - p) : b[i] = s[p + i]
  <2> DEFINE q == p + 1
  <2>1. q \in 1..(Len(s) + 1) /\ Len(s) - q + 1 = Len(s) - p
    BY <1>1
  <2>2. \A i \in Int : q + i - 1 = p + i
    BY <1>1
  <2> HIDE DEF q
  <2>3. /\ SubSeq(s, q, Len(s)) \in Seq(S)
        /\ Len(SubSeq(s, q, Len(s))) = Len(s) - p
        /\ \A i \in 1..(Len(s) - p) : SubSeq(s, q, Len(s))[i] = s[q + i - 1]
    BY <2>1, SuffixOfSeq
  <2> QED
    BY <2>2, <2>3 DEF q
<1>4. t = a \o b
  BY DEF RemoveAt
<1> HIDE DEF a, b, t
<1>5. /\ t \in Seq(S)
      /\ Len(t) = Len(a) + Len(b)
      /\ \A i \in 1..(Len(a) + Len(b)) :
            t[i] = IF i <= Len(a) THEN a[i] ELSE b[i - Len(a)]
  BY <1>2, <1>3, <1>4, ConcatProperties
<1>6. Len(t) = Len(s) - 1
  BY <1>1, <1>2, <1>3, <1>5
<1>7. ASSUME NEW i \in 1..(Len(s) - 1)
      PROVE  t[i] = IF i < p THEN s[i] ELSE s[i + 1]
  <2>1. i \in 1..(Len(a) + Len(b))
    BY <1>1, <1>2, <1>3
  <2>2. CASE i < p
    BY <1>1, <1>2, <1>5, <2>1, <2>2
  <2>3. CASE i >= p
    <3> DEFINE j == i - (p - 1)
    <3>1. j \in 1..(Len(s) - p) /\ p + j = i + 1
      BY <1>1, <2>3
    <3>2. t[i] = b[j]
      <4>1. t[i] = IF i <= Len(a) THEN a[i] ELSE b[i - Len(a)]
        BY <1>5, <2>1
      <4>2. Len(a) = p - 1 /\ ~(i <= p - 1)
        BY <1>1, <1>2, <2>3
      <4> QED
        BY <4>1, <4>2
    <3> HIDE DEF j
    <3>3. b[j] = s[p + j]
      BY <1>3, <3>1
    <3>4. t[i] = s[i + 1] /\ ~(i < p)
      BY <1>1, <2>3, <3>1, <3>2, <3>3
    <3> QED
      BY <3>4
  <2> QED
    BY <1>1, <2>2, <2>3
<1> QED
  BY <1>5, <1>6, <1>7 DEF t

-----------------------------------------------------------------------------
(* Lists in order of use.                                                  *)

\* The keys of a list, from the one used last to the one used longest ago.
Descending(list, rank) ==
    \A i, j \in 1..Len(list) : i < j => rank[list[j]] < rank[list[i]]

\* A list in order of use has each key once.
LEMMA DescendingDistinct ==
    ASSUME NEW s \in Seq(Key), NEW rank \in [Key -> Nat], Descending(s, rank)
    PROVE  /\ \A i, j \in 1..Len(s) : s[i] = s[j] => i = j
           /\ IsFiniteSet(ToSet(s))
           /\ Cardinality(ToSet(s)) = Len(s)
<1>1. Len(s) \in Nat /\ s \in [1..Len(s) -> Key] /\ DOMAIN s = 1..Len(s)
  BY LenProperties
<1>2. ASSUME NEW i \in 1..Len(s), NEW j \in 1..Len(s), s[i] = s[j], i < j
      PROVE  FALSE
  <2>1. s[i] \in Key
    BY <1>1
  <2>2. rank[s[i]] \in Nat
    BY <2>1
  <2> QED
    BY <1>2, <2>2 DEF Descending
<1>3. \A i, j \in 1..Len(s) : s[i] = s[j] => i = j
  BY <1>1, <1>2
<1>4. s \in Bijection(1..Len(s), ToSet(s))
  <2>1. s \in [1..Len(s) -> ToSet(s)] /\ \A x \in ToSet(s) : \E i \in 1..Len(s) : s[i] = x
    BY <1>1 DEF ToSet
  <2>2. IsInjective(s)
    BY <1>1, <1>3 DEF IsInjective
  <2> QED
    BY <2>1, <2>2 DEF Bijection, Injection, Surjection
<1>5. IsFiniteSet(1..Len(s)) /\ Cardinality(1..Len(s)) = Len(s)
  <2>1. \A n \in Nat : /\ IsFiniteSet(1..n)
                       /\ Cardinality(1..n) = IF 1 > n THEN 0 ELSE n - 1 + 1
    BY FS_Interval
  <2>2. \A n \in Nat : IsFiniteSet(1..n) /\ Cardinality(1..n) = n
    BY <2>1
  <2> QED
    BY <1>1, <2>2, Zenon
<1> QED
  BY <1>3, <1>4, <1>5, FS_Bijection DEF ExistsBijection

\* c.order.Remove takes one element out and leaves the others in order
\* (cache.go:94 and 126).
LEMMA RemoveFirstDescending ==
    ASSUME NEW s \in Seq(Key), NEW rank \in [Key -> Nat], Descending(s, rank),
           NEW k
    PROVE  /\ RemoveFirst(s, k) \in Seq(Key)
           /\ Descending(RemoveFirst(s, k), rank)
           /\ ToSet(RemoveFirst(s, k)) = ToSet(s) \ {k}
           /\ k \in ToSet(s) => Len(RemoveFirst(s, k)) = Len(s) - 1
           /\ Len(RemoveFirst(s, k)) <= Len(s)
<1>1. Len(s) \in Nat /\ s \in [1..Len(s) -> Key] /\ DOMAIN s = 1..Len(s)
  BY LenProperties
<1> DEFINE t == RemoveFirst(s, k)
<1>2. CASE k \notin ToSet(s)
  <2>1. t = s
    BY <1>1, <1>2 DEF RemoveFirst, ToSet
  <2> HIDE DEF t
  <2>2. ToSet(t) = ToSet(s) \ {k} /\ Len(t) <= Len(s)
    BY <1>1, <1>2, <2>1
  <2> QED
    BY <1>2, <2>1, <2>2 DEF t
<1>3. CASE k \in ToSet(s)
  <2> DEFINE I == {i \in 1..Len(s) : s[i] = k}
             p == Min(I)
  <2>1. I # {}
    BY <1>1, <1>3 DEF ToSet
  <2>2. p \in 1..Len(s) /\ s[p] = k
    <3>1. I \in SUBSET Nat
      BY <1>1
    <3>2. Min(I) \in I
      BY <2>1, <3>1, MinOfNaturals
    <3> QED
      BY <3>2
  <2>3. t = RemoveAt(s, p)
    BY <1>1, <2>1 DEF RemoveFirst, SelectInSeq
  <2> HIDE DEF p, t
  <2>4. p \in Nat /\ 1 <= p /\ p <= Len(s)
    BY <1>1, <2>2
  <2>5. /\ t \in Seq(Key)
        /\ Len(t) = Len(s) - 1
        /\ \A i \in 1..(Len(s) - 1) : t[i] = IF i < p THEN s[i] ELSE s[i + 1]
    BY <2>2, <2>3, RemoveAtProperties
  <2>6. Descending(t, rank)
    <3> SUFFICES ASSUME NEW i \in 1..Len(t), NEW j \in 1..Len(t), i < j
                 PROVE  rank[t[j]] < rank[t[i]]
      BY DEF Descending
    <3> DEFINE f(m) == IF m < p THEN m ELSE m + 1
    <3> DEFINE n == Len(s)
    <3>a. /\ n \in Nat /\ p \in Nat /\ 1 <= p /\ p <= n
          /\ i \in 1..(n - 1) /\ j \in 1..(n - 1)
      BY <1>1, <2>4, <2>5
    <3> HIDE DEF n
    <3>b. f(i) \in 1..n /\ f(j) \in 1..n /\ f(i) < f(j)
      BY <3>a
    <3>1. /\ f(i) \in 1..Len(s) /\ f(j) \in 1..Len(s) /\ f(i) < f(j)
          /\ i \in 1..(Len(s) - 1) /\ j \in 1..(Len(s) - 1)
      BY <3>a, <3>b, Zenon DEF n
    <3>2. t[i] = s[f(i)] /\ t[j] = s[f(j)]
      BY <2>5, <3>1
    <3> HIDE DEF f
    <3> QED
      BY <3>1, <3>2 DEF Descending
  <2>7. ToSet(t) = ToSet(s) \ {k}
    <3>1. DOMAIN t = 1..(Len(s) - 1)
      BY <2>5, LenProperties
    <3>2. ASSUME NEW i \in 1..(Len(s) - 1)
          PROVE  t[i] \in ToSet(s) /\ t[i] # k
      <4> DEFINE n == IF i < p THEN i ELSE i + 1
      <4>1. n \in 1..Len(s) /\ n # p
        BY <1>1, <2>4
      <4>2. t[i] = s[n]
        BY <2>5
      <4> HIDE DEF n
      <4>3. s[n] # k
        BY <2>2, <4>1, DescendingDistinct
      <4> QED
        BY <1>1, <4>1, <4>2, <4>3 DEF ToSet
    <3>3. ASSUME NEW i \in 1..Len(s), s[i] # k
          PROVE  \E j \in 1..(Len(s) - 1) : t[j] = s[i]
      <4>1. CASE i < p
        <5>1. i \in 1..(Len(s) - 1)
          BY <1>1, <2>4, <4>1
        <5> QED
          BY <2>5, <4>1, <5>1
      <4>2. CASE i > p
        <5> DEFINE j == i - 1
        <5>1. j \in 1..(Len(s) - 1) /\ ~(j < p) /\ j + 1 = i
          BY <1>1, <2>4, <4>2
        <5> HIDE DEF j
        <5> QED
          BY <2>5, <5>1
      <4>3. i < p \/ i > p
        BY <2>2, <2>4, <3>3
      <4> QED
        BY <4>1, <4>2, <4>3
    <3>4. ToSet(t) \subseteq ToSet(s) \ {k}
      BY <3>1, <3>2 DEF ToSet
    <3>5. ToSet(s) \ {k} \subseteq ToSet(t)
      BY <1>1, <3>1, <3>3 DEF ToSet
    <3> QED
      BY <3>4, <3>5
  <2> QED
    BY <1>1, <2>5, <2>6, <2>7 DEF t
<1> QED
  BY <1>2, <1>3

\* PushFront and MoveToFront put the key used last at the front (cache.go:99
\* and 143).
LEMMA ConsDescending ==
    ASSUME NEW s \in Seq(Key), NEW rank \in [Key -> Nat], Descending(s, rank),
           NEW k \in Key, NEW new \in [Key -> Nat],
           \A j \in ToSet(s) : new[j] = rank[j] /\ new[j] < new[k]
    PROVE  /\ Cons(k, s) \in Seq(Key)
           /\ Descending(Cons(k, s), new)
           /\ ToSet(Cons(k, s)) = ToSet(s) \cup {k}
           /\ Len(Cons(k, s)) = Len(s) + 1
<1> DEFINE t == Cons(k, s)
<1>1. Len(s) \in Nat /\ s \in [1..Len(s) -> Key] /\ DOMAIN s = 1..Len(s)
  BY LenProperties
<1>2. /\ t \in Seq(Key)
      /\ Len(t) = Len(s) + 1
      /\ t[1] = k
      /\ \A i \in 1..Len(s) : t[i + 1] = s[i]
  <2> DEFINE h == <<k>>
  <2>1. h \in Seq(Key) /\ Len(h) = 1 /\ h[1] = k
    OBVIOUS
  <2>2. t = h \o s
    BY DEF Cons
  <2> HIDE DEF h, t
  <2>3. /\ t \in Seq(Key)
        /\ Len(t) = Len(h) + Len(s)
        /\ \A i \in 1..(Len(h) + Len(s)) :
              t[i] = IF i <= Len(h) THEN h[i] ELSE s[i - Len(h)]
    BY <2>1, <2>2, ConcatProperties
  <2>4. Len(t) = Len(s) + 1
    BY <1>1, <2>1, <2>3
  <2>5. t[1] = k
    <3>1. 1 \in 1..(Len(h) + Len(s)) /\ 1 <= Len(h)
      BY <1>1, <2>1
    <3> QED
      BY <2>1, <2>3, <3>1
  <2>6. ASSUME NEW i \in 1..Len(s)
        PROVE  t[i + 1] = s[i]
    <3> DEFINE j == i + 1
    <3>1. j \in 1..(Len(h) + Len(s)) /\ ~(j <= Len(h)) /\ j - Len(h) = i
      BY <1>1, <2>1
    <3> HIDE DEF j
    <3>2. t[j] = s[i]
      BY <2>3, <3>1
    <3> QED
      BY <3>2 DEF j
  <2> QED
    BY <2>3, <2>4, <2>5, <2>6
<1> HIDE DEF t
<1>3. \A i \in 1..Len(s) : s[i] \in ToSet(s)
  BY <1>1 DEF ToSet
<1>4. \A i \in 1..Len(t) : i = 1 \/ \E n \in 1..Len(s) : i = n + 1
  <2> SUFFICES ASSUME NEW i \in 1..Len(t), i # 1
               PROVE  \E n \in 1..Len(s) : i = n + 1
    OBVIOUS
  <2>1. i - 1 \in 1..Len(s) /\ i = (i - 1) + 1
    BY <1>1, <1>2
  <2> QED
    BY <2>1
<1>5. Descending(t, new)
  <2> SUFFICES ASSUME NEW i \in 1..Len(t), NEW j \in 1..Len(t), i < j
               PROVE  new[t[j]] < new[t[i]]
    BY DEF Descending
  <2>1. j # 1
    BY <1>1, <1>2
  <2>2. PICK n \in 1..Len(s) : j = n + 1
    BY <1>4, <2>1
  <2>3. t[j] = s[n]
    BY <1>2, <2>2
  <2>4. CASE i = 1
    BY <1>2, <1>3, <2>3, <2>4
  <2>5. CASE i # 1
    <3>1. PICK m \in 1..Len(s) : i = m + 1
      BY <1>4, <2>5
    <3>2. t[i] = s[m]
      BY <1>2, <3>1
    <3>3. m < n
      BY <1>1, <2>2, <3>1
    <3>4. rank[s[n]] < rank[s[m]]
      BY <3>3 DEF Descending
    <3> QED
      BY <1>3, <2>3, <3>2, <3>4
  <2> QED
    BY <2>4, <2>5
<1>6. ToSet(t) = ToSet(s) \cup {k}
  <2>1. DOMAIN t = 1..Len(t)
    BY <1>2, LenProperties
  <2>2. ToSet(t) \subseteq ToSet(s) \cup {k}
    <3> SUFFICES ASSUME NEW i \in 1..Len(t)
                 PROVE  t[i] \in ToSet(s) \cup {k}
      BY <2>1 DEF ToSet
    <3> QED
      BY <1>2, <1>3, <1>4
  <2>3. k \in ToSet(t)
    <3>1. 1 \in 1..Len(t)
      BY <1>1, <1>2
    <3> QED
      BY <1>2, <2>1, <3>1 DEF ToSet
  <2>4. ASSUME NEW i \in 1..Len(s)
        PROVE  s[i] \in ToSet(t)
    <3>1. i + 1 \in 1..Len(t)
      BY <1>1, <1>2
    <3> QED
      BY <1>2, <2>1, <3>1 DEF ToSet
  <2> QED
    BY <1>1, <2>2, <2>3, <2>4 DEF ToSet
<1> QED
  BY <1>2, <1>5, <1>6 DEF t

\* What stays at the front of the list was used after whatever is cut off.
LEMMA PrefixDescending ==
    ASSUME NEW s \in Seq(Key), NEW rank \in [Key -> Nat], Descending(s, rank),
           NEW n \in 0..Len(s)
    PROVE  /\ SubSeq(s, 1, n) \in Seq(Key)
           /\ Len(SubSeq(s, 1, n)) = n
           /\ Descending(SubSeq(s, 1, n), rank)
           /\ ToSet(SubSeq(s, 1, n)) \subseteq ToSet(s)
           /\ n = Len(s) => SubSeq(s, 1, n) = s
           /\ \A i \in ToSet(s) \ ToSet(SubSeq(s, 1, n)),
                 j \in ToSet(SubSeq(s, 1, n)) : rank[i] < rank[j]
<1> DEFINE u == SubSeq(s, 1, n)
<1>1. Len(s) \in Nat /\ s \in [1..Len(s) -> Key] /\ DOMAIN s = 1..Len(s)
  BY LenProperties
<1>2. /\ u \in Seq(Key)
      /\ Len(u) = n
      /\ \A i \in 1..n : u[i] = s[i]
  <2>1. \A i \in 1..n : s[i] \in Key
    BY <1>1
  <2> QED
    BY <1>1, <2>1
<1>3. n = Len(s) => u = s
  BY SubSeqFull
<1> HIDE DEF u
<1>4. n \in Nat /\ n <= Len(s)
  BY <1>1
<1>5. DOMAIN u = 1..n
  BY <1>2, LenProperties
<1>6. Descending(u, rank)
  <2>1. 1..n \subseteq 1..Len(s)
    BY <1>1, <1>4
  <2> QED
    BY <1>2, <2>1 DEF Descending
<1>7. ToSet(u) \subseteq ToSet(s)
  <2>1. 1..n \subseteq 1..Len(s)
    BY <1>1, <1>4
  <2> QED
    BY <1>1, <1>2, <1>5, <2>1 DEF ToSet
<1>8. ASSUME NEW i \in 1..Len(s), s[i] \notin ToSet(u), NEW j \in 1..n
      PROVE  rank[s[i]] < rank[u[j]]
  <2>1. ~(i \in 1..n)
    BY <1>2, <1>5, <1>8 DEF ToSet
  <2>2. j \in 1..Len(s) /\ j < i
    BY <1>1, <1>4, <2>1
  <2> QED
    BY <1>2, <2>2 DEF Descending
<1>9. \A i \in ToSet(s) \ ToSet(u), j \in ToSet(u) : rank[i] < rank[j]
  BY <1>1, <1>5, <1>8 DEF ToSet
<1> QED
  BY <1>2, <1>3, <1>6, <1>7, <1>9 DEF u

\* The eviction loop keeps the keys used last, as many as leave room for one
\* more and no fewer (cache.go:131).
LEMMA MakeRoomDescending ==
    ASSUME NEW s \in Seq(Key), NEW rank \in [Key -> Nat], Descending(s, rank)
    PROVE  /\ MakeRoom(s) \in Seq(Key)
           /\ Descending(MakeRoom(s), rank)
           /\ ToSet(MakeRoom(s)) \subseteq ToSet(s)
           /\ Len(MakeRoom(s)) < Max({MaxSize, 1})
           /\ ToSet(MakeRoom(s)) # ToSet(s) => Len(MakeRoom(s)) = Max({MaxSize, 1}) - 1
           /\ \A i \in ToSet(s) \ ToSet(MakeRoom(s)), j \in ToSet(MakeRoom(s)) :
                 rank[i] < rank[j]
<1> DEFINE m == Max({MaxSize - 1, 0})
           n == Min({Len(s), m})
<1>1. Len(s) \in Nat
  BY LenProperties
<1>2. m \in Nat /\ m + 1 = Max({MaxSize, 1}) /\ Max({MaxSize, 1}) \in Nat
  BY CacheAssumption, MinMaxOfTwo
<1> HIDE DEF m
<1>3. n \in 0..Len(s) /\ n <= m /\ (n = Len(s) \/ n = m)
  <2>1. n = IF Len(s) <= m THEN Len(s) ELSE m
    <3>1. Len(s) \in Int /\ m \in Int
      BY <1>1, <1>2
    <3> QED
      BY <3>1, MinMaxOfTwo, Zenon
  <2> HIDE DEF n
  <2> QED
    BY <1>1, <1>2, <2>1
<1>4. MakeRoom(s) = SubSeq(s, 1, n)
  BY DEF MakeRoom, m
<1> HIDE DEF n
<1> DEFINE u == SubSeq(s, 1, n)
<1>5. /\ u \in Seq(Key)
      /\ Len(u) = n
      /\ Descending(u, rank)
      /\ ToSet(u) \subseteq ToSet(s)
      /\ n = Len(s) => u = s
      /\ \A i \in ToSet(s) \ ToSet(u), j \in ToSet(u) : rank[i] < rank[j]
  BY <1>3, PrefixDescending
<1> HIDE DEF u
<1>6. Len(u) < Max({MaxSize, 1})
  BY <1>1, <1>2, <1>3, <1>5
<1>7. ToSet(u) # ToSet(s) => Len(u) = Max({MaxSize, 1}) - 1
  BY <1>1, <1>2, <1>3, <1>5
<1> QED
  BY <1>4, <1>5, <1>6, <1>7 DEF u

-----------------------------------------------------------------------------
(* The invariant of the cache.                                             *)

\* What is stored with a question.
Entry == [ttls : SUBSET Nat, since : Nat, expiresAt : Nat]

CacheTypeInv ==
    /\ items \in [DOMAIN items -> Entry]
    /\ now \in Nat /\ uses \in Nat
    /\ lastUse \in [Key -> Nat]
    /\ \A k \in Key : lastUse[k] <= uses

\* The list holds the keys of the map in order of use, each of them once because
\* no two have been used at the same time.
ListInv ==
    /\ order \in Seq(Key)
    /\ Descending(order, lastUse)
    /\ ToSet(order) = DOMAIN items
    /\ Len(order) <= Max({MaxSize, 1})

\* An entry expires with the first of its records, counted from when it was stored,
\* which is not long after upstream gave it.
ExpiryInv ==
    \A k \in DOMAIN items : \A t \in items[k].ttls :
        items[k].expiresAt <= items[k].since + MaxWait + t

CacheInv == CacheTypeInv /\ ListInv /\ ExpiryInv

LEMMA MinTTLProperties ==
    ASSUME NEW a \in SUBSET Nat
    PROVE  MinTTL(a) \in Nat /\ \A t \in a : MinTTL(a) <= t
BY MinOfNaturals DEF MinTTL

\* The use of a key makes its rank the highest.
LEMMA UseRanks ==
    ASSUME CacheTypeInv, NEW k \in Key, Use(k)
    PROVE  /\ uses' \in Nat /\ lastUse' \in [Key -> Nat]
           /\ \A j \in Key : lastUse'[j] <= uses'
           /\ \A j \in Key \ {k} : lastUse'[j] = lastUse[j] /\ lastUse'[j] < lastUse'[k]
BY DEF CacheTypeInv, Use

LEMMA InitCacheInv == NewDNSCache => CacheInv
<1> SUFFICES ASSUME NewDNSCache PROVE CacheInv
  OBVIOUS
<1>1. items = <<>> /\ order = <<>> /\ DOMAIN items = {}
  BY DEF NewDNSCache
<1>2. CacheTypeInv
  BY <1>1 DEF NewDNSCache, CacheTypeInv
<1>3. ListInv
  <2>1. Max({MaxSize, 1}) \in Nat
    BY CacheAssumption, MinMaxOfTwo
  <2>2. order \in Seq(Key) /\ Len(order) = 0 /\ ToSet(order) = {}
    BY <1>1 DEF ToSet
  <2> QED
    BY <1>1, <2>1, <2>2 DEF ListInv, Descending
<1>4. ExpiryInv
  BY <1>1 DEF ExpiryInv
<1> QED
  BY <1>2, <1>3, <1>4 DEF CacheInv

LEMMA GetExpiredInv ==
    ASSUME CacheInv, NEW k \in Key, GetExpired(k)
    PROVE  CacheInv'
<1> USE DEF CacheInv, GetExpired, Without
<1>1. DOMAIN items' = DOMAIN items \ {k} /\ \A j \in DOMAIN items' : items'[j] = items[j]
  OBVIOUS
<1>2. CacheTypeInv'
  BY <1>1 DEF CacheTypeInv
<1>3. ListInv'
  <2>1. /\ order' \in Seq(Key)
        /\ Descending(order', lastUse)
        /\ ToSet(order') = ToSet(order) \ {k}
        /\ Len(order') <= Len(order)
    BY RemoveFirstDescending DEF ListInv, CacheTypeInv
  <2>2. Len(order) \in Nat /\ Len(order') \in Nat /\ Max({MaxSize, 1}) \in Nat
    BY <2>1, LenProperties, CacheAssumption, MinMaxOfTwo DEF ListInv
  <2>3. Len(order') <= Max({MaxSize, 1})
    BY <2>1, <2>2 DEF ListInv
  <2>4. Descending(order', lastUse')
    BY <2>1
  <2> QED
    BY <1>1, <2>1, <2>3, <2>4 DEF ListInv
<1>4. ExpiryInv'
  BY <1>1 DEF ExpiryInv
<1> QED
  BY <1>2, <1>3, <1>4

LEMMA GetHitInv ==
    ASSUME CacheInv, NEW k \in Key, GetHit(k)
    PROVE  CacheInv'
<1> USE DEF CacheInv, GetHit
<1>1. CacheTypeInv'
  BY UseRanks DEF CacheTypeInv
<1>2. ListInv'
  <2> DEFINE rest == RemoveFirst(order, k)
  <2>1. /\ rest \in Seq(Key)
        /\ Descending(rest, lastUse)
        /\ ToSet(rest) = ToSet(order) \ {k}
        /\ Len(rest) = Len(order) - 1
    BY RemoveFirstDescending DEF ListInv, CacheTypeInv
  <2>2. order' = Cons(k, rest)
    OBVIOUS
  <2>3. ToSet(order) \subseteq Key
    BY LenProperties DEF ListInv, ToSet
  <2> HIDE DEF rest
  <2>4. \A j \in ToSet(rest) : lastUse'[j] = lastUse[j] /\ lastUse'[j] < lastUse'[k]
    BY <2>1, <2>3, UseRanks
  <2>5. lastUse \in [Key -> Nat] /\ lastUse' \in [Key -> Nat]
    BY UseRanks DEF CacheTypeInv
  <2>6. /\ order' \in Seq(Key)
        /\ Descending(order', lastUse')
        /\ ToSet(order') = ToSet(rest) \cup {k}
        /\ Len(order') = Len(rest) + 1
    <3>1. /\ Cons(k, rest) \in Seq(Key)
          /\ Descending(Cons(k, rest), lastUse')
          /\ ToSet(Cons(k, rest)) = ToSet(rest) \cup {k}
          /\ Len(Cons(k, rest)) = Len(rest) + 1
      BY <2>1, <2>4, <2>5, ConsDescending, Zenon
    <3> QED
      BY <2>2, <3>1
  <2>7. Len(order') = Len(order)
    BY <2>1, <2>6, LenProperties DEF ListInv
  <2>8. ToSet(order') = DOMAIN items'
    BY <2>1, <2>6 DEF ListInv
  <2> QED
    BY <2>6, <2>7, <2>8 DEF ListInv
<1>3. ExpiryInv'
  BY DEF ExpiryInv
<1> QED
  BY <1>1, <1>2, <1>3

-----------------------------------------------------------------------------
(* Put.                                                                    *)

\* The keys that Put leaves in the cache next to k.
Kept(k) == MakeRoom(Unlink(order, k))

\* The keys that stay are the latest of the others, and there are as many of them
\* as leave room for k, or all of them (cache.go:125).
LEMMA KeptProperties ==
    ASSUME CacheTypeInv, ListInv, NEW k \in Key
    PROVE  /\ Kept(k) \in Seq(Key)
           /\ Descending(Kept(k), lastUse)
           /\ ToSet(Kept(k)) \subseteq DOMAIN items \ {k}
           /\ Len(Kept(k)) < Max({MaxSize, 1})
           /\ ToSet(Kept(k)) # DOMAIN items \ {k}
              => Len(Kept(k)) = Max({MaxSize, 1}) - 1
           /\ \A i \in (DOMAIN items \ {k}) \ ToSet(Kept(k)), j \in ToSet(Kept(k)) :
                 lastUse[i] < lastUse[j]
<1> DEFINE rest == RemoveFirst(order, k)
<1>1. lastUse \in [Key -> Nat]
  BY DEF CacheTypeInv
<1>2. /\ rest \in Seq(Key)
      /\ Descending(rest, lastUse)
      /\ ToSet(rest) = DOMAIN items \ {k}
  BY <1>1, RemoveFirstDescending DEF ListInv
<1>3. Kept(k) = MakeRoom(rest)
  BY DEF Kept, Unlink
<1> HIDE DEF rest
<1> DEFINE kept == MakeRoom(rest)
<1>4. /\ kept \in Seq(Key)
      /\ Descending(kept, lastUse)
      /\ ToSet(kept) \subseteq ToSet(rest)
      /\ Len(kept) < Max({MaxSize, 1})
      /\ ToSet(kept) # ToSet(rest) => Len(kept) = Max({MaxSize, 1}) - 1
      /\ \A i \in ToSet(rest) \ ToSet(kept), j \in ToSet(kept) : lastUse[i] < lastUse[j]
  BY <1>1, <1>2, MakeRoomDescending, Zenon
<1> HIDE DEF kept
<1> QED
  BY <1>2, <1>3, <1>4, Zenon DEF kept

\* What Put makes of the list and of the map.
LEMMA PutEffect ==
    ASSUME CacheInv, NEW k \in Key, NEW a \in SUBSET Nat, NEW since \in Nat,
           Put(k, a, since)
    PROVE  /\ order' = Cons(k, Kept(k))
           /\ DOMAIN items' = ToSet(Kept(k)) \cup {k}
           /\ \A j \in ToSet(Kept(k)) : items'[j] = items[j]
           /\ items'[k] = [ttls |-> a, since |-> since, expiresAt |-> now + MinTTL(a)]
<1>1. ToSet(Kept(k)) \subseteq DOMAIN items \ {k}
  BY KeptProperties DEF CacheInv
<1> QED
  BY <1>1 DEF Put, Kept

LEMMA PutInv ==
    ASSUME CacheInv, NEW k \in Key, NEW a \in SUBSET Nat, NEW since \in Nat,
           now <= since + MaxWait, Put(k, a, since)
    PROVE  CacheInv'
<1>1. CacheTypeInv /\ ListInv /\ ExpiryInv /\ Use(k) /\ now' = now
  BY DEF CacheInv, Put
<1>2. MinTTL(a) \in Nat /\ \A t \in a : MinTTL(a) <= t
  BY MinTTLProperties
<1>3. now \in Nat
  BY <1>1 DEF CacheTypeInv
<1>4. \A j \in DOMAIN items' \ {k} : j \in DOMAIN items /\ items'[j] = items[j]
  BY <1>1, PutEffect, KeptProperties
<1>5. k \in DOMAIN items'
  BY PutEffect
<1>6. items'[k] = [ttls |-> a, since |-> since, expiresAt |-> now + MinTTL(a)]
  BY PutEffect
<1>7. CacheTypeInv'
  <2>1. items'[k] \in Entry
    BY <1>2, <1>3, <1>6 DEF Entry
  <2>2. \A j \in DOMAIN items' : items'[j] \in Entry
    BY <1>1, <1>4, <2>1 DEF CacheTypeInv
  <2>3. items' = [j \in DOMAIN items' |-> items'[j]]
    BY DEF Put
  <2>4. items' \in [DOMAIN items' -> Entry]
    BY <2>2, <2>3
  <2> QED
    BY <1>1, <1>3, <2>4, UseRanks DEF CacheTypeInv
<1>8. ListInv'
  <2> DEFINE kept == Kept(k)
  <2>1. /\ kept \in Seq(Key) /\ Descending(kept, lastUse)
        /\ ToSet(kept) \subseteq DOMAIN items \ {k}
        /\ Len(kept) < Max({MaxSize, 1})
    BY <1>1, KeptProperties
  <2>2. order' = Cons(k, kept) /\ DOMAIN items' = ToSet(kept) \cup {k}
    BY PutEffect
  <2> HIDE DEF kept
  <2>3. ToSet(kept) \subseteq Key
    BY <2>1, LenProperties DEF ToSet
  <2>4. \A j \in ToSet(kept) : lastUse'[j] = lastUse[j] /\ lastUse'[j] < lastUse'[k]
    BY <1>1, <2>1, <2>3, UseRanks
  <2>5. lastUse \in [Key -> Nat] /\ lastUse' \in [Key -> Nat]
    BY <1>1, UseRanks DEF CacheTypeInv
  <2>6. /\ order' \in Seq(Key)
        /\ Descending(order', lastUse')
        /\ ToSet(order') = ToSet(kept) \cup {k}
        /\ Len(order') = Len(kept) + 1
    <3>1. /\ Cons(k, kept) \in Seq(Key)
          /\ Descending(Cons(k, kept), lastUse')
          /\ ToSet(Cons(k, kept)) = ToSet(kept) \cup {k}
          /\ Len(Cons(k, kept)) = Len(kept) + 1
      BY <2>1, <2>4, <2>5, ConsDescending, Zenon
    <3> QED
      BY <2>2, <3>1
  <2>7. Len(order') <= Max({MaxSize, 1})
    <3>1. Len(kept) \in Nat /\ Max({MaxSize, 1}) \in Nat
      BY <2>1, LenProperties, CacheAssumption, MinMaxOfTwo
    <3> QED
      BY <2>1, <2>6, <3>1
  <2> QED
    BY <2>2, <2>6, <2>7 DEF ListInv
<1>9. ExpiryInv'
  <2>1. \A t \in items'[k].ttls : items'[k].expiresAt <= items'[k].since + MaxWait + t
    <3>1. \A t \in a : now + MinTTL(a) <= since + MaxWait + t
      BY <1>2, <1>3, CachedProxyAssumption
    <3>2. /\ items'[k].ttls = a /\ items'[k].since = since
          /\ items'[k].expiresAt = now + MinTTL(a)
      BY <1>6
    <3> QED
      BY <3>1, <3>2
  <2> QED
    BY <1>1, <1>4, <2>1 DEF ExpiryInv
<1> QED
  BY <1>7, <1>8, <1>9 DEF CacheInv

-----------------------------------------------------------------------------
(* The handlers.                                                           *)

HandlerTypeInv ==
    /\ asked \in [Handler -> Key \cup {NoKey}]
    /\ phase \in [Handler -> {"idle", "upstream", "store", "write"}]
    /\ answer \in [Handler -> [ttls : SUBSET Nat, since : Nat]]
    /\ \A c \in Handler : phase[c] \in {"upstream", "store"} => asked[c] \in Key

\* No record of the answer a handler is about to write has been in the cache for
\* longer than its TTL.
FreshInv ==
    \A c \in Handler : phase[c] = "write" =>
        \A t \in answer[c].ttls : now <= answer[c].since + MaxWait + t

\* The inductive invariant of the cache in use.
CachedInv == CacheInv /\ HandlerTypeInv /\ FreshInv

\* The cache of a step that leaves it alone.
LEMMA CacheUntouched ==
    ASSUME CacheInv, UNCHANGED <<items, order, now, lastUse, uses>>
    PROVE  CacheInv'
BY DEF CacheInv, CacheTypeInv, ListInv, ExpiryInv, Descending

LEMMA LookupInv ==
    ASSUME CachedInv, NEW c \in Handler, NEW k \in Key, Lookup(c, k)
    PROVE  CachedInv'
<1> USE DEF CachedInv
<1>1. CASE GetHit(k) /\ phase' = [phase EXCEPT ![c] = "write"]
           /\ answer' = [answer EXCEPT ![c] = [ttls |-> reply'.ttls,
                                               since |-> reply'.since]]
  <2>1. CacheInv'
    BY <1>1, GetHitInv
  <2>2. /\ items[k] \in Entry /\ now <= items[k].expiresAt /\ now' = now
        /\ \A t \in items[k].ttls : items[k].expiresAt <= items[k].since + MaxWait + t
        /\ now \in Nat /\ reply' = items[k]
    BY <1>1 DEF GetHit, CacheInv, CacheTypeInv, ExpiryInv
  <2>3. HandlerTypeInv'
    BY <1>1, <2>2 DEF Lookup, HandlerTypeInv, Entry
  <2>4. \A t \in items[k].ttls : now <= items[k].since + MaxWait + t
    BY <2>2, CachedProxyAssumption DEF Entry
  <2>5. FreshInv'
    <3> SUFFICES ASSUME NEW d \in Handler, phase'[d] = "write",
                        NEW t \in answer'[d].ttls
                 PROVE  now' <= answer'[d].since + MaxWait + t
      BY DEF FreshInv
    <3>1. CASE d = c
      <4>1. answer'[d] = [ttls |-> items[k].ttls, since |-> items[k].since]
        BY <1>1, <2>2, <3>1 DEF HandlerTypeInv
      <4> QED
        BY <2>2, <2>4, <4>1
    <3>2. CASE d # c
      BY <1>1, <2>2, <3>2 DEF HandlerTypeInv, FreshInv
    <3> QED
      BY <3>1, <3>2
  <2> QED
    BY <2>1, <2>3, <2>5
<1>2. CASE (GetMiss(k) \/ GetExpired(k)) /\ phase' = [phase EXCEPT ![c] = "upstream"]
           /\ UNCHANGED answer
  <2>1. CacheInv'
    BY <1>2, GetExpiredInv, CacheUntouched DEF GetMiss
  <2>2. HandlerTypeInv'
    BY <1>2 DEF Lookup, HandlerTypeInv
  <2>3. now' = now
    BY <1>2 DEF GetMiss, GetExpired
  <2>4. FreshInv'
    BY <1>2, <2>3 DEF HandlerTypeInv, FreshInv
  <2> QED
    BY <2>1, <2>2, <2>4
<1> QED
  BY <1>1, <1>2 DEF Lookup

LEMMA UpstreamInv ==
    ASSUME CachedInv, NEW c \in Handler,
           UpstreamFails(c) \/ \E ttls \in Answer : UpstreamAnswers(c, ttls)
    PROVE  CachedInv'
<1> USE DEF CachedInv
<1>1. CacheInv'
  BY CacheUntouched DEF UpstreamFails, UpstreamAnswers, cacheVars
<1>2. HandlerTypeInv'
  <2>1. now \in Nat
    BY DEF CacheInv, CacheTypeInv
  <2>2. CASE UpstreamFails(c)
    BY <2>2 DEF UpstreamFails, HandlerTypeInv
  <2>3. ASSUME NEW ttls \in Answer, UpstreamAnswers(c, ttls)
        PROVE  HandlerTypeInv'
    <3>1. [ttls |-> ttls, since |-> now] \in [ttls : SUBSET Nat, since : Nat]
      BY <2>1, CacheAssumption
    <3>2. answer' \in [Handler -> [ttls : SUBSET Nat, since : Nat]]
      BY <2>3, <3>1 DEF UpstreamAnswers, HandlerTypeInv
    <3> QED
      BY <2>3, <3>2 DEF UpstreamAnswers, HandlerTypeInv
  <2> QED
    BY <2>2, <2>3
<1>3. FreshInv'
  BY DEF UpstreamFails, UpstreamAnswers, HandlerTypeInv, FreshInv, cacheVars
<1> QED
  BY <1>1, <1>2, <1>3

LEMMA StoreAnswerInv ==
    ASSUME CachedInv, NEW c \in Handler, StoreAnswer(c)
    PROVE  CachedInv'
<1> USE DEF CachedInv
<1>1. /\ asked[c] \in Key /\ answer[c].ttls \in SUBSET Nat /\ answer[c].since \in Nat
      /\ now \in Nat /\ now <= answer[c].since + MaxWait
  BY DEF StoreAnswer, HandlerTypeInv, CacheInv, CacheTypeInv
<1>2. CacheInv' /\ now' = now
  BY <1>1, PutInv, CacheUntouched DEF StoreAnswer, Put, cacheVars
<1>3. HandlerTypeInv'
  BY <1>1 DEF StoreAnswer, HandlerTypeInv
<1>4. FreshInv'
  <2> SUFFICES ASSUME NEW d \in Handler, phase'[d] = "write",
                      NEW t \in answer'[d].ttls
               PROVE  now' <= answer'[d].since + MaxWait + t
    BY DEF FreshInv
  <2>1. CASE d = c
    <3>1. answer' = answer
      BY DEF StoreAnswer
    <3>2. t \in Nat
      BY <1>1, <2>1, <3>1
    <3> QED
      BY <1>1, <1>2, <2>1, <3>1, <3>2, CachedProxyAssumption
  <2>2. CASE d # c
    BY <1>2, <2>2 DEF StoreAnswer, HandlerTypeInv, FreshInv
  <2> QED
    BY <2>1, <2>2
<1> QED
  BY <1>2, <1>3, <1>4

LEMMA WriteAnswerInv ==
    ASSUME CachedInv, NEW c \in Handler, WriteAnswer(c)
    PROVE  CachedInv'
<1> USE DEF CachedInv, WriteAnswer, Finish
<1>1. CacheInv'
  BY CacheUntouched DEF cacheVars
<1>2. HandlerTypeInv'
  BY DEF HandlerTypeInv, None
<1>3. FreshInv'
  BY DEF HandlerTypeInv, FreshInv, cacheVars
<1> QED
  BY <1>1, <1>2, <1>3

LEMMA SecondInv ==
    ASSUME CachedInv, Second
    PROVE  CachedInv'
<1> USE DEF CachedInv, Second, Tick
<1>1. CacheInv'
  BY DEF CacheInv, CacheTypeInv, ListInv, ExpiryInv, Descending
<1>2. HandlerTypeInv' /\ FreshInv'
  BY DEF HandlerTypeInv, FreshInv, handlerVars
<1> QED
  BY <1>1, <1>2

LEMMA CachedStepInv ==
    ASSUME CachedInv, [CachedNext]_cachedVars
    PROVE  CachedInv'
<1>1. CASE UNCHANGED cachedVars
  <2>1. CacheInv'
    BY <1>1, CacheUntouched DEF CachedInv, cachedVars, cacheVars
  <2> QED
    BY <1>1, <2>1 DEF CachedInv, HandlerTypeInv, FreshInv, cachedVars, cacheVars, handlerVars
<1>2. CASE CachedNext
  BY <1>2, LookupInv, UpstreamInv, StoreAnswerInv, WriteAnswerInv, SecondInv
     DEF CachedNext
<1> QED
  BY <1>1, <1>2

LEMMA InitCachedInv == CachedInit => CachedInv
<1> SUFFICES ASSUME CachedInit PROVE CachedInv
  OBVIOUS
<1>1. CacheInv
  BY InitCacheInv DEF CachedInit
<1>2. HandlerTypeInv /\ FreshInv
  BY DEF CachedInit, HandlerTypeInv, FreshInv, None
<1> QED
  BY <1>1, <1>2 DEF CachedInv

\* Every reachable state of the cache in use satisfies the inductive invariant.
THEOREM CachedInvariant == CachedSpec => []CachedInv
BY InitCachedInv, CachedStepInv, PTL DEF CachedSpec

\* The list and the map of the cache hold the same keys, each of them once and no
\* more than the cache has room for, whatever --cache-size is (cache.go:112).
THEOREM CacheListMatchesMap == CachedSpec => []ListMatchesMap
<1>1. CachedInv => ListMatchesMap
  <2> SUFFICES ASSUME CachedInv PROVE ListMatchesMap
    OBVIOUS
  <2>1. /\ order \in Seq(Key) /\ Descending(order, lastUse)
        /\ ToSet(order) = DOMAIN items /\ lastUse \in [Key -> Nat]
        /\ Len(order) <= Max({MaxSize, 1})
    BY DEF CachedInv, CacheInv, ListInv, CacheTypeInv
  <2>2. Cardinality(ToSet(order)) = Len(order)
    BY <2>1, DescendingDistinct
  <2> QED
    BY <2>1, <2>2 DEF ListMatchesMap
<1> QED
  BY <1>1, CachedInvariant, PTL

\* No client keeps a record beyond twice its TTL and the time for which the lock of
\* the pool kept it from being stored, counted from when upstream gave it, however
\* many handlers share the cache and however often an answer is served (cache.go:93).
THEOREM RecordsKeptAtMostTwice == CachedSpec => []KeptAtMostTwice
<1>1. CachedInv => KeptAtMostTwice
  <2> SUFFICES ASSUME CachedInv, NEW c \in Handler, phase[c] = "write",
                      NEW t \in answer[c].ttls
               PROVE  now + t <= answer[c].since + MaxWait + 2 * t
    BY DEF KeptAtMostTwice
  <2>1. now \in Nat /\ answer[c].since \in Nat /\ t \in Nat
    BY DEF CachedInv, CacheInv, CacheTypeInv, HandlerTypeInv
  <2>2. now <= answer[c].since + MaxWait + t
    BY DEF CachedInv, FreshInv
  <2> QED
    BY <2>1, <2>2, CachedProxyAssumption
<1> QED
  BY <1>1, CachedInvariant, PTL

-----------------------------------------------------------------------------
(* The refinement.                                                         *)

LEMMA KeysOfItems == ListInv => DOMAIN items \subseteq Key
BY LenProperties DEF ListInv, ToSet

\* A lookup that finds nothing, or an entry that has expired.
LEMMA GetMissIsTakeNothing ==
    ASSUME CacheInv, NEW k \in Key, GetMiss(k) \/ GetExpired(k)
    PROVE  Store!TakeNothing(k)
BY DEF GetMiss, GetExpired, Without, Store!TakeNothing

LEMMA GetHitIsTake ==
    ASSUME CacheInv, NEW k \in Key, GetHit(k)
    PROVE  Store!Take(k)
<1>1. CacheTypeInv /\ DOMAIN items \subseteq Key /\ Use(k)
  BY KeysOfItems DEF CacheInv, GetHit
<1>2. \A j \in DOMAIN items \ {k} :
         lastUse'[j] = lastUse[j] /\ lastUse'[j] < lastUse'[k]
  BY <1>1, UseRanks
<1> QED
  BY <1>2 DEF GetHit, Store!Take, Store!Rearranged

\* The store counts as the cache does.
LEMMA SameCardinality == \A S : Store!Cardinality(S) = Cardinality(S)
BY DEF Store!Cardinality, Cardinality

\* Put forgets what was used longest ago, and no more than it has to.
LEMMA PutIsInsert ==
    ASSUME CacheInv, NEW k \in Key, NEW a \in SUBSET Nat, NEW since \in Nat,
           Put(k, a, since)
    PROVE  Store!Insert(k)
<1> DEFINE kept == ToSet(Kept(k))
           others == DOMAIN items \ {k}
<1>1. CacheTypeInv /\ ListInv /\ DOMAIN items \subseteq Key /\ Use(k)
  BY KeysOfItems DEF CacheInv, Put
<1>2. /\ kept \subseteq others
      /\ \A i \in others \ kept, j \in kept : lastUse[i] < lastUse[j]
  BY <1>1, KeptProperties
<1>3. /\ Cardinality(kept) < Max({MaxSize, 1})
      /\ kept # others => Cardinality(kept) = Max({MaxSize, 1}) - 1
  <2>1. Cardinality(kept) = Len(Kept(k))
    BY <1>1, KeptProperties, DescendingDistinct DEF CacheTypeInv
  <2> QED
    BY <1>1, <2>1, KeptProperties
<1>4. /\ DOMAIN items' = kept \cup {k}
      /\ \A j \in kept : items'[j] = items[j]
      /\ items'[k].expiresAt = now + MinTTL(a)
  <2>1. /\ DOMAIN items' = kept \cup {k}
        /\ \A j \in kept : items'[j] = items[j]
    BY PutEffect
  <2>2. items'[k] = [ttls |-> a, since |-> since, expiresAt |-> now + MinTTL(a)]
    BY PutEffect
  <2> HIDE DEF kept
  <2> QED
    BY <2>1, <2>2
<1>5. \A j \in kept : lastUse'[j] = lastUse[j] /\ lastUse'[j] < lastUse'[k]
  BY <1>1, <1>2, UseRanks
<1>6. now + MinTTL(a) > now /\ reply' = Miss /\ now' = now
  BY <1>1, MinTTLProperties DEF Put, CacheTypeInv
<1> HIDE DEF kept
<1>7. /\ kept \in SUBSET others
      /\ Store!Cardinality(kept) < Max({MaxSize, 1})
      /\ kept # others => Store!Cardinality(kept) = Max({MaxSize, 1}) - 1
  BY <1>2, <1>3, SameCardinality
<1>8. Store!Rearranged(kept \cup {k}, k)
  BY <1>2, <1>4, <1>5 DEF Store!Rearranged
<1> QED
  BY <1>2, <1>4, <1>6, <1>7, <1>8 DEF Store!Insert

LEMMA TickIsPass == Tick => Store!Pass
BY DEF Tick, Store!Pass

\* Every step of the handlers and of the clock is a step of the LRU store, or
\* none of its business.
LEMMA StepIsStoreStep ==
    ASSUME CachedInv, [CachedNext]_cachedVars
    PROVE  [Store!StoreNext]_(Store!storeVars)
<1>1. ASSUME NEW c \in Handler, NEW k \in Key, Lookup(c, k)
      PROVE  Store!StoreNext
  BY <1>1, GetMissIsTakeNothing, GetHitIsTake DEF Lookup, CachedInv, Store!StoreNext
<1>2. ASSUME NEW c \in Handler, StoreAnswer(c)
      PROVE  Store!StoreNext \/ UNCHANGED cacheVars
  <2>1. asked[c] \in Key /\ answer[c].ttls \in SUBSET Nat /\ answer[c].since \in Nat
    BY <1>2 DEF StoreAnswer, CachedInv, HandlerTypeInv
  <2> QED
    BY <1>2, <2>1, PutIsInsert DEF StoreAnswer, CachedInv, Store!StoreNext
<1>3. CASE Second
  BY <1>3, TickIsPass DEF Second, Store!StoreNext
<1>4. ASSUME NEW c \in Handler,
             \/ UpstreamFails(c) \/ WriteAnswer(c)
             \/ \E ttls \in Answer : UpstreamAnswers(c, ttls)
      PROVE  UNCHANGED cacheVars
  BY <1>4 DEF UpstreamFails, WriteAnswer, UpstreamAnswers
<1>5. UNCHANGED cachedVars => UNCHANGED cacheVars
  BY DEF cachedVars
<1>6. UNCHANGED cacheVars => UNCHANGED Store!storeVars
  BY DEF cacheVars, Store!storeVars
<1> QED
  BY <1>1, <1>2, <1>3, <1>4, <1>5, <1>6 DEF CachedNext

\* The cache with its list and its map implements the LRU store: it serves live
\* answers only, and forgets the ones used longest ago and no more than it has to,
\* for every number of keys and every size (cache.go:131).
THEOREM CacheIsLRUStore == CachedSpec => IsLRUStore
<1>1. CachedInit => Store!StoreInit
  BY DEF CachedInit, NewDNSCache, Store!StoreInit
<1> QED
  BY <1>1, CachedInvariant, StepIsStoreStep, PTL DEF CachedSpec, IsLRUStore, Store!StoreSpec
=============================================================================
