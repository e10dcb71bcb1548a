---------------------------- MODULE RankingProofs ---------------------------
(***************************************************************************)
(* The loops of Ranking do what they are meant to, for lists of any length *)
(* and any order of ranks: the sort returns its list in order, and the     *)
(* picking loop returns the good results in the order of the list.         *)
(*                                                                         *)
(* Induction is over sets of numbers, and the lists a loop goes through    *)
(* are shown to exist before anything is said about them.                  *)
(***************************************************************************)
EXTENDS Ranking, FunctionTheorems, WellFoundedInduction, TLAPS

-----------------------------------------------------------------------------
(* Induction.                                                              *)

\* A set with 0 and the successor of each of its members holds all numbers.
LEMMA SetInduction ==
    ASSUME NEW P, 0 \in P, \A n \in Nat : n \in P => n + 1 \in P
    PROVE  Nat \subseteq P
<1> SUFFICES ASSUME Nat \ P # {} PROVE FALSE
  OBVIOUS
<1> DEFINE less == {ss \in Nat \X Nat : ss[1] < ss[2]}
           missing == Nat \ P
<1>1. IsWellFoundedOn(less, Nat)
  BY NatLessThanWellFounded DEF OpToRel
<1> HIDE DEF less
<1>2. PICK m \in missing : \A n \in missing : <<n, m>> \notin less
  BY <1>1, WFMin
<1>3. m \in Nat /\ m # 0
  OBVIOUS
<1> DEFINE k == m - 1
<1>4. k \in Nat /\ k < m /\ k + 1 = m
  BY <1>3
<1> HIDE DEF k
<1>5. k \in missing
  BY <1>4
<1>6. <<k, m>> \in Nat \X Nat
  BY <1>3, <1>4
<1>7. <<k, m>> \in less
  BY <1>4, <1>6 DEF less
<1> QED
  BY <1>2, <1>5, <1>7

\* The same for the numbers up to N.
LEMMA SetInductionUpTo ==
    ASSUME NEW N \in Nat, NEW P, 0 \in P,
           \A n \in Nat : n < N /\ n \in P => n + 1 \in P
    PROVE  0 .. N \subseteq P
<1> DEFINE Q == P \cup {n \in Nat : n > N}
<1>1. 0 \in Q
  OBVIOUS
<1>2. ASSUME NEW n \in Nat, n \in Q PROVE n + 1 \in Q
  BY <1>2
<1> HIDE DEF Q
<1>3. Nat \subseteq Q
  BY <1>1, <1>2, SetInduction
<1> QED
  BY <1>3 DEF Q

\* The values g that a loop goes through, from base, when its pass n turns v into
\* step[<<v, n>>].
IsLoop(g, S, base, step) ==
    /\ g \in [Nat -> S]
    /\ g[0] = base
    /\ \A n \in Nat : g[n + 1] = step[<<g[n], n + 1>>]

LEMMA LoopExists ==
    ASSUME NEW S, NEW base \in S, NEW step \in [S \X Nat -> S]
    PROVE  \E g : IsLoop(g, S, base, step)
<1> DEFINE Partial(n) == {f \in [0 .. n -> S] :
                            /\ f[0] = base
                            /\ \A m \in Nat : m < n => f[m + 1] = step[<<f[m], m + 1>>]}
<1>1. \A n \in Nat : Partial(n) # {}
  <2> DEFINE P == {n \in Nat : Partial(n) # {}}
  <2>1. 0 \in P
    <3>1. [i \in 0 .. 0 |-> base] \in Partial(0)
      OBVIOUS
    <3> QED
      BY <3>1
  <2>2. ASSUME NEW n \in Nat, n \in P PROVE n + 1 \in P
    <3>1. PICK f \in Partial(n) : TRUE
      BY <2>2
    <3> DEFINE h == [i \in 0 .. n + 1 |-> IF i <= n THEN f[i] ELSE step[<<f[n], n + 1>>]]
    <3>2. f \in [0 .. n -> S] /\ f[0] = base
          /\ \A m \in Nat : m < n => f[m + 1] = step[<<f[m], m + 1>>]
      BY <3>1
    <3>3. step[<<f[n], n + 1>>] \in S
      <4>1. <<f[n], n + 1>> \in S \X Nat
        BY <3>2
      <4> QED
        BY <4>1
    <3>4. /\ h \in [0 .. n + 1 -> S] /\ h[0] = base
          /\ \A i \in 0 .. n : h[i] = f[i]
          /\ h[n + 1] = step[<<f[n], n + 1>>]
      BY <3>2, <3>3
    <3> HIDE DEF h
    <3>5. ASSUME NEW m \in Nat, m < n + 1 PROVE h[m + 1] = step[<<h[m], m + 1>>]
      <4>1. CASE m < n
        <5>1. m \in 0 .. n /\ m + 1 \in 0 .. n
          BY <4>1
        <5>2. h[m] = f[m] /\ h[m + 1] = f[m + 1]
          BY <3>4, <5>1
        <5>3. f[m + 1] = step[<<f[m], m + 1>>]
          BY <3>2, <4>1
        <5> QED
          BY <5>2, <5>3
      <4>2. CASE m = n
        <5>1. h[n] = f[n]
          BY <3>4
        <5> QED
          BY <3>4, <4>2, <5>1
      <4> QED
        BY <3>5, <4>1, <4>2
    <3>6. h \in Partial(n + 1)
      BY <3>4, <3>5
    <3> QED
      BY <3>6
  <2> HIDE DEF P
  <2>3. Nat \subseteq P
    BY <2>1, <2>2, SetInduction
  <2> QED
    BY <2>3 DEF P
<1> DEFINE Same(k) == \A m, n \in Nat : \A f \in Partial(m), h \in Partial(n) :
                          k <= m /\ k <= n => f[k] = h[k]
           Agree == {k \in Nat : Same(k)}
<1>2. Nat \subseteq Agree
  <2>1. Same(0)
    OBVIOUS
  <2>2. ASSUME NEW k \in Nat, Same(k) PROVE Same(k + 1)
    <3>1. ASSUME NEW m \in Nat, NEW n \in Nat, NEW f \in Partial(m),
                 NEW h \in Partial(n), k + 1 <= m, k + 1 <= n
          PROVE  f[k + 1] = h[k + 1]
      <4>1. k <= m /\ k <= n /\ k < m /\ k < n
        BY <3>1
      <4>2. f[k] = h[k]
        BY <2>2, <4>1
      <4>3. f[k + 1] = step[<<f[k], k + 1>>] /\ h[k + 1] = step[<<h[k], k + 1>>]
        BY <4>1
      <4> QED
        BY <4>2, <4>3
    <3> HIDE DEF Partial
    <3> QED
      BY <3>1, Zenon
  <2> HIDE DEF Same
  <2>3. 0 \in Agree /\ \A k \in Nat : k \in Agree => k + 1 \in Agree
    BY <2>1, <2>2
  <2> HIDE DEF Agree
  <2> QED
    BY <2>3, SetInduction
<1> DEFINE some == [n \in Nat |-> CHOOSE f \in Partial(n) : TRUE]
           g == [n \in Nat |-> some[n][n]]
<1>3. \A n \in Nat : some[n] \in Partial(n)
  BY <1>1
<1> HIDE DEF some
<1>4. g \in [Nat -> S] /\ g[0] = base
  BY <1>3
<1>5. ASSUME NEW n \in Nat PROVE g[n + 1] = step[<<g[n], n + 1>>]
  <2>1. n + 1 \in Nat /\ n < n + 1 /\ n <= n + 1 /\ n <= n
    OBVIOUS
  <2> DEFINE f == some[n]
             h == some[n + 1]
  <2>2. f \in Partial(n) /\ h \in Partial(n + 1)
    BY <1>3, <2>1
  <2>3. g[n] = f[n] /\ g[n + 1] = h[n + 1]
    BY <2>1
  <2> HIDE DEF f, h, g
  <2>4. h[n + 1] = step[<<h[n], n + 1>>]
    BY <2>1, <2>2
  <2>5. n \in Agree
    BY <1>2
  <2>6. f[n] = h[n]
    BY <2>1, <2>2, <2>5
  <2> QED
    BY <2>3, <2>4, <2>6
<1> HIDE DEF g
<1> QED
  BY <1>4, <1>5 DEF IsLoop

-----------------------------------------------------------------------------
(* The sort.                                                               *)

\* What the comparisons of the code satisfy: an order with ties.
WeakOrder(A) ==
    /\ \A x, y \in A : Ahead(x, y) => ~Ahead(y, x)
    /\ \A x, y, z \in A : ~Ahead(x, y) /\ ~Ahead(y, z) => ~Ahead(x, z)

\* The lists that hold the members of A once each.
Arrangements(A, L) ==
    {s \in [1 .. L -> A] : /\ \A i, j \in 1 .. L : s[i] = s[j] => i = j
                          /\ \A x \in A : \E i \in 1 .. L : s[i] = x}

\* No one of the first n is ahead of one before it, but perhaps the one at hole.
OrderedBut(s, n, hole) ==
    \A a, b \in 1 .. n : a < b /\ b # hole => ~Ahead(s[b], s[a])

Ordered(s, n) == \A a, b \in 1 .. n : a < b => ~Ahead(s[b], s[a])

\* A comparison rearranges the list.
LEMMA CompareSwapRearranges ==
    ASSUME NEW A, NEW L \in Nat, NEW s \in Arrangements(A, L),
           NEW k \in Nat, 1 <= k, k < L
    PROVE  LET t == CompareSwap(s, k + 1)
           IN  /\ t \in Arrangements(A, L)
               /\ \A i \in 1 .. L : i # k /\ i # k + 1 => t[i] = s[i]
               /\ \/ Ahead(s[k + 1], s[k]) /\ t[k] = s[k + 1] /\ t[k + 1] = s[k]
                  \/ ~Ahead(s[k + 1], s[k]) /\ t = s
<1> DEFINE t == CompareSwap(s, k + 1)
           u == [s EXCEPT ![k + 1] = s[k], ![k] = s[k + 1]]
<1>1. /\ k \in 1 .. L /\ k + 1 \in 1 .. L /\ (k + 1) - 1 = k /\ k # k + 1
      /\ s \in [1 .. L -> A]
      /\ \A i, j \in 1 .. L : s[i] = s[j] => i = j
      /\ \A x \in A : \E i \in 1 .. L : s[i] = x
  BY DEF Arrangements
<1>2. t = IF Ahead(s[k + 1], s[k]) THEN u ELSE s
  BY <1>1 DEF CompareSwap
<1>3. /\ u \in [1 .. L -> A] /\ u[k] = s[k + 1] /\ u[k + 1] = s[k]
      /\ \A i \in 1 .. L : i # k /\ i # k + 1 => u[i] = s[i]
  BY <1>1
<1> HIDE DEF u, t
<1>4. ASSUME NEW i \in 1 .. L, NEW j \in 1 .. L, u[i] = u[j] PROVE i = j
  <2> DEFINE f(n) == IF n = k THEN k + 1 ELSE IF n = k + 1 THEN k ELSE n
  <2>1. \A n \in 1 .. L : f(n) \in 1 .. L /\ u[n] = s[f(n)]
    BY <1>1, <1>3
  <2>2. f(i) = f(j)
    <3> HIDE DEF f
    <3> QED
      BY <1>1, <1>4, <2>1
  <2> QED
    BY <1>1, <2>2
<1>5. ASSUME NEW x \in A PROVE \E i \in 1 .. L : u[i] = x
  <2>1. PICK i \in 1 .. L : s[i] = x
    BY <1>1
  <2>2. CASE i = k
    BY <1>1, <1>3, <2>1, <2>2
  <2>3. CASE i = k + 1
    BY <1>1, <1>3, <2>1, <2>3
  <2>4. CASE i # k /\ i # k + 1
    BY <1>3, <2>1, <2>4
  <2> QED
    BY <2>2, <2>3, <2>4
<1>6. u \in Arrangements(A, L)
  BY <1>3, <1>4, <1>5 DEF Arrangements
<1> QED
  BY <1>2, <1>3, <1>6 DEF t

\* A comparison moves the hole one place to the front.
LEMMA CompareSwapMovesHole ==
    ASSUME NEW A, WeakOrder(A), NEW L \in Nat, NEW s \in Arrangements(A, L),
           NEW k \in Nat, 1 <= k, NEW n \in 1 .. L, k < n, OrderedBut(s, n, k + 1)
    PROVE  OrderedBut(CompareSwap(s, k + 1), n, k)
<1> DEFINE t == CompareSwap(s, k + 1)
<1>1. /\ t \in Arrangements(A, L)
      /\ \A i \in 1 .. L : i # k /\ i # k + 1 => t[i] = s[i]
      /\ \/ Ahead(s[k + 1], s[k]) /\ t[k] = s[k + 1] /\ t[k + 1] = s[k]
         \/ ~Ahead(s[k + 1], s[k]) /\ t = s
  BY CompareSwapRearranges
<1> HIDE DEF t
<1>2. \A i \in 1 .. L : s[i] \in A
  BY DEF Arrangements
<1>3. \A i \in 1 .. n : i \in 1 .. L
  OBVIOUS
<1> SUFFICES ASSUME NEW a \in 1 .. n, NEW b \in 1 .. n, a < b, b # k
             PROVE  ~Ahead(t[b], t[a])
  BY DEF OrderedBut, t
<1>4. k \in 1 .. n /\ k + 1 \in 1 .. n /\ k < k + 1 /\ k # k + 1
  OBVIOUS
<1>5. CASE b # k + 1
  <2>1. t[b] = s[b]
    BY <1>1, <1>3, <1>5
  <2>2. \E c \in 1 .. n : c < b /\ t[a] = s[c]
    BY <1>1, <1>3, <1>4, <1>5
  <2> QED
    BY <1>5, <2>1, <2>2 DEF OrderedBut
<1>6. CASE b = k + 1 /\ a = k
  BY <1>1, <1>2, <1>3, <1>4, <1>6 DEF WeakOrder
<1>7. CASE b = k + 1 /\ a # k
  <2>1. a < k /\ t[a] = s[a]
    BY <1>1, <1>3, <1>7
  <2>2. ~Ahead(s[k], s[a])
    BY <1>4, <2>1 DEF OrderedBut
  <2>3. s[a] \in A /\ s[k] \in A /\ s[k + 1] \in A
    BY <1>2, <1>3, <1>4
  <2> QED
    BY <1>1, <1>7, <2>1, <2>2, <2>3 DEF WeakOrder
<1> QED
  BY <1>5, <1>6, <1>7

\* The inner loop takes the i-th result to its place among the first i.
LEMMA SinkIntoOrders ==
    ASSUME NEW A, WeakOrder(A), NEW L \in Nat, NEW s \in Arrangements(A, L),
           NEW i \in Nat, i < L, Ordered(s, i)
    PROVE  /\ SinkInto(s, i + 1) \in Arrangements(A, L)
           /\ Ordered(SinkInto(s, i + 1), i + 1)
<1> DEFINE S == Arrangements(A, L)
           Loop(f) == [n \in 0 .. i |-> IF n = 0 THEN s ELSE CompareSwap(f[n - 1], i + 2 - n)]
           step == [p \in S \X Nat |-> IF p[2] <= i /\ 1 <= p[2]
                                       THEN CompareSwap(p[1], i + 2 - p[2]) ELSE p[1]]
           after == CHOOSE f : f = Loop(f)
<1>1. SinkInto(s, i + 1) = after[i]
  <2>1. (i + 1) - 1 = i /\ \A n \in 0 .. i : (i + 1) + 1 - n = i + 2 - n
    OBVIOUS
  <2>2. \A f : [n \in 0 .. i |-> IF n = 0 THEN s ELSE CompareSwap(f[n - 1], (i + 1) + 1 - n)]
              = Loop(f)
    BY <2>1
  <2>3. SinkInto(s, i + 1) =
          (CHOOSE f : f = [n \in 0 .. (i + 1) - 1 |->
                             IF n = 0 THEN s
                             ELSE CompareSwap(f[n - 1], (i + 1) + 1 - n)])[(i + 1) - 1]
    BY Zenon DEF SinkInto
  <2>4. SinkInto(s, i + 1) =
          (CHOOSE f : f = [n \in 0 .. i |->
                             IF n = 0 THEN s ELSE CompareSwap(f[n - 1], (i + 1) + 1 - n)])[i]
    BY <2>1, <2>3, Zenon
  <2> QED
    BY <2>2, <2>4, Zenon
<1>2. \A t \in S : \A m \in Nat : m < i => CompareSwap(t, i + 1 - m) \in S
  <2> SUFFICES ASSUME NEW t \in S, NEW m \in Nat, m < i PROVE CompareSwap(t, i + 1 - m) \in S
    OBVIOUS
  <2> DEFINE k == i - m
  <2>1. k \in Nat /\ 1 <= k /\ k < L /\ i + 1 - m = k + 1
    OBVIOUS
  <2> HIDE DEF k
  <2>2. CompareSwap(t, k + 1) \in S
    BY <2>1, CompareSwapRearranges
  <2> QED
    BY <2>1, <2>2
<1>3. step \in [S \X Nat -> S]
  <2> SUFFICES ASSUME NEW t \in S, NEW n \in Nat, n <= i, 1 <= n
               PROVE  CompareSwap(t, i + 2 - n) \in S
    OBVIOUS
  <2> DEFINE m == n - 1
  <2>1. m \in Nat /\ m < i /\ i + 2 - n = i + 1 - m
    OBVIOUS
  <2> HIDE DEF m
  <2> QED
    BY <1>2, <2>1
<1>4. \A t \in S : \A m \in Nat : m < i => step[<<t, m + 1>>] = CompareSwap(t, i + 1 - m)
  <2> SUFFICES ASSUME NEW t \in S, NEW m \in Nat, m < i
               PROVE  step[<<t, m + 1>>] = CompareSwap(t, i + 1 - m)
    OBVIOUS
  <2>1. <<t, m + 1>> \in S \X Nat /\ m + 1 <= i /\ 1 <= m + 1 /\ i + 2 - (m + 1) = i + 1 - m
    OBVIOUS
  <2>2. step[<<t, m + 1>>] = CompareSwap(t, i + 2 - (m + 1))
    BY <2>1
  <2> QED
    BY <2>1, <2>2
<1> HIDE DEF step
<1>5. \E f : f = Loop(f)
  <2>1. PICK g : IsLoop(g, S, s, step)
    BY <1>3, LoopExists
  <2> DEFINE h == [n \in 0 .. i |-> g[n]]
  <2>2. ASSUME NEW n \in 0 .. i PROVE h[n] = Loop(h)[n]
    <3>1. CASE n = 0
      BY <2>1, <3>1 DEF IsLoop
    <3>2. CASE n # 0
      <4> DEFINE m == n - 1
      <4>1. m \in Nat /\ m < i /\ n = m + 1 /\ n - 1 = m /\ i + 2 - n = i + 1 - m /\ m \in 0 .. i
        BY <3>2
      <4> HIDE DEF m
      <4>2. h[n] = g[m + 1] /\ h[m] = g[m]
        BY <4>1
      <4>3. g[m] \in S
        BY <2>1, <4>1 DEF IsLoop
      <4>4. g[m + 1] = CompareSwap(g[m], i + 1 - m)
        BY <1>4, <2>1, <4>1, <4>3 DEF IsLoop
      <4>5. Loop(h)[n] = CompareSwap(h[n - 1], i + 2 - n)
        BY <3>2
      <4>6. Loop(h)[n] = CompareSwap(h[m], i + 1 - m)
        BY <4>1, <4>5
      <4> QED
        BY <4>2, <4>4, <4>6
    <3> QED
      BY <3>1, <3>2
  <2>3. h = Loop(h)
    BY <2>2
  <2> QED
    BY <2>3
<1>6. after = Loop(after)
  BY <1>5
<1> HIDE DEF after
<1>7. after[0] = s /\ \A m \in Nat : m < i => after[m + 1] = CompareSwap(after[m], i + 1 - m)
  <2>1. \A n \in 0 .. i : after[n] = IF n = 0 THEN s ELSE CompareSwap(after[n - 1], i + 2 - n)
    BY <1>6
  <2>2. ASSUME NEW m \in Nat, m < i PROVE after[m + 1] = CompareSwap(after[m], i + 1 - m)
    <3>1. m + 1 \in 0 .. i /\ m + 1 # 0 /\ (m + 1) - 1 = m /\ i + 2 - (m + 1) = i + 1 - m
      BY <2>2
    <3>2. after[m + 1] = CompareSwap(after[(m + 1) - 1], i + 2 - (m + 1))
      BY <2>1, <3>1
    <3> QED
      BY <3>1, <3>2
  <2>3. after[0] = s
    BY <2>1
  <2> QED
    BY <2>2, <2>3
<1> DEFINE P == {n \in Nat : after[n] \in S /\ OrderedBut(after[n], i + 1, i + 1 - n)}
<1>8. 0 \in P
  BY <1>7 DEF Ordered, OrderedBut
<1>9. ASSUME NEW n \in Nat, n < i, n \in P PROVE n + 1 \in P
  <2> DEFINE k == i - n
             t == after[n]
  <2>1. /\ k \in Nat /\ 1 <= k /\ k < L /\ k < i + 1 /\ i + 1 \in 1 .. L
        /\ i + 1 - n = k + 1 /\ i + 1 - (n + 1) = k
    BY <1>9
  <2>2. t \in S /\ OrderedBut(t, i + 1, k + 1) /\ after[n + 1] = CompareSwap(t, k + 1)
    BY <1>7, <1>9, <2>1
  <2> HIDE DEF k, t
  <2>3. CompareSwap(t, k + 1) \in S
    BY <2>1, <2>2, CompareSwapRearranges
  <2>4. OrderedBut(CompareSwap(t, k + 1), i + 1, k)
    BY <2>1, <2>2, CompareSwapMovesHole
  <2> QED
    BY <2>1, <2>2, <2>3, <2>4
<1> HIDE DEF P
<1>10. i \in P
  <2>1. 0 .. i \subseteq P
    BY <1>8, <1>9, SetInductionUpTo
  <2> QED
    BY <2>1
<1>11. after[i] \in S /\ OrderedBut(after[i], i + 1, 1)
  BY <1>10 DEF P
<1> QED
  BY <1>1, <1>11 DEF Ordered, OrderedBut

\* The insertion sort rearranges a list of any length so that none is ahead of one
\* before it (sortVerifyResults, autoscan.go:326; runScan, scanner.go:573).
THEOREM SortOrders ==
    ASSUME NEW A, WeakOrder(A), NEW L \in Nat, NEW s \in Arrangements(A, L)
    PROVE  /\ InsertionSort(s) \in Arrangements(A, L)
           /\ Ordered(InsertionSort(s), L)
<1> DEFINE S == Arrangements(A, L)
           Loop(f) == [n \in 0 .. L |-> IF n = 0 THEN s ELSE SinkInto(f[n - 1], n)]
           step == [p \in S \X Nat |-> IF SinkInto(p[1], p[2]) \in S
                                       THEN SinkInto(p[1], p[2]) ELSE p[1]]
           after == CHOOSE f : f = Loop(f)
<1>1. InsertionSort(s) = after[L]
  <2>1. Len(s) = L
    BY DEF Arrangements
  <2>2. InsertionSort(s) =
          (CHOOSE f : f = [n \in 0 .. Len(s) |->
                             IF n = 0 THEN s ELSE SinkInto(f[n - 1], n)])[Len(s)]
    BY Zenon DEF InsertionSort
  <2> QED
    BY <2>1, <2>2, Zenon
<1>2. \A t \in S : \A m \in Nat : m < L /\ Ordered(t, m)
         => SinkInto(t, m + 1) \in S /\ Ordered(SinkInto(t, m + 1), m + 1)
  BY SinkIntoOrders
<1>3. step \in [S \X Nat -> S]
  OBVIOUS
<1>4. \A t \in S : \A m \in Nat : m < L /\ Ordered(t, m)
         => step[<<t, m + 1>>] = SinkInto(t, m + 1)
  BY <1>2
<1>5. Ordered(s, 0)
  BY DEF Ordered
<1> HIDE DEF step
<1>6. \E f : f = Loop(f)
  <2>1. PICK g : IsLoop(g, S, s, step)
    BY <1>3, LoopExists
  <2> DEFINE P == {n \in Nat : Ordered(g[n], n)}
  <2>2. 0 \in P
    BY <1>5, <2>1 DEF IsLoop
  <2>3. ASSUME NEW m \in Nat, m < L, Ordered(g[m], m)
        PROVE  g[m + 1] = SinkInto(g[m], m + 1) /\ Ordered(g[m + 1], m + 1)
    <3>1. g[m] \in S /\ g[m + 1] = step[<<g[m], m + 1>>]
      BY <2>1 DEF IsLoop
    <3> QED
      BY <1>2, <1>4, <2>3, <3>1
  <2>4. \A n \in Nat : n < L /\ n \in P => n + 1 \in P
    BY <2>3
  <2> HIDE DEF P
  <2>5. 0 .. L \subseteq P
    BY <2>2, <2>4, SetInductionUpTo
  <2> DEFINE h == [n \in 0 .. L |-> g[n]]
  <2>6. ASSUME NEW n \in 0 .. L PROVE h[n] = Loop(h)[n]
    <3>1. CASE n = 0
      BY <2>1, <3>1 DEF IsLoop
    <3>2. CASE n # 0
      <4> DEFINE m == n - 1
      <4>1. m \in Nat /\ m < L /\ n = m + 1 /\ n - 1 = m /\ m \in 0 .. L
        BY <3>2
      <4> HIDE DEF m
      <4>2. h[n] = g[m + 1] /\ h[m] = g[m]
        BY <4>1
      <4>3. g[m + 1] = SinkInto(g[m], m + 1)
        BY <2>3, <2>5, <4>1 DEF P
      <4>4. Loop(h)[n] = SinkInto(h[n - 1], n)
        BY <3>2
      <4> QED
        BY <4>1, <4>2, <4>3, <4>4
    <3> QED
      BY <3>1, <3>2
  <2>7. h = Loop(h)
    BY <2>6
  <2> QED
    BY <2>7
<1>7. after = Loop(after)
  BY <1>6
<1> HIDE DEF after
<1>8. after[0] = s /\ \A m \in Nat : m < L => after[m + 1] = SinkInto(after[m], m + 1)
  <2>1. \A n \in 0 .. L : after[n] = IF n = 0 THEN s ELSE SinkInto(after[n - 1], n)
    BY <1>7
  <2>2. ASSUME NEW m \in Nat, m < L PROVE after[m + 1] = SinkInto(after[m], m + 1)
    <3>1. m + 1 \in 0 .. L /\ m + 1 # 0 /\ (m + 1) - 1 = m
      BY <2>2
    <3>2. after[m + 1] = SinkInto(after[(m + 1) - 1], m + 1)
      BY <2>1, <3>1
    <3> QED
      BY <3>1, <3>2
  <2>3. after[0] = s
    BY <2>1
  <2> QED
    BY <2>2, <2>3
<1> DEFINE Q == {n \in Nat : after[n] \in S /\ Ordered(after[n], n)}
<1>9. 0 \in Q
  BY <1>5, <1>8
<1>10. \A n \in Nat : n < L /\ n \in Q => n + 1 \in Q
  BY <1>2, <1>8
<1> HIDE DEF Q
<1>11. 0 .. L \subseteq Q
  BY <1>9, <1>10, SetInductionUpTo
<1>12. L \in Q
  BY <1>11
<1> QED
  BY <1>1, <1>12 DEF Q

-----------------------------------------------------------------------------
(* Picking.                                                                *)

\* q holds the good ones of the first n of s, in the order they have there.
PickOf(q, s, n, good) ==
    /\ \A k \in 1 .. Len(q) : \E i \in 1 .. n : q[k] = s[i] /\ s[i] \in good
    /\ \A i \in 1 .. n : s[i] \in good => \E k \in 1 .. Len(q) : q[k] = s[i]
    /\ \A k, l \in 1 .. Len(q) :
          k < l => \E i, j \in 1 .. n : i < j /\ q[k] = s[i] /\ q[l] = s[j]

LEMMA PickOneMore ==
    ASSUME NEW A, NEW L \in Nat, NEW s \in [1 .. L -> A], NEW good,
           NEW q \in Seq(A), NEW n \in Nat, n < L, PickOf(q, s, n, good),
           NEW t, t = IF s[n + 1] \in good THEN Append(q, s[n + 1]) ELSE q
    PROVE  t \in Seq(A) /\ PickOf(t, s, n + 1, good)
<1>1. n + 1 \in 1 .. L /\ s[n + 1] \in A /\ \A i \in 1 .. n : i \in 1 .. n + 1 /\ i < n + 1
  OBVIOUS
<1>2. CASE s[n + 1] \notin good
  <2>1. t = q
    BY <1>2
  <2>2. \A i \in 1 .. n + 1 : s[i] \in good => i \in 1 .. n
    BY <1>2
  <2> QED
    BY <1>1, <2>1, <2>2 DEF PickOf
<1>3. CASE s[n + 1] \in good
  <2> DEFINE x == s[n + 1]
             m == Len(q)
  <2>1. m \in Nat
    OBVIOUS
  <2>2. /\ t \in Seq(A) /\ Len(t) = m + 1 /\ t[m + 1] = x
        /\ \A k \in 1 .. m : t[k] = q[k]
    BY <1>1, <1>3
  <2> HIDE DEF x, m
  <2>3. \A k \in 1 .. m + 1 : k \in 1 .. m \/ k = m + 1
    BY <2>1
  <2>4. /\ \A k \in 1 .. m : \E i \in 1 .. n : q[k] = s[i] /\ s[i] \in good
        /\ \A i \in 1 .. n : s[i] \in good => \E k \in 1 .. m : q[k] = s[i]
        /\ \A k, l \in 1 .. m :
              k < l => \E i, j \in 1 .. n : i < j /\ q[k] = s[i] /\ q[l] = s[j]
    BY DEF PickOf, m
  <2>5. ASSUME NEW k \in 1 .. m + 1
        PROVE  \E i \in 1 .. n + 1 : t[k] = s[i] /\ s[i] \in good
    <3>1. CASE k = m + 1
      BY <1>3, <2>2, <3>1 DEF x
    <3>2. CASE k \in 1 .. m
      BY <1>1, <2>2, <2>4, <3>2
    <3> QED
      BY <2>3, <3>1, <3>2
  <2>6. ASSUME NEW i \in 1 .. n + 1, s[i] \in good
        PROVE  \E k \in 1 .. m + 1 : t[k] = s[i]
    <3>1. CASE i = n + 1
      <4>1. m + 1 \in 1 .. m + 1
        BY <2>1
      <4>2. t[m + 1] = s[i]
        BY <2>2, <3>1 DEF x
      <4> QED
        BY <4>1, <4>2
    <3>2. CASE i \in 1 .. n
      <4>1. PICK k \in 1 .. m : q[k] = s[i]
        BY <2>4, <2>6, <3>2
      <4>2. k \in 1 .. m + 1
        BY <2>1
      <4> QED
        BY <2>2, <4>1, <4>2
    <3>3. i = n + 1 \/ i \in 1 .. n
      OBVIOUS
    <3> QED
      BY <3>1, <3>2, <3>3, Zenon
  <2>7. ASSUME NEW k \in 1 .. m + 1, NEW l \in 1 .. m + 1, k < l
        PROVE  \E i, j \in 1 .. n + 1 : i < j /\ t[k] = s[i] /\ t[l] = s[j]
    <3>1. k \in 1 .. m
      BY <2>1, <2>7
    <3>2. CASE l = m + 1
      <4>1. PICK i \in 1 .. n : q[k] = s[i]
        BY <2>4, <3>1
      <4> QED
        BY <1>1, <2>2, <3>1, <3>2, <4>1 DEF x
    <3>3. CASE l \in 1 .. m
      BY <1>1, <2>2, <2>4, <2>7, <3>1, <3>3
    <3> QED
      BY <2>3, <3>2, <3>3
  <2>8. 1 .. Len(t) = 1 .. m + 1
    BY <2>2
  <2>9. ASSUME NEW k \in 1 .. Len(t)
        PROVE  \E i \in 1 .. n + 1 : t[k] = s[i] /\ s[i] \in good
    <3>1. k \in 1 .. m + 1
      BY <2>8, Zenon
    <3> QED
      BY <2>5, <3>1, Zenon
  <2>10. \A i \in 1 .. n + 1 : s[i] \in good => \E k \in 1 .. Len(t) : t[k] = s[i]
    BY <2>6, <2>8, Zenon
  <2>11. ASSUME NEW k \in 1 .. Len(t), NEW l \in 1 .. Len(t), k < l
         PROVE  \E i, j \in 1 .. n + 1 : i < j /\ t[k] = s[i] /\ t[l] = s[j]
    <3>1. k \in 1 .. m + 1 /\ l \in 1 .. m + 1
      BY <2>8, Zenon
    <3> QED
      BY <2>7, <2>11, <3>1, Zenon
  <2> QED
    BY <2>2, <2>9, <2>10, <2>11, Zenon DEF PickOf
<1> QED
  BY <1>2, <1>3

\* The picking loop returns the good results of a list of any length, and only
\* those, in the order of the list (processResults, autoscan.go:253).
THEOREM PickedInOrder ==
    ASSUME NEW A, NEW L \in Nat, NEW s \in [1 .. L -> A], NEW good
    PROVE  Picked(s, good) \in Seq(A) /\ PickOf(Picked(s, good), s, L, good)
<1> DEFINE S == Seq(A)
           Pass(t, n) == IF s[n] \in good THEN Append(t, s[n]) ELSE t
           Loop(f) == [n \in 0 .. L |-> IF n = 0 THEN <<>> ELSE Pass(f[n - 1], n)]
           step == [p \in S \X Nat |-> IF Pass(p[1], p[2]) \in S
                                       THEN Pass(p[1], p[2]) ELSE p[1]]
           after == CHOOSE f : f = Loop(f)
<1>1. Picked(s, good) = after[L]
  <2>1. Len(s) = L
    OBVIOUS
  <2>2. Picked(s, good) =
          (CHOOSE f : f = [n \in 0 .. Len(s) |->
                             IF n = 0 THEN <<>>
                             ELSE IF s[n] \in good THEN Append(f[n - 1], s[n])
                                  ELSE f[n - 1]])[Len(s)]
    BY Zenon DEF Picked
  <2> QED
    BY <2>1, <2>2, Zenon
<1>2. ASSUME NEW t \in S, NEW m \in Nat, m < L PROVE Pass(t, m + 1) \in S
  <2>1. m + 1 \in 1 .. L
    BY <1>2
  <2>2. s[m + 1] \in A
    BY <2>1
  <2> QED
    BY <2>2
<1>3. ASSUME NEW t \in S, NEW m \in Nat, m < L, PickOf(t, s, m, good)
      PROVE  PickOf(Pass(t, m + 1), s, m + 1, good)
  BY <1>3, PickOneMore
<1>4. PickOf(<<>>, s, 0, good) /\ <<>> \in S
  BY DEF PickOf
<1> HIDE DEF Pass
<1>5. step \in [S \X Nat -> S]
  OBVIOUS
<1>6. \A t \in S : \A m \in Nat : m < L => step[<<t, m + 1>>] = Pass(t, m + 1)
  BY <1>2
<1> HIDE DEF step
<1>7. \E f : f = Loop(f)
  <2>1. PICK g : IsLoop(g, S, <<>>, step)
    BY <1>4, <1>5, LoopExists
  <2>2. ASSUME NEW m \in Nat, m < L PROVE g[m + 1] = Pass(g[m], m + 1)
    <3>1. g[m] \in S /\ g[m + 1] = step[<<g[m], m + 1>>]
      BY <2>1 DEF IsLoop
    <3> QED
      BY <1>6, <2>2, <3>1
  <2> DEFINE h == [n \in 0 .. L |-> g[n]]
  <2>3. ASSUME NEW n \in 0 .. L PROVE h[n] = Loop(h)[n]
    <3>1. CASE n = 0
      BY <2>1, <3>1 DEF IsLoop
    <3>2. CASE n # 0
      <4> DEFINE m == n - 1
      <4>1. m \in Nat /\ m < L /\ n = m + 1 /\ n - 1 = m /\ m \in 0 .. L
        BY <3>2
      <4> HIDE DEF m
      <4>2. h[n] = g[m + 1] /\ h[m] = g[m]
        BY <4>1
      <4>3. g[m + 1] = Pass(g[m], m + 1)
        BY <2>2, <4>1
      <4>4. Loop(h)[n] = Pass(h[n - 1], n)
        BY <3>2
      <4> QED
        BY <4>1, <4>2, <4>3, <4>4
    <3> QED
      BY <3>1, <3>2
  <2>4. h = Loop(h)
    BY <2>3
  <2> QED
    BY <2>4
<1>8. after = Loop(after)
  BY <1>7
<1> HIDE DEF after
<1>9. after[0] = <<>> /\ \A m \in Nat : m < L => after[m + 1] = Pass(after[m], m + 1)
  <2>1. \A n \in 0 .. L : after[n] = IF n = 0 THEN <<>> ELSE Pass(after[n - 1], n)
    BY <1>8
  <2>2. ASSUME NEW m \in Nat, m < L PROVE after[m + 1] = Pass(after[m], m + 1)
    <3>1. m + 1 \in 0 .. L /\ m + 1 # 0 /\ (m + 1) - 1 = m
      BY <2>2
    <3>2. after[m + 1] = Pass(after[(m + 1) - 1], m + 1)
      BY <2>1, <3>1
    <3> QED
      BY <3>1, <3>2
  <2>3. after[0] = <<>>
    BY <2>1
  <2> QED
    BY <2>2, <2>3
<1> DEFINE Q == {n \in Nat : after[n] \in S /\ PickOf(after[n], s, n, good)}
<1>10. 0 \in Q
  BY <1>4, <1>9
<1>11. \A n \in Nat : n < L /\ n \in Q => n + 1 \in Q
  BY <1>2, <1>3, <1>9
<1> HIDE DEF Q
<1>12. L \in Q
  <2>1. 0 .. L \subseteq Q
    BY <1>10, <1>11, SetInductionUpTo
  <2> QED
    BY <2>1
<1> QED
  BY <1>1, <1>12 DEF Q
=============================================================================
