-------------------------- MODULE VerifyScanProofs --------------------------
(***************************************************************************)
(* Theorems about VerifyScan, for any list, number of workers, target and  *)
(* latencies: the slots are accounted for, and one list is handed over.    *)
(***************************************************************************)
EXTENDS VerifyScan, FiniteSetTheorems, TLAPS

WorkerLabel == {"none", "verify", "updating", "return", "done"}

ScanTypeInv ==
    /\ tested \subseteq Entry
    /\ todo \subseteq tested
    /\ worker \in [Entry -> WorkerLabel]
    /\ readySent \in BOOLEAN

\* An entry the loop has not reached has no goroutine, nor has one outside the scan.
LaunchInv == \A r \in Entry : r \in todo \/ r \notin tested => worker[r] = "none"

\* The slots taken are those of the goroutines between launch and release.
SlotInv == sem = Cardinality(Holding) /\ sem <= Workers

\* Once the wait for the workers is over, none of them is left.
WaitInv == mainPc # "launch" => todo = {} /\ \A r \in tested : worker[r] = "done"

\* Whoever claimed the early callback stays in it, so that the wait for the
\* workers does not end.
ClaimInv == readySent => mainPc = "launch" /\ \E r \in tested : worker[r] = "updating"

\* A list is handed over exactly when somebody is in the call.
HandedInv ==
    /\ readySent \/ mainPc = "updating" => \E list : handed = <<list>>
    /\ ~(readySent \/ mainPc = "updating") => handed = <<>>

VerifyInv ==
    ScanTypeInv /\ LaunchInv /\ SlotInv /\ WaitInv /\ ClaimInv /\ HandedInv

-----------------------------------------------------------------------------
(* The lists that processResults makes.                                    *)

RankP == INSTANCE RankingProofs WITH Ahead <- Better

\* The results a scan may record.
Result == UNION {VerifyResults(r) : r \in Entry}

\* Lists of results of different resolvers.
ResultLists ==
    {s \in Seq(Result) :
        \A i, j \in 1 .. Len(s) : s[i].entry = s[j].entry => i = j}

LEMMA ResultFields ==
    ASSUME NEW x \in Result
    PROVE  /\ x.entry \in Entry
           /\ x \in VerifyResults(x.entry)
           /\ x.verified \in BOOLEAN
           /\ x.latency \in Nat
           /\ x.verified => x.status = "WORKING"
<1>1. PICK r \in Entry : x \in VerifyResults(r)
  BY DEF Result
<1>2. x \in [entry : {r}, status : {"WORKING", "TIMEOUT", "ERROR"},
             verified : BOOLEAN, latency : Latency]
  BY <1>1 DEF VerifyResults
<1>3. x.entry = r /\ x.verified \in BOOLEAN /\ x.latency \in Latency
  BY <1>2
<1>4. x.verified => x.status = "WORKING"
  BY <1>1 DEF VerifyResults
<1> QED
  BY <1>1, <1>3, <1>4, VerifyAssumption

\* The comparison of sortVerifyResults is an order with ties.
LEMMA BetterIsWeakOrder == ASSUME NEW A, A \subseteq Result PROVE RankP!WeakOrder(A)
<1>1. \A x \in A : x.verified \in BOOLEAN /\ x.latency \in Nat
  BY ResultFields
<1> QED
  BY <1>1 DEF RankP!WeakOrder, Better

\* The loops are the same in both instances.
LEMMA SameLoops ==
    ASSUME NEW s, NEW good
    PROVE  /\ Rank!InsertionSort(s) = RankP!InsertionSort(s)
           /\ Rank!Picked(s, good) = RankP!Picked(s, good)
<1>1. \A t, j : Rank!CompareSwap(t, j) = RankP!CompareSwap(t, j)
  BY Zenon DEF Rank!CompareSwap, RankP!CompareSwap
<1>2. \A t, i : Rank!SinkInto(t, i) = RankP!SinkInto(t, i)
  BY <1>1, Zenon DEF Rank!SinkInto, RankP!SinkInto
<1>3. Rank!InsertionSort(s) = RankP!InsertionSort(s)
  BY <1>2, Zenon DEF Rank!InsertionSort, RankP!InsertionSort
<1>4. Rank!Picked(s, good) = RankP!Picked(s, good)
  BY Zenon DEF Rank!Picked, RankP!Picked
<1> QED
  BY <1>3, <1>4

LEMMA ToSetOfSeq ==
    ASSUME NEW A, NEW s \in Seq(A)
    PROVE  /\ DOMAIN s = 1 .. Len(s) /\ Len(s) \in Nat
           /\ ToSet(s) \subseteq A
           /\ \A x : x \in ToSet(s) <=> \E i \in 1 .. Len(s) : s[i] = x
  BY DEF ToSet

\* sortVerifyResults rearranges the results so that none is better than one
\* before it.
LEMMA SortIsSorted ==
    ASSUME NEW s \in ResultLists
    PROVE  /\ SortVerifyResults(s) \in ResultLists
           /\ ToSet(SortVerifyResults(s)) = ToSet(s)
           /\ RankP!Ordered(SortVerifyResults(s), Len(SortVerifyResults(s)))
<1> DEFINE L == Len(s)
           A == ToSet(s)
           t == SortVerifyResults(s)
<1>1. /\ L \in Nat /\ A \subseteq Result /\ s \in Seq(Result) /\ DOMAIN s = 1 .. L
      /\ \A x : x \in A <=> \E i \in 1 .. L : s[i] = x
      /\ \A i, j \in 1 .. L : s[i].entry = s[j].entry => i = j
  BY ToSetOfSeq DEF ResultLists
<1>2. s \in RankP!Arrangements(A, L)
  <2>1. s \in [1 .. L -> A]
    BY <1>1
  <2>2. \A i, j \in 1 .. L : s[i] = s[j] => i = j
    BY <1>1
  <2> HIDE DEF L, A
  <2> QED
    BY <1>1, <2>1, <2>2 DEF RankP!Arrangements
<1>3. t = RankP!InsertionSort(s)
  BY SameLoops DEF SortVerifyResults
<1> HIDE DEF L, A, t
<1>4. t \in RankP!Arrangements(A, L) /\ RankP!Ordered(t, L)
  BY <1>1, <1>2, <1>3, BetterIsWeakOrder, RankP!SortOrders
<1>5. /\ t \in [1 .. L -> A]
      /\ \A i, j \in 1 .. L : t[i] = t[j] => i = j
      /\ \A x \in A : \E i \in 1 .. L : t[i] = x
  BY <1>4 DEF RankP!Arrangements
<1>6. t \in Seq(Result) /\ Len(t) = L
  BY <1>1, <1>5
<1>7. ToSet(t) = A
  <2>1. \A x : x \in ToSet(t) <=> \E i \in 1 .. L : t[i] = x
    BY <1>6, ToSetOfSeq
  <2>2. ASSUME NEW x \in ToSet(t) PROVE x \in A
    <3>1. PICK i \in 1 .. L : t[i] = x
      BY <2>1
    <3> QED
      BY <1>5, <3>1
  <2>3. \A x \in A : x \in ToSet(t)
    BY <1>5, <2>1
  <2> QED
    BY <2>2, <2>3
<1>8. \A x, y \in A : x.entry = y.entry => x = y
  BY <1>1
<1>9. t \in ResultLists
  BY <1>5, <1>6, <1>8 DEF ResultLists
<1> QED
  BY <1>4, <1>6, <1>7, <1>9 DEF t, A

\* The picking loop on a list of results: those in good, in the order of the list.
LEMMA PickedFrom ==
    ASSUME NEW s \in ResultLists, NEW good, good \subseteq ToSet(s)
    PROVE  /\ Rank!Picked(s, good) \in ResultLists
           /\ ToSet(Rank!Picked(s, good)) = good
           /\ RankP!PickOf(Rank!Picked(s, good), s, Len(s), good)
<1> DEFINE L == Len(s)
           q == Rank!Picked(s, good)
<1>1. /\ L \in Nat /\ s \in Seq(Result) /\ s \in [1 .. L -> Result]
      /\ \A x : x \in ToSet(s) <=> \E i \in 1 .. L : s[i] = x
      /\ \A i, j \in 1 .. L : s[i].entry = s[j].entry => i = j
  BY ToSetOfSeq DEF ResultLists
<1>2. q = RankP!Picked(s, good)
  BY SameLoops
<1> HIDE DEF L, q
<1>3. q \in Seq(Result) /\ RankP!PickOf(q, s, L, good)
  BY <1>1, <1>2, RankP!PickedInOrder
<1>4. /\ \A k \in 1 .. Len(q) : \E i \in 1 .. L : q[k] = s[i] /\ s[i] \in good
      /\ \A i \in 1 .. L : s[i] \in good => \E k \in 1 .. Len(q) : q[k] = s[i]
      /\ \A k, l \in 1 .. Len(q) :
            k < l => \E i, j \in 1 .. L : i < j /\ q[k] = s[i] /\ q[l] = s[j]
  BY <1>3 DEF RankP!PickOf
<1>5. ToSet(q) = good
  <2>1. \A x : x \in ToSet(q) <=> \E k \in 1 .. Len(q) : q[k] = x
    BY <1>3, ToSetOfSeq
  <2>2. ASSUME NEW x \in ToSet(q) PROVE x \in good
    <3>1. PICK k \in 1 .. Len(q) : q[k] = x
      BY <2>1
    <3> QED
      BY <1>4, <3>1
  <2>3. \A x \in good : \E i \in 1 .. L : s[i] = x
    BY <1>1
  <2>4. \A x \in good : x \in ToSet(q)
    BY <1>4, <2>1, <2>3
  <2> QED
    BY <2>2, <2>4
<1>6. ASSUME NEW k \in 1 .. Len(q), NEW l \in 1 .. Len(q), k < l
      PROVE  q[k].entry # q[l].entry
  <2>1. PICK i \in 1 .. L, j \in 1 .. L : i < j /\ q[k] = s[i] /\ q[l] = s[j]
    BY <1>4, <1>6
  <2>2. i # j
    BY <1>1, <2>1
  <2> QED
    BY <1>1, <2>1, <2>2
<1>7. Len(q) \in Nat
  BY <1>3
<1>8. \A k, l \in 1 .. Len(q) : q[k].entry = q[l].entry => k = l
  BY <1>6, <1>7
<1>9. q \in ResultLists
  BY <1>3, <1>8 DEF ResultLists
<1> QED
  BY <1>3, <1>5, <1>9 DEF q, L

\* The results a list of them may be chosen from: the verified ones, or the
\* working ones if there are none.
Eligible(s) ==
    {x \in ToSet(s) : /\ x.status = "WORKING"
                      /\ x.verified \/ \A y \in ToSet(s) : ~y.verified}

\* The results processResults selects, before it cuts the list to its length.
Selected(s) ==
    LET best == Rank!Picked(s, Verified(s))
    IN  IF best # <<>> THEN best ELSE Rank!Picked(s, Working(s))

\* processResults selects every eligible result, the fastest first.
LEMMA SelectedIsEligible ==
    ASSUME NEW s \in ResultLists, RankP!Ordered(s, Len(s))
    PROVE  /\ Selected(s) \in ResultLists
           /\ ToSet(Selected(s)) = Eligible(s)
           /\ \A k, l \in 1 .. Len(Selected(s)) :
                 k < l => Selected(s)[k].latency <= Selected(s)[l].latency
<1> DEFINE c == Selected(s)
           L == Len(s)
<1>1. /\ \A x \in ToSet(s) : x \in Result /\ x.verified \in BOOLEAN /\ x.latency \in Nat
                             /\ (x.verified => x.status = "WORKING")
      /\ L \in Nat /\ \A i \in 1 .. L : s[i] \in ToSet(s)
  <2>1. s \in Seq(Result)
    BY DEF ResultLists
  <2> QED
    BY <2>1, ToSetOfSeq, ResultFields
<1>2. Verified(s) \subseteq ToSet(s) /\ Working(s) \subseteq ToSet(s)
  BY DEF Verified, Working
<1>3. \E good : /\ good = Eligible(s) /\ good \subseteq ToSet(s)
                /\ c = Rank!Picked(s, good)
                /\ \A x, y \in good : x.verified = y.verified
  <2>1. CASE Verified(s) # {}
    <3>1. Rank!Picked(s, Verified(s)) # <<>>
      <4>1. ToSet(Rank!Picked(s, Verified(s))) = Verified(s)
        BY <1>2, PickedFrom
      <4>2. ToSet(<<>>) = {}
        BY DEF ToSet
      <4> QED
        BY <2>1, <4>1, <4>2
    <3>2. c = Rank!Picked(s, Verified(s))
      BY <3>1 DEF Selected
    <3>3. Verified(s) = Eligible(s)
      BY <1>1, <2>1 DEF Verified, Eligible
    <3>4. \A x, y \in Verified(s) : x.verified = y.verified
      BY <1>1 DEF Verified
    <3> QED
      BY <1>2, <3>2, <3>3, <3>4
  <2>2. CASE Verified(s) = {}
    <3>1. Rank!Picked(s, Verified(s)) = <<>>
      <4> DEFINE q == Rank!Picked(s, Verified(s))
      <4>1. ToSet(q) = {} /\ q \in Seq(Result)
        BY <1>2, <2>2, PickedFrom DEF ResultLists
      <4> HIDE DEF q
      <4>2. \A i \in 1 .. Len(q) : FALSE
        BY <4>1, ToSetOfSeq
      <4>3. Len(q) = 0
        BY <4>1, <4>2
      <4>4. q = <<>>
        BY <4>1, <4>3
      <4> QED
        BY <4>4 DEF q
    <3>2. c = Rank!Picked(s, Working(s))
      BY <3>1 DEF Selected
    <3>3. Working(s) = Eligible(s) /\ \A x \in ToSet(s) : ~x.verified
      BY <2>2 DEF Verified, Working, Eligible
    <3>4. \A x, y \in Working(s) : x.verified = y.verified
      BY <1>1, <1>2, <3>3
    <3> QED
      BY <1>2, <3>2, <3>3, <3>4
  <2> QED
    BY <2>1, <2>2
<1>4. PICK good : /\ good = Eligible(s) /\ good \subseteq ToSet(s)
                  /\ c = Rank!Picked(s, good)
                  /\ \A x, y \in good : x.verified = y.verified
  BY <1>3
<1> HIDE DEF c, L
<1>5. c \in ResultLists /\ ToSet(c) = good /\ RankP!PickOf(c, s, L, good)
  BY <1>4, PickedFrom DEF L
<1>6. ASSUME NEW k \in 1 .. Len(c), NEW l \in 1 .. Len(c), k < l
      PROVE  c[k].latency <= c[l].latency
  <2>1. PICK i \in 1 .. L, j \in 1 .. L : i < j /\ c[k] = s[i] /\ c[l] = s[j]
    BY <1>5, <1>6 DEF RankP!PickOf
  <2>2. ~Better(c[l], c[k])
    BY <2>1 DEF RankP!Ordered, L
  <2>3. c[k] \in good /\ c[l] \in good
    BY <1>5, ToSetOfSeq DEF ResultLists
  <2>4. c[k].latency \in Nat /\ c[l].latency \in Nat
    BY <1>1, <1>4, <2>3
  <2>5. c[k].verified = c[l].verified
    BY <1>4, <2>3
  <2> QED
    BY <2>2, <2>4, <2>5 DEF Better
<1> QED
  BY <1>4, <1>5, <1>6 DEF c

LEMMA NamesOfList ==
    ASSUME NEW c \in ResultLists
    PROVE  /\ Names(c) \in Seq(Entry) /\ Len(Names(c)) = Len(c)
           /\ \A i \in 1 .. Len(c) : Names(c)[i] = c[i].entry
<1>1. c \in Seq(Result) /\ DOMAIN c = 1 .. Len(c) /\ Len(c) \in Nat
  BY DEF ResultLists
<1>2. \A i \in 1 .. Len(c) : c[i].entry \in Entry
  BY <1>1, ResultFields
<1>3. Names(c) = [i \in 1 .. Len(c) |-> c[i].entry]
  BY <1>1 DEF Names
<1> QED
  BY <1>1, <1>2, <1>3

\* Cutting a list to its length keeps its head.
LEMMA CappedNames ==
    ASSUME NEW c \in ResultLists, NEW q, q = CappedAt(TopN, Names(c))
    PROVE  /\ q \in Seq(Entry) /\ Len(q) <= Len(c)
           /\ \A i \in 1 .. Len(q) : i \in 1 .. Len(c) /\ q[i] = c[i].entry
           /\ Len(q) = Len(c) \/ (TopN > 0 /\ Len(q) = TopN)
           /\ c # <<>> => q # <<>>
<1> DEFINE n == Names(c)
<1>1. /\ n \in Seq(Entry) /\ Len(n) = Len(c) /\ Len(c) \in Nat /\ c \in Seq(Result)
      /\ \A i \in 1 .. Len(c) : n[i] = c[i].entry
  BY NamesOfList DEF ResultLists
<1>2. q = IF TopN > 0 /\ TopN < Len(n) THEN SubSeq(n, 1, TopN) ELSE n
  BY DEF CappedAt
<1>3. TopN \in Int
  BY VerifyAssumption
<1>4. c # <<>> => Len(c) > 0
  BY <1>1
<1> HIDE DEF n
<1>5. CASE TopN > 0 /\ TopN < Len(n)
  <2>1. q = SubSeq(n, 1, TopN)
    BY <1>2, <1>5
  <2>2. q \in Seq(Entry) /\ Len(q) = TopN /\ \A i \in 1 .. TopN : q[i] = n[i]
    BY <1>1, <1>3, <1>5, <2>1
  <2> QED
    BY <1>1, <1>3, <1>5, <2>2
<1>6. CASE ~(TopN > 0 /\ TopN < Len(n))
  <2>1. q = n
    BY <1>2, <1>6
  <2> QED
    BY <1>1, <1>4, <2>1
<1> QED
  BY <1>5, <1>6

\* The names on the list are of different resolvers, and each has an eligible
\* result.
SoundList(list, s) ==
    /\ list # <<>>
    /\ IsInjective(list)
    /\ \A i \in DOMAIN list : \E x \in Eligible(s) : x.entry = list[i]

\* The list names the fastest eligible resolvers, in order, and as many as it may.
BestList(list, s) ==
    /\ \A x, y \in Eligible(s) :
          x.entry \in ToSet(list) /\ y.entry \notin ToSet(list)
             => x.latency <= y.latency
    /\ \A i, j \in DOMAIN list : i < j =>
          \A x, y \in Eligible(s) :
             x.entry = list[i] /\ y.entry = list[j] => x.latency <= y.latency
    /\ \/ TopN > 0 /\ Cardinality(ToSet(list)) = TopN
       \/ ToSet(list) = {x.entry : x \in Eligible(s)}

\* What processResults hands over.
LEMMA QualifiedIsBest ==
    ASSUME NEW s \in ResultLists, RankP!Ordered(s, Len(s)), Qualified(s) # <<>>
    PROVE  SoundList(Qualified(s), s) /\ BestList(Qualified(s), s)
<1> DEFINE c == Selected(s)
           q == Qualified(s)
           E == Eligible(s)
<1>1. /\ c \in ResultLists /\ ToSet(c) = E
      /\ \A k, l \in 1 .. Len(c) : k < l => c[k].latency <= c[l].latency
  BY SelectedIsEligible
<1>2. q = CappedAt(TopN, Names(c))
  BY DEF Qualified, Selected
<1> HIDE DEF c, q, E
<1>3. /\ q \in Seq(Entry) /\ Len(q) <= Len(c)
      /\ \A i \in 1 .. Len(q) : i \in 1 .. Len(c) /\ q[i] = c[i].entry
      /\ Len(q) = Len(c) \/ (TopN > 0 /\ Len(q) = TopN)
  BY <1>1, <1>2, CappedNames
<1>4. /\ c \in Seq(Result) /\ Len(c) \in Nat
      /\ \A i, j \in 1 .. Len(c) : c[i].entry = c[j].entry => i = j
      /\ \A x : x \in E <=> \E i \in 1 .. Len(c) : c[i] = x
  <2>1. c \in Seq(Result)
    BY <1>1 DEF ResultLists
  <2> QED
    BY <1>1, <2>1, ToSetOfSeq DEF ResultLists
<1>5. /\ DOMAIN q = 1 .. Len(q) /\ Len(q) \in Nat
      /\ \A r : r \in ToSet(q) <=> \E i \in 1 .. Len(q) : q[i] = r
  BY <1>3, ToSetOfSeq
<1>6. IsInjective(q)
  BY <1>3, <1>4, <1>5 DEF IsInjective
<1>7. ASSUME NEW x \in E, NEW i \in 1 .. Len(q), x.entry = q[i] PROVE x = c[i]
  <2>1. PICK k \in 1 .. Len(c) : c[k] = x
    BY <1>4
  <2>2. k = i
    BY <1>3, <1>4, <1>7, <2>1
  <2> QED
    BY <2>1, <2>2
<1>8. \A i \in 1 .. Len(c) : c[i] \in E /\ c[i].latency \in Nat
  BY <1>4, ResultFields
<1>9. SoundList(q, s)
  <2>1. \A i \in DOMAIN q : \E x \in E : x.entry = q[i]
    BY <1>3, <1>5, <1>8
  <2> QED
    BY <1>6, <2>1 DEF SoundList, E, q
<1>10. ASSUME NEW x \in E, NEW y \in E, x.entry \in ToSet(q), y.entry \notin ToSet(q)
       PROVE  x.latency <= y.latency
  <2>1. PICK i \in 1 .. Len(q) : q[i] = x.entry
    BY <1>5, <1>10
  <2>2. x = c[i] /\ i \in 1 .. Len(c)
    BY <1>3, <1>7, <2>1
  <2>3. PICK l \in 1 .. Len(c) : c[l] = y
    BY <1>4
  <2>4. l \notin 1 .. Len(q)
    BY <1>3, <1>5, <1>10, <2>3
  <2>5. i < l
    BY <1>4, <1>5, <2>4
  <2> QED
    BY <1>1, <2>2, <2>3, <2>5
<1>11. ASSUME NEW i \in DOMAIN q, NEW j \in DOMAIN q, i < j, NEW x \in E, NEW y \in E,
              x.entry = q[i], y.entry = q[j]
       PROVE  x.latency <= y.latency
  <2>1. x = c[i] /\ y = c[j] /\ i \in 1 .. Len(c) /\ j \in 1 .. Len(c)
    BY <1>3, <1>5, <1>7, <1>11
  <2> QED
    BY <1>1, <1>11, <2>1
<1>12. ASSUME Len(q) = Len(c) PROVE BestList(q, s)
  <2>1. ASSUME NEW r \in ToSet(q) PROVE r \in {x.entry : x \in E}
    BY <1>3, <1>5, <1>8
  <2>2. ASSUME NEW x \in E PROVE x.entry \in ToSet(q)
    <3>1. PICK k \in 1 .. Len(c) : c[k] = x
      BY <1>4
    <3> QED
      BY <1>3, <1>5, <1>12, <3>1
  <2>3. ToSet(q) = {x.entry : x \in E}
    BY <2>1, <2>2
  <2> QED
    BY <1>10, <1>11, <2>3, Zenon DEF BestList, E
<1>13. ASSUME TopN > 0, Len(q) = TopN PROVE BestList(q, s)
  <2>1. q \in [1 .. TopN -> ToSet(q)]
    BY <1>3, <1>5, <1>13
  <2>2. q \in Bijection(1 .. TopN, ToSet(q))
    BY <1>5, <1>6, <1>13, <2>1 DEF IsInjective, Bijection, Injection, Surjection
  <2>3. ExistsBijection(1 .. TopN, ToSet(q))
    BY <2>2 DEF ExistsBijection
  <2>4. Cardinality(ToSet(q)) = TopN
    BY <1>5, <1>13, <2>3, FS_CountingElements
  <2> QED
    BY <1>10, <1>11, <1>13, <2>4, Zenon DEF BestList, E
<1> QED
  BY <1>3, <1>9, <1>12, <1>13 DEF q

-----------------------------------------------------------------------------
\* In the initial state nothing is taken, claimed or handed over.
LEMMA VerifyInvInit == VerifyInit => VerifyInv
<1> SUFFICES ASSUME VerifyInit PROVE VerifyInv
  OBVIOUS
<1>1. ScanTypeInv /\ LaunchInv /\ WaitInv /\ ClaimInv /\ HandedInv
  BY DEF VerifyInit, ScanTypeInv, LaunchInv, WaitInv, ClaimInv, HandedInv, WorkerLabel
<1>2. Holding = {}
  BY DEF VerifyInit, Holding
<1>3. SlotInv
  BY <1>2, FS_EmptySet, VerifyAssumption DEF VerifyInit, SlotInv
<1> QED
  BY <1>1, <1>3 DEF VerifyInv

\* The set of workers that hold a slot is finite.
LEMMA HoldingFinite == IsFiniteSet(Holding) /\ Cardinality(Holding) \in Nat
<1>1. Holding \subseteq Entry
  BY DEF Holding
<1> QED
  BY <1>1, FS_Subset, FS_CardinalityType, VerifyAssumption

\* A launch takes a free slot for a goroutine that had none.
LEMMA LaunchKeepsInv ==
    ASSUME VerifyInv, NEW r \in Entry, Launch(r) PROVE VerifyInv'
<1> USE DEF VerifyInv
<1>1. worker[r] = "none" /\ worker' = [worker EXCEPT ![r] = "verify"] /\ r \in tested
  BY DEF Launch, LaunchInv, ScanTypeInv
<1>2. ScanTypeInv'
  BY <1>1 DEF Launch, ScanTypeInv, WorkerLabel
<1>3. LaunchInv'
  BY <1>1 DEF Launch, ScanTypeInv, LaunchInv
<1>4. Holding' = Holding \cup {r} /\ r \notin Holding
  BY <1>1 DEF Holding, ScanTypeInv
<1>5. SlotInv'
  <2>1. Cardinality(Holding \cup {r}) = Cardinality(Holding) + 1
    BY <1>4, HoldingFinite, FS_AddElement
  <2>2. Cardinality(Holding') = Cardinality(Holding) + 1
    BY <2>1, <1>4
  <2>3. sem' = sem + 1 /\ sem + 1 <= Workers
    BY HoldingFinite, VerifyAssumption DEF Launch, SlotInv
  <2> QED
    BY <2>2, <2>3 DEF SlotInv
<1>6. WaitInv'
  BY DEF Launch, WaitInv
<1>7. ClaimInv'
  BY <1>1 DEF Launch, ClaimInv, ScanTypeInv
<1>8. HandedInv'
  BY DEF Launch, HandedInv
<1> QED
  BY <1>2, <1>3, <1>5, <1>6, <1>7, <1>8

\* A worker that records its result keeps its slot, and claims the callback only
\* if nobody has.
LEMMA VerifyKeepsInv ==
    ASSUME VerifyInv, NEW r \in Entry, Verify(r) PROVE VerifyInv'
<1> USE DEF VerifyInv
<1> DEFINE Effect(early, list) ==
             /\ early => ~readySent
             /\ readySent' = (readySent \/ early)
             /\ handed' = IF early THEN Append(handed, list) ELSE handed
             /\ worker' = [worker EXCEPT ![r] = IF early THEN "updating" ELSE "return"]
<1>1. \E early \in BOOLEAN : \E list : Effect(early, list)
  <2>1. PICK x \in VerifyResults(r) :
          LET list == IF x.verified /\ initial THEN Append(verified, r) ELSE verified
              early == initial /\ x.verified /\ EnoughVerified(list)
          IN  /\ results' = Append(results, x)
              /\ verified' = list
              /\ readySent' = (readySent \/ early)
              /\ handed' = IF early THEN Append(handed, list) ELSE handed
              /\ worker' = [worker EXCEPT ![r] = IF early THEN "updating" ELSE "return"]
    BY DEF Verify
  <2> DEFINE l == IF x.verified /\ initial THEN Append(verified, r) ELSE verified
             e == initial /\ x.verified /\ EnoughVerified(l)
  <2>2. e \in BOOLEAN /\ (e => ~readySent)
    BY DEF EnoughVerified
  <2> QED
    BY <2>1, <2>2
<1>1a. PICK early \in BOOLEAN : \E list : Effect(early, list)
  BY <1>1
<1>1b. PICK list : Effect(early, list)
  BY <1>1a
<1>2. worker[r] = "verify" /\ r \in tested
      /\ UNCHANGED <<initial, tested, todo, sem, mainPc>>
  BY DEF Verify, LaunchInv
<1>3. worker'[r] \in {"updating", "return"} /\ (early => worker'[r] = "updating")
      /\ \A q \in Entry \ {r} : worker'[q] = worker[q]
  BY <1>1b DEF ScanTypeInv
<1>4. ScanTypeInv'
  BY <1>1b, <1>2 DEF ScanTypeInv, WorkerLabel
<1>5. LaunchInv'
  BY <1>2, <1>3 DEF ScanTypeInv, LaunchInv
<1>6. Holding' = Holding
  BY <1>2, <1>3 DEF Holding
<1>7. SlotInv'
  BY <1>2, <1>6 DEF SlotInv
<1>8. mainPc = "launch" /\ WaitInv'
  BY <1>2 DEF WaitInv
<1>9. ClaimInv'
  <2>1. CASE early
    BY <2>1, <1>2, <1>3, <1>8 DEF ClaimInv
  <2>2. CASE ~early
    BY <2>2, <1>1b, <1>2, <1>3, <1>8 DEF ClaimInv, ScanTypeInv
  <2> QED
    BY <2>1, <2>2
<1>10. HandedInv'
  <2>1. CASE early
    <3>1. handed = <<>>
      BY <2>1, <1>1b, <1>8 DEF HandedInv
    <3>2. handed' = <<list>>
      BY <2>1, <3>1, <1>1b
    <3>3. readySent'
      BY <2>1, <1>1b
    <3> QED
      BY <3>2, <3>3 DEF HandedInv
  <2>2. CASE ~early
    BY <2>2, <1>1b, <1>2 DEF HandedInv
  <2> QED
    BY <2>1, <2>2
<1> QED
  BY <1>4, <1>5, <1>7, <1>8, <1>9, <1>10

\* A worker that returns gives back the slot it holds.
LEMMA FinishKeepsInv ==
    ASSUME VerifyInv, NEW r \in Entry, Finish(r) PROVE VerifyInv'
<1> USE DEF VerifyInv
<1>1. worker[r] = "return" /\ worker' = [worker EXCEPT ![r] = "done"] /\ sem' = sem - 1
      /\ UNCHANGED <<tested, todo, readySent, mainPc, handed>>
  BY DEF Finish
<1>2. worker'[r] = "done" /\ \A q \in Entry \ {r} : worker'[q] = worker[q]
  BY <1>1 DEF ScanTypeInv
<1>3. ScanTypeInv' /\ HandedInv'
  BY <1>1 DEF ScanTypeInv, HandedInv, WorkerLabel
<1>4. LaunchInv' /\ WaitInv' /\ ClaimInv'
  BY <1>1, <1>2 DEF ScanTypeInv, LaunchInv, WaitInv, ClaimInv
<1>5. Holding' = Holding \ {r} /\ r \in Holding
  BY <1>1, <1>2 DEF Holding
<1>6. SlotInv'
  <2>1. Cardinality(Holding \ {r}) = Cardinality(Holding) - 1
    BY <1>5, HoldingFinite, FS_RemoveElement
  <2>2. Cardinality(Holding') = Cardinality(Holding) - 1
    BY <2>1, <1>5
  <2>3. sem - 1 <= Workers
    BY HoldingFinite, VerifyAssumption DEF SlotInv
  <2> QED
    BY <1>1, <2>2, <2>3 DEF SlotInv
<1> QED
  BY <1>3, <1>4, <1>6

\* The steps of the scanner goroutine after the wait: nobody claimed the early
\* callback, because whoever did would still be in it.
LEMMA AfterWaitKeepsInv ==
    ASSUME VerifyInv, LateReady \/ QuietDone \/ ProcessResults PROVE VerifyInv'
<1> USE DEF VerifyInv
<1>1. todo = {} /\ \A r \in tested : worker[r] = "done"
  BY DEF LateReady, QuietDone, ProcessResults, WaitOver, WaitInv
<1>2. ~readySent /\ mainPc # "updating"
  BY <1>1 DEF ClaimInv, LateReady, QuietDone, ProcessResults, WaitOver
<1>3. handed = <<>>
  BY <1>2 DEF HandedInv
<1>4. UNCHANGED <<tested, todo, sem, worker, readySent>>
  BY DEF LateReady, QuietDone, ProcessResults
<1>5. \/ mainPc' = "updating" /\ \E list : handed' = Append(handed, list)
      \/ mainPc' \in {"process", "done"} /\ handed' = handed
  BY DEF LateReady, QuietDone, ProcessResults
<1>6. ScanTypeInv' /\ LaunchInv' /\ WaitInv' /\ ClaimInv'
  BY <1>1, <1>2, <1>4 DEF ScanTypeInv, LaunchInv, WaitInv, ClaimInv
<1>7. SlotInv'
  BY <1>4 DEF SlotInv, Holding
<1>8. HandedInv'
  <2>1. CASE mainPc' = "updating" /\ \E list : handed' = Append(handed, list)
    <3>1. PICK list : handed' = Append(handed, list)
      BY <2>1
    <3>2. handed' = <<list>>
      BY <3>1, <1>3
    <3> QED
      BY <2>1, <3>2 DEF HandedInv
  <2>2. CASE mainPc' \in {"process", "done"} /\ handed' = handed
    BY <2>2, <1>2, <1>3, <1>4 DEF HandedInv
  <2> QED
    BY <1>5, <2>1, <2>2
<1> QED
  BY <1>6, <1>7, <1>8

-----------------------------------------------------------------------------
(* The lists that are handed over.                                         *)

\* There is one result for each goroutine that has recorded its own.
ResultsInv ==
    /\ results \in ResultLists
    /\ \A r \in Entry :
          r \in Recorded <=> \E i \in 1 .. Len(results) : results[i].entry = r

\* In an initial scan the verified list names the resolvers of the verified
\* results, each once; a rescan does not keep one, and claims no callback.
VerifiedInv ==
    /\ verified \in Seq(Entry)
    /\ IsInjective(verified)
    /\ \A k \in 1 .. Len(verified) :
          \E i \in 1 .. Len(results) : results[i].verified /\ results[i].entry = verified[k]
    /\ initial => \A i \in 1 .. Len(results) : results[i].verified =>
                     \E k \in 1 .. Len(verified) : verified[k] = results[i].entry
    /\ readySent => initial

ProgressInv ==
    /\ initial \in BOOLEAN
    /\ mainPc \in {"launch", "process", "updating", "done"}

\* Every name on the list has a verified result.
AllVerified(list, s) ==
    \A i \in DOMAIN list : \E x \in ToSet(s) : x.verified /\ x.entry = list[i]

\* A list handed over while workers may still record results has verified
\* resolvers only: a result that comes later does not make it wrong.
HandedListsInv ==
    \A n \in DOMAIN handed :
        /\ SoundList(handed[n], results)
        /\ mainPc # "updating" => AllVerified(handed[n], results)
        /\ ~initial => /\ {x.entry : x \in ToSet(results)} = tested
                       /\ BestList(handed[n], results)

ListsInv == ResultsInv /\ VerifiedInv /\ ProgressInv /\ HandedListsInv

\* In the initial state there is no result and no list.
LEMMA ListsInvInit == VerifyInit => ListsInv
<1> SUFFICES ASSUME VerifyInit PROVE ListsInv
  OBVIOUS
<1>1. results = <<>> /\ verified = <<>> /\ handed = <<>> /\ ~readySent
      /\ worker = [r \in Entry |-> "none"]
  BY DEF VerifyInit
<1>2. Recorded = {}
  BY <1>1 DEF Recorded
<1>3. ResultsInv
  BY <1>1, <1>2 DEF ResultsInv, ResultLists
<1>4. VerifiedInv
  BY <1>1 DEF VerifiedInv, IsInjective
<1>5. ProgressInv
  BY DEF VerifyInit, ProgressInv
<1>6. HandedListsInv
  BY <1>1 DEF HandedListsInv
<1> QED
  BY <1>3, <1>4, <1>5, <1>6 DEF ListsInv

\* A step that records nothing and hands nothing over keeps the lists.
LEMMA QuietStepKeepsLists ==
    ASSUME ListsInv, Recorded' = Recorded, mainPc' = mainPc,
           UNCHANGED <<initial, tested, results, verified, readySent, handed>>
    PROVE  ListsInv'
<1>1. ResultsInv'
  BY DEF ListsInv, ResultsInv
<1>2. VerifiedInv'
  BY DEF ListsInv, VerifiedInv
<1>3. ProgressInv'
  BY DEF ListsInv, ProgressInv
<1>4. HandedListsInv'
  BY DEF ListsInv, HandedListsInv, SoundList, BestList, AllVerified
<1> QED
  BY <1>1, <1>2, <1>3, <1>4 DEF ListsInv

LEMMA LaunchKeepsLists ==
    ASSUME VerifyInv, ListsInv, NEW r \in Entry, Launch(r) PROVE ListsInv'
<1>1. worker[r] = "none" /\ worker' = [worker EXCEPT ![r] = "verify"]
      /\ worker \in [Entry -> WorkerLabel]
  BY DEF Launch, LaunchInv, ScanTypeInv, VerifyInv
<1>2. Recorded' = Recorded
  BY <1>1 DEF Recorded
<1> QED
  BY <1>2, QuietStepKeepsLists DEF Launch

LEMMA FinishKeepsLists ==
    ASSUME VerifyInv, ListsInv, NEW r \in Entry, Finish(r) PROVE ListsInv'
<1>1. worker[r] = "return" /\ worker' = [worker EXCEPT ![r] = "done"]
      /\ worker \in [Entry -> WorkerLabel]
  BY DEF Finish, ScanTypeInv, VerifyInv
<1>2. Recorded' = Recorded
  BY <1>1 DEF Recorded
<1> QED
  BY <1>2, QuietStepKeepsLists DEF Finish

\* A worker records one result, and hands over the verified list or nothing.
LEMMA VerifyKeepsLists ==
    ASSUME VerifyInv, ListsInv, NEW r \in Entry, Verify(r) PROVE ListsInv'
<1> DEFINE n == Len(results)
           Listed(x) == IF x.verified /\ initial THEN Append(verified, r) ELSE verified
           Early(x) == initial /\ x.verified /\ EnoughVerified(Listed(x))
<1>1. PICK x \in VerifyResults(r) :
        /\ results' = Append(results, x)
        /\ verified' = Listed(x)
        /\ readySent' = (readySent \/ Early(x))
        /\ handed' = IF Early(x) THEN Append(handed, Listed(x)) ELSE handed
        /\ worker' = [worker EXCEPT ![r] = IF Early(x) THEN "updating" ELSE "return"]
  BY DEF Verify
<1> DEFINE list == Listed(x)
           early == Early(x)
<1>2. /\ worker[r] = "verify" /\ worker \in [Entry -> WorkerLabel]
      /\ UNCHANGED <<initial, tested, mainPc>>
      /\ initial \in BOOLEAN /\ readySent \in BOOLEAN
      /\ mainPc = "launch"
  <2>1. worker[r] = "verify" /\ UNCHANGED <<initial, tested, mainPc>>
    BY DEF Verify
  <2>2. worker \in [Entry -> WorkerLabel] /\ initial \in BOOLEAN /\ readySent \in BOOLEAN
    BY DEF VerifyInv, ScanTypeInv, ListsInv, ProgressInv
  <2>3. mainPc = "launch"
    BY <2>1 DEF VerifyInv, WaitInv, LaunchInv
  <2> QED
    BY <2>1, <2>2, <2>3
<1>3. x \in Result /\ x.entry = r /\ x.verified \in BOOLEAN
      /\ (x.verified => x.status = "WORKING")
  <2>1. x \in Result
    BY DEF Result
  <2>2. x.entry = r
    BY DEF VerifyResults
  <2> QED
    BY <2>1, <2>2, ResultFields
<1>4. /\ results \in Seq(Result) /\ n \in Nat
      /\ \A i, j \in 1 .. n : results[i].entry = results[j].entry => i = j
      /\ \A q \in Entry : q \in Recorded <=> \E i \in 1 .. n : results[i].entry = q
  BY DEF ListsInv, ResultsInv, ResultLists
<1>5. /\ results' \in Seq(Result) /\ Len(results') = n + 1 /\ results'[n + 1] = x
      /\ \A i \in 1 .. n : results'[i] = results[i]
  BY <1>1, <1>3, <1>4
<1> HIDE DEF n, Listed, Early, list, early
<1>6. \A i \in 1 .. n + 1 : i \in 1 .. n \/ i = n + 1
  BY <1>4
<1>7. \A i \in 1 .. n : i \in 1 .. n + 1 /\ results'[i] = results[i]
  BY <1>4, <1>5
<1>8. n + 1 \in 1 .. n + 1
  BY <1>4
<1>9. \A i \in 1 .. n : results[i].entry # r
  <2>1. r \notin Recorded
    BY <1>2 DEF Recorded
  <2> QED
    BY <1>4, <2>1
<1>10. Recorded' = Recorded \cup {r}
  BY <1>1, <1>2 DEF Recorded
<1>11. ResultsInv'
  <2>1. \A i, j \in 1 .. n + 1 : results'[i].entry = results'[j].entry => i = j
    BY <1>3, <1>4, <1>5, <1>6, <1>9
  <2>2. (results \in ResultLists)'
    BY <1>5, <2>1 DEF ResultLists
  <2>3. ASSUME NEW q \in Entry
        PROVE  q \in Recorded' <=> \E i \in 1 .. n + 1 : results'[i].entry = q
    <3>1. CASE q = r
      BY <1>3, <1>5, <1>8, <1>10, <3>1
    <3>2. CASE q # r
      BY <1>3, <1>4, <1>5, <1>6, <1>7, <1>10, <3>2
    <3> QED
      BY <3>1, <3>2
  <2> QED
    BY <1>5, <2>2, <2>3 DEF ResultsInv
<1>12. /\ verified \in Seq(Entry) /\ IsInjective(verified)
       /\ \A k \in 1 .. Len(verified) :
             \E i \in 1 .. n : results[i].verified /\ results[i].entry = verified[k]
       /\ initial => \A i \in 1 .. n : results[i].verified =>
                        \E k \in 1 .. Len(verified) : verified[k] = results[i].entry
       /\ readySent => initial
  BY DEF ListsInv, VerifiedInv, n
<1>13. /\ list \in Seq(Entry) /\ IsInjective(list)
       /\ \A k \in 1 .. Len(list) :
             \E i \in 1 .. n + 1 : results'[i].verified /\ results'[i].entry = list[k]
       /\ initial => \A i \in 1 .. n + 1 : results'[i].verified =>
                        \E k \in 1 .. Len(list) : list[k] = results'[i].entry
  <2>1. CASE x.verified /\ initial
    <3> DEFINE m == Len(verified)
    <3>1. m \in Nat /\ DOMAIN verified = 1 .. m
      BY <1>12
    <3>2. /\ list \in Seq(Entry) /\ Len(list) = m + 1 /\ list[m + 1] = r
          /\ \A k \in 1 .. m : list[k] = verified[k]
          /\ DOMAIN list = 1 .. m + 1
      BY <1>12, <2>1 DEF list, Listed
    <3> HIDE DEF m
    <3>3. \A k \in 1 .. m + 1 : k \in 1 .. m \/ k = m + 1
      BY <3>1
    <3>4. m + 1 \in 1 .. m + 1 /\ \A k \in 1 .. m : k \in 1 .. m + 1
      BY <3>1
    <3>5. \A k \in 1 .. m : verified[k] # r
      BY <1>9, <1>12 DEF m
    <3>6. IsInjective(list)
      BY <1>12, <3>1, <3>2, <3>3, <3>5 DEF IsInjective
    <3>7. ASSUME NEW k \in 1 .. m + 1
          PROVE  \E i \in 1 .. n + 1 : results'[i].verified /\ results'[i].entry = list[k]
      <4>1. CASE k = m + 1
        BY <1>3, <1>5, <1>8, <2>1, <3>2, <4>1
      <4>2. CASE k \in 1 .. m
        BY <1>7, <1>12, <3>2, <4>2 DEF m
      <4> QED
        BY <3>3, <4>1, <4>2
    <3>8. ASSUME NEW i \in 1 .. n + 1, results'[i].verified
          PROVE  \E k \in 1 .. m + 1 : list[k] = results'[i].entry
      <4>1. CASE i = n + 1
        BY <1>3, <1>5, <3>2, <3>4, <4>1
      <4>2. CASE i \in 1 .. n
        BY <1>7, <1>12, <2>1, <3>2, <3>4, <3>8, <4>2 DEF m
      <4> QED
        BY <1>6, <4>1, <4>2
    <3> QED
      BY <3>2, <3>6, <3>7, <3>8
  <2>2. CASE ~(x.verified /\ initial)
    <3>1. list = verified
      BY <2>2 DEF list, Listed
    <3>2. initial => \A i \in 1 .. n + 1 : results'[i].verified => i \in 1 .. n
      BY <1>5, <1>6, <2>2
    <3>3. \A k \in 1 .. Len(verified) : \E i \in 1 .. n + 1 :
             results'[i].verified /\ results'[i].entry = verified[k]
      BY <1>7, <1>12
    <3>4. ASSUME initial, NEW i \in 1 .. n + 1, results'[i].verified
          PROVE  \E k \in 1 .. Len(verified) : verified[k] = results'[i].entry
      <4>1. i \in 1 .. n
        BY <3>2, <3>4
      <4> QED
        BY <1>7, <1>12, <3>4, <4>1
    <3> QED
      BY <1>12, <3>1, <3>3, <3>4, Zenon
  <2> QED
    BY <2>1, <2>2
<1>14. VerifiedInv'
  <2>1. verified' = list /\ readySent' = (readySent \/ early) /\ (early => initial)
    BY <1>1 DEF list, early, Early
  <2>2. readySent' => initial'
    BY <1>2, <1>12, <2>1
  <2> QED
    BY <1>2, <1>5, <1>13, <2>1, <2>2 DEF VerifiedInv
<1>15. ProgressInv'
  BY <1>2 DEF ListsInv, ProgressInv
<1>16. ToSet(results') = ToSet(results) \cup {x}
  <2>1. \A y : y \in ToSet(results) <=> \E i \in 1 .. n : results[i] = y
    BY <1>4, ToSetOfSeq DEF n
  <2>2. \A y : y \in ToSet(results') <=> \E i \in 1 .. n + 1 : results'[i] = y
    BY <1>5, ToSetOfSeq
  <2>3. ASSUME NEW y \in ToSet(results') PROVE y \in ToSet(results) \cup {x}
    BY <1>5, <1>6, <2>1, <2>2
  <2>4. ASSUME NEW y \in ToSet(results) PROVE y \in ToSet(results')
    BY <1>7, <2>1, <2>2
  <2>5. x \in ToSet(results')
    BY <1>5, <1>8, <2>2
  <2> QED
    BY <2>3, <2>4, <2>5
<1>17. ASSUME NEW l, l # <<>>, IsInjective(l),
              \A i \in DOMAIN l : \E y \in ToSet(results') : y.verified /\ y.entry = l[i]
       PROVE  SoundList(l, results') /\ AllVerified(l, results')
  <2>1. \A y \in ToSet(results') : y.verified => y.status = "WORKING"
    <3>1. ToSet(results') \subseteq Result
      BY <1>5, ToSetOfSeq
    <3> QED
      BY <3>1, ResultFields
  <2>2. \A y \in ToSet(results') : y.verified => y \in Eligible(results')
    BY <2>1 DEF Eligible
  <2>3. \A i \in DOMAIN l : \E y \in Eligible(results') : y.entry = l[i]
    BY <1>17, <2>2
  <2> QED
    BY <1>17, <2>3 DEF SoundList, AllVerified
<1>18. HandedListsInv'
  <2>1. CASE ~initial
    <3>1. ~readySent /\ ~early
      BY <1>12, <2>1 DEF early, Early
    <3>2. handed = <<>>
      BY <1>2, <3>1 DEF VerifyInv, HandedInv
    <3>3. handed' = <<>>
      BY <1>1, <3>1, <3>2 DEF early
    <3> QED
      BY <3>3 DEF HandedListsInv
  <2>2. CASE initial /\ ~early
    <3>1. handed' = handed
      BY <1>1, <2>2 DEF early
    <3>2. ASSUME NEW k \in DOMAIN handed
          PROVE  SoundList(handed[k], results') /\ AllVerified(handed[k], results')
      <4>1. SoundList(handed[k], results) /\ AllVerified(handed[k], results)
        BY <1>2 DEF ListsInv, HandedListsInv
      <4>2. handed[k] # <<>> /\ IsInjective(handed[k])
        BY <4>1 DEF SoundList
      <4>3. \A i \in DOMAIN handed[k] :
               \E y \in ToSet(results') : y.verified /\ y.entry = handed[k][i]
        BY <1>16, <4>1 DEF AllVerified
      <4> QED
        BY <1>17, <4>2, <4>3
    <3> QED
      BY <1>2, <2>2, <3>1, <3>2 DEF HandedListsInv
  <2>3. CASE early
    <3>1. ~readySent /\ initial /\ x.verified
      BY <2>3 DEF early, Early, EnoughVerified
    <3>2. handed = <<>>
      BY <1>2, <3>1 DEF VerifyInv, HandedInv
    <3>3. handed' = <<list>>
      BY <1>1, <2>3, <3>2 DEF early, list
    <3>4. list # <<>>
      <4>1. list = Append(verified, r)
        BY <3>1 DEF list, Listed
      <4>2. Len(list) = Len(verified) + 1 /\ Len(verified) \in Nat
        BY <1>12, <4>1
      <4> QED
        BY <4>2
    <3>5. \A i \in DOMAIN list :
             \E y \in ToSet(results') : y.verified /\ y.entry = list[i]
      <4>1. \A i \in 1 .. n + 1 : results'[i] \in ToSet(results')
        BY <1>5, ToSetOfSeq
      <4>2. DOMAIN list = 1 .. Len(list)
        BY <1>13
      <4> QED
        BY <1>13, <4>1, <4>2
    <3>6. SoundList(list, results') /\ AllVerified(list, results')
      BY <1>13, <1>17, <3>4, <3>5
    <3> QED
      BY <1>2, <3>1, <3>3, <3>6 DEF HandedListsInv
  <2> QED
    BY <1>2, <2>1, <2>2, <2>3
<1> QED
  BY <1>11, <1>14, <1>15, <1>18 DEF ListsInv

\* After the wait the results are those of the resolvers of the scan.
LEMMA AfterWaitFacts ==
    ASSUME VerifyInv, ListsInv, LateReady \/ QuietDone \/ ProcessResults
    PROVE  /\ Recorded = tested /\ tested \subseteq Entry
           /\ ~readySent /\ handed = <<>> /\ mainPc # "updating"
           /\ UNCHANGED <<initial, tested, worker, verified, readySent>>
<1>1. todo = {} /\ \A r \in tested : worker[r] = "done"
  BY DEF LateReady, QuietDone, ProcessResults, WaitOver, WaitInv, VerifyInv
<1>2. ~readySent /\ mainPc # "updating"
  BY <1>1 DEF ClaimInv, LateReady, QuietDone, ProcessResults, WaitOver, VerifyInv
<1>3. handed = <<>>
  BY <1>2 DEF HandedInv, VerifyInv
<1>4. UNCHANGED <<initial, tested, worker, verified, readySent>>
  BY DEF LateReady, QuietDone, ProcessResults
<1>5. tested \subseteq Entry /\ \A r \in Entry \ tested : worker[r] = "none"
  BY DEF VerifyInv, ScanTypeInv, LaunchInv
<1>6. Recorded = tested
  BY <1>1, <1>5 DEF Recorded
<1> QED
  BY <1>2, <1>3, <1>4, <1>5, <1>6

\* The facts about the results do not depend on their order.
LEMMA ReorderKeepsResults ==
    ASSUME ListsInv, (results \in ResultLists)', ToSet(results') = ToSet(results),
           UNCHANGED <<initial, worker, verified, readySent>>
    PROVE  ResultsInv' /\ VerifiedInv'
<1>1. \A y : y \in ToSet(results) <=> \E i \in 1 .. Len(results) : results[i] = y
  BY ToSetOfSeq DEF ListsInv, ResultsInv, ResultLists
<1>2. \A y : y \in ToSet(results') <=> \E i \in 1 .. Len(results') : results'[i] = y
  BY ToSetOfSeq DEF ResultLists
<1>3. Recorded' = Recorded
  BY DEF Recorded
<1>4. ASSUME NEW r \in Entry
      PROVE  r \in Recorded' <=> \E i \in 1 .. Len(results') : results'[i].entry = r
  <2>1. r \in Recorded <=> \E y \in ToSet(results) : y.entry = r
    BY <1>1 DEF ListsInv, ResultsInv
  <2> QED
    BY <1>2, <1>3, <2>1
<1>5. ResultsInv'
  BY <1>4 DEF ResultsInv
<1>6. ASSUME NEW k \in 1 .. Len(verified)
      PROVE  \E i \in 1 .. Len(results') :
                results'[i].verified /\ results'[i].entry = verified[k]
  <2>1. \E y \in ToSet(results) : y.verified /\ y.entry = verified[k]
    BY <1>1 DEF ListsInv, VerifiedInv
  <2> QED
    BY <1>2, <2>1
<1>7. ASSUME initial, NEW i \in 1 .. Len(results'), results'[i].verified
      PROVE  \E k \in 1 .. Len(verified) : verified[k] = results'[i].entry
  <2>1. results'[i] \in ToSet(results)
    BY <1>2
  <2>2. PICK j \in 1 .. Len(results) : results[j] = results'[i]
    BY <1>1, <2>1
  <2>3. \A m \in 1 .. Len(results) : results[m].verified =>
           \E k \in 1 .. Len(verified) : verified[k] = results[m].entry
    BY <1>7 DEF ListsInv, VerifiedInv
  <2> QED
    BY <1>7, <2>2, <2>3
<1>8. VerifiedInv'
  BY <1>6, <1>7 DEF ListsInv, VerifiedInv
<1> QED
  BY <1>5, <1>8

\* A step after the wait that hands nothing over keeps the lists.
LEMMA NothingHanded ==
    ASSUME VerifyInv, ListsInv, LateReady \/ QuietDone \/ ProcessResults,
           handed' = handed, mainPc' \in {"process", "done"},
           (results \in ResultLists)', ToSet(results') = ToSet(results)
    PROVE  ListsInv'
<1>1. /\ handed = <<>> /\ UNCHANGED <<initial, worker, verified, readySent>>
  BY AfterWaitFacts
<1>2. ResultsInv' /\ VerifiedInv'
  BY <1>1, ReorderKeepsResults
<1>3. ProgressInv'
  BY <1>1 DEF ListsInv, ProgressInv
<1>4. HandedListsInv'
  BY <1>1 DEF HandedListsInv
<1> QED
  BY <1>2, <1>3, <1>4 DEF ListsInv

\* A step after the wait that hands over a sound list, the best one in a rescan,
\* keeps the lists.
LEMMA OneHanded ==
    ASSUME VerifyInv, ListsInv, LateReady \/ QuietDone \/ ProcessResults,
           NEW list, handed' = Append(handed, list), mainPc' = "updating",
           (results \in ResultLists)', ToSet(results') = ToSet(results),
           SoundList(list, results'), ~initial => BestList(list, results')
    PROVE  ListsInv'
<1>1. /\ handed = <<>> /\ UNCHANGED <<initial, tested, worker, verified, readySent>>
      /\ Recorded = tested /\ tested \subseteq Entry
  BY AfterWaitFacts
<1>2. ResultsInv' /\ VerifiedInv'
  BY <1>1, ReorderKeepsResults
<1>3. ProgressInv'
  BY <1>1 DEF ListsInv, ProgressInv
<1>4. handed' = <<list>>
  BY <1>1
<1>5. {x.entry : x \in ToSet(results')} = tested
  <2>1. /\ \A y : y \in ToSet(results) <=> \E i \in 1 .. Len(results) : results[i] = y
        /\ \A x \in ToSet(results) : x.entry \in Entry
    BY ToSetOfSeq, ResultFields DEF ListsInv, ResultsInv, ResultLists
  <2>2. \A r \in Entry : r \in tested <=> \E x \in ToSet(results) : x.entry = r
    BY <1>1, <2>1 DEF ListsInv, ResultsInv
  <2> QED
    BY <1>1, <2>1, <2>2
<1>6. HandedListsInv'
  BY <1>1, <1>4, <1>5 DEF HandedListsInv
<1> QED
  BY <1>2, <1>3, <1>6 DEF ListsInv

\* The late callback names verified resolvers, or working ones if there are none.
LEMMA LateReadyKeepsLists ==
    ASSUME VerifyInv, ListsInv, LateReady PROVE ListsInv'
<1> DEFINE late == Names(Rank!Picked(results, Working(results)))
           ready == IF verified # <<>> THEN verified ELSE late
<1>1. results' = results /\ results \in ResultLists /\ initial
  BY DEF LateReady, ListsInv, ResultsInv
<1>2. /\ results \in Seq(Result)
      /\ \A y : y \in ToSet(results) <=> \E i \in 1 .. Len(results) : results[i] = y
      /\ \A x \in ToSet(results) : x.verified => x.status = "WORKING"
  <2>1. results \in Seq(Result)
    BY <1>1 DEF ResultLists
  <2> QED
    BY <2>1, ToSetOfSeq, ResultFields
<1>3. CASE mainPc' = "process" /\ handed' = handed
  BY <1>1, <1>3, NothingHanded
<1>4. CASE /\ mainPc' = "updating" /\ handed' = Append(handed, ready)
           /\ ready # <<>>
  <2>1. ASSUME verified # <<>> PROVE SoundList(verified, results)
    <3>1. /\ verified \in Seq(Entry) /\ IsInjective(verified)
          /\ \A k \in 1 .. Len(verified) : \E i \in 1 .. Len(results) :
                results[i].verified /\ results[i].entry = verified[k]
      BY DEF ListsInv, VerifiedInv
    <3>2. \A k \in 1 .. Len(verified) :
             \E x \in ToSet(results) : x.verified /\ x.entry = verified[k]
      BY <1>2, <3>1
    <3>3. \A x \in ToSet(results) : x.verified => x \in Eligible(results)
      BY <1>2 DEF Eligible
    <3>4. DOMAIN verified = 1 .. Len(verified)
      BY <3>1
    <3> QED
      BY <2>1, <3>1, <3>2, <3>3, <3>4 DEF SoundList
  <2>2. ASSUME verified = <<>>, late # <<>> PROVE SoundList(late, results)
    <3> DEFINE c == Rank!Picked(results, Working(results))
    <3>1. \A x \in ToSet(results) : ~x.verified
      BY <1>1, <1>2, <2>2 DEF ListsInv, VerifiedInv
    <3>2. c \in ResultLists /\ ToSet(c) = Working(results)
      BY <1>1, PickedFrom DEF Working
    <3>3. Working(results) \subseteq Eligible(results)
      BY <3>1 DEF Working, Eligible
    <3> HIDE DEF c
    <3>4. /\ Names(c) \in Seq(Entry) /\ Len(Names(c)) = Len(c)
          /\ \A i \in 1 .. Len(c) : Names(c)[i] = c[i].entry
      BY <3>2, NamesOfList
    <3>5. /\ \A i \in 1 .. Len(c) : c[i] \in Eligible(results)
          /\ \A i, j \in 1 .. Len(c) : c[i].entry = c[j].entry => i = j
      BY <3>2, <3>3, ToSetOfSeq DEF ResultLists
    <3>6. DOMAIN Names(c) = 1 .. Len(c)
      BY <3>4
    <3>7. IsInjective(Names(c))
      BY <3>4, <3>5, <3>6 DEF IsInjective
    <3>8. \A i \in DOMAIN Names(c) : \E x \in Eligible(results) : x.entry = Names(c)[i]
      BY <3>4, <3>5, <3>6
    <3>9. late = Names(c)
      BY DEF c
    <3> HIDE DEF late
    <3> QED
      BY <2>2, <3>7, <3>8, <3>9 DEF SoundList
  <2>3. SoundList(ready, results)
    BY <1>4, <2>1, <2>2
  <2> HIDE DEF ready
  <2> QED
    BY <1>1, <1>4, <2>3, OneHanded
<1> QED
  BY <1>3, <1>4 DEF LateReady

\* processResults hands over the best of the sorted results.
LEMMA ProcessResultsKeepsLists ==
    ASSUME VerifyInv, ListsInv, ProcessResults PROVE ListsInv'
<1>1. results \in ResultLists /\ results' = SortVerifyResults(results)
  BY DEF ListsInv, ResultsInv, ProcessResults
<1>2. /\ results' \in ResultLists /\ ToSet(results') = ToSet(results)
      /\ RankP!Ordered(results', Len(results'))
  BY <1>1, SortIsSorted
<1>3. (results \in ResultLists)'
  BY <1>2 DEF ResultLists
<1>4. CASE mainPc' = "done" /\ handed' = handed
  BY <1>2, <1>3, <1>4, NothingHanded
<1>5. CASE /\ Qualified(results') # <<>> /\ mainPc' = "updating"
           /\ handed' = Append(handed, Qualified(results'))
  <2>1. SoundList(Qualified(results'), results') /\ BestList(Qualified(results'), results')
    BY <1>2, <1>5, QualifiedIsBest
  <2> QED
    BY <1>2, <1>3, <1>5, <2>1, OneHanded
<1> QED
  BY <1>4, <1>5 DEF ProcessResults

-----------------------------------------------------------------------------
\* VerifyInv holds in every state of a scan.
THEOREM VerifyInvariant == VerifySpec => []VerifyInv
<1>1. VerifyInv /\ [VerifyNext]_verifyVars => VerifyInv'
  <2> SUFFICES ASSUME VerifyInv, [VerifyNext]_verifyVars PROVE VerifyInv'
    OBVIOUS
  <2>1. CASE UNCHANGED verifyVars
    BY <2>1 DEF verifyVars, VerifyInv, ScanTypeInv, LaunchInv, SlotInv, Holding,
                WaitInv, ClaimInv, HandedInv
  <2>2. CASE \E r \in Entry : Launch(r)
    BY <2>2, LaunchKeepsInv
  <2>3. CASE \E r \in Entry : Verify(r)
    BY <2>3, VerifyKeepsInv
  <2>4. CASE \E r \in Entry : Finish(r)
    BY <2>4, FinishKeepsInv
  <2>5. CASE LateReady \/ QuietDone \/ ProcessResults
    BY <2>5, AfterWaitKeepsInv
  <2> QED
    BY <2>1, <2>2, <2>3, <2>4, <2>5 DEF VerifyNext, Scanner, Worker
<1> QED
  BY <1>1, VerifyInvInit, PTL DEF VerifySpec

\* A scan hands over one list at most, however its workers interleave: the claim
\* of the early callback in verifyResolversWithEarlyReady excludes the late one,
\* and UpdateResolvers, which does not return, keeps processResults from a second.
THEOREM OneListIsHandedOver == VerifySpec => []HandedOnce
<1>1. VerifyInv => HandedOnce
  BY DEF VerifyInv, HandedInv, HandedOnce
<1> QED
  BY <1>1, VerifyInvariant, PTL

\* The channel that limits the workers holds one entry for each goroutine between
\* its launch and its deferred release, and never more than it has room for.
THEOREM SlotsAreAccounted == VerifySpec => []SlotInv
<1>1. VerifyInv => SlotInv
  BY DEF VerifyInv
<1> QED
  BY <1>1, VerifyInvariant, PTL

\* ListsInv holds in every state of a scan.
THEOREM ListsInvariant == VerifySpec => []ListsInv
<1>1. VerifyInv /\ ListsInv /\ [VerifyNext]_verifyVars => ListsInv'
  <2> SUFFICES ASSUME VerifyInv, ListsInv, [VerifyNext]_verifyVars PROVE ListsInv'
    OBVIOUS
  <2>1. CASE UNCHANGED verifyVars
    <3>1. Recorded' = Recorded
      BY <2>1 DEF verifyVars, Recorded
    <3> QED
      BY <2>1, <3>1, QuietStepKeepsLists DEF verifyVars
  <2>2. CASE \E r \in Entry : Launch(r)
    BY <2>2, LaunchKeepsLists
  <2>3. CASE \E r \in Entry : Verify(r)
    BY <2>3, VerifyKeepsLists
  <2>4. CASE \E r \in Entry : Finish(r)
    BY <2>4, FinishKeepsLists
  <2>5. CASE LateReady
    BY <2>5, LateReadyKeepsLists
  <2>6. CASE QuietDone
    <3>1. (results \in ResultLists)' /\ ToSet(results') = ToSet(results)
      BY <2>6 DEF QuietDone, ListsInv, ResultsInv
    <3>2. handed' = handed /\ mainPc' = "process"
      BY <2>6 DEF QuietDone
    <3> QED
      BY <2>6, <3>1, <3>2, NothingHanded
  <2>7. CASE ProcessResults
    BY <2>7, ProcessResultsKeepsLists
  <2> QED
    BY <2>1, <2>2, <2>3, <2>4, <2>5, <2>6, <2>7 DEF VerifyNext, Scanner, Worker
<1> QED
  BY <1>1, ListsInvInit, VerifyInvariant, PTL DEF VerifySpec

\* Every list handed over, early or late, holds entries of the given list that
\* answered in this scan, each at most as often as it was given, and unverified
\* ones only if none has been verified (verifyResolversWithEarlyReady and
\* processResults).
THEOREM HandedListsAreSound == VerifySpec => []HandedIsSound
<1>1. ListsInv => HandedIsSound
  BY DEF ListsInv, HandedListsInv, HandedIsSound, SoundList, Eligible
<1> QED
  BY <1>1, ListsInvariant, PTL

\* A rescan of any resolvers tests all of them and hands over the fastest, in
\* order, and as many as -scan-top asks for (sortVerifyResults, processResults).
THEOREM RescansTakeTheBest == VerifySpec => []RescanTakesTheBest
<1>1. ListsInv => RescanTakesTheBest
  <2> SUFFICES ASSUME ListsInv, NEW n \in DOMAIN handed, ~initial
               PROVE  LET chosen == ToSet(handed[n])
                          eligible == {x \in ToSet(results) : x.status = "WORKING"}
                          ranked == {x \in eligible :
                                       x.verified \/ \A y \in eligible : ~y.verified}
                      IN  /\ {x.entry : x \in ToSet(results)} = tested
                          /\ \A x, y \in ranked :
                                x.entry \in chosen /\ y.entry \notin chosen
                                   => x.latency <= y.latency
                          /\ \A i, j \in DOMAIN handed[n] : i < j =>
                                \A x, y \in ranked :
                                   x.entry = handed[n][i] /\ y.entry = handed[n][j]
                                      => x.latency <= y.latency
                          /\ \/ TopN > 0 /\ Cardinality(chosen) = TopN
                             \/ chosen = {x.entry : x \in ranked}
    BY Zenon DEF RescanTakesTheBest
  <2> DEFINE eligible == {x \in ToSet(results) : x.status = "WORKING"}
             ranked == {x \in eligible : x.verified \/ \A y \in eligible : ~y.verified}
  <2>1. \A x \in ToSet(results) : x.verified => x.status = "WORKING"
    <3>1. ToSet(results) \subseteq Result
      BY ToSetOfSeq DEF ListsInv, ResultsInv, ResultLists
    <3> QED
      BY <3>1, ResultFields
  <2>2. ranked = Eligible(results)
    BY <2>1 DEF Eligible
  <2>3. {x.entry : x \in ToSet(results)} = tested /\ BestList(handed[n], results)
    BY DEF ListsInv, HandedListsInv
  <2>4. /\ \A x, y \in Eligible(results) :
              x.entry \in ToSet(handed[n]) /\ y.entry \notin ToSet(handed[n])
                 => x.latency <= y.latency
        /\ \A i, j \in DOMAIN handed[n] : i < j =>
              \A x, y \in Eligible(results) :
                 x.entry = handed[n][i] /\ y.entry = handed[n][j]
                    => x.latency <= y.latency
        /\ \/ TopN > 0 /\ Cardinality(ToSet(handed[n])) = TopN
           \/ ToSet(handed[n]) = {x.entry : x \in Eligible(results)}
    BY <2>3, Zenon DEF BestList
  <2> HIDE DEF ranked
  <2>5. /\ \A x, y \in ranked :
              x.entry \in ToSet(handed[n]) /\ y.entry \notin ToSet(handed[n])
                 => x.latency <= y.latency
        /\ \A i, j \in DOMAIN handed[n] : i < j =>
              \A x, y \in ranked :
                 x.entry = handed[n][i] /\ y.entry = handed[n][j]
                    => x.latency <= y.latency
        /\ \/ TopN > 0 /\ Cardinality(ToSet(handed[n])) = TopN
           \/ ToSet(handed[n]) = {x.entry : x \in ranked}
    BY <2>2, <2>4, Zenon
  <2> QED
    BY <2>3, <2>5, Zenon DEF ranked
<1> QED
  BY <1>1, ListsInvariant, PTL

\* Every variable of a scan has its type, with the slots accounted for.
THEOREM VerifyTypeCorrect == VerifySpec => []VerifyTypeOK
<1>1. VerifyInv /\ ListsInv => VerifyTypeOK
  <2> SUFFICES ASSUME VerifyInv, ListsInv PROVE VerifyTypeOK
    OBVIOUS
  <2>1. \A i \in DOMAIN results : results[i] \in VerifyResults(results[i].entry)
    <3>1. results \in Seq(Result)
      BY DEF ListsInv, ResultsInv, ResultLists
    <3>2. \A i \in DOMAIN results : results[i] \in Result
      BY <3>1
    <3> QED
      BY <3>2, ResultFields
  <2> QED
    BY <2>1 DEF VerifyInv, ScanTypeInv, WorkerLabel, SlotInv, ListsInv, ProgressInv,
                VerifyTypeOK
<1> QED
  BY <1>1, VerifyInvariant, ListsInvariant, PTL
=============================================================================
