----------------------------- MODULE CompatScan -----------------------------
(***************************************************************************)
(* The compatibility scan of scanner.go (-scan): scanResolver, which runs  *)
(* seven tests against one resolver, and runScan, whose workers append     *)
(* their results in any order and which prints the best of them.           *)
(*                                                                         *)
(* What the network does to the queries for one resolver is a record with  *)
(* a reply for each query.  A "stub" is a reply of four to seven bytes     *)
(* with response code 0: too short for most tests, not for all.            *)
(***************************************************************************)
EXTENDS Integers, FiniteSets, SequencesExt

CONSTANTS
    Candidate,    \* the entries of the list; a resolver given twice is two of them
    Replies,      \* what the network may do to the queries for a resolver
    BestLimit     \* how many resolvers the summary names (5)

Reply == {"timeout", "error", "stub", "ok", "empty", "formerr", "refused", "nxdomain"}

ASSUME CompatAssumption ==
    /\ IsFiniteSet(Candidate)
    /\ BestLimit \in Nat
    /\ \A x \in Replies :
          /\ {x.basic, x.ns, x.glue, x.txt, x.dpi} \subseteq Reply
          /\ x.random \in [1 .. 2 -> Reply]
          /\ x.edns \in [1 .. 3 -> Reply] /\ x.nx \in [1 .. 3 -> Reply]
          /\ x.latency \in Int

VARIABLES
    results,   \* the results, in the order they were appended
    best       \* the resolvers the summary names

compatVars == <<results, best>>

-----------------------------------------------------------------------------
(* scanResolver.                                                           *)

\* A reply of at least twelve bytes.
Complete(reply) == reply \notin {"timeout", "error", "stub"}

\* The parent domain has name servers, and the address of one is found.
NSSupport(x) == x.ns \in {"ok", "empty"} /\ x.glue \in {"ok", "empty", "stub"}

\* A second name is tried only if the first fails.
RandomSubdomain(x) == \E i \in 1 .. 2 : Complete(x.random[i])

\* The number of sizes, of 512, 900 and 1232, accepted before one is refused.
EDNSMax(x) ==
    Max({n \in 0 .. 3 : \A i \in 1 .. n : Complete(x.edns[i]) /\ x.edns[i] # "formerr"})

\* Two of three invented names do not exist, or have no records.
NXDomainCorrect(x) ==
    Cardinality({i \in 1 .. 3 : x.nx[i] \in {"nxdomain", "empty", "stub"}}) >= 2

Tests(x) == <<NSSupport(x), Complete(x.txt), RandomSubdomain(x), Complete(x.dpi),
              EDNSMax(x) > 0, NXDomainCorrect(x)>>

\* Without basic connectivity no test is run.
ScanResolver(r, x) ==
    [resolver |-> r,
     latency  |-> x.latency,
     status   |-> CASE x.basic = "timeout" -> "TIMEOUT"
                    [] x.basic \in {"error", "stub"} -> "ERROR"
                    [] OTHER -> "WORKING",
     score    |-> IF Complete(x.basic)
                  THEN Cardinality({i \in 1 .. 6 : Tests(x)[i]}) ELSE 0]

-----------------------------------------------------------------------------
(* runScan.                                                                *)

\* Mutant of Ahead: the latency does not break ties.
AheadByScore(x, y) == x.score > y.score

\* Whether the sort moves x before y.
Ahead(x, y) ==
    \/ x.score > y.score
    \/ x.score = y.score /\ x.latency < y.latency

Rank == INSTANCE Ranking

SortByScore(s) == Rank!InsertionSort(s)

Works(result) == result.status = "WORKING"

\* The results of resolvers that work, in the order they were appended.
WorkingResults == Rank!Picked(results, {result \in ToSet(results) : Works(result)})

\* A worker ends: its result is appended under the lock.
ScanOne(r) ==
    /\ \A i \in DOMAIN results : results[i].resolver # r
    /\ \E x \in Replies : results' = Append(results, ScanResolver(r, x))
    /\ UNCHANGED best

\* All workers have ended: the working resolvers are sorted and the first named.
Summary ==
    /\ Len(results) = Cardinality(Candidate)
    /\ LET sorted == SortByScore(WorkingResults)
       IN  best' = SubSeq(sorted, 1, Min({BestLimit, Len(sorted)}))
    /\ UNCHANGED results

-----------------------------------------------------------------------------
\* The summary names the best: in order of score and then latency, as many as
\* there are up to the limit, and none that is worse than one it leaves out,
\* whatever the order in which the workers ended (scanner.go:573).
BestAreNamed ==
    LET working == {i \in DOMAIN results : Works(results[i])}
        Beats(x, y) == /\ x.score >= y.score
                       /\ x.score = y.score => x.latency < y.latency
    IN  best # <<>> =>
            /\ Len(best) = Min({BestLimit, Cardinality(working)})
            /\ \A i, j \in DOMAIN best : i < j => ~Beats(best[j], best[i])
            /\ \A i \in working, j \in DOMAIN best :
                  results[i] \notin ToSet(best) => ~Beats(results[i], best[j])
=============================================================================
