----------------------------- MODULE VerifyScan -----------------------------
(***************************************************************************)
(* One built-in scan: the worker pool of scanner.go that verifies          *)
(* resolvers, with the early callback of the initial scan, and             *)
(* processResults of autoscan.go, which picks what the pool is to use.     *)
(*                                                                         *)
(* AutoScanner reduces such a scan to the list it ends with; this module   *)
(* says which list that is.  Handing it over means calling                 *)
(* UpdateResolvers, which does not return (see ResolverPool): the worker   *)
(* or the scanner that calls it stays in the call, and keeps its slot.     *)
(*                                                                         *)
(* A scan goes through a list of resolvers entry by entry.  Nothing takes  *)
(* duplicates out of it (-f and -r may name the same resolver), so that    *)
(* entries are told apart here even when they are the same resolver: each  *)
(* is tested, recorded and handed over by itself.                          *)
(*                                                                         *)
(* What a resolver answers is up to the network.  The probe and the        *)
(* challenge of a worker touch nothing that is shared, so they are one     *)
(* step with the critical section that records the result.                 *)
(***************************************************************************)
EXTENDS Integers, FiniteSets, SequencesExt

CONSTANTS
    Entry,      \* the entries of as.allResolvers
    Workers,    \* concurrent verifications (-scan-workers); nothing checks that it is
                \* positive: a scan hangs with 0, and cannot begin with less (Program)
    TopN,       \* target count of resolvers (-scan-top), 0 for no limit
    Latency     \* the latencies a probe may measure

ASSUME VerifyAssumption ==
    /\ IsFiniteSet(Entry)
    /\ Workers \in Nat
    /\ TopN \in Int
    /\ Latency \subseteq Nat

TargetCount == IF TopN <= 0 THEN 20 ELSE TopN

VARIABLES
    initial,     \* initialScanBuiltin, or scanAndUpdateBuiltin
    tested,      \* the entries of this scan: all, or maxSteps of them
    todo,        \* those the loop has not reached
    sem,         \* slots taken
    worker,      \* where the goroutine of an entry stands
    results,     \* the results, in the order they were recorded
    verified,    \* the verified entries, in that order
    readySent,   \* whether the early callback has been claimed
    mainPc,      \* where the scanner goroutine stands
    handed       \* history: the lists given to UpdateResolvers

verifyVars == <<initial, tested, todo, sem, worker, results, verified, readySent,
                mainPc, handed>>

\* What verifyResolver may return: only a working resolver is challenged.
VerifyResults(r) ==
    {x \in [entry : {r}, status : {"WORKING", "TIMEOUT", "ERROR"},
            verified : BOOLEAN, latency : Latency] :
        x.verified => x.status = "WORKING"}

Names(s) == [i \in DOMAIN s |-> s[i].entry]
Verified(s) == {x \in ToSet(s) : x.verified}
Working(s) == {x \in ToSet(s) : x.status = "WORKING"}

-----------------------------------------------------------------------------
(* sortVerifyResults and processResults.                                   *)

\* Whether x is moved before y: verified first, then the lower latency.
Better(x, y) ==
    \/ x.verified /\ ~y.verified
    \/ x.verified = y.verified /\ x.latency < y.latency

Rank == INSTANCE Ranking WITH Ahead <- Better

SortVerifyResults(s) == Rank!InsertionSort(s)

CappedAt(n, s) == IF n > 0 /\ n < Len(s) THEN SubSeq(s, 1, n) ELSE s

\* Mutant of Qualified: verified ones come first, but others fill the list up.
QualifiedWorking(s) == CappedAt(TopN, Names(Rank!Picked(s, Working(s))))

\* The list processResults selects from the sorted results: verified resolvers,
\* or working ones if there are none.
Qualified(s) ==
    LET best == Rank!Picked(s, Verified(s))
    IN  CappedAt(TopN, Names(IF best # <<>> THEN best ELSE Rank!Picked(s, Working(s))))

-----------------------------------------------------------------------------
(* The workers.                                                            *)

\* The loop starts a goroutine when there is a free slot, in shuffled order.
Launch(r) ==
    /\ mainPc = "launch"
    /\ r \in todo
    /\ sem < Workers
    /\ sem' = sem + 1
    /\ todo' = todo \ {r}
    /\ worker' = [worker EXCEPT ![r] = "verify"]
    /\ UNCHANGED <<initial, tested, results, verified, readySent, mainPc, handed>>

\* Mutant of EnoughVerified: nobody remembers that the callback was claimed.
EnoughVerifiedAgain(list) == Len(list) >= TargetCount

EnoughVerified(list) == Len(list) >= TargetCount /\ ~readySent

\* A worker records its result; the one that reaches the target in an initial
\* scan calls back with a copy of the verified list, in its own goroutine.
Verify(r) ==
    /\ worker[r] = "verify"
    /\ \E x \in VerifyResults(r) :
          LET list == IF x.verified /\ initial THEN Append(verified, r) ELSE verified
              early == initial /\ x.verified /\ EnoughVerified(list)
          IN  /\ results' = Append(results, x)
              /\ verified' = list
              /\ readySent' = (readySent \/ early)
              /\ handed' = IF early THEN Append(handed, list) ELSE handed
              /\ worker' = [worker EXCEPT ![r] = IF early THEN "updating" ELSE "return"]
    /\ UNCHANGED <<initial, tested, todo, sem, mainPc>>

\* Mutant of Finish: the slot is not given back.
FinishKeepsSlot(r) ==
    /\ worker[r] = "return"
    /\ worker' = [worker EXCEPT ![r] = "done"]
    /\ UNCHANGED <<initial, tested, todo, sem, results, verified, readySent,
                   mainPc, handed>>

\* The deferred release of the slot and wg.Done.
Finish(r) ==
    /\ worker[r] = "return"
    /\ sem' = sem - 1
    /\ worker' = [worker EXCEPT ![r] = "done"]
    /\ UNCHANGED <<initial, tested, todo, results, verified, readySent, mainPc,
                   handed>>

-----------------------------------------------------------------------------
(* The scanner goroutine.                                                  *)

\* wg.Wait returns.
WaitOver == mainPc = "launch" /\ todo = {} /\ \A r \in tested : worker[r] = "done"

\* Without a callback so far, the initial scan calls back with what it has.
LateReady ==
    /\ WaitOver
    /\ initial
    /\ LET ready == IF verified # <<>> THEN verified
                    ELSE Names(Rank!Picked(results, Working(results)))
       IN  IF ~readySent /\ ready # <<>>
           THEN mainPc' = "updating" /\ handed' = Append(handed, ready)
           ELSE mainPc' = "process" /\ UNCHANGED handed
    /\ UNCHANGED <<initial, tested, todo, sem, worker, results, verified, readySent>>

QuietDone ==
    /\ WaitOver
    /\ ~initial
    /\ mainPc' = "process"
    /\ UNCHANGED <<initial, tested, todo, sem, worker, results, verified, readySent,
                   handed>>

\* processResults: without a working resolver the pool is kept.
ProcessResults ==
    /\ mainPc = "process"
    /\ results' = SortVerifyResults(results)
    /\ IF Qualified(results') = <<>>
       THEN mainPc' = "done" /\ UNCHANGED handed
       ELSE mainPc' = "updating" /\ handed' = Append(handed, Qualified(results'))
    /\ UNCHANGED <<initial, tested, todo, sem, worker, verified, readySent>>

VerifyInit ==
    /\ initial \in BOOLEAN
    /\ tested \in (SUBSET Entry) \ {{}}
    /\ todo = tested
    /\ sem = 0
    /\ worker = [r \in Entry |-> "none"]
    /\ results = <<>> /\ verified = <<>>
    /\ readySent = FALSE
    /\ mainPc = "launch"
    /\ handed = <<>>

Scanner == (\E r \in Entry : Launch(r)) \/ LateReady \/ QuietDone \/ ProcessResults
Worker(r) == Verify(r) \/ Finish(r)

VerifyNext == Scanner \/ \E r \in Entry : Worker(r)

VerifySpec == VerifyInit /\ [][VerifyNext]_verifyVars

\* As long as a goroutine can run, one does; a probe ends because it has a
\* timeout.  That is enough, because a scan takes a bounded number of steps.
FairVerifySpec == VerifySpec /\ WF_verifyVars(VerifyNext)

-----------------------------------------------------------------------------
(* Properties.                                                             *)

Holding == {r \in Entry : worker[r] \in {"verify", "updating", "return"}}
Recorded == {r \in Entry : worker[r] \in {"updating", "return", "done"}}

\* Every variable of a scan has its type, and the slots taken are those of the
\* workers between their launch and their deferred release (scanner.go:410).
VerifyTypeOK ==
    /\ initial \in BOOLEAN /\ readySent \in BOOLEAN
    /\ todo \subseteq tested /\ tested \subseteq Entry
    /\ worker \in [Entry -> {"none", "verify", "updating", "return", "done"}]
    /\ \A i \in DOMAIN results : results[i] \in VerifyResults(results[i].entry)
    /\ mainPc \in {"launch", "process", "updating", "done"}
    /\ sem = Cardinality(Holding) /\ sem <= Workers

\* However workers interleave, a scan hands over one list at most: the early
\* callback is claimed once, and the late one only if nobody claimed the early
\* one (scanner.go:423).  A scan that got back from either would hand over a second
\* list, that of processResults; it does not, since UpdateResolvers does not return.
HandedOnce == Len(handed) <= 1

\* A list handed over has entries that answered in this scan, none of them twice, and
\* an unverified one only if none has been verified (scanner.go:444).  A resolver
\* that the user gave twice is two entries, and may be handed over twice.
HandedIsSound ==
    \A n \in DOMAIN handed :
        /\ handed[n] # <<>>
        /\ IsInjective(handed[n])
        /\ \A i \in DOMAIN handed[n] :
              \E x \in ToSet(results) :
                 /\ x.entry = handed[n][i]
                 /\ x.status = "WORKING"
                 /\ x.verified \/ \A y \in ToSet(results) : ~y.verified

\* A rescan chooses after every entry of it was tested, and chooses the best:
\* a result left out never ranks before one that is in, nor is left out while
\* there is room (autoscan.go:248).
RescanTakesTheBest ==
    \A n \in DOMAIN handed :
        ~initial =>
            LET chosen == ToSet(handed[n])
                eligible == {x \in ToSet(results) : x.status = "WORKING"}
                ranked == {x \in eligible : x.verified \/ \A y \in eligible : ~y.verified}
            IN  /\ {x.entry : x \in ToSet(results)} = tested
                /\ \A x, y \in ranked :
                      x.entry \in chosen /\ y.entry \notin chosen
                         => x.latency <= y.latency
                /\ \A i, j \in DOMAIN handed[n] : i < j =>
                      \A x, y \in ranked :
                         x.entry = handed[n][i] /\ y.entry = handed[n][j]
                            => x.latency <= y.latency
                /\ \/ TopN > 0 /\ Cardinality(chosen) = TopN
                   \/ chosen = {x.entry : x \in ranked}

\* The scan goes on to the last entry although a worker is kept by its
\* callback, as long as there is another worker, and it comes to a list or ends
\* without one (scanner.go:391).
EveryoneIsTested ==
    <>(todo = {} /\ tested = Recorded /\ (handed # <<>> \/ mainPc = "done"))
=============================================================================
