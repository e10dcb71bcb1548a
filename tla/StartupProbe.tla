---------------------------- MODULE StartupProbe ----------------------------
(***************************************************************************)
(* ProbeResolvers of pool.go: before standard mode serves, one goroutine   *)
(* per resolver sends a query, at most MaxWorkers at a time, and main      *)
(* receives the results, but only once it has started the last goroutine.  *)
(* Until then the channel has to hold what the others deliver.             *)
(***************************************************************************)
EXTENDS Integers, FiniteSets

CONSTANTS
    Probed,       \* the entries of the list; a resolver given twice is two of them
    MaxWorkers    \* queries at a time (30)

ASSUME ProbeAssumption == MaxWorkers \in Nat \ {0} /\ IsFiniteSet(Probed)

VARIABLES
    probe,     \* how far the probe of each resolver is
    working    \* the resolvers that have answered

probeVars == <<probe, working>>

At(places) == {r \in Probed : probe[r] \in places}

Advance(r, from, to) ==
    /\ probe[r] = from
    /\ probe' = [probe EXCEPT ![r] = to]

\* Mutant of ChannelRoom: a channel that holds one result.
ChannelRoomOne == 1

\* The capacity of the channel of results.
ChannelRoom == Cardinality(Probed)

\* main takes a slot of the semaphore, and starts the goroutine.
LaunchProbe(r) ==
    /\ Cardinality(At({"query", "send"})) < MaxWorkers
    /\ Advance(r, "todo", "query")
    /\ UNCHANGED working

\* SendQuery returns, with an answer or with an error.
ProbeAnswers(r) ==
    /\ Advance(r, "query", "send")
    /\ working' \in {working, working \cup {r}}

\* The goroutine delivers its result and gives its slot back.
DeliverProbe(r) ==
    /\ Cardinality(At({"delivered"})) < ChannelRoom
    /\ Advance(r, "send", "delivered")
    /\ UNCHANGED working

ReceiveProbe(r) ==
    /\ At({"todo"}) = {}
    /\ Advance(r, "delivered", "received")
    /\ UNCHANGED working

ProbeStep ==
    \E r \in Probed : LaunchProbe(r) \/ ProbeAnswers(r) \/ DeliverProbe(r) \/ ReceiveProbe(r)

ProbeInit == probe = [r \in Probed |-> "todo"] /\ working = {}
=============================================================================
