------------------------------ MODULE LRUStore ------------------------------
(***************************************************************************)
(* What the answer cache of cache.go promises, without saying how: a store *)
(* of at most Capacity answers, from which one is taken only as long as it *)
(* is live, and which makes room by forgetting what was used longest ago   *)
(* and no more than it has to.  There is neither a list nor a map here:    *)
(* each answer carries the rank of its last use, and an action says what   *)
(* the ranks are like afterwards.                                          *)
(***************************************************************************)
EXTENDS Naturals, FiniteSets

CONSTANTS
    Key,         \* what answers are stored under
    Capacity,    \* how many answers there may be, at least one
    Nothing      \* the result when no answer was taken

VARIABLES
    store,     \* the answers present, each with the rank of its last use
    result,    \* the answer that was taken
    time       \* the clock

storeVars == <<store, result, time>>

\* Keys ks are present afterwards, k is the one used last, and nothing else about
\* the others changes.
Rearranged(ks, k) ==
    /\ DOMAIN store' = ks
    /\ \A j \in ks \ {k} : store'[j] = store[j] /\ store'[j].used < store'[k].used

Take(k) ==
    /\ k \in DOMAIN store
    /\ time <= store[k].answer.expiresAt
    /\ result' = store[k].answer
    /\ Rearranged(DOMAIN store, k)
    /\ store'[k].answer = store[k].answer
    /\ UNCHANGED time

\* There is no answer, or none that is live, which is forgotten.
TakeNothing(k) ==
    /\ k \in DOMAIN store => time > store[k].answer.expiresAt
    /\ result' = Nothing
    /\ store' = [j \in DOMAIN store \ {k} |-> store[j]]
    /\ UNCHANGED time

Insert(k) ==
    LET others == DOMAIN store \ {k}
    IN  \E kept \in SUBSET others :
            /\ Cardinality(kept) < Capacity
            /\ kept # others => Cardinality(kept) = Capacity - 1
            /\ \A i \in others \ kept, j \in kept : store[i].used < store[j].used
            /\ Rearranged(kept \cup {k}, k)
            /\ store'[k].answer.expiresAt > time
            /\ result' = Nothing
            /\ UNCHANGED time

Pass ==
    /\ time' = time + 1
    /\ result' = Nothing
    /\ UNCHANGED store

StoreInit == store = <<>> /\ result = Nothing /\ time = 0

StoreNext == Pass \/ \E k \in Key : Take(k) \/ TakeNothing(k) \/ Insert(k)

StoreSpec == StoreInit /\ [][StoreNext]_storeVars
=============================================================================
