------------------------------ MODULE DNSCache ------------------------------
(***************************************************************************)
(* The answer cache of cache.go: a map from questions to answers with an   *)
(* expiry time, next to a doubly linked list of the questions in order of  *)
(* use.  Every operation is one critical section of c.mu; CachedProxy has  *)
(* the handlers that call them.                                            *)
(*                                                                         *)
(* A question (name in lower case, type, class) is a Key; a query that     *)
(* cannot be parsed has none, and both operations ignore it.  An answer is *)
(* the set of the TTLs of its records, which is all the cache looks at.    *)
(* OPT pseudo-records carry no TTL and are not in the set.  An entry also  *)
(* records, as history, since when there is this answer: when upstream     *)
(* gave it, which is before it was put in.                                 *)
(***************************************************************************)
EXTENDS Integers, Sequences, SequencesExt, FiniteSetsExt

CONSTANTS
    Key,          \* the questions
    Answer,       \* the answers upstream may give: sets of TTLs
    MaxSize,      \* c.maxSize, the --cache-size flag, which is not validated
    MaxTime,      \* bound: the clock
    MaxUses       \* bound: answers stored or served

ASSUME CacheAssumption ==
    /\ \A a \in Answer : a \subseteq Nat
    /\ MaxSize \in Int
    /\ MaxTime \in Nat /\ MaxUses \in Nat

VARIABLES
    items,      \* c.items, a function on the keys present
    order,      \* c.order, most recently used first
    now,        \* the clock, in seconds
    reply,      \* the entry the last Get returned, if it was a hit
    lastUse,    \* history: when each key was last stored or served
    uses        \* history: answers stored or served so far

cacheVars == <<items, order, now, reply, lastUse, uses>>

Miss == [ttls |-> {}, since |-> 0, expiresAt |-> 0]

-----------------------------------------------------------------------------
\* The smallest TTL of an answer, 0 when it has no record.
MinTTL(answer) == IF answer = {} THEN 0 ELSE Min(answer)

\* The map without the key.
Without(f, key) == [k \in DOMAIN f \ {key} |-> f[k]]

\* Key k is used now.
Use(k) ==
    /\ uses < MaxUses
    /\ uses' = uses + 1
    /\ lastUse' = [lastUse EXCEPT ![k] = uses + 1]

-----------------------------------------------------------------------------
(* Get.                                                                    *)

GetMiss(k) ==
    /\ k \notin DOMAIN items
    /\ reply' = Miss
    /\ UNCHANGED <<items, order, now, lastUse, uses>>

GetExpired(k) ==
    /\ k \in DOMAIN items
    /\ now > items[k].expiresAt
    /\ items' = Without(items, k)
    /\ order' = RemoveFirst(order, k)
    /\ reply' = Miss
    /\ UNCHANGED <<now, lastUse, uses>>

\* Mutant of GetHit: the entry is not moved to the front of the list.
GetHitInPlace(k) ==
    /\ k \in DOMAIN items
    /\ now <= items[k].expiresAt
    /\ reply' = items[k]
    /\ Use(k)
    /\ UNCHANGED <<items, order, now>>

\* Mutant of GetHit: an answer that is served expires a TTL later.
GetHitRenews(k) ==
    /\ k \in DOMAIN items
    /\ now <= items[k].expiresAt
    /\ items' = [items EXCEPT ![k].expiresAt = now + MinTTL(items[k].ttls)]
    /\ order' = Cons(k, RemoveFirst(order, k))
    /\ reply' = items[k]
    /\ Use(k)
    /\ UNCHANGED now

\* The stored bytes are copied, and the copy gets the transaction ID of the query.
GetHit(k) ==
    /\ k \in DOMAIN items
    /\ now <= items[k].expiresAt
    /\ order' = Cons(k, RemoveFirst(order, k))
    /\ reply' = items[k]
    /\ Use(k)
    /\ UNCHANGED <<items, now>>

-----------------------------------------------------------------------------
(* Put.                                                                    *)

\* The loop that evicts from the back until fewer than maxSize entries are left.
MakeRoom(list) == SubSeq(list, 1, Min({Len(list), Max({MaxSize - 1, 0})}))

\* Mutant of Unlink: an entry that is replaced keeps its list element.
UnlinkNothing(list, k) == list

\* The list without the element of the entry that is about to be replaced.
Unlink(list, k) == RemoveFirst(list, k)

\* An answer without a positive TTL is not stored.
Put(k, answer, since) ==
    LET kept  == MakeRoom(Unlink(order, k))
        ttl   == MinTTL(answer)
        entry == [ttls |-> answer, since |-> since, expiresAt |-> now + ttl]
    IN  /\ ttl > 0
        /\ order' = Cons(k, kept)
        /\ items' = [j \in (DOMAIN items \cap ToSet(kept)) \cup {k} |->
                        IF j = k THEN entry ELSE items[j]]
        /\ reply' = Miss
        /\ Use(k)
        /\ UNCHANGED now

\* A second passes.
Tick ==
    /\ now < MaxTime
    /\ now' = now + 1
    /\ reply' = Miss
    /\ UNCHANGED <<items, order, lastUse, uses>>

-----------------------------------------------------------------------------
NewDNSCache ==
    /\ items = <<>>
    /\ order = <<>>
    /\ now = 0
    /\ reply = Miss
    /\ lastUse = [k \in Key |-> 0]
    /\ uses = 0

-----------------------------------------------------------------------------
(* Properties.                                                             *)

\* The list and the map hold the same keys, each of them once: an entry that the
\* list forgot could never be evicted, and one listed twice is evicted too soon.
\* A size of zero or less behaves as one: Put empties the cache and then inserts.
ListMatchesMap ==
    /\ order \in Seq(Key)
    /\ ToSet(order) = DOMAIN items
    /\ Len(order) = Cardinality(DOMAIN items)
    /\ Len(order) <= Max({MaxSize, 1})

\* The cache with its list and its map does what an LRU store promises: Get takes
\* live answers only and makes them the latest, Put forgets the answers that were
\* used longest ago and no more than it has to (cache.go:131).
Store == INSTANCE LRUStore WITH
    Capacity <- Max({MaxSize, 1}),
    Nothing  <- Miss,
    store    <- [k \in DOMAIN items |-> [answer |-> items[k], used |-> lastUse[k]]],
    result   <- reply,
    time     <- now

IsLRUStore == Store!StoreSpec
=============================================================================
