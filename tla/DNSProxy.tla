------------------------------ MODULE DNSProxy ------------------------------
(***************************************************************************)
(* The forwarding path of proxy.go composed with the resolver pool: the    *)
(* goroutines started by UDPProxy.Start and TCPProxy.Start, each of which  *)
(* carries one query through forward or handle, next to the periodic       *)
(* health check and to whoever replaces the resolver list.                 *)
(*                                                                         *)
(* A handler is one slot of the semaphore sem: Start blocks before it      *)
(* spawns a goroutine when no slot is free, so at most as many queries are *)
(* in progress as there are handlers (256 per proxy in the code).          *)
(*                                                                         *)
(* The two handlers differ only in how a request is read: a datagram is    *)
(* complete when it is received, a TCP request is read by the goroutine    *)
(* itself and may be malformed or never arrive.  The answer cache is a     *)
(* nondeterministic hit or miss here; DNSCache models it.                  *)
(***************************************************************************)
EXTENDS ResolverPool

CONSTANTS
    UDPHandler,   \* the slots of UDPProxy.Start's semaphore
    TCPHandler,   \* the slots of TCPProxy.Start's semaphore
    NoResolver,   \* the value of a resolver variable not yet assigned
    MaxQueries    \* bound: requests accepted in one behaviour

Handler == UDPHandler \cup TCPHandler

ASSUME ProxyAssumption ==
    /\ IsFiniteSet(Handler)
    /\ UDPHandler \cap TCPHandler = {}
    /\ NoResolver \notin Resolver
    /\ MaxQueries \in Nat

VARIABLES
    pc,         \* where each handler stands
    snap,       \* GetNext's copy of p.healthyCache
    cur,        \* the resolver of the current attempt
    failed,     \* the resolver of the failed first attempt
    seen,       \* the counters GetNext has loaded for its score
    accepted    \* requests accepted so far

proxyVars == <<pc, snap, cur, failed, seen, accepted>>
vars == <<poolVars, proxyVars>>

Unseen == [sent |-> 0, ok |-> 0]

-----------------------------------------------------------------------------
(* One handler.                                                            *)

\* Control moves to l and nothing else of the handlers changes.
Goto(h, l) ==
    /\ pc' = [pc EXCEPT ![h] = l]
    /\ UNCHANGED <<snap, cur, failed, seen, accepted>>

\* The goroutine returns and its deferred function frees the slot.
Release(h) ==
    /\ pc' = [pc EXCEPT ![h] = "idle"]
    /\ cur' = [cur EXCEPT ![h] = NoResolver]
    /\ failed' = [failed EXCEPT ![h] = NoResolver]
    /\ seen' = [seen EXCEPT ![h] = Unseen]
    /\ snap' = [snap EXCEPT ![h] = {}]
    /\ UNCHANGED accepted

\* UDPProxy.Start receives a datagram and hands it to a free slot.
AcceptDatagram(h) ==
    /\ h \in UDPHandler
    /\ pc[h] = "idle"
    /\ accepted < MaxQueries
    /\ accepted' = accepted + 1
    /\ pc' = [pc EXCEPT ![h] = "lookup"]
    /\ UNCHANGED <<snap, cur, failed, seen, poolVars>>

\* TCPProxy.Start accepts a connection and hands it to a free slot.
AcceptConnection(h) ==
    /\ h \in TCPHandler
    /\ pc[h] = "idle"
    /\ accepted < MaxQueries
    /\ accepted' = accepted + 1
    /\ pc' = [pc EXCEPT ![h] = "read"]
    /\ UNCHANGED <<snap, cur, failed, seen, poolVars>>

Accept(h) == AcceptDatagram(h) \/ AcceptConnection(h)

\* TCP: the length prefix and the message are read, or the goroutine gives up
\* (closed connection, deadline, length of zero or above the buffer size).
ReadRequest(h) ==
    /\ pc[h] = "read"
    /\ Goto(h, "lookup") \/ Release(h)
    /\ UNCHANGED poolVars

\* A hit is answered at once; a miss goes upstream.
CacheGet(h) ==
    /\ pc[h] = "lookup"
    /\ Goto(h, "next") \/ Release(h)
    /\ UNCHANGED poolVars

\* GetNext, first critical section: the slice p.healthyCache is copied out.
TakeSnapshot(h) ==
    /\ pc[h] = "next"
    /\ mu = Free
    /\ snap' = [snap EXCEPT ![h] = healthyCache]
    /\ pc' = [pc EXCEPT ![h] = "draw"]
    /\ UNCHANGED <<cur, failed, seen, accepted, poolVars>>

\* Mutant of LoadOrder: sent is loaded before ok.
LoadSentFirst == <<"sent", "ok">>

\* The order in which GetNext loads the two counters of its success rate.
LoadOrder == <<"ok", "sent">>

\* GetNext, second critical section: the statistics of a drawn resolver are
\* looked up under the lock, and its counters loaded one after the other
\* without it.  The last draw stands for the best one (see ResolverPool).
Draw(h, r) ==
    /\ pc[h] = "draw"
    /\ mu = Free
    /\ r \in snap[h]
    /\ cur' = [cur EXCEPT ![h] = r]
    /\ seen' = [seen EXCEPT ![h][LoadOrder[1]] = stats[r][LoadOrder[1]]]
    /\ pc' = [pc EXCEPT ![h] = "load"]
    /\ UNCHANGED <<snap, failed, accepted, poolVars>>

LoadSecond(h) ==
    /\ pc[h] = "load"
    /\ seen' = [seen EXCEPT ![h][LoadOrder[2]] = stats[cur[h]][LoadOrder[2]]]
    /\ pc' = [pc EXCEPT ![h] = "scored"]
    /\ UNCHANGED <<snap, cur, failed, accepted, poolVars>>

\* GetNext returns.  A retry that drew the resolver that has just failed is
\* given up without an answer.
GiveUp(h) ==
    /\ pc[h] = "scored"
    /\ cur[h] = failed[h]
    /\ Release(h)
    /\ UNCHANGED poolVars

\* Mutant of Send: only the first attempt is counted as sent.
SendRetryUncounted(h) ==
    /\ pc[h] = "scored"
    /\ cur[h] # failed[h]
    /\ pc' = [pc EXCEPT ![h] = "wait"]
    /\ seen' = [seen EXCEPT ![h] = Unseen]
    /\ snap' = [snap EXCEPT ![h] = {}]
    /\ IF failed[h] = NoResolver THEN MarkSent(cur[h])
       ELSE mu = Free /\ UNCHANGED poolVars
    /\ UNCHANGED <<cur, failed, accepted>>

\* Mutant of Send: the entry is counted in without the lock.
SendUnlocked(h) ==
    /\ pc[h] = "scored"
    /\ cur[h] # failed[h]
    /\ pc' = [pc EXCEPT ![h] = "wait"]
    /\ seen' = [seen EXCEPT ![h] = Unseen]
    /\ snap' = [snap EXCEPT ![h] = {}]
    /\ stats' = [stats EXCEPT ![cur[h]].sent = @ + 1]
    /\ UNCHANGED <<cur, failed, accepted, resolvers, tracked, healthy, healthyCache,
                   failStreak, mu, callbackVars, hcVars>>

\* The attempt is counted, then SendQuery is called.
Send(h) ==
    /\ pc[h] = "scored"
    /\ cur[h] # failed[h]
    /\ pc' = [pc EXCEPT ![h] = "wait"]
    /\ seen' = [seen EXCEPT ![h] = Unseen]
    /\ snap' = [snap EXCEPT ![h] = {}]
    /\ MarkSent(cur[h])
    /\ UNCHANGED <<cur, failed, accepted>>

\* SendQuery returns an answer or an error, at the latest after the upstream
\* timeout.
Outcome(h) ==
    /\ pc[h] = "wait"
    /\ Goto(h, "ok") \/ Goto(h, "fail")
    /\ UNCHANGED poolVars

Succeed(h) ==
    /\ pc[h] = "ok"
    /\ MarkSuccessWithLatency(cur[h])
    /\ Goto(h, "reply")

\* The first failure is followed by another GetNext, the second ends the query.
Fail(h) ==
    /\ pc[h] = "fail"
    /\ MarkFailure(cur[h])
    /\ IF failed[h] = NoResolver
       THEN /\ failed' = [failed EXCEPT ![h] = cur[h]]
            /\ pc' = [pc EXCEPT ![h] = "next"]
            /\ UNCHANGED <<snap, cur, seen, accepted>>
       ELSE Release(h)

\* The answer is put in the cache and written to the client; errors of the
\* write are ignored.
Reply(h) ==
    /\ pc[h] = "reply"
    /\ Release(h)
    /\ UNCHANGED poolVars

HandlerStep(h) ==
    \/ ReadRequest(h)
    \/ CacheGet(h)
    \/ TakeSnapshot(h)
    \/ \E r \in Resolver : Draw(h, r)
    \/ LoadSecond(h)
    \/ GiveUp(h)
    \/ Send(h)
    \/ Outcome(h)
    \/ Succeed(h)
    \/ Fail(h)
    \/ Reply(h)

-----------------------------------------------------------------------------
(* The service in standard mode.                                           *)

ProxyInit ==
    /\ Init
    /\ pc = [h \in Handler |-> "idle"]
    /\ snap = [h \in Handler |-> {}]
    /\ cur = [h \in Handler |-> NoResolver]
    /\ failed = [h \in Handler |-> NoResolver]
    /\ seen = [h \in Handler |-> Unseen]
    /\ accepted = 0

\* A reload replaces the resolver list.
Update(u, ordered) ==
    /\ UpdateResolvers(u, ordered)
    /\ UNCHANGED proxyVars

CheckHealth == HealthCheck /\ UNCHANGED proxyVars

ProxyNext ==
    \/ \E h \in Handler : Accept(h) \/ HandlerStep(h)
    \/ CheckHealth
    \/ \E u \in Updater, ordered \in (SUBSET Resolver) \ {{}} : Update(u, ordered)

ProxySpec == ProxyInit /\ [][ProxyNext]_vars

\* A goroutine that can run eventually does, and one that waits for p.mu gets
\* it although others keep taking it: a Go mutex is handed to a waiter that has
\* starved for a millisecond, and a pending RWMutex writer stops new readers.
\* A probe ends within the upstream timeout.  Nothing says that requests keep
\* arriving, that the ticker of the health check fires, or that a file changes.
Fairness ==
    /\ \A h \in Handler : SF_vars(HandlerStep(h))
    /\ SF_vars(CheckHealth /\ hcPc # "sleep")

FairProxySpec == ProxySpec /\ Fairness

-----------------------------------------------------------------------------
(* Properties.                                                             *)

Labels == {"idle", "read", "lookup", "next", "draw", "load", "scored", "wait",
           "ok", "fail", "reply"}

\* Every variable of the handlers has its type, and the list a handler is about
\* to draw from is not empty, so that the fallback of GetNext, which draws from
\* p.resolvers without the lock, is never taken (pool.go:96).
ProxyTypeOK ==
    /\ pc \in [Handler -> Labels]
    /\ snap \in [Handler -> SUBSET Resolver]
    /\ cur \in [Handler -> Resolver \cup {NoResolver}]
    /\ failed \in [Handler -> Resolver \cup {NoResolver}]
    /\ seen \in [Handler -> [sent : Nat, ok : Nat]]
    /\ accepted \in Nat
    /\ \A h \in Handler : pc[h] = "draw" => snap[h] # {}

\* A list copied out of the pool, and a resolver drawn from it, still have an
\* entry in p.stats when they are used, whatever was done to the pool since:
\* GetNext, MarkSent and MarkFailure dereference that entry unchecked.
NoNilStats ==
    \A h \in Handler :
        /\ snap[h] \subseteq tracked
        /\ pc[h] \in {"load", "scored", "wait", "ok", "fail"} => cur[h] \in tracked

\* The queries outstanding at a resolver.
InFlight(r) == {h \in Handler : pc[h] \in {"wait", "ok", "fail"} /\ cur[h] = r}

\* No query is counted twice or lost, across retries, timeouts and changes of
\* the list: what was sent to a resolver was answered, has failed, or is still
\* outstanding there.
Conservation ==
    \A r \in Resolver :
        stats[r].sent = stats[r].ok + stats[r].fail + Cardinality(InFlight(r))

\* The success rate that GetNext computes from two separate loads never exceeds
\* one, however many queries are counted between the loads: pool.go:117 loads ok
\* before sent.
RateAtMostOne ==
    \A h \in Handler : pc[h] = "scored" => seen[h].ok <= seen[h].sent

\* The inductive strengthening of RateAtMostOne: between the two loads, the value
\* of ok already loaded is no larger than what the second load will return.
LoadInv ==
    \A h \in Handler :
        pc[h] = "load" => seen[h].ok <= stats[cur[h]].sent

\* The inductive invariant of the handlers, next to that of the pool.
ProxyInv ==
    PoolInv /\ ProxyTypeOK /\ NoNilStats /\ Conservation /\ LoadInv /\ RateAtMostOne

\* Every accepted request comes to an end and its semaphore slot is freed, in
\* spite of the health check's holding the write lock while it waits for probes.
EveryQueryCompletes ==
    \A h \in Handler : pc[h] # "idle" ~> pc[h] = "idle"
=============================================================================
