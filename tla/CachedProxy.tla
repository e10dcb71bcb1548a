---------------------------- MODULE CachedProxy -----------------------------
(***************************************************************************)
(* The answer cache in use: the handlers of proxy.go, many at a time, look *)
(* a question up, ask upstream when that fails, store what they get and    *)
(* write it to their client, who keeps it for as long as its TTLs say.     *)
(* DNSProxy has the same handlers with the pool instead of the cache.      *)
(*                                                                         *)
(* Time passes while a handler waits for upstream, and again before it     *)
(* stores the answer, since it first marks the resolver and may have to    *)
(* wait for the lock of the pool: MaxWait seconds at most, while a health  *)
(* check holds it, or for ever, once UpdateResolvers does.  After that its *)
(* steps are local and take less than a second: the clock stands still     *)
(* until the answer is written.                                            *)
(***************************************************************************)
EXTENDS DNSCache

CONSTANTS
    Handler,     \* the handlers
    NoKey,       \* no question
    MaxWait      \* how long the lock of the pool may keep an answer from being stored

ASSUME CachedProxyAssumption == NoKey \notin Key /\ MaxWait \in Nat

VARIABLES
    asked,       \* the question each handler works on
    phase,       \* where each handler stands
    answer       \* the answer each handler has, and since when upstream gave it

handlerVars == <<asked, phase, answer>>
cachedVars == <<cacheVars, handlerVars>>

None == [ttls |-> {}, since |-> 0]

-----------------------------------------------------------------------------
\* The handler asks the cache; a hit is all it needs.
Lookup(c, k) ==
    /\ phase[c] = "idle"
    /\ asked' = [asked EXCEPT ![c] = k]
    /\ \/ /\ GetHit(k)
          /\ phase' = [phase EXCEPT ![c] = "write"]
          /\ answer' = [answer EXCEPT ![c] = [ttls |-> reply'.ttls,
                                              since |-> reply'.since]]
       \/ /\ GetMiss(k) \/ GetExpired(k)
          /\ phase' = [phase EXCEPT ![c] = "upstream"]
          /\ UNCHANGED answer

UpstreamAnswers(c, ttls) ==
    /\ phase[c] = "upstream"
    /\ phase' = [phase EXCEPT ![c] = "store"]
    /\ answer' = [answer EXCEPT ![c] = [ttls |-> ttls, since |-> now]]
    /\ UNCHANGED <<cacheVars, asked>>

\* Both attempts have failed: nothing is stored and the client gets no answer.
UpstreamFails(c) ==
    /\ phase[c] = "upstream"
    /\ phase' = [phase EXCEPT ![c] = "idle"]
    /\ asked' = [asked EXCEPT ![c] = NoKey]
    /\ UNCHANGED <<cacheVars, answer>>

\* MarkSuccessWithLatency has returned.  A handler that waits for longer than
\* MaxWait is one that never gets the lock.
StoreAnswer(c) ==
    /\ phase[c] = "store"
    /\ now <= answer[c].since + MaxWait
    /\ phase' = [phase EXCEPT ![c] = "write"]
    /\ IF MinTTL(answer[c].ttls) > 0
       THEN Put(asked[c], answer[c].ttls, answer[c].since)
       ELSE UNCHANGED cacheVars
    /\ UNCHANGED <<asked, answer>>

\* The handler is done with its answer.
Finish(c) ==
    /\ phase' = [phase EXCEPT ![c] = "idle"]
    /\ asked' = [asked EXCEPT ![c] = NoKey]
    /\ answer' = [answer EXCEPT ![c] = None]

\* The records keep the TTLs they had upstream, however old the answer is.
WriteAnswer(c) ==
    /\ phase[c] = "write"
    /\ Finish(c)
    /\ UNCHANGED cacheVars

Second ==
    /\ \A c \in Handler : phase[c] # "write"
    /\ Tick
    /\ UNCHANGED handlerVars

-----------------------------------------------------------------------------
CachedInit ==
    /\ NewDNSCache
    /\ asked = [c \in Handler |-> NoKey]
    /\ phase = [c \in Handler |-> "idle"]
    /\ answer = [c \in Handler |-> None]

CachedNext ==
    \/ \E c \in Handler : (\E k \in Key : Lookup(c, k)) \/ UpstreamFails(c)
                          \/ StoreAnswer(c) \/ WriteAnswer(c)
    \/ \E c \in Handler, ttls \in Answer : UpstreamAnswers(c, ttls)
    \/ Second

CachedSpec == CachedInit /\ [][CachedNext]_cachedVars

-----------------------------------------------------------------------------
(* Properties.                                                             *)

\* A record is served for its TTL at most after it was stored, which may be MaxWait
\* after upstream gave it.  The client gets TTLs that have not been counted down, so
\* it may keep the record for its TTL once more, but no longer: the cache is filled
\* from upstream only and a hit renews nothing, so the surplus does not add up however
\* often an answer is served (cache.go:100, proxy.go:120).
KeptAtMostTwice ==
    \A c \in Handler : phase[c] = "write" =>
        \A t \in answer[c].ttls : now + t <= answer[c].since + MaxWait + 2 * t
=============================================================================
