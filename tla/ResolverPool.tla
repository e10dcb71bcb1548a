---------------------------- MODULE ResolverPool ----------------------------
(***************************************************************************)
(* The upstream resolver pool of pool.go: which resolvers are in rotation, *)
(* which of them are believed healthy, the list GetNext draws from, and    *)
(* the RWMutex p.mu that every operation goes through.                     *)
(*                                                                         *)
(* The module is driven by a most general client: any goroutine may call   *)
(* any operation at any time.  The modules that compose the pool with its  *)
(* real callers reuse the actions below.                                   *)
(*                                                                         *)
(* The critical sections that contain no blocking call are one step whose  *)
(* guard is a free lock.  Two operations hold the write lock across steps: *)
(* HealthCheck, which waits for probe results under it, and                *)
(* UpdateResolvers, which asks for the read lock while it is the writer.   *)
(*                                                                         *)
(* A resolver list is the set of its entries: GetNext draws from it at     *)
(* random, so neither order nor multiplicity decides what can happen.      *)
(* Latency is left out for the same reason: GetNext keeps the best of at   *)
(* most three draws made with replacement, and all three may be the same   *)
(* resolver, so every member of the list can be returned.                  *)
(***************************************************************************)
EXTENDS Naturals, FiniteSets

CONSTANTS
    Resolver,     \* every resolver address the program may ever hear of
    Updater,      \* goroutines that may call UpdateResolvers
    FailLimit,    \* failures in a row that take a resolver down (10 in the code)
    Free,         \* the value of mu when nobody holds the write lock
    HC,           \* the goroutine that runs the periodic health check
    MaxCalls      \* bound: calls counted in the statistics of one resolver

ASSUME PoolAssumption ==
    /\ IsFiniteSet(Resolver) /\ Resolver # {}
    /\ FailLimit \in Nat \ {0}
    /\ Free \notin Updater /\ HC \notin Updater /\ Free # HC
    /\ MaxCalls \in Nat

VARIABLES
    resolvers,      \* p.resolvers
    tracked,        \* the keys of p.stats and of p.healthy
    healthy,        \* p.healthy, FALSE where the map has no key
    healthyCache,   \* p.healthyCache
    stats,          \* p.stats
    failStreak,     \* p.failStreak, 0 where the map has no key
    mu,             \* the goroutine holding p.mu for writing, or Free
    onResolverDown, \* whether a callback is registered
    callbacks,      \* callback goroutines spawned and not yet run
    hcPc,           \* HealthCheck: where it stands
    hcProbes,       \* HealthCheck: probes whose result has not been received
    hcLeft          \* HealthCheck: receives its loop still has to make

rotationVars == <<resolvers, tracked>>
callbackVars == <<onResolverDown, callbacks>>
hcVars == <<hcPc, hcProbes, hcLeft>>
poolVars == <<resolvers, tracked, healthy, healthyCache, stats, failStreak, mu,
              onResolverDown, callbacks, hcPc, hcProbes, hcLeft>>

-----------------------------------------------------------------------------
\* Mutant of RebuildHealthyCache: no fallback when every resolver is down.
RebuildWithoutFallback(active, up) == {r \in active : up[r]}

\* The healthy resolvers in rotation, or all of them when none is healthy.
RebuildHealthyCache(active, up) ==
    LET alive == {r \in active : up[r]}
    IN  IF alive = {} THEN active ELSE alive

NewResolverPool(rs) ==
    /\ resolvers = rs
    /\ tracked = rs
    /\ healthy = [r \in Resolver |-> r \in rs]
    /\ healthyCache = rs
    /\ stats = [r \in Resolver |-> [sent |-> 0, ok |-> 0, fail |-> 0]]
    /\ failStreak = [r \in Resolver |-> 0]
    /\ mu = Free
    /\ onResolverDown = FALSE
    /\ callbacks = 0
    /\ hcPc = "sleep"
    /\ hcProbes = {}
    /\ hcLeft = 0

-----------------------------------------------------------------------------
(* Operations called by the query handlers.                                *)

MarkSent(r) ==
    /\ mu = Free
    /\ stats' = [stats EXCEPT ![r].sent = @ + 1]
    /\ UNCHANGED <<rotationVars, healthy, healthyCache, failStreak, mu,
                   callbackVars, hcVars>>

\* Mutant of MarkSuccessWithLatency: the cache is not rebuilt on recovery.
MarkSuccessNoRebuild(r) ==
    /\ mu = Free
    /\ r \in tracked
    /\ stats' = [stats EXCEPT ![r].ok = @ + 1]
    /\ failStreak' = [failStreak EXCEPT ![r] = 0]
    /\ healthy' = [healthy EXCEPT ![r] = TRUE]
    /\ UNCHANGED <<rotationVars, healthyCache, mu, callbackVars, hcVars>>

\* A success brings an unhealthy resolver back, however late it arrives.  For
\* a resolver without statistics the code returns at once: a stuttering step.
MarkSuccessWithLatency(r) ==
    /\ mu = Free
    /\ r \in tracked
    /\ stats' = [stats EXCEPT ![r].ok = @ + 1]
    /\ failStreak' = [failStreak EXCEPT ![r] = 0]
    /\ healthy' = [healthy EXCEPT ![r] = TRUE]
    /\ healthyCache' = IF healthy[r] THEN healthyCache
                       ELSE RebuildHealthyCache(resolvers, healthy')
    /\ UNCHANGED <<rotationVars, mu, callbackVars, hcVars>>

\* The FailLimit-th failure in a row takes a healthy resolver down and spawns
\* the registered callback.
MarkFailure(r) ==
    LET down == failStreak[r] + 1 >= FailLimit /\ healthy[r]
    IN  /\ mu = Free
        /\ stats' = [stats EXCEPT ![r].fail = @ + 1]
        /\ failStreak' = [failStreak EXCEPT ![r] = @ + 1]
        /\ healthy' = [healthy EXCEPT ![r] = @ /\ ~down]
        /\ healthyCache' = IF down THEN RebuildHealthyCache(resolvers, healthy')
                           ELSE healthyCache
        /\ callbacks' = IF down /\ onResolverDown THEN callbacks + 1
                        ELSE callbacks
        /\ UNCHANGED <<rotationVars, mu, onResolverDown, hcVars>>

-----------------------------------------------------------------------------
(* The callback.                                                           *)

SetOnResolverDown ==
    /\ mu = Free
    /\ onResolverDown' = TRUE
    /\ UNCHANGED <<rotationVars, healthy, healthyCache, stats, failStreak, mu,
                   callbacks, hcVars>>

\* One spawned callback goroutine runs to its end.
RunCallback ==
    /\ callbacks > 0
    /\ callbacks' = callbacks - 1
    /\ UNCHANGED <<rotationVars, healthy, healthyCache, stats, failStreak, mu,
                   onResolverDown, hcVars>>

-----------------------------------------------------------------------------
(* HealthCheck.  The list is read without the lock, once to launch the     *)
(* probes and once more, under the lock, to count the results to wait for. *)

HCBegin ==
    /\ hcPc = "sleep"
    /\ mu = Free
    /\ hcPc' = "launch"
    /\ UNCHANGED <<rotationVars, healthy, healthyCache, stats, failStreak, mu,
                   callbackVars, hcProbes, hcLeft>>

\* The slice header is not read atomically: while an updater is writing it the
\* loop may see any mix of the old entries and the new ones.
HCLaunch ==
    /\ hcPc = "launch"
    /\ \/ mu \notin Updater /\ hcProbes' = resolvers
       \/ mu \in Updater /\ hcProbes' \in SUBSET tracked
    /\ hcPc' = "lock"
    /\ UNCHANGED <<rotationVars, healthy, healthyCache, stats, failStreak, mu,
                   callbackVars, hcLeft>>

HCLock ==
    /\ hcPc = "lock"
    /\ mu = Free
    /\ mu' = HC
    /\ hcLeft' = Cardinality(resolvers)
    /\ hcPc' = "receive"
    /\ UNCHANGED <<rotationVars, healthy, healthyCache, stats, failStreak,
                   callbackVars, hcProbes>>

\* Mutant of HCReceive: a live resolver keeps its failure streak.
HCReceiveKeepsStreak(r, alive) ==
    /\ hcPc = "receive"
    /\ hcLeft > 0
    /\ r \in hcProbes
    /\ hcProbes' = hcProbes \ {r}
    /\ hcLeft' = hcLeft - 1
    /\ healthy' = [healthy EXCEPT ![r] = alive]
    /\ UNCHANGED <<rotationVars, healthyCache, stats, failStreak, mu,
                   callbackVars, hcPc>>

\* One result leaves the channel; results arrive in any order.  A probe ends
\* within the upstream timeout, answered (alive) or not.
HCReceive(r, alive) ==
    /\ hcPc = "receive"
    /\ hcLeft > 0
    /\ r \in hcProbes
    /\ hcProbes' = hcProbes \ {r}
    /\ hcLeft' = hcLeft - 1
    /\ healthy' = [healthy EXCEPT ![r] = alive]
    /\ failStreak' = IF alive THEN [failStreak EXCEPT ![r] = 0] ELSE failStreak
    /\ UNCHANGED <<rotationVars, healthyCache, stats, mu, callbackVars, hcPc>>

\* Mutant of HCFinish: the write lock is not given back.
HCFinishKeepsLock ==
    /\ hcPc = "receive"
    /\ hcLeft = 0
    /\ healthyCache' = RebuildHealthyCache(resolvers, healthy)
    /\ hcPc' = "sleep"
    /\ UNCHANGED <<rotationVars, healthy, stats, failStreak, mu, callbackVars,
                   hcProbes, hcLeft>>

HCFinish ==
    /\ hcPc = "receive"
    /\ hcLeft = 0
    /\ healthyCache' = RebuildHealthyCache(resolvers, healthy)
    /\ mu' = Free
    /\ hcPc' = "sleep"
    /\ UNCHANGED <<rotationVars, healthy, stats, failStreak, callbackVars,
                   hcProbes, hcLeft>>

HealthCheck ==
    \/ HCBegin
    \/ HCLaunch
    \/ HCLock
    \/ \E r \in Resolver, alive \in BOOLEAN : HCReceive(r, alive)
    \/ HCFinish

-----------------------------------------------------------------------------
(* UpdateResolvers, called by the reloader and by the auto-scanner with a  *)
(* list they have checked not to be empty.  It ends by calling             *)
(* ExportVerified, which asks for p.mu.RLock: the same goroutine is the    *)
(* writer, a Go RWMutex is not reentrant, and the request is never         *)
(* granted.  The step therefore ends with u holding the lock, and there is *)
(* no step that gives it back.                                             *)

\* Mutant of UpdateResolvers: ExportVerified runs without the lock, so that
\* UpdateResolvers returns and releases mu.
UpdateResolversReturns(u, ordered) ==
    LET new == ordered \ tracked
    IN  /\ mu = Free
        /\ resolvers' = ordered
        /\ tracked' = tracked \cup ordered
        /\ healthy' = [r \in Resolver |-> healthy[r] \/ r \in new]
        /\ failStreak' = [r \in Resolver |-> IF r \in new THEN 0 ELSE failStreak[r]]
        /\ healthyCache' = RebuildHealthyCache(ordered, healthy')
        /\ UNCHANGED <<stats, mu, callbackVars, hcVars>>

\* Mutant of UpdateResolvers: the entries of resolvers that left the list are
\* deleted.
UpdateResolversForgets(u, ordered) ==
    /\ mu = Free
    /\ mu' = u
    /\ resolvers' = ordered
    /\ tracked' = ordered
    /\ healthy' = [r \in Resolver |-> r \in ordered /\ (healthy[r] \/ r \notin tracked)]
    /\ failStreak' = [r \in Resolver |-> IF r \in tracked THEN failStreak[r] ELSE 0]
    /\ healthyCache' = RebuildHealthyCache(ordered, healthy')
    /\ UNCHANGED <<stats, callbackVars, hcVars>>

UpdateResolvers(u, ordered) ==
    LET new == ordered \ tracked
    IN  /\ mu = Free
        /\ mu' = u
        /\ resolvers' = ordered
        /\ tracked' = tracked \cup ordered
        /\ healthy' = [r \in Resolver |-> healthy[r] \/ r \in new]
        /\ failStreak' = [r \in Resolver |-> IF r \in new THEN 0 ELSE failStreak[r]]
        /\ healthyCache' = RebuildHealthyCache(ordered, healthy')
        /\ UNCHANGED <<stats, callbackVars, hcVars>>

-----------------------------------------------------------------------------
(* The most general client.                                                *)

Init == \E rs \in (SUBSET Resolver) \ {{}} : NewResolverPool(rs)

PoolStep ==
    \/ \E r \in tracked : MarkSent(r)
    \/ \E r \in tracked : MarkSuccessWithLatency(r)
    \/ \E r \in tracked : MarkFailure(r)
    \/ SetOnResolverDown
    \/ RunCallback
    \/ HealthCheck
    \/ \E u \in Updater, ordered \in (SUBSET Resolver) \ {{}} :
          UpdateResolvers(u, ordered)

\* Bound: the counters of a resolver add up to at most MaxCalls.
WithinBounds(s) ==
    \A r \in Resolver : s[r].sent + s[r].ok + s[r].fail <= MaxCalls

Next == PoolStep /\ WithinBounds(stats')

Spec == Init /\ [][Next]_poolVars

\* The pool with nothing bounded: what the modules that use it rely on.
PoolSpec == Init /\ [][PoolStep]_poolVars

-----------------------------------------------------------------------------
(* Properties.                                                             *)

\* Every variable has its type.  The list GetNext draws from is never empty,
\* so its unlocked fallback over p.resolvers (pool.go:96) is never taken.
TypeOK ==
    /\ tracked \in SUBSET Resolver
    /\ resolvers \in (SUBSET tracked) \ {{}}
    /\ healthy \in [Resolver -> BOOLEAN]
    /\ healthyCache \in (SUBSET tracked) \ {{}}
    /\ stats \in [Resolver -> [sent : Nat, ok : Nat, fail : Nat]]
    /\ failStreak \in [Resolver -> Nat]
    /\ mu \in {Free, HC} \cup Updater
    /\ onResolverDown \in BOOLEAN
    /\ callbacks \in Nat
    /\ hcPc \in {"sleep", "launch", "lock", "receive"}
    /\ hcProbes \in SUBSET tracked
    /\ hcLeft \in Nat

\* Whoever takes the lock finds a cache that agrees with the health map and the
\* rotation: p.healthyCache is never stale outside a critical section, in spite
\* of the operations that change p.healthy without always rebuilding it.
CacheCoherent ==
    mu # HC => healthyCache = RebuildHealthyCache(resolvers, healthy)

\* A resolver that has failed FailLimit times in a row is out of rotation: no
\* other path (health check, late success, update) puts it back with its streak.
StreakMeansDown ==
    \A r \in Resolver : failStreak[r] >= FailLimit => ~healthy[r]

\* HealthCheck, which holds the write lock while it receives, never waits for
\* a result that no probe will send, although it counts the results to wait for
\* from a second, later read of p.resolvers.
ProbesCoverReceives ==
    hcPc = "receive" => hcLeft <= Cardinality(hcProbes)

\* The inductive strengthening of ProbesCoverReceives: HealthCheck is receiving
\* exactly while it is the writer, the probes in flight when it asks for the lock
\* are those of the current list unless an updater got there first, and from then
\* on every receive is matched by a probe.
ProbeInv ==
    /\ hcPc = "receive" <=> mu = HC
    /\ hcPc = "lock" /\ mu \notin Updater => hcProbes = resolvers
    /\ hcPc = "receive" => hcLeft = Cardinality(hcProbes)

\* The inductive invariant of the pool.
PoolInv == TypeOK /\ CacheCoherent /\ StreakMeansDown /\ ProbeInv

\* pool.go:217 says of SetOnResolverDown that its callback is "invoked (in a
\* new goroutine) whenever a resolver is marked unhealthy".
DownIsAnnounced ==
    [][\A r \in Resolver :
          onResolverDown /\ healthy[r] /\ ~healthy'[r] => callbacks' > callbacks]_poolVars
=============================================================================
