------------------------- MODULE ResolverPoolProofs -------------------------
(***************************************************************************)
(* The invariants of the resolver pool, proved for every set of resolvers, *)
(* every set of updaters and every failure limit.  PoolInv is inductive    *)
(* under PoolStep, the steps of the most general client, so a module that  *)
(* drives the pool with the same actions inherits it.                      *)
(***************************************************************************)
EXTENDS ResolverPool, FiniteSetTheorems, TLAPS

\* What rebuildHealthyCache returns: a non-empty part of the rotation, and only
\* healthy resolvers as soon as the rotation has one.
LEMMA RebuildProperties ==
    ASSUME NEW active, active # {}, NEW up
    PROVE  /\ RebuildHealthyCache(active, up) # {}
           /\ RebuildHealthyCache(active, up) \subseteq active
           /\ (\E r \in active : up[r]) =>
                 \A r \in RebuildHealthyCache(active, up) : up[r]
BY DEF RebuildHealthyCache

\* A new pool satisfies the invariant (NewResolverPool, pool.go:50).
LEMMA InitPoolInv ==
    ASSUME NEW rs \in (SUBSET Resolver) \ {{}}, NewResolverPool(rs)
    PROVE  PoolInv
<1> USE PoolAssumption DEF NewResolverPool
<1>1. TypeOK
  <2>1. healthy \in [Resolver -> BOOLEAN]
    OBVIOUS
  <2>2. onResolverDown \in BOOLEAN
    OBVIOUS
  <2>3. stats \in [Resolver -> [sent : Nat, ok : Nat, fail : Nat]]
    OBVIOUS
  <2> QED
    BY <2>1, <2>2, <2>3 DEF TypeOK
<1>2. CacheCoherent
  BY DEF CacheCoherent, RebuildHealthyCache
<1>3. StreakMeansDown
  BY DEF StreakMeansDown
<1>4. ProbeInv
  BY DEF ProbeInv
<1> QED
  BY <1>1, <1>2, <1>3, <1>4 DEF PoolInv

\* Counting a query sent leaves the invariant alone (MarkSent, pool.go:186).
LEMMA MarkSentInv ==
    ASSUME PoolInv, NEW r \in tracked, MarkSent(r)
    PROVE  PoolInv'
<1> USE PoolAssumption DEF MarkSent, PoolInv, rotationVars, callbackVars, hcVars
<1>1. TypeOK'
  BY DEF TypeOK
<1>2. CacheCoherent'
  BY DEF CacheCoherent, RebuildHealthyCache
<1>3. StreakMeansDown'
  BY DEF StreakMeansDown
<1>4. ProbeInv'
  BY DEF ProbeInv
<1> QED
  BY <1>1, <1>2, <1>3, <1>4 DEF PoolInv

\* A success resets the streak and rebuilds the cache when the resolver comes
\* back (MarkSuccessWithLatency, pool.go:152).
LEMMA MarkSuccessInv ==
    ASSUME PoolInv, NEW r \in tracked, MarkSuccessWithLatency(r)
    PROVE  PoolInv'
<1> USE PoolAssumption DEF MarkSuccessWithLatency, PoolInv, rotationVars,
                           callbackVars, hcVars
<1>1. TypeOK'
  BY RebuildProperties DEF TypeOK
<1>2. CacheCoherent'
  <2>1. CASE healthy[r]
    <3>1. healthy' = healthy
      BY <2>1 DEF TypeOK
    <3> QED
      BY <2>1, <3>1 DEF CacheCoherent
  <2>2. CASE ~healthy[r]
    BY <2>2 DEF CacheCoherent
  <2> QED
    BY <2>1, <2>2
<1>3. StreakMeansDown'
  BY DEF StreakMeansDown, TypeOK
<1>4. ProbeInv'
  BY DEF ProbeInv
<1> QED
  BY <1>1, <1>2, <1>3, <1>4 DEF PoolInv

\* A failure that reaches the limit takes the resolver down in the same critical
\* section (MarkFailure, pool.go:197).
LEMMA MarkFailureInv ==
    ASSUME PoolInv, NEW r \in tracked, MarkFailure(r)
    PROVE  PoolInv'
<1> USE PoolAssumption DEF MarkFailure, PoolInv, rotationVars, hcVars
<1>1. TypeOK'
  <2>1. healthy' \in [Resolver -> BOOLEAN]
    BY DEF TypeOK
  <2>2. onResolverDown' \in BOOLEAN /\ callbacks' \in Nat
    BY DEF TypeOK
  <2>3. healthyCache' \in (SUBSET tracked) \ {{}}
    BY RebuildProperties DEF TypeOK
  <2>4. /\ stats' \in [Resolver -> [sent : Nat, ok : Nat, fail : Nat]]
        /\ failStreak' \in [Resolver -> Nat]
    BY DEF TypeOK
  <2> QED
    BY <2>1, <2>2, <2>3, <2>4 DEF TypeOK
<1>2. CacheCoherent'
  <2> DEFINE down == failStreak[r] + 1 >= FailLimit /\ healthy[r]
  <2>1. CASE ~down
    <3>1. healthy' = healthy
      BY <2>1 DEF TypeOK
    <3> QED
      BY <2>1, <3>1 DEF CacheCoherent
  <2>2. CASE down
    BY <2>2 DEF CacheCoherent
  <2> QED
    BY <2>1, <2>2
<1>3. StreakMeansDown'
  BY DEF StreakMeansDown, TypeOK
<1>4. ProbeInv'
  BY DEF ProbeInv
<1> QED
  BY <1>1, <1>2, <1>3, <1>4 DEF PoolInv

\* Registering and running the callback do not touch the pool (pool.go:212,219).
LEMMA CallbackInv ==
    ASSUME PoolInv, SetOnResolverDown \/ RunCallback
    PROVE  PoolInv'
<1> USE PoolAssumption DEF SetOnResolverDown, RunCallback, PoolInv,
                           rotationVars, hcVars
<1>1. TypeOK'
  <2>1. onResolverDown' \in BOOLEAN
    BY DEF TypeOK
  <2>2. callbacks' \in Nat
    BY DEF TypeOK
  <2> QED
    BY <2>1, <2>2 DEF TypeOK
<1>2. CacheCoherent'
  BY DEF CacheCoherent, RebuildHealthyCache
<1>3. StreakMeansDown'
  BY DEF StreakMeansDown
<1>4. ProbeInv'
  BY DEF ProbeInv
<1> QED
  BY <1>1, <1>2, <1>3, <1>4 DEF PoolInv

\* A health check round preserves the invariant step by step (HealthCheck,
\* pool.go:225): the cache may lag only while HC is the writer.
LEMMA HealthCheckInv ==
    ASSUME PoolInv, HealthCheck
    PROVE  PoolInv'
<1> USE PoolAssumption DEF PoolInv, rotationVars, callbackVars
<1>1. CASE HCBegin
  BY <1>1 DEF HCBegin, TypeOK, CacheCoherent, StreakMeansDown, ProbeInv
<1>2. CASE HCLaunch
  BY <1>2 DEF HCLaunch, TypeOK, CacheCoherent, StreakMeansDown, ProbeInv
<1>3. CASE HCLock
  <2> USE <1>3 DEF HCLock
  <2>1. IsFiniteSet(resolvers)
    BY FS_Subset DEF TypeOK
  <2>2. Cardinality(resolvers) \in Nat
    BY <2>1, FS_CardinalityType
  <2>3. TypeOK'
    BY <2>2 DEF TypeOK
  <2>4. ProbeInv'
    BY DEF ProbeInv
  <2> QED
    BY <2>3, <2>4 DEF CacheCoherent, StreakMeansDown
<1>4. ASSUME NEW r \in Resolver, NEW alive \in BOOLEAN, HCReceive(r, alive)
      PROVE  PoolInv'
  <2> USE <1>4 DEF HCReceive
  <2>1. TypeOK'
    BY DEF TypeOK
  <2>2. CacheCoherent'
    BY DEF CacheCoherent, ProbeInv
  <2>3. StreakMeansDown'
    BY DEF StreakMeansDown, TypeOK
  <2>4. IsFiniteSet(hcProbes)
    BY FS_Subset DEF TypeOK
  <2>5. Cardinality(hcProbes \ {r}) = Cardinality(hcProbes) - 1
    BY <2>4, FS_RemoveElement
  <2>6. ProbeInv'
    BY <2>5 DEF ProbeInv
  <2> QED
    BY <2>1, <2>2, <2>3, <2>6
<1>5. CASE HCFinish
  <2> USE <1>5 DEF HCFinish
  <2>1. TypeOK'
    BY RebuildProperties DEF TypeOK
  <2>2. CacheCoherent'
    BY DEF CacheCoherent, RebuildHealthyCache
  <2>3. StreakMeansDown'
    BY DEF StreakMeansDown
  <2>4. ProbeInv'
    BY DEF ProbeInv
  <2> QED
    BY <2>1, <2>2, <2>3, <2>4
<1> QED
  BY <1>1, <1>2, <1>3, <1>4, <1>5 DEF HealthCheck

\* Replacing the rotation keeps what is known of old resolvers and starts the
\* new ones healthy with an empty streak (UpdateResolvers, pool.go:342).
LEMMA UpdateResolversInv ==
    ASSUME PoolInv, NEW u \in Updater, NEW ordered \in (SUBSET Resolver) \ {{}},
           UpdateResolvers(u, ordered)
    PROVE  PoolInv'
<1> USE PoolAssumption DEF UpdateResolvers, PoolInv, callbackVars, hcVars
<1>1. TypeOK'
  BY RebuildProperties DEF TypeOK
<1>2. CacheCoherent'
  BY DEF CacheCoherent
<1>3. StreakMeansDown'
  BY DEF StreakMeansDown, TypeOK
<1>4. ProbeInv'
  BY DEF ProbeInv
<1> QED
  BY <1>1, <1>2, <1>3, <1>4 DEF PoolInv

\* The pool invariant survives every step of every client.
THEOREM PoolStepInv == PoolInv /\ [PoolStep]_poolVars => PoolInv'
<1> SUFFICES ASSUME PoolInv, [PoolStep]_poolVars
             PROVE  PoolInv'
  OBVIOUS
<1>1. CASE UNCHANGED poolVars
  BY <1>1 DEF PoolInv, poolVars, TypeOK, CacheCoherent, StreakMeansDown, ProbeInv
<1>2. CASE PoolStep
  BY <1>2, MarkSentInv, MarkSuccessInv, MarkFailureInv, CallbackInv,
     HealthCheckInv, UpdateResolversInv DEF PoolStep
<1> QED
  BY <1>1, <1>2

\* The bounded specification that TLC explores is one way to use the pool.
THEOREM BoundedPool == Spec => PoolSpec
<1>1. [Next]_poolVars => [PoolStep]_poolVars
  BY DEF Next
<1> QED
  BY <1>1, PTL DEF Spec, PoolSpec

\* Every reachable state of the pool satisfies the inductive invariant.
THEOREM PoolInvariant == PoolSpec => []PoolInv
<1>1. Init => PoolInv
  BY InitPoolInv DEF Init
<1> QED
  BY <1>1, PoolStepInv, PTL DEF PoolSpec

\* Type correctness of the pool, with a list for GetNext that is never empty
\* (pool.go:84 and 96).
THEOREM TypeCorrect == PoolSpec => []TypeOK
BY PoolInvariant, PTL DEF PoolInv

\* The list GetNext draws from agrees with the health map whenever the lock is
\* not held by a health check (pool.go:77).
THEOREM CacheIsCoherent == PoolSpec => []CacheCoherent
BY PoolInvariant, PTL DEF PoolInv

\* A resolver that reached the failure limit stays out of rotation until a
\* success or a live probe resets its streak (pool.go:205).
THEOREM StreakKeepsResolverDown == PoolSpec => []StreakMeansDown
BY PoolInvariant, PTL DEF PoolInv

\* HealthCheck never waits, under the write lock, for a result that will not
\* come (pool.go:253).
THEOREM HealthCheckIsNotStarved == PoolSpec => []ProbesCoverReceives
<1>1. PoolInv => ProbesCoverReceives
  <2> SUFFICES ASSUME PoolInv, hcPc = "receive"
               PROVE  hcLeft <= Cardinality(hcProbes)
    BY DEF ProbesCoverReceives
  <2>1. hcLeft \in Nat /\ hcLeft = Cardinality(hcProbes)
    BY DEF PoolInv, TypeOK, ProbeInv
  <2> QED
    BY <2>1
<1> QED
  BY <1>1, PoolInvariant, PTL
=============================================================================
