--------------------------- MODULE DNSProxyProofs ---------------------------
(***************************************************************************)
(* The forwarding path, proved for every number of handlers, resolvers and *)
(* updaters and for every failure limit: it uses the pool as PoolSpec      *)
(* allows, never dereferences a missing entry of p.stats, and accounts for *)
(* every query it sends.                                                   *)
(***************************************************************************)
EXTENDS DNSProxy, ResolverPoolProofs

\* The service starts in the invariant.
LEMMA InitProxyInv == ProxyInit => ProxyInv
<1> SUFFICES ASSUME ProxyInit PROVE ProxyInv
  OBVIOUS
<1> USE ProxyAssumption DEF ProxyInit
<1>1. PoolInv
  BY InitPoolInv DEF Init
<1>2. ProxyTypeOK
  BY DEF ProxyTypeOK, Labels, Unseen
<1>3. NoNilStats
  BY DEF NoNilStats
<1>4. Conservation
  <2>1. \A r \in Resolver : InFlight(r) = {}
    BY DEF InFlight
  <2>2. \A r \in Resolver : stats[r].sent = 0 /\ stats[r].ok = 0 /\ stats[r].fail = 0
    BY DEF Init, NewResolverPool
  <2>3. \A r \in Resolver : Cardinality(InFlight(r)) = 0
    BY <2>1, FS_EmptySet, Zenon
  <2>4. \A r \in Resolver :
          stats[r].sent = stats[r].ok + stats[r].fail + Cardinality(InFlight(r))
    BY <2>2, <2>3
  <2> QED
    BY <2>4 DEF Conservation
<1>5. LoadInv /\ RateAtMostOne
  BY DEF LoadInv, RateAtMostOne
<1> QED
  BY <1>1, <1>2, <1>3, <1>4, <1>5 DEF ProxyInv

\* Every step of the service is a step of the pool's most general client: a
\* handler marks only resolvers that the pool tracks.
LEMMA StepUsesPool == ProxyInv /\ [ProxyNext]_vars => [PoolStep]_poolVars
<1> SUFFICES ASSUME ProxyInv, [ProxyNext]_vars PROVE [PoolStep]_poolVars
  OBVIOUS
<1>1. CASE UNCHANGED vars
  BY <1>1 DEF vars
<1>2. ASSUME NEW h \in Handler, Accept(h) \/ HandlerStep(h)
      PROVE  [PoolStep]_poolVars
  <2>1. CASE Send(h)
    <3>1. cur[h] \in tracked
      BY <2>1 DEF Send, ProxyInv, NoNilStats
    <3> QED
      BY <2>1, <3>1 DEF Send, PoolStep
  <2>2. CASE Succeed(h)
    <3>1. cur[h] \in tracked
      BY <2>2 DEF Succeed, ProxyInv, NoNilStats
    <3> QED
      BY <2>2, <3>1 DEF Succeed, PoolStep
  <2>3. CASE Fail(h)
    <3>1. cur[h] \in tracked
      BY <2>3 DEF Fail, ProxyInv, NoNilStats
    <3> QED
      BY <2>3, <3>1 DEF Fail, PoolStep
  <2>4. CASE \/ Accept(h) \/ ReadRequest(h) \/ CacheGet(h) \/ TakeSnapshot(h)
             \/ (\E r \in Resolver : Draw(h, r))
             \/ LoadSecond(h) \/ GiveUp(h) \/ Outcome(h) \/ Reply(h)
    BY <2>4 DEF Accept, AcceptDatagram, AcceptConnection, ReadRequest,
                CacheGet, TakeSnapshot, Draw, LoadSecond, GiveUp, Outcome, Reply
  <2> QED
    BY <1>2, <2>1, <2>2, <2>3, <2>4 DEF HandlerStep
<1>3. CASE CheckHealth
  BY <1>3 DEF CheckHealth, PoolStep
<1>4. ASSUME NEW u \in Updater, NEW ordered \in (SUBSET Resolver) \ {{}},
             Update(u, ordered)
      PROVE  [PoolStep]_poolVars
  BY <1>4 DEF Update, PoolStep
<1> QED
  BY <1>1, <1>2, <1>3, <1>4 DEF ProxyNext

\* The rotation may shrink, but no resolver is ever forgotten (pool.go:348).
LEMMA TrackedGrows ==
    ASSUME [PoolStep]_poolVars
    PROVE  tracked \subseteq tracked'
BY DEF PoolStep, poolVars, rotationVars, MarkSent, MarkSuccessWithLatency,
       MarkFailure, SetOnResolverDown, RunCallback, HealthCheck, HCBegin,
       HCLaunch, HCLock, HCReceive, HCFinish, UpdateResolvers

\* Only the three operations called by a handler touch the statistics.
LEMMA StatsUntouched ==
    ASSUME HealthCheck \/ \E u \in Updater, ordered \in (SUBSET Resolver) \ {{}} :
                             UpdateResolvers(u, ordered)
    PROVE  stats' = stats
BY DEF HealthCheck, HCBegin, HCLaunch, HCLock, HCReceive, HCFinish, UpdateResolvers

\* No resolver has more answers than queries.
LEMMA OkAtMostSent ==
    ASSUME ProxyInv, NEW r \in Resolver
    PROVE  stats[r].ok <= stats[r].sent
<1>1. Cardinality(InFlight(r)) \in Nat
  <2>1. IsFiniteSet(InFlight(r))
    BY ProxyAssumption, FS_Subset DEF InFlight
  <2> QED
    BY <2>1, FS_CardinalityType
<1>2. stats[r].ok \in Nat /\ stats[r].fail \in Nat /\ stats[r].sent \in Nat
  BY DEF ProxyInv, PoolInv, TypeOK
<1>3. stats[r].sent = stats[r].ok + stats[r].fail + Cardinality(InFlight(r))
  BY DEF ProxyInv, Conservation
<1> QED
  BY <1>1, <1>2, <1>3

\* The steps that neither count anything nor move a query out of flight keep the
\* handlers' invariants.
LEMMA QuietStepInv ==
    ASSUME ProxyInv, NEW h \in Handler,
           \/ Accept(h) \/ ReadRequest(h) \/ CacheGet(h) \/ GiveUp(h)
           \/ Outcome(h) \/ Reply(h)
    PROVE  /\ ProxyTypeOK' /\ NoNilStats' /\ LoadInv' /\ RateAtMostOne'
           /\ \A r \in Resolver : InFlight(r)' = InFlight(r)
<1> USE ProxyAssumption DEF ProxyInv, Accept, AcceptDatagram, AcceptConnection,
        ReadRequest, CacheGet, GiveUp, Outcome, Reply, Goto, Release, poolVars
<1>1. ProxyTypeOK'
  <2>1. pc' \in [Handler -> Labels]
    BY DEF ProxyTypeOK, Labels
  <2>2. seen' \in [Handler -> [sent : Nat, ok : Nat]]
    BY DEF ProxyTypeOK, Unseen
  <2>3. /\ snap' \in [Handler -> SUBSET Resolver]
        /\ cur' \in [Handler -> Resolver \cup {NoResolver}]
        /\ failed' \in [Handler -> Resolver \cup {NoResolver}]
    BY DEF ProxyTypeOK
  <2>4. accepted' \in Nat
    BY DEF ProxyTypeOK
  <2>5. \A k \in Handler : pc'[k] = "draw" => snap'[k] # {}
    BY DEF ProxyTypeOK
  <2> QED
    BY <2>1, <2>2, <2>3, <2>4, <2>5 DEF ProxyTypeOK
<1>2. NoNilStats'
  BY DEF ProxyTypeOK, NoNilStats
<1>3. LoadInv' /\ RateAtMostOne'
  BY DEF ProxyTypeOK, LoadInv, RateAtMostOne
<1>4. \A r \in Resolver : InFlight(r)' = InFlight(r)
  BY DEF ProxyTypeOK, InFlight
<1> QED
  BY <1>1, <1>2, <1>3, <1>4

\* GetNext keeps them (pool.go:91): the list it copies is a non-empty part of what
\* the pool tracks, and ok is loaded before sent.
LEMMA GetNextInv ==
    ASSUME ProxyInv, NEW h \in Handler,
           TakeSnapshot(h) \/ (\E r \in Resolver : Draw(h, r)) \/ LoadSecond(h)
    PROVE  /\ ProxyTypeOK' /\ NoNilStats' /\ LoadInv' /\ RateAtMostOne'
           /\ \A r \in Resolver : InFlight(r)' = InFlight(r)
<1> USE ProxyAssumption DEF ProxyInv, poolVars
<1>1. CASE TakeSnapshot(h)
  <2> USE <1>1 DEF TakeSnapshot
  <2>1. healthyCache \in (SUBSET tracked) \ {{}} /\ tracked \subseteq Resolver
    BY DEF PoolInv, TypeOK
  <2>2. ProxyTypeOK'
    BY <2>1 DEF ProxyTypeOK, Labels
  <2>3. NoNilStats'
    BY <2>1 DEF NoNilStats, ProxyTypeOK
  <2>4. LoadInv' /\ RateAtMostOne'
    BY DEF ProxyTypeOK, LoadInv, RateAtMostOne
  <2>5. \A r \in Resolver : InFlight(r)' = InFlight(r)
    BY DEF ProxyTypeOK, InFlight
  <2> QED
    BY <2>2, <2>3, <2>4, <2>5
<1>2. ASSUME NEW r \in Resolver, Draw(h, r)
      PROVE  /\ ProxyTypeOK' /\ NoNilStats' /\ LoadInv' /\ RateAtMostOne'
             /\ \A q \in Resolver : InFlight(q)' = InFlight(q)
  <2> USE <1>2 DEF Draw
  <2>1. seen' = [seen EXCEPT ![h].ok = stats[r].ok]
    BY DEF LoadOrder
  <2>2. stats[r].ok \in Nat /\ stats[r].sent \in Nat /\ stats[r].ok <= stats[r].sent
    BY OkAtMostSent DEF PoolInv, TypeOK
  <2>3. ProxyTypeOK'
    BY <2>1, <2>2 DEF ProxyTypeOK, Labels
  <2>4. NoNilStats'
    BY DEF ProxyTypeOK, NoNilStats
  <2>5. LoadInv' /\ RateAtMostOne'
    BY <2>1, <2>2 DEF ProxyTypeOK, LoadInv, RateAtMostOne
  <2>6. \A q \in Resolver : InFlight(q)' = InFlight(q)
    BY DEF ProxyTypeOK, InFlight
  <2> QED
    BY <2>3, <2>4, <2>5, <2>6
<1>3. CASE LoadSecond(h)
  <2> USE <1>3 DEF LoadSecond
  <2>1. seen' = [seen EXCEPT ![h].sent = stats[cur[h]].sent]
    BY DEF LoadOrder
  <2>2. stats[cur[h]].sent \in Nat
    BY DEF NoNilStats, PoolInv, TypeOK
  <2>3. ProxyTypeOK'
    BY <2>1, <2>2 DEF ProxyTypeOK, Labels
  <2>4. NoNilStats'
    BY DEF ProxyTypeOK, NoNilStats
  <2>5. LoadInv' /\ RateAtMostOne'
    BY <2>1, <2>2 DEF ProxyTypeOK, LoadInv, RateAtMostOne
  <2>6. \A q \in Resolver : InFlight(q)' = InFlight(q)
    BY DEF ProxyTypeOK, InFlight
  <2> QED
    BY <2>3, <2>4, <2>5, <2>6
<1> QED
  BY <1>1, <1>2, <1>3

\* A query enters flight in the step that counts it (proxy.go:97).
LEMMA SendInv ==
    ASSUME ProxyInv, NEW h \in Handler, Send(h)
    PROVE  ProxyTypeOK' /\ NoNilStats' /\ LoadInv' /\ RateAtMostOne' /\ Conservation'
<1> USE ProxyAssumption DEF ProxyInv, Send, MarkSent, rotationVars
<1> DEFINE r == cur[h]
<1>1. r \in tracked /\ r \in Resolver
  BY DEF NoNilStats, PoolInv, TypeOK
<1>2. /\ stats'[r].sent = stats[r].sent + 1
      /\ stats'[r].ok = stats[r].ok /\ stats'[r].fail = stats[r].fail
      /\ \A q \in Resolver : q # r => stats'[q] = stats[q]
      /\ \A q \in Resolver : /\ stats[q].sent \in Nat
                             /\ stats[q].ok \in Nat
                             /\ stats[q].fail \in Nat
  BY <1>1 DEF PoolInv, TypeOK
<1>3. ProxyTypeOK'
  BY DEF ProxyTypeOK, Labels, Unseen
<1>4. NoNilStats'
  BY DEF ProxyTypeOK, NoNilStats
<1>5. LoadInv' /\ RateAtMostOne'
  BY <1>2 DEF ProxyTypeOK, LoadInv, RateAtMostOne, NoNilStats, PoolInv, TypeOK
<1>6. /\ h \notin InFlight(r)
      /\ InFlight(r)' = InFlight(r) \cup {h}
      /\ \A q \in Resolver : q # r => InFlight(q)' = InFlight(q)
  BY DEF ProxyTypeOK, InFlight
<1>7. IsFiniteSet(InFlight(r))
  BY FS_Subset DEF InFlight
<1>8. Cardinality(InFlight(r)') = Cardinality(InFlight(r)) + 1
  BY <1>6, <1>7, FS_AddElement
<1>9. Conservation'
  <2>1. Cardinality(InFlight(r)) \in Nat
    BY <1>7, FS_CardinalityType
  <2>2. stats'[r].sent = stats'[r].ok + stats'[r].fail + Cardinality(InFlight(r)')
    BY <1>1, <1>2, <1>8, <2>1 DEF Conservation
  <2>3. \A q \in Resolver : q # r =>
          stats'[q].sent = stats'[q].ok + stats'[q].fail + Cardinality(InFlight(q)')
    BY <1>2, <1>6 DEF Conservation
  <2> QED
    BY <2>2, <2>3 DEF Conservation
<1> QED
  BY <1>3, <1>4, <1>5, <1>9

\* A query leaves flight in the step that counts its outcome (proxy.go:102,115,121).
LEMMA OutcomeCountedInv ==
    ASSUME ProxyInv, NEW h \in Handler, Succeed(h) \/ Fail(h)
    PROVE  ProxyTypeOK' /\ NoNilStats' /\ LoadInv' /\ RateAtMostOne' /\ Conservation'
<1> USE ProxyAssumption DEF ProxyInv
<1>1. PICK r \in Resolver : r = cur[h] /\ r \in tracked
  BY DEF Succeed, Fail, NoNilStats, PoolInv, TypeOK
<1>2. /\ stats'[r].sent = stats[r].sent
      /\ stats'[r].ok + stats'[r].fail = stats[r].ok + stats[r].fail + 1
      /\ \A q \in Resolver : q # r => stats'[q] = stats[q]
      /\ stats'[r].ok \in Nat /\ stats'[r].fail \in Nat
      /\ \A q \in Resolver : /\ stats[q].sent \in Nat
                             /\ stats[q].ok \in Nat
                             /\ stats[q].fail \in Nat
  <2>1. CASE Succeed(h)
    BY <1>1, <2>1 DEF Succeed, MarkSuccessWithLatency, PoolInv, TypeOK
  <2>2. CASE Fail(h)
    BY <1>1, <2>2 DEF Fail, MarkFailure, PoolInv, TypeOK
  <2> QED
    BY <2>1, <2>2
<1>3. tracked' = tracked
  BY DEF Succeed, Fail, MarkSuccessWithLatency, MarkFailure, rotationVars
<1> HIDE DEF ProxyInv
<1>4. ProxyTypeOK'
  <2>1. CASE Succeed(h)
    BY <2>1 DEF ProxyInv, ProxyTypeOK, Labels, Succeed, Goto
  <2>2. CASE Fail(h) /\ failed[h] = NoResolver
    BY <2>2 DEF ProxyInv, ProxyTypeOK, Labels, Fail
  <2>3. CASE Fail(h) /\ failed[h] # NoResolver
    <3>1. Release(h)
      BY <2>3 DEF Fail
    <3>2. ProxyTypeOK
      BY DEF ProxyInv
    <3>3. pc' \in [Handler -> Labels] /\ snap' \in [Handler -> SUBSET Resolver]
      BY <3>1, <3>2 DEF ProxyTypeOK, Release, Labels
    <3>4. /\ cur' \in [Handler -> Resolver \cup {NoResolver}]
          /\ failed' \in [Handler -> Resolver \cup {NoResolver}]
      BY <3>1, <3>2 DEF ProxyTypeOK, Release
    <3>5. seen' \in [Handler -> [sent : Nat, ok : Nat]] /\ accepted' \in Nat
      BY <3>1, <3>2 DEF ProxyTypeOK, Release, Unseen
    <3>6. \A k \in Handler : pc'[k] = "draw" => snap'[k] # {}
      BY <3>1, <3>2 DEF ProxyTypeOK, Release
    <3> QED
      BY <3>3, <3>4, <3>5, <3>6 DEF ProxyTypeOK
  <2> QED
    BY <2>1, <2>2, <2>3
<1>5. NoNilStats'
  <2>1. CASE Succeed(h)
    BY <1>3, <2>1 DEF ProxyInv, ProxyTypeOK, NoNilStats, Succeed, Goto
  <2>2. CASE Fail(h) /\ failed[h] = NoResolver
    BY <1>3, <2>2 DEF ProxyInv, ProxyTypeOK, NoNilStats, Fail
  <2>3. CASE Fail(h) /\ failed[h] # NoResolver
    BY <1>3, <2>3 DEF ProxyInv, ProxyTypeOK, NoNilStats, Fail, Release
  <2> QED
    BY <2>1, <2>2, <2>3
<1>6. LoadInv' /\ RateAtMostOne'
  <2>1. \A q \in Resolver : stats'[q].sent = stats[q].sent
    BY <1>2
  <2>2. \A k \in Handler : pc'[k] \in {"load", "scored"} =>
          pc'[k] = pc[k] /\ cur'[k] = cur[k] /\ seen'[k] = seen[k]
    BY DEF ProxyInv, ProxyTypeOK, Succeed, Fail, Goto, Release
  <2>3. \A k \in Handler : pc[k] = "load" => cur[k] \in Resolver
    BY DEF ProxyInv, NoNilStats, PoolInv, TypeOK
  <2> QED
    BY <2>1, <2>2, <2>3 DEF ProxyInv, LoadInv, RateAtMostOne
<1>7. /\ h \in InFlight(r)
      /\ InFlight(r)' = InFlight(r) \ {h}
      /\ \A q \in Resolver : q # r => InFlight(q)' = InFlight(q)
  BY <1>1 DEF ProxyInv, ProxyTypeOK, InFlight, Succeed, Fail, Goto, Release
<1>8. IsFiniteSet(InFlight(r))
  BY FS_Subset DEF InFlight
<1>9. Cardinality(InFlight(r)') = Cardinality(InFlight(r)) - 1
  BY <1>7, <1>8, FS_RemoveElement
<1>10. Conservation'
  <2>1. Cardinality(InFlight(r)) \in Nat
    BY <1>8, FS_CardinalityType
  <2>2. stats'[r].sent = stats'[r].ok + stats'[r].fail + Cardinality(InFlight(r)')
    BY <1>1, <1>2, <1>9, <2>1 DEF ProxyInv, Conservation
  <2>3. \A q \in Resolver : q # r =>
          stats'[q].sent = stats'[q].ok + stats'[q].fail + Cardinality(InFlight(q)')
    BY <1>2, <1>7 DEF ProxyInv, Conservation
  <2> QED
    BY <2>2, <2>3 DEF Conservation
<1> QED
  BY <1>4, <1>5, <1>6, <1>10

\* The invariant of the handlers survives every step of the service.
THEOREM ProxyStepInv == ProxyInv /\ [ProxyNext]_vars => ProxyInv'
<1> SUFFICES ASSUME ProxyInv, [ProxyNext]_vars PROVE ProxyInv'
  OBVIOUS
<1>1. PoolInv'
  BY StepUsesPool, PoolStepInv DEF ProxyInv
<1>2. tracked \subseteq tracked'
  BY StepUsesPool, TrackedGrows
<1>3. CASE proxyVars' = proxyVars /\ stats' = stats
  <2> USE <1>3 DEF ProxyInv, proxyVars
  <2>1. ProxyTypeOK'
    BY DEF ProxyTypeOK
  <2>2. NoNilStats'
    BY <1>2 DEF NoNilStats
  <2>3. LoadInv' /\ RateAtMostOne'
    BY DEF LoadInv, RateAtMostOne
  <2>4. Conservation'
    BY DEF Conservation, InFlight
  <2> QED
    BY <1>1, <2>1, <2>2, <2>3, <2>4
<1>4. ASSUME NEW h \in Handler, Accept(h) \/ HandlerStep(h)
      PROVE  ProxyInv'
  <2>1. CASE Send(h)
    BY <1>1, <2>1, SendInv DEF ProxyInv
  <2>2. CASE Succeed(h) \/ Fail(h)
    BY <1>1, <2>2, OutcomeCountedInv DEF ProxyInv
  <2>3. CASE \/ Accept(h) \/ ReadRequest(h) \/ CacheGet(h) \/ GiveUp(h)
             \/ Outcome(h) \/ Reply(h) \/ TakeSnapshot(h)
             \/ (\E r \in Resolver : Draw(h, r)) \/ LoadSecond(h)
    <3>1. stats' = stats
      BY <2>3 DEF Accept, AcceptDatagram, AcceptConnection, ReadRequest,
                  CacheGet, GiveUp, Outcome, Reply, TakeSnapshot, Draw,
                  LoadSecond, poolVars
    <3>2. /\ ProxyTypeOK' /\ NoNilStats' /\ LoadInv' /\ RateAtMostOne'
          /\ \A r \in Resolver : InFlight(r)' = InFlight(r)
      BY <2>3, QuietStepInv, GetNextInv
    <3>3. Conservation'
      BY <3>1, <3>2 DEF ProxyInv, Conservation
    <3> QED
      BY <1>1, <3>2, <3>3 DEF ProxyInv
  <2> QED
    BY <1>4, <2>1, <2>2, <2>3 DEF HandlerStep
<1>5. CASE CheckHealth \/ \E u \in Updater, ordered \in (SUBSET Resolver) \ {{}} :
                             Update(u, ordered)
  BY <1>3, <1>5, StatsUntouched DEF CheckHealth, Update
<1>6. CASE UNCHANGED vars
  BY <1>3, <1>6 DEF vars, poolVars
<1> QED
  BY <1>4, <1>5, <1>6 DEF ProxyNext

\* Every reachable state of the service satisfies the inductive invariant.
THEOREM ProxyInvariant == ProxySpec => []ProxyInv
BY InitProxyInv, ProxyStepInv, PTL DEF ProxySpec

\* The forwarding path implements the abstract client of the pool, so the pool's
\* theorems hold of the service.
THEOREM ProxyUsesPool == ProxySpec => PoolSpec
<1>1. ProxyInit => Init
  BY DEF ProxyInit
<1> QED
  BY <1>1, ProxyInvariant, StepUsesPool, PTL DEF ProxySpec, PoolSpec

\* The handlers keep their types, and the list that GetNext draws from is never
\* empty (pool.go:84).
THEOREM ProxyTypeCorrect == ProxySpec => []ProxyTypeOK
BY ProxyInvariant, PTL DEF ProxyInv

\* No handler dereferences a missing entry of p.stats (pool.go:114, 188, 199).
THEOREM StatsNeverNil == ProxySpec => []NoNilStats
BY ProxyInvariant, PTL DEF ProxyInv

\* Every query sent to a resolver is answered, failed or outstanding (proxy.go:96).
THEOREM QueriesConserved == ProxySpec => []Conservation
BY ProxyInvariant, PTL DEF ProxyInv

\* The success rate of GetNext is at most one under any interleaving (pool.go:117).
THEOREM RateIsBounded == ProxySpec => []RateAtMostOne
BY ProxyInvariant, PTL DEF ProxyInv
=============================================================================
