--------------------------- MODULE PoolUsersProofs --------------------------
(***************************************************************************)
(* Proofs about the two goroutines that replace the list of the pool.  The *)
(* hot reload keeps its types, and its watcher never takes an edit for     *)
(* read that nobody has read.  The auto-scanner runs its loop only after readiness was  *)
(* signalled, and a resolver announced down is not forgotten until another *)
(* scan begins.  Each of them uses the pool as any client may.             *)
(***************************************************************************)
EXTENDS Reloader, AutoScanner, ResolverPoolProofs

-----------------------------------------------------------------------------
(* The hot reload.                                                         *)

\* Neither goroutine runs before Start.
StartedTogether == rPc[Watcher] = "off" <=> rPc[Hup] = "off"

\* Where the three times stand.  Nothing has a time of the future; and except
\* between its stat and its read, the watcher does not remember a time later
\* than that of the content last read, by whichever of the two goroutines.
TimesInv ==
    /\ lastModTime <= modTime
    /\ readTime <= modTime
    /\ rPc[Watcher] # "read" => lastModTime <= readTime

\* Before Start the file is still the one the pool was made of.
UneditedBeforeStart == rPc[Watcher] = "off" => modTime = readTime

\* What holds whether or not the file is edited before Start.
ReloadInv == PoolInv /\ ReloaderTypeOK /\ StartedTogether

-----------------------------------------------------------------------------
\* A step of the reloader is a step of a client of the pool, or none of the
\* pool's business: UpdateResolvers gets a list that is not empty
\* (doReload, reload.go:99).
LEMMA ReloadStepUsesPool ==
    ASSUME ReloadInv, [ReloaderNext]_rVars
    PROVE  [PoolStep]_poolVars
<1> USE DEF ReloadInv, ReloaderTypeOK
<1>1. ASSUME NEW g \in Updater, ReplacePool(g) PROVE PoolStep
  <2>1. parsed[g] \in (SUBSET Resolver) \ {{}}
    BY <1>1 DEF ReplacePool
  <2> QED
    BY <1>1, <2>1 DEF ReplacePool, PoolStep
<1>2. CASE UNCHANGED rVars
  BY <1>2 DEF rVars, poolVars
<1>3. CASE ReloaderNext /\ ~\E g \in Updater : ReplacePool(g)
  BY <1>3 DEF ReloaderNext, Edit, SendSighup, Start, CheckAndReload, Stop,
     ReceiveSighup, Reload, ParseFile, KeepPool
<1> QED
  BY <1>1, <1>2, <1>3

LEMMA InitReloadInv == ReloaderInit => ReloadInv
<1> SUFFICES ASSUME ReloaderInit PROVE ReloadInv
  OBVIOUS
<1> USE ReloaderAssumption
<1>1. PoolInv
  BY InitPoolInv DEF ReloaderInit, Init
<1>2. TypeOK
  BY <1>1 DEF PoolInv
<1>3. ReloaderTypeOK
  BY <1>2 DEF ReloaderInit, ReloaderTypeOK, TypeOK
<1>4. StartedTogether
  BY DEF ReloaderInit, StartedTogether
<1> QED
  BY <1>1, <1>3, <1>4 DEF ReloadInv

LEMMA ReloadStepInv ==
    ASSUME ReloadInv, [ReloaderNext]_rVars
    PROVE  ReloadInv'
<1> USE ReloaderAssumption DEF ReloadInv
<1>1. PoolInv'
  BY ReloadStepUsesPool, PoolStepInv
<1>2. TypeOK'
  BY <1>1 DEF PoolInv
<1>3. (ReloaderTypeOK /\ StartedTogether)'
  <2> USE <1>2 DEF ReloaderTypeOK, StartedTogether
  <2>1. CASE UNCHANGED rVars
    BY <2>1 DEF rVars, reloadVars
  <2>2. ASSUME NEW content \in SUBSET Resolver, Edit(content)
        PROVE  (ReloaderTypeOK /\ StartedTogether)'
    BY <2>2 DEF Edit
  <2>3. CASE SendSighup
    BY <2>3 DEF SendSighup
  <2>4. CASE Start
    BY <2>4 DEF Start
  <2>5. CASE CheckAndReload
    BY <2>5 DEF CheckAndReload
  <2>6. CASE Stop
    BY <2>6 DEF Stop
  <2>7. CASE ReceiveSighup
    BY <2>7 DEF ReceiveSighup
  <2>8. CASE Reload
    BY <2>8 DEF Reload
  <2>9. ASSUME NEW g \in Updater, ParseFile(g) \/ KeepPool(g) \/ ReplacePool(g)
        PROVE  (ReloaderTypeOK /\ StartedTogether)'
    BY <2>9 DEF ParseFile, KeepPool, ReplacePool
  <2> QED
    BY <2>1, <2>2, <2>3, <2>4, <2>5, <2>6, <2>7, <2>8, <2>9 DEF ReloaderNext
<1> QED
  BY <1>1, <1>3

\* Every reachable state of the hot reload satisfies the inductive invariant.
THEOREM ReloadInvariant == ReloaderSpec => []ReloadInv
BY InitReloadInv, ReloadStepInv, PTL DEF ReloaderSpec

\* The hot reload is one way to use the pool: all it does to it is to replace the
\* list, by one that is not empty, at moments the pool's most general client allows
\* for, which runs the queries and the health check as well (reload.go:99).
THEOREM ReloaderUsesPool == ReloaderSpec => PoolSpec
<1>1. ReloaderInit => Init
  BY DEF ReloaderInit
<1> QED
  BY <1>1, ReloadInvariant, ReloadStepUsesPool, PTL DEF ReloaderSpec, PoolSpec

\* The reloader keeps its types; a file that is empty, or caught half written,
\* never leaves the pool without resolvers (doReload, reload.go:94).
THEOREM ReloaderTypeCorrect == ReloaderSpec => []ReloaderTypeOK
BY ReloadInvariant, PTL DEF ReloadInv

-----------------------------------------------------------------------------
\* The times stay in order through every step: lastModTime runs ahead of the
\* content only while the watcher is about to read it (reload.go:88), and a read
\* by either goroutine catches up with both.
LEMMA TimesStepInv ==
    ASSUME ReloadInv, TimesInv, UneditedBeforeStart, ~EarlyEdits,
           [ReloaderNext]_rVars
    PROVE  TimesInv' /\ UneditedBeforeStart'
<1> USE ReloaderAssumption
    DEF ReloadInv, ReloaderTypeOK, StartedTogether, TimesInv, UneditedBeforeStart
<1>1. CASE UNCHANGED rVars
  BY <1>1 DEF rVars, reloadVars
<1>2. ASSUME NEW content \in SUBSET Resolver, Edit(content)
      PROVE  TimesInv' /\ UneditedBeforeStart'
  BY <1>2 DEF Edit
<1>3. CASE SendSighup
  BY <1>3 DEF SendSighup
<1>4. CASE Start
  BY <1>4 DEF Start
<1>5. CASE CheckAndReload
  BY <1>5 DEF CheckAndReload
<1>6. CASE Stop
  BY <1>6 DEF Stop
<1>7. CASE ReceiveSighup
  BY <1>7 DEF ReceiveSighup
<1>8. CASE Reload
  BY <1>8 DEF Reload
<1>9. ASSUME NEW g \in Updater, ParseFile(g)
      PROVE  TimesInv' /\ UneditedBeforeStart'
  BY <1>9 DEF ParseFile
<1>10. ASSUME NEW g \in Updater, KeepPool(g) \/ ReplacePool(g)
       PROVE  TimesInv' /\ UneditedBeforeStart'
  BY <1>10 DEF KeepPool, ReplacePool
<1> QED
  BY <1>1, <1>2, <1>3, <1>4, <1>5, <1>6, <1>7, <1>8, <1>9, <1>10 DEF ReloaderNext

\* No edit made after Start is taken for read without having been read, for any
\* number of edits and any interleaving of the stat, the reads and the signals: the
\* next check finds it, as long as there is one (checkAndReload, reload.go:74).  The
\* hypothesis is needed: an edit between the parse of the list and Start is lost.
THEOREM EditsAreRead == ~EarlyEdits /\ ReloaderSpec => []NoLostEdit
<1>1. ReloaderInit => TimesInv /\ UneditedBeforeStart
  BY DEF ReloaderInit, TimesInv, UneditedBeforeStart
<1>2. ReloadInv /\ TimesInv => NoLostEdit
  BY DEF ReloadInv, ReloaderTypeOK, TimesInv, NoLostEdit
<1>3. CASE EarlyEdits
  BY <1>3
<1>4. CASE ~EarlyEdits
  <2>1. ReloadInv /\ TimesInv /\ UneditedBeforeStart /\ [ReloaderNext]_rVars
        => TimesInv' /\ UneditedBeforeStart'
    BY <1>4, TimesStepInv
  <2> QED
    BY <1>1, <1>2, <2>1, ReloadInvariant, PTL DEF ReloaderSpec
<1> QED
  BY <1>3, <1>4

-----------------------------------------------------------------------------
(* The auto-scanner.                                                       *)

\* Readiness is signalled before the first scan that is not the initial one.
ReadyBeforeRescan == round = "rescan" => ready

\* The inductive invariant of the auto-scanner.
ScannerInv == PoolInv /\ ScannerTypeOK /\ ReadyBeforeRescan /\ NoLostDown

-----------------------------------------------------------------------------
\* A step of the scanner, of a query that ends, of the health check or of
\* runTunnelMode is a step of a client of the pool, or leaves the pool alone:
\* UpdateResolvers gets a list that is not empty (autoscan.go:149).
LEMMA ScannerStepUsesPool ==
    ASSUME [ScannerNext]_asVars
    PROVE  [PoolStep]_poolVars
<1>1. ASSUME NEW from, NEW list \in FoundLists, Found(from, list)
      PROVE  PoolStep
  BY <1>1, ScannerAssumption DEF Found, PoolStep
<1>2. CASE FindNSFails \/ DeepScanFails \/ BuiltinFindsNothing
  BY <1>2 DEF FindNSFails, DeepScanFails, BuiltinFindsNothing
<1>3. CASE Loop
  BY <1>3 DEF Loop, PeriodicScan, EmergencyScan, CountHealthy, Maintain, LoopReturns
<1>4. CASE Callback
  BY <1>4 DEF Callback, PoolStep
<1>5. ASSUME NEW r \in Resolver, QueryEnds(r)
      PROVE  PoolStep
  BY <1>5 DEF QueryEnds, PoolStep
<1>6. CASE CheckHealth
  BY <1>6 DEF CheckHealth, PoolStep
<1>7. CASE Main
  BY <1>7 DEF Main, WaitReady, StartTunnel, StopScanner, PoolStep
<1>8. CASE UNCHANGED asVars
  BY <1>8 DEF asVars, poolVars
<1> QED
  BY <1>1, <1>2, <1>3, <1>4, <1>5, <1>6, <1>7, <1>8
     DEF ScannerNext, Scan, FindNSReturns, BuiltinReturns

LEMMA InitScannerInv == ScannerInit => ScannerInv
<1> SUFFICES ASSUME ScannerInit PROVE ScannerInv
  OBVIOUS
<1>1. PoolInv
  BY InitPoolInv DEF ScannerInit, Init
<1>2. ScannerTypeOK
  BY <1>1 DEF ScannerInit, ScannerTypeOK, PoolInv, TypeOK
<1>3. ReadyBeforeRescan /\ NoLostDown
  BY DEF ScannerInit, ReadyBeforeRescan, NoLostDown
<1> QED
  BY <1>1, <1>2, <1>3 DEF ScannerInv

\* HealthyCount counts a finite list (pool.go:237).
LEMMA HealthyCountIsNat ==
    ASSUME TypeOK
    PROVE  HealthyCount \in Nat
BY PoolAssumption, FS_Subset, FS_CardinalityType DEF TypeOK, HealthyCount

\* Only a query that ends may announce a resolver, and only Callback may take an
\* announcement away.
LEMMA CallbacksStay ==
    ASSUME PoolInv, [ScannerNext]_asVars, ~Callback
    PROVE  callbacks' >= callbacks
<1> USE DEF PoolInv, TypeOK
<1>1. CASE Scan
  BY <1>1 DEF Scan, FindNSReturns, BuiltinReturns, Found, UpdateResolvers,
     FindNSFails, DeepScanFails, BuiltinFindsNothing, callbackVars, poolVars
<1>2. CASE Loop
  BY <1>2 DEF Loop, PeriodicScan, EmergencyScan, CountHealthy, Maintain,
     LoopReturns, poolVars
<1>3. ASSUME NEW r \in Resolver, QueryEnds(r)
      PROVE  callbacks' >= callbacks
  BY <1>3 DEF QueryEnds, MarkSuccessWithLatency, MarkFailure, callbackVars
<1>4. CASE CheckHealth
  BY <1>4 DEF CheckHealth, HealthCheck, HCBegin, HCLaunch, HCLock, HCReceive,
     HCFinish, callbackVars
<1>5. CASE Main
  BY <1>5 DEF Main, WaitReady, StartTunnel, StopScanner, SetOnResolverDown, poolVars
<1>6. CASE UNCHANGED asVars
  BY <1>6 DEF asVars, poolVars
<1> QED
  BY <1>1, <1>2, <1>3, <1>4, <1>5, <1>6 DEF ScannerNext

LEMMA ScannerTypeStep ==
    ASSUME ScannerInv, TypeOK', [ScannerNext]_asVars
    PROVE  (ScannerTypeOK /\ ReadyBeforeRescan)'
<1> USE DEF ScannerInv, ScannerTypeOK, ReadyBeforeRescan
<1>1. ASSUME NEW from, NEW list \in FoundLists, Found(from, list)
      PROVE  (ScannerTypeOK /\ ReadyBeforeRescan)'
  BY <1>1 DEF Found, signalVars
<1>2. CASE FindNSFails \/ DeepScanFails
  BY <1>2 DEF FindNSFails, DeepScanFails, signalVars
<1>3. CASE BuiltinFindsNothing
  BY <1>3 DEF BuiltinFindsNothing
<1>4. CASE PeriodicScan \/ EmergencyScan
  BY <1>4 DEF PeriodicScan, EmergencyScan, BeginScan, signalVars
<1>5. CASE CountHealthy
  BY <1>5, HealthyCountIsNat DEF CountHealthy, signalVars
<1>6. CASE Maintain \/ LoopReturns
  BY <1>6 DEF Maintain, LoopReturns, TriggerRescan, signalVars
<1>7. CASE Callback
  BY <1>7 DEF Callback, TriggerRescan, signalVars
<1>8. ASSUME NEW r \in Resolver, QueryEnds(r)
      PROVE  (ScannerTypeOK /\ ReadyBeforeRescan)'
  BY <1>8 DEF QueryEnds, signalVars
<1>9. CASE CheckHealth \/ UNCHANGED asVars
  BY <1>9 DEF CheckHealth, asVars, scannerVars
<1>10. CASE Main
  BY <1>10 DEF Main, WaitReady, StartTunnel, StopScanner
<1> QED
  BY <1>1, <1>2, <1>3, <1>4, <1>5, <1>6, <1>7, <1>8, <1>9, <1>10
     DEF ScannerNext, Scan, FindNSReturns, BuiltinReturns, Loop

\* An announcement lives on as a callback to run, then as a buffered request,
\* until the scan that answers it begins (autoscan.go:92 and 122).
LEMMA NoLostDownStep ==
    ASSUME ScannerInv, [ScannerNext]_asVars
    PROVE  NoLostDown'
<1>1. CASE Callback
  BY <1>1 DEF Callback, TriggerRescan, NoLostDown
<1>2. CASE PeriodicScan \/ EmergencyScan
  BY <1>2 DEF PeriodicScan, EmergencyScan, BeginScan, NoLostDown
<1>3. CASE ~Callback /\ ~PeriodicScan /\ ~EmergencyScan
  <2>1. callbacks \in Nat /\ callbacks' \in Nat /\ callbacks' >= callbacks
    <3>1. PoolInv'
      BY ScannerStepUsesPool, PoolStepInv DEF ScannerInv
    <3> QED
      BY <1>3, <3>1, CallbacksStay DEF ScannerInv, PoolInv, TypeOK
  <2>2. unscanned \in BOOLEAN /\ rescanCh \in {0, 1}
    BY DEF ScannerInv, ScannerTypeOK
  <2>3. unscanned' => unscanned \/ callbacks' > callbacks
    BY <1>3, <2>2 DEF ScannerNext, Scan, FindNSReturns, BuiltinReturns, Loop, Main,
       Found, FindNSFails, DeepScanFails, BuiltinFindsNothing, CountHealthy, Maintain,
       LoopReturns, QueryEnds, CheckHealth, WaitReady, StartTunnel, StopScanner,
       asVars, scannerVars
  <2>4. rescanCh' = rescanCh \/ rescanCh' = 1
    BY <1>3 DEF ScannerNext, Scan, FindNSReturns, BuiltinReturns, Loop, Main,
       Found, FindNSFails, DeepScanFails, BuiltinFindsNothing, CountHealthy, Maintain,
       LoopReturns, QueryEnds, TriggerRescan, CheckHealth, WaitReady, StartTunnel, StopScanner,
       asVars, scannerVars
  <2>5. unscanned => callbacks > 0 \/ rescanCh = 1
    BY DEF ScannerInv, NoLostDown
  <2>6. unscanned' => callbacks' > 0 \/ rescanCh' = 1
    BY <2>1, <2>2, <2>3, <2>4, <2>5
  <2> QED
    BY <2>6 DEF NoLostDown
<1> QED
  BY <1>1, <1>2, <1>3

LEMMA ScannerStepInv ==
    ASSUME ScannerInv, [ScannerNext]_asVars
    PROVE  ScannerInv'
<1>1. PoolInv'
  <2>1. [PoolStep]_poolVars
    BY ScannerStepUsesPool
  <2> QED
    BY <2>1, PoolStepInv DEF ScannerInv
<1>2. (ScannerTypeOK /\ ReadyBeforeRescan)'
  BY <1>1, ScannerTypeStep DEF PoolInv
<1> QED
  BY <1>1, <1>2, NoLostDownStep DEF ScannerInv

\* Every reachable state of the auto-scanner satisfies the inductive invariant.
THEOREM ScannerInvariant == ScannerSpec => []ScannerInv
BY InitScannerInv, ScannerStepInv, PTL DEF ScannerSpec

\* The auto-scanner, the queries and the health check together are one way to use
\* the pool, so the pool's theorems hold in tunnel mode (autoscan.go:150).
THEOREM ScannerUsesPool == ScannerSpec => PoolSpec
<1>1. ScannerInit => Init
  BY DEF ScannerInit
<1> QED
  BY <1>1, ScannerStepUsesPool, PTL DEF ScannerSpec, PoolSpec

\* The scanner keeps its types, and its loop is entered only after readyCh was
\* closed (run, autoscan.go:104).
THEOREM ScannerTypeCorrect == ScannerSpec => []ScannerTypeOK
BY ScannerInvariant, PTL DEF ScannerInv

\* A resolver announced down is not forgotten, however callbacks, scans and the
\* maintenance check interleave (TriggerRescan, autoscan.go:92).
THEOREM DownIsNotLost == ScannerSpec => []NoLostDown
BY ScannerInvariant, PTL DEF ScannerInv
=============================================================================
