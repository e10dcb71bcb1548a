----------------------------- MODULE AutoScanner ----------------------------
(***************************************************************************)
(* The auto-scanner of autoscan.go composed with the resolver pool and     *)
(* with the part of runTunnelMode that waits for it: the initial scan and  *)
(* the readiness signal, the periodic loop, and the rescan requests made   *)
(* when a resolver goes down or the pool thins out.                        *)
(*                                                                         *)
(* A scan is reduced to the list it ends with.  Which resolvers a scan     *)
(* finds is up to the network: any list of FoundLists, or none.  It ends   *)
(* for a positive -scan-workers, and the loop begins for a positive        *)
(* -scan-interval; Program has what else they may be.  A list is           *)
(* handed to UpdateResolvers, which does not return (see ResolverPool), so *)
(* that is the last step of the goroutine: the code after the call, which  *)
(* closes readyCh or goes back to the loop, is not reached.                *)
(*                                                                         *)
(* The query handlers appear as calls of MarkSuccessWithLatency and        *)
(* MarkFailure on any resolver at any time.                                *)
(***************************************************************************)
EXTENDS ResolverPool

CONSTANTS
    Scanner,      \* the goroutine of AutoScanner.run, an updater
    TopN,         \* target count of resolvers (as.topN, 20 by default)
    FoundLists    \* the lists a scan may end with

ASSUME ScannerAssumption ==
    /\ Scanner \in Updater
    /\ TopN \in Nat
    /\ FoundLists \subseteq (SUBSET Resolver) \ {{}}

VARIABLES
    allResolvers,   \* as.allResolvers, the list given on startup
    count,          \* the count of healthy resolvers the loop has read
    scPc,           \* where the scanner stands
    round,          \* whether the scan in progress is the initial one
    rescanCh,       \* requests buffered in as.rescanCh (capacity 1)
    ready,          \* whether as.readyCh is closed
    stopCh,         \* whether as.stopCh is closed
    mainPc,         \* where runTunnelMode stands
    unscanned       \* history: a resolver announced down since the last scan began

scannerVars == <<allResolvers, count, scPc, round, rescanCh, ready, stopCh,
                 mainPc, unscanned>>
signalVars == <<ready, stopCh, mainPc>>
asVars == <<poolVars, scannerVars>>

-----------------------------------------------------------------------------
(* A scan.                                                                 *)

\* The scan begins: with findns when its binary is available.
BeginScan(r) ==
    /\ scPc' \in {"findns", "builtin"}
    /\ round' = r
    /\ unscanned' = FALSE

\* A scan step ends with a list, and the goroutine enters UpdateResolvers.
Found(from, list) ==
    /\ scPc = from
    /\ UpdateResolvers(Scanner, list)
    /\ scPc' = "updating"
    /\ UNCHANGED <<allResolvers, count, round, rescanCh, signalVars, unscanned>>

\* findns fails, or verifies nothing.  Only the initial scan then tries once
\* more with its internal list; everything else falls back to the built-in scan.
FindNSFails ==
    /\ scPc = "findns"
    /\ \/ scPc' = "builtin"
       \/ round = "initial" /\ scPc' = "deep"
    /\ UNCHANGED <<allResolvers, count, round, rescanCh, signalVars, unscanned,
                   poolVars>>

DeepScanFails ==
    /\ scPc = "deep"
    /\ scPc' = "builtin"
    /\ UNCHANGED <<allResolvers, count, round, rescanCh, signalVars, unscanned,
                   poolVars>>

\* Mutant of BuiltinFindsNothing: readiness is signalled only with resolvers.
BuiltinNeverReady ==
    /\ scPc = "builtin"
    /\ scPc' = "loop"
    /\ UNCHANGED <<allResolvers, count, round, rescanCh, signalVars, unscanned,
                   poolVars>>

\* No resolver works: the pool is kept, and the initial scan signals readiness.
BuiltinFindsNothing ==
    /\ scPc = "builtin"
    /\ scPc' = "loop"
    /\ ready' = (ready \/ round = "initial")
    /\ UNCHANGED <<allResolvers, count, round, rescanCh, stopCh, mainPc, unscanned,
                   poolVars>>

\* The findns process ends.  It runs without a timeout, so it need not.
FindNSReturns ==
    \/ \E from \in {"findns", "deep"}, list \in FoundLists : Found(from, list)
    \/ FindNSFails
    \/ DeepScanFails

BuiltinReturns ==
    \/ \E list \in FoundLists : Found("builtin", list)
    \/ BuiltinFindsNothing

Scan == FindNSReturns \/ BuiltinReturns

-----------------------------------------------------------------------------
(* The loop: one case of its select per action.                            *)

\* Mutant of TriggerRescan: rescanCh has no buffer, so that a request made
\* while nobody receives is dropped.
TriggerUnbuffered == IF scPc = "loop" THEN 1 ELSE rescanCh

\* The select of TriggerRescan: the request is buffered, or there is one already.
TriggerRescan == 1

\* The scan ticker fires.
PeriodicScan ==
    /\ scPc = "loop"
    /\ BeginScan("rescan")
    /\ UNCHANGED <<allResolvers, count, rescanCh, signalVars, poolVars>>

EmergencyScan ==
    /\ scPc = "loop"
    /\ rescanCh = 1
    /\ rescanCh' = 0
    /\ BeginScan("rescan")
    /\ UNCHANGED <<allResolvers, count, signalVars, poolVars>>

HealthyCount == Cardinality(healthyCache)

\* The maintenance ticker fires: the count is read under the lock, and used to
\* decide whether the pool is thin after the lock has been released.
CountHealthy ==
    /\ scPc = "loop"
    /\ mu = Free
    /\ count' = HealthyCount
    /\ scPc' = "maintain"
    /\ UNCHANGED <<allResolvers, round, rescanCh, signalVars, unscanned,
                   poolVars>>

Maintain ==
    /\ scPc = "maintain"
    /\ rescanCh' = IF count < TopN \div 2 /\ count < Cardinality(allResolvers)
                   THEN TriggerRescan ELSE rescanCh
    /\ count' = 0
    /\ scPc' = "loop"
    /\ UNCHANGED <<allResolvers, round, signalVars, unscanned, poolVars>>

LoopReturns ==
    /\ scPc = "loop"
    /\ stopCh
    /\ scPc' = "stopped"
    /\ UNCHANGED <<allResolvers, count, round, rescanCh, signalVars, unscanned,
                   poolVars>>

Loop == PeriodicScan \/ EmergencyScan \/ CountHealthy \/ Maintain \/ LoopReturns

-----------------------------------------------------------------------------
(* The pool's side: queries end, resolvers go down, callbacks run.         *)

\* A callback goroutine runs TriggerRescan.
Callback ==
    /\ RunCallback
    /\ rescanCh' = TriggerRescan
    /\ UNCHANGED <<allResolvers, count, scPc, round, signalVars, unscanned>>

QueryEnds(r) ==
    /\ r \in tracked
    /\ MarkSuccessWithLatency(r) \/ MarkFailure(r)
    /\ WithinBounds(stats')
    /\ unscanned' = (unscanned \/ callbacks' > callbacks)
    /\ UNCHANGED <<allResolvers, count, scPc, round, rescanCh, signalVars>>

CheckHealth == HealthCheck /\ UNCHANGED scannerVars

-----------------------------------------------------------------------------
(* runTunnelMode.                                                          *)

WaitReady ==
    /\ mainPc = "waitReady"
    /\ ready
    /\ mainPc' = "register"
    /\ UNCHANGED <<allResolvers, count, scPc, round, rescanCh, ready, stopCh, unscanned,
                   poolVars>>

\* The callback is registered, and the tunnel is started.
StartTunnel ==
    /\ mainPc = "register"
    /\ SetOnResolverDown
    /\ mainPc' = "running"
    /\ UNCHANGED <<allResolvers, count, scPc, round, rescanCh, ready, stopCh,
                   unscanned>>

\* A signal ends the program: the scanner is told to stop.
StopScanner ==
    /\ mainPc = "running"
    /\ stopCh' = TRUE
    /\ mainPc' = "stopped"
    /\ UNCHANGED <<allResolvers, count, scPc, round, rescanCh, ready, unscanned,
                   poolVars>>

-----------------------------------------------------------------------------
ScannerInit ==
    /\ Init
    /\ allResolvers = resolvers
    /\ count = 0
    /\ scPc \in {"findns", "builtin"}
    /\ round = "initial"
    /\ rescanCh = 0
    /\ ready = FALSE
    /\ stopCh = FALSE
    /\ mainPc = "waitReady"
    /\ unscanned = FALSE

Main == WaitReady \/ StartTunnel \/ StopScanner

ScannerNext ==
    \/ Scan
    \/ Loop
    \/ Callback
    \/ \E r \in Resolver : QueryEnds(r)
    \/ CheckHealth
    \/ Main

ScannerSpec == ScannerInit /\ [][ScannerNext]_asVars

\* A built-in scan that has workers ends, since every probe has a timeout (Program
\* has the command lines with none); Go's select picks at random among the cases
\* that are ready, so a request that stays buffered is received; a runnable
\* goroutine runs and one that waits for p.mu gets it in the end.  Nothing is
\* assumed of findns, and neither tickers, queries nor signals are assumed to come.
ScannerFairness ==
    /\ WF_asVars(BuiltinReturns)
    /\ SF_asVars(EmergencyScan)
    /\ WF_asVars(Maintain)
    /\ WF_asVars(Callback)
    /\ WF_asVars(WaitReady)
    /\ SF_asVars(StartTunnel)
    /\ SF_asVars(CheckHealth /\ hcPc # "sleep")

FairScannerSpec == ScannerSpec /\ ScannerFairness

-----------------------------------------------------------------------------
(* Properties.                                                             *)

\* Every variable of the scanner and of the pool it updates has its type, and the
\* loop is entered only after readiness has been signalled.
ScannerTypeOK ==
    /\ TypeOK
    /\ allResolvers \in (SUBSET Resolver) \ {{}}
    /\ count \in Nat
    /\ scPc \in {"findns", "deep", "builtin", "updating", "loop", "maintain", "stopped"}
    /\ round \in {"initial", "rescan"}
    /\ rescanCh \in {0, 1}
    /\ ready \in BOOLEAN /\ stopCh \in BOOLEAN /\ unscanned \in BOOLEAN
    /\ mainPc \in {"waitReady", "register", "running", "stopped"}
    /\ scPc \in {"loop", "maintain", "stopped"} => ready

\* A resolver that was announced down is never forgotten: until another scan
\* begins, its callback is still to run or a request is buffered, however the
\* callbacks race with a scan in progress (autoscan.go:92).
NoLostDown == unscanned => callbacks > 0 \/ rescanCh = 1

\* A findns process never ends, and the scanner waits for it (findns.go:102).
FindNSHangs == <>[](scPc \in {"findns", "deep"})

\* A resolver announced down leads to another scan, unless findns hangs, the program
\* stops, or the scanner is in UpdateResolvers, which does not return
\* (autoscan.go:122).
DownLeadsToScan ==
    FindNSHangs \/ (unscanned ~> (~unscanned \/ stopCh \/ scPc = "updating"))

\* Startup completes on every path of the initial scan that comes back from findns
\* and from UpdateResolvers, those where findns or the deep scan fail and those that
\* find nothing included (autoscan.go:87).
TunnelStarts ==
    FindNSHangs \/ (mainPc = "waitReady" ~> (mainPc = "running" \/ scPc = "updating"))

\* autoscan.go:126 says of the maintenance check: "If pool is thinning out (less
\* than half of target), trigger a scan".
\* The count that the check goes by must then be thin when the pool is.
ThinPoolIsSeen ==
    [][/\ scPc = "loop" /\ scPc' = "maintain"
       /\ Cardinality({r \in resolvers : healthy[r]}) < TopN \div 2
       => count' < TopN \div 2]_asVars
=============================================================================
