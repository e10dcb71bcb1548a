------------------------------ MODULE Reloader ------------------------------
(***************************************************************************)
(* The hot reload of reload.go composed with the resolver pool: the        *)
(* goroutine that polls the modification time of the resolvers file, the   *)
(* SIGHUP goroutine of main.go that reloads on request, and whoever edits  *)
(* the file meanwhile.                                                     *)
(*                                                                         *)
(* Every edit gives the file a new modification time.  A file is the set   *)
(* of resolvers parseResolvers makes of it, empty when it cannot be read   *)
(* or lists none.                                                          *)
(***************************************************************************)
EXTENDS ResolverPool

CONSTANTS
    Watcher,      \* the goroutine of ResolverReloader.loop
    Hup,          \* the goroutine that receives SIGHUP
    EarlyEdits,   \* whether the file may be edited before Start
    MaxEdits      \* bound: edits of the file

ASSUME ReloaderAssumption ==
    /\ Updater = {Watcher, Hup} /\ Watcher # Hup
    /\ EarlyEdits \in BOOLEAN
    /\ MaxEdits \in Nat

VARIABLES
    file,           \* what the resolvers file lists
    modTime,        \* its modification time
    lastModTime,    \* r.lastModTime
    rmu,            \* the goroutine holding r.mu, or Free
    rPc,            \* where each of the two goroutines stands
    parsed,         \* the list each of them has read
    sighup,         \* signals buffered in the channel sighup (capacity 1)
    readTime        \* history: the modification time of the content last read

reloadVars == <<file, modTime, lastModTime, rmu, rPc, parsed, sighup, readTime>>
rVars == <<poolVars, reloadVars>>

-----------------------------------------------------------------------------
(* The world outside.                                                      *)

Edit(content) ==
    /\ modTime < MaxEdits
    /\ EarlyEdits \/ rPc[Watcher] # "off"
    /\ file' = content
    /\ modTime' = modTime + 1
    /\ UNCHANGED <<lastModTime, rmu, rPc, parsed, sighup, readTime, poolVars>>

\* signal.Notify drops a signal that finds the channel full.
SendSighup ==
    /\ rPc[Watcher] # "off"
    /\ sighup' = 1
    /\ UNCHANGED <<file, modTime, lastModTime, rmu, rPc, parsed, readTime, poolVars>>

-----------------------------------------------------------------------------
(* The reloader.                                                           *)

\* The list was parsed and the pool made some time before; Start records the
\* modification time that the file has now.
Start ==
    /\ rPc[Watcher] = "off"
    /\ lastModTime' = modTime
    /\ rPc' = [rPc EXCEPT ![Watcher] = "idle", ![Hup] = "idle"]
    /\ UNCHANGED <<file, modTime, rmu, parsed, sighup, readTime, poolVars>>

\* The ticker fires: checkAndReload takes r.mu and stats the file.  An unchanged
\* time, or a file that cannot be stat'ed, ends the check, and nothing changes.
\* Otherwise the new time is recorded before the file is read.
CheckAndReload ==
    /\ rPc[Watcher] = "idle"
    /\ rmu = Free
    /\ modTime # lastModTime
    /\ lastModTime' = modTime
    /\ rmu' = Watcher
    /\ rPc' = [rPc EXCEPT ![Watcher] = "read"]
    /\ UNCHANGED <<file, modTime, parsed, sighup, readTime, poolVars>>

\* A signal is received, and Reload takes r.mu.
ReceiveSighup ==
    /\ rPc[Hup] = "idle"
    /\ sighup = 1
    /\ sighup' = 0
    /\ rPc' = [rPc EXCEPT ![Hup] = "lock"]
    /\ UNCHANGED <<file, modTime, lastModTime, rmu, parsed, readTime, poolVars>>

Reload ==
    /\ rPc[Hup] = "lock"
    /\ rmu = Free
    /\ rmu' = Hup
    /\ rPc' = [rPc EXCEPT ![Hup] = "read"]
    /\ UNCHANGED <<file, modTime, lastModTime, parsed, sighup, readTime, poolVars>>

\* doReload parses the file.
ParseFile(g) ==
    /\ rPc[g] = "read"
    /\ parsed' = [parsed EXCEPT ![g] = file]
    /\ readTime' = modTime
    /\ rPc' = [rPc EXCEPT ![g] = "parsed"]
    /\ UNCHANGED <<file, modTime, lastModTime, rmu, sighup, poolVars>>

\* Mutant of KeepPool: the modification time is taken again after the read.
KeepPoolStatsAgain(g) ==
    /\ rPc[g] = "parsed"
    /\ parsed[g] = {}
    /\ rmu' = Free
    /\ lastModTime' = modTime
    /\ rPc' = [rPc EXCEPT ![g] = "idle"]
    /\ UNCHANGED <<file, modTime, parsed, sighup, readTime, poolVars>>

\* A file without resolvers leaves the pool alone.
KeepPool(g) ==
    /\ rPc[g] = "parsed"
    /\ parsed[g] = {}
    /\ rmu' = Free
    /\ rPc' = [rPc EXCEPT ![g] = "idle"]
    /\ UNCHANGED <<file, modTime, lastModTime, parsed, sighup, readTime, poolVars>>

\* Mutant of ReplacePool: an empty list is not refused.
ReplacePoolUnchecked(g) ==
    /\ rPc[g] = "parsed"
    /\ UpdateResolvers(g, parsed[g])
    /\ rPc' = [rPc EXCEPT ![g] = "updating"]
    /\ UNCHANGED <<file, modTime, lastModTime, rmu, parsed, sighup, readTime>>

\* Any other list goes to UpdateResolvers, which does not return, so that r.mu is
\* not given back either.
ReplacePool(g) ==
    /\ rPc[g] = "parsed"
    /\ parsed[g] # {}
    /\ UpdateResolvers(g, parsed[g])
    /\ rPc' = [rPc EXCEPT ![g] = "updating"]
    /\ UNCHANGED <<file, modTime, lastModTime, rmu, parsed, sighup, readTime>>

\* On shutdown stopCh is closed, and the loop returns from its select.
Stop ==
    /\ rPc[Watcher] = "idle"
    /\ rPc' = [rPc EXCEPT ![Watcher] = "stopped"]
    /\ UNCHANGED <<file, modTime, lastModTime, rmu, parsed, sighup, readTime, poolVars>>

-----------------------------------------------------------------------------
ReloaderInit ==
    /\ Init
    /\ file = resolvers
    /\ modTime = 0
    /\ lastModTime = 0
    /\ rmu = Free
    /\ rPc = [g \in Updater |-> "off"]
    /\ parsed = [g \in Updater |-> {}]
    /\ sighup = 0
    /\ readTime = 0

ReloaderNext ==
    \/ \E content \in SUBSET Resolver : Edit(content)
    \/ SendSighup
    \/ Start
    \/ CheckAndReload
    \/ Stop
    \/ ReceiveSighup
    \/ Reload
    \/ \E g \in Updater : ParseFile(g) \/ KeepPool(g) \/ ReplacePool(g)

ReloaderSpec == ReloaderInit /\ [][ReloaderNext]_rVars

-----------------------------------------------------------------------------
(* Properties.                                                             *)

\* Every variable has its type, those of the pool included: a file that is
\* empty, or caught half written, never leaves the pool without resolvers.
ReloaderTypeOK ==
    /\ TypeOK
    /\ file \in SUBSET Resolver
    /\ modTime \in Nat /\ lastModTime \in Nat /\ readTime \in Nat
    /\ rmu \in {Free} \cup Updater
    /\ rPc \in [Updater -> {"off", "idle", "lock", "read", "parsed", "updating",
                          "stopped"}]
    /\ parsed \in [Updater -> SUBSET Resolver]
    /\ sighup \in {0, 1}

\* A version of the file that has not been read is one the watcher does not take for
\* read: it is about to read it, or its next check will find another modification
\* time, whenever the edit falls between the stat, the read and the reloads on
\* SIGHUP (reload.go:88).  There is a next check until the program stops, or until
\* the first list is handed to UpdateResolvers, which does not return: the edits
\* after that stay unread for good.
\* README.md:18 promises "Update your `resolvers.txt` on the fly without
\* restarting the service (via SIGHUP or automated file watcher)."
NoLostEdit == readTime # modTime => lastModTime # modTime \/ rPc[Watcher] = "read"
=============================================================================
