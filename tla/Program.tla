------------------------------ MODULE Program -------------------------------
(***************************************************************************)
(* The program around its parts: main and runTunnelMode of main.go check   *)
(* the flags, probe the resolvers or unpack the bundled binaries           *)
(* (embed.go), start the proxies, the cover traffic (cover.go) and the     *)
(* scanner with its findns process (findns.go), wait for it, start the     *)
(* tunnel, and take everything down after a signal; -scan runs the         *)
(* compatibility scan instead.                                             *)
(*                                                                         *)
(* The tunnel, the scanner and the reloader have modules of their own.     *)
(* Here the tunnel is a process that runs or not and the arguments it was  *)
(* started with, and the scanner the places where it can delay main, end   *)
(* the program, or leave a process and a directory behind.  A scan that    *)
(* ends with resolvers, or a reload of the file, never comes back from     *)
(* UpdateResolvers and keeps the pool locked (ResolverPool).               *)
(***************************************************************************)
EXTENDS Listener, Profile, CompatScan, StartupProbe

CONSTANT Flags    \* the command lines, with the files they refer to

\* The flags that decide what is started and with what, each with what main finds
\* when it follows it: a file that holds a list or does not, a profile, an address.
CommandLine ==
    [mode : {"standard", "tunnel", "scan"}, file : {"none", "list", "bad"},
     raw : BOOLEAN, doh : BOOLEAN, nearby : BOOLEAN, autoSelect : BOOLEAN,
     cover : BOOLEAN, tcp : BOOLEAN, listenOK : BOOLEAN,
     scanDomain : STRING, domain : STRING, pubkey : STRING, type : STRING,
     profile : {"none", "uri", "file", "unreadable", "fileWithout"},
     uri : ProfileURI, noScan : BOOLEAN,
     interval : {"bad", "notPositive", "positive"},
     workers : {"negative", "zero", "positive"},
     tunnelListen : [ok : BOOLEAN, host : STRING, port : STRING]]

\* A free port, which the code gets from the system, is a number.
ASSUME ProgramAssumption == Flags \subseteq CommandLine /\ "free" \in Numeral

VARIABLES
    flags,      \* the command line
    main,       \* where the goroutine of main stands
    exit,       \* how the process ended, if it has
    scanner,    \* where the goroutine of the auto-scanner stands
    ready,      \* whether readyCh is closed
    reloading,  \* whether a reload has called UpdateResolvers
    cover,      \* where the goroutine of the cover traffic stands
    temp,       \* the temporary directories that exist
    procs,      \* the processes that were started and run
    args        \* the arguments slipnet was started with

goroutines == <<scanner, ready, reloading, cover>>
outside == <<temp, procs, args>>
programVars == <<flags, main, exit, goroutines, outside>>
parts == <<listenerVars, compatVars, probeVars>>
allVars == <<programVars, parts>>

NoArgs == [port |-> "", profile |-> <<>>]

-----------------------------------------------------------------------------
(* The command line.                                                       *)

Parsed(f) == f.file = "list" \/ f.raw

\* Whether there are resolvers; scan mode does not look for a default list.
HasResolvers(f) == Parsed(f) \/ f.doh \/ (f.mode # "scan" /\ f.nearby)

\* Mutant of TunnelConfig: -scan-domain gets its default before the profile is read.
TunnelConfigScanFirst(f) ==
    LET given == f.profile \in {"uri", "file"}
        parsed == ParseSlipNetURI(f.uri)
    IN  [profile    |-> IF given THEN <<f.uri>> ELSE <<>>,
         domain     |-> IF f.domain = "" /\ given THEN parsed.domain ELSE f.domain,
         scanDomain |-> IF f.scanDomain = "" THEN f.domain ELSE f.scanDomain,
         publicKey  |-> IF f.pubkey = "" /\ given THEN parsed.publicKey ELSE f.pubkey,
         tunnelType |-> IF f.type = "dnstt" /\ given
                        THEN DisplayTunnelType(parsed.type) ELSE f.type,
         ssh        |-> given /\ IsSSH(parsed)]

\* What runTunnelMode makes of the flags and the profile.
TunnelConfig(f) ==
    LET given == f.profile \in {"uri", "file"}
        parsed == ParseSlipNetURI(f.uri)
        domain == IF f.domain = "" /\ given THEN parsed.domain ELSE f.domain
    IN  [profile    |-> IF given THEN <<f.uri>> ELSE <<>>,
         domain     |-> domain,
         scanDomain |-> IF f.scanDomain = "" THEN domain ELSE f.scanDomain,
         publicKey  |-> IF f.pubkey = "" /\ given THEN parsed.publicKey ELSE f.pubkey,
         tunnelType |-> IF f.type = "dnstt" /\ given
                        THEN DisplayTunnelType(parsed.type) ELSE f.type,
         ssh        |-> given /\ IsSSH(parsed)]

\* Whether the program starts anything: it exits with an error otherwise.  The
\* interval of the scans has to be a duration, but not a positive one, and
\* nothing is asked of the number of workers.
Accepted(f) ==
    /\ HasResolvers(f)
    /\ f.mode = "scan" => f.scanDomain # ""
    /\ f.mode = "tunnel" =>
          /\ f.profile \in {"none", "uri", "file"}
          /\ f.profile # "none" => Accepts(f.uri)
          /\ TunnelConfig(f).domain # ""
          /\ TunnelConfig(f).publicKey # ""
          /\ f.interval # "bad"

Exits(how) == exit' = how

\* os.Exit(1): the deferred calls of runTunnelMode do not run.
Refuse ==
    /\ main = "flags"
    /\ ~Accepted(flags)
    /\ Exits("failure")
    /\ UNCHANGED <<flags, main, goroutines, outside, parts>>

Accept ==
    /\ main = "flags"
    /\ Accepted(flags)
    /\ main' = CASE flags.mode = "scan" -> "scan"
                 [] flags.mode = "tunnel" -> "unpackFindns"
                 [] OTHER -> IF flags.autoSelect THEN "probe" ELSE "start"
    /\ UNCHANGED <<flags, exit, goroutines, outside, parts>>

-----------------------------------------------------------------------------
(* Scan mode.                                                              *)

TestResolver ==
    /\ main = "scan"
    /\ \E r \in Candidate : ScanOne(r)
    /\ UNCHANGED <<programVars, listenerVars, probeVars>>

PrintSummary ==
    /\ main = "scan"
    /\ Summary
    /\ Exits("success")
    /\ UNCHANGED <<flags, main, goroutines, outside, listenerVars, probeVars>>

-----------------------------------------------------------------------------
(* Startup.                                                                *)

\* A directory is made and the binary written, or there is none, or this fails
\* and the directory is removed.
Unpack(here, dir, next) ==
    /\ main = here
    /\ main' = next
    /\ temp' \in {temp, temp \cup {dir}}
    /\ UNCHANGED <<flags, exit, goroutines, procs, args, parts>>

\* The startup probe of standard mode.
Probe ==
    /\ main = "probe"
    /\ ProbeStep
    /\ UNCHANGED <<programVars, listenerVars, compatVars>>

\* The pool is made with what the probe has found, or with everything if that is
\* nothing (ResolverPool starts there).
ProbeEnds ==
    /\ main = "probe"
    /\ At({"received"}) = Probed
    /\ main' = "start"
    /\ working' = {}
    /\ UNCHANGED <<flags, exit, goroutines, outside, listenerVars, compatVars, probe>>

UnpackFindns == Unpack("unpackFindns", "findns", "start")

\* The goroutines are started, the scanner's unless -no-scan is given.
StartGoroutines ==
    /\ main = "start"
    /\ cover' = IF flags.cover THEN "check" ELSE cover
    /\ IF flags.mode = "tunnel"
       THEN /\ main' = "wait"
            /\ IF flags.noScan THEN UNCHANGED scanner
               ELSE scanner' \in {"findns", "builtin"}
       ELSE main' = "notify" /\ UNCHANGED scanner
    /\ UNCHANGED <<flags, exit, ready, reloading, outside, parts>>

\* WaitReady returns.  With -no-scan the pool is new and all of it is healthy.
Wait ==
    /\ main = "wait"
    /\ ready \/ flags.noScan
    /\ main' = "unpackSlipnet"
    /\ UNCHANGED <<flags, exit, goroutines, outside, parts>>

UnpackSlipnet == Unpack("unpackSlipnet", "slipnet", "tunnel")

\* slipnet listens where the users connect, or, when ssh is chained to it, on a
\* free local port.
ListenOf(f) ==
    IF TunnelConfig(f).ssh THEN [ok |-> TRUE, host |-> "127.0.0.1", port |-> "free"]
    ELSE f.tunnelListen

StartTunnel ==
    /\ main = "tunnel"
    /\ procs' = procs \cup {"slipnet"}
    /\ args' = BuildSlipnetArgs(TunnelConfig(flags), ListenOf(flags))
    /\ main' = "notify"
    /\ UNCHANGED <<flags, exit, goroutines, temp, parts>>

\* Nothing was started, or with ssh the port did not open in time, or ssh did
\* not start: the process that was started is left to itself.
TunnelFails ==
    /\ main = "tunnel"
    /\ \/ UNCHANGED procs
       \/ TunnelConfig(flags).ssh /\ procs' = procs \cup {"slipnet"}
    /\ Exits("failure")
    /\ UNCHANGED <<flags, main, goroutines, temp, args, parts>>

\* The reloader is started, and signals are delivered to the channel from now on.
Notify ==
    /\ main = "notify"
    /\ main' = "serve"
    /\ UNCHANGED <<flags, exit, goroutines, outside, parts>>

Startup == Probe \/ ProbeEnds \/ UnpackFindns \/ StartGoroutines \/ Wait \/ UnpackSlipnet
           \/ StartTunnel \/ TunnelFails \/ Notify

-----------------------------------------------------------------------------
(* The scanner and its findns process.                                     *)

\* Scan makes a directory for the output and runs findns, unless it cannot.
FindnsStarts ==
    /\ scanner \in {"findns", "deep"}
    /\ \/ scanner' = "builtin" /\ UNCHANGED <<temp, procs>>
       \/ /\ scanner' = IF scanner = "findns" THEN "findnsRuns" ELSE "deepRuns"
          /\ temp' = temp \cup {"output"}
          /\ procs' = procs \cup {"findns"}
    /\ UNCHANGED <<flags, main, exit, ready, reloading, cover, args, parts>>

\* Mutant of FindnsEnds: only a scan that succeeds removes its directory.
FindnsEndsLeavesOutput ==
    /\ scanner \in {"findnsRuns", "deepRuns"}
    /\ \/ scanner' = "update" /\ temp' = temp \ {"output"}
       \/ scanner' = "builtin" /\ UNCHANGED temp
       \/ scanner = "findnsRuns" /\ ~ready /\ scanner' = "deep" /\ UNCHANGED temp
    /\ procs' = procs \ {"findns"}
    /\ UNCHANGED <<flags, main, exit, ready, reloading, cover, args, parts>>

\* The process ends and its output is read; whatever comes of it, the deferred
\* call removes the directory.  Only an initial scan without a result goes deep.
\* Nothing but the process itself makes it end: it has no timeout.
FindnsEnds ==
    /\ scanner \in {"findnsRuns", "deepRuns"}
    /\ \/ scanner' = "update"
       \/ scanner' = "builtin"
       \/ scanner = "findnsRuns" /\ ~ready /\ scanner' = "deep"
    /\ temp' = temp \ {"output"}
    /\ procs' = procs \ {"findns"}
    /\ UNCHANGED <<flags, main, exit, ready, reloading, cover, args, parts>>

\* The built-in scan finds resolvers, or it does not and readiness is signalled.
\* Without workers it waits for ever to start the first of them.
BuiltinEnds ==
    /\ scanner = "builtin"
    /\ flags.workers = "positive"
    /\ \/ scanner' = "update" /\ UNCHANGED ready
       \/ scanner' = "loop" /\ ready' = TRUE
    /\ UNCHANGED <<flags, main, exit, reloading, cover, outside, parts>>

\* The built-in scan makes a channel with room for all its workers, and the loop
\* a ticker.  Both panic on a number they cannot take, and with the goroutine the
\* process ends.
ScannerPanics ==
    /\ \/ scanner = "builtin" /\ flags.workers = "negative"
       \/ scanner = "loop" /\ flags.interval = "notPositive"
    /\ Exits("failure")
    /\ UNCHANGED <<flags, main, goroutines, outside, parts>>

Rescan ==
    /\ scanner = "loop"
    /\ flags.interval = "positive"
    /\ scanner' \in {"findns", "builtin"}
    /\ UNCHANGED <<flags, main, exit, ready, reloading, cover, outside, parts>>

\* The loop finds stopCh closed; a ticker may still come first.
ScannerStops ==
    /\ scanner = "loop"
    /\ flags.interval = "positive"
    /\ main \in {"stopProxy", "return"}
    /\ scanner' = "stopped"
    /\ UNCHANGED <<flags, main, exit, ready, reloading, cover, outside, parts>>

Scan == FindnsStarts \/ FindnsEnds \/ BuiltinEnds

-----------------------------------------------------------------------------
(* The proxy that is followed, and the cover traffic.                      *)

\* UpdateResolvers has been called and waits for the lock it holds.
PoolLocked == scanner = "update" \/ reloading

\* The reloader, or SIGHUP, reads a changed file: the one of -f, even if there was
\* no list in it at first, or in standard mode the default list.  Stop does not
\* interrupt a reload.
Reload ==
    /\ main \in {"serve", "stopParts", "stopProxy", "return"}
    /\ flags.file # "none" \/ (flags.mode = "standard" /\ flags.nearby)
    /\ reloading' = TRUE
    /\ UNCHANGED <<flags, main, exit, scanner, ready, cover, outside, parts>>

Started == main \notin {"flags", "scan", "probe", "unpackFindns", "start"}

StartProxy ==
    /\ Started
    /\ Begin
    /\ UNCHANGED <<programVars, compatVars, probeVars>>

ProxyServes == Serve /\ UNCHANGED <<programVars, compatVars, probeVars>>

\* The step of ProxyServes that gets a socket.
Bind == BindSucceeds /\ UNCHANGED <<programVars, compatVars, probeVars>>

QueryEnds(h) == HandlerEnds(h) /\ UNCHANGED <<programVars, compatVars, probeVars>>

\* An error of the UDP proxy ends the program, wherever main is; that of the TCP
\* proxy is logged.  When it is the TCP proxy that is followed, the other may
\* fail at any time there is a reason for it.
ProxyFails ==
    /\ IF proto = "udp" THEN loc = "err"
       ELSE Started /\ (~goodAddr \/ main \in {"stopProxy", "return"})
    /\ Exits("failure")
    /\ UNCHANGED <<flags, main, goroutines, outside, parts>>

\* A query for an ordinary name is sent, to a resolver taken from the pool.
CoverTraffic ==
    /\ \/ cover = "check" /\ cover' = IF main = "return" THEN "ended" ELSE "send"
       \/ cover = "send" /\ ~PoolLocked /\ cover' = "sleep"
       \/ cover = "sleep" /\ cover' = IF main = "return" THEN "ended" ELSE "check"
    /\ UNCHANGED <<flags, main, exit, scanner, ready, reloading, outside, parts>>

-----------------------------------------------------------------------------
(* Shutdown.                                                               *)

\* SIGINT or SIGTERM: kills the process unless main listens for it.
Signal ==
    /\ main \notin {"stopParts", "stopProxy", "return"}
    /\ IF main = "serve" THEN main' = "stopParts" /\ UNCHANGED exit
       ELSE Exits("killed") /\ UNCHANGED main
    /\ UNCHANGED <<flags, goroutines, outside, parts>>

\* The reloader, the tunnel and the scanner are stopped.  Only the tunnel's
\* Stop waits, for processes that it kills when they do not end.
StopParts ==
    /\ main = "stopParts"
    /\ procs' = procs \ {"slipnet"}
    /\ main' = "stopProxy"
    /\ UNCHANGED <<flags, exit, goroutines, temp, args, parts>>

\* The proxies are stopped, and then the cover traffic.
StopProxy ==
    /\ main = "stopProxy"
    /\ StopSignal \/ StopClose
    /\ main' = IF stop' = "stopped" THEN "return" ELSE main
    /\ UNCHANGED <<flags, exit, goroutines, outside, compatVars, probeVars>>

\* Mutant of Return: main waits until the proxy has returned.
ReturnWaits ==
    /\ main = "return"
    /\ loc \in {"nil", "err"}
    /\ Exits("success")
    /\ temp' = temp \ {"findns", "slipnet"}
    /\ UNCHANGED <<flags, main, goroutines, procs, args, parts>>

\* The deferred calls run and the process ends, with whatever goroutines there
\* still are.  A findns process that one of them waits for is left to itself.
Return ==
    /\ main = "return"
    /\ Exits("success")
    /\ temp' = temp \ {"findns", "slipnet"}
    /\ UNCHANGED <<flags, main, goroutines, procs, args, parts>>

Shutdown == StopParts \/ StopProxy \/ Return

-----------------------------------------------------------------------------
ProgramInit ==
    /\ ListenerInit
    /\ flags \in Flags
    /\ proto = "tcp" => flags.tcp
    /\ goodAddr = flags.listenOK
    /\ main = "flags" /\ exit = "no"
    /\ scanner = "off" /\ ready = FALSE /\ reloading = FALSE
    /\ cover = "off"
    /\ temp = {} /\ procs = {} /\ args = NoArgs
    /\ results = <<>> /\ best = <<>>
    /\ ProbeInit

Run ==
    \/ Refuse \/ Accept \/ TestResolver \/ PrintSummary
    \/ Startup \/ Scan \/ ScannerPanics \/ Rescan \/ ScannerStops
    \/ StartProxy \/ ProxyServes \/ ProxyFails \/ CoverTraffic \/ Reload
    \/ \E h \in Handler : QueryEnds(h)
    \/ Signal \/ Shutdown

ProgramNext == exit = "no" /\ Run

ProgramSpec == ProgramInit /\ [][ProgramNext]_allVars

\* A runnable goroutine runs; the probes end; an address that nothing holds is
\* granted in the end; the Stop of the tunnel returns (TunnelManager).  Nothing
\* is assumed of the scanner, of the queries, which may hang, of signals, or of
\* the errors of a socket.
ProgramFairness ==
    /\ WF_allVars(exit = "no" /\ (Probe \/ ProbeEnds \/ Shutdown))
    /\ WF_allVars(exit = "no" /\ (StartProxy \/ ProxyServes))
    /\ SF_allVars(exit = "no" /\ Bind)

FairProgramSpec == ProgramSpec /\ ProgramFairness

-----------------------------------------------------------------------------
(* Properties.                                                             *)

\* Every variable of the program and of the proxy it follows has its type; the only
\* directories are the three the program makes, and no entry of the list is scanned
\* a second time.
ProgramTypeOK ==
    /\ ListenerTypeOK
    /\ flags \in Flags
    /\ main \in {"flags", "scan", "probe", "unpackFindns", "start", "wait", "unpackSlipnet",
                 "tunnel", "notify", "serve", "stopParts", "stopProxy", "return"}
    /\ exit \in {"no", "success", "failure", "killed"}
    /\ scanner \in {"off", "findns", "findnsRuns", "deep", "deepRuns", "builtin", "update",
                    "loop", "stopped"}
    /\ ready \in BOOLEAN /\ reloading \in BOOLEAN
    /\ cover \in {"off", "check", "send", "sleep", "ended"}
    /\ temp \subseteq {"findns", "slipnet", "output"}
    /\ procs \subseteq {"findns", "slipnet"}
    /\ Len(results) <= Cardinality(Candidate)
    /\ working \subseteq Probed

\* A program that ends well has stopped the tunnel and removed the binaries it
\* unpacked, wherever the signal finds the scanner and however many scans there
\* were.  What it leaves is that of a findns scan which it cut off: the process,
\* which nobody kills, and the directory of its output (main.go:431, findns.go:67).
CleanExit ==
    exit = "success" =>
        /\ "slipnet" \notin procs
        /\ temp \subseteq {"output"}
        /\ "findns" \in procs \/ "output" \in temp => scanner \in {"findnsRuns", "deepRuns"}

\* The program fails only when its command line is refused, the tunnel does not
\* start, the address of the proxy is unusable, Stop finds the proxy between two
\* sockets, or the scanner is given a number of workers or an interval on which it
\* panics.  No error of a socket ends it, and no scan with usable numbers
\* (main.go:217, scanner.go:407, autoscan.go:110).
FailsForAReason ==
    exit = "failure" =>
        \/ main \in {"flags", "tunnel"}
        \/ ~goodAddr
        \/ main \in {"stopProxy", "return"} /\ (proto = "udp" => open = {})
        \/ scanner = "builtin" /\ flags.workers = "negative"
        \/ scanner = "loop" /\ flags.interval = "notPositive"

\* The startup probe ends, with more resolvers than workers, whatever the order in
\* which they answer: main, which waits for slots, and the goroutines, which wait
\* to deliver, never wait for each other (pool.go:304).
ProbeCompletes == main = "probe" ~> main # "probe" \/ exit # "no"

\* Once main listens for signals, a signal ends the program, even when a scan
\* or a reload has locked the pool for good and every handler hangs (main.go:610).
SignalEndsIt == main = "stopParts" ~> exit # "no"

\* The UDP proxy comes back after an error of its socket, unless it is stopped
\* or the program ends (proxy.go:64).
ServesAgain ==
    loc \in {"close", "bind"} /\ goodAddr ~> (loc = "read" \/ done \/ exit # "no")

\* What slipnet is started with: a profile that main could parse again, which
\* binds the address it is meant to and has a type with one ssh ending less, and
\* which is the user's in every other field, or has the domain, the key and the
\* type of the flags; with ssh the address is a local one (tunnel.go:300).
SlipnetGetsTheProfile ==
    args # NoArgs =>
        LET profile == ParseSlipNetURI(args.profile)
            own == flags.uri.fields
            listen == ListenOf(flags)
        IN  /\ Accepts(args.profile)
            /\ listen.ok => args.port = listen.port
            /\ listen.ok /\ listen.host # "" => profile.host = listen.host
            /\ IF flags.profile = "none"
               THEN /\ profile.domain = flags.domain /\ profile.publicKey = flags.pubkey
                    /\ profile.type = GeneratedType(flags.type)
               ELSE /\ listen.ok /\ listen.port # "" => profile.port = listen.port
                    /\ IsSSH(ParseSlipNetURI(flags.uri)) =>
                          /\ profile.type = Stem[own[TypeField]]
                          /\ listen.host = "127.0.0.1"
                    /\ ~IsSSH(ParseSlipNetURI(flags.uri)) => profile.type = own[TypeField]
                    /\ \A i \in DOMAIN own \ {TypeField, PortField, HostField} :
                          args.profile.fields[i] = own[i]

\* The scanner looks for resolvers that carry the domain slipnet will use, unless
\* a flag names another one: -scan-domain, or -tunnel-domain next to a profile,
\* which the scanner heeds and slipnet does not (main.go:347).
ScannedIsTunnelled ==
    /\ args # NoArgs
    /\ flags.scanDomain = ""
    /\ flags.profile = "none" \/ flags.domain = ""
    => TunnelConfig(flags).scanDomain = ParseSlipNetURI(args.profile).domain

\* The inductive strengthening of CleanExit and FailsForAReason.
ProgramInv ==
    /\ CleanExit /\ FailsForAReason
    /\ temp \subseteq {"findns", "slipnet", "output"}
    /\ procs \subseteq {"findns", "slipnet"}
    /\ "findns" \in procs \/ "output" \in temp => scanner \in {"findnsRuns", "deepRuns"}
    /\ "slipnet" \in procs /\ exit = "no" => main \in {"notify", "serve", "stopParts"}
    /\ stop # "no" => main \in {"stopProxy", "return"}
    /\ main \in {"flags", "scan", "probe", "unpackFindns", "start"} => scanner = "off"
    /\ main \in {"flags", "scan"} => temp = {}
=============================================================================
