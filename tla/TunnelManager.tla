---------------------------- MODULE TunnelManager ---------------------------
(***************************************************************************)
(* The tunnel manager of tunnel.go: the slipnet process, the ssh process   *)
(* chained to it for _ssh profiles, the goroutine that monitors each of    *)
(* them and restarts it, and Stop.                                         *)
(*                                                                         *)
(* A process and its monitor share an identifier, which is used again once *)
(* the process is gone, its monitor has returned and nobody holds a        *)
(* pointer to it; so nothing bounds the number of restarts.  The port that *)
(* freePort returns is named by the slipnet process that is to listen on   *)
(* it.  The pauses before a restart (3 s and 2 s) have no fixed length     *)
(* here, and a process may exit at any time.  A signal that comes before   *)
(* main listens for one ends the program, as a failed Start does.          *)
(*                                                                         *)
(* tm.mu is held across steps only by startWithSSH, which waits for the    *)
(* port with the lock held; other critical sections are single steps.      *)
(***************************************************************************)
EXTENDS Naturals, FiniteSets

CONSTANTS
    Slipnet,   \* identifiers of slipnet processes and of their monitors
    Ssh,       \* identifiers of ssh processes and of their monitors
    Main,      \* the goroutine of runTunnelMode
    None       \* a nil pointer, a free lock

ASSUME TunnelAssumption ==
    /\ Slipnet \cap Ssh = {}
    /\ Main \notin Slipnet \cup Ssh
    /\ None \notin Slipnet \cup Ssh \cup {Main}

Proc == Slipnet \cup Ssh
Goroutine == Proc \cup {Main}

VARIABLES
    sshEnabled,     \* tm.config.SSHEnabled, fixed
    mu,             \* the holder of tm.mu, or None
    tunnelCmd,      \* tm.tunnelCmd
    sshCmd,         \* tm.sshCmd
    stopped,        \* tm.stopped
    tunnelPort,     \* tm.tunnelPort
    askpassPath,    \* whether tm.askpassPath is set
    askpassFile,    \* whether the file exists
    proc,           \* a process: gone, running, or sent SIGTERM or SIGKILL
    via,            \* the tunnel port an ssh process connects to
    pc,             \* where a goroutine stands
    victim,         \* the process a goroutine is stopping
    stopTunnel,     \* the other local of Stop: the slipnet process to stop
    failed          \* history: what the latest attempt could not start

cmdVars == <<tunnelCmd, sshCmd, stopped, tunnelPort>>
askpassVars == <<askpassPath, askpassFile>>
procVars == <<proc, via>>
localVars == <<victim, stopTunnel>>
tmVars == <<sshEnabled, mu, cmdVars, askpassVars, procVars, pc, localVars, failed>>

Alive(p) == proc[p] # "gone"

\* Identifiers that nothing refers to any more.
Fresh(p) ==
    /\ ~Alive(p)
    /\ pc[p] = "idle"
    /\ p \notin {tunnelCmd, sshCmd, stopTunnel}
    /\ \A g \in Goroutine : victim[g] # p

\* Where the caller of a start goes on: a monitor returns, main exits on an error.
Returned(g) == IF g = Main THEN "serve" ELSE "idle"
ReturnedError(g) == IF g = Main THEN "exited" ELSE "idle"

-----------------------------------------------------------------------------
(* Starting.                                                               *)

\* startLocked, up to the wait for the port if there is one.
StartLocked(g) ==
    /\ \E p \in Slipnet :
          /\ Fresh(p)
          /\ proc' = [proc EXCEPT ![p] = "running"]
          /\ tunnelCmd' = p
          /\ IF sshEnabled
             THEN /\ tunnelPort' = p
                  /\ mu' = g
                  /\ pc' = [pc EXCEPT ![p] = "wait", ![g] = "waitForPort"]
             ELSE /\ pc' = [pc EXCEPT ![p] = "wait", ![g] = Returned(g)]
                  /\ UNCHANGED <<tunnelPort, mu>>
    /\ failed' = {}
    /\ UNCHANGED <<sshCmd, stopped, askpassVars, via>>

\* No port is free, or slipnet cannot be started and nobody listens on the port.
StartLockedFails(g) ==
    /\ tunnelPort' \in IF sshEnabled THEN {tunnelPort, None} ELSE {tunnelPort}
    /\ failed' = {"slipnet"}
    /\ pc' = [pc EXCEPT ![g] = ReturnedError(g)]
    /\ UNCHANGED <<tunnelCmd, sshCmd, stopped, mu, askpassVars, procVars>>

\* The password is passed by sshpass, or by a script that startSSH writes.
WriteAskpass ==
    \/ UNCHANGED askpassVars
    \/ askpassPath' = TRUE /\ askpassFile' = TRUE

StartSSH(g) ==
    /\ \E p \in Ssh :
          /\ Fresh(p)
          /\ proc' = [proc EXCEPT ![p] = "running"]
          /\ via' = [via EXCEPT ![p] = tunnelPort]
          /\ sshCmd' = p
          /\ pc' = [pc EXCEPT ![p] = "wait", ![g] = Returned(g)]
    /\ WriteAskpass
    /\ failed' = failed \ {"ssh"}
    /\ UNCHANGED <<tunnelCmd, stopped, tunnelPort>>

\* The script cannot be written (part of it may be), or ssh cannot be started.
StartSSHFails(g) ==
    /\ \/ askpassFile' = TRUE /\ UNCHANGED askpassPath
       \/ WriteAskpass
    /\ failed' = failed \cup {"ssh"}
    /\ pc' = [pc EXCEPT ![g] = ReturnedError(g)]
    /\ UNCHANGED <<cmdVars, procVars>>

\* Mutant of PortTimesOut: the lock is kept on the error path.
PortTimesOutLocked(g) ==
    /\ pc[g] = "waitForPort"
    /\ failed' = failed \cup {"ssh"}
    /\ pc' = [pc EXCEPT ![g] = ReturnedError(g)]
    /\ UNCHANGED <<sshEnabled, mu, cmdVars, askpassVars, procVars, localVars>>

PortTimesOut(g) ==
    /\ pc[g] = "waitForPort"
    /\ mu' = None
    /\ failed' = failed \cup {"ssh"}
    /\ pc' = [pc EXCEPT ![g] = ReturnedError(g)]
    /\ UNCHANGED <<sshEnabled, cmdVars, askpassVars, procVars, localVars>>

PortOpens(g) ==
    /\ pc[g] = "waitForPort"
    /\ Alive(tunnelCmd)
    /\ StartSSH(g) \/ StartSSHFails(g)
    /\ mu' = None
    /\ UNCHANGED <<sshEnabled, localVars>>

\* Start, called by runTunnelMode, which exits if it fails.
Start ==
    /\ pc[Main] = "start"
    /\ mu = None
    /\ StartLocked(Main) \/ StartLockedFails(Main)
    /\ UNCHANGED <<sshEnabled, localVars>>

-----------------------------------------------------------------------------
(* Monitors.                                                               *)

\* Mutant of TunnelExited: the ssh process is left to itself.
TunnelExitedKeepSSH(p) ==
    /\ pc[p] = "wait" /\ ~Alive(p)
    /\ mu = None
    /\ tunnelCmd' = IF tunnelCmd = p THEN None ELSE tunnelCmd
    /\ pc' = [pc EXCEPT ![p] = IF stopped THEN "idle" ELSE "pause"]
    /\ UNCHANGED <<sshEnabled, mu, sshCmd, stopped, tunnelPort, askpassVars,
                   procVars, localVars, failed>>

\* Mutant of TunnelExited: tm.tunnelCmd keeps pointing at the dead process.
TunnelExitedKeepCmd(p) ==
    /\ pc[p] = "wait" /\ ~Alive(p)
    /\ mu = None
    /\ pc' = [pc EXCEPT ![p] = IF stopped THEN "idle" ELSE "stopSSH"]
    /\ UNCHANGED <<sshEnabled, mu, cmdVars, askpassVars, procVars, localVars,
                   failed>>

\* cmd.Wait returns in monitorTunnel.
TunnelExited(p) ==
    /\ pc[p] = "wait" /\ ~Alive(p)
    /\ mu = None
    /\ tunnelCmd' = IF tunnelCmd = p THEN None ELSE tunnelCmd
    /\ pc' = [pc EXCEPT ![p] = IF stopped THEN "idle" ELSE "stopSSH"]
    /\ UNCHANGED <<sshEnabled, mu, sshCmd, stopped, tunnelPort, askpassVars,
                   procVars, localVars, failed>>

\* Mutant of SSHExited: tm.sshCmd keeps pointing at the dead process.
SSHExitedKeepCmd(p) ==
    /\ pc[p] = "wait" /\ ~Alive(p)
    /\ mu = None
    /\ pc' = [pc EXCEPT ![p] = IF stopped THEN "idle" ELSE "pause"]
    /\ UNCHANGED <<sshEnabled, mu, cmdVars, askpassVars, procVars, localVars,
                   failed>>

\* cmd.Wait returns in monitorSSH.
SSHExited(p) ==
    /\ pc[p] = "wait" /\ ~Alive(p)
    /\ mu = None
    /\ sshCmd' = IF sshCmd = p THEN None ELSE sshCmd
    /\ pc' = [pc EXCEPT ![p] = IF stopped THEN "idle" ELSE "pause"]
    /\ UNCHANGED <<sshEnabled, mu, tunnelCmd, stopped, tunnelPort, askpassVars,
                   procVars, localVars, failed>>

\* SIGTERM to p if it is there to receive it.
Terminate(p) == proc' = IF p # None /\ Alive(p) /\ proc[p] = "running"
                        THEN [proc EXCEPT ![p] = "term"] ELSE proc

\* stopSSH: the pointer is read under the lock.
StopSSH(g) ==
    /\ pc[g] = "stopSSH"
    /\ mu = None
    /\ Terminate(sshCmd)
    /\ victim' = [victim EXCEPT ![g] = sshCmd]
    /\ pc' = [pc EXCEPT ![g] = "stopping"]
    /\ UNCHANGED <<sshEnabled, mu, cmdVars, askpassVars, via, stopTunnel,
                   failed>>

\* The victim has exited, or is killed when the timer fires; nobody waits then.
AwaitVictim(g, next) ==
    /\ \/ victim[g] = None /\ UNCHANGED proc
       \/ victim[g] # None /\ ~Alive(victim[g]) /\ UNCHANGED proc
       \/ /\ victim[g] # None /\ Alive(victim[g])
          /\ proc' = [proc EXCEPT ![victim[g]] = "kill"]
    /\ pc' = [pc EXCEPT ![g] = next]
    /\ UNCHANGED <<sshEnabled, mu, cmdVars, askpassVars, via, failed>>

SSHStopped(p) ==
    /\ pc[p] = "stopping"
    /\ AwaitVictim(p, "pause")
    /\ victim' = [victim EXCEPT ![p] = None]
    /\ UNCHANGED stopTunnel

\* monitorTunnel after its pause.
RestartTunnel(p) ==
    /\ pc[p] = "pause"
    /\ mu = None
    /\ IF stopped \/ tunnelCmd # None
       THEN /\ pc' = [pc EXCEPT ![p] = "idle"]
            /\ UNCHANGED <<mu, cmdVars, askpassVars, procVars, failed>>
       ELSE StartLocked(p) \/ StartLockedFails(p)
    /\ UNCHANGED <<sshEnabled, localVars>>

\* Mutant of RestartSSH: tm.stopped is not checked again after the pause.
RestartSSHStopped(p) ==
    /\ pc[p] = "pause"
    /\ mu = None
    /\ IF sshCmd # None \/ tunnelCmd = None
       THEN /\ pc' = [pc EXCEPT ![p] = "idle"]
            /\ UNCHANGED <<cmdVars, askpassVars, procVars, failed>>
       ELSE StartSSH(p) \/ StartSSHFails(p)
    /\ UNCHANGED <<sshEnabled, mu, localVars>>

\* monitorSSH after its pause.
RestartSSH(p) ==
    /\ pc[p] = "pause"
    /\ mu = None
    /\ IF stopped \/ sshCmd # None \/ tunnelCmd = None
       THEN /\ pc' = [pc EXCEPT ![p] = "idle"]
            /\ UNCHANGED <<cmdVars, askpassVars, procVars, failed>>
       ELSE StartSSH(p) \/ StartSSHFails(p)
    /\ UNCHANGED <<sshEnabled, mu, localVars>>

MonitorTunnel(p) ==
    TunnelExited(p) \/ StopSSH(p) \/ SSHStopped(p) \/ RestartTunnel(p)

MonitorSSH(p) == SSHExited(p) \/ RestartSSH(p)

-----------------------------------------------------------------------------
(* Stop.                                                                   *)

\* SIGINT or SIGTERM reaches runTunnelMode, which calls Stop.
Signal ==
    /\ pc[Main] = "serve"
    /\ pc' = [pc EXCEPT ![Main] = "stop"]
    /\ UNCHANGED <<sshEnabled, mu, cmdVars, askpassVars, procVars, localVars,
                   failed>>

\* The critical section of Stop, and SIGTERM to ssh.
StopBegin ==
    /\ pc[Main] = "stop"
    /\ mu = None
    /\ stopped' = TRUE
    /\ victim' = [victim EXCEPT ![Main] = sshCmd]
    /\ stopTunnel' = tunnelCmd
    /\ Terminate(sshCmd)
    /\ pc' = [pc EXCEPT ![Main] = "stopping ssh"]
    /\ UNCHANGED <<sshEnabled, mu, tunnelCmd, sshCmd, tunnelPort, askpassVars,
                   via, failed>>

StopSSHDone ==
    /\ pc[Main] = "stopping ssh"
    /\ AwaitVictim(Main, "stop tunnel")
    /\ victim' = [victim EXCEPT ![Main] = stopTunnel]
    /\ stopTunnel' = None

StopTunnel ==
    /\ pc[Main] = "stop tunnel"
    /\ Terminate(victim[Main])
    /\ pc' = [pc EXCEPT ![Main] = "stopping tunnel"]
    /\ UNCHANGED <<sshEnabled, mu, cmdVars, askpassVars, via, localVars,
                   failed>>

StopTunnelDone ==
    /\ pc[Main] = "stopping tunnel"
    /\ AwaitVictim(Main, "cleanup")
    /\ victim' = [victim EXCEPT ![Main] = None]
    /\ UNCHANGED stopTunnel

\* os.Remove, if a script was written.
Cleanup ==
    /\ pc[Main] = "cleanup"
    /\ askpassFile' = (askpassFile /\ ~askpassPath)
    /\ pc' = [pc EXCEPT ![Main] = "stopped"]
    /\ UNCHANGED <<sshEnabled, mu, cmdVars, askpassPath, procVars, localVars,
                   failed>>

Stop == StopBegin \/ StopSSHDone \/ StopTunnel \/ StopTunnelDone \/ Cleanup

-----------------------------------------------------------------------------
\* A process exits, on its own or because of a signal.
Exit(p) ==
    /\ Alive(p)
    /\ proc' = [proc EXCEPT ![p] = "gone"]
    /\ via' = [s \in Ssh |-> IF s = p THEN None ELSE via[s]]
    /\ UNCHANGED <<sshEnabled, mu, cmdVars, askpassVars, pc, localVars, failed>>

TunnelInit ==
    /\ sshEnabled \in BOOLEAN
    /\ mu = None
    /\ tunnelCmd = None /\ sshCmd = None
    /\ stopped = FALSE
    /\ tunnelPort = None
    /\ askpassPath = FALSE /\ askpassFile = FALSE
    /\ proc = [p \in Proc |-> "gone"]
    /\ via = [p \in Ssh |-> None]
    /\ pc = [g \in Goroutine |-> IF g = Main THEN "start" ELSE "idle"]
    /\ victim = [g \in Goroutine |-> None]
    /\ stopTunnel = None
    /\ failed = {}

\* What goroutine g does next; os.Exit ends all of them.
GoStep(g) ==
    /\ pc[Main] # "exited"
    /\ \/ PortOpens(g)
       \/ PortTimesOut(g)
       \/ g \in Slipnet /\ MonitorTunnel(g)
       \/ g \in Ssh /\ MonitorSSH(g)
       \/ g = Main /\ (Start \/ Stop)

TunnelNext ==
    \/ \E g \in Goroutine : GoStep(g)
    \/ Signal
    \/ \E p \in Proc : Exit(p)

TunnelSpec == TunnelInit /\ [][TunnelNext]_tmVars

\* Goroutines run, get the lock they wait for in the end, and wait no longer
\* than their timers; SIGKILL takes effect.  Nothing else makes a process exit,
\* nothing makes a signal come.
TunnelFairness ==
    /\ \A g \in Goroutine : SF_tmVars(GoStep(g))
    /\ \A p \in Proc : WF_tmVars(proc[p] = "kill" /\ Exit(p))

FairTunnelSpec == TunnelSpec /\ TunnelFairness

-----------------------------------------------------------------------------
(* Properties.                                                             *)

MonitorLabel == {"idle", "wait", "stopSSH", "stopping", "pause", "waitForPort"}
MainLabel == {"start", "waitForPort", "serve", "stop", "stopping ssh", "stop tunnel",
              "stopping tunnel", "cleanup", "stopped", "exited"}

\* Every variable of the tunnel manager has its type, and tm.mu is held between
\* steps by exactly the goroutine that waits for the port in startWithSSH.
TunnelTypeOK ==
    /\ sshEnabled \in BOOLEAN /\ stopped \in BOOLEAN
    /\ tunnelCmd \in Slipnet \cup {None} /\ sshCmd \in Ssh \cup {None}
    /\ tunnelPort \in Slipnet \cup {None}
    /\ askpassPath \in BOOLEAN /\ askpassFile \in BOOLEAN
    /\ proc \in [Proc -> {"gone", "running", "term", "kill"}]
    /\ via \in [Ssh -> Slipnet \cup {None}]
    /\ pc \in [Goroutine -> MonitorLabel \cup MainLabel]
    /\ pc[Main] \in MainLabel
    /\ \A p \in Slipnet : pc[p] \in MonitorLabel
    /\ \A p \in Ssh : pc[p] \in {"idle", "wait", "pause"}
    /\ victim \in [Goroutine -> Proc \cup {None}]
    /\ stopTunnel \in Slipnet \cup {None}
    /\ failed \subseteq {"slipnet", "ssh"}
    /\ mu \in Goroutine \cup {None}
    /\ \A g \in Goroutine : pc[g] = "waitForPort" <=> mu = g

Gone(p) == proc[p] \in {"gone", "kill"}

\* When Stop has returned, nothing the manager ever started is left running
\* undisturbed, whatever monitors were restarting it meanwhile, and the script
\* that holds the password has been removed (tunnel.go:397).  A script that could
\* not be written in full is outside this: the manager never learns its name.
StopLeavesNothing ==
    pc[Main] = "stopped" =>
        /\ \A p \in Proc : Gone(p)
        /\ ~(askpassPath /\ askpassFile)

\* However crashes of the two processes and their restarts interleave, at most
\* one slipnet and one ssh are left to run, each is the one the manager points at,
\* and that ssh goes through the port of the latest tunnel (tunnel.go:218).
OneChain ==
    /\ \A p \in Slipnet : proc[p] = "running" => p = tunnelCmd
    /\ \A p \in Ssh : proc[p] = "running" => p = sshCmd /\ via[p] = tunnelPort

\* A tunnel that exited comes back until the program is stopped, unless the
\* attempt to start it fails: that is not tried again (tunnel.go:229).
TunnelComesBack ==
    (pc[Main] = "serve" /\ \A p \in Slipnet : ~Alive(p))
        ~> (pc[Main] # "serve" \/ "slipnet" \in failed \/ \E p \in Slipnet : Alive(p))

\* The same for ssh, where the attempt also fails if the port does not open
\* in time (tunnel.go:134).
SSHComesBack ==
    (pc[Main] = "serve" /\ sshEnabled /\ \A p \in Ssh : ~Alive(p))
        ~> (pc[Main] # "serve" \/ failed # {} \/ \E p \in Ssh : Alive(p))

\* Stop returns, although it may find a monitor waiting for the port under the
\* lock and processes that ignore SIGTERM (tunnel.go:398).
StopEnds == pc[Main] = "stop" ~> pc[Main] = "stopped"
=============================================================================
