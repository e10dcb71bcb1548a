------------------------- MODULE TunnelManagerProofs ------------------------
(***************************************************************************)
(* Proofs about the tunnel manager, for any numbers of processes and of    *)
(* restarts: the processes form one chain, and Stop leaves nothing behind. *)
(***************************************************************************)
EXTENDS TunnelManager, TLAPS

-----------------------------------------------------------------------------
(* The inductive invariant.  First, monitors and pointers.                 *)

\* A process that is alive has its monitor waiting for it.
AliveIsWatched == \A p \in Proc : Alive(p) => pc[p] = "wait"

\* The pointers lead to processes that are waited for; slipnet has only one.
TunnelIsWatched == \A p \in Slipnet : pc[p] = "wait" <=> tunnelCmd = p
SSHIsWatched == \A s \in Ssh : sshCmd = s => pc[s] = "wait"

\* At most one monitor is about to restart slipnet, and only without a tunnel.
Restarting(p) == pc[p] \in {"stopSSH", "stopping", "pause"}
RestartsNone == \A p \in Slipnet : Restarting(p) => tunnelCmd = None
OneRestarts == \A p, q \in Slipnet : Restarting(p) /\ Restarting(q) => p = q

IdleBeforeStart == pc[Main] = "start" => \A p \in Proc : pc[p] = "idle"

(* Then, the chain.                                                        *)

\* An ssh process that has not been killed is the current one and uses the
\* current port.
SSHIsCurrent == \A s \in Ssh : ~Gone(s) => s = sshCmd
SSHUsesPort == \A s \in Ssh : proc[s] = "running" => via[s] = tunnelPort

\* monitorTunnel stops it, and there is none until the next port has opened.
SSHIsStopped == \A p \in Slipnet, s \in Ssh :
                   pc[p] = "stopping" /\ ~Gone(s) => proc[s] = "term" /\ victim[p] = s
PauseWithoutSSH == \A p \in Slipnet, s \in Ssh : pc[p] = "pause" => Gone(s)
LockWithoutSSH == mu # None => tunnelCmd # None /\ \A s \in Ssh : Gone(s)

(* Last, what is left at each point of Stop.                               *)

StopLabel == {"stopping ssh", "stop tunnel", "stopping tunnel", "cleanup", "stopped"}

StopIsFlagged == stopped <=> pc[Main] \in StopLabel
StopUnlocked == stopped => mu = None
StopsSSH == pc[Main] = "stopping ssh" => \A s \in Ssh : ~Gone(s) => s = victim[Main]
StopsTunnel == pc[Main] = "stopping ssh" => \A p \in Slipnet : ~Gone(p) => p = stopTunnel
SSHStoppedFirst ==
    pc[Main] \in {"stop tunnel", "stopping tunnel"} => \A s \in Ssh : Gone(s)
TunnelStoppedNext ==
    pc[Main] \in {"stop tunnel", "stopping tunnel"} =>
        \A p \in Slipnet : ~Gone(p) => p = victim[Main]
AllStopped == pc[Main] \in {"cleanup", "stopped"} => \A p \in Proc : Gone(p)
ScriptRemoved == pc[Main] = "stopped" => ~(askpassPath /\ askpassFile)

MonitorInv ==
    /\ AliveIsWatched /\ TunnelIsWatched /\ SSHIsWatched
    /\ RestartsNone /\ OneRestarts /\ IdleBeforeStart

ChainInv ==
    /\ SSHIsCurrent /\ SSHUsesPort
    /\ SSHIsStopped /\ PauseWithoutSSH /\ LockWithoutSSH

StopInv ==
    /\ StopIsFlagged /\ StopUnlocked
    /\ StopsSSH /\ StopsTunnel /\ SSHStoppedFirst /\ TunnelStoppedNext
    /\ AllStopped /\ ScriptRemoved

TunnelInv == TunnelTypeOK /\ MonitorInv /\ ChainInv /\ StopInv

\* A goroutine that moves on changes its own label only.
LEMMA OneMoves ==
    ASSUME NEW G, NEW L, NEW f \in [G -> L], NEW g \in G, NEW l \in L,
           NEW f1, f1 = [f EXCEPT ![g] = l]
    PROVE  /\ f1 \in [G -> L] /\ f1[g] = l
           /\ \A x \in G : x # g => f1[x] = f[x]
OBVIOUS

\* The parts of TunnelTypeOK that are proved one by one.
FlagsTyped ==
    /\ sshEnabled \in BOOLEAN /\ stopped \in BOOLEAN
    /\ askpassPath \in BOOLEAN /\ askpassFile \in BOOLEAN

LabelsTyped ==
    /\ pc \in [Goroutine -> MonitorLabel \cup MainLabel]
    /\ pc[Main] \in MainLabel
    /\ \A p \in Slipnet : pc[p] \in MonitorLabel
    /\ \A p \in Ssh : pc[p] \in {"idle", "wait", "pause"}
    /\ mu \in Goroutine \cup {None}
    /\ \A g \in Goroutine : pc[g] = "waitForPort" <=> mu = g

PointersTyped ==
    /\ tunnelCmd \in Slipnet \cup {None} /\ sshCmd \in Ssh \cup {None}
    /\ tunnelPort \in Slipnet \cup {None} /\ stopTunnel \in Slipnet \cup {None}
    /\ via \in [Ssh -> Slipnet \cup {None}]
    /\ victim \in [Goroutine -> Proc \cup {None}]
    /\ failed \subseteq {"slipnet", "ssh"}
    /\ proc \in [Proc -> {"gone", "running", "term", "kill"}]

\* Where startLocked is called from.
Starter == mu = None /\ tunnelCmd = None /\ ~stopped
StarterAt(g) == pc[g] = IF g = Main THEN "start" ELSE "pause"

\* Where startSSH is called from.
SSHStarter(g) ==
    /\ tunnelCmd # None /\ ~stopped
    /\ \A s \in Ssh : Gone(s)
    /\ \/ g \in Slipnet \cup {Main} /\ pc[g] = "waitForPort" /\ mu = g
       \/ g \in Ssh /\ pc[g] = "pause" /\ mu = None

-----------------------------------------------------------------------------
\* The manager starts with no process and nothing to stop (tunnel.go:50).
LEMMA InitTunnelInv == TunnelInit => TunnelInv
<1> SUFFICES ASSUME TunnelInit PROVE TunnelInv
  OBVIOUS
<1> USE TunnelAssumption DEF TunnelInit, Proc, Goroutine
<1>1. TunnelTypeOK
  BY DEF TunnelTypeOK, MonitorLabel, MainLabel
<1>2. MonitorInv
  BY DEF MonitorInv, AliveIsWatched, TunnelIsWatched, SSHIsWatched, RestartsNone,
         OneRestarts, IdleBeforeStart, Alive, Restarting
<1>3. ChainInv
  BY DEF ChainInv, SSHIsCurrent, SSHUsesPort, SSHIsStopped, PauseWithoutSSH,
         LockWithoutSSH, Gone
<1>4. StopInv
  BY DEF StopInv, StopIsFlagged, StopUnlocked, StopsSSH, StopsTunnel, SSHStoppedFirst,
         TunnelStoppedNext, AllStopped, ScriptRemoved, StopLabel
<1> QED
  BY <1>1, <1>2, <1>3, <1>4 DEF TunnelInv

\* The port does not open in time (tunnel.go:134).
LEMMA PortTimesOutInv ==
    ASSUME TunnelInv, NEW g \in Goroutine, PortTimesOut(g)
    PROVE  TunnelInv'
<1> USE TunnelAssumption DEF Proc, Goroutine
<1>1. TunnelTypeOK /\ MonitorInv /\ ChainInv /\ StopInv
  BY DEF TunnelInv
<1>2. /\ g = Main => ReturnedError(g) = "exited"
      /\ g # Main => ReturnedError(g) = "idle"
  BY DEF ReturnedError
<1>3. g \in Slipnet \cup {Main} /\ pc[g] = "waitForPort" /\ mu = g
  BY <1>1 DEF TunnelTypeOK, MonitorLabel, MainLabel, PortTimesOut
<1>4. pc' = [pc EXCEPT ![g] = ReturnedError(g)]
  BY DEF PortTimesOut
<1>5. pc' \in [Goroutine -> MonitorLabel \cup MainLabel]
  BY <1>1, <1>2, <1>3, <1>4 DEF TunnelTypeOK, MonitorLabel, MainLabel
<1>6. /\ IF g = Main THEN pc'[Main] = "exited" ELSE pc'[Main] = pc[Main]
      /\ \A x \in Slipnet : pc'[x] = IF x = g THEN "idle" ELSE pc[x]
      /\ \A x \in Ssh : pc'[x] = pc[x]
  BY <1>1, <1>2, <1>3, <1>5, <1>4 DEF TunnelTypeOK
<1>7. UNCHANGED <<sshEnabled, tunnelCmd, sshCmd, stopped, tunnelPort,
                 askpassPath, askpassFile, proc, via, victim,
                 stopTunnel>>
  BY DEF PortTimesOut, cmdVars, askpassVars, procVars, localVars
<1>8. failed' = failed \cup {"ssh"} /\ mu' = None
  BY DEF PortTimesOut
<1>9. TunnelTypeOK'
  <2>1. FlagsTyped'
    BY <1>1, <1>7 DEF TunnelTypeOK, FlagsTyped
  <2>2. LabelsTyped'
    BY <1>1, <1>2, <1>3, <1>5, <1>6, <1>7, <1>8 DEF TunnelTypeOK, LabelsTyped,
       MonitorLabel, MainLabel
  <2>3. PointersTyped'
    BY <1>1, <1>7, <1>8 DEF TunnelTypeOK, PointersTyped
  <2> QED
    BY <2>1, <2>2, <2>3 DEF TunnelTypeOK, FlagsTyped, LabelsTyped, PointersTyped
<1>10. MonitorInv'
  BY <1>1, <1>2, <1>3, <1>5, <1>6, <1>7 DEF MonitorInv, AliveIsWatched, Alive,
     TunnelIsWatched, SSHIsWatched, RestartsNone, Restarting, OneRestarts,
     IdleBeforeStart
<1>11. ChainInv'
  BY <1>1, <1>2, <1>3, <1>5, <1>6, <1>7, <1>8 DEF ChainInv, SSHIsCurrent, Gone,
     SSHUsesPort, SSHIsStopped, PauseWithoutSSH, LockWithoutSSH
<1>12. StopInv'
  BY <1>1, <1>2, <1>3, <1>5, <1>6, <1>7, <1>8 DEF StopInv, StopIsFlagged,
     StopLabel, StopUnlocked, StopsSSH, Gone, StopsTunnel, SSHStoppedFirst,
     TunnelStoppedNext, AllStopped, ScriptRemoved
<1> QED
  BY <1>9, <1>10, <1>11, <1>12 DEF TunnelInv

\* slipnet exits (tunnel.go:205).
LEMMA TunnelExitedInv ==
    ASSUME TunnelInv, NEW p \in Slipnet, TunnelExited(p)
    PROVE  TunnelInv'
<1> USE TunnelAssumption DEF Proc, Goroutine
<1>1. TunnelTypeOK /\ MonitorInv /\ ChainInv /\ StopInv
  BY DEF TunnelInv
<1>2. /\ pc[p] = "wait" /\ ~Alive(p) /\ mu = None
      /\ tunnelCmd = p /\ tunnelCmd' = None
  BY <1>1 DEF TunnelExited, MonitorInv, TunnelIsWatched
<1>3. pc' = [pc EXCEPT ![p] = IF stopped THEN "idle" ELSE "stopSSH"]
  BY DEF TunnelExited
<1>4. /\ pc' \in [Goroutine -> MonitorLabel \cup MainLabel]
      /\ pc'[p] \in {"idle", "stopSSH"}
      /\ \A x \in Slipnet : x # p => pc'[x] = pc[x]
      /\ \A x \in Ssh \cup {Main} : pc'[x] = pc[x]
  <2>1. pc \in [Goroutine -> MonitorLabel \cup MainLabel] /\ p \in Goroutine
    BY <1>1 DEF TunnelTypeOK
  <2>2. (IF stopped THEN "idle" ELSE "stopSSH") \in MonitorLabel \cup MainLabel
    BY DEF MonitorLabel
  <2>3. /\ pc' \in [Goroutine -> MonitorLabel \cup MainLabel]
        /\ pc'[p] = IF stopped THEN "idle" ELSE "stopSSH"
        /\ \A x \in Goroutine : x # p => pc'[x] = pc[x]
    BY <1>3, <2>1, <2>2, OneMoves
  <2> QED
    BY <2>3
<1>5. UNCHANGED <<sshEnabled, mu, sshCmd, stopped, tunnelPort, askpassPath,
                 askpassFile, proc, via, victim, stopTunnel, failed>>
  BY DEF TunnelExited, cmdVars, askpassVars, procVars, localVars
<1>6. TunnelTypeOK'
  BY <1>1, <1>2, <1>3, <1>4, <1>5 DEF TunnelTypeOK, MonitorLabel, MainLabel
<1>7. MonitorInv'
  BY <1>1, <1>2, <1>3, <1>4, <1>5 DEF MonitorInv, AliveIsWatched, Alive,
     TunnelIsWatched, SSHIsWatched, RestartsNone, Restarting, OneRestarts,
     IdleBeforeStart
<1>8. ChainInv'
  BY <1>1, <1>2, <1>3, <1>4, <1>5 DEF ChainInv, SSHIsCurrent, Gone, SSHUsesPort,
     SSHIsStopped, PauseWithoutSSH, LockWithoutSSH
<1>9. StopInv'
  BY <1>1, <1>2, <1>3, <1>4, <1>5 DEF StopInv, StopIsFlagged, StopLabel,
     StopUnlocked, StopsSSH, Gone, StopsTunnel, SSHStoppedFirst,
     TunnelStoppedNext, AllStopped, ScriptRemoved
<1> QED
  BY <1>6, <1>7, <1>8, <1>9 DEF TunnelInv

\* ssh exits (tunnel.go:235).
LEMMA SSHExitedInv ==
    ASSUME TunnelInv, NEW p \in Ssh, SSHExited(p)
    PROVE  TunnelInv'
<1> USE TunnelAssumption DEF Proc, Goroutine
<1>1. TunnelTypeOK /\ MonitorInv /\ ChainInv /\ StopInv
  BY DEF TunnelInv
<1>2. /\ pc[p] = "wait" /\ proc[p] = "gone" /\ mu = None
      /\ sshCmd' = IF sshCmd = p THEN None ELSE sshCmd
  BY DEF SSHExited, Alive
<1>3. pc' = [pc EXCEPT ![p] = IF stopped THEN "idle" ELSE "pause"]
  BY DEF SSHExited
<1>4. /\ pc' \in [Goroutine -> MonitorLabel \cup MainLabel]
      /\ pc'[p] \in {"idle", "pause"}
      /\ \A x \in Ssh : x # p => pc'[x] = pc[x]
      /\ \A x \in Slipnet \cup {Main} : pc'[x] = pc[x]
  <2>1. pc \in [Goroutine -> MonitorLabel \cup MainLabel] /\ p \in Goroutine
    BY <1>1 DEF TunnelTypeOK
  <2>2. (IF stopped THEN "idle" ELSE "pause") \in MonitorLabel \cup MainLabel
    BY DEF MonitorLabel
  <2>3. /\ pc' \in [Goroutine -> MonitorLabel \cup MainLabel]
        /\ pc'[p] = IF stopped THEN "idle" ELSE "pause"
        /\ \A x \in Goroutine : x # p => pc'[x] = pc[x]
    BY <1>3, <2>1, <2>2, OneMoves
  <2> QED
    BY <2>3
<1>5. UNCHANGED <<sshEnabled, mu, tunnelCmd, stopped, tunnelPort, askpassPath,
                 askpassFile, proc, via, victim, stopTunnel, failed>>
  BY DEF SSHExited, cmdVars, askpassVars, procVars, localVars
<1>6. TunnelTypeOK'
  <2>1. FlagsTyped'
    BY <1>1, <1>5 DEF TunnelTypeOK, FlagsTyped
  <2>2. LabelsTyped'
    BY <1>1, <1>2, <1>4, <1>5 DEF TunnelTypeOK, LabelsTyped, MonitorLabel,
       MainLabel
  <2>3. PointersTyped'
    BY <1>1, <1>2, <1>5 DEF TunnelTypeOK, PointersTyped
  <2> QED
    BY <2>1, <2>2, <2>3 DEF TunnelTypeOK, FlagsTyped, LabelsTyped, PointersTyped
<1>7. MonitorInv'
  BY <1>1, <1>2, <1>4, <1>5 DEF MonitorInv, AliveIsWatched, Alive,
     TunnelIsWatched, SSHIsWatched, RestartsNone, Restarting, OneRestarts,
     IdleBeforeStart
<1>8. ChainInv'
  BY <1>1, <1>2, <1>4, <1>5 DEF ChainInv, SSHIsCurrent, Gone, SSHUsesPort,
     SSHIsStopped, PauseWithoutSSH, LockWithoutSSH
<1>9. StopInv'
  BY <1>1, <1>2, <1>4, <1>5 DEF StopInv, StopIsFlagged, StopLabel, StopUnlocked,
     StopsSSH, Gone, StopsTunnel, SSHStoppedFirst, TunnelStoppedNext,
     AllStopped, ScriptRemoved
<1> QED
  BY <1>6, <1>7, <1>8, <1>9 DEF TunnelInv

\* A process exits.
LEMMA ExitInv ==
    ASSUME TunnelInv, NEW p \in Proc, Exit(p)
    PROVE  TunnelInv'
<1> USE TunnelAssumption DEF Proc, Goroutine
<1>1. TunnelTypeOK /\ MonitorInv /\ ChainInv /\ StopInv
  BY DEF TunnelInv
<1>2. /\ proc' \in [Proc -> {"gone", "running", "term", "kill"}]
      /\ \A x \in Proc : proc'[x] = proc[x] \/ proc'[x] = "gone"
  BY <1>1 DEF TunnelTypeOK, Exit
<1>3. /\ via' \in [Ssh -> Slipnet \cup {None}]
      /\ \A s \in Ssh : proc'[s] # "gone" => via'[s] = via[s]
  BY <1>1 DEF TunnelTypeOK, Exit
<1>4. UNCHANGED <<sshEnabled, mu, tunnelCmd, sshCmd, stopped, tunnelPort,
                 askpassPath, askpassFile, pc, victim, stopTunnel,
                 failed>>
  BY DEF Exit, cmdVars, askpassVars, procVars, localVars
<1>5. TunnelTypeOK'
  <2>1. FlagsTyped'
    BY <1>1, <1>4 DEF TunnelTypeOK, FlagsTyped
  <2>2. LabelsTyped'
    BY <1>1, <1>4 DEF TunnelTypeOK, LabelsTyped, MonitorLabel, MainLabel
  <2>3. PointersTyped'
    BY <1>1, <1>2, <1>3, <1>4 DEF TunnelTypeOK, PointersTyped
  <2> QED
    BY <2>1, <2>2, <2>3 DEF TunnelTypeOK, FlagsTyped, LabelsTyped, PointersTyped
<1>6. MonitorInv'
  BY <1>1, <1>2, <1>4 DEF MonitorInv, AliveIsWatched, Alive, TunnelIsWatched,
     SSHIsWatched, RestartsNone, Restarting, OneRestarts, IdleBeforeStart
<1>7. ChainInv'
  BY <1>1, <1>2, <1>3, <1>4 DEF ChainInv, SSHIsCurrent, Gone, SSHUsesPort,
     SSHIsStopped, PauseWithoutSSH, LockWithoutSSH
<1>8. StopInv'
  BY <1>1, <1>2, <1>4 DEF StopInv, StopIsFlagged, StopLabel, StopUnlocked,
     StopsSSH, Gone, StopsTunnel, SSHStoppedFirst, TunnelStoppedNext,
     AllStopped, ScriptRemoved
<1> QED
  BY <1>5, <1>6, <1>7, <1>8 DEF TunnelInv

\* A start that fails (tunnel.go:92).
LEMMA StartLockedFailsInv ==
    ASSUME TunnelInv, Starter, NEW g \in Slipnet \cup {Main}, StarterAt(g),
           StartLockedFails(g), UNCHANGED <<sshEnabled, localVars>>
    PROVE  TunnelInv'
<1> USE TunnelAssumption DEF Proc, Goroutine
<1>1. TunnelTypeOK /\ MonitorInv /\ ChainInv /\ StopInv
  BY DEF TunnelInv
<1>2. /\ g = Main => ReturnedError(g) = "exited"
      /\ g # Main => ReturnedError(g) = "idle"
  BY DEF ReturnedError
<1>3. /\ mu = None /\ tunnelCmd = None
      /\ g = Main => pc[g] = "start"
      /\ g # Main => pc[g] = "pause"
  BY DEF Starter, StarterAt
<1>4. /\ pc' \in [Goroutine -> MonitorLabel \cup MainLabel]
      /\ IF g = Main THEN pc'[Main] = "exited" ELSE pc'[Main] = pc[Main]
      /\ \A x \in Slipnet : pc'[x] = IF x = g THEN "idle" ELSE pc[x]
      /\ \A x \in Ssh : pc'[x] = pc[x]
  <2>1. pc \in [Goroutine -> MonitorLabel \cup MainLabel] /\ g \in Goroutine
    BY <1>1 DEF TunnelTypeOK
  <2>2. ReturnedError(g) \in MonitorLabel \cup MainLabel
    BY <1>2 DEF MonitorLabel, MainLabel
  <2>3. pc' = [pc EXCEPT ![g] = ReturnedError(g)]
    BY DEF StartLockedFails
  <2>4. /\ pc' \in [Goroutine -> MonitorLabel \cup MainLabel]
        /\ pc'[g] = ReturnedError(g)
        /\ \A x \in Goroutine : x # g => pc'[x] = pc[x]
    BY <2>1, <2>2, <2>3, OneMoves
  <2> QED
    BY <1>2, <2>4
<1>5. UNCHANGED <<sshEnabled, mu, tunnelCmd, sshCmd, stopped, askpassPath,
                 askpassFile, proc, via, victim, stopTunnel>>
  BY DEF StartLockedFails, cmdVars, askpassVars, procVars, localVars
<1>6. failed' = {"slipnet"} /\ tunnelPort' \in {tunnelPort, None}
  BY DEF StartLockedFails
<1>7. \A s \in Ssh : Gone(s)
  BY <1>1, <1>2, <1>3, <1>4 DEF TunnelTypeOK, MonitorInv, AliveIsWatched,
     IdleBeforeStart, ChainInv, PauseWithoutSSH, Alive, Gone
<1>8. TunnelTypeOK'
  <2>1. FlagsTyped'
    BY <1>1, <1>5 DEF TunnelTypeOK, FlagsTyped
  <2>2. LabelsTyped'
    BY <1>1, <1>2, <1>3, <1>4, <1>5 DEF TunnelTypeOK, LabelsTyped, MonitorLabel,
       MainLabel
  <2>3. PointersTyped'
    BY <1>1, <1>5, <1>6, <1>7 DEF TunnelTypeOK, PointersTyped
  <2> QED
    BY <2>1, <2>2, <2>3 DEF TunnelTypeOK, FlagsTyped, LabelsTyped, PointersTyped
<1>9. MonitorInv'
  BY <1>1, <1>2, <1>3, <1>4, <1>5, <1>7 DEF MonitorInv, AliveIsWatched, Alive,
     TunnelIsWatched, SSHIsWatched, RestartsNone, Restarting, OneRestarts,
     IdleBeforeStart
<1>10. ChainInv'
  BY <1>1, <1>2, <1>3, <1>4, <1>5, <1>6, <1>7 DEF ChainInv, SSHIsCurrent, Gone,
     SSHUsesPort, SSHIsStopped, PauseWithoutSSH, LockWithoutSSH
<1>11. StopInv'
  BY <1>1, <1>2, <1>3, <1>4, <1>5, <1>7 DEF StopInv, StopIsFlagged, StopLabel,
     StopUnlocked, StopsSSH, Gone, StopsTunnel, SSHStoppedFirst,
     TunnelStoppedNext, AllStopped, ScriptRemoved
<1> QED
  BY <1>8, <1>9, <1>10, <1>11 DEF TunnelInv

\* monitorTunnel tells ssh to exit (tunnel.go:380).
LEMMA StopSSHInv ==
    ASSUME TunnelInv, NEW p \in Slipnet, StopSSH(p)
    PROVE  TunnelInv'
<1> USE TunnelAssumption DEF Proc, Goroutine
<1>1. TunnelTypeOK /\ MonitorInv /\ ChainInv /\ StopInv
  BY DEF TunnelInv
<1>2. pc[p] = "stopSSH" /\ mu = None
  BY DEF StopSSH
<1>3. /\ pc' \in [Goroutine -> MonitorLabel \cup MainLabel]
      /\ pc'[p] = "stopping"
      /\ \A x \in Slipnet : x # p => pc'[x] = pc[x]
      /\ \A x \in Ssh \cup {Main} : pc'[x] = pc[x]
  BY <1>1, <1>2 DEF TunnelTypeOK, MonitorLabel, MainLabel, StopSSH
<1>4. /\ victim' \in [Goroutine -> Proc \cup {None}]
      /\ victim'[p] = sshCmd /\ victim'[Main] = victim[Main]
      /\ \A x \in Slipnet : x # p => victim'[x] = victim[x]
  BY <1>1 DEF TunnelTypeOK, StopSSH
<1>5. /\ proc' \in [Proc -> {"gone", "running", "term", "kill"}]
      /\ \A x \in Proc : proc'[x] = IF x = sshCmd /\ proc[x] = "running"
                                      THEN "term" ELSE proc[x]
  BY <1>1 DEF TunnelTypeOK, StopSSH, Terminate, Alive
<1>6. UNCHANGED <<sshEnabled, mu, tunnelCmd, sshCmd, stopped, tunnelPort,
                 askpassPath, askpassFile, via, stopTunnel, failed>>
  BY DEF StopSSH, cmdVars, askpassVars, procVars, localVars
<1>7. TunnelTypeOK'
  <2>1. FlagsTyped'
    BY <1>1, <1>6 DEF TunnelTypeOK, FlagsTyped
  <2>2. LabelsTyped'
    BY <1>1, <1>2, <1>3, <1>6 DEF TunnelTypeOK, LabelsTyped, MonitorLabel,
       MainLabel
  <2>3. PointersTyped'
    BY <1>1, <1>2, <1>4, <1>5, <1>6 DEF TunnelTypeOK, PointersTyped
  <2> QED
    BY <2>1, <2>2, <2>3 DEF TunnelTypeOK, FlagsTyped, LabelsTyped, PointersTyped
<1>8. MonitorInv'
  BY <1>1, <1>2, <1>3, <1>5, <1>6 DEF MonitorInv, AliveIsWatched, Alive,
     TunnelIsWatched, SSHIsWatched, RestartsNone, Restarting, OneRestarts,
     IdleBeforeStart
<1>9. ChainInv'
  BY <1>1, <1>2, <1>3, <1>4, <1>5, <1>6 DEF ChainInv, SSHIsCurrent, Gone,
     SSHUsesPort, SSHIsStopped, OneRestarts, Restarting, MonitorInv,
     PauseWithoutSSH, LockWithoutSSH
<1>10. StopInv'
  BY <1>1, <1>2, <1>3, <1>4, <1>5, <1>6 DEF StopInv, StopIsFlagged, StopLabel,
     StopUnlocked, StopsSSH, Gone, StopsTunnel, SSHStoppedFirst,
     TunnelStoppedNext, AllStopped, ScriptRemoved
<1> QED
  BY <1>7, <1>8, <1>9, <1>10 DEF TunnelInv

\* ssh has exited or is killed (tunnel.go:389).
LEMMA SSHStoppedInv ==
    ASSUME TunnelInv, NEW p \in Slipnet, SSHStopped(p)
    PROVE  TunnelInv'
<1> USE TunnelAssumption DEF Proc, Goroutine
<1>1. TunnelTypeOK /\ MonitorInv /\ ChainInv /\ StopInv
  BY DEF TunnelInv
<1>2. pc[p] = "stopping"
  BY DEF SSHStopped
<1>3. /\ pc' \in [Goroutine -> MonitorLabel \cup MainLabel]
      /\ pc'[p] = "pause"
      /\ \A x \in Slipnet : x # p => pc'[x] = pc[x]
      /\ \A x \in Ssh \cup {Main} : pc'[x] = pc[x]
  BY <1>1, <1>2 DEF TunnelTypeOK, MonitorLabel, MainLabel, SSHStopped,
     AwaitVictim
<1>4. /\ victim' \in [Goroutine -> Proc \cup {None}]
      /\ victim'[Main] = victim[Main]
      /\ \A x \in Slipnet : x # p => victim'[x] = victim[x]
  BY <1>1 DEF TunnelTypeOK, SSHStopped
<1>5. /\ proc' \in [Proc -> {"gone", "running", "term", "kill"}]
      /\ \A x \in Proc : IF x = victim[p] /\ proc[x] # "gone" THEN proc'[x] = "kill"
                        ELSE proc'[x] = proc[x]
  BY <1>1 DEF TunnelTypeOK, SSHStopped, AwaitVictim, Alive
<1>6. UNCHANGED <<sshEnabled, mu, tunnelCmd, sshCmd, stopped, tunnelPort,
                 askpassPath, askpassFile, via, stopTunnel, failed>>
  BY DEF SSHStopped, AwaitVictim, cmdVars, askpassVars, procVars, localVars
<1>7. TunnelTypeOK'
  <2>1. FlagsTyped'
    BY <1>1, <1>6 DEF TunnelTypeOK, FlagsTyped
  <2>2. LabelsTyped'
    BY <1>1, <1>2, <1>3, <1>6 DEF TunnelTypeOK, LabelsTyped, MonitorLabel,
       MainLabel
  <2>3. PointersTyped'
    BY <1>1, <1>4, <1>5, <1>6 DEF TunnelTypeOK, PointersTyped
  <2> QED
    BY <2>1, <2>2, <2>3 DEF TunnelTypeOK, FlagsTyped, LabelsTyped, PointersTyped
<1>8. MonitorInv'
  BY <1>1, <1>2, <1>3, <1>5, <1>6 DEF MonitorInv, AliveIsWatched, Alive,
     TunnelIsWatched, SSHIsWatched, RestartsNone, Restarting, OneRestarts,
     IdleBeforeStart
<1>9. ChainInv'
  BY <1>1, <1>2, <1>3, <1>4, <1>5, <1>6 DEF ChainInv, SSHIsCurrent, Gone,
     SSHUsesPort, SSHIsStopped, OneRestarts, Restarting, MonitorInv,
     PauseWithoutSSH, LockWithoutSSH
<1>10. StopInv'
  BY <1>1, <1>2, <1>3, <1>4, <1>5, <1>6 DEF StopInv, StopIsFlagged, StopLabel,
     StopUnlocked, StopsSSH, Gone, StopsTunnel, SSHStoppedFirst,
     TunnelStoppedNext, AllStopped, ScriptRemoved
<1> QED
  BY <1>7, <1>8, <1>9, <1>10 DEF TunnelInv

\* A start by runTunnelMode or by a monitor after its pause (tunnel.go:77).
LEMMA StartLockedInv ==
    ASSUME TunnelInv, Starter, NEW g \in Slipnet \cup {Main}, StarterAt(g),
           StartLocked(g), UNCHANGED <<sshEnabled, localVars>>
    PROVE  TunnelInv'
<1> USE TunnelAssumption DEF Proc, Goroutine
<1>1. TunnelTypeOK /\ MonitorInv /\ ChainInv /\ StopInv
  BY DEF TunnelInv
<1>2. /\ mu = None /\ tunnelCmd = None /\ ~stopped
      /\ g = Main => pc[g] = "start"
      /\ g # Main => pc[g] = "pause"
  BY DEF Starter, StarterAt
<1>3. PICK p \in Slipnet :
         /\ Fresh(p)
         /\ proc' = [proc EXCEPT ![p] = "running"]
         /\ tunnelCmd' = p
         /\ pc' = [pc EXCEPT ![p] = "wait",
                             ![g] = IF sshEnabled THEN "waitForPort" ELSE Returned(g)]
         /\ mu' = IF sshEnabled THEN g ELSE mu
         /\ tunnelPort' = IF sshEnabled THEN p ELSE tunnelPort
  BY DEF StartLocked
<1>4. p # g /\ pc[p] = "idle" /\ proc[p] = "gone"
  BY <1>3, <1>2 DEF Fresh, Alive
<1>5. /\ g = Main => pc'[g] \in {"waitForPort", "serve"}
      /\ g # Main => pc'[g] \in {"waitForPort", "idle"}
      /\ mu' = IF pc'[g] = "waitForPort" THEN g ELSE None
  BY <1>1, <1>3, <1>2, <1>4 DEF TunnelTypeOK, Returned
<1>6. pc' \in [Goroutine -> MonitorLabel \cup MainLabel]
  BY <1>1, <1>3 DEF TunnelTypeOK, MonitorLabel, MainLabel, Returned
<1>7. /\ pc'[p] = "wait"
      /\ \A x \in Slipnet \cup {Main} : x # p /\ x # g => pc'[x] = pc[x]
      /\ \A x \in Ssh : pc'[x] = pc[x]
  BY <1>1, <1>2, <1>4, <1>5, <1>6, <1>3 DEF TunnelTypeOK
<1>8. /\ proc' \in [Proc -> {"gone", "running", "term", "kill"}]
      /\ proc'[p] = "running"
      /\ \A x \in Proc : x # p => proc'[x] = proc[x]
  BY <1>1, <1>3 DEF TunnelTypeOK
<1>9. tunnelCmd' = p /\ tunnelPort' \in {p, tunnelPort}
  BY <1>3
<1>10. failed' = {}
  BY DEF StartLocked
<1>11. UNCHANGED <<sshEnabled, sshCmd, stopped, askpassPath, askpassFile, via,
                 victim, stopTunnel>>
  BY DEF StartLocked, cmdVars, askpassVars, procVars, localVars
<1>12. \A s \in Ssh : Gone(s) /\ Gone(s)'
  BY <1>1, <1>2, <1>4, <1>5, <1>6, <1>7, <1>8 DEF TunnelTypeOK, MonitorInv,
     AliveIsWatched, IdleBeforeStart, ChainInv, PauseWithoutSSH, Alive, Gone
<1>13. TunnelTypeOK'
  <2>1. FlagsTyped'
    BY <1>1, <1>2, <1>11 DEF TunnelTypeOK, FlagsTyped
  <2>2. LabelsTyped'
    <3>1. pc'[Main] \in MainLabel
      BY <1>1, <1>4, <1>5, <1>7 DEF TunnelTypeOK, MainLabel
    <3>2. \A x \in Slipnet : pc'[x] \in MonitorLabel
      BY <1>1, <1>5, <1>7 DEF TunnelTypeOK, MonitorLabel
    <3>3. \A x \in Ssh : pc'[x] \in {"idle", "wait", "pause"}
      BY <1>1, <1>7 DEF TunnelTypeOK
    <3>4. \A x \in Goroutine : x # g => pc'[x] # "waitForPort"
      BY <1>1, <1>2, <1>7 DEF TunnelTypeOK
    <3>5. /\ mu' \in Goroutine \cup {None}
          /\ \A x \in Goroutine : pc'[x] = "waitForPort" <=> mu' = x
      BY <1>5, <3>4
    <3> QED
      BY <1>6, <3>1, <3>2, <3>3, <3>5 DEF LabelsTyped
  <2>3. PointersTyped'
    BY <1>1, <1>2, <1>8, <1>9, <1>10, <1>11, <1>12 DEF TunnelTypeOK,
       PointersTyped
  <2> QED
    BY <2>1, <2>2, <2>3 DEF TunnelTypeOK, FlagsTyped, LabelsTyped, PointersTyped
<1>14. MonitorInv'
  BY <1>1, <1>2, <1>4, <1>5, <1>6, <1>7, <1>8, <1>9, <1>11, <1>12 DEF
     MonitorInv, AliveIsWatched, Alive, TunnelIsWatched, SSHIsWatched,
     RestartsNone, Restarting, OneRestarts, IdleBeforeStart
<1>15. ChainInv'
  BY <1>1, <1>2, <1>4, <1>5, <1>6, <1>7, <1>8, <1>9, <1>11, <1>12 DEF ChainInv,
     SSHIsCurrent, Gone, SSHUsesPort, SSHIsStopped, PauseWithoutSSH,
     LockWithoutSSH
<1>16. StopInv'
  BY <1>1, <1>2, <1>4, <1>5, <1>6, <1>7, <1>8, <1>11, <1>12 DEF StopInv,
     StopIsFlagged, StopLabel, StopUnlocked, StopsSSH, Gone, StopsTunnel,
     SSHStoppedFirst, TunnelStoppedNext, AllStopped, ScriptRemoved
<1> QED
  BY <1>13, <1>14, <1>15, <1>16 DEF TunnelInv

\* ssh is started, by startWithSSH or by monitorSSH (tunnel.go:146).
LEMMA StartSSHInv ==
    ASSUME TunnelInv, NEW g \in Goroutine, SSHStarter(g),
           UNCHANGED <<sshEnabled, localVars>>, mu' = None, StartSSH(g)
    PROVE  TunnelInv'
<1> USE TunnelAssumption DEF Proc, Goroutine
<1>1. TunnelTypeOK /\ MonitorInv /\ ChainInv /\ StopInv
  BY DEF TunnelInv
<1>2. /\ tunnelCmd # None /\ ~stopped /\ \A s \in Ssh : Gone(s)
      /\ \/ g \in Slipnet \cup {Main} /\ pc[g] = "waitForPort" /\ mu = g
         \/ g \in Ssh /\ pc[g] = "pause" /\ mu = None
  BY DEF SSHStarter
<1>3. PICK p \in Ssh :
         /\ Fresh(p)
         /\ proc' = [proc EXCEPT ![p] = "running"]
         /\ via' = [via EXCEPT ![p] = tunnelPort]
         /\ sshCmd' = p
         /\ pc' = [pc EXCEPT ![p] = "wait", ![g] = Returned(g)]
  BY DEF StartSSH
<1>4. p # g /\ pc[p] = "idle" /\ proc[p] = "gone"
  BY <1>3, <1>2 DEF Fresh, Alive
<1>5. /\ g = Main => pc'[g] = "serve"
      /\ g # Main => pc'[g] = "idle"
  BY <1>1, <1>3 DEF TunnelTypeOK, Returned
<1>6. pc' \in [Goroutine -> MonitorLabel \cup MainLabel]
  BY <1>1, <1>3 DEF TunnelTypeOK, MonitorLabel, MainLabel, Returned
<1>7. /\ pc'[p] = "wait"
      /\ \A x \in Goroutine : x # p /\ x # g => pc'[x] = pc[x]
  BY <1>1, <1>2, <1>4, <1>5, <1>6, <1>3 DEF TunnelTypeOK
<1>8. /\ pc'[Main] \in {pc[Main], "serve"}
      /\ \A x \in Slipnet : pc'[x] \in {pc[x], "idle"}
      /\ \A x \in Ssh : pc'[x] \in {pc[x], "idle", "wait"}
  BY <1>2, <1>4, <1>5, <1>6, <1>7
<1>9. /\ proc' \in [Proc -> {"gone", "running", "term", "kill"}]
      /\ proc'[p] = "running"
      /\ \A x \in Proc : x # p => proc'[x] = proc[x]
  BY <1>1, <1>3 DEF TunnelTypeOK
<1>10. /\ via' \in [Ssh -> Slipnet \cup {None}]
      /\ via'[p] = tunnelPort
      /\ \A x \in Ssh : x # p => via'[x] = via[x]
  BY <1>1, <1>3 DEF TunnelTypeOK
<1>11. sshCmd' = p
  BY <1>3
<1>12. failed' = failed \ {"ssh"}
  BY DEF StartSSH
<1>13. askpassPath' \in BOOLEAN /\ askpassFile' \in BOOLEAN
  BY <1>1 DEF TunnelTypeOK, StartSSH, WriteAskpass, askpassVars
<1>14. UNCHANGED <<sshEnabled, tunnelCmd, stopped, tunnelPort, victim,
                 stopTunnel>>
  BY DEF StartSSH, cmdVars, askpassVars, procVars, localVars
<1>15. TunnelTypeOK'
  <2>1. FlagsTyped'
    BY <1>1, <1>2, <1>13, <1>14 DEF TunnelTypeOK, FlagsTyped
  <2>2. LabelsTyped'
    BY <1>1, <1>2, <1>4, <1>5, <1>6, <1>7, <1>8, <1>14 DEF TunnelTypeOK,
       LabelsTyped, MonitorLabel, MainLabel
  <2>3. PointersTyped'
    BY <1>1, <1>2, <1>9, <1>10, <1>11, <1>12, <1>14 DEF TunnelTypeOK,
       PointersTyped
  <2> QED
    BY <2>1, <2>2, <2>3 DEF TunnelTypeOK, FlagsTyped, LabelsTyped, PointersTyped
<1>16. MonitorInv'
  BY <1>1, <1>2, <1>4, <1>5, <1>6, <1>7, <1>9, <1>11, <1>14 DEF MonitorInv,
     AliveIsWatched, Alive, TunnelIsWatched, SSHIsWatched, RestartsNone,
     Restarting, OneRestarts, IdleBeforeStart
<1>17. ChainInv'
  BY <1>1, <1>2, <1>4, <1>5, <1>6, <1>7, <1>9, <1>10, <1>11, <1>14 DEF ChainInv,
     SSHIsCurrent, Gone, SSHUsesPort, SSHIsStopped, RestartsNone, Restarting,
     MonitorInv, PauseWithoutSSH, LockWithoutSSH
<1>18. StopInv'
  BY <1>1, <1>2, <1>4, <1>5, <1>6, <1>7, <1>9, <1>13, <1>14 DEF StopInv,
     StopIsFlagged, StopLabel, StopUnlocked, StopsSSH, Gone, StopsTunnel,
     SSHStoppedFirst, TunnelStoppedNext, AllStopped, ScriptRemoved
<1> QED
  BY <1>15, <1>16, <1>17, <1>18 DEF TunnelInv

\* The script cannot be written or ssh not started (tunnel.go:173).
LEMMA StartSSHFailsInv ==
    ASSUME TunnelInv, NEW g \in Goroutine, SSHStarter(g),
           UNCHANGED <<sshEnabled, localVars>>, mu' = None, StartSSHFails(g)
    PROVE  TunnelInv'
<1> USE TunnelAssumption DEF Proc, Goroutine
<1>1. TunnelTypeOK /\ MonitorInv /\ ChainInv /\ StopInv
  BY DEF TunnelInv
<1>2. /\ tunnelCmd # None /\ ~stopped /\ \A s \in Ssh : Gone(s)
      /\ \/ g \in Slipnet \cup {Main} /\ pc[g] = "waitForPort" /\ mu = g
         \/ g \in Ssh /\ pc[g] = "pause" /\ mu = None
  BY DEF SSHStarter
<1>3. pc' = [pc EXCEPT ![g] = ReturnedError(g)]
  BY DEF StartSSHFails
<1>4. /\ g = Main => pc'[g] = "exited"
      /\ g # Main => pc'[g] = "idle"
  BY <1>1, <1>3 DEF TunnelTypeOK, ReturnedError
<1>5. pc' \in [Goroutine -> MonitorLabel \cup MainLabel]
  BY <1>1, <1>3 DEF TunnelTypeOK, MonitorLabel, MainLabel, ReturnedError
<1>6. \A x \in Goroutine : x # g => pc'[x] = pc[x]
  BY <1>1, <1>2, <1>4, <1>5, <1>3 DEF TunnelTypeOK
<1>7. /\ pc'[Main] \in {pc[Main], "exited"}
      /\ \A x \in Proc : pc'[x] \in {pc[x], "idle"}
  BY <1>2, <1>4, <1>5, <1>6
<1>8. failed' = failed \cup {"ssh"}
  BY DEF StartSSHFails
<1>9. askpassPath' \in BOOLEAN /\ askpassFile' \in BOOLEAN
  BY <1>1 DEF TunnelTypeOK, StartSSHFails, WriteAskpass, askpassVars
<1>10. UNCHANGED <<sshEnabled, tunnelCmd, sshCmd, stopped, tunnelPort, proc,
                 via, victim, stopTunnel>>
  BY DEF StartSSHFails, cmdVars, askpassVars, procVars, localVars
<1>11. TunnelTypeOK'
  BY <1>1, <1>2, <1>4, <1>5, <1>6, <1>7, <1>8, <1>9, <1>10 DEF TunnelTypeOK,
     MonitorLabel, MainLabel
<1>12. MonitorInv'
  BY <1>1, <1>2, <1>4, <1>5, <1>6, <1>10 DEF MonitorInv, AliveIsWatched, Alive,
     TunnelIsWatched, SSHIsWatched, RestartsNone, Restarting, OneRestarts,
     IdleBeforeStart
<1>13. ChainInv'
  BY <1>1, <1>2, <1>4, <1>5, <1>6, <1>10 DEF ChainInv, SSHIsCurrent, Gone,
     SSHUsesPort, SSHIsStopped, PauseWithoutSSH, LockWithoutSSH
<1>14. StopInv'
  BY <1>1, <1>2, <1>4, <1>5, <1>6, <1>9, <1>10 DEF StopInv, StopIsFlagged,
     StopLabel, StopUnlocked, StopsSSH, Gone, StopsTunnel, SSHStoppedFirst,
     TunnelStoppedNext, AllStopped, ScriptRemoved
<1> QED
  BY <1>11, <1>12, <1>13, <1>14 DEF TunnelInv

\* The critical section of Stop (tunnel.go:398).
LEMMA StopBeginInv ==
    ASSUME TunnelInv, StopBegin
    PROVE  TunnelInv'
<1> USE TunnelAssumption DEF Proc, Goroutine
<1>1. TunnelTypeOK /\ MonitorInv /\ ChainInv /\ StopInv
  BY DEF TunnelInv
<1>2. pc[Main] = "stop"
  BY DEF StopBegin
<1>3. /\ pc' \in [Goroutine -> MonitorLabel \cup MainLabel]
      /\ pc'[Main] = "stopping ssh"
      /\ \A x \in Proc : pc'[x] = pc[x]
  BY <1>1 DEF TunnelTypeOK, MonitorLabel, MainLabel, StopBegin, AwaitVictim
<1>4. mu = None /\ stopped' = TRUE
  BY DEF StopBegin
<1>5. /\ victim' \in [Goroutine -> Proc \cup {None}]
      /\ victim'[Main] = sshCmd
      /\ \A x \in Slipnet : victim'[x] = victim[x]
      /\ stopTunnel' = tunnelCmd
  BY <1>1 DEF TunnelTypeOK, StopBegin
<1>6. /\ proc' \in [Proc -> {"gone", "running", "term", "kill"}]
      /\ \A x \in Proc : proc'[x] = IF x = sshCmd /\ proc[x] = "running"
                                   THEN "term" ELSE proc[x]
  BY <1>1 DEF TunnelTypeOK, StopBegin, Terminate, Alive
<1>7. UNCHANGED <<sshEnabled, mu, tunnelCmd, sshCmd, tunnelPort, askpassPath,
                 askpassFile, via, failed>>
  BY DEF StopBegin, AwaitVictim, cmdVars, askpassVars, procVars, localVars
<1>8. TunnelTypeOK'
  <2>1. FlagsTyped'
    BY <1>1, <1>4, <1>7 DEF TunnelTypeOK, FlagsTyped
  <2>2. LabelsTyped'
    BY <1>1, <1>2, <1>3, <1>4, <1>7 DEF TunnelTypeOK, LabelsTyped, MonitorLabel,
       MainLabel
  <2>3. PointersTyped'
    BY <1>1, <1>5, <1>6, <1>7 DEF TunnelTypeOK, PointersTyped
  <2> QED
    BY <2>1, <2>2, <2>3 DEF TunnelTypeOK, FlagsTyped, LabelsTyped, PointersTyped
<1>9. MonitorInv'
  BY <1>1, <1>2, <1>3, <1>6, <1>7 DEF MonitorInv, AliveIsWatched, Alive,
     TunnelIsWatched, SSHIsWatched, RestartsNone, Restarting, OneRestarts,
     IdleBeforeStart
<1>10. ChainInv'
  <2>1. SSHIsCurrent'
    BY <1>1, <1>6, <1>7 DEF ChainInv, SSHIsCurrent, Gone
  <2>2. SSHUsesPort'
    BY <1>1, <1>6, <1>7 DEF ChainInv, SSHUsesPort
  <2>3. SSHIsStopped'
    <3> SUFFICES ASSUME NEW p \in Slipnet, NEW s \in Ssh, pc'[p] = "stopping", ~Gone(s)'
                 PROVE  proc'[s] = "term" /\ victim'[p] = s
      BY DEF SSHIsStopped
    <3>1. pc[p] = "stopping" /\ victim'[p] = victim[p]
      BY <1>3, <1>5
    <3>2. proc'[s] = IF s = sshCmd /\ proc[s] = "running" THEN "term" ELSE proc[s]
      BY <1>6
    <3>3. ~Gone(s)
      BY <3>2 DEF Gone
    <3>4. proc[s] = "term" /\ victim[p] = s
      BY <1>1, <3>1, <3>3 DEF ChainInv, SSHIsStopped
    <3> QED BY <3>1, <3>2, <3>4
  <2>4. PauseWithoutSSH'
    BY <1>1, <1>2, <1>3, <1>6, <1>7 DEF ChainInv, PauseWithoutSSH, Gone
  <2>5. LockWithoutSSH'
    BY <1>1, <1>2, <1>4, <1>6, <1>7 DEF ChainInv, LockWithoutSSH, Gone
  <2> QED
    BY <2>1, <2>2, <2>3, <2>4, <2>5 DEF ChainInv
<1>11. StopInv'
  BY <1>1, <1>2, <1>3, <1>4, <1>5, <1>6, <1>7 DEF StopInv, StopIsFlagged,
     StopLabel, StopUnlocked, StopsSSH, Gone, SSHIsCurrent, ChainInv,
     StopsTunnel, AliveIsWatched, Alive, MonitorInv, TunnelIsWatched,
     SSHStoppedFirst, TunnelStoppedNext, AllStopped, ScriptRemoved
<1> QED
  BY <1>8, <1>9, <1>10, <1>11 DEF TunnelInv

\* ssh has exited or is killed (tunnel.go:410).
LEMMA StopSSHDoneInv ==
    ASSUME TunnelInv, StopSSHDone
    PROVE  TunnelInv'
<1> USE TunnelAssumption DEF Proc, Goroutine
<1>1. TunnelTypeOK /\ MonitorInv /\ ChainInv /\ StopInv
  BY DEF TunnelInv
<1>2. pc[Main] = "stopping ssh"
  BY DEF StopSSHDone
<1>3. /\ pc' \in [Goroutine -> MonitorLabel \cup MainLabel]
      /\ pc'[Main] = "stop tunnel"
      /\ \A x \in Proc : pc'[x] = pc[x]
  BY <1>1 DEF TunnelTypeOK, MonitorLabel, MainLabel, StopSSHDone, AwaitVictim
<1>4. /\ victim' \in [Goroutine -> Proc \cup {None}]
      /\ victim'[Main] = stopTunnel
      /\ \A x \in Slipnet : victim'[x] = victim[x]
      /\ stopTunnel' = None
  BY <1>1 DEF TunnelTypeOK, StopSSHDone
<1>5. victim[Main] \in Proc \cup {None}
  BY <1>1 DEF TunnelTypeOK
<1>6. \/ proc' = proc /\ (victim[Main] # None => proc[victim[Main]] = "gone")
      \/ /\ victim[Main] # None /\ proc[victim[Main]] # "gone"
         /\ proc' = [proc EXCEPT ![victim[Main]] = "kill"]
  BY DEF StopSSHDone, AwaitVictim, Alive
<1>7. /\ proc' \in [Proc -> {"gone", "running", "term", "kill"}]
      /\ \A x \in Proc : proc'[x] = proc[x] \/ proc'[x] = "kill"
      /\ \A x \in Proc : proc[x] = "gone" => proc'[x] = "gone"
      /\ \A x \in Proc : x = victim[Main] => proc'[x] \in {"gone", "kill"}
  BY <1>1, <1>5, <1>6 DEF TunnelTypeOK
<1>8. /\ \A s \in Ssh : ~Gone(s)' => ~Gone(s) /\ proc'[s] = proc[s]
      /\ \A x \in Slipnet : pc'[x] = pc[x] /\ victim'[x] = victim[x]
  BY <1>2, <1>3, <1>4, <1>7 DEF Gone
<1>9. UNCHANGED <<sshEnabled, mu, tunnelCmd, sshCmd, stopped, tunnelPort,
                 askpassPath, askpassFile, via, failed>>
  BY DEF StopSSHDone, AwaitVictim, cmdVars, askpassVars, procVars, localVars
<1>10. TunnelTypeOK'
  BY <1>1, <1>2, <1>3, <1>4, <1>7, <1>9 DEF TunnelTypeOK, MonitorLabel,
     MainLabel
<1>11. MonitorInv'
  BY <1>1, <1>2, <1>3, <1>7, <1>9 DEF MonitorInv, AliveIsWatched, Alive,
     TunnelIsWatched, SSHIsWatched, RestartsNone, Restarting, OneRestarts,
     IdleBeforeStart
<1>12. ChainInv'
  <2>1. SSHIsCurrent'
    BY <1>1, <1>7, <1>9 DEF ChainInv, SSHIsCurrent, Gone
  <2>2. SSHUsesPort'
    BY <1>1, <1>7, <1>9 DEF ChainInv, SSHUsesPort
  <2>3. SSHIsStopped'
    BY <1>1, <1>8 DEF ChainInv, SSHIsStopped, Gone
  <2>4. PauseWithoutSSH'
    BY <1>1, <1>2, <1>3, <1>7, <1>9 DEF ChainInv, PauseWithoutSSH, Gone
  <2>5. LockWithoutSSH'
    BY <1>1, <1>2, <1>7, <1>9 DEF ChainInv, LockWithoutSSH, Gone
  <2> QED
    BY <2>1, <2>2, <2>3, <2>4, <2>5 DEF ChainInv
<1>13. StopInv'
  BY <1>1, <1>2, <1>3, <1>4, <1>7, <1>9 DEF StopInv, StopIsFlagged, StopLabel,
     StopUnlocked, StopsSSH, Gone, StopsTunnel, SSHStoppedFirst,
     TunnelStoppedNext, AllStopped, ScriptRemoved
<1> QED
  BY <1>10, <1>11, <1>12, <1>13 DEF TunnelInv

\* slipnet is told to exit (tunnel.go:419).
LEMMA StopTunnelInv ==
    ASSUME TunnelInv, StopTunnel
    PROVE  TunnelInv'
<1> USE TunnelAssumption DEF Proc, Goroutine
<1>1. TunnelTypeOK /\ MonitorInv /\ ChainInv /\ StopInv
  BY DEF TunnelInv
<1>2. pc[Main] = "stop tunnel"
  BY DEF StopTunnel
<1>3. /\ pc' \in [Goroutine -> MonitorLabel \cup MainLabel]
      /\ pc'[Main] = "stopping tunnel"
      /\ \A x \in Proc : pc'[x] = pc[x]
  BY <1>1 DEF TunnelTypeOK, MonitorLabel, MainLabel, StopTunnel, AwaitVictim
<1>4. victim[Main] \in Proc \cup {None}
  BY <1>1 DEF TunnelTypeOK
<1>5. /\ proc' \in [Proc -> {"gone", "running", "term", "kill"}]
      /\ \A x \in Proc : proc'[x] = IF x = victim[Main] /\ proc[x] = "running"
                                   THEN "term" ELSE proc[x]
  BY <1>1, <1>4 DEF TunnelTypeOK, StopTunnel, Terminate, Alive
<1>6. UNCHANGED <<sshEnabled, mu, tunnelCmd, sshCmd, stopped, tunnelPort,
                 askpassPath, askpassFile, via, victim, stopTunnel,
                 failed>>
  BY DEF StopTunnel, AwaitVictim, cmdVars, askpassVars, procVars, localVars
<1>7. TunnelTypeOK'
  BY <1>1, <1>2, <1>3, <1>5, <1>6 DEF TunnelTypeOK, MonitorLabel, MainLabel
<1>8. MonitorInv'
  BY <1>1, <1>2, <1>3, <1>5, <1>6 DEF MonitorInv, AliveIsWatched, Alive,
     TunnelIsWatched, SSHIsWatched, RestartsNone, Restarting, OneRestarts,
     IdleBeforeStart
<1>9. ChainInv'
  <2>1. SSHIsCurrent'
    BY <1>1, <1>5, <1>6 DEF ChainInv, SSHIsCurrent, Gone
  <2>2. SSHUsesPort'
    BY <1>1, <1>5, <1>6 DEF ChainInv, SSHUsesPort
  <2>3. SSHIsStopped'
    BY <1>1, <1>2, <1>3, <1>5, <1>6 DEF ChainInv, SSHIsStopped, Gone
  <2>4. PauseWithoutSSH'
    BY <1>1, <1>2, <1>3, <1>5, <1>6 DEF ChainInv, PauseWithoutSSH, Gone
  <2>5. LockWithoutSSH'
    BY <1>1, <1>2, <1>5, <1>6 DEF ChainInv, LockWithoutSSH, Gone
  <2> QED
    BY <2>1, <2>2, <2>3, <2>4, <2>5 DEF ChainInv
<1>10. StopInv'
  BY <1>1, <1>2, <1>3, <1>5, <1>6 DEF StopInv, StopIsFlagged, StopLabel,
     StopUnlocked, StopsSSH, Gone, StopsTunnel, SSHStoppedFirst,
     TunnelStoppedNext, AllStopped, ScriptRemoved
<1> QED
  BY <1>7, <1>8, <1>9, <1>10 DEF TunnelInv

\* slipnet has exited or is killed (tunnel.go:422).
LEMMA StopTunnelDoneInv ==
    ASSUME TunnelInv, StopTunnelDone
    PROVE  TunnelInv'
<1> USE TunnelAssumption DEF Proc, Goroutine
<1>1. TunnelTypeOK /\ MonitorInv /\ ChainInv /\ StopInv
  BY DEF TunnelInv
<1>2. pc[Main] = "stopping tunnel"
  BY DEF StopTunnelDone
<1>3. /\ pc' \in [Goroutine -> MonitorLabel \cup MainLabel]
      /\ pc'[Main] = "cleanup"
      /\ \A x \in Proc : pc'[x] = pc[x]
  BY <1>1 DEF TunnelTypeOK, MonitorLabel, MainLabel, StopTunnelDone, AwaitVictim
<1>4. /\ victim' \in [Goroutine -> Proc \cup {None}]
      /\ victim'[Main] = None
      /\ \A x \in Slipnet : victim'[x] = victim[x]
  BY <1>1 DEF TunnelTypeOK, StopTunnelDone
<1>5. victim[Main] \in Proc \cup {None}
  BY <1>1 DEF TunnelTypeOK
<1>6. \/ proc' = proc /\ (victim[Main] # None => proc[victim[Main]] = "gone")
      \/ /\ victim[Main] # None /\ proc[victim[Main]] # "gone"
         /\ proc' = [proc EXCEPT ![victim[Main]] = "kill"]
  BY DEF StopTunnelDone, AwaitVictim, Alive
<1>7. /\ proc' \in [Proc -> {"gone", "running", "term", "kill"}]
      /\ \A x \in Proc : proc'[x] = proc[x] \/ proc'[x] = "kill"
      /\ \A x \in Proc : proc[x] = "gone" => proc'[x] = "gone"
      /\ \A x \in Proc : x = victim[Main] => proc'[x] \in {"gone", "kill"}
  BY <1>1, <1>5, <1>6 DEF TunnelTypeOK
<1>8. /\ \A s \in Ssh : ~Gone(s)' => ~Gone(s) /\ proc'[s] = proc[s]
      /\ \A x \in Slipnet : pc'[x] = pc[x] /\ victim'[x] = victim[x]
  BY <1>2, <1>3, <1>4, <1>7 DEF Gone
<1>9. UNCHANGED <<sshEnabled, mu, tunnelCmd, sshCmd, stopped, tunnelPort,
                 askpassPath, askpassFile, via, stopTunnel, failed>>
  BY DEF StopTunnelDone, AwaitVictim, cmdVars, askpassVars, procVars, localVars
<1>10. TunnelTypeOK'
  BY <1>1, <1>2, <1>3, <1>4, <1>7, <1>9 DEF TunnelTypeOK, MonitorLabel,
     MainLabel
<1>11. MonitorInv'
  BY <1>1, <1>2, <1>3, <1>7, <1>9 DEF MonitorInv, AliveIsWatched, Alive,
     TunnelIsWatched, SSHIsWatched, RestartsNone, Restarting, OneRestarts,
     IdleBeforeStart
<1>12. ChainInv'
  <2>1. SSHIsCurrent'
    BY <1>1, <1>7, <1>9 DEF ChainInv, SSHIsCurrent, Gone
  <2>2. SSHUsesPort'
    BY <1>1, <1>7, <1>9 DEF ChainInv, SSHUsesPort
  <2>3. SSHIsStopped'
    BY <1>1, <1>8 DEF ChainInv, SSHIsStopped, Gone
  <2>4. PauseWithoutSSH'
    BY <1>1, <1>2, <1>3, <1>7, <1>9 DEF ChainInv, PauseWithoutSSH, Gone
  <2>5. LockWithoutSSH'
    BY <1>1, <1>2, <1>7, <1>9 DEF ChainInv, LockWithoutSSH, Gone
  <2> QED
    BY <2>1, <2>2, <2>3, <2>4, <2>5 DEF ChainInv
<1>13. StopInv'
  BY <1>1, <1>2, <1>3, <1>4, <1>7, <1>9 DEF StopInv, StopIsFlagged, StopLabel,
     StopUnlocked, StopsSSH, Gone, StopsTunnel, SSHStoppedFirst,
     TunnelStoppedNext, AllStopped, ScriptRemoved
<1> QED
  BY <1>10, <1>11, <1>12, <1>13 DEF TunnelInv

\* The script is removed (tunnel.go:430).
LEMMA CleanupInv ==
    ASSUME TunnelInv, Cleanup
    PROVE  TunnelInv'
<1> USE TunnelAssumption DEF Proc, Goroutine
<1>1. TunnelTypeOK /\ MonitorInv /\ ChainInv /\ StopInv
  BY DEF TunnelInv
<1>2. pc[Main] = "cleanup"
  BY DEF Cleanup
<1>3. /\ pc' \in [Goroutine -> MonitorLabel \cup MainLabel]
      /\ pc'[Main] = "stopped"
      /\ \A x \in Proc : pc'[x] = pc[x]
  BY <1>1 DEF TunnelTypeOK, MonitorLabel, MainLabel, Cleanup, AwaitVictim
<1>4. askpassFile' \in BOOLEAN /\ ~(askpassPath' /\ askpassFile')
  BY <1>1 DEF TunnelTypeOK, Cleanup
<1>5. UNCHANGED <<sshEnabled, mu, tunnelCmd, sshCmd, stopped, tunnelPort,
                 askpassPath, proc, via, victim, stopTunnel, failed>>
  BY DEF Cleanup, AwaitVictim, cmdVars, askpassVars, procVars, localVars
<1>6. TunnelTypeOK'
  BY <1>1, <1>2, <1>3, <1>4, <1>5 DEF TunnelTypeOK, MonitorLabel, MainLabel
<1>7. MonitorInv'
  BY <1>1, <1>2, <1>3, <1>5 DEF MonitorInv, AliveIsWatched, Alive,
     TunnelIsWatched, SSHIsWatched, RestartsNone, Restarting, OneRestarts,
     IdleBeforeStart
<1>8. ChainInv'
  BY <1>1, <1>2, <1>3, <1>5 DEF ChainInv, SSHIsCurrent, Gone, SSHUsesPort,
     SSHIsStopped, PauseWithoutSSH, LockWithoutSSH
<1>9. StopInv'
  BY <1>1, <1>2, <1>3, <1>4, <1>5 DEF StopInv, StopIsFlagged, StopLabel,
     StopUnlocked, StopsSSH, Gone, StopsTunnel, SSHStoppedFirst,
     TunnelStoppedNext, AllStopped, ScriptRemoved
<1> QED
  BY <1>6, <1>7, <1>8, <1>9 DEF TunnelInv

\* A monitor finds nothing to restart (tunnel.go:226, tunnel.go:254).
LEMMA PauseEndsInv ==
    ASSUME TunnelInv, NEW p \in Proc, pc[p] = "pause", mu = None,
           pc' = [pc EXCEPT ![p] = "idle"],
           UNCHANGED <<sshEnabled, mu, cmdVars, askpassVars, procVars, localVars, failed>>
    PROVE  TunnelInv'
<1> USE TunnelAssumption DEF Proc, Goroutine
<1>1. TunnelTypeOK /\ MonitorInv /\ ChainInv /\ StopInv
  BY DEF TunnelInv
<1>2. /\ pc' \in [Goroutine -> MonitorLabel \cup MainLabel]
      /\ pc'[p] = "idle"
      /\ pc'[Main] = pc[Main]
      /\ \A x \in Goroutine : x # p => pc'[x] = pc[x]
  BY <1>1 DEF TunnelTypeOK, MonitorLabel, MainLabel
<1>3. UNCHANGED <<sshEnabled, mu, tunnelCmd, sshCmd, stopped, tunnelPort,
                 askpassPath, askpassFile, proc, via, victim,
                 stopTunnel, failed>>
  BY DEF cmdVars, askpassVars, procVars, localVars
<1>4. TunnelTypeOK'
  BY <1>1, <1>2, <1>3 DEF TunnelTypeOK, MonitorLabel, MainLabel
<1>5. MonitorInv'
  BY <1>1, <1>2, <1>3 DEF MonitorInv, AliveIsWatched, Alive, TunnelIsWatched,
     SSHIsWatched, RestartsNone, Restarting, OneRestarts, IdleBeforeStart
<1>6. ChainInv'
  BY <1>1, <1>2, <1>3 DEF ChainInv, SSHIsCurrent, Gone, SSHUsesPort,
     SSHIsStopped, PauseWithoutSSH, LockWithoutSSH
<1>7. StopInv'
  BY <1>1, <1>2, <1>3 DEF StopInv, StopIsFlagged, StopLabel, StopUnlocked,
     StopsSSH, Gone, StopsTunnel, SSHStoppedFirst, TunnelStoppedNext,
     AllStopped, ScriptRemoved
<1> QED
  BY <1>4, <1>5, <1>6, <1>7 DEF TunnelInv

\* A signal reaches runTunnelMode (main.go:603).
LEMMA SignalInv ==
    ASSUME TunnelInv, Signal
    PROVE  TunnelInv'
<1> USE TunnelAssumption DEF Proc, Goroutine
<1>1. TunnelTypeOK /\ MonitorInv /\ ChainInv /\ StopInv
  BY DEF TunnelInv
<1>2. pc[Main] = "serve"
  BY DEF Signal
<1>3. /\ pc' \in [Goroutine -> MonitorLabel \cup MainLabel]
      /\ pc'[Main] = "stop"
      /\ \A x \in Proc : pc'[x] = pc[x]
  BY <1>1 DEF TunnelTypeOK, MonitorLabel, MainLabel, Signal, AwaitVictim
<1>4. UNCHANGED <<sshEnabled, mu, tunnelCmd, sshCmd, stopped, tunnelPort,
                 askpassPath, askpassFile, proc, via, victim,
                 stopTunnel, failed>>
  BY DEF Signal, AwaitVictim, cmdVars, askpassVars, procVars, localVars
<1>5. TunnelTypeOK'
  BY <1>1, <1>2, <1>3, <1>4 DEF TunnelTypeOK, MonitorLabel, MainLabel
<1>6. MonitorInv'
  BY <1>1, <1>2, <1>3, <1>4 DEF MonitorInv, AliveIsWatched, Alive,
     TunnelIsWatched, SSHIsWatched, RestartsNone, Restarting, OneRestarts,
     IdleBeforeStart
<1>7. ChainInv'
  BY <1>1, <1>2, <1>3, <1>4 DEF ChainInv, SSHIsCurrent, Gone, SSHUsesPort,
     SSHIsStopped, PauseWithoutSSH, LockWithoutSSH
<1>8. StopInv'
  BY <1>1, <1>2, <1>3, <1>4 DEF StopInv, StopIsFlagged, StopLabel, StopUnlocked,
     StopsSSH, Gone, StopsTunnel, SSHStoppedFirst, TunnelStoppedNext,
     AllStopped, ScriptRemoved
<1> QED
  BY <1>5, <1>6, <1>7, <1>8 DEF TunnelInv

\* A step that changes nothing.
LEMMA StutterInv ==
    ASSUME TunnelInv, UNCHANGED tmVars
    PROVE  TunnelInv'
<1> USE TunnelAssumption DEF Proc, Goroutine
<1>1. TunnelTypeOK /\ MonitorInv /\ ChainInv /\ StopInv
  BY DEF TunnelInv
<1>2. UNCHANGED <<sshEnabled, mu, tunnelCmd, sshCmd, stopped, tunnelPort,
                 askpassPath, askpassFile, proc, via, pc, victim,
                 stopTunnel, failed>>
  BY DEF tmVars, cmdVars, askpassVars, procVars, localVars
<1>3. TunnelTypeOK'
  <2>1. FlagsTyped'
    BY <1>1, <1>2 DEF TunnelTypeOK, FlagsTyped
  <2>2. LabelsTyped'
    BY <1>1, <1>2 DEF TunnelTypeOK, LabelsTyped, MonitorLabel, MainLabel
  <2>3. PointersTyped'
    BY <1>1, <1>2 DEF TunnelTypeOK, PointersTyped
  <2> QED
    BY <2>1, <2>2, <2>3 DEF TunnelTypeOK, FlagsTyped, LabelsTyped, PointersTyped
<1>4. MonitorInv'
  BY <1>1, <1>2 DEF MonitorInv, AliveIsWatched, Alive, TunnelIsWatched,
     SSHIsWatched, RestartsNone, Restarting, OneRestarts, IdleBeforeStart
<1>5. ChainInv'
  BY <1>1, <1>2 DEF ChainInv, SSHIsCurrent, Gone, SSHUsesPort, SSHIsStopped,
     PauseWithoutSSH, LockWithoutSSH
<1>6. StopInv'
  BY <1>1, <1>2 DEF StopInv, StopIsFlagged, StopLabel, StopUnlocked, StopsSSH,
     Gone, StopsTunnel, SSHStoppedFirst, TunnelStoppedNext, AllStopped,
     ScriptRemoved
<1> QED
  BY <1>3, <1>4, <1>5, <1>6 DEF TunnelInv

\* Every step of the manager preserves the invariant.
LEMMA TunnelStepInv == TunnelInv /\ [TunnelNext]_tmVars => TunnelInv'
<1> SUFFICES ASSUME TunnelInv, [TunnelNext]_tmVars PROVE TunnelInv'
  OBVIOUS
<1> USE TunnelAssumption DEF Proc, Goroutine
<1>0. TunnelTypeOK /\ MonitorInv /\ ChainInv /\ StopInv
  BY DEF TunnelInv
<1>1. ASSUME NEW g \in Goroutine, GoStep(g) PROVE TunnelInv'
  <2>1. CASE PortOpens(g)
    <3>1. SSHStarter(g)
      BY <1>0, <2>1 DEF PortOpens, TunnelTypeOK, ChainInv, LockWithoutSSH, StopInv,
         StopUnlocked, SSHStarter
    <3>2. (StartSSH(g) \/ StartSSHFails(g)) /\ UNCHANGED <<sshEnabled, localVars>>
          /\ mu' = None
      BY <2>1 DEF PortOpens
    <3> QED
      BY <3>1, <3>2, StartSSHInv, StartSSHFailsInv
  <2>2. CASE PortTimesOut(g)
    BY <2>2, PortTimesOutInv
  <2>3. ASSUME g \in Slipnet, MonitorTunnel(g) PROVE TunnelInv'
    <3>1. CASE TunnelExited(g) \/ StopSSH(g) \/ SSHStopped(g)
      BY <2>3, <3>1, TunnelExitedInv, StopSSHInv, SSHStoppedInv
    <3>2. CASE RestartTunnel(g) /\ (stopped \/ tunnelCmd # None)
      BY <2>3, <3>2, PauseEndsInv DEF RestartTunnel
    <3>3. CASE RestartTunnel(g) /\ ~(stopped \/ tunnelCmd # None)
      <4>1. Starter /\ StarterAt(g) /\ UNCHANGED <<sshEnabled, localVars>>
        BY <2>3, <3>3 DEF RestartTunnel, Starter, StarterAt
      <4>2. StartLocked(g) \/ StartLockedFails(g)
        BY <3>3 DEF RestartTunnel
      <4> QED
        BY <2>3, <4>1, <4>2, StartLockedInv, StartLockedFailsInv
    <3> QED
      BY <2>3, <3>1, <3>2, <3>3 DEF MonitorTunnel
  <2>4. ASSUME g \in Ssh, MonitorSSH(g) PROVE TunnelInv'
    <3>1. CASE SSHExited(g)
      BY <2>4, <3>1, SSHExitedInv
    <3>2. CASE RestartSSH(g) /\ (stopped \/ sshCmd # None \/ tunnelCmd = None)
      BY <2>4, <3>2, PauseEndsInv DEF RestartSSH
    <3>3. CASE RestartSSH(g) /\ ~(stopped \/ sshCmd # None \/ tunnelCmd = None)
      <4>1. \A s \in Ssh : Gone(s)
        BY <1>0, <3>3 DEF ChainInv, SSHIsCurrent
      <4>2. SSHStarter(g) /\ UNCHANGED <<sshEnabled, localVars>> /\ mu' = None
        BY <2>4, <3>3, <4>1 DEF RestartSSH, SSHStarter
      <4>3. StartSSH(g) \/ StartSSHFails(g)
        BY <3>3 DEF RestartSSH
      <4> QED
        BY <4>2, <4>3, StartSSHInv, StartSSHFailsInv
    <3> QED
      BY <2>4, <3>1, <3>2, <3>3 DEF MonitorSSH
  <2>5. CASE Start
    <3>1. tunnelCmd = None /\ ~stopped /\ mu = None
      BY <1>0, <2>5 DEF Start, TunnelTypeOK, MonitorInv, IdleBeforeStart,
         TunnelIsWatched, StopInv, StopIsFlagged, StopLabel
    <3>2. /\ Starter /\ StarterAt(Main) /\ UNCHANGED <<sshEnabled, localVars>>
          /\ StartLocked(Main) \/ StartLockedFails(Main)
      BY <2>5, <3>1 DEF Start, Starter, StarterAt
    <3> QED
      BY <3>2, StartLockedInv, StartLockedFailsInv
  <2>6. CASE Stop
    BY <2>6, StopBeginInv, StopSSHDoneInv, StopTunnelInv, StopTunnelDoneInv,
       CleanupInv DEF Stop
  <2> QED
    BY <1>1, <2>1, <2>2, <2>3, <2>4, <2>5, <2>6 DEF GoStep
<1>2. CASE Signal
  BY <1>2, SignalInv
<1>3. ASSUME NEW p \in Proc, Exit(p) PROVE TunnelInv'
  BY <1>3, ExitInv
<1>4. CASE UNCHANGED tmVars
  BY <1>4, StutterInv
<1> QED
  BY <1>1, <1>2, <1>3, <1>4 DEF TunnelNext

\* The inductive invariant holds throughout.
THEOREM TunnelInvariant == TunnelSpec => []TunnelInv
<1>1. TunnelInit => TunnelInv
  BY InitTunnelInv
<1>2. TunnelInv /\ [TunnelNext]_tmVars => TunnelInv'
  BY TunnelStepInv
<1> QED
  BY <1>1, <1>2, PTL DEF TunnelSpec

\* The tunnel manager's variables keep their types, and tm.mu is held between
\* steps exactly by the goroutine that waits for the port (tunnel.go:134).
THEOREM TunnelTypeCorrect == TunnelSpec => []TunnelTypeOK
<1>1. TunnelInv => TunnelTypeOK
  BY DEF TunnelInv
<1> QED
  BY <1>1, TunnelInvariant, PTL

\* At most one slipnet and one ssh are left to run, those the manager points at,
\* and ssh goes through the current port, after any number of crashes and
\* restarts (tunnel.go:204, tunnel.go:234).
THEOREM ChainIsSingle == TunnelSpec => []OneChain
<1>1. TunnelInv => OneChain
  BY DEF TunnelInv, TunnelTypeOK, MonitorInv, AliveIsWatched, TunnelIsWatched, ChainInv,
         SSHIsCurrent, SSHUsesPort, OneChain, Alive, Gone, Proc
<1> QED
  BY <1>1, TunnelInvariant, PTL

\* When Stop returns, every process has exited or has been killed and the script
\* is gone, whatever restarts were under way (tunnel.go:397).
THEOREM NothingSurvivesStop == TunnelSpec => []StopLeavesNothing
<1>1. TunnelInv => StopLeavesNothing
  BY DEF TunnelInv, StopInv, AllStopped, ScriptRemoved, StopLeavesNothing
<1> QED
  BY <1>1, TunnelInvariant, PTL
=============================================================================
