---------------------------- MODULE ProgramProofs ---------------------------
(***************************************************************************)
(* Theorems about the listener and about the program around it, for any    *)
(* number of handlers and sockets and any set of command lines.            *)
(***************************************************************************)
EXTENDS Program, FiniteSetTheorems, TLAPS

-----------------------------------------------------------------------------
(* The listener.                                                           *)

LEMMA ListenerInitInv == ListenerInit => ListenerInv
  BY ListenerAssumption
     DEF ListenerInit, ListenerInv, ListenerTypeOK, NoStraySocket, ErrorOnlyOnShutdown,
         ClosedForAReason, Unbound, Serving, Returned

USE DEF inputs, socketVars, stopVars, listenerVars

\* Steps that only move Start to another place.
LEMMA MovesKeepInv ==
    ASSUME ListenerInv,
           Begin \/ BindCheck \/ BindFails \/ LoopCheck \/ ReadTimesOut \/ ReadQuery
           \/ ErrorCheck
    PROVE  ListenerInv'
  <1> USE DEF ListenerInv, ListenerTypeOK, NoStraySocket, ErrorOnlyOnShutdown,
              ClosedForAReason, Unbound, Serving, Returned
  <1>1. CASE Begin        BY <1>1 DEF Begin
  <1>2. CASE BindCheck    BY <1>2 DEF BindCheck
  <1>3. CASE BindFails    BY <1>3 DEF BindFails
  <1>4. CASE LoopCheck    BY <1>4 DEF LoopCheck
  <1>5. CASE ReadTimesOut BY <1>5 DEF ReadTimesOut
  <1>6. CASE ReadQuery    BY <1>6 DEF ReadQuery
  <1>7. CASE ErrorCheck   BY <1>7 DEF ErrorCheck, AfterError
  <1>8. QED BY <1>1, <1>2, <1>3, <1>4, <1>5, <1>6, <1>7

\* A new socket is none that a handler holds, so whoever holds one that is closed
\* keeps the reason for it.
LEMMA BindKeepsInv ==
    ASSUME ListenerInv, BindSucceeds
    PROVE  ListenerInv'
  <1>1. PICK s \in Socket \ Referenced :
            open' = {s} /\ bound' = s /\ broken' = broken \ {s}
    BY DEF BindSucceeds
  <1>2. \A h \in Handler : held[h] # s
    BY <1>1 DEF Referenced
  <1>3. ClosedForAReason'
    BY <1>1, <1>2 DEF BindSucceeds, ListenerInv, ClosedForAReason
  <1>4. QED
    BY <1>1, <1>3 DEF BindSucceeds, ListenerInv, ListenerTypeOK, NoStraySocket,
                      ErrorOnlyOnShutdown, Unbound, Serving, Returned

\* Steps that use or replace the socket.
LEMMA SocketStepsKeepInv ==
    ASSUME ListenerInv, Assign \/ ReadFails \/ CloseBroken
    PROVE  ListenerInv'
  <1> USE ListenerAssumption
      DEF ListenerInv, ListenerTypeOK, NoStraySocket, ErrorOnlyOnShutdown,
          ClosedForAReason, Unbound, Serving, Returned
  <1>1. CASE Assign      BY <1>1 DEF Assign
  <1>2. CASE ReadFails   BY <1>2 DEF ReadFails
  <1>3. CASE CloseBroken BY <1>3 DEF CloseBroken
  <1>4. QED BY <1>1, <1>2, <1>3

LEMMA HandlersKeepInv ==
    ASSUME ListenerInv, NEW h \in Handler, Spawn(h) \/ HandlerEnds(h)
    PROVE  ListenerInv'
  <1> USE DEF ListenerInv, ListenerTypeOK, NoStraySocket, ErrorOnlyOnShutdown,
              ClosedForAReason, Unbound, Serving, Returned
  <1>1. CASE Spawn(h)       BY <1>1 DEF Spawn
  <1>2. CASE HandlerEnds(h) BY <1>2 DEF HandlerEnds
  <1>3. QED BY <1>1, <1>2

LEMMA StopKeepsInv ==
    ASSUME ListenerInv, StopSignal \/ StopClose
    PROVE  ListenerInv'
  <1> USE ListenerAssumption
      DEF ListenerInv, ListenerTypeOK, NoStraySocket, ErrorOnlyOnShutdown,
          ClosedForAReason, Unbound, Serving, Returned
  <1>1. CASE StopSignal BY <1>1 DEF StopSignal
  <1>2. CASE StopClose  BY <1>2 DEF StopClose
  <1>3. QED BY <1>1, <1>2

LEMMA ListenerStepInv ==
    ASSUME ListenerInv, [ListenerNext]_listenerVars
    PROVE  ListenerInv'
  <1>1. CASE UNCHANGED listenerVars
    BY <1>1 DEF ListenerInv, ListenerTypeOK, NoStraySocket, ErrorOnlyOnShutdown,
                ClosedForAReason
  <1>2. CASE ListenerNext
    BY <1>2, MovesKeepInv, BindKeepsInv, SocketStepsKeepInv, HandlersKeepInv, StopKeepsInv
       DEF ListenerNext, Serve
  <1>3. QED BY <1>1, <1>2

\* Through any number of socket errors and rebinds, with any number of handlers:
\* no socket is left open, Start fails only for the reasons it may, and an answer
\* is lost only to a socket that has failed or was stopped (proxy.go:33-85).
THEOREM ListenerIsSafe == ListenerSpec => []ListenerInv
  BY ListenerInitInv, ListenerStepInv, PTL DEF ListenerSpec

-----------------------------------------------------------------------------
(* The program.                                                            *)

\* Whatever main does, it uses the proxy as the listener's specification allows:
\* Start is called once, and Stop once (main.go:212, main.go:297).
LEMMA ProgramStepIsListenerStep ==
    ASSUME [ProgramNext]_allVars
    PROVE  [ListenerNext]_listenerVars
  <1>1. CASE UNCHANGED allVars
    BY <1>1 DEF allVars, parts
  <1>2. CASE Refuse \/ Accept \/ Startup \/ Scan \/ ScannerPanics \/ Rescan \/ ScannerStops
    BY <1>2 DEF Refuse, Accept, Startup, Probe, ProbeEnds, Unpack, UnpackFindns,
                StartGoroutines, Wait, UnpackSlipnet, StartTunnel, TunnelFails, Notify, Scan,
                FindnsStarts, FindnsEnds, BuiltinEnds, ScannerPanics, Rescan, ScannerStops,
                parts
  <1>3. CASE TestResolver \/ PrintSummary
    BY <1>3 DEF TestResolver, PrintSummary
  <1>4. CASE ProxyFails \/ CoverTraffic \/ Reload \/ Signal \/ StopParts \/ Return
    BY <1>4 DEF ProxyFails, CoverTraffic, Reload, Signal, StopParts, Return, parts
  <1>5. CASE StartProxy \/ ProxyServes
    BY <1>5 DEF StartProxy, ProxyServes, ListenerNext
  <1>6. CASE \E h \in Handler : QueryEnds(h)
    BY <1>6 DEF QueryEnds, ListenerNext
  <1>7. CASE StopProxy
    BY <1>7 DEF StopProxy, ListenerNext
  <1>8. QED
    BY <1>1, <1>2, <1>3, <1>4, <1>5, <1>6, <1>7 DEF ProgramNext, Run, Shutdown

\* The program is one of the listener's environments, so that what is proved of
\* the listener holds in it.
THEOREM ProgramUsesListener == ProgramSpec => ListenerSpec
  <1>1. ProgramInit => ListenerInit
    BY DEF ProgramInit
  <1>2. QED BY <1>1, ProgramStepIsListenerStep, PTL DEF ProgramSpec, ListenerSpec

LEMMA ProgramInitInv == ProgramInit => ProgramInv
  BY DEF ProgramInit, ListenerInit, ProgramInv, CleanExit, FailsForAReason

\* The steps of main up to the moment it listens for signals.
LEMMA StartupKeepsInv ==
    ASSUME ProgramInv, exit = "no", Refuse \/ Accept \/ Startup
    PROVE  ProgramInv'
  <1> USE DEF ProgramInv, CleanExit, FailsForAReason, parts, goroutines, outside, Exits
  <1>1. CASE Refuse          BY <1>1 DEF Refuse
  <1>2. CASE Accept          BY <1>2 DEF Accept
  <1>3. CASE UnpackFindns    BY <1>3 DEF UnpackFindns, Unpack
  <1>4. CASE StartGoroutines BY <1>4 DEF StartGoroutines
  <1>5. CASE Wait            BY <1>5 DEF Wait
  <1>6. CASE UnpackSlipnet   BY <1>6 DEF UnpackSlipnet, Unpack
  <1>7. CASE StartTunnel     BY <1>7 DEF StartTunnel
  <1>8. CASE TunnelFails     BY <1>8 DEF TunnelFails
  <1>9. CASE Notify          BY <1>9 DEF Notify
  <1>10. CASE Probe          BY <1>10 DEF Probe, programVars, listenerVars
  <1>11. CASE ProbeEnds      BY <1>11 DEF ProbeEnds, listenerVars
  <1>12. QED
    BY <1>1, <1>2, <1>3, <1>4, <1>5, <1>6, <1>7, <1>8, <1>9, <1>10, <1>11 DEF Startup

\* The steps of the other goroutines.
LEMMA GoroutinesKeepInv ==
    ASSUME ProgramInv, exit = "no",
           TestResolver \/ PrintSummary \/ Scan \/ ScannerPanics \/ Rescan \/ ScannerStops
           \/ StartProxy \/ ProxyServes \/ CoverTraffic \/ Reload
           \/ \E h \in Handler : QueryEnds(h)
    PROVE  ProgramInv'
  <1> USE DEF ProgramInv, CleanExit, FailsForAReason, programVars, parts, goroutines,
              outside, Exits
  <1>1. CASE TestResolver BY <1>1 DEF TestResolver
  <1>2. CASE PrintSummary BY <1>2 DEF PrintSummary
  <1>3. CASE FindnsStarts BY <1>3 DEF FindnsStarts
  <1>4. CASE FindnsEnds   BY <1>4 DEF FindnsEnds
  <1>5. CASE BuiltinEnds  BY <1>5 DEF BuiltinEnds
  <1>6. CASE Rescan       BY <1>6 DEF Rescan
  <1>7. CASE ScannerStops BY <1>7 DEF ScannerStops
  <1>8. CASE StartProxy
    BY <1>8 DEF StartProxy, Begin
  <1>9. CASE ProxyServes
    <2>1. UNCHANGED stop
      BY <1>9 DEF ProxyServes, Serve, BindCheck, BindFails, BindSucceeds, Assign, LoopCheck,
                  ReadTimesOut, ReadFails, ReadQuery, Spawn, ErrorCheck, CloseBroken
    <2>2. QED BY <1>9, <2>1 DEF ProxyServes
  <1>10. CASE CoverTraffic BY <1>10 DEF CoverTraffic
  <1>11. CASE \E h \in Handler : QueryEnds(h)
    BY <1>11 DEF QueryEnds, HandlerEnds
  <1>12. CASE Reload BY <1>12 DEF Reload
  <1>13. CASE ScannerPanics BY <1>13 DEF ScannerPanics
  <1>14. QED
    BY <1>1, <1>2, <1>3, <1>4, <1>5, <1>6, <1>7, <1>8, <1>9, <1>10, <1>11, <1>12, <1>13
       DEF Scan

\* The ways the program ends once it serves.
LEMMA EndingKeepsInv ==
    ASSUME ListenerInv, ProgramInv, exit = "no", ProxyFails \/ Signal \/ Shutdown
    PROVE  ProgramInv'
  <1> USE DEF ProgramInv, CleanExit, FailsForAReason, parts, goroutines, outside, Exits
  <1>1. CASE ProxyFails
    BY <1>1 DEF ProxyFails, ListenerInv, ListenerTypeOK, ErrorOnlyOnShutdown
  <1>2. CASE Signal    BY <1>2 DEF Signal
  <1>3. CASE StopParts BY <1>3 DEF StopParts
  <1>4. CASE StopProxy BY <1>4 DEF StopProxy, StopSignal, StopClose
  <1>5. CASE Return    BY <1>5 DEF Return
  <1>6. QED BY <1>1, <1>2, <1>3, <1>4, <1>5 DEF Shutdown

LEMMA ProgramStepInv ==
    ASSUME ListenerInv, ProgramInv, [ProgramNext]_allVars
    PROVE  ProgramInv'
  <1>1. CASE UNCHANGED allVars
    BY <1>1 DEF allVars, programVars, goroutines, outside, parts, ProgramInv, CleanExit,
                FailsForAReason
  <1>2. CASE ProgramNext
    BY <1>2, StartupKeepsInv, GoroutinesKeepInv, EndingKeepsInv DEF ProgramNext, Run
  <1>3. QED BY <1>1, <1>2

LEMMA ProgramIsSafe == ProgramSpec => [](ListenerInv /\ ProgramInv)
  <1>1. ProgramSpec => []ListenerInv
    BY ListenerIsSafe, ProgramUsesListener, PTL
  <1>2. QED
    BY <1>1, ProgramInitInv, ProgramStepInv, PTL DEF ProgramSpec

\* A program that ends well has stopped its tunnel and removed its binaries, and
\* leaves nothing but the process and the directory of a findns scan it cut off
\* (main.go:431, findns.go:67).
THEOREM ExitIsClean == ProgramSpec => []CleanExit
  BY ProgramIsSafe, PTL DEF ProgramInv

\* No error of a socket makes the program fail, and no scan but one that panics on
\* the number of workers or the interval it was given (main.go:217,
\* scanner.go:407, autoscan.go:110).
THEOREM FailureHasAReason == ProgramSpec => []FailsForAReason
  BY ProgramIsSafe, PTL DEF ProgramInv

\* The listener keeps its types in the program, and u.conn is never used before it
\* is assigned (proxy.go:51).
THEOREM ListenerTypeCorrect == ProgramSpec => []ListenerTypeOK
  BY ProgramIsSafe, PTL DEF ListenerInv

\* In the program, no socket is ever left open behind the proxy (proxy.go:63).
THEOREM NoSocketIsLeaked == ProgramSpec => []NoStraySocket
  BY ProgramIsSafe, PTL DEF ListenerInv

\* In the program, an answer is lost only to a socket that has failed or was
\* stopped (proxy.go:78).
THEOREM AnswersAreLostForAReason == ProgramSpec => []ClosedForAReason
  BY ProgramIsSafe, PTL DEF ListenerInv

-----------------------------------------------------------------------------
(* What slipnet is started with.                                           *)

\* The flags never change, nothing is started before they are accepted, and only
\* tunnel mode comes to start slipnet.
ArgsInv ==
    /\ flags \in Flags
    /\ main # "flags" => Accepted(flags)
    /\ main \in {"unpackFindns", "wait", "unpackSlipnet", "tunnel"} => flags.mode = "tunnel"
    /\ args # NoArgs =>
          /\ Accepted(flags) /\ flags.mode = "tunnel"
          /\ args = BuildSlipnetArgs(TunnelConfig(flags), ListenOf(flags))

LEMMA ArgsInitInv == ProgramInit => ArgsInv
  BY DEF ProgramInit, ArgsInv

LEMMA ArgsStepInv ==
    ASSUME ArgsInv, [ProgramNext]_allVars
    PROVE  ArgsInv'
  <1> USE DEF ArgsInv, programVars, goroutines, outside, parts
  <1>1. CASE UNCHANGED allVars
    BY <1>1 DEF allVars
  <1>2. CASE Accept
    BY <1>2 DEF Accept
  <1>3. CASE StartGoroutines
    BY <1>3 DEF StartGoroutines
  <1>4. CASE StartTunnel
    BY <1>4 DEF StartTunnel
  <1>5. CASE Refuse \/ Probe \/ ProbeEnds \/ UnpackFindns \/ Wait \/ UnpackSlipnet
             \/ TunnelFails \/ Notify
    BY <1>5 DEF Refuse, Probe, ProbeEnds, Unpack, UnpackFindns, Wait, UnpackSlipnet,
                TunnelFails, Notify
  <1>6. CASE TestResolver \/ PrintSummary \/ Scan \/ ScannerPanics \/ Rescan \/ ScannerStops
    BY <1>6 DEF TestResolver, PrintSummary, Scan, FindnsStarts, FindnsEnds, BuiltinEnds,
                ScannerPanics, Rescan, ScannerStops
  <1>7. CASE StartProxy \/ ProxyServes \/ ProxyFails \/ CoverTraffic \/ Reload
             \/ \E h \in Handler : QueryEnds(h)
    BY <1>7 DEF StartProxy, ProxyServes, ProxyFails, CoverTraffic, Reload, QueryEnds
  <1>8. CASE Signal \/ StopParts \/ StopProxy \/ Return
    BY <1>8 DEF Signal, StopParts, StopProxy, Return
  <1>9. QED
    BY <1>1, <1>2, <1>3, <1>4, <1>5, <1>6, <1>7, <1>8
       DEF ProgramNext, Run, Startup, Shutdown

LEMMA ArgsAreBuilt == ProgramSpec => []ArgsInv
  BY ArgsInitInv, ArgsStepInv, PTL DEF ProgramSpec

\* A function on 1 .. n is a sequence of length n.
LEMMA FunctionIsSeq ==
    \A S : \A n \in Nat : \A f \in [1 .. n -> S] : f \in Seq(S) /\ Len(f) = n
  OBVIOUS

\* What patching does to a profile that main has accepted, field by field.
LEMMA PatchedFields ==
    ASSUME NEW uri \in ProfileURI, NEW listen, Accepts(uri),
           NEW patched, patched = PatchProfile(uri, listen)
    PROVE  /\ Accepts(patched)
           /\ Len(patched.fields) = Len(uri.fields)
           /\ patched.fields[TypeField] = TrimSSH(uri.fields[TypeField])
           /\ listen.ok /\ listen.host # "" => patched.fields[HostField] = listen.host
           /\ listen.ok /\ listen.port # "" => patched.fields[PortField] = listen.port
           /\ \A i \in DOMAIN uri.fields \ {TypeField, PortField, HostField} :
                 patched.fields[i] = uri.fields[i]
           /\ patched.fields[DomainField] = uri.fields[DomainField]
  <1> USE DEF TypeField, PortField, HostField, DomainField
  <1> DEFINE fields == uri.fields
             type == TrimSSH(fields[TypeField])
             host == IF listen.ok /\ listen.host # "" THEN listen.host ELSE fields[HostField]
             port == IF listen.ok /\ listen.port # "" THEN listen.port ELSE fields[PortField]
             patch == [fields EXCEPT ![TypeField] = type, ![HostField] = host,
                                     ![PortField] = port]
  <1>1. /\ Len(fields) \in Nat /\ Len(fields) >= 12 /\ Decodes(uri)
        /\ fields \in [1 .. Len(fields) -> STRING]
    BY DEF Accepts, ProfileURI
  <1>2. ~(~Decodes(uri) \/ Len(uri.fields) < 10)
    BY <1>1
  <1>3. patched = Encode(patch)
    BY <1>2, Zenon DEF PatchProfile
  <1> HIDE DEF type, host, port, fields
  <1>4. /\ patch \in [1 .. Len(fields) -> STRING \cup {type, host, port}]
        /\ patch[TypeField] = type /\ patch[HostField] = host /\ patch[PortField] = port
        /\ \A i \in DOMAIN fields \ {TypeField, PortField, HostField} : patch[i] = fields[i]
    BY <1>1
  <1> HIDE DEF patch
  <1>5. patch \in Seq(STRING \cup {type, host, port}) /\ Len(patch) = Len(fields)
    BY <1>1, <1>4
  <1>6. patched.fields = patch /\ Decodes(patched)
    BY <1>3 DEF Encode, Decodes
  <1>7. patch[DomainField] = fields[DomainField]
    BY <1>1, <1>4
  <1>8. Accepts(patched)
    BY <1>1, <1>5, <1>6 DEF Accepts
  <1>9. QED BY <1>4, <1>5, <1>6, <1>7, <1>8 DEF type, host, port, fields

\* The fields of a profile that is made from the flags.
LEMMA GeneratedFields ==
    ASSUME NEW config, NEW listen, NEW made,
           made = GenerateProfileURI(config, listen)
    PROVE  /\ Accepts(made)
           /\ Len(made.fields) = 23
           /\ made.fields[TypeField] = GeneratedType(config.tunnelType)
           /\ made.fields[DomainField] = config.domain
           /\ listen.ok /\ listen.host # "" => made.fields[HostField] = listen.host
           /\ made.fields[KeyField] = config.publicKey
  <1> DEFINE type == GeneratedType(config.tunnelType)
             host == IF listen.ok /\ listen.host # "" THEN listen.host ELSE "0.0.0.0"
             Field(i) == CASE i = TypeField   -> type
                           [] i = DomainField -> config.domain
                           [] i = PortField   -> "1080"
                           [] i = HostField   -> host
                           [] i = KeyField    -> config.publicKey
                           [] OTHER           -> ""
             fields == [i \in 1 .. 23 |-> Field(i)]
             values == {Field(i) : i \in 1 .. 23}
  <1>1. made = Encode(fields)
    BY Zenon DEF GenerateProfileURI
  <1> HIDE DEF type, host
  <1>3. \A i \in 1 .. 23 : fields[i] = Field(i)
    OBVIOUS
  <1>4. fields \in [1 .. 23 -> values]
    OBVIOUS
  <1>5. /\ TypeField # DomainField /\ TypeField # PortField /\ TypeField # HostField
        /\ TypeField # KeyField /\ DomainField # PortField /\ DomainField # HostField
        /\ DomainField # KeyField /\ PortField # HostField /\ PortField # KeyField
        /\ HostField # KeyField
        /\ {TypeField, DomainField, HostField, KeyField} \subseteq 1 .. 23
    BY DEF TypeField, DomainField, PortField, HostField, KeyField
  <1>6. /\ Field(TypeField) = type /\ Field(DomainField) = config.domain
        /\ Field(HostField) = host /\ Field(KeyField) = config.publicKey
    BY <1>5, Zenon
  <1>7. /\ fields[TypeField] = type /\ fields[DomainField] = config.domain
        /\ fields[HostField] = host /\ fields[KeyField] = config.publicKey
    BY <1>3, <1>5, <1>6, Zenon
  <1> HIDE DEF fields, values, Field
  <1>8. fields \in Seq(values) /\ Len(fields) = 23
    <2>1. 23 \in Nat
      OBVIOUS
    <2>2. QED BY <1>4, <2>1, FunctionIsSeq, Zenon
  <1>9. made.fields = fields /\ Decodes(made)
    BY <1>1 DEF Encode, Decodes
  <1>10. Accepts(made)
    <2>1. Len(made.fields) = 23
      BY <1>8, <1>9, Zenon
    <2>2. Len(made.fields) >= 12
      BY <2>1
    <2>3. QED BY <1>9, <2>2, Zenon DEF Accepts
  <1>11. QED BY <1>7, <1>8, <1>9, <1>10, Zenon DEF host, type

\* The documented form of -tunnel-listen: a port that is a number, if one is given
\* (main.go:102).  The code does not check it.
DocumentedFlags ==
    \A f \in Flags : f.tunnelListen.ok => f.tunnelListen.port \in Numeral \cup {""}

\* A profile that is given reaches slipnet by way of patchProfile.
LEMMA GivenProfile ==
    ASSUME ArgsInv, args # NoArgs, flags.profile # "none"
    PROVE  /\ flags.uri \in ProfileURI /\ Accepts(flags.uri)
           /\ args.profile = PatchProfile(flags.uri, ListenOf(flags))
  <1> DEFINE config == TunnelConfig(flags)
             listen == ListenOf(flags)
             uri == flags.uri
  <1>1. /\ flags \in CommandLine /\ Accepted(flags) /\ flags.mode = "tunnel"
        /\ args = BuildSlipnetArgs(config, listen)
    BY ProgramAssumption DEF ArgsInv
  <1>2. flags.profile \in {"uri", "file"} /\ Accepts(uri)
    BY <1>1 DEF Accepted
  <1>3. uri \in ProfileURI
    BY <1>1 DEF CommandLine
  <1>4. config.profile = <<uri>>
    BY <1>2 DEF TunnelConfig
  <1> HIDE DEF config, listen, uri
  <1>5. config.profile # <<>> /\ config.profile[1] = uri
    BY <1>4
  <1>6. args.profile = PatchProfile(config.profile[1], listen)
    BY <1>1, <1>5 DEF BuildSlipnetArgs
  <1>7. QED BY <1>2, <1>3, <1>5, <1>6, Zenon DEF listen, uri

\* With a profile of an ssh type, slipnet gets an address of its own.
LEMMA SSHListensLocally ==
    ASSUME NEW f, f.profile \in {"uri", "file"}, IsSSH(ParseSlipNetURI(f.uri))
    PROVE  ListenOf(f).host = "127.0.0.1"
  <1>1. TunnelConfig(f).ssh
    BY DEF TunnelConfig
  <1>2. QED BY <1>1 DEF ListenOf

LEMMA ArgsGiveTheProfile ==
    ASSUME DocumentedFlags, ArgsInv
    PROVE  SlipnetGetsTheProfile
  <1> SUFFICES ASSUME args # NoArgs PROVE SlipnetGetsTheProfile
    BY DEF SlipnetGetsTheProfile
  <1> DEFINE profile == args.profile
             listen == ListenOf(flags)
             config == TunnelConfig(flags)
             parsed == ParseSlipNetURI(profile)
  <1>1. /\ flags \in Flags /\ flags \in CommandLine
        /\ Accepted(flags) /\ flags.mode = "tunnel"
        /\ args = BuildSlipnetArgs(config, listen)
    BY ProgramAssumption DEF ArgsInv
  <1>2. /\ flags.profile \in {"none", "uri", "file"}
        /\ flags.profile # "none" => Accepts(flags.uri)
    BY <1>1 DEF Accepted
  <1>3. listen.ok => args.port = listen.port /\ listen.port \in Numeral \cup {""}
    BY <1>1, ProgramAssumption DEF BuildSlipnetArgs, ListenOf, DocumentedFlags
  <1>4. /\ parsed.type = profile.fields[TypeField]
        /\ parsed.domain = profile.fields[DomainField]
        /\ parsed.publicKey = profile.fields[KeyField]
        /\ Len(profile.fields) >= 10 /\ profile.fields[HostField] # ""
              => parsed.host = profile.fields[HostField]
        /\ Len(profile.fields) >= 9 /\ profile.fields[PortField] \in Numeral
              => parsed.port = profile.fields[PortField]
    BY DEF ParseSlipNetURI, Optional, OptionalNumber, HostField, PortField
  <1>5. CASE flags.profile = "none"
    <2>1. /\ config.profile = <<>> /\ config.domain = flags.domain
          /\ config.publicKey = flags.pubkey /\ config.tunnelType = flags.type
      BY <1>5 DEF TunnelConfig
    <2>2. profile = GenerateProfileURI(config, listen)
      BY <1>1, <2>1 DEF BuildSlipnetArgs
    <2> HIDE DEF config, listen, profile, parsed
    <2>4. /\ Accepts(profile)
          /\ Len(profile.fields) = 23
          /\ profile.fields[TypeField] = GeneratedType(config.tunnelType)
          /\ profile.fields[DomainField] = config.domain
          /\ listen.ok /\ listen.host # "" => profile.fields[HostField] = listen.host
          /\ profile.fields[KeyField] = config.publicKey
      BY <2>2, GeneratedFields
    <2>5. Len(profile.fields) >= 10
      <3>1. Len(profile.fields) = 23
        BY <2>4, Zenon
      <3>2. QED BY <3>1
    <2>6. parsed.type = GeneratedType(flags.type)
      BY <1>4, <2>1, <2>4, Zenon
    <2>7. listen.ok /\ listen.host # "" => parsed.host = listen.host
      BY <1>4, <2>4, <2>5, Zenon
    <2>8. parsed.domain = flags.domain /\ parsed.publicKey = flags.pubkey
      BY <1>4, <2>1, <2>4, Zenon
    <2>9. QED
      BY <1>3, <1>5, <2>4, <2>6, <2>7, <2>8, Zenon
         DEF SlipnetGetsTheProfile, listen, parsed, profile
  <1>6. CASE flags.profile # "none"
    <2> DEFINE uri == flags.uri
    <2>1. uri \in ProfileURI /\ Accepts(uri) /\ profile = PatchProfile(uri, listen)
      BY <1>6, GivenProfile
    <2> HIDE DEF uri, config, listen, parsed, profile
    <2>2. /\ Accepts(profile)
          /\ Len(profile.fields) = Len(uri.fields)
          /\ profile.fields[TypeField] = TrimSSH(uri.fields[TypeField])
          /\ listen.ok /\ listen.host # "" => profile.fields[HostField] = listen.host
          /\ listen.ok /\ listen.port # "" => profile.fields[PortField] = listen.port
          /\ \A i \in DOMAIN uri.fields \ {TypeField, PortField, HostField} :
                profile.fields[i] = uri.fields[i]
      <3>1. Accepts(profile)
        BY <2>1, PatchedFields, Zenon
      <3>2. Len(profile.fields) = Len(uri.fields)
        BY <2>1, PatchedFields, Zenon
      <3>3. profile.fields[TypeField] = TrimSSH(uri.fields[TypeField])
        BY <2>1, PatchedFields, Zenon
      <3>4. listen.ok /\ listen.host # "" => profile.fields[HostField] = listen.host
        BY <2>1, PatchedFields
      <3>5. listen.ok /\ listen.port # "" => profile.fields[PortField] = listen.port
        BY <2>1, PatchedFields
      <3>6. \A i \in DOMAIN uri.fields \ {TypeField, PortField, HostField} :
               profile.fields[i] = uri.fields[i]
        BY <2>1, PatchedFields, Zenon
      <3>7. QED BY <3>1, <3>2, <3>3, <3>4, <3>5, <3>6, Zenon
    <2>3. Len(profile.fields) >= 10 /\ Len(profile.fields) >= 9
      <3>1. Len(uri.fields) >= 10 /\ Len(uri.fields) >= 9
        BY <2>1 DEF Accepts, ProfileURI
      <3>2. QED BY <2>2, <3>1, Zenon
    <2> DEFINE theirs == ParseSlipNetURI(uri)
    <2>4. /\ IsSSH(theirs) => parsed.type = Stem[uri.fields[TypeField]]
          /\ ~IsSSH(theirs) => parsed.type = uri.fields[TypeField]
      <3>1. theirs.type = uri.fields[TypeField]
        BY DEF ParseSlipNetURI
      <3>2. parsed.type = TrimSSH(uri.fields[TypeField])
        BY <1>4, <2>2, Zenon
      <3> HIDE DEF theirs
      <3>3. QED BY <3>1, <3>2, Zenon DEF IsSSH, HasSSHSuffix, TrimSSH
    <2>5. IsSSH(theirs) => listen.host = "127.0.0.1"
      <3>1. flags.profile \in {"uri", "file"}
        BY <1>2, <1>6
      <3>2. IsSSH(ParseSlipNetURI(flags.uri)) => ListenOf(flags).host = "127.0.0.1"
        BY <3>1, SSHListensLocally
      <3>3. QED BY <3>2, Zenon DEF listen, uri
    <2> HIDE DEF theirs
    <2>6. listen.ok /\ listen.host # "" => parsed.host = listen.host
      BY <1>4, <2>2, <2>3, Zenon
    <2>7. listen.ok /\ listen.port # "" => parsed.port = listen.port
      BY <1>3, <1>4, <2>2, <2>3, Zenon
    <2>8. QED
      BY <1>3, <1>6, <2>2, <2>4, <2>5, <2>6, <2>7, Zenon
         DEF SlipnetGetsTheProfile, listen, parsed, profile, theirs, uri
  <1>7. QED BY <1>5, <1>6

\* Whatever the user's profile and the other flags are, slipnet is started with a
\* profile that main could parse, with one ssh ending less, bound where it is meant
\* to be, and otherwise the user's (tunnel.go:300).
THEOREM SlipnetGetsItsProfile ==
    DocumentedFlags /\ ProgramSpec => []SlipnetGetsTheProfile
  <1>1. DocumentedFlags /\ ArgsInv => SlipnetGetsTheProfile
    BY ArgsGiveTheProfile
  <1>2. DocumentedFlags => []DocumentedFlags
    BY DEF DocumentedFlags
  <1>3. QED BY <1>1, <1>2, ArgsAreBuilt, PTL

LEMMA ArgsCarryTheDomain ==
    ASSUME ArgsInv
    PROVE  ScannedIsTunnelled
  <1> SUFFICES ASSUME args # NoArgs, flags.scanDomain = "",
                      flags.profile = "none" \/ flags.domain = ""
               PROVE  TunnelConfig(flags).scanDomain = ParseSlipNetURI(args.profile).domain
    BY DEF ScannedIsTunnelled
  <1> DEFINE profile == args.profile
             listen == ListenOf(flags)
             config == TunnelConfig(flags)
             uri == flags.uri
  <1>1. /\ flags \in CommandLine /\ Accepted(flags) /\ flags.mode = "tunnel"
        /\ args = BuildSlipnetArgs(config, listen)
    BY ProgramAssumption DEF ArgsInv
  <1>2. ParseSlipNetURI(profile).domain = profile.fields[DomainField]
    BY DEF ParseSlipNetURI
  <1>3. config.scanDomain = config.domain
    BY DEF TunnelConfig
  <1>4. CASE flags.profile = "none"
    <2>1. config.profile = <<>>
      BY <1>4 DEF TunnelConfig
    <2>2. profile = GenerateProfileURI(config, listen)
      BY <1>1, <2>1 DEF BuildSlipnetArgs
    <2> HIDE DEF config, listen, profile
    <2>3. profile.fields[DomainField] = config.domain
      BY <2>2, GeneratedFields, Zenon
    <2>4. QED BY <1>2, <1>3, <2>3, Zenon DEF config, profile
  <1>5. CASE flags.profile # "none"
    <2>1. config.domain = uri.fields[DomainField]
      BY <1>1, <1>5 DEF TunnelConfig, Accepted, ParseSlipNetURI
    <2>2. uri \in ProfileURI /\ Accepts(uri) /\ profile = PatchProfile(uri, listen)
      BY <1>5, GivenProfile
    <2> HIDE DEF uri, config, listen, profile
    <2>3. profile.fields[DomainField] = uri.fields[DomainField]
      BY <2>2, PatchedFields, Zenon
    <2>4. QED BY <1>2, <1>3, <2>1, <2>3, Zenon DEF config, profile
  <1>6. QED BY <1>4, <1>5

\* For all command lines, the domain the scanner looks for is that of the profile
\* slipnet gets, unless a flag names another one (main.go:347).
THEOREM ScanIsForTheTunnel == ProgramSpec => []ScannedIsTunnelled
  BY ArgsAreBuilt, ArgsCarryTheDomain, PTL

-----------------------------------------------------------------------------
(* Types.                                                                  *)

\* What a scan may find, and what it has found: one result per resolver.
ScanResults == {ScanResolver(r, x) : r \in Candidate, x \in Replies}

OneResultEach ==
    /\ results \in Seq(ScanResults)
    /\ \A i, j \in DOMAIN results : results[i].resolver = results[j].resolver => i = j

\* The places of main, the scanner and the cover traffic.
PlacesInv ==
    /\ main \in {"flags", "scan", "probe", "unpackFindns", "start", "wait", "unpackSlipnet",
                 "tunnel", "notify", "serve", "stopParts", "stopProxy", "return"}
    /\ exit \in {"no", "success", "failure", "killed"}
    /\ scanner \in {"off", "findns", "findnsRuns", "deep", "deepRuns", "builtin", "update",
                    "loop", "stopped"}
    /\ ready \in BOOLEAN /\ reloading \in BOOLEAN
    /\ cover \in {"off", "check", "send", "sleep", "ended"}

LEMMA ScanResultTypes ==
    /\ \A r \in Candidate, x \in Replies : /\ ScanResolver(r, x) \in ScanResults
                                           /\ ScanResolver(r, x).resolver = r
    /\ \A y \in ScanResults : y.resolver \in Candidate
  <1>1. \A r, x : ScanResolver(r, x).resolver = r
    BY Zenon DEF ScanResolver
  <1>2. QED BY <1>1 DEF ScanResults

LEMMA ResultsStepInv ==
    ASSUME OneResultEach, [ProgramNext]_allVars
    PROVE  OneResultEach'
  <1>1. CASE UNCHANGED results
    BY <1>1 DEF OneResultEach
  <1>2. CASE TestResolver
    <2>1. PICK r \in Candidate : ScanOne(r)
      BY <1>2 DEF TestResolver
    <2>2. PICK x \in Replies : results' = Append(results, ScanResolver(r, x))
      BY <2>1 DEF ScanOne
    <2> DEFINE result == ScanResolver(r, x)
    <2>3. result \in ScanResults /\ result.resolver = r
      BY ScanResultTypes
    <2>4. \A i \in DOMAIN results : results[i].resolver # r
      BY <2>1 DEF ScanOne
    <2> HIDE DEF result
    <2>5. results' = Append(results, result)
      BY <2>2 DEF result
    <2>6. /\ results' \in Seq(ScanResults) /\ Len(results') = Len(results) + 1
          /\ \A i \in 1 .. Len(results) : results'[i] = results[i]
          /\ results'[Len(results) + 1] = result
      BY <2>3, <2>5 DEF OneResultEach
    <2>7. ASSUME NEW i \in DOMAIN results', NEW j \in DOMAIN results',
                 results'[i].resolver = results'[j].resolver
          PROVE  i = j
      BY <2>3, <2>4, <2>6, <2>7 DEF OneResultEach
    <2>8. QED BY <2>6, <2>7 DEF OneResultEach
  <1>3. [ProgramNext]_allVars => UNCHANGED results \/ TestResolver
    BY DEF allVars, parts, compatVars, ProgramNext, Run, Refuse, Accept, PrintSummary, Summary,
           Startup, Probe, ProbeEnds, Unpack, UnpackFindns, StartGoroutines, Wait,
           UnpackSlipnet, StartTunnel, TunnelFails, Notify, Scan, FindnsStarts, FindnsEnds,
           BuiltinEnds, ScannerPanics, Rescan, ScannerStops, StartProxy, ProxyServes,
           ProxyFails, CoverTraffic, Reload, QueryEnds, Signal, Shutdown, StopParts,
           StopProxy, Return
  <1>4. QED BY <1>1, <1>2, <1>3

LEMMA ResultsAreFew == OneResultEach => Len(results) <= Cardinality(Candidate)
  <1> SUFFICES ASSUME OneResultEach PROVE Len(results) <= Cardinality(Candidate)
    OBVIOUS
  <1> DEFINE who == [i \in 1 .. Len(results) |-> results[i].resolver]
  <1>1. \A y \in ScanResults : y.resolver \in Candidate
    BY ScanResultTypes
  <1>2. who \in Injection(1 .. Len(results), Candidate)
    BY <1>1 DEF OneResultEach, Injection, IsInjective
  <1>3. Cardinality(1 .. Len(results)) <= Cardinality(Candidate)
    BY <1>2, CompatAssumption, FS_Injection
  <1>4. Len(results) \in Nat
    BY DEF OneResultEach
  <1>5. Cardinality(1 .. Len(results)) = Len(results)
    <2>1. \A n \in Nat : Cardinality(1 .. n) = IF 1 > n THEN 0 ELSE n - 1 + 1
      BY FS_Interval
    <2>2. \A n \in Nat : Cardinality(1 .. n) = n
      BY <2>1
    <2>3. QED BY <1>4, <2>2
  <1>6. QED BY <1>3, <1>5

LEMMA PlacesStepInv ==
    ASSUME PlacesInv, [ProgramNext]_allVars
    PROVE  PlacesInv'
  <1> USE DEF PlacesInv, programVars, goroutines, outside, Exits
  <1>1. CASE UNCHANGED allVars BY <1>1 DEF allVars
  <1>2. CASE Refuse \/ Accept \/ TestResolver \/ PrintSummary
    BY <1>2 DEF Refuse, Accept, TestResolver, PrintSummary
  <1>3. CASE Probe \/ ProbeEnds \/ UnpackFindns \/ Wait \/ UnpackSlipnet \/ Notify
    BY <1>3 DEF Probe, ProbeEnds, Unpack, UnpackFindns, Wait, UnpackSlipnet, Notify
  <1>4. CASE StartGoroutines BY <1>4 DEF StartGoroutines
  <1>5. CASE StartTunnel     BY <1>5 DEF StartTunnel
  <1>6. CASE TunnelFails     BY <1>6 DEF TunnelFails
  <1>7. CASE Scan \/ ScannerPanics \/ Rescan \/ ScannerStops
    BY <1>7 DEF Scan, FindnsStarts, FindnsEnds, BuiltinEnds, ScannerPanics, Rescan,
                ScannerStops
  <1>8. CASE StartProxy \/ ProxyServes \/ ProxyFails \/ Reload
             \/ \E h \in Handler : QueryEnds(h)
    BY <1>8 DEF StartProxy, ProxyServes, ProxyFails, Reload, QueryEnds
  <1>9. CASE CoverTraffic BY <1>9 DEF CoverTraffic
  <1>10. CASE Signal \/ StopParts \/ StopProxy \/ Return
    BY <1>10 DEF Signal, StopParts, StopProxy, Return
  <1>11. QED
    BY <1>1, <1>2, <1>3, <1>4, <1>5, <1>6, <1>7, <1>8, <1>9, <1>10
       DEF ProgramNext, Run, Startup, Shutdown

OnlyProbedWork == working \subseteq Probed

LEMMA WorkingStepInv ==
    ASSUME OnlyProbedWork, [ProgramNext]_allVars
    PROVE  OnlyProbedWork'
  <1> USE DEF OnlyProbedWork
  <1>1. [ProgramNext]_allVars => UNCHANGED working \/ Probe \/ ProbeEnds
    BY DEF allVars, parts, probeVars, ProgramNext, Run, Refuse, Accept, TestResolver,
           PrintSummary, Startup, Unpack, UnpackFindns, StartGoroutines, Wait, UnpackSlipnet,
           StartTunnel, TunnelFails, Notify, Scan, FindnsStarts, FindnsEnds, BuiltinEnds,
           ScannerPanics, Rescan, ScannerStops, StartProxy, ProxyServes, ProxyFails,
           CoverTraffic, Reload, QueryEnds, Signal, Shutdown, StopParts, StopProxy, Return
  <1>2. CASE Probe
    BY <1>2 DEF Probe, ProbeStep, LaunchProbe, ProbeAnswers, DeliverProbe, ReceiveProbe
  <1>3. CASE ProbeEnds BY <1>3 DEF ProbeEnds
  <1>4. QED BY <1>1, <1>2, <1>3

\* The program keeps its types on any command line and with any number of resolvers:
\* it makes no directory but three, and scans no entry of the list twice (scanner.go:515).
THEOREM ProgramTypeCorrect == ProgramSpec => []ProgramTypeOK
  <1>1. ProgramInit => OneResultEach
    BY DEF ProgramInit, OneResultEach
  <1>2. ProgramInit => PlacesInv /\ OnlyProbedWork
    BY DEF ProgramInit, ProbeInit, PlacesInv, OnlyProbedWork
  <1>3. OneResultEach /\ [ProgramNext]_allVars => OneResultEach'
    BY ResultsStepInv
  <1>4. PlacesInv /\ [ProgramNext]_allVars => PlacesInv'
    BY PlacesStepInv
  <1>5. OnlyProbedWork /\ [ProgramNext]_allVars => OnlyProbedWork'
    BY WorkingStepInv
  <1>6. ListenerInv /\ ProgramInv /\ ArgsInv /\ OneResultEach /\ PlacesInv
        /\ OnlyProbedWork => ProgramTypeOK
    BY ResultsAreFew
       DEF ListenerInv, ProgramInv, ArgsInv, PlacesInv, OnlyProbedWork, ProgramTypeOK
  <1>7. QED
    BY <1>1, <1>2, <1>3, <1>4, <1>5, <1>6, ProgramIsSafe, ArgsAreBuilt, PTL
       DEF ProgramSpec

-----------------------------------------------------------------------------
(* The summary of the compatibility scan.                                  *)

RankP == INSTANCE RankingProofs

LEMMA ScanResultNumbers ==
    ASSUME NEW y \in ScanResults PROVE y.score \in Int /\ y.latency \in Int
  <1>1. PICK r \in Candidate, x \in Replies : y = ScanResolver(r, x)
    BY DEF ScanResults
  <1> DEFINE tests == {i \in 1 .. 6 : Tests(x)[i]}
  <1>2. Cardinality(tests) \in Nat
    <2>1. \A k \in Nat : IsFiniteSet(1 .. k)
      BY FS_Interval
    <2>2. IsFiniteSet(1 .. 6) /\ tests \subseteq 1 .. 6
      BY <2>1
    <2> HIDE DEF tests
    <2>3. QED BY <2>2, FS_Subset, FS_CardinalityType
  <1> HIDE DEF tests
  <1>3. y.score = (IF Complete(x.basic) THEN Cardinality(tests) ELSE 0)
        /\ y.latency = x.latency
    BY <1>1, Zenon DEF ScanResolver, tests
  <1>4. QED BY <1>2, <1>3, CompatAssumption

LEMMA AheadIsWeakOrder ==
    ASSUME NEW A, A \subseteq ScanResults PROVE RankP!WeakOrder(A)
  <1>1. \A x \in A : x.score \in Int /\ x.latency \in Int
    BY ScanResultNumbers
  <1>2. QED BY <1>1 DEF RankP!WeakOrder, Ahead

LEMMA SameLoops ==
    ASSUME NEW s, NEW good
    PROVE  /\ Rank!InsertionSort(s) = RankP!InsertionSort(s)
           /\ Rank!Picked(s, good) = RankP!Picked(s, good)
  <1>1. \A t, j : Rank!CompareSwap(t, j) = RankP!CompareSwap(t, j)
    BY Zenon DEF Rank!CompareSwap, RankP!CompareSwap
  <1>2. \A t, i : Rank!SinkInto(t, i) = RankP!SinkInto(t, i)
    BY <1>1, Zenon DEF Rank!SinkInto, RankP!SinkInto
  <1>3. Rank!InsertionSort(s) = RankP!InsertionSort(s)
    BY <1>2, Zenon DEF Rank!InsertionSort, RankP!InsertionSort
  <1>4. Rank!Picked(s, good) = RankP!Picked(s, good)
    BY Zenon DEF Rank!Picked, RankP!Picked
  <1>5. QED BY <1>3, <1>4

WorkingSet == {result \in ToSet(results) : Works(result)}

\* The sorted list holds every working result once, in order.
LEMMA SortedWorking ==
    ASSUME OneResultEach, NEW s, s = SortByScore(WorkingResults)
    PROVE  \E L \in Nat : s \in RankP!Arrangements(WorkingSet, L) /\ RankP!Ordered(s, L)
  <1> DEFINE n == Len(results)
             w == WorkingResults
  <1>1. /\ n \in Nat /\ results \in [1 .. n -> ScanResults] /\ DOMAIN results = 1 .. n
        /\ \A i, j \in 1 .. n : results[i].resolver = results[j].resolver => i = j
    BY DEF OneResultEach
  <1>2. \A y : y \in ToSet(results) <=> \E i \in 1 .. n : results[i] = y
    BY <1>1 DEF ToSet
  <1>3. WorkingSet \subseteq ToSet(results) /\ WorkingSet \subseteq ScanResults
    BY <1>1, <1>2 DEF WorkingSet
  <1>4. w = RankP!Picked(results, WorkingSet)
    BY SameLoops DEF WorkingResults, WorkingSet
  <1> HIDE DEF n, w
  <1>5. w \in Seq(ScanResults) /\ RankP!PickOf(w, results, n, WorkingSet)
    BY <1>1, <1>4, RankP!PickedInOrder
  <1> DEFINE L == Len(w)
  <1>6. L \in Nat /\ DOMAIN w = 1 .. L
    BY <1>5
  <1>7. /\ \A k \in 1 .. L : \E i \in 1 .. n : w[k] = results[i] /\ results[i] \in WorkingSet
        /\ \A i \in 1 .. n : results[i] \in WorkingSet => \E k \in 1 .. L : w[k] = results[i]
        /\ \A k, l \in 1 .. L :
              k < l => \E i, j \in 1 .. n : i < j /\ w[k] = results[i] /\ w[l] = results[j]
    BY <1>5 DEF RankP!PickOf
  <1> HIDE DEF L
  <1>8. w \in [1 .. L -> WorkingSet]
    BY <1>5, <1>6, <1>7 DEF L
  <1>9. ASSUME NEW x \in WorkingSet PROVE \E k \in 1 .. L : w[k] = x
    <2>1. PICK i \in 1 .. n : results[i] = x
      BY <1>2, <1>3
    <2>2. QED BY <1>7, <2>1
  <1>10. ASSUME NEW k \in 1 .. L, NEW l \in 1 .. L, k < l PROVE w[k] # w[l]
    <2>1. PICK i \in 1 .. n, j \in 1 .. n : i < j /\ w[k] = results[i] /\ w[l] = results[j]
      BY <1>7, <1>10
    <2>2. i # j
      BY <1>1, <2>1
    <2>3. QED BY <1>1, <2>1, <2>2
  <1>11. \A k, l \in 1 .. L : w[k] = w[l] => k = l
    BY <1>6, <1>10
  <1>12. w \in RankP!Arrangements(WorkingSet, L)
    BY <1>8, <1>9, <1>11 DEF RankP!Arrangements
  <1>13. s = RankP!InsertionSort(w)
    BY SameLoops DEF SortByScore, w
  <1>14. s \in RankP!Arrangements(WorkingSet, L) /\ RankP!Ordered(s, L)
    BY <1>3, <1>6, <1>12, <1>13, AheadIsWeakOrder, RankP!SortOrders
  <1>15. QED BY <1>6, <1>14

LEMMA SmallerOfTwo ==
    ASSUME NEW a \in Nat, NEW b \in Nat
    PROVE  Min({a, b}) = IF a <= b THEN a ELSE b
  BY DEF Min

\* There are as many working results as places that hold one.
LEMMA WorkingPlaces ==
    ASSUME OneResultEach, NEW L \in Nat, NEW s \in RankP!Arrangements(WorkingSet, L)
    PROVE  Cardinality({i \in DOMAIN results : Works(results[i])}) = L
  <1> DEFINE places == {i \in DOMAIN results : Works(results[i])}
             place == [k \in 1 .. L |-> CHOOSE i \in places : results[i] = s[k]]
  <1>1. /\ s \in [1 .. L -> WorkingSet]
        /\ \A k, l \in 1 .. L : s[k] = s[l] => k = l
        /\ \A x \in WorkingSet : \E k \in 1 .. L : s[k] = x
    BY DEF RankP!Arrangements
  <1>2. \A x : x \in WorkingSet <=> \E i \in places : results[i] = x
    BY DEF WorkingSet, ToSet
  <1>3. \A i, j \in places : results[i] = results[j] => i = j
    BY DEF OneResultEach
  <1> HIDE DEF places
  <1>4. \A k \in 1 .. L : place[k] \in places /\ results[place[k]] = s[k]
    BY <1>1, <1>2
  <1>5. place \in [1 .. L -> places]
    BY <1>4
  <1> HIDE DEF place
  <1>6. \A k, l \in 1 .. L : place[k] = place[l] => k = l
    BY <1>1, <1>4
  <1>7. ASSUME NEW i \in places PROVE \E k \in 1 .. L : place[k] = i
    <2>1. PICK k \in 1 .. L : s[k] = results[i]
      BY <1>1, <1>2
    <2>2. QED BY <1>3, <1>4, <2>1
  <1>8. place \in Bijection(1 .. L, places)
    BY <1>5, <1>6, <1>7 DEF Bijection, Injection, Surjection, IsInjective
  <1>9. ExistsBijection(1 .. L, places)
    BY <1>8 DEF ExistsBijection
  <1>10. QED BY <1>9, FS_CountingElements DEF places

LEMMA SummaryNamesTheBest ==
    ASSUME OneResultEach, Summary
    PROVE  BestAreNamed'
  <1> DEFINE s == SortByScore(WorkingResults)
             places == {i \in DOMAIN results : Works(results[i])}
  <1>1. PICK L \in Nat : s \in RankP!Arrangements(WorkingSet, L) /\ RankP!Ordered(s, L)
    BY SortedWorking
  <1>2. Cardinality(places) = L
    BY <1>1, WorkingPlaces
  <1>3. best' = SubSeq(s, 1, Min({BestLimit, Len(s)})) /\ results' = results
    BY Zenon DEF Summary
  <1> HIDE DEF s
  <1>4. /\ s \in [1 .. L -> WorkingSet] /\ Len(s) = L /\ s \in Seq(WorkingSet)
        /\ \A x \in WorkingSet : \E k \in 1 .. L : s[k] = x
    BY <1>1 DEF RankP!Arrangements
  <1> DEFINE m == Min({BestLimit, L})
  <1>5. m \in Nat /\ m <= L
    BY SmallerOfTwo, CompatAssumption
  <1> HIDE DEF m
  <1>6. /\ Len(best') = m /\ DOMAIN best' = 1 .. m
        /\ \A i \in 1 .. m : best'[i] = s[i] /\ i \in 1 .. L
    <2>1. best' = SubSeq(s, 1, m)
      BY <1>3, <1>4 DEF m
    <2>2. QED BY <1>4, <1>5, <2>1
  <1>7. \A x \in WorkingSet : x.score \in Int /\ x.latency \in Int
    <2>1. WorkingSet \subseteq ScanResults
      BY DEF WorkingSet, ToSet, OneResultEach
    <2>2. QED BY <2>1, ScanResultNumbers
  <1> DEFINE Beats(x, y) == /\ x.score >= y.score
                            /\ x.score = y.score => x.latency < y.latency
  <1>8. \A x, y \in WorkingSet : ~Ahead(x, y) => ~Beats(x, y)
    BY <1>7 DEF Ahead
  <1>9. \A k, l \in 1 .. L : k < l => ~Beats(s[l], s[k])
    BY <1>1, <1>4, <1>8 DEF RankP!Ordered
  <1> HIDE DEF Beats
  <1>10. \A i, j \in DOMAIN best' : i < j => ~Beats(best'[j], best'[i])
    BY <1>6, <1>9
  <1>11. ASSUME NEW i \in places, NEW j \in DOMAIN best', results[i] \notin ToSet(best')
         PROVE  ~Beats(results[i], best'[j])
    <2>1. results[i] \in WorkingSet
      BY DEF WorkingSet, ToSet
    <2>2. PICK k \in 1 .. L : s[k] = results[i]
      BY <1>4, <2>1
    <2>3. k \notin 1 .. m
      BY <1>6, <1>11, <2>2 DEF ToSet
    <2>4. j \in 1 .. L /\ j < k /\ best'[j] = s[j]
      BY <1>5, <1>6, <2>3
    <2>5. QED BY <1>9, <2>2, <2>4
  <1>12. Len(best') = Min({BestLimit, Cardinality(places)})
    BY <1>2, <1>6 DEF m
  <1>13. {i \in DOMAIN results' : Works(results'[i])} = places
    BY <1>3
  <1>14. /\ Len(best') = Min({BestLimit, Cardinality({i \in DOMAIN results' : Works(results'[i])})})
         /\ \A i \in {i \in DOMAIN results' : Works(results'[i])}, j \in DOMAIN best' :
               results'[i] \notin ToSet(best') => ~Beats(results'[i], best'[j])
    BY <1>3, <1>11, <1>12, <1>13, Zenon
  <1>15. QED BY <1>10, <1>14, Zenon DEF BestAreNamed, Beats, Works

\* The program ends with its summary, so that nothing changes it.
SummaryInv == BestAreNamed /\ (best # <<>> => exit # "no")

LEMMA SummaryStepInv ==
    ASSUME OneResultEach, SummaryInv, [ProgramNext]_allVars
    PROVE  SummaryInv'
  <1>1. CASE UNCHANGED allVars
    BY <1>1 DEF SummaryInv, BestAreNamed, allVars, programVars, parts, compatVars
  <1>2. CASE ProgramNext /\ PrintSummary
    <2>1. BestAreNamed'
      BY <1>2, SummaryNamesTheBest DEF PrintSummary
    <2>2. exit' = "success"
      BY <1>2 DEF PrintSummary, Exits
    <2>3. QED BY <2>1, <2>2 DEF SummaryInv
  <1>3. CASE ProgramNext /\ ~PrintSummary
    <2>1. best = <<>>
      BY <1>3 DEF SummaryInv, ProgramNext
    <2>2. UNCHANGED best
      BY <1>3 DEF ProgramNext, parts, compatVars, Run, Refuse, Accept, TestResolver, ScanOne,
           Startup, Probe, ProbeEnds, Unpack, UnpackFindns, StartGoroutines, Wait,
           UnpackSlipnet, StartTunnel, TunnelFails, Notify, Scan, FindnsStarts, FindnsEnds,
           BuiltinEnds, ScannerPanics, Rescan, ScannerStops, StartProxy, ProxyServes,
           ProxyFails, CoverTraffic, Reload, QueryEnds, Signal, Shutdown, StopParts,
           StopProxy, Return
    <2>3. best' = <<>>
      BY <2>1, <2>2
    <2>4. QED BY <2>3 DEF SummaryInv, BestAreNamed
  <1>4. QED BY <1>1, <1>2, <1>3

\* Whatever the order in which the workers of a compatibility scan end, and however
\* many resolvers there are, the summary names the best of those that work
\* (runScan, scanner.go:573).
THEOREM SummaryIsRight == ProgramSpec => []BestAreNamed
  <1>1. ProgramInit => OneResultEach
    BY DEF ProgramInit, OneResultEach
  <1>2. ProgramInit => SummaryInv
    BY DEF ProgramInit, SummaryInv, BestAreNamed
  <1>3. OneResultEach /\ [ProgramNext]_allVars => OneResultEach'
    BY ResultsStepInv
  <1>4. OneResultEach /\ SummaryInv /\ [ProgramNext]_allVars => SummaryInv'
    BY SummaryStepInv
  <1>5. SummaryInv => BestAreNamed
    BY DEF SummaryInv
  <1>6. QED
    BY <1>1, <1>2, <1>3, <1>4, <1>5, PTL DEF ProgramSpec
=============================================================================
