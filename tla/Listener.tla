------------------------------ MODULE Listener ------------------------------
(***************************************************************************)
(* The listening side of proxy.go: UDPProxy.Start or TCPProxy.Start binds  *)
(* a socket, reads queries from it and hands each to a goroutine, and      *)
(* Stop, called from another goroutine, ends it.  The UDP proxy replaces a *)
(* socket that reports an error; the TCP proxy gives up.  The two proxies  *)
(* share nothing here, so a behaviour is about one of them, proto.         *)
(*                                                                         *)
(* DNSProxy follows one query to its answer.  Here a query only occupies a *)
(* slot of the semaphore and the socket it came in on, which a UDP answer  *)
(* is written to: a socket closed meanwhile loses the answer.              *)
(*                                                                         *)
(* Stop reads u.conn while Start may be writing it, without a lock: it     *)
(* finds the old pointer or the new one, which is what the interleaving of *)
(* Assign and StopClose gives.  -listen is taken to be an IP address, as   *)
(* by default, so that resolving it again for a rebind gives the same.     *)
(***************************************************************************)
EXTENDS Integers, FiniteSets

CONSTANTS
    Handler,     \* the slots of the semaphore (maxWorkers of them)
    Socket,      \* sockets; one nobody refers to any more is used again
    NoSocket     \* nil

ASSUME ListenerAssumption == NoSocket \notin Socket

VARIABLES
    proto,       \* which of the two proxies this is
    goodAddr,    \* whether -listen names an address of this host
    loc,         \* where Start stands
    bound,       \* the socket bindWithRetry returned, until it is assigned
    conn,        \* u.conn, t.listener
    open,        \* the sockets that are open
    held,        \* the socket each running handler was started with
    done,        \* whether the channel done is closed
    stop,        \* where Stop stands
    broken       \* history: the sockets that have reported an error

inputs == <<proto, goodAddr>>
socketVars == <<bound, conn, open, broken>>
stopVars == <<done, stop>>
listenerVars == <<proto, goodAddr, loc, bound, conn, open, held, done, stop, broken>>

-----------------------------------------------------------------------------
(* bindWithRetry.                                                          *)

\* Start is called.  The UDP proxy resolves the address before it binds, and
\* returns if it is not one; binding to the address of another host is retried.
Begin ==
    /\ loc = "off"
    /\ \/ loc' = "bind"
       \/ proto = "udp" /\ ~goodAddr /\ loc' = "err"
    /\ UNCHANGED <<inputs, socketVars, held, stopVars>>

\* The select at the top of the loop: a stopped proxy returns net.ErrClosed.
BindCheck ==
    /\ loc = "bind"
    /\ loc' = IF done THEN "err" ELSE "listen"
    /\ UNCHANGED <<inputs, socketVars, held, stopVars>>

\* The address is not available; sleep and try again.
BindFails ==
    /\ loc = "listen"
    /\ loc' = "bind"
    /\ UNCHANGED <<inputs, socketVars, held, stopVars>>

\* The sockets that something still points to.
Referenced == open \cup {conn} \cup {held[h] : h \in Handler}

\* The kernel grants the address only if no socket of ours is still bound to it.
BindSucceeds ==
    /\ loc = "listen"
    /\ goodAddr
    /\ open = {}
    /\ \E s \in Socket \ Referenced :
          /\ open' = {s}
          /\ bound' = s
          /\ broken' = broken \ {s}
    /\ loc' = "assign"
    /\ UNCHANGED <<inputs, conn, held, stopVars>>

\* Mutant of Assign: the socket is kept in a variable of its own.
AssignLocal ==
    /\ loc = "assign"
    /\ bound' = NoSocket
    /\ loc' = "loop"
    /\ UNCHANGED <<inputs, conn, open, broken, held, stopVars>>

Assign ==
    /\ loc = "assign"
    /\ conn' = bound
    /\ bound' = NoSocket
    /\ loc' = "loop"
    /\ UNCHANGED <<inputs, open, broken, held, stopVars>>

-----------------------------------------------------------------------------
(* The loop of Start.                                                      *)

LoopCheck ==
    /\ loc = "loop"
    /\ loc' = IF done THEN "nil" ELSE "read"
    /\ UNCHANGED <<inputs, socketVars, held, stopVars>>

\* Mutant of ReadTimesOut: an expired deadline is taken for a broken socket.
ReadTimesOutAsError ==
    /\ loc = "read"
    /\ conn \in open
    /\ loc' = "error"
    /\ UNCHANGED <<inputs, socketVars, held, stopVars>>

\* Nothing arrives within the deadline of a second.
ReadTimesOut ==
    /\ loc = "read"
    /\ conn \in open
    /\ loc' = "loop"
    /\ UNCHANGED <<inputs, socketVars, held, stopVars>>

\* The socket reports an error, or has been closed by Stop.
ReadFails ==
    /\ loc = "read"
    /\ broken' = broken \cup {conn}
    /\ loc' = "error"
    /\ UNCHANGED <<inputs, bound, conn, open, held, stopVars>>

ReadQuery ==
    /\ loc = "read"
    /\ conn \in open
    /\ loc' = "slot"
    /\ UNCHANGED <<inputs, socketVars, held, stopVars>>

\* A slot is free: the goroutine is started with the socket of now.
Spawn(h) ==
    /\ loc = "slot"
    /\ held[h] = NoSocket
    /\ held' = [held EXCEPT ![h] = conn]
    /\ loc' = "loop"
    /\ UNCHANGED <<inputs, socketVars, stopVars>>

\* Mutant of AfterError: the UDP proxy gives up, as the TCP proxy does.
AfterErrorGivesUp == "err"

\* What follows the error of a proxy that is not being stopped.
AfterError == IF proto = "udp" THEN "close" ELSE "err"

ErrorCheck ==
    /\ loc = "error"
    /\ loc' = IF done THEN "nil" ELSE AfterError
    /\ UNCHANGED <<inputs, socketVars, held, stopVars>>

\* Mutant of CloseBroken: the broken socket is not closed.
CloseBrokenNot ==
    /\ loc = "close"
    /\ loc' = "bind"
    /\ UNCHANGED <<inputs, socketVars, held, stopVars>>

\* The broken socket is closed, and after a sleep the proxy binds again.
CloseBroken ==
    /\ loc = "close"
    /\ open' = open \ {conn}
    /\ loc' = "bind"
    /\ UNCHANGED <<inputs, bound, conn, broken, held, stopVars>>

\* The handler writes its answer, to a socket that may be closed by now, or has
\* none, and frees its slot.
HandlerEnds(h) ==
    /\ held[h] # NoSocket
    /\ held' = [held EXCEPT ![h] = NoSocket]
    /\ UNCHANGED <<inputs, loc, socketVars, stopVars>>

-----------------------------------------------------------------------------
(* Stop, called once by the goroutine of main.                             *)

StopSignal ==
    /\ stop = "no"
    /\ done' = TRUE
    /\ stop' = "close"
    /\ UNCHANGED <<inputs, loc, socketVars, held>>

StopClose ==
    /\ stop = "close"
    /\ open' = open \ {conn}
    /\ stop' = "stopped"
    /\ UNCHANGED <<inputs, loc, bound, conn, broken, held, done>>

-----------------------------------------------------------------------------
ListenerInit ==
    /\ proto \in {"udp", "tcp"}
    /\ goodAddr \in BOOLEAN
    /\ loc = "off"
    /\ bound = NoSocket /\ conn = NoSocket
    /\ open = {} /\ broken = {}
    /\ held = [h \in Handler |-> NoSocket]
    /\ done = FALSE
    /\ stop = "no"

\* The steps of Start once it has been called.
Serve ==
    \/ BindCheck \/ BindFails \/ BindSucceeds \/ Assign
    \/ LoopCheck \/ ReadTimesOut \/ ReadFails \/ ReadQuery
    \/ \E h \in Handler : Spawn(h)
    \/ ErrorCheck \/ CloseBroken

ListenerNext ==
    \/ Begin
    \/ Serve
    \/ \E h \in Handler : HandlerEnds(h)
    \/ StopSignal
    \/ StopClose

ListenerSpec == ListenerInit /\ [][ListenerNext]_listenerVars

-----------------------------------------------------------------------------
(* Properties.                                                             *)

Unbound == {"off", "bind", "listen", "assign"}
Serving == {"loop", "read", "error", "close", "slot"}
Returned == {"nil", "err"}

\* Every variable has its type, and Start uses u.conn only after it was assigned:
\* a nil pointer would end the program (proxy.go:51).
ListenerTypeOK ==
    /\ proto \in {"udp", "tcp"} /\ goodAddr \in BOOLEAN
    /\ loc \in Unbound \cup Serving \cup Returned
    /\ bound \in Socket \cup {NoSocket}
    /\ conn \in Socket \cup {NoSocket}
    /\ open \subseteq Socket /\ broken \subseteq Socket
    /\ held \in [Handler -> Socket \cup {NoSocket}]
    /\ done \in BOOLEAN /\ stop \in {"no", "close", "stopped"}
    /\ loc \in Serving => conn \in Socket

\* No socket is left open behind the back of the proxy, through any number of
\* errors and rebinds: one that is open is the one in use or about to be, and a
\* proxy that binds has closed the last one, so it never waits for itself
\* (proxy.go:63).
NoStraySocket ==
    /\ open \subseteq {conn, bound}
    /\ loc \in {"bind", "listen"} => open = {}

\* Socket errors, however many, never end the UDP proxy: Start returns an error,
\* on which main ends the program, only if the address is unusable or Stop was
\* called while there was no socket (proxy.go:62, main.go:217).
ErrorOnlyOnShutdown ==
    proto = "udp" /\ loc = "err" => ~goodAddr \/ (done /\ open = {})

\* An answer is lost to a closed socket only if that very socket has failed
\* since the query arrived, or the proxy was stopped: nothing else closes a
\* socket that handlers still hold (proxy.go:78).
ClosedForAReason ==
    \A h \in Handler :
        held[h] # NoSocket /\ held[h] \notin open => held[h] \in broken \/ done

\* The inductive strengthening: which socket each place of Start has in hand.
ListenerInv ==
    /\ ListenerTypeOK /\ NoStraySocket /\ ErrorOnlyOnShutdown /\ ClosedForAReason
    /\ IF loc = "assign" THEN bound \in Socket /\ open \subseteq {bound}
       ELSE bound = NoSocket
    /\ loc = "off" => open = {}
    /\ loc = "slot" => conn \in open \/ done
    /\ loc \in {"error", "close"} => conn \in broken
    /\ done <=> stop # "no"
=============================================================================
