------------------------------- MODULE Bedrock -------------------------------
(***************************************************************************)
(* The Bedrock edge of the gateway (cmd/mc-gateway/main.go, startBedrock): *)
(* according to bedrock.mode one listener is served by a UDP relay or by   *)
(* the host proxy, and run only sees a server that it can close and wait   *)
(* for.  The relay alone is also the gateway's udpRelay.                   *)
(***************************************************************************)
EXTENDS UDPRelay

VARIABLES
    mode,           \* bedrock.mode
    watched,        \* ghost: some client of the host proxy
    contended,      \* ghost: two goroutines have closed the same relay session
    hpClosed, hpListening, hpConns, hpOpen, hpClosing, hpCloser, hpServe, hpPc, hpPumps

HostProxy ==
    INSTANCE BedrockProxy WITH
        closed <- hpClosed, listening <- hpListening, conns <- hpConns, open <- hpOpen,
        closing <- hpClosing, closer <- hpCloser, serve <- hpServe, pc <- hpPc,
        pumps <- hpPumps

hostProxyVars == <<hpClosed, hpListening, hpConns, hpOpen, hpClosing, hpCloser, hpServe,
                   hpPc, hpPumps>>
bedrockVars == <<mode, watched, contended, vars, hostProxyVars>>

\* A goroutine of the relay is between closeSession and the end of the close of s.
Closes(t, s) ==
    \/ s \in removed[t]
    \/ target[t] = s /\ pc[t] \in {"closeSession", "finishClose"}

Contended ==
    \E s \in Sess : \E t, u \in Threads : t # u /\ Closes(t, s) /\ Closes(u, s)

BedrockInit ==
    /\ mode \in {"udp-forward", "host-proxy"}
    /\ watched \in IF mode = "host-proxy" THEN Clients ELSE {None}
    /\ contended = FALSE
    /\ Init
    /\ HostProxy!Init

\* The server that was not started keeps its initial state, where none of its own
\* steps is enabled: its Serve is not running.
BedrockNext ==
    /\ UNCHANGED <<mode, watched>>
    /\ \/ /\ mode = "udp-forward"
          /\ Next
          /\ contended' = (contended \/ Contended')
          /\ UNCHANGED hostProxyVars
       \/ /\ mode = "host-proxy"
          /\ HostProxy!Next
          /\ UNCHANGED <<contended, vars>>

BedrockSpec == BedrockInit /\ [][BedrockNext]_bedrockVars /\ Fairness /\ HostProxy!Fairness

------------------------------------------------------------------------------
(* Properties.                                                              *)

\* What run waits for in waitBedrockShutdown: Close has returned, and Serve.
RelayEnded == pc[Reader] = "done" /\ pc[Closer] = "shut" /\ removed[Closer] = {}
HostProxyEnded == hpServe = "returned" /\ hpCloser = "done"

Bedrock ==
    INSTANCE Service WITH
        phase <- IF RelayEnded \/ HostProxyEnded THEN "ended"
                 ELSE IF closed \/ hpClosed THEN "closing" ELSE "serving",
        holding <- open \cup hpOpen \cup hpConns # {}

\* In either mode, once Close was called both Close and Serve return, and then no
\* client or backend connection is open or in a table, whatever was being dialled,
\* spawned, forwarded or swept when Close began.
ImplementsService == Bedrock!Spec

\* Nothing that is open is forgotten.  A relay session is in the table or about to be
\* closed by whoever took it out.  A connection of the host proxy has a handler that
\* will close it, and the table holds none of a handler that is gone.
NothingIsOrphaned == NoOrphanSocket /\ HostProxy!NoOrphanConn

\* When one end of a bridged Bedrock connection goes away, the other is closed and
\* the handler ends, with or without a shutdown in between.  The client is any one:
\* it was chosen at the start.
HostProxyClosesBoth ==
    (watched \in Clients /\ HostProxy!HalfClosed(watched))
    ~> (watched \in Clients /\ hpPc[watched] = "gone")

\* mc_gateway_udp_sessions counts the sessions of the table, unless two goroutines
\* have closed the same session at once: then closeOnce may run in the one that does
\* not count.
SessionGaugeDriftsOnlyByContention ==
    Quiet /\ ~contended => gauge = Cardinality(InTable)
==============================================================================
