----------------------------- MODULE BedrockProxy -----------------------------
(***************************************************************************)
(* The Bedrock host proxy (internal/bedrockproxy/proxy.go): the accept     *)
(* loop, one handler per client connection with its backend connection,    *)
(* the table of open connections, and Close.                               *)
(*                                                                         *)
(* A connection is a session of the Bedrock library, which closes it when  *)
(* its peer goes away.  Dial, StartGame and DoSpawn end by themselves: the *)
(* first has a deadline, the others a time limit of the library's own.     *)
(***************************************************************************)
EXTENDS Integers, FiniteSets

CONSTANT Clients    \* client connections

Sides == {"client", "server"}

VARIABLES
    closed,         \* Proxy.closed and closedCh
    listening,      \* the listener is open
    conns,          \* Proxy.conns: connections, as client and side
    open,           \* connections that are open
    closing,        \* those Close has yet to close
    closer,         \* Close: "idle", "listener", "conns" or "done"
    serve,          \* Serve: "accepting", "registering", "waiting" or "returned"
    pc,             \* client -> where its handler is
    pumps           \* client -> the goroutines of bridge that are still running

closeVars == <<closed, listening, closing, closer>>
vars == <<closeVars, conns, open, serve, pc, pumps>>

\* unregister: after the backend connection is unregistered; leave: the deferred
\* unregisterConn and wg.Done of the client.
Places == {"none", "accepted", "dial", "dialled", "failed", "spawn", "bridge", "disconnect",
           "unregister", "leave", "gone"}

TypeOK ==
    /\ {closed, listening} \subseteq BOOLEAN
    /\ {conns, open, closing} \subseteq SUBSET (Clients \X Sides)
    /\ closer \in {"idle", "listener", "conns", "done"}
    /\ serve \in {"accepting", "registering", "waiting", "returned"}
    /\ pc \in [Clients -> Places]
    /\ pumps \in [Clients -> SUBSET Sides]

Init ==
    /\ closed = FALSE
    /\ listening = TRUE
    /\ conns = {} /\ open = {} /\ closing = {}
    /\ closer = "idle"
    /\ serve = "accepting"
    /\ pc = [c \in Clients |-> "none"]
    /\ pumps = [c \in Clients |-> {}]

Client(c) == <<c, "client">>
Server(c) == <<c, "server">>
Both(c)   == {Client(c), Server(c)}

Goto(c, from, to) == pc[c] = from /\ pc' = [pc EXCEPT ![c] = to]

-----------------------------------------------------------------------------
(* Serve.                                                                  *)

Accept(c) ==
    /\ serve = "accepting" /\ listening
    /\ Goto(c, "none", "accepted")
    /\ serve' = "registering"
    /\ open' = open \cup {Client(c)}
    /\ UNCHANGED <<closeVars, conns, pumps>>

\* Wrong variant: registerConn does not look at closed.
MayAlwaysRegister == TRUE

\* registerConn, under connMu: refused once the proxy is closed.
MayRegister == ~closed

RegisterClient(c) ==
    /\ serve = "registering"
    /\ serve' = "accepting"
    /\ \/ /\ MayRegister
          /\ Goto(c, "accepted", "dial")
          /\ conns' = conns \cup {Client(c)}
          /\ UNCHANGED open
       \/ /\ ~MayRegister
          /\ Goto(c, "accepted", "gone")
          /\ open' = open \ {Client(c)}
          /\ UNCHANGED conns
    /\ UNCHANGED <<closeVars, pumps>>

\* Accept fails on the closed listener; a failure before that is only logged.
AcceptFails ==
    /\ serve = "accepting" /\ ~listening
    /\ serve' = "waiting"
    /\ UNCHANGED <<closeVars, conns, open, pc, pumps>>

ServeReturns ==
    /\ serve = "waiting"
    /\ \A c \in Clients : pc[c] \in {"none", "gone"}
    /\ serve' = "returned"
    /\ UNCHANGED <<closeVars, conns, open, pc, pumps>>

-----------------------------------------------------------------------------
(* Close.                                                                  *)

\* closeOnce: the flag and the list of connections, under connMu.
Close ==
    /\ closer = "idle"
    /\ closed' = TRUE
    /\ closing' = conns
    /\ closer' = "listener"
    /\ UNCHANGED <<listening, conns, open, serve, pc, pumps>>

CloseListener ==
    /\ closer = "listener"
    /\ listening' = FALSE
    /\ closer' = "conns"
    /\ UNCHANGED <<closed, closing, conns, open, serve, pc, pumps>>

CloseConn ==
    /\ closer = "conns"
    /\ \/ \E x \in closing : /\ closing' = closing \ {x}
                             /\ open' = open \ {x}
                             /\ UNCHANGED closer
       \/ closing = {} /\ closer' = "done" /\ UNCHANGED <<closing, open>>
    /\ UNCHANGED <<closed, listening, conns, serve, pc, pumps>>

-----------------------------------------------------------------------------
(* handleConn.                                                             *)

\* dialBackend for the selected backend, until dialCtx is done at the latest.
Dial(c) ==
    /\ \/ Goto(c, "dial", "dialled") /\ open' = open \cup {Server(c)}
       \/ Goto(c, "dial", "failed") /\ UNCHANGED open
    /\ UNCHANGED <<closeVars, conns, serve, pumps>>

\* clientConn.Close when the proxy is closed, or else listener.Disconnect.
DialFailed(c) ==
    /\ Goto(c, "failed", "leave")
    /\ open' = open \ {Client(c)}
    /\ UNCHANGED <<closeVars, conns, serve, pumps>>

\* Wrong variant: the client is left open when the backend is refused.
RegisterServerLeavesClient(c) ==
    /\ \/ /\ MayRegister
          /\ Goto(c, "dialled", "spawn")
          /\ conns' = conns \cup {Server(c)}
          /\ UNCHANGED open
       \/ /\ ~MayRegister
          /\ Goto(c, "dialled", "leave")
          /\ open' = open \ {Server(c)}
          /\ UNCHANGED conns
    /\ UNCHANGED <<closeVars, serve, pumps>>

RegisterServer(c) ==
    /\ \/ /\ MayRegister
          /\ Goto(c, "dialled", "spawn")
          /\ conns' = conns \cup {Server(c)}
          /\ UNCHANGED open
       \/ /\ ~MayRegister
          /\ Goto(c, "dialled", "leave")
          /\ open' = open \ Both(c)
          /\ UNCHANGED conns
    /\ UNCHANGED <<closeVars, serve, pumps>>

\* spawn: both StartGame and DoSpawn have ended.
Spawn(c) ==
    /\ \/ /\ Goto(c, "spawn", "bridge")
          /\ pumps' = [pumps EXCEPT ![c] = Sides]
       \/ Goto(c, "spawn", "disconnect") /\ UNCHANGED pumps
    /\ UNCHANGED <<closeVars, conns, open, serve>>

\* Wrong variant: only the side that failed is closed.
PumpClosesOwnSide(c, side) ==
    /\ side \in pumps[c]
    /\ pumps' = [pumps EXCEPT ![c] = @ \ {side}]
    /\ open' = open \ {<<c, side>>}
    /\ UNCHANGED <<closeVars, conns, serve, pc>>

\* A goroutine of bridge ends, and runs closeBoth: it reads from one side and writes
\* what it read to the other.
PumpEnds(c, side) ==
    /\ side \in pumps[c]
    /\ pumps' = [pumps EXCEPT ![c] = @ \ {side}]
    /\ open' = open \ Both(c)
    /\ UNCHANGED <<closeVars, conns, serve, pc>>

ReadFails(c, side) == <<c, side>> \notin open /\ PumpEnds(c, side)

\* Only if there is a packet to write.
WriteFails(c, side) == ~(Both(c) \subseteq open) /\ PumpEnds(c, side)

BridgeReturns(c) ==
    /\ pumps[c] = {}
    /\ Goto(c, "bridge", "disconnect")
    /\ UNCHANGED <<closeVars, conns, open, serve, pumps>>

\* The deferred Disconnect of the client and Close of the backend connection.
Disconnect(c) ==
    /\ Goto(c, "disconnect", "unregister")
    /\ open' = open \ Both(c)
    /\ UNCHANGED <<closeVars, conns, serve, pumps>>

UnregisterServer(c) ==
    /\ Goto(c, "unregister", "leave")
    /\ conns' = conns \ {Server(c)}
    /\ UNCHANGED <<closeVars, open, serve, pumps>>

UnregisterClient(c) ==
    /\ Goto(c, "leave", "gone")
    /\ conns' = conns \ {Client(c)}
    /\ UNCHANGED <<closeVars, open, serve, pumps>>

\* A peer goes away, and the library closes its connection.
PeerLeaves(x) ==
    /\ x \in open
    /\ open' = open \ {x}
    /\ UNCHANGED <<closeVars, conns, serve, pc, pumps>>

-----------------------------------------------------------------------------
HandlerStep(c) ==
    \/ Dial(c) \/ DialFailed(c) \/ RegisterServer(c) \/ Spawn(c) \/ BridgeReturns(c)
    \/ Disconnect(c) \/ UnregisterServer(c) \/ UnregisterClient(c)
    \/ \E side \in Sides : ReadFails(c, side)

ServeStep == (\E c \in Clients : RegisterClient(c)) \/ AcceptFails \/ ServeReturns

CloseStep == CloseListener \/ CloseConn

ProxyStep == (\E c \in Clients : HandlerStep(c)) \/ ServeStep \/ CloseStep

Next ==
    \/ \E c \in Clients : Accept(c) \/ \E side \in Sides : WriteFails(c, side)
    \/ \E x \in Clients \X Sides : PeerLeaves(x)
    \/ Close
    \/ ProxyStep

Spec == Init /\ [][Next]_vars

\* The proxy does not rest while one of its goroutines can run; peers need never go
\* away.
Fairness == WF_vars(ProxyStep)

FairSpec == Spec /\ Fairness

-----------------------------------------------------------------------------
(* Properties.                                                             *)

\* No connection is forgotten: one that is open has a handler, or Serve, that
\* will close it, and one in the table has a handler that will take it out.
NoOrphanConn ==
    /\ \A x \in open : pc[x[1]] \notin {"none", "unregister", "leave", "gone"}
    /\ \A x \in conns : pc[x[1]] \notin {"none", "accepted", "gone"}

\* One end of a bridged pair is gone.
HalfClosed(c) == pc[c] = "bridge" /\ ~(Both(c) \subseteq open)
===============================================================================
