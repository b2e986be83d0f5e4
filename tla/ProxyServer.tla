----------------------------- MODULE ProxyServer -----------------------------
(***************************************************************************)
(* The TCP proxy: the accept loop, one handler per connection, the two copy*)
(* goroutines of a proxied connection, and shutdown                        *)
(* (internal/proxy/server.go, Serve to copyAndClose).                      *)
(*                                                                         *)
(* What the client sends, and what the router, the policies and the backend*)
(* answer, is chosen by the environment; a snapshot is the set of the      *)
(* optional behaviours it enables.                                         *)
(***************************************************************************)
EXTENDS Integers, FiniteSets

CONSTANTS
    Conns,          \* connections that clients open
    Options,        \* sets of options a snapshot may enable
    None

\* trusted: the peer is a trusted proxy.  statusDenied, statusFailure and
\* loginDenied: the fallbacks.  override: the route has a statusOverride.
Option == {"trusted", "statusDenied", "statusFailure", "loginDenied", "override"}

ASSUME ProxyAssumption == IsFiniteSet(Conns) /\ Options \subseteq SUBSET Option

Directions == {"client_to_backend", "backend_to_client"}
Intents == {"status", "login", "transfer"}
Places == {"none", "accepted", "start", "header", "admit", "handshake", "route", "denied",
           "override", "dial", "failure", "write", "proxy", "drain", "finish", "close", "gone"}

VARIABLES
    current,        \* Server.state: the active snapshot
    cancelled,      \* ctx is cancelled
    listening,      \* the listener is open
    serve,          \* Serve: "accepting", "adding" (a connection), "waiting", "returned"
    wg,             \* Server.wg
    pc,             \* connection -> where its handler is
    state,          \* connection -> the snapshot its handler loaded
    intent,         \* connection -> NextState of its handshake
    client,         \* connection -> is the client socket open?
    backend,        \* connection -> "none", "open", "closed"
    copy,           \* connection -> direction -> "off", "copying", "sent", "received"
    outcome,        \* connection -> connectionResult and connectionReason
    active,         \* mc_gateway_active_connections
    responses       \* handlers that sent a fallback response

handlerVars == <<state, intent, client, backend, copy, outcome, active, responses>>
serverVars == <<current, cancelled, listening, serve, wg>>
vars == <<serverVars, pc, handlerVars>>

Results == {"failed", "denied", "closed"}
Reasons == {"unknown", "handshake_malformed", "handshake_timeout", "client_denied",
            "rate_limited", "route_denied", "success", "backend_dial_failed",
            "backend_dial_timeout", "context_cancelled", "initial_write_failed",
            "client_close", "backend_close"}
Outcomes == Results \X Reasons

TypeOK ==
    /\ current \in Options
    /\ {cancelled, listening} \subseteq BOOLEAN
    /\ serve \in {"accepting", "adding", "waiting", "returned"}
    /\ wg \in Nat
    /\ pc \in [Conns -> Places]
    /\ state \in [Conns -> Options \cup {None}]
    /\ intent \in [Conns -> Intents \cup {None}]
    /\ client \in [Conns -> BOOLEAN]
    /\ backend \in [Conns -> {"none", "open", "closed"}]
    /\ copy \in [Conns -> [Directions -> {"off", "copying", "sent", "received"}]]
    /\ outcome \in [Conns -> Outcomes]
    /\ active \in Nat
    /\ responses \subseteq Conns

Init ==
    /\ current \in Options
    /\ cancelled = FALSE
    /\ listening = TRUE
    /\ serve = "accepting"
    /\ wg = 0
    /\ pc = [c \in Conns |-> "none"]
    /\ state = [c \in Conns |-> None]
    /\ intent = [c \in Conns |-> None]
    /\ client = [c \in Conns |-> FALSE]
    /\ backend = [c \in Conns |-> "none"]
    /\ copy = [c \in Conns |-> [d \in Directions |-> "off"]]
    /\ outcome = [c \in Conns |-> <<"failed", "unknown">>]
    /\ active = 0
    /\ responses = {}

-----------------------------------------------------------------------------
(* Serve.                                                                  *)

Cancel ==
    /\ ~cancelled
    /\ cancelled' = TRUE
    /\ UNCHANGED <<current, listening, serve, wg, pc, handlerVars>>

\* The goroutine of Serve that closes the listener, or Shutdown.
CloseListener ==
    /\ cancelled /\ listening
    /\ listening' = FALSE
    /\ UNCHANGED <<current, cancelled, serve, wg, pc, handlerVars>>

SwapSnapshot(options) ==
    /\ options # current
    /\ current' = options
    /\ UNCHANGED <<cancelled, listening, serve, wg, pc, handlerVars>>

Accept(c) ==
    /\ serve = "accepting" /\ listening
    /\ pc[c] = "none"
    /\ serve' = "adding"
    /\ pc' = [pc EXCEPT ![c] = "accepted"]
    /\ client' = [client EXCEPT ![c] = TRUE]
    /\ UNCHANGED <<current, cancelled, listening, wg, state, intent, backend, copy,
                   outcome, active, responses>>

Spawn(c) ==
    /\ pc[c] = "accepted"
    /\ wg' = wg + 1
    /\ pc' = [pc EXCEPT ![c] = "start"]
    /\ serve' = "accepting"
    /\ UNCHANGED <<current, cancelled, listening, handlerVars>>

\* Accept fails for good: the listener was closed, or the error is not a
\* temporary one.
AcceptFails ==
    /\ serve = "accepting"
    /\ serve' = "waiting"
    /\ UNCHANGED <<current, cancelled, listening, wg, pc, handlerVars>>

ServeReturns ==
    /\ serve = "waiting"
    /\ wg = 0
    /\ serve' = "returned"
    /\ UNCHANGED <<current, cancelled, listening, wg, pc, handlerVars>>

-----------------------------------------------------------------------------
(* handleConn.                                                             *)

Goto(c, from, to) == pc[c] = from /\ pc' = [pc EXCEPT ![c] = to]

\* A return from handleConn with its result and reason; the deferred calls run
\* in FinishMetrics and CloseClient.
Return(c, from, result, reason) ==
    /\ Goto(c, from, "finish")
    /\ outcome' = [outcome EXCEPT ![c] = <<result, reason>>]

LoadState(c) ==
    /\ Goto(c, "start", IF "trusted" \in current THEN "header" ELSE "admit")
    /\ state' = [state EXCEPT ![c] = current]
    /\ active' = active + 1
    /\ UNCHANGED <<serverVars, intent, client, backend, copy, outcome, responses>>

\* proxyprotocol.Read.
ReadHeader(c) ==
    /\ \/ Goto(c, "header", "admit") /\ UNCHANGED outcome
       \/ Return(c, "header", "denied", "handshake_malformed")
    /\ UNCHANGED <<serverVars, state, intent, client, backend, copy, active, responses>>

\* Client policy and rate limit.
Admit(c) ==
    /\ \/ Goto(c, "admit", "handshake") /\ UNCHANGED outcome
       \/ Return(c, "admit", "denied", "client_denied")
       \/ Return(c, "admit", "denied", "rate_limited")
    /\ UNCHANGED <<serverVars, state, intent, client, backend, copy, active, responses>>

\* Bounded by handshakeTimeout.
ReadHandshake(c) ==
    /\ \/ /\ Goto(c, "handshake", "route")
          /\ \E i \in Intents : intent' = [intent EXCEPT ![c] = i]
          /\ UNCHANGED outcome
       \/ /\ \/ Return(c, "handshake", "denied", "handshake_malformed")
             \/ Return(c, "handshake", "denied", "handshake_timeout")
             \/ Return(c, "handshake", "failed", "unknown")
          /\ UNCHANGED intent
    /\ UNCHANGED <<serverVars, state, client, backend, copy, active, responses>>

StatusOverridden(c) == intent[c] = "status" /\ "override" \in state[c]

\* Router.Select, then the status override or the choice of the backend; the
\* scaler webhook is notified before the dial.
SelectRoute(c) ==
    /\ \/ /\ Goto(c, "route", "denied")
          /\ outcome' = [outcome EXCEPT ![c] = <<"denied", "route_denied">>]
       \/ StatusOverridden(c) /\ Goto(c, "route", "override") /\ UNCHANGED outcome
       \/ ~StatusOverridden(c) /\ Goto(c, "route", "dial") /\ UNCHANGED outcome
    /\ UNCHANGED <<serverVars, state, intent, client, backend, copy, active, responses>>

ServeStatusOverride(c) ==
    /\ \/ Return(c, "override", "closed", "success")
       \/ Goto(c, "override", "finish") /\ UNCHANGED outcome
    /\ UNCHANGED <<serverVars, state, intent, client, backend, copy, active, responses>>

FallbackOnDenial(c) ==
    \/ intent[c] = "status" /\ "statusDenied" \in state[c]
    \/ intent[c] = "login" /\ "loginDenied" \in state[c]

FallbackOnFailure(c) ==
    /\ intent[c] = "status" /\ "statusFailure" \in state[c]
    /\ outcome[c][2] \in {"backend_dial_failed", "backend_dial_timeout"}

\* serveStatusFallback or serveLoginDisconnectFallback: a response if the
\* client sends what it has to within handshakeTimeout.
ServeFallback(c) ==
    /\ \/ pc[c] = "denied" /\ FallbackOnDenial(c)
       \/ pc[c] = "failure" /\ FallbackOnFailure(c)
    /\ pc' = [pc EXCEPT ![c] = "finish"]
    /\ \/ responses' = responses \cup {c}
       \/ UNCHANGED responses
    /\ UNCHANGED <<serverVars, state, intent, client, backend, copy, outcome, active>>

CloseWithoutResponse(c) ==
    /\ \/ pc[c] = "denied" /\ ~FallbackOnDenial(c)
       \/ pc[c] = "failure" /\ ~FallbackOnFailure(c)
    /\ pc' = [pc EXCEPT ![c] = "finish"]
    /\ UNCHANGED <<serverVars, handlerVars>>

Dial(c) ==
    /\ \/ /\ Goto(c, "dial", "write")
          /\ backend' = [backend EXCEPT ![c] = "open"]
          /\ UNCHANGED outcome
       \/ /\ Goto(c, "dial", "failure")
          /\ \E reason \in {"backend_dial_failed", "backend_dial_timeout"}
                    \cup (IF cancelled THEN {"context_cancelled"} ELSE {}) :
                outcome' = [outcome EXCEPT ![c] = <<"failed", reason>>]
          /\ UNCHANGED backend
    /\ UNCHANGED <<serverVars, state, intent, client, copy, active, responses>>

WriteHandshake(c) ==
    /\ \/ /\ Goto(c, "write", "proxy")
          /\ copy' = [copy EXCEPT ![c] = [d \in Directions |-> "copying"]]
          /\ UNCHANGED outcome
       \/ /\ Return(c, "write", "failed", "initial_write_failed")
          /\ UNCHANGED copy
    /\ UNCHANGED <<serverVars, state, intent, client, backend, active, responses>>

\* The deferred calls run in reverse order: backend.Close, ConnectionFinished,
\* and then client.Close and wg.Done.
FinishMetrics(c) ==
    /\ Goto(c, "finish", "close")
    /\ backend' = [backend EXCEPT ![c] = IF @ = "none" THEN @ ELSE "closed"]
    /\ active' = active - 1
    /\ UNCHANGED <<serverVars, state, intent, client, copy, outcome, responses>>

\* The handler's own variables are gone with it.
CloseClient(c) ==
    /\ Goto(c, "close", "gone")
    /\ client' = [client EXCEPT ![c] = FALSE]
    /\ wg' = wg - 1
    /\ state' = [state EXCEPT ![c] = None]
    /\ intent' = [intent EXCEPT ![c] = None]
    /\ outcome' = [outcome EXCEPT ![c] = <<"failed", "unknown">>]
    /\ responses' = responses \ {c}
    /\ UNCHANGED <<current, cancelled, listening, serve, backend, copy, active>>

-----------------------------------------------------------------------------
(* proxy and copyAndClose.                                                 *)

CopySeesEnd(c) == ~client[c] \/ backend[c] = "closed"

\* io.Copy ends because a peer finished or failed, or because the handler
\* closed the sockets; the result waits in the channel done.
CopyEnds(c, d) ==
    /\ copy[c][d] = "copying"
    /\ copy' = [copy EXCEPT ![c][d] = "sent"]
    /\ UNCHANGED <<serverVars, pc, state, intent, client, backend, outcome, active, responses>>

CloseReason(d) == IF d = "backend_to_client" THEN "backend_close" ELSE "client_close"

\* Wrong variant: both copies must end before the sockets are closed.
ProxyWaitsForBoth(c) ==
    /\ Goto(c, "proxy", "drain")
    /\ cancelled \/ \A d \in Directions : copy[c][d] = "sent"
    /\ outcome' = [outcome EXCEPT ![c] = <<"closed", "client_close">>]
    /\ client' = [client EXCEPT ![c] = FALSE]
    /\ backend' = [backend EXCEPT ![c] = "closed"]
    /\ UNCHANGED <<serverVars, state, intent, copy, active, responses>>

\* The first result or the cancellation closes both sockets.
ProxySelect(c) ==
    /\ Goto(c, "proxy", "drain")
    /\ \/ /\ cancelled
          /\ outcome' = [outcome EXCEPT ![c] = <<"closed", "context_cancelled">>]
          /\ UNCHANGED copy
       \/ \E d \in Directions :
             /\ copy[c][d] = "sent"
             /\ copy' = [copy EXCEPT ![c][d] = "received"]
             /\ outcome' = [outcome EXCEPT ![c] = <<"closed", CloseReason(d)>>]
    /\ client' = [client EXCEPT ![c] = FALSE]
    /\ backend' = [backend EXCEPT ![c] = "closed"]
    /\ UNCHANGED <<serverVars, state, intent, active, responses>>

\* Wrong variant: proxy returns without waiting for the copies.
DrainNothing(c) ==
    /\ Goto(c, "drain", "finish")
    /\ UNCHANGED <<serverVars, handlerVars>>

\* The remaining results are received before proxy returns.
DrainCopies(c) ==
    /\ Goto(c, "drain", "finish")
    /\ \A d \in Directions : copy[c][d] # "copying"
    /\ copy' = [copy EXCEPT ![c] = [d \in Directions |-> "received"]]
    /\ UNCHANGED <<serverVars, state, intent, client, backend, outcome, active, responses>>

-----------------------------------------------------------------------------
HandlerStep(c) ==
    \/ LoadState(c) \/ ReadHeader(c) \/ Admit(c) \/ ReadHandshake(c) \/ SelectRoute(c)
    \/ ServeStatusOverride(c) \/ ServeFallback(c) \/ CloseWithoutResponse(c)
    \/ Dial(c) \/ WriteHandshake(c) \/ ProxySelect(c) \/ DrainCopies(c)
    \/ FinishMetrics(c) \/ CloseClient(c)

Next ==
    \/ Cancel \/ CloseListener \/ AcceptFails \/ ServeReturns
    \/ \E options \in Options : SwapSnapshot(options)
    \/ \E c \in Conns :
         \/ Accept(c) \/ Spawn(c) \/ HandlerStep(c)
         \/ \E d \in Directions : CopyEnds(c, d)

Spec == Init /\ [][Next]_vars

-----------------------------------------------------------------------------
(* Properties.                                                             *)

Running(c) == pc[c] \notin {"none", "accepted", "start", "close", "gone"}

\* When a handler is gone nothing of its connection is left: both sockets are
\* closed, and no copy goroutine runs or waits to hand over its result (proxy,
\* the deferred calls of handleConn).
NothingOutlivesHandler ==
    \A c \in Conns : pc[c] = "gone" =>
        /\ ~client[c] /\ backend[c] # "open"
        /\ \A d \in Directions : copy[c][d] \in {"off", "received"}

\* Serve returns only when no handler is left (wg.Add before the goroutine
\* starts, wg.Wait after Accept failed).
ServeWaitsForHandlers ==
    serve = "returned" => \A c \in Conns : pc[c] \in {"none", "gone"}

\* mc_gateway_active_connections is the number of running handlers, whichever
\* way they return.
ActiveGaugeIsExact == active = Cardinality({c \in Conns : Running(c)})

\* A connection counted as closed, rather than as failed or denied, was served:
\* either the status override answered and no backend was dialled, or a backend
\* was connected and the two copies ran (connectionResult of handleConn).
ClosedMeansServed ==
    \A c \in Conns : pc[c] = "close" /\ outcome[c][1] = "closed" =>
        \/ /\ outcome[c][2] = "success"
           /\ StatusOverridden(c) /\ backend[c] = "none"
        \/ /\ outcome[c][2] # "success"
           /\ backend[c] = "closed" /\ copy[c]["client_to_backend"] = "received"

\* A friendly answer goes only to the failures that its option covers, and never
\* once a backend was connected ("initial backend write failure fallback,
\* context cancellation fallback, and play-state handling are not implemented").
FallbackOnlyWhereEligible ==
    \A c \in responses :
        /\ backend[c] = "none"
        /\ outcome[c][2] \in {"route_denied", "backend_dial_failed", "backend_dial_timeout"}
        /\ intent[c] = "login" => outcome[c][2] = "route_denied"
        /\ intent[c] # "transfer"

=============================================================================
