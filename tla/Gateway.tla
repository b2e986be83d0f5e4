------------------------------- MODULE Gateway -------------------------------
(***************************************************************************)
(* The gateway process (cmd/mc-gateway/main.go, run and waitForServers):   *)
(* the order in which its parts are started, what ends the process, and    *)
(* the order in which the parts are then stopped and waited for.           *)
(*                                                                         *)
(* The Java proxy is ProxyServer.  The other parts are servers as Service  *)
(* describes them: they end once the context is done or their Close was    *)
(* called, and leave the error of their Serve in a channel that is read    *)
(* once.  run itself is one thread; todo is what it has yet to do.         *)
(***************************************************************************)
EXTENDS ProxyServer, Sequences

\* What is configured, with the connections that clients open.
CONSTANT Deployments

Parts == {"discovery", "metrics", "udp", "bedrock", "voice"}

\* In the order of run: first the load of the configuration, with a list of the
\* Services; the last two start goroutines that nobody waits for.
StartOrder ==
    <<"load", "discovery", "metrics", "udp", "bedrock", "voice", "availability", "watch">>
StopOrder  == <<"voice", "bedrock", "udp", "metrics">>

ASSUME DeploymentAssumption ==
    \A d \in Deployments :
        /\ d.enabled \subseteq Parts \cup {"availability", "watch"}
        /\ d.offered \subseteq Conns

VARIABLES
    deployment,     \* one of Deployments
    main,           \* run: "starting", "selecting", "stopping" or "returned"
    todo,           \* what run starts, or waits for, next
    part,           \* part -> "off", "serving", "done" or "failed" (in its channel), "read"
    proxy,          \* the goroutine of ListenAndServe: "off", "starting" or "up"
    proxyErr,       \* what Serve left in proxyErrCh: "nil" or "error"
    result,         \* what run returns
    signalled,      \* ghost: SIGINT or SIGTERM ended the context
    early,          \* ghost: it did before the last start that looks at the context
    failed,         \* ghost: something failed of its own accord
    late            \* ghost: connections that Shutdown did not wait for

runVars == <<main, todo, part, result>>
ghostVars == <<signalled, early, failed, late>>
gatewayVars == <<deployment, runVars, proxy, proxyErr, ghostVars>>
allVars == <<vars, gatewayVars>>

GatewayTypeOK ==
    /\ TypeOK
    /\ deployment \in Deployments
    /\ main \in {"starting", "selecting", "stopping", "returned"}
    /\ todo \in Seq(Parts \cup {"load", "availability", "watch", "shutdown", "proxyErr"})
    /\ part \in [Parts -> {"off", "serving", "done", "failed", "read"}]
    /\ proxy \in {"off", "starting", "up"}
    /\ {proxyErr, result} \subseteq {"nil", "error"}
    /\ {signalled, early, failed} \subseteq BOOLEAN
    /\ late \subseteq Conns

GatewayInit ==
    /\ Init
    /\ deployment \in Deployments
    /\ main = "starting"
    /\ todo = StartOrder
    /\ part = [p \in Parts |-> "off"]
    /\ proxy = "off"
    /\ proxyErr = "nil"
    /\ result = "nil"
    /\ signalled = FALSE
    /\ early = FALSE
    /\ failed = FALSE
    /\ late = {}

\* The waits of a list, and last the deferred Stop of the discovery watch.
Waits(list) == Append(list, "discovery")

-----------------------------------------------------------------------------
(* run: startup.                                                           *)

Starting(p) ==
    /\ main = "starting" /\ todo # <<>> /\ Head(todo) = p
    /\ p \in deployment.enabled \cup {"load"}

\* startKubernetesRuntimeDiscovery has started the watch and waits for its first sync.
AwaitsReady == Starting("discovery") /\ part["discovery"] # "off"

\* A start that succeeds, or has nothing to do.
StartPart ==
    /\ main = "starting" /\ todo # <<>>
    /\ ~Starting("discovery")
    /\ todo' = Tail(todo)
    /\ part' = [p \in Parts |-> IF Starting(p) THEN "serving" ELSE part[p]]
    /\ UNCHANGED <<vars, deployment, main, result, proxy, proxyErr, ghostVars>>

SpawnDiscovery ==
    /\ Starting("discovery") /\ part["discovery"] = "off"
    /\ part' = [part EXCEPT !["discovery"] = "serving"]
    /\ UNCHANGED <<vars, deployment, main, todo, result, proxy, proxyErr, ghostVars>>

DiscoveryReady ==
    /\ AwaitsReady
    /\ todo' = Tail(todo)
    /\ UNCHANGED <<vars, deployment, main, part, result, proxy, proxyErr, ghostVars>>

\* run returns the error of a start, once it has done the waits and the deferred calls.
Abort(waits) ==
    /\ main' = "stopping"
    /\ todo' = waits
    /\ result' = "error"
    /\ UNCHANGED <<current, listening, serve, wg, pc, handlerVars, deployment, proxy, proxyErr,
                   signalled, early, late>>

\* The parts that were started before are stopped in the reverse order.
StartFails ==
    /\ \E p \in deployment.enabled \cup {"load"} :
          /\ Starting(p) /\ ~AwaitsReady
          /\ Abort(IF p \in {"load", "discovery"} THEN <<>> ELSE Waits(StopOrder))
          /\ cancelled' = (cancelled \/ p \notin {"load", "discovery", "metrics"})
    /\ failed' = TRUE
    /\ UNCHANGED part

\* The watch ended before it was ready, which is an error whatever it returned.
DiscoveryEndsEarly ==
    /\ AwaitsReady
    /\ part["discovery"] \in {"done", "failed"}
    /\ part' = [part EXCEPT !["discovery"] = "read"]
    /\ Abort(<<>>)
    /\ UNCHANGED <<cancelled, failed>>

\* The end of the context is the error: that of the list of Services, of the wait for
\* the first sync, which leaves the watch to itself, or of the listen of the metrics.
StartInterrupted ==
    /\ cancelled
    /\ \/ Starting("load") /\ "discovery" \in deployment.enabled /\ Abort(<<>>)
       \/ AwaitsReady /\ Abort(<<>>)
       \/ Starting("metrics") /\ Abort(Waits(StopOrder))
    /\ UNCHANGED <<cancelled, failed, part>>

StartProxy ==
    /\ main = "starting" /\ todo = <<>>
    /\ main' = "selecting"
    /\ proxy' = "starting"
    /\ UNCHANGED <<vars, deployment, todo, part, result, proxyErr, ghostVars>>

-----------------------------------------------------------------------------
(* waitForServers.                                                         *)

Error(p) == IF part[p] = "failed" THEN "error" ELSE "nil"

\* The first channel that has a value cancels the context.
Select(case, value, list) ==
    /\ main = "selecting"
    /\ main' = "stopping"
    /\ cancelled' = TRUE
    /\ result' = value
    /\ todo' = Waits(list)
    /\ part' = IF case \in Parts THEN [part EXCEPT ![case] = "read"] ELSE part
    /\ UNCHANGED <<current, listening, serve, wg, pc, handlerVars, deployment, proxy,
                   proxyErr, ghostVars>>

SelectProxy == serve = "returned" /\ Select("proxy", proxyErr, StopOrder)

SelectPart(p, list) == part[p] \in {"done", "failed"} /\ Select(p, Error(p), list)

\* Wrong variant: the metrics server is waited for although its error was received.
SelectMetricsWaitsAgain ==
    SelectPart("metrics", <<"voice", "bedrock", "udp", "shutdown", "metrics">>)

SelectMetrics ==
    SelectPart("metrics", <<"voice", "bedrock", "udp", "shutdown", "proxyErr">>)
SelectUDP == SelectPart("udp", <<"voice", "bedrock", "shutdown", "metrics">>)
SelectBedrock == SelectPart("bedrock", <<"voice", "udp", "shutdown", "metrics">>)
SelectVoice == SelectPart("voice", <<"bedrock", "udp", "shutdown", "metrics">>)

\* Close and the receive of waitVoiceChatShutdown and the like, which return at once
\* for a part that was not started.
WaitForPart(p) ==
    /\ main = "stopping" /\ todo # <<>> /\ p = Head(todo)
    /\ part[p] \in {"off", "done", "failed"}
    /\ part' = [part EXCEPT ![p] = IF @ = "off" THEN @ ELSE "read"]
    /\ todo' = Tail(todo)
    /\ UNCHANGED <<vars, deployment, main, result, proxy, proxyErr, ghostVars>>

\* Server.Shutdown: the listener is closed, if Serve has stored one yet, ...
ShutdownListener ==
    /\ main = "stopping" /\ todo # <<>> /\ Head(todo) = "shutdown"
    /\ proxy = "up" /\ listening
    /\ listening' = FALSE
    /\ UNCHANGED <<current, cancelled, serve, wg, pc, handlerVars, gatewayVars>>

\* Wrong variant: Shutdown only closes the listener.
ShutdownWithoutWait ==
    /\ main = "stopping" /\ todo # <<>> /\ Head(todo) = "shutdown"
    /\ proxy = "up" => ~listening
    /\ todo' = Tail(todo)
    /\ late' = {c \in Conns : pc[c] \in {"none", "accepted"}}
    /\ UNCHANGED <<vars, deployment, main, part, result, proxy, proxyErr, signalled, early,
                   failed>>

\* ... and wg.Wait passes, perhaps between the Accept of a connection and its Add.
ShutdownWait ==
    /\ main = "stopping" /\ todo # <<>> /\ Head(todo) = "shutdown"
    /\ proxy = "up" => ~listening
    /\ wg = 0
    /\ todo' = Tail(todo)
    /\ late' = {c \in Conns : pc[c] \in {"none", "accepted"}}
    /\ UNCHANGED <<vars, deployment, main, part, result, proxy, proxyErr, signalled, early,
                   failed>>

\* Wrong variant: the error of the metrics server is dropped for that of the proxy.
ReceiveProxyErrOnly ==
    /\ main = "stopping" /\ todo # <<>> /\ Head(todo) = "proxyErr"
    /\ serve = "returned"
    /\ todo' = Tail(todo)
    /\ result' = proxyErr
    /\ UNCHANGED <<vars, deployment, main, part, proxy, proxyErr, ghostVars>>

ReceiveProxyErr ==
    /\ main = "stopping" /\ todo # <<>> /\ Head(todo) = "proxyErr"
    /\ serve = "returned"
    /\ todo' = Tail(todo)
    /\ result' = IF result = "error" THEN result ELSE proxyErr
    /\ UNCHANGED <<vars, deployment, main, part, proxy, proxyErr, ghostVars>>

RunReturns ==
    /\ main = "stopping" /\ todo = <<>>
    /\ main' = "returned"
    /\ UNCHANGED <<vars, deployment, todo, part, result, proxy, proxyErr, ghostVars>>

-----------------------------------------------------------------------------
(* The parts.                                                              *)

\* run has called Close or Stop of p.
Stopped(p) == main = "stopping" /\ todo # <<>> /\ Head(todo) = p

PartEnds(p) ==
    /\ part[p] = "serving"
    /\ cancelled \/ Stopped(p)
    /\ part' = [part EXCEPT ![p] = "done"]
    /\ UNCHANGED <<vars, deployment, main, todo, result, proxy, proxyErr, ghostVars>>

\* An HTTP server fails, or the watch: by its error before the first sync, or by a
\* deadline that it takes for a cancellation.  The UDP and Bedrock loops only log errors.
PartFails(p) ==
    /\ part[p] = "serving"
    /\ p \in {"discovery", "metrics", "voice"}
    /\ part' = [part EXCEPT ![p] = "failed"]
    /\ failed' = TRUE
    /\ UNCHANGED <<vars, deployment, main, todo, result, proxy, proxyErr, signalled, early,
                   late>>

Signal ==
    /\ Cancel
    /\ signalled' = TRUE
    /\ early' = (main = "starting"
                   /\ \E i \in 1..Len(todo) :
                         todo[i] \in {"discovery", "metrics"} \cap deployment.enabled)
    /\ UNCHANGED <<deployment, runVars, proxy, proxyErr, failed, late>>

\* ListenAndServe: on failure proxyErrCh has the error, which run takes for none if
\* it is that of the cancelled context.
Listen ==
    /\ proxy = "starting"
    /\ proxy' = "up"
    /\ \/ UNCHANGED <<listening, serve, proxyErr, failed>>
       \/ /\ listening' = FALSE
          /\ serve' = "returned"
          /\ \/ proxyErr' = "error" /\ failed' = TRUE
             \/ cancelled /\ UNCHANGED <<proxyErr, failed>>
    /\ UNCHANGED <<current, cancelled, wg, pc, handlerVars, deployment, runVars, signalled,
                   early, late>>

\* The error is returned unless the listener was closed or the context is done.
ProxyAcceptFails ==
    /\ AcceptFails
    /\ proxyErr' = IF cancelled \/ ~listening THEN "nil" ELSE "error"
    /\ failed' = (failed \/ proxyErr' = "error")
    /\ UNCHANGED <<deployment, runVars, proxy, signalled, early, late>>

ProxyAccept(c) == c \in deployment.offered /\ Accept(c)

-----------------------------------------------------------------------------
ProcessRuns == main # "returned"

RunStep ==
    \/ StartPart \/ SpawnDiscovery \/ StartFails \/ DiscoveryEndsEarly \/ StartInterrupted
    \/ StartProxy
    \/ SelectProxy \/ SelectMetrics \/ SelectUDP \/ SelectBedrock \/ SelectVoice
    \/ \E p \in Parts : WaitForPart(p)
    \/ ShutdownListener \/ ShutdownWait \/ ReceiveProxyErr \/ RunReturns

\* What the goroutines of the proxy do by themselves.
ProxyStep ==
    /\ proxy = "up"
    /\ \/ CloseListener \/ ServeReturns
       \/ \E c \in Conns : Spawn(c) \/ HandlerStep(c)
       \/ \E c \in Conns, d \in Directions : CopySeesEnd(c) /\ CopyEnds(c, d)
    /\ UNCHANGED gatewayVars

\* What clients, backends and reloads do.
ProxyInput ==
    /\ proxy = "up"
    /\ \/ \E options \in Options : SwapSnapshot(options)
       \/ \E c \in Conns : ProxyAccept(c)
       \/ \E c \in Conns, d \in Directions : CopyEnds(c, d)
    /\ UNCHANGED gatewayVars

GatewayNext ==
    /\ ProcessRuns
    /\ \/ RunStep
       \/ DiscoveryReady
       \/ Signal
       \/ \E p \in Parts : PartEnds(p) \/ PartFails(p)
       \/ Listen
       \/ proxy = "up" /\ ProxyAcceptFails
       \/ ProxyStep
       \/ ProxyInput

\* run, the parts that are told to stop, and the goroutines of the proxy go on.
\* Reads and dials of a handler are bounded by deadlines; a trusted proxy sends its
\* header, which no deadline covers.  A copy ends once a socket is closed.  Nobody
\* need send a signal, no peer need finish, no watch need become ready, and nothing
\* need fail.
GatewayStep ==
    /\ ProcessRuns
    /\ \/ RunStep
       \/ \E p \in Parts : PartEnds(p)
       \/ Listen
       \/ proxy = "up" /\ ~listening /\ ProxyAcceptFails
       \/ ProxyStep

GatewaySpec == GatewayInit /\ [][GatewayNext]_allVars /\ WF_allVars(GatewayStep)

-----------------------------------------------------------------------------
(* Properties.                                                             *)

\* When run returns, every part that was started has ended and was waited for, and
\* so has every connection whose handler had started when Shutdown was called: only
\* one that was just being accepted can be cut off by the exit of the process.  The
\* one part that may be left running is the watch of discovery, if a signal came while
\* run was waiting for its first sync, and then nothing else was started.
ExitLeavesNothingRunning ==
    main = "returned" =>
        /\ \A p \in Parts :
              \/ part[p] \in {"off", "read"}
              \/ p = "discovery" /\ early /\ \A q \in Parts \ {p} : part[q] = "off"
        /\ \A c \in Conns : pc[c] \in {"none", "gone"} \/ c \in late

\* The exit status tells a stop from a failure: run reports an error if no signal asked
\* the process to stop, and reports one only if something failed, or if the signal came
\* before the last start that looks at the context and kept run from serving.  A stop
\* during startup may so be reported as a failure: only the error of waitForServers is
\* compared with context.Canceled.
ExitStatusIsRight ==
    main = "returned" => /\ result = "error" => failed \/ (early /\ proxy = "off")
                         /\ ~signalled => result = "error"

\* Something that ends the process has happened: a signal, the failure of a part
\* that waitForServers selects on, or the end of the proxy.
StopCause ==
    \/ cancelled
    \/ \E p \in {"metrics", "voice"} : part[p] = "failed"
    \/ proxy = "up" /\ serve = "returned"

\* Whatever ends the process, in whichever phase and whichever order the other parts
\* then end: run returns.  No channel is waited on twice and no part waits for
\* another.
RunTerminates == StopCause ~> main = "returned"

\* When one direction of a proxied connection ends, its handler ends, unless the
\* process exits first.
EitherEndClosesBothOrExit ==
    \A c \in Conns, d \in Directions :
        copy[c][d] = "sent" ~> (pc[c] = "gone" \/ main = "returned")
==============================================================================
