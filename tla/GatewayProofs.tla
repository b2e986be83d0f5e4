---------------------------- MODULE GatewayProofs ----------------------------
(***************************************************************************)
(* Proofs about ProxyServer, for any finite set of connections and any set *)
(* of snapshots, and about the process that runs it, for any deployment.   *)
(*                                                                         *)
(* The invariants of ProxyServer hold in the process: run only cancels the *)
(* context and closes the listener, both of which the proxy must expect at *)
(* any time, and a failed listen ends a Serve that has accepted nothing.   *)
(***************************************************************************)
EXTENDS Gateway, TLAPS

\* Steps are for Zenon, unless they name the other prover; they are small, and the
\* limit is for a busy machine.
USE ZenonT(60)

\* Handlers that Serve has added to its wait group.
Added == {c \in Conns : pc[c] \notin {"none", "accepted", "gone"}}

Counters == wg = Cardinality(Added) /\ ActiveGaugeIsExact

\* Serve holds at most one accepted connection that it has not added yet.
AcceptInv ==
    /\ \A c \in Conns : pc[c] = "accepted" => serve = "adding"
    /\ \A c, d \in Conns : pc[c] = "accepted" /\ pc[d] = "accepted" => c = d

\* Which sockets are open at each place of a handler.
SocketInv(c) ==
    /\ pc[c] = "gone" => ~client[c]
    /\ pc[c] \notin {"write", "proxy", "drain", "finish", "close", "gone"}
          => backend[c] = "none"
    /\ pc[c] = "drain" => backend[c] = "closed"
    /\ pc[c] \in {"close", "gone"} => backend[c] # "open"

\* The copies run only while proxy does.
CopyInv(c) ==
    /\ pc[c] \notin {"proxy", "drain", "finish", "close", "gone"}
          => \A d \in Directions : copy[c][d] = "off"
    /\ pc[c] \in {"finish", "close", "gone"}
          => \/ \A d \in Directions : copy[c][d] = "off"
             \/ \A d \in Directions : copy[c][d] = "received"

\* What the conclusion of ClosedMeansServed says of one connection.
Served(c) ==
    \/ /\ outcome[c][2] = "success"
       /\ StatusOverridden(c) /\ backend[c] = "none"
    \/ /\ outcome[c][2] # "success"
       /\ backend[c] = "closed" /\ copy[c]["client_to_backend"] = "received"

\* How a handler comes to the result closed.
OutcomeInv(c) ==
    /\ pc[c] \notin {"drain", "finish", "close"} => outcome[c][1] # "closed"
    /\ pc[c] = "drain" => outcome[c][1] = "closed" /\ outcome[c][2] # "success"
    /\ pc[c] = "override" => StatusOverridden(c)
    /\ pc[c] = "denied" => outcome[c][2] = "route_denied"
    /\ pc[c] \in {"finish", "close"} /\ outcome[c][1] = "closed" => Served(c)

\* A handler sends a fallback response as the last thing it does.
ResponseInv(c) ==
    c \in responses =>
        /\ pc[c] \in {"finish", "close"}
        /\ backend[c] = "none"
        /\ outcome[c][2] \in {"route_denied", "backend_dial_failed", "backend_dial_timeout"}
        /\ intent[c] = "login" => outcome[c][2] = "route_denied"
        /\ intent[c] # "transfer"

HandlerInv(c) == SocketInv(c) /\ CopyInv(c) /\ OutcomeInv(c) /\ ResponseInv(c)

\* The inductive invariant.
IInv ==
    /\ TypeOK
    /\ Counters
    /\ AcceptInv
    /\ ServeWaitsForHandlers
    /\ \A c \in Conns : HandlerInv(c)

-----------------------------------------------------------------------------
(* The counters.                                                           *)

\* The places at which a handler is counted in both counters.
Middle == Places \ {"none", "accepted", "start", "close", "gone"}

\* The actions of a handler between LoadState and FinishMetrics.
MiddleStep(c) ==
    \/ ReadHeader(c) \/ Admit(c) \/ ReadHandshake(c) \/ SelectRoute(c)
    \/ ServeStatusOverride(c) \/ ServeFallback(c) \/ CloseWithoutResponse(c)
    \/ Dial(c) \/ WriteHandshake(c) \/ ProxySelect(c) \/ DrainCopies(c)

\* Apart from Spawn, CloseConnection and Accept, a handler moves among the
\* places where Serve counts it and the gauge counts it.
LEMMA MiddleStepStaysInMiddle ==
    ASSUME TypeOK, NEW c \in Conns, MiddleStep(c)
    PROVE  /\ pc[c] \in Middle
           /\ \E q \in Middle : pc' = [pc EXCEPT ![c] = q]
           /\ UNCHANGED <<serverVars, active>>
  <1>1. CASE ReadHeader(c) \/ Admit(c) \/ ReadHandshake(c) \/ SelectRoute(c)
    BY <1>1 DEF ReadHeader, Admit, ReadHandshake, SelectRoute, Goto, Return, Middle, Places,
                serverVars
  <1>2. CASE ServeStatusOverride(c) \/ ServeFallback(c) \/ CloseWithoutResponse(c)
    BY <1>2 DEF ServeStatusOverride, ServeFallback, CloseWithoutResponse, Goto, Return,
                Middle, Places, serverVars, handlerVars
  <1>3. CASE Dial(c) \/ WriteHandshake(c) \/ ProxySelect(c) \/ DrainCopies(c)
    BY <1>3 DEF Dial, WriteHandshake, ProxySelect, DrainCopies, Goto, Return, Middle,
                Places, serverVars
  <1>4. QED
    BY <1>1, <1>2, <1>3 DEF MiddleStep

\* A step that moves no handler in or out keeps both counters exact.
LEMMA CountersFrame ==
    ASSUME Counters, UNCHANGED <<wg, active>>,
           Added' = Added, {c \in Conns : Running(c)}' = {c \in Conns : Running(c)}
    PROVE  Counters'
  BY DEF Counters, ActiveGaugeIsExact

-----------------------------------------------------------------------------
(* Types.                                                                  *)

\* The result and reason pairs that handleConn reports are Outcomes.
LEMMA OutcomeTypes ==
    /\ {"denied"} \X {"handshake_malformed", "handshake_timeout", "client_denied",
                      "rate_limited", "route_denied"} \subseteq Outcomes
    /\ {"failed"} \X {"unknown", "backend_dial_failed", "backend_dial_timeout",
                      "context_cancelled", "initial_write_failed"} \subseteq Outcomes
    /\ {"closed"} \X {"success", "context_cancelled", "client_close", "backend_close"}
          \subseteq Outcomes
  BY DEF Outcomes, Results, Reasons

\* Every step keeps the types, given those of the counters.
LEMMA TypeStep ==
    ASSUME TypeOK, [Next]_vars, wg' \in Nat, active' \in Nat
    PROVE  TypeOK'
  <1>1. CASE Cancel \/ CloseListener \/ AcceptFails \/ ServeReturns
    BY <1>1 DEF Cancel, CloseListener, AcceptFails, ServeReturns, TypeOK, handlerVars
  <1>2. ASSUME NEW options \in Options, SwapSnapshot(options) PROVE TypeOK'
    BY <1>2 DEF SwapSnapshot, TypeOK, handlerVars
  <1>3. ASSUME NEW c \in Conns, Accept(c) PROVE TypeOK'
    BY <1>3 DEF Accept, TypeOK, Places
  <1>4. ASSUME NEW c \in Conns, Spawn(c) PROVE TypeOK'
    BY <1>4 DEF Spawn, TypeOK, Places, handlerVars
  <1>5. ASSUME NEW c \in Conns, LoadState(c) PROVE TypeOK'
    BY <1>5 DEF LoadState, Goto, TypeOK, Places, serverVars
  <1>6. ASSUME NEW c \in Conns, ReadHeader(c) \/ Admit(c) PROVE TypeOK'
    <2>1. outcome' \in [Conns -> Outcomes]
      BY <1>6, OutcomeTypes, SMTT(60) DEF ReadHeader, Admit, Return, TypeOK
    <2>2. pc' \in [Conns -> Places]
      <3>1. CASE ReadHeader(c)
        BY <3>1 DEF ReadHeader, Goto, Return, TypeOK, Places
      <3>2. CASE Admit(c)
        BY <3>2 DEF Admit, Goto, Return, TypeOK, Places
      <3>3. QED
        BY <1>6, <3>1, <3>2
    <2>3. QED
      BY <1>6, <2>1, <2>2 DEF ReadHeader, Admit, TypeOK, serverVars
  <1>7. ASSUME NEW c \in Conns, ReadHandshake(c) PROVE TypeOK'
    <2>1. outcome' \in [Conns -> Outcomes]
      BY <1>7, OutcomeTypes, SMTT(60) DEF ReadHandshake, Return, TypeOK
    <2>2. intent' \in [Conns -> Intents \cup {None}]
      BY <1>7 DEF ReadHandshake, TypeOK
    <2>3. QED
      BY <1>7, <2>1, <2>2 DEF ReadHandshake, Goto, Return, TypeOK, Places, serverVars
  <1>8. ASSUME NEW c \in Conns, SelectRoute(c) \/ ServeStatusOverride(c) PROVE TypeOK'
    BY <1>8, OutcomeTypes DEF SelectRoute, ServeStatusOverride, Goto, Return,
                                   TypeOK, Places, serverVars
  <1>9. ASSUME NEW c \in Conns, ServeFallback(c) \/ CloseWithoutResponse(c) PROVE TypeOK'
    BY <1>9 DEF ServeFallback, CloseWithoutResponse, TypeOK, Places, serverVars, handlerVars
  <1>10. ASSUME NEW c \in Conns, Dial(c) PROVE TypeOK'
    <2>1. outcome' \in [Conns -> Outcomes]
      BY <1>10, OutcomeTypes, SMTT(60) DEF Dial, TypeOK
    <2>2. QED
      BY <1>10, <2>1 DEF Dial, Goto, TypeOK, Places, serverVars
  <1>11. ASSUME NEW c \in Conns, WriteHandshake(c) PROVE TypeOK'
    <2>1. outcome' \in [Conns -> Outcomes]
      BY <1>11, OutcomeTypes, SMTT(60) DEF WriteHandshake, Return, TypeOK
    <2>2. copy' \in [Conns -> [Directions -> {"off", "copying", "sent", "received"}]]
      BY <1>11, SMTT(60) DEF WriteHandshake, TypeOK
    <2>3. QED
      BY <1>11, <2>1, <2>2 DEF WriteHandshake, Goto, Return, TypeOK, Places, serverVars
  <1>12. ASSUME NEW c \in Conns, ProxySelect(c) PROVE TypeOK'
    <2>1. outcome' \in [Conns -> Outcomes]
      BY <1>12, OutcomeTypes, SMTT(60) DEF ProxySelect, CloseReason, TypeOK
    <2>2. copy' \in [Conns -> [Directions -> {"off", "copying", "sent", "received"}]]
      <3>1. ASSUME NEW d \in Directions, copy' = [copy EXCEPT ![c][d] = "received"]
            PROVE  copy' \in [Conns -> [Directions -> {"off", "copying", "sent", "received"}]]
        BY <3>1 DEF TypeOK
      <3>2. QED
        BY <1>12, <3>1 DEF ProxySelect, TypeOK
    <2>3. QED
      BY <1>12, <2>1, <2>2 DEF ProxySelect, Goto, TypeOK, Places, serverVars
  <1>13. ASSUME NEW c \in Conns, DrainCopies(c) PROVE TypeOK'
    BY <1>13 DEF DrainCopies, Goto, TypeOK, Places, serverVars
  <1>14. ASSUME NEW c \in Conns, FinishMetrics(c) PROVE TypeOK'
    BY <1>14 DEF FinishMetrics, Goto, TypeOK, Places, serverVars
  <1>15. ASSUME NEW c \in Conns, CloseClient(c) PROVE TypeOK'
    BY <1>15, OutcomeTypes DEF CloseClient, Goto, TypeOK, Places
  <1>16. ASSUME NEW c \in Conns, NEW d \in Directions, CopyEnds(c, d) PROVE TypeOK'
    BY <1>16 DEF CopyEnds, TypeOK, serverVars
  <1>17. CASE UNCHANGED vars
    BY <1>17 DEF vars, TypeOK, serverVars, handlerVars
  <1>18. QED
    BY <1>1, <1>2, <1>3, <1>4, <1>5, <1>6, <1>7, <1>8, <1>9, <1>10, <1>11, <1>12, <1>13,
       <1>14, <1>15, <1>16, <1>17 DEF Next, HandlerStep

-----------------------------------------------------------------------------
(* Handlers.                                                               *)

\* Nothing of u's handler changes.
SameHandler(u) ==
    /\ pc'[u] = pc[u]
    /\ state'[u] = state[u]
    /\ intent'[u] = intent[u]
    /\ client'[u] = client[u]
    /\ backend'[u] = backend[u]
    /\ copy'[u] = copy[u]
    /\ outcome'[u] = outcome[u]
    /\ u \in responses' => u \in responses

\* A step that leaves a handler's variables alone keeps its invariant.
LEMMA SameHandlerKeepsInv ==
    ASSUME NEW u \in Conns, HandlerInv(u), SameHandler(u)
    PROVE  HandlerInv(u)'
  <1>1. SocketInv(u)'
    BY DEF HandlerInv, SameHandler, SocketInv
  <1>2. CopyInv(u)'
    BY DEF HandlerInv, SameHandler, CopyInv
  <1>3. OutcomeInv(u)'
    <2>1. /\ Served(u)' <=> Served(u)
          /\ StatusOverridden(u)' <=> StatusOverridden(u)
      BY DEF SameHandler, Served, StatusOverridden
    <2>2. QED
      BY <2>1 DEF HandlerInv, SameHandler, OutcomeInv
  <1>4. ResponseInv(u)'
    BY DEF HandlerInv, SameHandler, ResponseInv
  <1>5. QED
    BY <1>1, <1>2, <1>3, <1>4 DEF HandlerInv

\* A step of one handler leaves the others alone.
LEMMA OthersUnchanged ==
    ASSUME TypeOK, NEW c \in Conns, NEW u \in Conns \ {c},
           \/ Accept(c) \/ Spawn(c) \/ HandlerStep(c)
           \/ \E d \in Directions : CopyEnds(c, d)
    PROVE  SameHandler(u)
  <1>1. CASE Accept(c) \/ Spawn(c) \/ \E d \in Directions : CopyEnds(c, d)
    BY <1>1 DEF Accept, Spawn, CopyEnds, SameHandler, TypeOK, handlerVars
  <1>2. CASE LoadState(c) \/ FinishMetrics(c) \/ CloseClient(c)
    BY <1>2, SMTT(60) DEF LoadState, FinishMetrics, CloseClient, Goto, SameHandler, TypeOK
  <1>3. CASE ReadHeader(c) \/ Admit(c) \/ ReadHandshake(c) \/ SelectRoute(c)
    BY <1>3, SMTT(60) DEF ReadHeader, Admit, ReadHandshake, SelectRoute, Goto, Return, SameHandler,
                TypeOK
  <1>4. CASE ServeStatusOverride(c) \/ ServeFallback(c) \/ CloseWithoutResponse(c)
    BY <1>4 DEF ServeStatusOverride, ServeFallback, CloseWithoutResponse, Goto, Return,
                SameHandler, TypeOK, handlerVars
  <1>5. CASE Dial(c) \/ WriteHandshake(c)
    BY <1>5, SMTT(60) DEF Dial, WriteHandshake, Goto, Return, SameHandler, TypeOK
  <1>6. CASE ProxySelect(c)
    BY <1>6 DEF ProxySelect, Goto, SameHandler, TypeOK
  <1>7. CASE DrainCopies(c)
    BY <1>7 DEF DrainCopies, Goto, SameHandler, TypeOK
  <1>8. QED
    BY <1>1, <1>2, <1>3, <1>4, <1>5, <1>6, <1>7 DEF HandlerStep

\* Where nothing else is asked of it, an outcome only must not be closed.
LEMMA NotClosedKeepsOutcomeInv ==
    ASSUME NEW c \in Conns, pc'[c] \notin {"drain", "override", "denied"},
           outcome'[c][1] # "closed"
    PROVE  OutcomeInv(c)'
  BY DEF OutcomeInv

\* A handler's own steps keep its invariant.
LEMMA OwnStep ==
    ASSUME TypeOK, NEW c \in Conns, HandlerInv(c),
           \/ Accept(c) \/ Spawn(c) \/ HandlerStep(c)
           \/ \E d \in Directions : CopyEnds(c, d)
    PROVE  HandlerInv(c)'
  <1> USE DEF HandlerInv
  <1>1. CASE Accept(c)
    BY <1>1 DEF Accept, TypeOK, StatusOverridden,
                SocketInv, CopyInv, OutcomeInv, Served, ResponseInv
  <1>2. CASE Spawn(c)
    BY <1>2 DEF Spawn, TypeOK, StatusOverridden, handlerVars,
                SocketInv, CopyInv, OutcomeInv, Served, ResponseInv
  <1>3. CASE LoadState(c)
    BY <1>3 DEF LoadState, Goto, TypeOK, StatusOverridden,
                SocketInv, CopyInv, OutcomeInv, Served, ResponseInv
  <1>4. CASE ReadHeader(c)
    <2>1. SocketInv(c)' /\ CopyInv(c)'
      BY <1>4 DEF SocketInv, CopyInv, ReadHeader, Goto, Return, TypeOK
    <2>2. OutcomeInv(c)'
      <3>1. pc[c] = "header" /\ outcome[c][1] # "closed"
        BY <1>4 DEF ReadHeader, Goto, Return, OutcomeInv
      <3>2. pc'[c] \notin {"drain", "override", "denied"} /\ outcome'[c][1] # "closed"
        BY <1>4, <3>1, SMTT(60) DEF ReadHeader, Goto, Return, TypeOK
      <3>3. QED
        BY <3>2, NotClosedKeepsOutcomeInv
    <2>3. ResponseInv(c)'
      BY <1>4 DEF ResponseInv, ReadHeader, Goto, Return, TypeOK
    <2>4. QED
      BY <2>1, <2>2, <2>3
  <1>5. CASE Admit(c)
    <2>1. SocketInv(c)' /\ CopyInv(c)'
      BY <1>5 DEF SocketInv, CopyInv, Admit, Goto, Return, TypeOK
    <2>2. OutcomeInv(c)'
      <3>1. pc[c] = "admit" /\ outcome[c][1] # "closed"
        BY <1>5 DEF Admit, Goto, Return, OutcomeInv
      <3>2. pc'[c] \notin {"drain", "override", "denied"} /\ outcome'[c][1] # "closed"
        BY <1>5, <3>1, SMTT(60) DEF Admit, Goto, Return, TypeOK
      <3>3. QED
        BY <3>2, NotClosedKeepsOutcomeInv
    <2>3. ResponseInv(c)'
      BY <1>5 DEF ResponseInv, Admit, Goto, Return, TypeOK
    <2>4. QED
      BY <2>1, <2>2, <2>3
  <1>6. CASE ReadHandshake(c)
    <2>1. SocketInv(c)' /\ CopyInv(c)'
      BY <1>6 DEF SocketInv, CopyInv, ReadHandshake, Goto, Return, TypeOK
    <2>2. OutcomeInv(c)'
      <3>1. pc[c] = "handshake" /\ outcome[c][1] # "closed"
        BY <1>6 DEF ReadHandshake, Goto, Return, OutcomeInv
      <3>2. pc'[c] \in {"route", "finish"}
        BY <1>6 DEF ReadHandshake, Goto, Return, TypeOK
      <3>3. \/ UNCHANGED outcome
            \/ \E r \in {"denied", "failed"}, reason \in Reasons :
                  outcome' = [outcome EXCEPT ![c] = <<r, reason>>]
        BY <1>6 DEF ReadHandshake, Return, Reasons
      <3>4. outcome'[c][1] # "closed"
        BY <3>1, <3>3, SMTT(60) DEF TypeOK
      <3>5. QED
        BY <3>2, <3>4, NotClosedKeepsOutcomeInv
    <2>3. ResponseInv(c)'
      BY <1>6 DEF ResponseInv, ReadHandshake, Goto, Return, TypeOK
    <2>4. QED
      BY <2>1, <2>2, <2>3
  <1>7. CASE SelectRoute(c)
    <2>1. SocketInv(c)' /\ CopyInv(c)'
      BY <1>7 DEF SocketInv, CopyInv, SelectRoute, Goto, TypeOK
    <2>2. OutcomeInv(c)'
      <3>1. pc[c] = "route" /\ outcome[c][1] # "closed"
        BY <1>7 DEF SelectRoute, Goto, OutcomeInv
      <3>2. /\ StatusOverridden(c)' <=> StatusOverridden(c)
            /\ pc'[c] \in {"denied", "override", "dial"}
            /\ pc'[c] = "override" => StatusOverridden(c)
        BY <1>7 DEF SelectRoute, Goto, StatusOverridden, TypeOK
      <3>3. \/ outcome' = [outcome EXCEPT ![c] = <<"denied", "route_denied">>]
            \/ UNCHANGED outcome /\ pc'[c] # "denied"
        BY <1>7 DEF SelectRoute, Goto, TypeOK
      <3>4. outcome'[c][1] # "closed" /\ (pc'[c] = "denied" => outcome'[c][2] = "route_denied")
        BY <3>1, <3>3, SMTT(60) DEF TypeOK
      <3>5. QED
        BY <3>2, <3>4 DEF OutcomeInv
    <2>3. ResponseInv(c)'
      BY <1>7 DEF ResponseInv, SelectRoute, Goto, TypeOK
    <2>4. QED
      BY <2>1, <2>2, <2>3
  <1>8. CASE ServeStatusOverride(c)
    <2>1. SocketInv(c)' /\ CopyInv(c)'
      BY <1>8 DEF SocketInv, CopyInv, ServeStatusOverride, Goto, Return, TypeOK
    <2>2. OutcomeInv(c)'
      <3>1. pc[c] = "override" /\ outcome[c][1] # "closed"
        BY <1>8 DEF ServeStatusOverride, Goto, Return, OutcomeInv
      <3>2. /\ StatusOverridden(c)' <=> StatusOverridden(c)
            /\ pc'[c] = "finish" /\ backend'[c] = backend[c]
        BY <1>8 DEF ServeStatusOverride, Goto, Return, StatusOverridden, TypeOK
      <3>3. StatusOverridden(c) /\ backend[c] = "none"
        BY <3>1 DEF OutcomeInv, SocketInv
      <3>4. outcome'[c][1] # "closed" \/ outcome'[c][2] = "success"
        BY <1>8, <3>1, SMTT(60) DEF ServeStatusOverride, Goto, Return, TypeOK
      <3>5. QED
        BY <3>2, <3>3, <3>4 DEF OutcomeInv, Served
    <2>3. ResponseInv(c)'
      BY <1>8 DEF ResponseInv, ServeStatusOverride, Goto, Return, TypeOK
    <2>4. QED
      BY <2>1, <2>2, <2>3
  <1>9. CASE ServeFallback(c)
    BY <1>9 DEF ServeFallback, FallbackOnDenial, FallbackOnFailure, TypeOK, StatusOverridden,
                SocketInv, CopyInv, OutcomeInv, Served, ResponseInv
  <1>10. CASE CloseWithoutResponse(c)
    BY <1>10 DEF CloseWithoutResponse, TypeOK, StatusOverridden, handlerVars,
                SocketInv, CopyInv, OutcomeInv, Served, ResponseInv
  <1>11. CASE Dial(c)
    <2>1. SocketInv(c)' /\ CopyInv(c)'
      BY <1>11 DEF SocketInv, CopyInv, Dial, Goto, TypeOK
    <2>2. OutcomeInv(c)'
      <3>1. pc[c] = "dial" /\ outcome[c][1] # "closed"
        BY <1>11 DEF Dial, Goto, OutcomeInv
      <3>2. pc'[c] \notin {"drain", "override", "denied"} /\ outcome'[c][1] # "closed"
        BY <1>11, <3>1, SMTT(60) DEF Dial, Goto, TypeOK
      <3>3. QED
        BY <3>2, NotClosedKeepsOutcomeInv
    <2>3. ResponseInv(c)'
      BY <1>11 DEF ResponseInv, Dial, Goto, TypeOK
    <2>4. QED
      BY <2>1, <2>2, <2>3
  <1>12. CASE WriteHandshake(c)
    <2>1. SocketInv(c)' /\ CopyInv(c)'
      BY <1>12 DEF SocketInv, CopyInv, WriteHandshake, Goto, Return, TypeOK
    <2>2. OutcomeInv(c)'
      <3>1. pc[c] = "write" /\ outcome[c][1] # "closed"
        BY <1>12 DEF WriteHandshake, Goto, Return, OutcomeInv
      <3>2. pc'[c] \notin {"drain", "override", "denied"} /\ outcome'[c][1] # "closed"
        BY <1>12, <3>1, SMTT(60) DEF WriteHandshake, Goto, Return, TypeOK
      <3>3. QED
        BY <3>2, NotClosedKeepsOutcomeInv
    <2>3. ResponseInv(c)'
      BY <1>12 DEF ResponseInv, WriteHandshake, Goto, Return, TypeOK
    <2>4. QED
      BY <2>1, <2>2, <2>3
  <1>13. CASE ProxySelect(c)
    <2>1. SocketInv(c)' /\ CopyInv(c)'
      BY <1>13 DEF SocketInv, CopyInv, ProxySelect, CloseReason, Goto, TypeOK
    <2>2. OutcomeInv(c)'
      <3>1. pc'[c] = "drain"
        BY <1>13 DEF ProxySelect, Goto, TypeOK
      <3>2. \E reason \in {"context_cancelled", "client_close", "backend_close"} :
               outcome' = [outcome EXCEPT ![c] = <<"closed", reason>>]
        BY <1>13 DEF ProxySelect, CloseReason
      <3>3. outcome'[c][1] = "closed" /\ outcome'[c][2] # "success"
        BY <3>2, SMTT(60) DEF TypeOK
      <3>4. QED
        BY <3>1, <3>3 DEF OutcomeInv
    <2>3. ResponseInv(c)'
      BY <1>13 DEF ResponseInv, ProxySelect, CloseReason, Goto, TypeOK
    <2>4. QED
      BY <2>1, <2>2, <2>3
  <1>14. CASE DrainCopies(c)
    BY <1>14 DEF DrainCopies, Directions, Goto, TypeOK, StatusOverridden,
                SocketInv, CopyInv, OutcomeInv, Served, ResponseInv
  <1>15. CASE FinishMetrics(c)
    BY <1>15 DEF FinishMetrics, Goto, TypeOK, StatusOverridden,
                SocketInv, CopyInv, OutcomeInv, Served, ResponseInv
  <1>16. CASE CloseClient(c)
    BY <1>16 DEF CloseClient, Goto, TypeOK, StatusOverridden,
                SocketInv, CopyInv, OutcomeInv, Served, ResponseInv
  <1>17. ASSUME NEW d \in Directions, CopyEnds(c, d) PROVE HandlerInv(c)'
    BY <1>17 DEF CopyEnds, TypeOK, StatusOverridden,
                SocketInv, CopyInv, OutcomeInv, Served, ResponseInv
  <1>18. QED
    BY <1>1, <1>2, <1>3, <1>4, <1>5, <1>6, <1>7, <1>8, <1>9, <1>10, <1>11, <1>12, <1>13,
       <1>14, <1>15, <1>16, <1>17 DEF HandlerStep

\* Every step keeps the invariant of every handler.
LEMMA HandlersStep ==
    ASSUME TypeOK, \A c \in Conns : HandlerInv(c), [Next]_vars
    PROVE  \A c \in Conns : HandlerInv(c)'
  <1> SUFFICES ASSUME NEW u \in Conns PROVE HandlerInv(u)'
    OBVIOUS
  <1>1. CASE SameHandler(u)
    BY <1>1, SameHandlerKeepsInv
  <1>2. ASSUME NEW c \in Conns,
               \/ Accept(c) \/ Spawn(c) \/ HandlerStep(c)
               \/ \E d \in Directions : CopyEnds(c, d)
        PROVE  HandlerInv(u)'
    <2>1. CASE u = c
      BY <1>2, <2>1, OwnStep
    <2>2. CASE u # c
      BY <1>1, <1>2, <2>2, OthersUnchanged
    <2>3. QED
      BY <2>1, <2>2
  <1>3. CASE \/ Cancel \/ CloseListener \/ AcceptFails \/ ServeReturns
             \/ \E options \in Options : SwapSnapshot(options)
             \/ UNCHANGED vars
    <2>1. SameHandler(u)
      BY <1>3 DEF Cancel, CloseListener, AcceptFails, ServeReturns, SwapSnapshot, vars,
                  handlerVars, SameHandler
    <2>2. QED
      BY <1>1, <2>1
  <1>4. QED
    BY <1>2, <1>3 DEF Next

-----------------------------------------------------------------------------
(* The gateway process.                                                    *)

\* ListenAndServe comes to Serve after the startup, and to connections after that.
Unstarted ==
    /\ main = "starting" => proxy = "off"
    /\ proxy # "up" => \A c \in Conns : pc[c] = "none"

GatewayIInv == IInv /\ Unstarted

-----------------------------------------------------------------------------
\* IInv mentions the context and the listener only in their types.
LEMMA CancelAndCloseKeepIInv ==
    ASSUME IInv, {cancelled, listening}' \subseteq BOOLEAN,
           UNCHANGED <<current, serve, wg, pc, handlerVars>>
    PROVE  IInv'
  <1>1. TypeOK'
    BY DEF IInv, TypeOK, handlerVars
  <1>2. Counters'
    BY DEF IInv, Counters, ActiveGaugeIsExact, Added, Running, handlerVars
  <1>3. AcceptInv' /\ ServeWaitsForHandlers'
    BY DEF IInv, AcceptInv, ServeWaitsForHandlers
  <1>4. ASSUME NEW c \in Conns PROVE HandlerInv(c)'
    BY SMTT(60) DEF IInv, HandlerInv, SocketInv, CopyInv, OutcomeInv, Served, ResponseInv,
           StatusOverridden, handlerVars
  <1>5. QED
    BY <1>1, <1>2, <1>3, <1>4 DEF IInv

\* A listen that fails ends Serve before any connection is accepted.
LEMMA ListenKeepsIInv ==
    ASSUME GatewayIInv, Listen
    PROVE  GatewayIInv'
  <1>1. TypeOK'
    BY DEF GatewayIInv, IInv, TypeOK, Listen, handlerVars
  <1>2. Counters'
    BY DEF GatewayIInv, IInv, Counters, ActiveGaugeIsExact, Added, Running, Listen, handlerVars
  <1>3. AcceptInv' /\ ServeWaitsForHandlers' /\ Unstarted'
    BY DEF GatewayIInv, Unstarted, IInv, AcceptInv, ServeWaitsForHandlers, Listen, runVars
  <1>4. ASSUME NEW c \in Conns PROVE HandlerInv(c)'
    BY SMTT(60) DEF GatewayIInv, IInv, HandlerInv, SocketInv, CopyInv, OutcomeInv, Served, ResponseInv,
           StatusOverridden, handlerVars, Listen
  <1>5. QED
    BY <1>1, <1>2, <1>3, <1>4 DEF GatewayIInv, IInv

\* The steps of run leave the proxy alone but for its context and its listener.
LEMMA RunStepKeepsIInv ==
    ASSUME GatewayIInv, RunStep
    PROVE  GatewayIInv'
  <1>b. cancelled \in BOOLEAN /\ listening \in BOOLEAN
    BY DEF GatewayIInv, IInv, TypeOK
  <1>1. /\ cancelled' \in BOOLEAN /\ listening' \in BOOLEAN
        /\ UNCHANGED <<current, serve, wg, pc, handlerVars>>
        /\ UNCHANGED proxy \/ (main = "starting" /\ proxy' = "starting")
        /\ main' = "starting" => main = "starting" /\ UNCHANGED proxy
    <2>1. CASE StartPart \/ SpawnDiscovery
      BY <1>b, <2>1 DEF StartPart, SpawnDiscovery, vars, serverVars
    <2>2. CASE StartFails \/ DiscoveryEndsEarly \/ StartInterrupted
      BY <1>b, <2>2 DEF StartFails, DiscoveryEndsEarly, StartInterrupted, Abort
    <2>3. CASE StartProxy
      BY <1>b, <2>3 DEF StartProxy, vars, serverVars
    <2>4. CASE SelectProxy \/ SelectMetrics \/ SelectUDP \/ SelectBedrock \/ SelectVoice
      BY <1>b, <2>4 DEF SelectProxy, SelectMetrics, SelectUDP, SelectBedrock, SelectVoice,
                        SelectPart, Select
    <2>5. CASE \E p \in Parts : WaitForPart(p)
      BY <1>b, <2>5 DEF WaitForPart, vars, serverVars
    <2>6. CASE ShutdownListener
      BY <1>b, <2>6 DEF ShutdownListener, gatewayVars, runVars
    <2>7. CASE ShutdownWait \/ ReceiveProxyErr \/ RunReturns
      BY <1>b, <2>7 DEF ShutdownWait, ReceiveProxyErr, RunReturns, vars, serverVars
    <2>8. QED
      BY <2>1, <2>2, <2>3, <2>4, <2>5, <2>6, <2>7 DEF RunStep
  <1>2. IInv'
    BY <1>1, CancelAndCloseKeepIInv DEF GatewayIInv
  <1>3. Unstarted'
    BY <1>1 DEF GatewayIInv, Unstarted
  <1>4. QED
    BY <1>2, <1>3 DEF GatewayIInv

-----------------------------------------------------------------------------
(* How run ends.                                                           *)

RunTypes ==
    /\ main \in {"starting", "selecting", "stopping", "returned"}
    /\ part \in [Parts -> {"off", "serving", "done", "failed", "read"}]
    /\ proxyErr \in {"nil", "error"} /\ result \in {"nil", "error"}
    /\ signalled \in BOOLEAN /\ early \in BOOLEAN /\ failed \in BOOLEAN

\* run has yet to wait for w.
InTodo(w) == \E i \in 1..Len(todo) : todo[i] = w

\* No handler that counts is left, and none will be.
Drained ==
    \/ proxy = "off"
    \/ serve = "returned"
    \/ \A c \in Conns \ late : pc[c] = "gone"

\* Nobody waits for the watch of a discovery that was not ready when the signal came.
Abandoned(p) == p = "discovery" /\ early /\ \A q \in Parts \ {p} : part[q] = "off"

\* What run has not waited for yet is in todo.
StopInv ==
    main \in {"stopping", "returned"} =>
        /\ todo \in Seq(Parts \cup {"shutdown", "proxyErr"})
        /\ \A p \in Parts : part[p] \in {"off", "read"} \/ InTodo(p) \/ Abandoned(p)
        /\ Drained \/ InTodo("shutdown")
        /\ main = "returned" => todo = <<>>

\* Load and discovery come before all other starts, so nothing else runs while run is
\* at one of them; and a cancelled context with a start to come that looks at it is
\* one that was cancelled early.
StartInv ==
    /\ early => cancelled
    /\ main = "starting" =>
          /\ todo \in Seq(Parts \cup {"load", "availability", "watch"})
          /\ \A i \in 1..Len(todo) :
                /\ todo[i] = "load" => i = 1
                /\ todo[i] = "discovery" => i = 1 \/ (i = 2 /\ todo[1] = "load")
          /\ InTodo("load") => InTodo("discovery") /\ \A p \in Parts : part[p] = "off"
          /\ InTodo("discovery") => \A p \in Parts \ {"discovery"} : part[p] = "off"
          /\ \A p \in {"discovery", "metrics"} \cap deployment.enabled :
                cancelled /\ InTodo(p) => early
          /\ \A p \in Parts : part[p] = "done" => cancelled

\* An error stands for a failure or for a startup that was cut short.  Until a signal
\* comes nothing but a failure ends the proxy or a part, and so nothing else ends the
\* select.
StatusInv ==
    /\ proxyErr = "error" \/ (\E p \in Parts : part[p] = "failed") => failed
    /\ result = "error" => failed \/ (early /\ proxy = "off")
    /\ main = "starting" => result = "nil"
    /\ main \in {"starting", "selecting"} /\ ~signalled =>
          /\ ~cancelled
          /\ \A p \in Parts : part[p] # "done"
          /\ IF serve \in {"waiting", "returned"} THEN proxyErr = "error" ELSE listening
    /\ main \in {"stopping", "returned"} /\ ~signalled => result = "error"

ExitInv == RunTypes /\ StartInv /\ StopInv /\ StatusInv

\* But for AcceptFails: a handler that is gone stays gone, Serve does not stop
\* accepting nor begin again, and only the context closes the listener.
LEMMA ServingFacts ==
    ASSUME IInv,
           \/ CloseListener \/ ServeReturns
           \/ \E options \in Options : SwapSnapshot(options)
           \/ \E c \in Conns : \/ Accept(c) \/ Spawn(c) \/ HandlerStep(c)
                               \/ \E d \in Directions : CopyEnds(c, d)
    PROVE  /\ serve = "returned" => serve' = "returned"
           /\ \A c \in Conns : pc[c] = "gone" => pc'[c] = "gone"
           /\ cancelled' = cancelled
           /\ listening' = listening \/ cancelled
           /\ serve' \in {"waiting", "returned"} <=> serve \in {"waiting", "returned"}
  <1>1. CASE \/ CloseListener \/ ServeReturns
             \/ \E options \in Options : SwapSnapshot(options)
    BY <1>1 DEF CloseListener, ServeReturns, SwapSnapshot
  <1>2. ASSUME NEW c \in Conns, Accept(c) \/ Spawn(c)
        PROVE  /\ serve = "adding" \/ serve = "accepting"
               /\ serve' \in {"adding", "accepting"}
               /\ \A e \in Conns : pc[e] = "gone" => pc'[e] = "gone"
               /\ UNCHANGED <<cancelled, listening>>
    BY <1>2 DEF IInv, TypeOK, AcceptInv, Accept, Spawn
  <1>3. ASSUME NEW c \in Conns, HandlerStep(c) \/ \E d \in Directions : CopyEnds(c, d)
        PROVE  /\ UNCHANGED <<serve, cancelled, listening>>
               /\ \A e \in Conns : pc[e] = "gone" => pc'[e] = "gone"
    <2>1. CASE MiddleStep(c)
      BY <2>1, MiddleStepStaysInMiddle DEF IInv, TypeOK, Middle, serverVars
    <2>2. CASE LoadState(c) \/ FinishMetrics(c) \/ CloseClient(c)
      BY <2>2 DEF IInv, TypeOK, LoadState, FinishMetrics, CloseClient, Goto, serverVars
    <2>3. CASE \E d \in Directions : CopyEnds(c, d)
      BY <2>3 DEF CopyEnds, serverVars
    <2>4. QED
      BY <1>3, <2>1, <2>2, <2>3 DEF HandlerStep, MiddleStep
  <1>4. QED
    BY <1>1, <1>2, <1>3

\* Taking the head off todo leaves the rest.
LEMMA TailKeepsTheRest ==
    ASSUME NEW S, todo \in Seq(S), todo # <<>>, todo' = Tail(todo)
    PROVE  /\ todo' \in Seq(S)
           /\ \A w : w # Head(todo) /\ InTodo(w) => InTodo(w)'
  <1>1. todo' \in Seq(S) /\ Len(todo') = Len(todo) - 1 /\ Len(todo) \in Nat
    BY SMTT(60)
  <1>2. ASSUME NEW w, w # Head(todo), NEW i \in 1..Len(todo), todo[i] = w
        PROVE  InTodo(w)'
    <2>1. i # 1
      BY <1>2, SMTT(60)
    <2>2. i - 1 \in 1..Len(todo') /\ todo'[i - 1] = w
      BY <1>1, <1>2, <2>1, SMTT(60)
    <2>3. QED
      BY <2>2 DEF InTodo
  <1>3. QED
    BY <1>1, <1>2 DEF InTodo

\* The head of todo is its first element, and the rest comes from behind it.
LEMMA TailIsBehindHead ==
    ASSUME NEW S, todo \in Seq(S), todo # <<>>
    PROVE  /\ 1 \in 1..Len(todo) /\ todo[1] = Head(todo)
           /\ InTodo(Head(todo))
           /\ todo' = Tail(todo) =>
                 /\ \A i \in 1..Len(todo') : i + 1 \in 1..Len(todo) /\ todo'[i] = todo[i + 1]
                 /\ \A w : InTodo(w)' => InTodo(w)
  <1>1. 1 \in 1..Len(todo) /\ todo[1] = Head(todo)
    BY SMTT(60)
  <1>2. ASSUME todo' = Tail(todo), NEW i \in 1..Len(todo')
        PROVE  i + 1 \in 1..Len(todo) /\ todo'[i] = todo[i + 1]
    BY <1>2, SMTT(60)
  <1>3. ASSUME todo' = Tail(todo), NEW w, InTodo(w)' PROVE InTodo(w)
    <2>1. PICK i \in 1..Len(todo') : todo'[i] = w
      BY <1>3 DEF InTodo
    <2>2. QED
      BY <1>2, <1>3, <2>1 DEF InTodo
  <1>4. QED
    BY <1>1, <1>2, <1>3 DEF InTodo

\* Drained only depends on the proxy, which no step of run moves.
LEMMA DrainedFrame ==
    ASSUME Drained, UNCHANGED <<serve, late, pc, proxy>>
    PROVE  Drained'
  BY DEF Drained

-----------------------------------------------------------------------------
\* The types of what run keeps.
LEMMA RunTypesStep ==
    ASSUME RunTypes, [GatewayNext]_allVars
    PROVE  RunTypes'
  <1>1. CASE StartPart \/ SpawnDiscovery \/ DiscoveryReady \/ StartProxy
    BY <1>1 DEF RunTypes, StartPart, SpawnDiscovery, DiscoveryReady, StartProxy, ghostVars
  <1>0. CASE StartFails \/ DiscoveryEndsEarly \/ StartInterrupted
    BY <1>0 DEF RunTypes, StartFails, DiscoveryEndsEarly, StartInterrupted, Abort
  <1>2. CASE SelectProxy \/ SelectMetrics \/ SelectUDP \/ SelectBedrock \/ SelectVoice
    BY <1>2 DEF RunTypes, SelectProxy, SelectMetrics, SelectUDP, SelectBedrock, SelectVoice,
                SelectPart, Select, Error, ghostVars
  <1>3. CASE \E p \in Parts : WaitForPart(p)
    BY <1>3 DEF RunTypes, WaitForPart, ghostVars
  <1>4. CASE ShutdownListener \/ ShutdownWait \/ ReceiveProxyErr \/ RunReturns
    BY <1>4 DEF RunTypes, ShutdownListener, ShutdownWait, ReceiveProxyErr, RunReturns,
                gatewayVars, runVars, ghostVars
  <1>5. CASE Signal \/ \E p \in Parts : PartEnds(p) \/ PartFails(p)
    BY <1>5 DEF RunTypes, Signal, PartEnds, PartFails, runVars, ghostVars
  <1>6. CASE Listen \/ ProxyAcceptFails
    BY <1>6 DEF RunTypes, Listen, ProxyAcceptFails, runVars
  <1>7. CASE ProxyStep \/ ProxyInput \/ UNCHANGED allVars
    BY <1>7 DEF RunTypes, ProxyStep, ProxyInput, allVars, gatewayVars, runVars, ghostVars
  <1>8. QED
    BY <1>0, <1>1, <1>2, <1>3, <1>4, <1>5, <1>6, <1>7 DEF GatewayNext, RunStep

\* The starts come in their order, and a signal looks at what is still to come.
LEMMA StartStep ==
    ASSUME IInv, RunTypes, StartInv, [GatewayNext]_allVars
    PROVE  StartInv'
  <1> DEFINE S == Parts \cup {"load", "availability", "watch"}
  <1>1. ASSUME main = "starting", todo # <<>>, todo' = Tail(todo),
               UNCHANGED <<main, cancelled, early, deployment>>,
               \A p \in Parts : part'[p] = part[p] \/ (p = Head(todo) /\ part'[p] = "serving")
        PROVE  StartInv'
    <2>1. todo \in Seq(S) /\ todo' \in Seq(S)
      BY <1>1, TailKeepsTheRest DEF StartInv
    <2>2. /\ todo[1] = Head(todo) /\ \A w : InTodo(w)' => InTodo(w)
          /\ \A i \in 1..Len(todo') : i + 1 \in 1..Len(todo) /\ todo'[i] = todo[i + 1]
      BY <1>1, <2>1, TailIsBehindHead
    <2>3. ASSUME NEW i \in 1..Len(todo')
          PROVE  /\ todo'[i] # "load"
                 /\ todo'[i] = "discovery" => i = 1 /\ Head(todo) = "load"
      <3>1. i + 1 # 1 /\ (i + 1 = 2 => i = 1)
        BY <2>3, SMTT(60)
      <3>2. QED
        BY <1>1, <2>2, <3>1 DEF StartInv
    <2>4. ~InTodo("load")'
      BY <2>3 DEF InTodo
    <2>5. InTodo("discovery")' => \A p \in Parts \ {"discovery"} : part'[p] = "off"
      <3>1. SUFFICES ASSUME InTodo("discovery")'
                     PROVE  \A p \in Parts \ {"discovery"} : part'[p] = "off"
        OBVIOUS
      <3>2. Head(todo) = "load" /\ InTodo("discovery")
        BY <2>2, <2>3, <3>1 DEF InTodo
      <3>3. Head(todo) \notin Parts
        BY <3>2 DEF Parts
      <3>4. QED
        BY <1>1, <3>2, <3>3 DEF StartInv
    <2>6. \A p \in Parts : part'[p] = "done" => cancelled'
      BY <1>1 DEF StartInv
    <2>7. QED
      BY <1>1, <2>1, <2>2, <2>3, <2>4, <2>5, <2>6 DEF StartInv
  <1>2. CASE StartPart
    <2>1. \A p \in Parts : part'[p] = part[p] \/ (p = Head(todo) /\ part'[p] = "serving")
      BY <1>2 DEF StartPart, Starting
    <2>2. QED
      BY <1>1, <1>2, <2>1 DEF StartPart, vars, serverVars, ghostVars
  <1>3. CASE DiscoveryReady
    BY <1>1, <1>3 DEF DiscoveryReady, AwaitsReady, Starting, vars, serverVars, ghostVars
  <1>4. ASSUME UNCHANGED <<main, todo, cancelled, early, deployment>>,
               main = "starting" => \A p \in Parts :
                  /\ part[p] = "off" => part'[p] = "off" \/ (p = "discovery" /\ ~InTodo("load"))
                  /\ part'[p] = "done" => cancelled
        PROVE  StartInv'
    <2>1. \A w : InTodo(w)' <=> InTodo(w)
      BY <1>4 DEF InTodo
    <2>2. QED
      BY <1>4, <2>1 DEF StartInv
  <1>5. CASE SpawnDiscovery
    <2>1. /\ UNCHANGED <<main, todo, cancelled, early, deployment>>
          /\ main = "starting" /\ todo # <<>> /\ Head(todo) = "discovery"
      BY <1>5 DEF SpawnDiscovery, Starting, vars, serverVars, ghostVars
    <2>2. todo[1] = "discovery"
      BY <2>1, TailIsBehindHead DEF StartInv
    <2>3. ~InTodo("load")
      BY <2>1, <2>2 DEF InTodo, StartInv
    <2>4. \A p \in Parts : part'[p] = part[p] \/ (p = "discovery" /\ part'[p] # "done")
      BY <1>5 DEF SpawnDiscovery, RunTypes
    <2>5. \A p \in Parts : part'[p] = "done" => cancelled
      BY <2>1, <2>4 DEF StartInv
    <2>6. \A p \in Parts : part[p] = "off" => part'[p] = "off" \/ p = "discovery"
      BY <2>4
    <2>7. QED
      BY <1>4, <2>1, <2>3, <2>5, <2>6
  <1>6. CASE \E p \in Parts : PartEnds(p) \/ PartFails(p)
    <2>1. UNCHANGED <<main, todo, cancelled, early, deployment>>
      BY <1>6 DEF PartEnds, PartFails, vars, serverVars, ghostVars
    <2>2. PICK p \in Parts : PartEnds(p) \/ PartFails(p)
      BY <1>6
    <2>3. /\ part[p] = "serving" /\ \A q \in Parts \ {p} : part'[q] = part[q]
          /\ main = "starting" /\ part'[p] = "done" => cancelled
      BY <2>2 DEF PartEnds, PartFails, Stopped, RunTypes
    <2>4. \A q \in Parts : part[q] = "off" => part'[q] = "off"
      BY <2>3
    <2>5. main = "starting" => \A q \in Parts : part'[q] = "done" => cancelled
      BY <2>3 DEF StartInv
    <2>6. QED
      BY <1>4, <2>1, <2>4, <2>5
  <1>7. CASE Signal
    <2>1. UNCHANGED <<main, todo, part, deployment>> /\ cancelled'
      BY <1>7 DEF Signal, Cancel, runVars
    <2>2. \A p \in {"discovery", "metrics"} \cap deployment.enabled :
             main = "starting" /\ InTodo(p) => early'
      BY <1>7 DEF Signal, InTodo
    <2>3. \A w : InTodo(w)' <=> InTodo(w)
      BY <2>1 DEF InTodo
    <2>4. QED
      BY <2>1, <2>2, <2>3 DEF StartInv
  <1>8. ASSUME main' # "starting", early' = early, cancelled => cancelled' PROVE StartInv'
    BY <1>8 DEF StartInv
  <1>9. CASE StartFails \/ DiscoveryEndsEarly \/ StartInterrupted
    BY <1>8, <1>9 DEF StartFails, DiscoveryEndsEarly, StartInterrupted, Abort
  <1>10. CASE StartProxy \/ RunReturns \/ ReceiveProxyErr \/ ShutdownWait
    BY <1>8, <1>10 DEF StartProxy, RunReturns, ReceiveProxyErr, ShutdownWait, vars, serverVars,
                       ghostVars
  <1>11. CASE SelectProxy \/ SelectMetrics \/ SelectUDP \/ SelectBedrock \/ SelectVoice
    <2>1. \E case, value, list : Select(case, value, list)
      BY <1>11 DEF SelectProxy, SelectMetrics, SelectUDP, SelectBedrock, SelectVoice, SelectPart
    <2>2. main' = "stopping" /\ early' = early /\ cancelled'
      BY <2>1 DEF Select, ghostVars
    <2>3. QED
      BY <1>8, <2>2
  <1>12. CASE \E p \in Parts : WaitForPart(p)
    <2>1. main' = "stopping" /\ early' = early /\ cancelled' = cancelled
      BY <1>12 DEF WaitForPart, vars, serverVars, ghostVars
    <2>2. QED
      BY <1>8, <2>1
  <1>13. CASE ShutdownListener \/ Listen \/ ProxyAcceptFails \/ UNCHANGED allVars
    <2>1. UNCHANGED <<main, todo, part, cancelled, early, deployment>>
      BY <1>13 DEF ShutdownListener, Listen, ProxyAcceptFails, AcceptFails, allVars, vars,
                   serverVars, gatewayVars, runVars, ghostVars
    <2>2. main = "starting" => \A p \in Parts : part'[p] = "done" => cancelled
      BY <2>1 DEF StartInv
    <2>3. QED
      BY <1>4, <2>1, <2>2
  <1>14. CASE ProxyStep \/ ProxyInput
    <2>1. UNCHANGED <<main, todo, part, early, deployment>>
      BY <1>14 DEF ProxyStep, ProxyInput, gatewayVars, runVars, ghostVars
    <2>2. cancelled' = cancelled
      BY <1>14, ServingFacts DEF ProxyStep, ProxyInput, ProxyAccept
    <2>3. main = "starting" => \A p \in Parts : part'[p] = "done" => cancelled
      BY <2>1 DEF StartInv
    <2>4. QED
      BY <1>4, <2>1, <2>2, <2>3
  <1>15. QED
    BY <1>2, <1>3, <1>5, <1>6, <1>7, <1>9, <1>10, <1>11, <1>12, <1>13, <1>14
       DEF GatewayNext, RunStep

\* The lists of waitForServers, and of a startup that fails, hold every part but the
\* one that was received from.
LEMMA ListsAreComplete ==
    ASSUME NEW case, NEW list,
           \/ case = "proxy"   /\ list = StopOrder
           \/ case = "metrics" /\ list = <<"voice", "bedrock", "udp", "shutdown", "proxyErr">>
           \/ case = "udp"     /\ list = <<"voice", "bedrock", "shutdown", "metrics">>
           \/ case = "bedrock" /\ list = <<"voice", "udp", "shutdown", "metrics">>
           \/ case = "voice"   /\ list = <<"bedrock", "udp", "shutdown", "metrics">>,
           todo' = Waits(list)
    PROVE  /\ todo' \in Seq(Parts \cup {"shutdown", "proxyErr"})
           /\ \A p \in Parts \ {case} : InTodo(p)'
           /\ case # "proxy" => InTodo("shutdown")'
  <1>1. CASE case = "proxy"
    <2>1. todo' = Append(<<"voice", "bedrock", "udp", "metrics">>, "discovery")
      BY <1>1 DEF Waits, StopOrder
    <2>2. todo' \in Seq(Parts \cup {"shutdown", "proxyErr"}) /\ Len(todo') = 5
      BY <2>1, SMTT(60) DEF Parts
    <2>3. /\ todo'[1] = "voice" /\ todo'[2] = "bedrock" /\ todo'[3] = "udp"
          /\ todo'[4] = "metrics" /\ todo'[5] = "discovery"
      BY <2>1, SMTT(60)
    <2>4. QED
      BY <1>1, <2>2, <2>3, SMTT(60) DEF InTodo, Parts
  <1>2. CASE case = "metrics"
    <2>1. todo' = Append(<<"voice", "bedrock", "udp", "shutdown", "proxyErr">>, "discovery")
      BY <1>2 DEF Waits
    <2>2. todo' \in Seq(Parts \cup {"shutdown", "proxyErr"}) /\ Len(todo') = 6
      BY <2>1, SMTT(60) DEF Parts
    <2>3. /\ todo'[1] = "voice" /\ todo'[2] = "bedrock" /\ todo'[3] = "udp"
          /\ todo'[4] = "shutdown" /\ todo'[5] = "proxyErr" /\ todo'[6] = "discovery"
      BY <2>1, SMTT(60)
    <2>4. QED
      BY <1>2, <2>2, <2>3, SMTT(60) DEF InTodo, Parts
  <1>3. CASE case = "udp"
    <2>1. todo' = Append(<<"voice", "bedrock", "shutdown", "metrics">>, "discovery")
      BY <1>3 DEF Waits
    <2>2. todo' \in Seq(Parts \cup {"shutdown", "proxyErr"}) /\ Len(todo') = 5
      BY <2>1, SMTT(60) DEF Parts
    <2>3. /\ todo'[1] = "voice" /\ todo'[2] = "bedrock" /\ todo'[3] = "shutdown"
          /\ todo'[4] = "metrics" /\ todo'[5] = "discovery"
      BY <2>1, SMTT(60)
    <2>4. QED
      BY <1>3, <2>2, <2>3, SMTT(60) DEF InTodo, Parts
  <1>4. CASE case = "bedrock"
    <2>1. todo' = Append(<<"voice", "udp", "shutdown", "metrics">>, "discovery")
      BY <1>4 DEF Waits
    <2>2. todo' \in Seq(Parts \cup {"shutdown", "proxyErr"}) /\ Len(todo') = 5
      BY <2>1, SMTT(60) DEF Parts
    <2>3. /\ todo'[1] = "voice" /\ todo'[2] = "udp" /\ todo'[3] = "shutdown"
          /\ todo'[4] = "metrics" /\ todo'[5] = "discovery"
      BY <2>1, SMTT(60)
    <2>4. QED
      BY <1>4, <2>2, <2>3, SMTT(60) DEF InTodo, Parts
  <1>5. CASE case = "voice"
    <2>1. todo' = Append(<<"bedrock", "udp", "shutdown", "metrics">>, "discovery")
      BY <1>5 DEF Waits
    <2>2. todo' \in Seq(Parts \cup {"shutdown", "proxyErr"}) /\ Len(todo') = 5
      BY <2>1, SMTT(60) DEF Parts
    <2>3. /\ todo'[1] = "bedrock" /\ todo'[2] = "udp" /\ todo'[3] = "shutdown"
          /\ todo'[4] = "metrics" /\ todo'[5] = "discovery"
      BY <2>1, SMTT(60)
    <2>4. QED
      BY <1>5, <2>2, <2>3, SMTT(60) DEF InTodo, Parts
  <1>6. QED
    BY <1>1, <1>2, <1>3, <1>4, <1>5

\* A start that fails or is cut short leaves either nothing to wait for, or everything
\* in todo.
LEMMA StartComesToStop ==
    ASSUME GatewayIInv, RunTypes, StartInv, StartFails \/ DiscoveryEndsEarly \/ StartInterrupted
    PROVE  StopInv'
  <1>0. main = "starting" /\ todo # <<>> /\ proxy' = "off" /\ main' = "stopping" /\ early' = early
    BY DEF StartFails, DiscoveryEndsEarly, StartInterrupted, AwaitsReady, Starting, Abort,
           GatewayIInv, Unstarted
  <1>1. ASSUME todo' = Waits(StopOrder) PROVE StopInv'
    <2>1. \A p \in Parts : InTodo(p)'
      BY <1>1, ListsAreComplete DEF Parts
    <2>2. todo' \in Seq(Parts \cup {"shutdown", "proxyErr"})
      BY <1>1, ListsAreComplete
    <2>3. QED
      BY <1>0, <2>1, <2>2 DEF StopInv, Drained
  <1>2. ASSUME todo' = <<>>, \A p \in Parts : part'[p] \in {"off", "read"} \/ Abandoned(p)'
        PROVE  StopInv'
    <2>1. todo' \in Seq(Parts \cup {"shutdown", "proxyErr"})
      BY <1>2, SMTT(60)
    <2>2. QED
      BY <1>0, <1>2, <2>1 DEF StopInv, Drained
  <1>3. InTodo(Head(todo))
    BY <1>0, TailIsBehindHead DEF StartInv
  <1>4. Head(todo) = "load" => \A p \in Parts : part[p] = "off"
    BY <1>0, <1>3 DEF StartInv
  <1>5. Head(todo) = "discovery" => \A p \in Parts \ {"discovery"} : part[p] = "off"
    BY <1>0, <1>3 DEF StartInv
  <1>6. CASE StartFails
    <2>1. PICK p : /\ Starting(p) /\ ~AwaitsReady
                   /\ Abort(IF p \in {"load", "discovery"} THEN <<>> ELSE Waits(StopOrder))
      BY <1>6 DEF StartFails
    <2>2. Head(todo) = p /\ part' = part
      BY <1>6, <2>1 DEF StartFails, Starting
    <2>3. CASE p \notin {"load", "discovery"}
      BY <1>1, <2>1, <2>3 DEF Abort
    <2>4. CASE p \in {"load", "discovery"}
      <3>1. p = "discovery" => part["discovery"] = "off"
        BY <2>1 DEF AwaitsReady
      <3>2. \A q \in Parts : part'[q] = "off"
        BY <1>4, <1>5, <2>2, <2>4, <3>1
      <3>3. QED
        BY <1>2, <2>1, <2>4, <3>2 DEF Abort
    <2>5. QED
      BY <2>3, <2>4
  <1>7. CASE DiscoveryEndsEarly
    <2>1. Head(todo) = "discovery" /\ todo' = <<>>
      BY <1>7 DEF DiscoveryEndsEarly, AwaitsReady, Starting, Abort
    <2>2. \A p \in Parts : IF p = "discovery" THEN part'[p] = "read" ELSE part'[p] = part[p]
      BY <1>7 DEF DiscoveryEndsEarly, RunTypes
    <2>3. QED
      BY <1>2, <1>5, <2>1, <2>2
  <1>8. CASE StartInterrupted
    <2>1. part' = part /\ cancelled
      BY <1>8 DEF StartInterrupted
    <2>2. CASE Starting("load") /\ Abort(<<>>)
      BY <1>2, <1>4, <2>1, <2>2 DEF Starting, Abort
    <2>3. CASE AwaitsReady /\ Abort(<<>>)
      <3>1. Head(todo) = "discovery" /\ "discovery" \in deployment.enabled
        BY <2>3 DEF AwaitsReady, Starting
      <3>2. early
        BY <1>0, <1>3, <2>1, <3>1 DEF StartInv
      <3>3. \A p \in Parts : part'[p] = "off" \/ Abandoned(p)'
        BY <1>0, <1>5, <2>1, <3>1, <3>2 DEF Abandoned
      <3>4. QED
        BY <1>2, <2>3, <3>3 DEF Abort
    <2>4. CASE Abort(Waits(StopOrder))
      BY <1>1, <2>4 DEF Abort
    <2>5. QED
      BY <1>8, <2>2, <2>3, <2>4 DEF StartInterrupted
  <1>9. QED
    BY <1>6, <1>7, <1>8

\* The select comes to stop with everything in todo that run has to wait for.
LEMMA ComesToStop ==
    ASSUME GatewayIInv, RunTypes,
           SelectProxy \/ SelectMetrics \/ SelectUDP \/ SelectBedrock \/ SelectVoice
    PROVE  StopInv'
  <1>2. ASSUME NEW case, NEW value, NEW list, Select(case, value, list),
               case = "proxy" \/ case \in Parts,
               case = "proxy" => serve = "returned",
               /\ todo' \in Seq(Parts \cup {"shutdown", "proxyErr"})
               /\ \A p \in Parts \ {case} : InTodo(p)'
               /\ case # "proxy" => InTodo("shutdown")'
        PROVE  StopInv'
    <2>1. main' = "stopping" /\ serve' = serve
      BY <1>2 DEF Select
    <2>2. \A p \in Parts : p = case => part'[p] = "read"
      BY <1>2 DEF Select, RunTypes
    <2>3. QED
      BY <1>2, <2>1, <2>2 DEF StopInv, Drained
  <1>3. CASE SelectProxy
    <2>1. serve = "returned" /\ Select("proxy", proxyErr, StopOrder) /\ todo' = Waits(StopOrder)
      BY <1>3 DEF SelectProxy, Select
    <2>2. QED
      BY <1>2, <2>1, ListsAreComplete
  <1>4. CASE SelectMetrics
    <2> DEFINE list == <<"voice", "bedrock", "udp", "shutdown", "proxyErr">>
    <2>1. Select("metrics", Error("metrics"), list) /\ todo' = Waits(list)
      BY <1>4 DEF SelectMetrics, SelectPart, Select
    <2>2. "metrics" \in Parts
      BY DEF Parts
    <2>3. QED
      BY <1>2, <2>1, <2>2, ListsAreComplete
  <1>5. CASE SelectUDP
    <2> DEFINE list == <<"voice", "bedrock", "shutdown", "metrics">>
    <2>1. Select("udp", Error("udp"), list) /\ todo' = Waits(list)
      BY <1>5 DEF SelectUDP, SelectPart, Select
    <2>2. "udp" \in Parts
      BY DEF Parts
    <2>3. QED
      BY <1>2, <2>1, <2>2, ListsAreComplete
  <1>6. CASE SelectBedrock
    <2> DEFINE list == <<"voice", "udp", "shutdown", "metrics">>
    <2>1. Select("bedrock", Error("bedrock"), list) /\ todo' = Waits(list)
      BY <1>6 DEF SelectBedrock, SelectPart, Select
    <2>2. "bedrock" \in Parts
      BY DEF Parts
    <2>3. QED
      BY <1>2, <2>1, <2>2, ListsAreComplete
  <1>7. CASE SelectVoice
    <2> DEFINE list == <<"bedrock", "udp", "shutdown", "metrics">>
    <2>1. Select("voice", Error("voice"), list) /\ todo' = Waits(list)
      BY <1>7 DEF SelectVoice, SelectPart, Select
    <2>2. "voice" \in Parts
      BY DEF Parts
    <2>3. QED
      BY <1>2, <2>1, <2>2, ListsAreComplete
  <1>8. QED
    BY <1>3, <1>4, <1>5, <1>6, <1>7

-----------------------------------------------------------------------------
\* A step of run keeps the status right.
LEMMA StatusRunStep ==
    ASSUME GatewayIInv, RunTypes, StartInv, StatusInv, RunStep
    PROVE  StatusInv'
  <1>1. CASE StartPart \/ SpawnDiscovery
    <2>1. UNCHANGED <<vars, main, result, proxy, proxyErr, ghostVars>>
      BY <1>1 DEF StartPart, SpawnDiscovery
    <2>2. \A p \in Parts : part'[p] = part[p] \/ part'[p] = "serving"
      BY <1>1 DEF StartPart, SpawnDiscovery, RunTypes
    <2>3. QED
      BY <2>1, <2>2, SMTT(60) DEF StatusInv, vars, serverVars, ghostVars
  <1>2. CASE StartFails
    BY <1>2 DEF StartFails, Abort, StatusInv
  <1>a. CASE DiscoveryEndsEarly \/ StartInterrupted
    <2>1. /\ main = "starting" /\ todo # <<>> /\ proxy' = "off"
          /\ main' = "stopping" /\ result' = "error"
          /\ UNCHANGED <<proxyErr, failed, early>>
          /\ \A p \in Parts : part'[p] \in {part[p], "read"}
      BY <1>a DEF DiscoveryEndsEarly, StartInterrupted, AwaitsReady, Starting, Abort, GatewayIInv,
                  Unstarted, RunTypes
    <2>2. InTodo(Head(todo))
      BY <2>1, TailIsBehindHead DEF StartInv
    <2>3. CASE DiscoveryEndsEarly
      <3>1. /\ Head(todo) = "discovery" /\ "discovery" \in deployment.enabled
            /\ part["discovery"] \in {"done", "failed"} /\ "discovery" \in Parts
        BY <2>3 DEF DiscoveryEndsEarly, AwaitsReady, Starting, Parts
      <3>2. failed \/ early
        BY <2>1, <2>2, <3>1 DEF StartInv, StatusInv
      <3>3. QED
        BY <2>1, <3>2 DEF StatusInv
    <2>4. CASE StartInterrupted
      <3>1. /\ cancelled
            /\ \/ Head(todo) = "load" /\ "discovery" \in deployment.enabled
               \/ Head(todo) = "discovery" /\ "discovery" \in deployment.enabled
               \/ Head(todo) = "metrics" /\ "metrics" \in deployment.enabled
        BY <2>4 DEF StartInterrupted, AwaitsReady, Starting
      <3>2. early
        BY <2>1, <2>2, <3>1 DEF StartInv
      <3>3. QED
        BY <2>1, <3>2 DEF StatusInv
    <2>5. QED
      BY <1>a, <2>3, <2>4
  <1>3. CASE StartProxy
    BY <1>3 DEF StartProxy, StatusInv, vars, serverVars, ghostVars
  <1>4. CASE SelectProxy
    BY <1>4 DEF SelectProxy, Select, StatusInv, ghostVars, Parts
  <1>5. ASSUME NEW p \in Parts, NEW list, SelectPart(p, list) PROVE StatusInv'
    BY <1>5 DEF SelectPart, Select, Error, StatusInv, RunTypes, ghostVars
  <1>6. CASE SelectMetrics \/ SelectUDP \/ SelectBedrock \/ SelectVoice
    BY <1>5, <1>6 DEF SelectMetrics, SelectUDP, SelectBedrock, SelectVoice, Parts
  <1>7. CASE \E p \in Parts : WaitForPart(p)
    BY <1>7, SMTT(60) DEF WaitForPart, StatusInv, RunTypes, ghostVars
  <1>8. CASE ShutdownListener \/ ShutdownWait \/ RunReturns
    BY <1>8 DEF ShutdownListener, ShutdownWait, RunReturns, StatusInv, gatewayVars, runVars,
                ghostVars
  <1>9. CASE ReceiveProxyErr
    BY <1>9 DEF ReceiveProxyErr, StatusInv, ghostVars
  <1>10. QED
    BY <1>a, <1>1, <1>2, <1>3, <1>4, <1>6, <1>7, <1>8, <1>9 DEF RunStep

\* And so does a step of anything else.
LEMMA StatusOtherStep ==
    ASSUME IInv, RunTypes, StartInv, StatusInv, [GatewayNext]_allVars, ~RunStep
    PROVE  StatusInv'
  <1>0. CASE DiscoveryReady
    BY <1>0 DEF DiscoveryReady, StatusInv, vars, serverVars, ghostVars
  <1>1. CASE Signal
    <2>1. ~early
      BY <1>1 DEF Signal, Cancel, StartInv
    <2>2. QED
      BY <1>1, <2>1 DEF Signal, StatusInv, runVars
  <1>2. CASE \E p \in Parts : PartEnds(p)
    BY <1>2, SMTT(60) DEF PartEnds, Stopped, StatusInv, RunTypes, vars, serverVars, ghostVars
  <1>3. CASE \E p \in Parts : PartFails(p)
    BY <1>3, SMTT(60) DEF PartFails, StatusInv, RunTypes, vars, serverVars
  <1>4. CASE Listen
    BY <1>4, SMTT(60) DEF Listen, StatusInv, RunTypes, runVars
  <1>5. CASE proxy = "up" /\ ProxyAcceptFails
    <2>1. /\ serve = "accepting" /\ serve' = "waiting" /\ UNCHANGED <<cancelled, listening>>
          /\ proxyErr' = IF cancelled \/ ~listening THEN "nil" ELSE "error"
          /\ UNCHANGED <<main, part, result, proxy, signalled, early>>
      BY <1>5 DEF ProxyAcceptFails, AcceptFails, runVars
    <2>2. (failed => failed') /\ (proxyErr' = "error" => failed')
      BY <1>5 DEF ProxyAcceptFails
    <2>3. QED
      BY <2>1, <2>2 DEF StatusInv
  <1>6. CASE ProxyStep \/ ProxyInput
    <2>1. UNCHANGED <<main, part, result, proxy, proxyErr, signalled, early, failed>>
      BY <1>6 DEF ProxyStep, ProxyInput, gatewayVars, runVars, ghostVars
    <2>2. /\ cancelled' = cancelled
          /\ listening' = listening \/ cancelled
          /\ serve' \in {"waiting", "returned"} <=> serve \in {"waiting", "returned"}
      BY <1>6, ServingFacts DEF ProxyStep, ProxyInput, ProxyAccept
    <2>3. QED
      BY <2>1, <2>2, SMTT(60) DEF StatusInv
  <1>7. CASE UNCHANGED allVars
    BY <1>7 DEF StatusInv, allVars, vars, serverVars, gatewayVars, runVars, ghostVars
  <1>8. QED
    BY <1>0, <1>1, <1>2, <1>3, <1>4, <1>5, <1>6, <1>7 DEF GatewayNext

-----------------------------------------------------------------------------
(* Counting: the facts about finite sets are needed only from here on. *)
INSTANCE FiniteSetTheorems

\* Cardinality is defined for the handlers the counters count.
LEMMA SubsetsAreFinite ==
    ASSUME NEW S \in SUBSET Conns
    PROVE  IsFiniteSet(S) /\ Cardinality(S) \in Nat
  BY ProxyAssumption, FS_Subset, FS_CardinalityType, SMTT(60)

\* The wait group and the active gauge change with the handlers they count.
LEMMA CountersStep ==
    ASSUME TypeOK, Counters, [Next]_vars
    PROVE  Counters'
  <1> DEFINE R == {c \in Conns : Running(c)}
  <1>0. wg = Cardinality(Added) /\ active = Cardinality(R)
    BY DEF Counters, ActiveGaugeIsExact
  <1>f. IsFiniteSet(Added) /\ IsFiniteSet(R)
    BY SubsetsAreFinite DEF Added
  <1>1. CASE UNCHANGED <<wg, active, pc>>
    BY <1>1, CountersFrame DEF Added, Running
  <1>2. ASSUME NEW c \in Conns, Accept(c) PROVE Counters'
    <2>1. Added' = Added /\ R' = R
      BY <1>2 DEF Accept, Added, Running, TypeOK
    <2>2. QED
      BY <1>2, <2>1, CountersFrame DEF Accept
  <1>3. ASSUME NEW c \in Conns, Spawn(c) PROVE Counters'
    <2>1. c \notin Added /\ Added' = Added \cup {c} /\ R' = R
      BY <1>3 DEF Spawn, Added, Running, TypeOK
    <2>2. wg' = Cardinality(Added')
      BY <1>0, <1>3, <1>f, <2>1, FS_AddElement DEF Spawn
    <2>3. active' = Cardinality(R')
      BY <1>0, <1>3, <2>1 DEF Spawn, handlerVars
    <2>4. QED
      BY <2>2, <2>3 DEF Counters, ActiveGaugeIsExact
  <1>4. ASSUME NEW c \in Conns, LoadState(c) PROVE Counters'
    <2>1. c \notin R /\ R' = R \cup {c} /\ Added' = Added
      BY <1>4 DEF LoadState, Goto, Added, Running, TypeOK
    <2>a. Cardinality(R') = Cardinality(R) + 1
      BY <1>f, <2>1, FS_AddElement
    <2>2. active' = Cardinality(R')
      BY <1>0, <1>4, <2>a DEF LoadState
    <2>3. wg' = Cardinality(Added')
      BY <1>0, <1>4, <2>1 DEF LoadState, serverVars
    <2>4. QED
      BY <2>2, <2>3 DEF Counters, ActiveGaugeIsExact
  <1>5. ASSUME NEW c \in Conns, MiddleStep(c) PROVE Counters'
    <2>1. Added' = Added /\ R' = R
      BY <1>5, MiddleStepStaysInMiddle DEF Middle, Added, Running, TypeOK
    <2>2. QED
      BY <1>5, <2>1, MiddleStepStaysInMiddle, CountersFrame DEF serverVars
  <1>6. ASSUME NEW c \in Conns, FinishMetrics(c) PROVE Counters'
    <2>1. c \in R /\ R' = R \ {c} /\ Added' = Added
      BY <1>6 DEF FinishMetrics, Goto, Added, Running, TypeOK
    <2>2. active' = Cardinality(R')
      BY <1>0, <1>6, <1>f, <2>1, FS_RemoveElement DEF FinishMetrics
    <2>3. wg' = Cardinality(Added')
      BY <1>0, <1>6, <2>1 DEF FinishMetrics, serverVars
    <2>4. QED
      BY <2>2, <2>3 DEF Counters, ActiveGaugeIsExact
  <1>7. ASSUME NEW c \in Conns, CloseClient(c) PROVE Counters'
    <2>1. c \in Added /\ Added' = Added \ {c} /\ R' = R
      BY <1>7 DEF CloseClient, Goto, Added, Running, TypeOK
    <2>2. wg' = Cardinality(Added')
      BY <1>0, <1>7, <1>f, <2>1, FS_RemoveElement DEF CloseClient
    <2>3. active' = Cardinality(R')
      BY <1>0, <1>7, <2>1 DEF CloseClient
    <2>4. QED
      BY <2>2, <2>3 DEF Counters, ActiveGaugeIsExact
  <1>8. CASE Cancel \/ CloseListener \/ AcceptFails \/ ServeReturns \/ UNCHANGED vars
    BY <1>8, <1>1 DEF Cancel, CloseListener, AcceptFails, ServeReturns, vars, serverVars,
                      handlerVars
  <1>9. ASSUME NEW options \in Options, SwapSnapshot(options) PROVE Counters'
    BY <1>9, <1>1 DEF SwapSnapshot, handlerVars
  <1>10. ASSUME NEW c \in Conns, NEW d \in Directions, CopyEnds(c, d) PROVE Counters'
    BY <1>10, <1>1 DEF CopyEnds, serverVars
  <1>11. QED
    BY <1>2, <1>3, <1>4, <1>5, <1>6, <1>7, <1>8, <1>9, <1>10
       DEF Next, HandlerStep, MiddleStep

-----------------------------------------------------------------------------
(* Serve.                                                                  *)

\* Serve adds a connection before it returns, so it never returns early.
LEMMA ServeStep ==
    ASSUME TypeOK, Counters, AcceptInv, ServeWaitsForHandlers, [Next]_vars
    PROVE  AcceptInv' /\ ServeWaitsForHandlers'
  <1>1. CASE UNCHANGED <<serve, pc>>
    BY <1>1 DEF AcceptInv, ServeWaitsForHandlers
  <1>2. ASSUME NEW c \in Conns, Accept(c) PROVE AcceptInv' /\ ServeWaitsForHandlers'
    BY <1>2 DEF Accept, AcceptInv, ServeWaitsForHandlers, TypeOK
  <1>3. ASSUME NEW c \in Conns, Spawn(c) PROVE AcceptInv' /\ ServeWaitsForHandlers'
    BY <1>3 DEF Spawn, AcceptInv, ServeWaitsForHandlers, TypeOK
  <1>4. CASE AcceptFails
    BY <1>4 DEF AcceptFails, AcceptInv, ServeWaitsForHandlers
  <1>5. CASE ServeReturns
    <2>1. Added = {}
      <3>1. Added \in SUBSET Conns
        BY DEF Added
      <3>2. IsFiniteSet(Added) /\ Cardinality(Added) = 0
        BY <1>5, <3>1, SubsetsAreFinite DEF ServeReturns, Counters
      <3>3. QED
        BY <3>2, FS_EmptySet, SMTT(60)
    <2>2. \A c \in Conns : pc[c] \in {"none", "gone"}
      BY <1>5, <2>1 DEF ServeReturns, Added, AcceptInv
    <2>3. QED
      BY <1>5, <2>2 DEF ServeReturns, AcceptInv, ServeWaitsForHandlers
  <1>6. ASSUME NEW c \in Conns,
               LoadState(c) \/ MiddleStep(c) \/ FinishMetrics(c) \/ CloseClient(c)
        PROVE  AcceptInv' /\ ServeWaitsForHandlers'
    <2>1. /\ pc[c] \notin {"none", "accepted", "gone"}
          /\ \E q \in Places \ {"none", "accepted"} : pc' = [pc EXCEPT ![c] = q]
          /\ UNCHANGED serve
      <3>1. CASE MiddleStep(c)
        BY <3>1, MiddleStepStaysInMiddle DEF Middle, serverVars
      <3>2. CASE LoadState(c) \/ FinishMetrics(c) \/ CloseClient(c)
        BY <3>2 DEF LoadState, FinishMetrics, CloseClient, Goto, Places, serverVars
      <3>3. QED
        BY <1>6, <3>1, <3>2
    <2>2. QED
      BY <2>1 DEF AcceptInv, ServeWaitsForHandlers, TypeOK
  <1>7. CASE Cancel \/ CloseListener \/ UNCHANGED vars
    BY <1>7, <1>1 DEF Cancel, CloseListener, vars, serverVars, handlerVars
  <1>8. ASSUME NEW options \in Options, SwapSnapshot(options)
        PROVE  AcceptInv' /\ ServeWaitsForHandlers'
    BY <1>8, <1>1 DEF SwapSnapshot
  <1>9. ASSUME NEW c \in Conns, NEW d \in Directions, CopyEnds(c, d)
        PROVE  AcceptInv' /\ ServeWaitsForHandlers'
    BY <1>9, <1>1 DEF CopyEnds, serverVars
  <1>10. QED
    BY <1>2, <1>3, <1>4, <1>5, <1>6, <1>7, <1>8, <1>9 DEF Next, HandlerStep, MiddleStep

-----------------------------------------------------------------------------
(* The theorems.                                                           *)

\* No connection is open at the start.
LEMMA InitIInv == Init => IInv
  <1> SUFFICES ASSUME Init PROVE IInv
    OBVIOUS
  <1>1. TypeOK
    <2>1. outcome \in [Conns -> Outcomes]
      BY OutcomeTypes DEF Init
    <2>2. copy \in [Conns -> [Directions -> {"off", "copying", "sent", "received"}]]
      BY DEF Init
    <2>3. {cancelled, listening} \subseteq BOOLEAN /\ client \in [Conns -> BOOLEAN]
      BY DEF Init
    <2>4. QED
      BY <2>1, <2>2, <2>3 DEF Init, TypeOK, Places
  <1>2. Counters
    <2>1. Added = {} /\ {c \in Conns : Running(c)} = {}
      BY DEF Init, Added, Running
    <2>2. QED
      BY <2>1, FS_EmptySet, SMTT(60) DEF Init, Counters, ActiveGaugeIsExact
  <1>3. AcceptInv /\ ServeWaitsForHandlers
    BY DEF Init, AcceptInv, ServeWaitsForHandlers
  <1>4. ASSUME NEW c \in Conns PROVE HandlerInv(c)
    <2>1. SocketInv(c) /\ CopyInv(c) /\ ResponseInv(c)
      BY DEF Init, SocketInv, CopyInv, ResponseInv
    <2>2. OutcomeInv(c)
      BY DEF Init, OutcomeInv
    <2>3. QED
      BY <2>1, <2>2 DEF HandlerInv
  <1>5. QED
    BY <1>1, <1>2, <1>3, <1>4 DEF IInv

\* Every step keeps the inductive invariant.
LEMMA IInvStep ==
    ASSUME IInv, [Next]_vars
    PROVE  IInv'
  <1>1. Counters'
    BY CountersStep DEF IInv
  <1>2. TypeOK'
    <2>1. Added' \in SUBSET Conns /\ {c \in Conns : Running(c)}' \in SUBSET Conns
      BY DEF Added
    <2>2. wg' \in Nat /\ active' \in Nat
      BY <1>1, <2>1, SubsetsAreFinite DEF Counters, ActiveGaugeIsExact
    <2>3. QED
      BY <2>2, TypeStep DEF IInv
  <1>3. AcceptInv' /\ ServeWaitsForHandlers'
    BY ServeStep DEF IInv
  <1>4. \A c \in Conns : HandlerInv(c)'
    BY HandlersStep DEF IInv
  <1>5. QED
    BY <1>1, <1>2, <1>3, <1>4 DEF IInv

\* IInv is an inductive invariant, so it holds in every reachable state.
THEOREM Invariance == Spec => []IInv
  BY InitIInv, IInvStep, PTL DEF Spec

\* A handler that is gone leaves neither an open socket nor a copy goroutine:
\* the deferred calls of handleConn and the drain in proxy.
THEOREM NothingOutlives == Spec => []NothingOutlivesHandler
  <1>1. IInv => NothingOutlivesHandler
    BY DEF IInv, HandlerInv, SocketInv, CopyInv, NothingOutlivesHandler
  <1>2. QED
    BY <1>1, Invariance, PTL

\* Serve returns only after the last handler: wg counts every connection from
\* before its goroutine starts, and no connection is accepted once it waits.
THEOREM ServeWaits == Spec => []ServeWaitsForHandlers
  <1>1. IInv => ServeWaitsForHandlers
    BY DEF IInv
  <1>2. QED
    BY <1>1, Invariance, PTL

\* mc_gateway_active_connections is exact on every way through handleConn.
THEOREM ActiveGaugeExact == Spec => []ActiveGaugeIsExact
  <1>1. IInv => ActiveGaugeIsExact
    BY DEF IInv, Counters
  <1>2. QED
    BY <1>1, Invariance, PTL

\* The result closed is reported only for connections that were served.
THEOREM ClosedServed == Spec => []ClosedMeansServed
  <1>1. IInv => ClosedMeansServed
    BY DEF IInv, HandlerInv, OutcomeInv, Served, ClosedMeansServed
  <1>2. QED
    BY <1>1, Invariance, PTL

\* A fallback response answers only a denied route or a failed dial that its
\* option covers (serveStatusFallback, serveLoginDisconnectFallback).
THEOREM FallbackEligible == Spec => []FallbackOnlyWhereEligible
  <1>1. IInv => FallbackOnlyWhereEligible
    BY DEF IInv, TypeOK, HandlerInv, ResponseInv, FallbackOnlyWhereEligible
  <1>2. QED
    BY <1>1, Invariance, PTL

\* A step of ProxyServer keeps IInv whoever takes it, and the proxy is up.
LEMMA ServingKeepsIInv ==
    ASSUME GatewayIInv, [Next]_vars, UNCHANGED <<main, proxy>>, proxy = "up" \/ UNCHANGED pc
    PROVE  GatewayIInv'
  <1>1. IInv'
    BY IInvStep DEF GatewayIInv
  <1>2. Unstarted'
    BY DEF GatewayIInv, Unstarted
  <1>3. QED
    BY <1>1, <1>2 DEF GatewayIInv

-----------------------------------------------------------------------------
\* In the process, whatever it is made of and however it stops, the invariant of
\* the proxy holds in every reachable state.
THEOREM GatewayInvariance == GatewaySpec => []GatewayIInv
  <1>1. GatewayInit => GatewayIInv
    BY InitIInv DEF GatewayInit, GatewayIInv, Unstarted, Init
  <1>2. GatewayIInv /\ [GatewayNext]_allVars => GatewayIInv'
    <2> SUFFICES ASSUME GatewayIInv, [GatewayNext]_allVars PROVE GatewayIInv'
      OBVIOUS
    <2>1. CASE RunStep
      BY <2>1, RunStepKeepsIInv
    <2>0. CASE DiscoveryReady
      <3>1. UNCHANGED <<vars, main, proxy, pc>>
        BY <2>0 DEF DiscoveryReady, vars
      <3>2. QED
        BY <3>1, ServingKeepsIInv
    <2>2. CASE Signal
      <3>1. Next /\ UNCHANGED <<main, proxy, pc>>
        BY <2>2 DEF Signal, Cancel, Next, runVars
      <3>2. QED
        BY <3>1, ServingKeepsIInv
    <2>3. CASE \E p \in Parts : PartEnds(p) \/ PartFails(p)
      <3>1. UNCHANGED <<vars, main, proxy, pc>>
        BY <2>3 DEF PartEnds, PartFails, vars
      <3>2. QED
        BY <3>1, ServingKeepsIInv
    <2>4. CASE Listen
      BY <2>4, ListenKeepsIInv
    <2>5. CASE proxy = "up" /\ ProxyAcceptFails
      <3>1. Next /\ UNCHANGED <<main, proxy>>
        BY <2>5 DEF ProxyAcceptFails, Next, runVars
      <3>2. QED
        BY <2>5, <3>1, ServingKeepsIInv
    <2>6. CASE ProxyStep
      <3>1. Next /\ UNCHANGED <<main, proxy>> /\ proxy = "up"
        BY <2>6 DEF ProxyStep, Next, gatewayVars, runVars
      <3>2. QED
        BY <3>1, ServingKeepsIInv
    <2>7. CASE ProxyInput
      <3>1. Next /\ UNCHANGED <<main, proxy>> /\ proxy = "up"
        BY <2>7 DEF ProxyInput, ProxyAccept, Next, gatewayVars, runVars
      <3>2. QED
        BY <3>1, ServingKeepsIInv
    <2>8. CASE UNCHANGED allVars
      <3>1. UNCHANGED <<vars, main, proxy, pc>>
        BY <2>8 DEF allVars, gatewayVars, runVars, vars
      <3>2. QED
        BY <3>1, ServingKeepsIInv
    <2>9. QED
      BY <2>0, <2>1, <2>2, <2>3, <2>4, <2>5, <2>6, <2>7, <2>8 DEF GatewayNext
  <1>3. QED
    BY <1>1, <1>2, PTL DEF GatewaySpec

\* Also in the process, a handler that is gone leaves neither an open socket nor a
\* copy goroutine (the deferred calls of handleConn, the drain in proxy).
THEOREM NothingOutlivesInGateway == GatewaySpec => []NothingOutlivesHandler
  <1>1. GatewayIInv => NothingOutlivesHandler
    BY DEF GatewayIInv, IInv, HandlerInv, SocketInv, CopyInv, NothingOutlivesHandler
  <1>2. QED
    BY <1>1, GatewayInvariance, PTL

\* Serve returns only after the last handler, also when the listen fails, when run
\* calls Shutdown, and when another part ends the process.
THEOREM ServeWaitsInGateway == GatewaySpec => []ServeWaitsForHandlers
  <1>1. GatewayIInv => ServeWaitsForHandlers
    BY DEF GatewayIInv, IInv
  <1>2. QED
    BY <1>1, GatewayInvariance, PTL

\* While run stops, a step takes the head off todo once it has been waited for, or
\* leaves todo alone and moves no part back.
LEMMA StopStep ==
    ASSUME GatewayIInv, RunTypes, StartInv, StopInv, [GatewayNext]_allVars
    PROVE  StopInv'
  <1> DEFINE S == Parts \cup {"shutdown", "proxyErr"}
  <1>1. CASE StartPart \/ SpawnDiscovery \/ DiscoveryReady \/ StartProxy
    BY <1>1 DEF StartPart, SpawnDiscovery, DiscoveryReady, AwaitsReady, Starting, StartProxy,
                StopInv
  <1>2. CASE \/ StartFails \/ DiscoveryEndsEarly \/ StartInterrupted
             \/ SelectProxy \/ SelectMetrics \/ SelectUDP \/ SelectBedrock \/ SelectVoice
    BY <1>2, StartComesToStop, ComesToStop
  <1>3. ASSUME main = "stopping", main' = "stopping", todo # <<>>, todo' = Tail(todo),
               \A p \in Parts : part'[p] = part[p] \/ part'[p] \in {"off", "read"},
               \A p \in Parts : part[p] = "off" => part'[p] = "off", early' = early,
               \A p \in Parts : p = Head(todo) => part'[p] \in {"off", "read"},
               Drained => Drained', Head(todo) = "shutdown" => Drained'
        PROVE  StopInv'
    <2>1. todo \in Seq(S)
      BY <1>3 DEF StopInv
    <2>2. todo' \in Seq(S) /\ \A w : w # Head(todo) /\ InTodo(w) => InTodo(w)'
      BY <1>3, <2>1, TailKeepsTheRest
    <2>3. \A p \in Parts : part'[p] \in {"off", "read"} \/ InTodo(p)' \/ Abandoned(p)'
      BY <1>3, <2>2 DEF StopInv, Abandoned
    <2>4. Drained' \/ InTodo("shutdown")'
      BY <1>3, <2>2 DEF StopInv
    <2>5. QED
      BY <1>3, <2>2, <2>3, <2>4 DEF StopInv
  <1>4. ASSUME NEW p \in Parts, WaitForPart(p) PROVE StopInv'
    <2>1. /\ main = "stopping" /\ main' = "stopping" /\ todo # <<>> /\ todo' = Tail(todo)
          /\ p = Head(todo) /\ p # "shutdown"
          /\ part'[p] \in {"off", "read"} /\ \A q \in Parts \ {p} : part'[q] = part[q]
          /\ part[p] = "off" => part'[p] = "off"
      BY <1>4 DEF WaitForPart, RunTypes, Parts
    <2>2. UNCHANGED <<serve, late, pc, proxy, early>>
      BY <1>4 DEF WaitForPart, vars, serverVars, ghostVars
    <2>3. QED
      BY <1>3, <2>1, <2>2, DrainedFrame
  <1>5. CASE ShutdownWait
    <2>1. /\ main = "stopping" /\ main' = "stopping" /\ todo # <<>> /\ todo' = Tail(todo)
          /\ part' = part /\ Head(todo) = "shutdown" /\ "shutdown" \notin Parts
          /\ wg = 0 /\ pc' = pc /\ early' = early /\ late' = {c \in Conns : pc[c] \in {"none", "accepted"}}
      BY <1>5 DEF ShutdownWait, vars, Parts
    <2>2. Added = {}
      <3>1. IsFiniteSet(Added)
        BY SubsetsAreFinite DEF Added
      <3>2. Cardinality(Added) = 0
        BY <2>1 DEF GatewayIInv, IInv, Counters
      <3>3. QED
        BY <3>1, <3>2, FS_EmptySet, SMTT(60)
    <2>3. \A c \in Conns \ late' : pc'[c] = "gone"
      BY <2>1, <2>2 DEF Added
    <2>4. Drained'
      BY <2>3 DEF Drained
    <2>5. QED
      BY <1>3, <2>1, <2>4
  <1>6. CASE ReceiveProxyErr
    <2>1. /\ main = "stopping" /\ main' = "stopping" /\ todo # <<>> /\ todo' = Tail(todo)
          /\ part' = part /\ Head(todo) = "proxyErr"
          /\ "proxyErr" \notin Parts /\ Head(todo) # "shutdown"
      BY <1>6 DEF ReceiveProxyErr, Parts
    <2>2. UNCHANGED <<serve, late, pc, proxy, early>>
      BY <1>6 DEF ReceiveProxyErr, vars, serverVars, ghostVars
    <2>3. QED
      BY <1>3, <2>1, <2>2, DrainedFrame
  <1>7. CASE RunReturns
    <2>1. /\ main = "stopping" /\ todo = <<>> /\ UNCHANGED <<todo, part>>
          /\ UNCHANGED <<serve, late, pc, proxy, early>>
      BY <1>7 DEF RunReturns, vars, serverVars, ghostVars
    <2>2. Drained => Drained'
      BY <2>1, DrainedFrame
    <2>3. QED
      BY <2>1, <2>2 DEF StopInv, InTodo, Abandoned
  <1>8. ASSUME UNCHANGED <<main, todo>>, Drained => Drained', early => early',
               \A p \in Parts : part[p] \in {"off", "read"} => part'[p] = part[p]
        PROVE  StopInv'
    <2>1. \A w : InTodo(w) => InTodo(w)'
      BY <1>8 DEF InTodo
    <2>2. QED
      BY <1>8, <2>1 DEF StopInv, Abandoned
  <1>9. CASE ShutdownListener \/ Signal \/ UNCHANGED allVars
    <2>1. UNCHANGED <<main, todo, part, serve, late, pc, proxy>>
      BY <1>9 DEF ShutdownListener, Signal, Cancel, allVars, vars, serverVars, gatewayVars,
                  runVars, ghostVars
    <2>2. early => early'
      BY <1>9 DEF ShutdownListener, Signal, Cancel, StartInv, allVars, gatewayVars, ghostVars
    <2>3. QED
      BY <1>8, <2>1, <2>2, DrainedFrame
  <1>10. CASE \E p \in Parts : PartEnds(p) \/ PartFails(p)
    <2>1. UNCHANGED <<main, todo, serve, late, pc, proxy, early>>
      BY <1>10 DEF PartEnds, PartFails, vars, serverVars, ghostVars
    <2>2. \A p \in Parts : part[p] \in {"off", "read"} => part'[p] = part[p]
      BY <1>10 DEF PartEnds, PartFails, RunTypes
    <2>3. QED
      BY <1>8, <2>1, <2>2, DrainedFrame
  <1>11. CASE Listen
    <2>1. /\ UNCHANGED <<main, todo, part, pc, late, early>>
          /\ proxy = "starting" /\ (serve' = serve \/ serve' = "returned")
      BY <1>11 DEF Listen, runVars
    <2>2. Drained => Drained'
      BY <2>1 DEF Drained
    <2>3. QED
      BY <1>8, <2>1, <2>2
  <1>12. CASE proxy = "up" /\ (ProxyAcceptFails \/ ProxyStep \/ ProxyInput)
    <2>1. UNCHANGED <<main, todo, part, late, proxy, early>>
      BY <1>12 DEF ProxyAcceptFails, ProxyStep, ProxyInput, gatewayVars, runVars, ghostVars
    <2>2. /\ serve = "returned" => serve' = "returned"
          /\ \A c \in Conns : pc[c] = "gone" => pc'[c] = "gone"
      <3>1. CASE ProxyAcceptFails
        BY <3>1 DEF ProxyAcceptFails, AcceptFails
      <3>2. CASE ProxyStep \/ ProxyInput
        BY <3>2, ServingFacts DEF ProxyStep, ProxyInput, ProxyAccept, GatewayIInv
      <3>3. QED
        BY <1>12, <3>1, <3>2
    <2>3. Drained => Drained'
      BY <2>1, <2>2 DEF Drained
    <2>4. QED
      BY <1>8, <2>1, <2>3
  <1>13. QED
    BY <1>1, <1>2, <1>4, <1>5, <1>6, <1>7, <1>9, <1>10, <1>11, <1>12
       DEF GatewayNext, RunStep, ProxyStep, ProxyInput

-----------------------------------------------------------------------------
\* What run has to wait for, and what it will return, are right in every reachable
\* state of the process.
THEOREM ExitInvariance == GatewaySpec => []ExitInv
  <1>1. GatewayInit => ExitInv
    <2> SUFFICES ASSUME GatewayInit PROVE ExitInv
      OBVIOUS
    <2>1. RunTypes
      BY DEF GatewayInit, RunTypes
    <2>2. StopInv /\ StatusInv
      BY DEF GatewayInit, Init, StopInv, StatusInv
    <2>3. todo = StartOrder /\ ~cancelled /\ ~early /\ \A p \in Parts : part[p] = "off"
      BY DEF GatewayInit, Init
    <2>4. todo \in Seq(Parts \cup {"load", "availability", "watch"}) /\ Len(todo) = 8
      BY <2>3, SMTT(60) DEF StartOrder, Parts
    <2>5. /\ todo[1] = "load" /\ todo[2] = "discovery"
          /\ \A i \in 1..8 : i # 1 /\ i # 2 => todo[i] \notin {"load", "discovery"}
      BY <2>3, SMTT(60) DEF StartOrder
    <2>6. InTodo("discovery")
      BY <2>4, <2>5, SMTT(60) DEF InTodo
    <2>7. \A i \in 1..Len(todo) :
             /\ todo[i] = "load" => i = 1
             /\ todo[i] = "discovery" => i = 1 \/ (i = 2 /\ todo[1] = "load")
      BY <2>4, <2>5, SMTT(60)
    <2>8. StartInv
      BY <2>3, <2>4, <2>6, <2>7 DEF StartInv
    <2>9. QED
      BY <2>1, <2>2, <2>8 DEF ExitInv
  <1>2. GatewayIInv /\ ExitInv /\ [GatewayNext]_allVars => ExitInv'
    <2> SUFFICES ASSUME GatewayIInv, ExitInv, [GatewayNext]_allVars PROVE ExitInv'
      OBVIOUS
    <2>1. IInv /\ RunTypes /\ StartInv /\ StopInv /\ StatusInv
      BY DEF GatewayIInv, ExitInv
    <2>2. RunTypes' /\ StartInv' /\ StopInv'
      BY <2>1, RunTypesStep, StartStep, StopStep
    <2>3. StatusInv'
      BY <2>1, StatusRunStep, StatusOtherStep
    <2>4. QED
      BY <2>2, <2>3 DEF ExitInv
  <1>3. QED
    BY <1>1, <1>2, GatewayInvariance, PTL DEF GatewaySpec

\* Whichever part ends first, at startup or later, run returns only when every part
\* that was started has ended and was waited for, and every connection that Shutdown
\* could know of is gone; but for the watch of discovery alone, if a signal came before
\* its first sync.
THEOREM ExitIsClean == GatewaySpec => []ExitLeavesNothingRunning
  <1>1. GatewayIInv /\ ExitInv => ExitLeavesNothingRunning
    <2> SUFFICES ASSUME GatewayIInv, ExitInv, main = "returned"
                 PROVE  /\ \A p \in Parts : part[p] \in {"off", "read"} \/ Abandoned(p)
                        /\ \A c \in Conns : pc[c] \in {"none", "gone"} \/ c \in late
      BY DEF ExitLeavesNothingRunning, Abandoned
    <2>1. todo = <<>> /\ \A w : ~InTodo(w)
      BY SMTT(60) DEF ExitInv, StopInv, InTodo
    <2>2. (\A p \in Parts : part[p] \in {"off", "read"} \/ Abandoned(p)) /\ Drained
      BY <2>1 DEF ExitInv, StopInv
    <2>3. \A c \in Conns : pc[c] \in {"none", "gone"} \/ c \in late
      BY <2>2 DEF Drained, GatewayIInv, Unstarted, IInv, ServeWaitsForHandlers
    <2>4. QED
      BY <2>2, <2>3
  <1>2. QED
    BY <1>1, GatewayInvariance, ExitInvariance, PTL

\* run returns an error whenever no signal asked the process to stop, and returns one
\* only if something failed, or if a signal cut the startup short at a start that looks
\* at the context.
THEOREM ExitStatus == GatewaySpec => []ExitStatusIsRight
  <1>1. ExitInv => ExitStatusIsRight
    BY DEF ExitInv, StatusInv, ExitStatusIsRight
  <1>2. QED
    BY <1>1, ExitInvariance, PTL
==============================================================================
