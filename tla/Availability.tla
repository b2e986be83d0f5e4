---------------------------- MODULE Availability ----------------------------
(***************************************************************************)
(* The availability monitor of the gateway (internal/availability) and the *)
(* control companion it notifies (companion/control-paper): probe, PUT on  *)
(* change, HTTP workers, the server's main thread and the store of states. *)
(*                                                                         *)
(* A call that fails at the monitor may still be served: its request waits *)
(* for a worker, or its answer is what was lost.  TRUE is online.          *)
(***************************************************************************)
EXTENDS Integers, Sequences, SequencesExt

CONSTANTS
    Backends,       \* cfg.Backends, a sequence of backend IDs
    Workers,        \* threads of ControlHttpServer.workers (2 in the code)
    MaxFlips,       \* bound on the changes of the backends
    MaxFaults,      \* bound on failed calls and on restarts of the companion
    None

IDs == Range(Backends)

ASSUME AvailabilityAssumption ==
    /\ Workers \in Nat \ {0}
    /\ {MaxFlips, MaxFaults} \subseteq Nat
    /\ Backends \in Seq(IDs) /\ Backends # <<>> /\ IsInjective(Backends)
    /\ None \notin BOOLEAN

VARIABLES
    answers,        \* backend -> does it answer a status request?
    cancelled,      \* ctx is cancelled
    pc,             \* the monitor: "wait", "probe", "compare", "call", "stopped"
    index,          \* the backend of checkAll that is being looked at
    online,         \* what its probe found
    forced,         \* history: the probe failed only because ctx was done
    sent,           \* monitor.sent
    requests,       \* PUTs in the order in which they were accepted
    replied,        \* the call of the monitor was answered with 204
    tasks,          \* runTask calls the server's main thread has yet to run
    up,             \* the companion runs
    store,          \* BackendAvailabilityStore.statuses
    events,         \* the last BackendAvailabilityChangeEvent of each backend
    strayed,        \* history: backends whose last update the monitor does not
                    \* know to have been applied, or which was forgotten
    bounds          \* flips and faults so far

monitorVars == <<pc, index, online, forced, sent>>
companionVars == <<tasks, store, events>>
vars == <<answers, cancelled, monitorVars, requests, replied, companionVars, up,
          strayed, bounds>>

Update == [backend: IDs, online: BOOLEAN]
PutRequest == [backend: IDs, online: BOOLEAN, forced: BOOLEAN, live: BOOLEAN]

TypeOK ==
    /\ answers \in [IDs -> BOOLEAN]
    /\ cancelled \in BOOLEAN
    /\ pc \in {"wait", "probe", "compare", "call", "stopped"}
    /\ index \in 1..Len(Backends)
    /\ {online, forced} \subseteq BOOLEAN
    /\ sent \in [IDs -> BOOLEAN \cup {None}]
    /\ requests \in Seq(PutRequest)
    /\ replied \in BOOLEAN
    /\ tasks \in Seq(Update)
    /\ up \in BOOLEAN
    /\ store \in [IDs -> BOOLEAN \cup {None}]
    /\ events \in [IDs -> BOOLEAN \cup {None}]
    /\ strayed \subseteq IDs
    /\ bounds \in [flips: 0..MaxFlips, faults: 0..MaxFaults]

Init ==
    /\ answers \in [IDs -> BOOLEAN]
    /\ cancelled = FALSE
    /\ pc = "probe" /\ index = 1 /\ online = FALSE /\ forced = FALSE
    /\ sent = [b \in IDs |-> None]
    /\ requests = <<>> /\ replied = FALSE /\ tasks = <<>>
    /\ up = TRUE
    /\ store = [b \in IDs |-> None]
    /\ events = [b \in IDs |-> None]
    /\ strayed = {}
    /\ bounds = [flips |-> 0, faults |-> 0]

Backend == Backends[index]

-----------------------------------------------------------------------------
(* The environment.                                                        *)

\* A backend starts or stops answering, or one probe of it fails.
Flip(b) ==
    /\ bounds.flips < MaxFlips
    /\ bounds' = [bounds EXCEPT !.flips = @ + 1]
    /\ answers' = [answers EXCEPT ![b] = ~@]
    /\ UNCHANGED <<cancelled, monitorVars, requests, replied, companionVars, up, strayed>>

Cancel ==
    /\ ~cancelled
    /\ cancelled' = TRUE
    /\ UNCHANGED <<answers, monitorVars, requests, replied, companionVars, up, strayed,
                   bounds>>

Fault ==
    /\ bounds.faults < MaxFaults
    /\ bounds' = [bounds EXCEPT !.faults = @ + 1]

-----------------------------------------------------------------------------
(* The monitor: run, checkAll and notify.                                  *)

\* On to the next backend of checkAll, or to the ticker.
NextBackend ==
    IF index = Len(Backends) THEN pc' = "wait" /\ index' = 1
    ELSE pc' = "probe" /\ index' = index + 1

Ticker ==
    /\ pc = "wait"
    /\ pc' = "probe"
    /\ UNCHANGED <<answers, cancelled, index, online, forced, sent, requests, replied,
                   companionVars, up, strayed, bounds>>

StopMonitor ==
    /\ pc = "wait" /\ cancelled
    /\ pc' = "stopped"
    /\ UNCHANGED <<answers, cancelled, index, online, forced, sent, requests, replied,
                   companionVars, up, strayed, bounds>>

\* Probe succeeds if the backend answers in time, and fails once ctx is done.
Probe ==
    /\ pc = "probe"
    /\ \/ online' = answers[Backend] /\ forced' = FALSE
       \/ cancelled /\ online' = FALSE /\ forced' = answers[Backend]
    /\ pc' = "compare"
    /\ UNCHANGED <<answers, cancelled, index, sent, requests, replied, companionVars, up,
                   strayed, bounds>>

\* Wrong variant: a backend is announced once and never again.
KnownOnceSent == sent[Backend] # None

Known == sent[Backend] # None /\ sent[Backend] = online

Request == [backend |-> Backend, online |-> online, forced |-> forced, live |-> TRUE]

\* Wrong variant: the request is sent without the context.
NotifyWithoutContext ==
    /\ pc = "compare"
    /\ IF Known \/ ~up
       THEN NextBackend /\ UNCHANGED requests
       ELSE /\ requests' = Append(requests, Request)
            /\ pc' = "call"
            /\ UNCHANGED index
    /\ UNCHANGED <<answers, cancelled, online, forced, sent, replied, companionVars, up, strayed,
                   bounds>>

\* The rest of checkAll up to client.Do: a state that was acknowledged before is
\* not sent again, and a done context sends nothing.
Notify ==
    /\ pc = "compare"
    /\ IF Known \/ cancelled \/ ~up
       THEN NextBackend /\ UNCHANGED requests
       ELSE /\ requests' = Append(requests, Request)
            /\ pc' = "call"
            /\ UNCHANGED index
    /\ UNCHANGED <<answers, cancelled, online, forced, sent, replied, companionVars, up, strayed,
                   bounds>>

\* The answer is 204 No Content.
Acknowledged ==
    /\ pc = "call" /\ replied
    /\ replied' = FALSE
    /\ sent' = [sent EXCEPT ![Backend] = online]
    /\ NextBackend
    /\ UNCHANGED <<answers, cancelled, online, forced, requests, companionVars, up, strayed,
                   bounds>>

\* Nobody waits for the answers to these requests any more.
Abandoned(rs) == [i \in DOMAIN rs |-> [rs[i] EXCEPT !.live = FALSE]]

\* Wrong variant: the state is recorded although the call failed.
FailureCountsAsSent ==
    /\ pc = "call"
    /\ \/ cancelled /\ UNCHANGED bounds
       \/ Fault
    /\ \/ requests' = Abandoned(requests)
       \/ \E i \in DOMAIN requests : requests[i].live /\ requests' = RemoveAt(requests, i)
    /\ replied' = FALSE
    /\ sent' = [sent EXCEPT ![Backend] = online]
    /\ strayed' = IF replied THEN strayed \cup {Backend} ELSE strayed
    /\ NextBackend
    /\ UNCHANGED <<answers, cancelled, online, forced, companionVars, up>>

\* The call fails: a timeout, a lost connection, an answer other than 204, or the
\* end of the context.  The request is served later, or never.
NotifyFails ==
    /\ pc = "call"
    /\ \/ cancelled /\ UNCHANGED bounds
       \/ Fault
    /\ \/ requests' = Abandoned(requests)
       \/ \E i \in DOMAIN requests : requests[i].live /\ requests' = RemoveAt(requests, i)
    /\ replied' = FALSE
    /\ strayed' = IF replied THEN strayed \cup {Backend} ELSE strayed
    /\ NextBackend
    /\ UNCHANGED <<answers, cancelled, online, forced, sent, companionVars, up>>

-----------------------------------------------------------------------------
(* The companion.                                                          *)

\* A worker handles one of the oldest requests: handle of ControlHttpServer up to
\* the 204, which follows the runTask and not the task.
Handle(i) ==
    /\ up
    /\ i \in DOMAIN requests /\ i <= Workers
    /\ tasks' = Append(tasks, [backend |-> requests[i].backend, online |-> requests[i].online])
    /\ replied' = (replied \/ requests[i].live)
    /\ strayed' = IF requests[i].live THEN strayed \ {requests[i].backend}
                  ELSE strayed \cup {requests[i].backend}
    /\ requests' = RemoveAt(requests, i)
    /\ UNCHANGED <<answers, cancelled, monitorVars, store, events, up, bounds>>

\* The scheduled task: update of BackendAvailabilityStore, and the event if the
\* backend was known in another state.
RunTask ==
    /\ up /\ tasks # <<>>
    /\ tasks' = Tail(tasks)
    /\ LET t == Head(tasks)
       IN  /\ store' = [store EXCEPT ![t.backend] = t.online]
           /\ events' = IF store[t.backend] \in {None, t.online} THEN events
                        ELSE [events EXCEPT ![t.backend] = t.online]
    /\ UNCHANGED <<answers, cancelled, monitorVars, requests, replied, up, strayed,
                   bounds>>

\* onDisable, or a crash: the store, the tasks and the connections are gone.
Disable ==
    /\ up /\ Fault
    /\ up' = FALSE
    /\ store' = [b \in IDs |-> None]
    /\ events' = [b \in IDs |-> None]
    /\ tasks' = <<>>
    /\ strayed' = {b \in IDs : sent[b] # None \/ (replied /\ b = Backend)}
    /\ requests' = <<>>
    /\ UNCHANGED <<answers, cancelled, monitorVars, replied>>

Enable ==
    /\ ~up
    /\ up' = TRUE
    /\ UNCHANGED <<answers, cancelled, monitorVars, requests, replied, companionVars,
                   strayed, bounds>>

\* The connection of the waiting call was closed by the companion.
CallReset ==
    /\ pc = "call" /\ ~replied
    /\ \A i \in DOMAIN requests : ~requests[i].live
    /\ NextBackend
    /\ UNCHANGED <<answers, cancelled, online, forced, sent, requests, replied, companionVars, up,
                   strayed, bounds>>

-----------------------------------------------------------------------------
MonitorStep == Ticker \/ Probe \/ Notify \/ Acknowledged \/ CallReset

Next ==
    \/ \E b \in IDs : Flip(b)
    \/ Cancel
    \/ MonitorStep \/ StopMonitor \/ NotifyFails
    \/ \E i \in 1..Workers : Handle(i)
    \/ RunTask
    \/ Disable \/ Enable

Spec == Init /\ [][Next]_vars

\* The monitor runs and its calls are bounded by timeouts, a worker's reads by
\* the socket's timeout; the main thread runs its tasks, and a companion that
\* stopped is started again.
FairSpec ==
    /\ Spec
    /\ WF_vars(MonitorStep) /\ WF_vars(Handle(1))
    /\ WF_vars(RunTask) /\ WF_vars(Enable)

-----------------------------------------------------------------------------
(* Properties.                                                             *)

\* Nothing about b is under way to the store.
Delivered(b) ==
    /\ ~(replied /\ b = Backend)
    /\ \A i \in DOMAIN requests : requests[i].backend # b
    /\ \A i \in DOMAIN tasks : tasks[i].backend # b

\* What the monitor believes the companion to know, the companion knows, unless a
\* call that failed was applied after all or the companion has restarted since:
\* overtaking requests of two workers, retries and the late task do no other harm
\* (checkAll, handle, BackendAvailabilityStore.update).
DeliveredUnlessStrayed ==
    \A b \in IDs : sent[b] # None /\ Delivered(b) /\ b \notin strayed =>
        store[b] = sent[b] /\ events[b] \in {None, store[b]}

\* A gateway that is being stopped, and whose probes fail for that reason, does
\* not announce its backends as offline.
NoRumourAtShutdown == \A i \in DOMAIN requests : ~requests[i].forced

\* If the gateway runs on and no update strays for good, the companion comes to
\* show the state of every backend, in spite of failed calls.
Converges ==
    \A b \in IDs : <>[](~cancelled /\ b \notin strayed) => <>[](store[b] = answers[b])

=============================================================================
