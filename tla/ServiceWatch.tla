----------------------------- MODULE ServiceWatch -----------------------------
(***************************************************************************)
(* Runtime Kubernetes discovery: the one-shot watch controller, the        *)
(* supervisor that retries it, the sink that applies its results to the    *)
(* server, and the start and stop of the whole                             *)
(* (internal/discovery/kubernetes/watch_controller.go, watch_supervisor.go,*)
(* cmd/mc-gateway/discovery_runtime.go).                                   *)
(*                                                                         *)
(* The Services of the namespace are a version number that every change    *)
(* increments; a list returns the present version and the events of a      *)
(* watch opened from a list bring the following versions one by one.       *)
(***************************************************************************)
EXTENDS Naturals

CONSTANTS
    MaxChanges,     \* bound on the changes of the Services
    MaxFaults       \* bound on the failures of the API server

ASSUME WatchAssumption == MaxChanges \in Nat /\ MaxFaults \in Nat

VARIABLES
    cluster,            \* version of the Services in the namespace
    faults,             \* API failures so far
    controller,         \* where ServiceWatchController.Run is
    services,           \* version its services map holds
    err,                \* what its last run returned, one of Results
    supervisor,         \* where WatchSupervisor.Run is
    initialSyncSeen,    \* its locals
    attempt,
    synced,             \* runOnce's synced
    ready,              \* readyCh is closed
    token,              \* syncedCh holds a token
    cancelled,          \* childCtx is cancelled
    main,               \* where startKubernetesRuntimeDiscovery's caller is
    applied,            \* version of the active snapshot's discovered routes
    syncs,              \* ghost: a result was applied: ever, in this run
    barren              \* ghost: failed runs since the last one that applied a result

clusterVars == <<cluster, faults>>
controllerVars == <<controller, services, err>>
supervisorVars == <<supervisor, initialSyncSeen, attempt, synced, barren>>
sinkVars == <<ready, token, applied, syncs>>
mainVars == <<cancelled, main>>
vars == <<clusterVars, controllerVars, supervisorVars, sinkVars, mainVars>>

\* Whether a run returned an error, and whether errors.Is takes it for the end of a
\* context: an API call that timed out returns such an error in a live context, too.
APIErrors == {"error", "deadline"}
Results == APIErrors \cup {"nil"}

ControllerPlaces == {"idle", "list", "watch", "apply", "signal", "events", "done"}
SupervisorPlaces == {"start", "running", "sleeping", "stopped", "failed"}
MainPlaces == {"waiting", "serving", "stopping", "stopped", "failed"}

TypeOK ==
    /\ cluster \in 0..MaxChanges
    /\ faults \in 0..MaxFaults
    /\ controller \in ControllerPlaces
    /\ services \in 0..MaxChanges
    /\ err \in Results
    /\ supervisor \in SupervisorPlaces
    /\ initialSyncSeen \in BOOLEAN
    /\ attempt \in Nat
    /\ synced \in BOOLEAN
    /\ ready \in BOOLEAN
    /\ token \in BOOLEAN
    /\ cancelled \in BOOLEAN
    /\ main \in MainPlaces
    /\ applied \in 0..MaxChanges
    /\ syncs \in [ever: BOOLEAN, run: BOOLEAN]
    /\ barren \in Nat

Init ==
    /\ cluster = 0
    /\ faults = 0
    /\ controller = "idle"
    /\ services = 0
    /\ err = "nil"
    /\ supervisor = "start"
    /\ initialSyncSeen = FALSE
    /\ attempt = 0
    /\ synced = FALSE
    /\ ready = FALSE
    /\ token = FALSE
    /\ cancelled = FALSE
    /\ main = "waiting"
    /\ applied = 0
    /\ syncs = [ever |-> FALSE, run |-> FALSE]
    /\ barren = 0

-----------------------------------------------------------------------------
(* The API server.                                                         *)

ServicesChange ==
    /\ cluster < MaxChanges
    /\ cluster' = cluster + 1
    /\ UNCHANGED <<faults, controllerVars, supervisorVars, sinkVars, mainVars>>

\* An API call or a watch stream fails; after a cancellation every call may.
Fails ==
    /\ \/ cancelled /\ UNCHANGED faults
       \/ faults < MaxFaults /\ faults' = faults + 1
    /\ UNCHANGED cluster

-----------------------------------------------------------------------------
(* ServiceWatchController.Run.                                             *)

Return(e) == controller' = "done" /\ err' = e

\* Wrong variant: the listed Services are not kept, only the events that follow.
ListForgets ==
    /\ controller = "list"
    /\ \/ /\ controller' = "watch"
          /\ services' = 0
          /\ UNCHANGED <<clusterVars, err>>
       \/ Fails /\ (\E e \in APIErrors : Return(e)) /\ UNCHANGED services
    /\ UNCHANGED <<supervisorVars, sinkVars, mainVars>>

List ==
    /\ controller = "list"
    /\ \/ /\ controller' = "watch"
          /\ services' = cluster
          /\ UNCHANGED <<clusterVars, err>>
       \/ Fails /\ (\E e \in APIErrors : Return(e)) /\ UNCHANGED services
    /\ UNCHANGED <<supervisorVars, sinkVars, mainVars>>

Watch ==
    /\ controller = "watch"
    /\ \/ controller' = "apply" /\ UNCHANGED <<clusterVars, err>>
       \/ /\ Fails
          /\ IF cancelled THEN Return("nil") ELSE \E e \in APIErrors : Return(e)
    /\ UNCHANGED <<services, supervisorVars, sinkVars, mainVars>>

\* updateSink up to the end of UpdateDiscoveredRoutes, which gives up when the
\* context is cancelled.
Apply ==
    /\ controller = "apply"
    /\ controller' = "signal"
    /\ IF cancelled THEN UNCHANGED <<applied, syncs>>
       ELSE applied' = services /\ syncs' = [ever |-> TRUE, run |-> TRUE]
    /\ UNCHANGED <<clusterVars, services, err, supervisorVars, ready, token, mainVars>>

\* The rest of runtimeDiscoverySink.update: it signals whatever the result.
Signal ==
    /\ controller = "signal"
    /\ controller' = "events"
    /\ ready' = TRUE
    /\ token' = TRUE
    /\ UNCHANGED <<clusterVars, services, err, supervisorVars, applied, syncs, mainVars>>

\* Wrong variant: an event changes the services map and the sink is not updated.
ReceiveWithoutUpdate ==
    /\ controller = "events"
    /\ services < cluster
    /\ services' = services + 1
    /\ UNCHANGED <<controller, clusterVars, err, supervisorVars, sinkVars, mainVars>>

\* The next event of the stream: a change, or a bookmark, which changes nothing
\* and updates the sink all the same.
ReceiveChange ==
    /\ controller = "events"
    /\ services < cluster
    /\ services' = services + 1
    /\ controller' = "apply"
    /\ UNCHANGED <<clusterVars, err, supervisorVars, sinkVars, mainVars>>

ReceiveBookmark ==
    /\ controller = "events"
    /\ controller' = "apply"
    /\ UNCHANGED <<clusterVars, services, err, supervisorVars, sinkVars, mainVars>>

\* An error event, or the end of the stream; neither error wraps another.
StreamFails ==
    /\ controller = "events"
    /\ Fails
    /\ \/ Return("error")
       \/ cancelled /\ Return("nil")
    /\ UNCHANGED <<services, supervisorVars, sinkVars, mainVars>>

\* Wrong variant: the context is looked at only when an event arrives.
CancelledOnlyOnEvent ==
    /\ controller = "events"
    /\ cancelled /\ services < cluster
    /\ Return("nil")
    /\ UNCHANGED <<clusterVars, services, supervisorVars, sinkVars, mainVars>>

ControllerCancelled ==
    /\ controller = "events"
    /\ cancelled
    /\ Return("nil")
    /\ UNCHANGED <<clusterVars, services, supervisorVars, sinkVars, mainVars>>

-----------------------------------------------------------------------------
(* WatchSupervisor.Run.                                                    *)

\* Wrong variant: a token of the run before is not drained.
StartRunWithoutDrain ==
    /\ supervisor = "start"
    /\ supervisor' = "running"
    /\ controller' = "list"
    /\ synced' = FALSE
    /\ syncs' = [syncs EXCEPT !.run = FALSE]
    /\ UNCHANGED <<clusterVars, services, err, initialSyncSeen, attempt, barren,
                   ready, token, applied, mainVars>>

\* runOnce drains syncedCh and starts the controller.
StartRun ==
    /\ supervisor = "start"
    /\ supervisor' = "running"
    /\ controller' = "list"
    /\ token' = FALSE
    /\ synced' = FALSE
    /\ syncs' = [syncs EXCEPT !.run = FALSE]
    /\ UNCHANGED <<clusterVars, services, err, initialSyncSeen, attempt, barren,
                   ready, applied, mainVars>>

\* onSync resets the attempts once per run.  Once the context is cancelled
\* runOnce may be waiting for the controller only, and not take the token.
TakeToken ==
    /\ supervisor = "running"
    /\ token
    /\ token' = FALSE
    /\ synced' = TRUE
    /\ attempt' = IF synced THEN attempt ELSE 0
    /\ UNCHANGED <<clusterVars, controllerVars, supervisor, initialSyncSeen, barren,
                   ready, applied, syncs, mainVars>>

\* isWatchNormalStop: the context is done, or the error is one of a context.
IsWatchNormalStop == cancelled \/ err = "deadline"

\* Wrong variant: the syncs of earlier runs are forgotten.
RetryIfSyncedNow(nowSynced) == nowSynced

\* A failed run is retried once there was a sync, in this run or before.
MayRetry(nowSynced) == nowSynced \/ initialSyncSeen \/ ready

\* The controller's run is over: stop, fail fast, or schedule a retry.
RunDone ==
    /\ supervisor = "running"
    /\ controller = "done"
    /\ controller' = "idle"
    /\ synced' = (synced \/ token)
    /\ token' = (token /\ synced)
    /\ LET tries == IF ~synced /\ token THEN 0 ELSE attempt
       IN  \/ /\ IsWatchNormalStop \/ err = "nil"
              /\ supervisor' = "stopped"
              /\ attempt' = tries
              /\ UNCHANGED <<initialSyncSeen, barren>>
           \/ /\ ~IsWatchNormalStop /\ err # "nil"
              /\ ~MayRetry(synced \/ token)
              /\ supervisor' = "failed"
              /\ attempt' = tries
              /\ UNCHANGED <<initialSyncSeen, barren>>
           \/ /\ ~IsWatchNormalStop /\ err # "nil"
              /\ MayRetry(synced \/ token)
              /\ supervisor' = "sleeping"
              /\ attempt' = tries + 1
              /\ initialSyncSeen' = (initialSyncSeen \/ synced')
              /\ barren' = IF syncs.run THEN 1 ELSE barren + 1
    /\ UNCHANGED <<clusterVars, services, err, ready, applied, syncs, mainVars>>

\* The backoff timer fires, or the context is cancelled first.
Sleep ==
    /\ supervisor = "sleeping"
    /\ \/ supervisor' = "start"
       \/ cancelled /\ supervisor' = "stopped"
    /\ UNCHANGED <<clusterVars, controllerVars, initialSyncSeen, attempt, synced, barren,
                   sinkVars, mainVars>>

-----------------------------------------------------------------------------
(* startKubernetesRuntimeDiscovery and Stop.                               *)

Returned == supervisor \in {"stopped", "failed"}

\* The select of startKubernetesRuntimeDiscovery: ready, done or ctx.Done.
Started ==
    /\ main = "waiting"
    /\ ready
    /\ main' = "serving"
    /\ UNCHANGED <<clusterVars, controllerVars, supervisorVars, sinkVars, cancelled>>

StartFails ==
    /\ main = "waiting"
    /\ Returned \/ cancelled
    /\ main' = "failed"
    /\ cancelled' = TRUE
    /\ UNCHANGED <<clusterVars, controllerVars, supervisorVars, sinkVars>>

\* The process context ends (a termination signal, or a failed server).
Cancel ==
    /\ ~cancelled
    /\ cancelled' = TRUE
    /\ UNCHANGED <<clusterVars, controllerVars, supervisorVars, sinkVars, main>>

Stop ==
    /\ main = "serving"
    /\ main' = "stopping"
    /\ cancelled' = TRUE
    /\ UNCHANGED <<clusterVars, controllerVars, supervisorVars, sinkVars>>

StopReturns ==
    /\ main = "stopping"
    /\ Returned
    /\ main' = "stopped"
    /\ UNCHANGED <<clusterVars, controllerVars, supervisorVars, sinkVars, cancelled>>

-----------------------------------------------------------------------------
ControllerStep ==
    \/ List \/ Watch \/ Apply \/ Signal
    \/ ReceiveChange \/ ReceiveBookmark \/ StreamFails \/ ControllerCancelled

SupervisorStep == StartRun \/ TakeToken \/ RunDone \/ Sleep

MainStep == Started \/ StartFails \/ Stop \/ StopReturns

Next == ServicesChange \/ ControllerStep \/ SupervisorStep \/ MainStep \/ Cancel

Spec == Init /\ [][Next]_vars

\* The API server answers every call and delivers every event of a stream; the
\* goroutines run.  Bookmarks do not starve changes or the cancellation.
FairSpec ==
    /\ Spec
    /\ WF_vars(List) /\ WF_vars(Watch) /\ WF_vars(Apply) /\ WF_vars(Signal)
    /\ SF_vars(ReceiveChange) /\ SF_vars(ControllerCancelled)
    /\ WF_vars(StartRun) /\ WF_vars(Sleep) /\ WF_vars(RunDone)
    /\ WF_vars(Started \/ StartFails) /\ WF_vars(StopReturns)

-----------------------------------------------------------------------------
(* Properties.                                                             *)

\* Ready means applied.  A failed run is retried after the controller has had a
\* result applied, and only then ("retries only after the initial watch has produced
\* at least one successful sync"): a first run that fails is reported, and a failure
\* after the first sync never is.  Only a cancellation ends the watch without an error,
\* or a list or watch call that ran into a deadline, which isWatchNormalStop takes for
\* one: discovery is then over for good, synced or not.  And the gateway counts as
\* started only when a result was applied, unless it is already being stopped.
\* What supervisor and startup see are the ready channel and the sync tokens, which
\* update sends whether the result was applied or not.
ReadyMeansApplied ==
    /\ supervisor = "sleeping" => syncs.ever
    /\ supervisor = "failed" => ~syncs.ever
    /\ supervisor = "stopped" => cancelled \/ err = "deadline"
    /\ main = "serving" => syncs.ever \/ cancelled

\* The attempt number the backoff is computed from counts the failed runs since
\* the last run that applied a result: no sync token of an earlier run is taken
\* for one of this run (drainSynced in runOnce).
BackoffCountsFailedRuns == supervisor = "sleeping" => attempt = barren

\* A later snapshot never goes back to an older set of Services, through any
\* number of relists and retries.
AppliedNeverGoesBack == [][applied' >= applied]_vars

\* Once the changes and the failures stop, the active snapshot holds the present
\* Services and keeps holding them, through retries of every failed run: unless the
\* watch was cancelled, its first run failed, or a call of its last run ended in a
\* deadline, for which the supervisor gives up and leaves the snapshot as it is.
Converges ==
    <>[](\/ cancelled
         \/ supervisor = "failed"
         \/ supervisor = "stopped" /\ err = "deadline"
         \/ applied = cluster)

\* A cancellation always ends the supervisor, so Stop always returns.
StopTerminates == cancelled ~> (Returned /\ main \in {"stopped", "failed", "serving"})

=============================================================================
