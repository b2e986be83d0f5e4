------------------------------ MODULE RouteReload ------------------------------
(***************************************************************************)
(* Who replaces the active route snapshot of a running gateway: reloads    *)
(* after SIGHUP, reloads by the configuration file watcher, and the runtime*)
(* discovery watch (internal/proxy/server.go,                              *)
(* cmd/mc-gateway/discovery_reload.go, internal/configwatch/watcher.go).   *)
(*                                                                         *)
(* The content of the configuration file is a number; some contents do not *)
(* validate.  The Services are a version number, as in ServiceWatch.       *)
(* Building a snapshot from a valid configuration cannot fail: RouteTable  *)
(* shows that.                                                             *)
(***************************************************************************)
EXTENDS Naturals, FiniteSets

CONSTANTS
    Contents,           \* contents of the configuration file, numbered
    Broken,             \* those that LoadFile rejects
    StartupContent,     \* the content the gateway started from
    Discovery,          \* discovery.kubernetes.enabled
    Watch,              \* configReload.watch
    MaxEdits, MaxSignals, MaxChanges, MaxFaults,   \* bounds on the environment
    Nobody

ASSUME ReloadAssumption ==
    /\ Contents \subseteq Nat
    /\ Broken \subseteq Contents
    /\ StartupContent \in Contents \ Broken
    /\ {Discovery, Watch} \subseteq BOOLEAN
    /\ {MaxEdits, MaxSignals, MaxChanges, MaxFaults} \subseteq Nat
    /\ Nobody \notin {"signal", "watcher", "discovery"}

Reloaders == {"signal", "watcher"}
Threads == Reloaders \cup {"discovery"}

VARIABLES
    file,           \* content of the configuration file
    cluster,        \* version of the Services in the namespace
    budget,         \* what the environment has left: edits, signals, faults
    active,         \* Server.state: static, discovered, generation
    mu,             \* holder of Server.snapshotMu, or Nobody
    pc,             \* thread -> where it is
    cfg,            \* reloader -> the configuration it loaded
    routes,         \* thread -> version of the Services it holds
    built,          \* thread -> the snapshot it built under the lock
    hup,            \* reloadCh holds a signal
    watching,       \* configwatch: "off", "digest" (initial digest read), "on"
    event, timer,   \* an fsnotify event is waiting; the debounce timer runs
    digest,         \* content whose digest the watcher remembers
    gauge,          \* mc_gateway_config_generation
    reloaded,       \* ghost: content of the last applied reload
    smooth          \* ghost: the file changed only while it was watched, and no
                    \* earlier content came back

fileVars == <<file, cluster, budget, smooth>>
watcherVars == <<watching, event, timer, digest>>
serverVars == <<active, mu, built, gauge, reloaded>>
localVars == <<cfg, routes>>
vars == <<fileVars, watcherVars, serverVars, localVars, pc, hup>>

Places == {"idle", "load", "list", "lock", "store", "metrics"}

Snapshot == [static: Contents, discovered: 0..MaxChanges, generation: Nat \ {0}]

TypeOK ==
    /\ file \in Contents
    /\ cluster \in 0..MaxChanges
    /\ budget \in [edits: 0..MaxEdits, signals: 0..MaxSignals, faults: 0..MaxFaults]
    /\ active \in Snapshot
    /\ mu \in Threads \cup {Nobody}
    /\ pc \in [Threads -> Places]
    /\ cfg \in [Reloaders -> Contents]
    /\ routes \in [Threads -> 0..MaxChanges]
    /\ built \in [Threads -> Snapshot]
    /\ hup \in BOOLEAN
    /\ watching \in {"off", "digest", "on"}
    /\ {event, timer} \subseteq BOOLEAN
    /\ digest \in Contents
    /\ gauge \in Nat \ {0}
    /\ reloaded \in Contents
    /\ smooth \in BOOLEAN

Init ==
    /\ file = StartupContent
    /\ cluster = 0
    /\ budget = [edits |-> MaxEdits, signals |-> MaxSignals, faults |-> MaxFaults]
    /\ active = [static |-> StartupContent, discovered |-> 0, generation |-> 1]
    /\ mu = Nobody
    /\ pc = [t \in Threads |-> "idle"]
    /\ cfg = [r \in Reloaders |-> StartupContent]
    /\ routes = [t \in Threads |-> 0]
    /\ built = [t \in Threads |-> active]
    /\ hup = FALSE
    /\ watching = "off"
    /\ event = FALSE
    /\ timer = FALSE
    /\ digest = StartupContent
    /\ gauge = 1
    /\ reloaded = StartupContent
    /\ smooth = TRUE

Goto(t, place) == pc' = [pc EXCEPT ![t] = place]

Spend(what) == budget[what] > 0 /\ budget' = [budget EXCEPT ![what] = @ - 1]

-----------------------------------------------------------------------------
(* The environment.                                                        *)

EditFile(content) ==
    /\ content # file
    /\ Spend("edits")
    /\ file' = content
    /\ smooth' = (smooth /\ watching = "on" /\ content > file)
    /\ event' = (event \/ watching = "on")
    /\ UNCHANGED <<cluster, watching, timer, digest, serverVars, localVars, pc, hup>>

ServicesChange ==
    /\ Discovery
    /\ cluster < MaxChanges
    /\ cluster' = cluster + 1
    /\ UNCHANGED <<file, budget, smooth, watcherVars, serverVars, localVars, pc, hup>>

\* reloadCh has room for one signal: further ones are dropped.
SIGHUP ==
    /\ Spend("signals")
    /\ hup' = TRUE
    /\ UNCHANGED <<file, cluster, smooth, watcherVars, serverVars, localVars, pc>>

-----------------------------------------------------------------------------
(* What starts a reload.                                                   *)

ServeReloadSignal ==
    /\ pc["signal"] = "idle"
    /\ hup
    /\ hup' = FALSE
    /\ Goto("signal", "load")
    /\ UNCHANGED <<fileVars, watcherVars, serverVars, localVars>>

\* configwatch.Start reads the initial digest and then adds the directory.
StartWatcher ==
    /\ Watch
    /\ \/ watching = "off" /\ watching' = "digest" /\ digest' = file
       \/ watching = "digest" /\ watching' = "on" /\ UNCHANGED digest
    /\ UNCHANGED <<fileVars, event, timer, serverVars, localVars, pc, hup>>

\* Wrong variant: the event is not taken for one of the configuration file.
ConfigEventIgnored ==
    /\ watching = "on"
    /\ pc["watcher"] = "idle"
    /\ event
    /\ event' = FALSE
    /\ UNCHANGED <<fileVars, watching, timer, digest, serverVars, localVars, pc, hup>>

\* An event of the configuration file arms the debounce timer or resets it.
ConfigEvent ==
    /\ watching = "on"
    /\ pc["watcher"] = "idle"
    /\ event
    /\ event' = FALSE
    /\ timer' = TRUE
    /\ UNCHANGED <<fileVars, watching, digest, serverVars, localVars, pc, hup>>

\* The timer fires: the file is read, and a new digest is remembered before
\* the reload is tried.  A file that cannot be read is left for the next event.
DebounceElapses ==
    /\ pc["watcher"] = "idle"
    /\ timer
    /\ timer' = FALSE
    /\ \/ /\ Spend("faults")
          /\ UNCHANGED <<digest, pc>>
       \/ /\ digest = file
          /\ UNCHANGED <<budget, digest, pc>>
       \/ /\ digest # file
          /\ digest' = file
          /\ Goto("watcher", "load")
          /\ UNCHANGED budget
    /\ UNCHANGED <<file, cluster, smooth, watching, event, serverVars, localVars, hup>>

-----------------------------------------------------------------------------
(* kubernetesReloadReloader.ReloadFile.                                    *)

LoadFile(r) ==
    /\ pc[r] = "load"
    /\ \/ file \in Broken /\ Goto(r, "idle") /\ UNCHANGED cfg
       \/ /\ file \notin Broken
          /\ cfg' = [cfg EXCEPT ![r] = file]
          /\ Goto(r, IF Discovery THEN "list" ELSE "lock")
    /\ UNCHANGED <<fileVars, watcherVars, serverVars, routes, hup>>

\* The fresh Service list of a reload; a failed list fails the reload.
ListServices(r) ==
    /\ pc[r] = "list"
    /\ \/ /\ routes' = [routes EXCEPT ![r] = cluster]
          /\ Goto(r, "lock")
          /\ UNCHANGED budget
       \/ Spend("faults") /\ Goto(r, "idle") /\ UNCHANGED routes
    /\ UNCHANGED <<file, cluster, smooth, watcherVars, serverVars, cfg, hup>>

\* Wrong variant: the snapshot is built without waiting for the lock.
BuildReloadUnlocked(r) ==
    /\ pc[r] = "lock"
    /\ mu' = r
    /\ built' = [built EXCEPT ![r] =
                    [static |-> cfg[r],
                     discovered |-> IF Discovery THEN routes[r] ELSE active.discovered,
                     generation |-> active.generation + 1]]
    /\ Goto(r, "store")
    /\ UNCHANGED <<fileVars, watcherVars, active, gauge, reloaded, localVars, hup>>

\* ReloadConfigWithDiscovery, or Server.ReloadFile without discovery: the
\* snapshot is built under the lock.
BuildReload(r) ==
    /\ pc[r] = "lock"
    /\ mu = Nobody
    /\ mu' = r
    /\ built' = [built EXCEPT ![r] =
                    [static |-> cfg[r],
                     discovered |-> IF Discovery THEN routes[r] ELSE active.discovered,
                     generation |-> active.generation + 1]]
    /\ Goto(r, "store")
    /\ UNCHANGED <<fileVars, watcherVars, active, gauge, reloaded, localVars, hup>>

-----------------------------------------------------------------------------
(* The runtime discovery watch.                                            *)

\* The next watch event, or the list of a retry (see ServiceWatch).
ReceiveResult ==
    /\ Discovery
    /\ pc["discovery"] = "idle"
    /\ \/ routes["discovery"] < cluster
          /\ routes' = [routes EXCEPT !["discovery"] = @ + 1]
          /\ UNCHANGED budget
       \/ Spend("faults") /\ routes' = [routes EXCEPT !["discovery"] = cluster]
    /\ Goto("discovery", "lock")
    /\ UNCHANGED <<file, cluster, smooth, watcherVars, serverVars, cfg, hup>>

\* Wrong variant: the static configuration is read without waiting for the lock.
BuildDiscoveredUnlocked ==
    /\ pc["discovery"] = "lock"
    /\ mu' = "discovery"
    /\ built' = [built EXCEPT !["discovery"] =
                    [static |-> active.static,
                     discovered |-> routes["discovery"],
                     generation |-> active.generation + 1]]
    /\ Goto("discovery", "store")
    /\ UNCHANGED <<fileVars, watcherVars, active, gauge, reloaded, localVars, hup>>

\* UpdateDiscoveredRoutes: the new routes with the static configuration of the
\* active snapshot.
BuildDiscovered ==
    /\ pc["discovery"] = "lock"
    /\ mu = Nobody
    /\ mu' = "discovery"
    /\ built' = [built EXCEPT !["discovery"] =
                    [static |-> active.static,
                     discovered |-> routes["discovery"],
                     generation |-> active.generation + 1]]
    /\ Goto("discovery", "store")
    /\ UNCHANGED <<fileVars, watcherVars, active, gauge, reloaded, localVars, hup>>

-----------------------------------------------------------------------------
(* updateRouteSnapshotLocked and what follows it.                          *)

StoreSnapshot(t) ==
    /\ pc[t] = "store"
    /\ active' = built[t]
    /\ reloaded' = IF t \in Reloaders THEN cfg[t] ELSE reloaded
    /\ Goto(t, "metrics")
    /\ UNCHANGED <<fileVars, watcherVars, mu, built, gauge, localVars, hup>>

\* SetConfig, then the lock is released.
SetConfig(t) ==
    /\ pc[t] = "metrics"
    /\ gauge' = built[t].generation
    /\ mu' = Nobody
    /\ Goto(t, "idle")
    /\ UNCHANGED <<fileVars, watcherVars, active, built, reloaded, localVars, hup>>

-----------------------------------------------------------------------------
ReloadStep(r) == LoadFile(r) \/ ListServices(r) \/ BuildReload(r)

SwapStep(t) == StoreSnapshot(t) \/ SetConfig(t)

Next ==
    \/ \E content \in Contents : EditFile(content)
    \/ ServicesChange \/ SIGHUP
    \/ ServeReloadSignal \/ StartWatcher \/ ConfigEvent \/ DebounceElapses
    \/ \E r \in Reloaders : ReloadStep(r)
    \/ ReceiveResult \/ BuildDiscovered
    \/ \E t \in Threads : SwapStep(t)

Spec == Init /\ [][Next]_vars

-----------------------------------------------------------------------------
(* Properties.                                                             *)

\* No swap of the snapshot is lost or made twice: each one carries the next
\* generation, although every thread reads the generation before it stores
\* (snapshotMu, updateRouteSnapshotLocked).
GenerationsAreConsecutive ==
    [][active' # active => active'.generation = active.generation + 1]_vars

\* A discovery update never brings back a static configuration that a reload
\* replaced: the active one is that of the last applied reload
\* (UpdateDiscoveredRoutes rebuilds from current.staticConfig under the lock).
ReloadSurvivesDiscovery == active.static = reloaded

\* Whenever nobody holds the lock, mc_gateway_config_generation is the
\* generation of the active snapshot (SetConfig inside the lock).
GenerationGaugeIsExact == mu = Nobody => gauge = active.generation

ReloadersIdle == \A r \in Reloaders : pc[r] = "idle"
WatcherIdle == watching = "on" /\ ~event /\ ~timer /\ pc["watcher"] = "idle"

\* When the watcher has nothing left to do, a valid file is the active
\* configuration ("detect mounted config changes automatically").
WatchedFileIsActive ==
    WatcherIdle /\ ReloadersIdle /\ ~hup /\ file \notin Broken => active.static = file

\* The last reload was one by signal, and an earlier one by the watcher applied
\* another content.
SignalOvertookWatcher ==
    /\ active.static = cfg["signal"]
    /\ cfg["watcher"] = file
    /\ built["watcher"].generation < built["signal"].generation

\* However edits, the debounce timer, both reloaders and discovery updates overlap:
\* as long as no read or list failed and the file changed smoothly, the file is active
\* when the watcher is idle, with one exception: a reload by signal that had read the
\* file before the last edit was applied after the watcher's.  The watcher alone
\* suffices.
OnlyASignalUndoesTheWatcher ==
    budget.faults = MaxFaults /\ smooth => WatchedFileIsActive \/ SignalOvertookWatcher

DiscoveryIdle == pc["discovery"] = "idle" /\ routes["discovery"] = cluster

\* When the watch has applied every change and no reload is running, the discovered
\* routes of the active snapshot are the latest, with one exception: the watch did
\* apply the latest, and a reload that had listed the Services before then replaced
\* them with its older list.
OnlyAnOlderListUndoesDiscovery ==
    DiscoveryIdle /\ ReloadersIdle /\ active.discovered # cluster =>
        /\ built["discovery"].discovered = cluster
        /\ built["discovery"].generation < active.generation
        /\ \E r \in Reloaders : active = built[r] /\ routes[r] < cluster

=============================================================================
