------------------------------ MODULE RouteProofs ------------------------------
(***************************************************************************)
(* Proofs about the routes of the gateway.                                 *)
(*                                                                         *)
(* First RouteTable, for any Services, any configurations and any          *)
(* normalization that leaves a host as it is.  The heart is MergeIsValid:  *)
(* whatever the Services hold, the merge with a valid configuration        *)
(* repeats no host, so the rebuild never fails.                            *)
(*                                                                         *)
(* Then RouteReload, which relies on that, for every set of file contents  *)
(* and every bound on edits, signals, Service changes and failures.        *)
(***************************************************************************)
EXTENDS RouteTable, RouteReload, TLAPS

\* Steps are for Zenon, unless they name the other prover; they are small, and the
\* limit is for a busy machine.
USE ZenonT(60)

\* The inductive invariant: the active configuration passed its validation.
TableIInv == TableTypeOK /\ Valid(static) /\ RouterIsCurrent

-----------------------------------------------------------------------------
(* Discovery.                                                              *)

\* ParseServiceAnnotations returns a normalized address or fails.
LEMMA ParsedHost ==
    ASSUME NEW spec \in Specs
    PROVE  Parsed(spec) \in Hosts \cup {Invalid}
  BY SpellingAssumption, ServiceAssumption DEF Parsed

\* A discovered route belongs to the only candidate with its host.
LEMMA DiscoveredFacts ==
    ASSUME NEW svc \in [Services -> Specs \cup {None}],
           NEW s \in DOMAIN BuildDiscoveredRoutes(svc)
    PROVE  /\ s \in Candidates(svc) /\ s \in Services
           /\ BuildDiscoveredRoutes(svc)[s] = Parsed(svc[s])
           /\ BuildDiscoveredRoutes(svc)[s] \in Hosts
           /\ \A t \in Candidates(svc) : Parsed(svc[t]) = Parsed(svc[s]) => t = s
  <1>1. /\ s \in Candidates(svc)
        /\ BuildDiscoveredRoutes(svc)[s] = Parsed(svc[s])
        /\ \A t \in Candidates(svc) : Parsed(svc[t]) = Parsed(svc[s]) => t = s
    BY DEF BuildDiscoveredRoutes
  <1>2. s \in Services /\ svc[s] \in Specs /\ Parsed(svc[s]) # Invalid
    BY <1>1 DEF Candidates, Inputs
  <1>3. Parsed(svc[s]) \in Hosts
    BY <1>2, ParsedHost
  <1>4. QED
    BY <1>1, <1>2, <1>3

-----------------------------------------------------------------------------
(* Merge.                                                                  *)

\* The names of a route that passed validation are spellings of hosts.
LEMMA ValidNames ==
    ASSUME NEW conf \in Configs, Valid(conf), NEW i \in DOMAIN conf.routes
    PROVE  /\ conf.routes[i] \in Route
           /\ \A k \in DOMAIN conf.routes[i].names : Norm[conf.routes[i].names[k]] \in Hosts
  <1>1. conf.routes[i] \in Route
    BY ConfigAssumption
  <1>2. ASSUME NEW k \in DOMAIN conf.routes[i].names
        PROVE  Norm[conf.routes[i].names[k]] \in Hosts
    <2>1. conf.routes[i].names[k] \in Spellings
      BY <1>1, SMTT(60) DEF Route
    <2>2. Norm[conf.routes[i].names[k]] # Invalid
      BY SMTT(60) DEF Valid, ValidRoutes, Names
    <2>3. QED
      BY <2>1, <2>2, SpellingAssumption
  <1>3. QED
    BY <1>1, <1>2

\* Normalizing the names of such a route changes none of its hosts.
LEMMA NormalizedNames ==
    ASSUME NEW route \in Route, \A k \in DOMAIN route.names : Norm[route.names[k]] \in Hosts
    PROVE  /\ NormalizedRoute(route).ok = route.ok
           /\ DOMAIN NormalizedRoute(route).names = DOMAIN route.names
           /\ \A k \in DOMAIN route.names :
                 Norm[NormalizedRoute(route).names[k]] = Norm[route.names[k]]
  <1>1. /\ NormalizedRoute(route).ok = route.ok
        /\ NormalizedRoute(route).names = [k \in DOMAIN route.names |-> Norm[route.names[k]]]
    BY DEF NormalizedRoute, Route
  <1>2. QED
    BY <1>1, SpellingAssumption

\* What MergeRoutes does with a valid configuration and discovered routes that have
\* normalized hosts.
LEMMA MergeFacts ==
    ASSUME NEW conf \in Configs, Valid(conf),
           NEW discovered, DOMAIN discovered \subseteq Services,
           \A s \in DOMAIN discovered : discovered[s] \in Hosts,
           NEW merged, merged = MergeRoutes(conf, discovered)
    PROVE  /\ DOMAIN conf.routes \subseteq DOMAIN merged
           /\ \A i \in DOMAIN conf.routes :
                 /\ merged[i].ok = conf.routes[i].ok
                 /\ DOMAIN merged[i].names = DOMAIN conf.routes[i].names
                 /\ \A k \in DOMAIN conf.routes[i].names :
                       Norm[merged[i].names[k]] = Norm[conf.routes[i].names[k]]
           /\ \A s \in DOMAIN merged \ DOMAIN conf.routes :
                 /\ s \in DOMAIN discovered
                 /\ merged[s].ok
                 /\ DOMAIN merged[s].names = {1}
                 /\ Norm[merged[s].names[1]] = discovered[s]
                 /\ discovered[s] \notin StaticHosts(conf)
                 /\ \A t \in DOMAIN discovered : discovered[t] = discovered[s] => t = s
  <1> DEFINE kept == {s \in DOMAIN discovered :
                        /\ \A t \in DOMAIN discovered : discovered[t] = discovered[s] => t = s
                        /\ discovered[s] \notin StaticHosts(conf)}
  <1>1. merged = [i \in DOMAIN conf.routes \cup kept |->
                    IF i \in kept THEN DiscoveredRoute(discovered[i], i)
                                  ELSE NormalizedRoute(conf.routes[i])]
    BY DEF MergeRoutes
  <1>2. DOMAIN conf.routes \cap kept = {}
    BY ConfigAssumption, ServiceAssumption
  <1>3. ASSUME NEW i \in DOMAIN conf.routes
        PROVE  /\ merged[i].ok = conf.routes[i].ok
               /\ DOMAIN merged[i].names = DOMAIN conf.routes[i].names
               /\ \A k \in DOMAIN conf.routes[i].names :
                     Norm[merged[i].names[k]] = Norm[conf.routes[i].names[k]]
    <2>1. merged[i] = NormalizedRoute(conf.routes[i])
      BY <1>1, <1>2
    <2>2. QED
      BY <2>1, ValidNames, NormalizedNames, SMTT(60)
  <1>4. ASSUME NEW s \in DOMAIN merged \ DOMAIN conf.routes
        PROVE  /\ s \in kept
               /\ merged[s].ok
               /\ DOMAIN merged[s].names = {1}
               /\ Norm[merged[s].names[1]] = discovered[s]
    <2>1. s \in kept /\ merged[s] = DiscoveredRoute(discovered[s], s)
      BY <1>1
    <2>2. discovered[s] \in Hosts
      BY <2>1
    <2>3. /\ DiscoveredRoute(discovered[s], s).ok
          /\ DiscoveredRoute(discovered[s], s).names = <<discovered[s]>>
      BY DEF DiscoveredRoute
    <2>4. DOMAIN <<discovered[s]>> = {1} /\ <<discovered[s]>>[1] = discovered[s]
      BY SMTT(60)
    <2>5. QED
      BY <2>1, <2>2, <2>3, <2>4, SpellingAssumption, SMTT(60)
  <1>5. DOMAIN conf.routes \subseteq DOMAIN merged
    BY <1>1
  <1>6. QED
    BY <1>3, <1>4, <1>5

\* Whatever is discovered, the merge with a valid configuration is valid: a discovered
\* route is kept only if no configured and no other discovered route has its host.
LEMMA MergeIsValid ==
    ASSUME NEW conf \in Configs, Valid(conf),
           NEW discovered, DOMAIN discovered \subseteq Services,
           \A s \in DOMAIN discovered : discovered[s] \in Hosts
    PROVE  ValidRoutes(MergeRoutes(conf, discovered))
  <1> DEFINE merged == MergeRoutes(conf, discovered)
             old == DOMAIN conf.routes
             new == DOMAIN merged \ old
  <1>f. /\ old \subseteq DOMAIN merged
        /\ \A i \in old :
              /\ merged[i].ok = conf.routes[i].ok
              /\ DOMAIN merged[i].names = DOMAIN conf.routes[i].names
              /\ \A k \in DOMAIN conf.routes[i].names :
                    Norm[merged[i].names[k]] = Norm[conf.routes[i].names[k]]
        /\ \A s \in new :
              /\ s \in DOMAIN discovered
              /\ merged[s].ok
              /\ DOMAIN merged[s].names = {1}
              /\ Norm[merged[s].names[1]] = discovered[s]
              /\ discovered[s] \notin StaticHosts(conf)
              /\ \A t \in DOMAIN discovered : discovered[t] = discovered[s] => t = s
    BY MergeFacts, SMTT(60)
  <1> HIDE DEF merged
  <1>1. ASSUME NEW i \in DOMAIN merged
        PROVE  merged[i].ok /\ Invalid \notin Names(merged, i)
    <2>1. CASE i \in old
      BY <1>f, <2>1, SMTT(60) DEF Valid, ValidRoutes, Names
    <2>2. CASE i \in new
      BY <1>f, <2>2, SpellingAssumption, SMTT(60) DEF Names
    <2>3. QED
      BY <2>1, <2>2
  <1>2. ASSUME NEW i \in DOMAIN merged, NEW j \in DOMAIN merged,
               NEW k \in DOMAIN merged[i].names, NEW l \in DOMAIN merged[j].names,
               Norm[merged[i].names[k]] = Norm[merged[j].names[l]]
        PROVE  i = j /\ k = l
    <2>h. ASSUME NEW m \in old, NEW n \in DOMAIN conf.routes[m].names
          PROVE  Norm[conf.routes[m].names[n]] \in StaticHosts(conf)
      BY SMTT(60) DEF StaticHosts, Names
    <2>1. CASE i \in old /\ j \in old
      BY <1>f, <1>2, <2>1, SMTT(60) DEF Valid, ValidRoutes
    <2>2. CASE i \in old /\ j \in new
      BY <1>f, <1>2, <2>2, <2>h, SMTT(60)
    <2>3. CASE i \in new /\ j \in old
      BY <1>f, <1>2, <2>3, <2>h, SMTT(60)
    <2>4. CASE i \in new /\ j \in new
      BY <1>f, <1>2, <2>4, SMTT(60)
    <2>5. QED
      BY <2>1, <2>2, <2>3, <2>4
  <1>3. ValidRoutes(merged)
    BY <1>1, <1>2 DEF ValidRoutes
  <1>4. QED
    BY <1>3 DEF merged

\* The merge of the present Services is valid: no watch event makes a rebuild fail.
LEMMA RebuildSucceeds ==
    ASSUME NEW conf \in Configs, Valid(conf), NEW svc \in [Services -> Specs \cup {None}]
    PROVE  /\ ValidRoutes(MergeRoutes(conf, BuildDiscoveredRoutes(svc)))
           /\ DOMAIN BuildDiscoveredRoutes(svc) \subseteq Services
           /\ \A s \in DOMAIN BuildDiscoveredRoutes(svc) : BuildDiscoveredRoutes(svc)[s] \in Hosts
  <1>1. /\ DOMAIN BuildDiscoveredRoutes(svc) \subseteq Services
        /\ \A s \in DOMAIN BuildDiscoveredRoutes(svc) : BuildDiscoveredRoutes(svc)[s] \in Hosts
    BY DiscoveredFacts
  <1>2. QED
    BY <1>1, MergeIsValid

-----------------------------------------------------------------------------
(* The router.                                                             *)

\* In a valid list a host names one route, which is the one the router leads to.
LEMMA NewLeadsToTheRoute ==
    ASSUME NEW conf, NEW list, ValidRoutes(list),
           NEW i \in DOMAIN list, NEW h \in Names(list, i)
    PROVE  /\ h \in DOMAIN New(conf, list).routes
           /\ New(conf, list).routes[h] = i
  <1>1. ASSUME NEW j \in DOMAIN list, h \in Names(list, j) PROVE j = i
    BY <1>1, SMTT(60) DEF ValidRoutes, Names
  <1> DEFINE all == UNION {Names(list, j) : j \in DOMAIN list}
             leads == [g \in all |-> CHOOSE j \in DOMAIN list : g \in Names(list, j)]
  <1>2. New(conf, list).routes = leads
    BY DEF New
  <1>3. h \in all
    OBVIOUS
  <1>4. (CHOOSE j \in DOMAIN list : h \in Names(list, j)) = i
    BY <1>1
  <1>5. QED
    BY <1>2, <1>3, <1>4

\* Every entry of the router is a route with that host.
LEMMA NewHasOnlyRoutes ==
    ASSUME NEW conf, NEW list, NEW h \in DOMAIN New(conf, list).routes
    PROVE  \E i \in DOMAIN list : h \in Names(list, i)
  BY DEF New

-----------------------------------------------------------------------------
\* The active configuration is valid and the router is the one it gives with the
\* present Services, in every reachable state.
THEOREM TableInvariance == TableSpec => []TableIInv
  <1>1. TableInit => TableIInv
    BY DEF TableInit, TableIInv, TableTypeOK, RouterIsCurrent
  <1>2. TableIInv /\ [TableNext]_tableVars => TableIInv'
    <2> SUFFICES ASSUME TableIInv, [TableNext]_tableVars PROVE TableIInv'
      OBVIOUS
    <2>1. ASSUME NEW conf \in Configs, services' \in [Services -> Specs \cup {None}],
                 Valid(conf), BuildRouteSnapshot(conf, BuildDiscoveredRoutes(services'))
          PROVE  TableIInv'
      <3>1. ValidRoutes(MergeRoutes(conf, BuildDiscoveredRoutes(services')))
        BY <2>1, RebuildSucceeds
      <3>2. static' = conf /\ router' = New(conf, MergeRoutes(conf, BuildDiscoveredRoutes(services')))
        BY <2>1, <3>1 DEF BuildRouteSnapshot
      <3>3. QED
        BY <2>1, <3>2 DEF TableIInv, TableTypeOK, RouterIsCurrent
    <2>2. ASSUME NEW s \in Services, NEW spec \in Specs \cup {None}, ApplyWatchEvent(s, spec)
          PROVE  TableIInv'
      <3>1. services' \in [Services -> Specs \cup {None}]
        BY <2>2 DEF ApplyWatchEvent, TableIInv, TableTypeOK
      <3>2. QED
        BY <2>1, <2>2, <3>1 DEF ApplyWatchEvent, TableIInv, TableTypeOK
    <2>3. ASSUME NEW conf \in Configs, Reload(conf)
          PROVE  TableIInv'
      <3>1. services' = services
        BY <2>3 DEF Reload
      <3>2. CASE Valid(conf)
        BY <2>1, <2>3, <3>1, <3>2 DEF Reload, TableIInv, TableTypeOK
      <3>3. CASE ~Valid(conf)
        <4>1. UNCHANGED <<static, router>>
          BY <2>3, <3>3 DEF Reload, BuildRouteSnapshot
        <4>2. QED
          BY <3>1, <4>1 DEF TableIInv, TableTypeOK, RouterIsCurrent
      <3>4. QED
        BY <3>2, <3>3
    <2>4. CASE UNCHANGED tableVars
      BY <2>4 DEF tableVars, TableIInv, TableTypeOK, RouterIsCurrent
    <2>5. QED
      BY <2>2, <2>3, <2>4 DEF TableNext
  <1>3. QED
    BY <1>1, <1>2, PTL DEF TableSpec

\* No Service, however it is annotated, makes BuildRouteSnapshot fail: the router is
\* always that of the active configuration and the present Services.
THEOREM RouterCurrent == TableSpec => []RouterIsCurrent
  <1>1. TableIInv => RouterIsCurrent
    BY DEF TableIInv
  <1>2. QED
    BY <1>1, TableInvariance, PTL

\* An address that the static configuration routes leads to the same route with and
\* without discovery (staticHosts in MergeRoutes).
THEOREM StaticWins == TableSpec => []StaticRoutesWin
  <1>1. ASSUME TableIInv, NEW sp \in Spellings,
               Select(New(static, static.routes), sp).matchedBy = "route"
        PROVE  Select(router, sp) = Select(New(static, static.routes), sp)
    <2> DEFINE discovered == BuildDiscoveredRoutes(services)
               merged == MergeRoutes(static, discovered)
               alone == New(static, static.routes)
               host == Norm[sp]
    <2>1. /\ static \in Configs /\ Valid(static) /\ ValidRoutes(static.routes)
          /\ services \in [Services -> Specs \cup {None}]
          /\ router = New(static, merged)
      BY <1>1 DEF TableIInv, TableTypeOK, RouterIsCurrent, Valid
    <2>2. ValidRoutes(merged)
      BY <2>1, RebuildSucceeds
    <2>3. host # Invalid /\ host \in DOMAIN alone.routes
      BY <1>1 DEF Select, NoRoute
    <2>4. PICK i \in DOMAIN static.routes : host \in Names(static.routes, i)
      BY <2>3, NewHasOnlyRoutes
    <2>5. i \in DOMAIN merged /\ host \in Names(merged, i)
      <3>1. /\ DOMAIN static.routes \subseteq DOMAIN merged
            /\ DOMAIN merged[i].names = DOMAIN static.routes[i].names
            /\ \A k \in DOMAIN static.routes[i].names :
                  Norm[merged[i].names[k]] = Norm[static.routes[i].names[k]]
        BY <2>1, RebuildSucceeds, MergeFacts, SMTT(60)
      <3>2. QED
        BY <2>4, <3>1 DEF Names
    <2>6. alone.routes[host] = i
      BY <2>1, <2>4, NewLeadsToTheRoute, SMTT(60)
    <2>7. host \in DOMAIN router.routes /\ router.routes[host] = i
      BY <2>1, <2>2, <2>5, NewLeadsToTheRoute, SMTT(60)
    <2>8. QED
      BY <2>3, <2>6, <2>7 DEF Select
  <1>2. TableIInv => StaticRoutesWin
    BY <1>1 DEF StaticRoutesWin
  <1>3. QED
    BY <1>2, TableInvariance, PTL

\* An address leads to a Service exactly while it is the only one that claims it
\* (the duplicate check of BuildDiscoveredRoutes).
THEOREM OneClaimant == TableSpec => []DiscoveredRouteHasOneClaimant
  <1>1. ASSUME TableIInv, NEW sp \in Spellings, NEW s \in Services, Select(router, sp).route = s,
               NEW t \in Services
        PROVE  (t \in Candidates(services) /\ Parsed(services[t]) = Norm[sp]) <=> t = s
    <2> DEFINE discovered == BuildDiscoveredRoutes(services)
               merged == MergeRoutes(static, discovered)
               host == Norm[sp]
    <2>1. /\ static \in Configs /\ Valid(static)
          /\ services \in [Services -> Specs \cup {None}]
          /\ router = New(static, merged)
      BY <1>1 DEF TableIInv, TableTypeOK, RouterIsCurrent
    <2>2. /\ ValidRoutes(merged)
          /\ DOMAIN discovered \subseteq Services
          /\ \A x \in DOMAIN discovered : discovered[x] \in Hosts
      BY <2>1, RebuildSucceeds
    <2>3. host \in DOMAIN router.routes /\ router.routes[host] = s
      BY <1>1, ServiceAssumption DEF Select, NoRoute
    <2>4. PICK i \in DOMAIN merged : host \in Names(merged, i)
      BY <2>1, <2>3, NewHasOnlyRoutes
    <2>5. i = s
      BY <2>1, <2>2, <2>3, <2>4, NewLeadsToTheRoute, SMTT(60)
    <2>6. s \notin DOMAIN static.routes
      BY <2>1, ConfigAssumption, ServiceAssumption
    <2>7. /\ s \in DOMAIN discovered
          /\ DOMAIN merged[s].names = {1}
          /\ Norm[merged[s].names[1]] = discovered[s]
      BY <2>1, <2>2, <2>4, <2>5, <2>6, MergeFacts, SMTT(60)
    <2>8. discovered[s] = host
      BY <2>4, <2>5, <2>7 DEF Names
    <2>9. QED
      BY <2>1, <2>7, <2>8, DiscoveredFacts, SMTT(60)
  <1>2. TableIInv => DiscoveredRouteHasOneClaimant
    BY <1>1 DEF DiscoveredRouteHasOneClaimant
  <1>3. QED
    BY <1>2, TableInvariance, PTL

-----------------------------------------------------------------------------
(* The snapshots and who replaces them.                                    *)

\* Who is between lock and unlock of Server.snapshotMu holds it, and no other.
LockInv ==
    \A t \in Threads : /\ pc[t] \in {"store", "metrics"} => mu = t
                       /\ mu = t => pc[t] \in {"store", "metrics"}

\* The snapshot a thread is about to store continues the active one.
StoreInv ==
    \A t \in Threads : pc[t] = "store" =>
        /\ built[t].generation = active.generation + 1
        /\ built[t].static = IF t \in Reloaders THEN cfg[t] ELSE active.static

\* The gauge lags behind only between the store and SetConfig.
GaugeInv ==
    /\ \A t \in Threads : pc[t] = "metrics" => built[t].generation = active.generation
    /\ (\A t \in Threads : pc[t] # "metrics") => gauge = active.generation

\* The inductive invariant.
IInv == TypeOK /\ LockInv /\ StoreInv /\ GaugeInv /\ ReloadSurvivesDiscovery

\* Spending from the budget of the environment keeps its type.
LEMMA SpendKeepsType ==
    ASSUME budget \in [edits: 0..MaxEdits, signals: 0..MaxSignals, faults: 0..MaxFaults],
           NEW what \in {"edits", "signals", "faults"},
           Spend(what)
    PROVE  budget' \in [edits: 0..MaxEdits, signals: 0..MaxSignals, faults: 0..MaxFaults]
  <1>0. {MaxEdits, MaxSignals, MaxFaults} \subseteq Nat
    BY ReloadAssumption
  <1>1. CASE what = "edits"
    BY <1>0, <1>1, SMTT(60) DEF Spend
  <1>2. CASE what = "signals"
    BY <1>0, <1>2, SMTT(60) DEF Spend
  <1>3. CASE what = "faults"
    BY <1>0, <1>3, SMTT(60) DEF Spend
  <1>4. QED
    BY <1>1, <1>2, <1>3

\* The snapshot of the startup satisfies the invariant.
LEMMA InitIInv == Init => IInv
  <1>0. /\ StartupContent \in Contents
        /\ {MaxEdits, MaxSignals, MaxChanges, MaxFaults} \subseteq Nat
    BY ReloadAssumption
  <1>1. Nobody \notin Threads
    BY ReloadAssumption DEF Threads, Reloaders
  <1>2. SUFFICES ASSUME Init PROVE IInv
    OBVIOUS
  <1>3. TypeOK
    <2>1. active \in Snapshot /\ built \in [Threads -> Snapshot]
      BY <1>0, <1>2, SMTT(60) DEF Init, Snapshot
    <2>2. /\ budget \in [edits: 0..MaxEdits, signals: 0..MaxSignals, faults: 0..MaxFaults]
          /\ routes \in [Threads -> 0..MaxChanges]
          /\ cluster \in 0..MaxChanges
      BY <1>0, <1>2, SMTT(60) DEF Init
    <2>3. pc \in [Threads -> Places]
      BY <1>2 DEF Init, Places
    <2>4. hup \in BOOLEAN /\ {event, timer} \subseteq BOOLEAN /\ smooth \in BOOLEAN
      BY <1>2 DEF Init
    <2>5. /\ mu \in Threads \cup {Nobody} /\ cfg \in [Reloaders -> Contents]
          /\ watching \in {"off", "digest", "on"} /\ gauge \in Nat \ {0}
      BY <1>0, <1>2, SMTT(60) DEF Init
    <2>6. file \in Contents /\ digest \in Contents /\ reloaded \in Contents
      BY <1>0, <1>2 DEF Init
    <2>7. QED
      BY <2>1, <2>2, <2>3, <2>4, <2>5, <2>6 DEF TypeOK
  <1>4. LockInv
    BY <1>1, <1>2 DEF Init, LockInv
  <1>5. StoreInv /\ GaugeInv
    BY <1>2 DEF Init, StoreInv, GaugeInv
  <1>6. ReloadSurvivesDiscovery
    BY <1>2 DEF Init, ReloadSurvivesDiscovery
  <1>7. QED
    BY <1>3, <1>4, <1>5, <1>6 DEF IInv

\* Every step keeps the types.
LEMMA TypeStep ==
    ASSUME TypeOK, [Next]_vars
    PROVE  TypeOK'
  <1>0. {MaxEdits, MaxSignals, MaxChanges, MaxFaults} \subseteq Nat
    BY ReloadAssumption
  <1>1. ASSUME NEW content \in Contents, EditFile(content) PROVE TypeOK'
    BY <1>1, SpendKeepsType DEF EditFile, TypeOK, serverVars, localVars
  <1>2. CASE ServicesChange
    BY <1>0, <1>2, SMTT(60) DEF ServicesChange, TypeOK, watcherVars, serverVars, localVars
  <1>3. CASE SIGHUP
    BY <1>3, SpendKeepsType DEF SIGHUP, TypeOK, watcherVars, serverVars, localVars
  <1>4. CASE ServeReloadSignal
    BY <1>4 DEF ServeReloadSignal, Goto, Places, TypeOK, fileVars, watcherVars,
                serverVars, localVars, Threads, Reloaders
  <1>5. CASE StartWatcher
    BY <1>5 DEF StartWatcher, TypeOK, fileVars, serverVars, localVars
  <1>6. CASE ConfigEvent
    BY <1>6 DEF ConfigEvent, TypeOK, fileVars, serverVars, localVars
  <1>7. CASE DebounceElapses
    BY <1>7, SpendKeepsType DEF DebounceElapses, Goto, Places, TypeOK, serverVars,
                localVars, Threads, Reloaders
  <1>8. ASSUME NEW r \in Reloaders, LoadFile(r) PROVE TypeOK'
    BY <1>8, SMTT(60) DEF LoadFile, Goto, Places, TypeOK, fileVars, watcherVars, serverVars, Threads
  <1>9. ASSUME NEW r \in Reloaders, ListServices(r) PROVE TypeOK'
    BY <1>9, SpendKeepsType, SMTT(60) DEF ListServices, Goto, Places, TypeOK, watcherVars,
                serverVars, Threads
  <1>10. ASSUME NEW r \in Reloaders, BuildReload(r) PROVE TypeOK'
    BY <1>10, SMTT(60) DEF BuildReload, Goto, Places, TypeOK, Snapshot, fileVars, watcherVars,
                 localVars, Threads
  <1>11. CASE ReceiveResult
    <2>1. routes'["discovery"] \in 0..MaxChanges
      BY <1>0, <1>11, SMTT(60) DEF ReceiveResult, TypeOK, Threads
    <2>2. budget' \in [edits: 0..MaxEdits, signals: 0..MaxSignals, faults: 0..MaxFaults]
      BY <1>11, SpendKeepsType DEF ReceiveResult, TypeOK
    <2>3. QED
      BY <1>11, <2>1, <2>2 DEF ReceiveResult, Goto, Places, TypeOK,
                                 watcherVars, serverVars, Threads
  <1>12. CASE BuildDiscovered
    BY <1>12, SMTT(60) DEF BuildDiscovered, Goto, Places, TypeOK, Snapshot, fileVars, watcherVars,
                 localVars, Threads
  <1>13. ASSUME NEW t \in Threads, StoreSnapshot(t) PROVE TypeOK'
    BY <1>13 DEF StoreSnapshot, Goto, Places, TypeOK, fileVars, watcherVars, localVars
  <1>14. ASSUME NEW t \in Threads, SetConfig(t) PROVE TypeOK'
    BY <1>14 DEF SetConfig, Goto, Places, TypeOK, Snapshot, fileVars, watcherVars, localVars
  <1>15. CASE UNCHANGED vars
    BY <1>15 DEF vars, TypeOK, fileVars, watcherVars, serverVars, localVars
  <1>16. QED
    BY <1>1, <1>2, <1>3, <1>4, <1>5, <1>6, <1>7, <1>8, <1>9, <1>10, <1>11, <1>12, <1>13,
       <1>14, <1>15 DEF Next, ReloadStep, SwapStep

\* What the invariants besides TypeOK are about.
lockVars == <<active, mu, pc, cfg, built, gauge, reloaded>>

\* A step outside the lock that moves no thread keeps the invariant.
LEMMA FrameStep ==
    ASSUME IInv, UNCHANGED lockVars
    PROVE  LockInv' /\ StoreInv' /\ GaugeInv' /\ ReloadSurvivesDiscovery'
  BY DEF IInv, lockVars, LockInv, StoreInv, GaugeInv, ReloadSurvivesDiscovery

\* A thread that moves outside the lock disturbs nothing.
LEMMA OutsideStep ==
    ASSUME IInv,
           NEW t \in Threads, NEW place \in {"idle", "load", "list", "lock"},
           pc[t] \notin {"store", "metrics"}, Goto(t, place),
           \A r \in Reloaders \ {t} : cfg'[r] = cfg[r],
           UNCHANGED <<active, mu, built, gauge, reloaded>>
    PROVE  LockInv' /\ StoreInv' /\ GaugeInv' /\ ReloadSurvivesDiscovery'
  <1>0. pc' = [pc EXCEPT ![t] = place] /\ pc \in [Threads -> Places]
    BY DEF Goto, IInv, TypeOK
  <1>1. LockInv'
    BY <1>0 DEF IInv, LockInv
  <1>2. StoreInv'
    BY <1>0 DEF IInv, StoreInv
  <1>3. GaugeInv'
    BY <1>0 DEF IInv, GaugeInv
  <1>4. ReloadSurvivesDiscovery'
    BY DEF IInv, ReloadSurvivesDiscovery
  <1>5. QED
    BY <1>1, <1>2, <1>3, <1>4

\* Taking the lock: the snapshot is built from what is active.
LEMMA BuildStep ==
    ASSUME IInv,
           NEW t \in Threads, NEW snapshot \in Snapshot,
           pc[t] = "lock", mu = Nobody, mu' = t, Goto(t, "store"),
           built' = [built EXCEPT ![t] = snapshot],
           snapshot.generation = active.generation + 1,
           snapshot.static = IF t \in Reloaders THEN cfg[t] ELSE active.static,
           UNCHANGED <<active, cfg, gauge, reloaded>>
    PROVE  LockInv' /\ StoreInv' /\ GaugeInv' /\ ReloadSurvivesDiscovery'
  <1>0. /\ pc' = [pc EXCEPT ![t] = "store"]
        /\ pc \in [Threads -> Places]
        /\ built \in [Threads -> Snapshot]
        /\ Nobody \notin Threads
    BY ReloadAssumption DEF Goto, IInv, TypeOK, Threads, Reloaders
  <1>1. \A u \in Threads : pc[u] \notin {"store", "metrics"}
    BY <1>0 DEF IInv, LockInv
  <1>2. LockInv'
    BY <1>0, <1>1 DEF LockInv
  <1>3. StoreInv'
    BY <1>0, <1>1 DEF StoreInv
  <1>4. GaugeInv'
    BY <1>0, <1>1 DEF IInv, GaugeInv
  <1>5. ReloadSurvivesDiscovery'
    BY DEF IInv, ReloadSurvivesDiscovery
  <1>6. QED
    BY <1>2, <1>3, <1>4, <1>5

\* Storing the snapshot continues the one it was built from.
LEMMA StoreStep ==
    ASSUME IInv, NEW t \in Threads, StoreSnapshot(t)
    PROVE  LockInv' /\ StoreInv' /\ GaugeInv' /\ ReloadSurvivesDiscovery'
  <1>0. /\ pc' = [pc EXCEPT ![t] = "metrics"]
        /\ pc \in [Threads -> Places]
        /\ UNCHANGED <<mu, built, cfg>>
    BY DEF StoreSnapshot, Goto, IInv, TypeOK, localVars
  <1>1. \A u \in Threads \ {t} : pc[u] \notin {"store", "metrics"}
    BY DEF StoreSnapshot, IInv, LockInv
  <1>2. LockInv'
    BY <1>0 DEF IInv, LockInv, StoreSnapshot
  <1>3. StoreInv'
    BY <1>0, <1>1 DEF StoreInv
  <1>4. GaugeInv'
    BY <1>0, <1>1 DEF GaugeInv, StoreSnapshot
  <1>5. ReloadSurvivesDiscovery'
    BY DEF IInv, StoreInv, ReloadSurvivesDiscovery, StoreSnapshot
  <1>6. QED
    BY <1>2, <1>3, <1>4, <1>5

\* SetConfig brings the gauge up to date and gives the lock back.
LEMMA SetConfigStep ==
    ASSUME IInv, NEW t \in Threads, SetConfig(t)
    PROVE  LockInv' /\ StoreInv' /\ GaugeInv' /\ ReloadSurvivesDiscovery'
  <1>0. /\ pc' = [pc EXCEPT ![t] = "idle"]
        /\ pc \in [Threads -> Places]
        /\ Nobody \notin Threads
        /\ UNCHANGED <<active, built, cfg, reloaded>>
    BY ReloadAssumption DEF SetConfig, Goto, IInv, TypeOK, localVars, Threads, Reloaders
  <1>1. \A u \in Threads \ {t} : pc[u] \notin {"store", "metrics"}
    BY DEF SetConfig, IInv, LockInv
  <1>2. LockInv'
    BY <1>0, <1>1 DEF LockInv, SetConfig
  <1>3. StoreInv'
    BY <1>0, <1>1 DEF StoreInv
  <1>4. GaugeInv'
    BY <1>0, <1>1 DEF IInv, GaugeInv, SetConfig
  <1>5. ReloadSurvivesDiscovery'
    BY <1>0 DEF IInv, ReloadSurvivesDiscovery
  <1>6. QED
    BY <1>2, <1>3, <1>4, <1>5

\* The invariant is inductive.
LEMMA IInvStep ==
    ASSUME IInv, [Next]_vars
    PROVE  IInv'
  <1>0. TypeOK'
    BY TypeStep DEF IInv
  <1>1. SUFFICES LockInv' /\ StoreInv' /\ GaugeInv' /\ ReloadSurvivesDiscovery'
    BY <1>0 DEF IInv
  <1>2. {"signal", "watcher", "discovery"} \subseteq Threads /\ Reloaders \subseteq Threads
    BY DEF Threads, Reloaders
  <1>3. ASSUME NEW content \in Contents, EditFile(content) PROVE UNCHANGED lockVars
    BY <1>3 DEF EditFile, lockVars, serverVars, localVars
  <1>4. CASE ServicesChange \/ SIGHUP \/ StartWatcher \/ ConfigEvent \/ UNCHANGED vars
    <2>1. UNCHANGED lockVars
      BY <1>4 DEF ServicesChange, SIGHUP, StartWatcher, ConfigEvent, vars, lockVars,
                  fileVars, watcherVars, serverVars, localVars
    <2>2. QED
      BY <2>1, FrameStep
  <1>5. CASE ServeReloadSignal
    BY <1>2, <1>5, OutsideStep DEF ServeReloadSignal, serverVars, localVars
  <1>6. CASE DebounceElapses
    <2>1. CASE UNCHANGED pc
      BY <1>6, <2>1, FrameStep DEF DebounceElapses, serverVars, localVars, lockVars
    <2>2. CASE Goto("watcher", "load")
      BY <1>2, <1>6, <2>2, OutsideStep DEF DebounceElapses, serverVars, localVars
    <2>3. QED
      BY <1>6, <2>1, <2>2 DEF DebounceElapses
  <1>7. ASSUME NEW r \in Reloaders, LoadFile(r)
        PROVE  LockInv' /\ StoreInv' /\ GaugeInv' /\ ReloadSurvivesDiscovery'
    <2>1. \A u \in Reloaders \ {r} : cfg'[u] = cfg[u]
      BY <1>7 DEF LoadFile, IInv, TypeOK
    <2>2. PICK place \in {"idle", "load", "list", "lock"} : Goto(r, place)
      BY <1>7 DEF LoadFile
    <2>3. QED
      BY <1>2, <1>7, <2>1, <2>2, OutsideStep DEF LoadFile, serverVars
  <1>8. ASSUME NEW r \in Reloaders, ListServices(r)
        PROVE  LockInv' /\ StoreInv' /\ GaugeInv' /\ ReloadSurvivesDiscovery'
    <2>1. PICK place \in {"idle", "load", "list", "lock"} : Goto(r, place)
      BY <1>8 DEF ListServices
    <2>2. QED
      BY <1>2, <1>8, <2>1, OutsideStep DEF ListServices, serverVars
  <1>9. CASE ReceiveResult
    BY <1>2, <1>9, OutsideStep DEF ReceiveResult, serverVars
  <1>10. ASSUME NEW r \in Reloaders, BuildReload(r)
         PROVE  LockInv' /\ StoreInv' /\ GaugeInv' /\ ReloadSurvivesDiscovery'
    <2> DEFINE snapshot == [static |-> cfg[r],
                            discovered |-> IF Discovery THEN routes[r] ELSE active.discovered,
                            generation |-> active.generation + 1]
    <2>1. snapshot \in Snapshot
      BY <1>2, SMTT(60) DEF IInv, TypeOK, Snapshot
    <2>2. built' = [built EXCEPT ![r] = snapshot]
      BY <1>10 DEF BuildReload
    <2>3. snapshot.generation = active.generation + 1 /\ snapshot.static = cfg[r]
      OBVIOUS
    <2> HIDE DEF snapshot
    <2>4. QED
      BY <1>2, <1>10, <2>1, <2>2, <2>3, BuildStep DEF BuildReload, localVars
  <1>11. CASE BuildDiscovered
    <2> DEFINE snapshot == [static |-> active.static,
                            discovered |-> routes["discovery"],
                            generation |-> active.generation + 1]
    <2>1. snapshot \in Snapshot
      BY <1>2, SMTT(60) DEF IInv, TypeOK, Snapshot
    <2>2. built' = [built EXCEPT !["discovery"] = snapshot]
      BY <1>11 DEF BuildDiscovered
    <2>3. snapshot.generation = active.generation + 1 /\ snapshot.static = active.static
      OBVIOUS
    <2>4. "discovery" \notin Reloaders
      BY DEF Reloaders
    <2> HIDE DEF snapshot
    <2>5. QED
      BY <1>2, <1>11, <2>1, <2>2, <2>3, <2>4, BuildStep DEF BuildDiscovered, localVars
  <1>12. QED
    BY <1>3, <1>4, <1>5, <1>6, <1>7, <1>8, <1>9, <1>10, <1>11, FrameStep, StoreStep,
       SetConfigStep DEF Next, ReloadStep, SwapStep

\* IInv is an inductive invariant, so it holds in every reachable state.
THEOREM Invariance == Spec => []IInv
  <1>1. QED
    BY InitIInv, IInvStep, PTL DEF Spec

\* Every variable keeps its type; in particular the generation of a snapshot is
\* never 0, the generation of a server without a snapshot.
THEOREM TypeCorrect == Spec => []TypeOK
  <1>1. IInv => TypeOK
    BY DEF IInv
  <1>2. QED
    BY <1>1, Invariance, PTL

\* A discovery update never brings back a static configuration that a reload
\* replaced: updates read the active snapshot and store the new one under one
\* lock (UpdateDiscoveredRoutes, reloadConfigLocked).
THEOREM ReloadSurvives == Spec => []ReloadSurvivesDiscovery
  <1>1. IInv => ReloadSurvivesDiscovery
    BY DEF IInv
  <1>2. QED
    BY <1>1, Invariance, PTL

\* mc_gateway_config_generation is exact whenever the lock is free: SetConfig is
\* called before it is released.
THEOREM GenerationGaugeExact == Spec => []GenerationGaugeIsExact
  <1>1. IInv => GenerationGaugeIsExact
    BY ReloadAssumption
       DEF IInv, LockInv, GaugeInv, GenerationGaugeIsExact, Threads, Reloaders
  <1>2. QED
    BY <1>1, Invariance, PTL

\* Every swap of the active snapshot carries the next generation: no update is
\* lost and none is applied twice (nextGeneration under the lock).
THEOREM ConsecutiveGenerations == Spec => GenerationsAreConsecutive
  <1>1. ASSUME IInv, [Next]_vars
        PROVE  [active' # active => active'.generation = active.generation + 1]_vars
    <2>1. ASSUME NEW t \in Threads, StoreSnapshot(t)
          PROVE  active'.generation = active.generation + 1
      BY <1>1, <2>1 DEF IInv, StoreInv, StoreSnapshot
    <2>2. CASE \A t \in Threads : ~StoreSnapshot(t)
      <3>1. active' = active
        BY <1>1, <2>2 DEF Next, EditFile, ServicesChange, SIGHUP, ServeReloadSignal,
              StartWatcher, ConfigEvent, DebounceElapses, ReloadStep, LoadFile,
              ListServices, BuildReload, ReceiveResult, BuildDiscovered, SwapStep,
              SetConfig, vars, serverVars
      <3>2. QED
        BY <3>1
    <2>3. QED
      BY <2>1, <2>2
  <1>2. QED
    BY <1>1, Invariance, PTL DEF Spec, GenerationsAreConsecutive

-----------------------------------------------------------------------------
(* Where the active snapshot comes from.                                   *)

\* Unless somebody is about to store, the active snapshot is the one that some
\* thread built last; what the others built is older.
OriginInv ==
    /\ (\A t \in Threads : pc[t] # "store") => \E t \in Threads : active = built[t]
    /\ \A t \in Threads : pc[t] # "store" =>
          /\ built[t].generation <= active.generation
          /\ built[t].generation = active.generation => built[t] = active

\* The discovered routes of a snapshot are the ones its builder held, and nobody
\* holds routes of Services that were never there.
RoutesInv ==
    /\ \A t \in Threads : routes[t] <= cluster
    /\ pc["discovery"] # "lock" => built["discovery"].discovered = routes["discovery"]
    /\ Discovery => \A r \in Reloaders : pc[r] # "lock" => built[r].discovered = routes[r]
    /\ ~Discovery => /\ cluster = 0 /\ active.discovered = 0
                     /\ \A t \in Threads : built[t].discovered = 0

\* The static configuration is that of the reloader that stored last.
LastReloadInv ==
    pc["signal"] # "store" /\ pc["watcher"] # "store" =>
        active.static = IF built["watcher"].generation < built["signal"].generation
                        THEN built["signal"].static ELSE built["watcher"].static

\* As long as no list failed, a reload that loaded the file goes on to store it.
LoadedIsBuilt ==
    budget.faults = MaxFaults =>
        \A r \in Reloaders : pc[r] \notin {"list", "lock"} => built[r].static = cfg[r]

\* As long as no read failed and the file changed smoothly, the watcher has seen the
\* present content, or an event or the timer will make it look; and the content that
\* it has seen it is about to load, or has loaded.
WatcherInv ==
    budget.faults = MaxFaults /\ smooth =>
        /\ StartupContent <= file /\ digest <= file
        /\ watching # "on" => digest = file /\ file = StartupContent
        /\ file = StartupContent => \A r \in Reloaders : cfg[r] = file
        /\ digest # file => event \/ timer
        /\ digest = file /\ file # StartupContent /\ file \notin Broken =>
              pc["watcher"] = "load" \/ cfg["watcher"] = file

\* t takes the lock and builds a snapshot.
Builds(t) ==
    /\ pc[t] = "lock" /\ mu = Nobody
    /\ pc' = [pc EXCEPT ![t] = "store"]
    /\ active' = active
    /\ \A u \in Threads \ {t} : built'[u] = built[u]

\* Nothing is built and nothing is stored.
KeepsSnapshots ==
    /\ UNCHANGED <<active, built>>
    /\ \A t \in Threads : pc'[t] = "store" <=> pc[t] = "store"

\* The three kinds of steps, as far as snapshots are concerned.
LEMMA SnapshotSteps ==
    ASSUME TypeOK, [Next]_vars
    PROVE  \/ KeepsSnapshots
           \/ \E t \in Threads : Builds(t) \/ StoreSnapshot(t)
  <1>0. pc \in [Threads -> Places] /\ built \in [Threads -> Snapshot]
    BY DEF TypeOK
  <1>1. {"signal", "watcher", "discovery"} \subseteq Threads /\ Reloaders \subseteq Threads
    BY DEF Threads, Reloaders
  <1>2. ASSUME NEW t \in Threads, NEW place \in Places \ {"store"}, pc[t] # "store",
               Goto(t, place), UNCHANGED <<active, built>>
        PROVE  KeepsSnapshots
    BY <1>0, <1>2 DEF KeepsSnapshots, Goto
  <1>3. ASSUME UNCHANGED <<active, built, pc>> PROVE KeepsSnapshots
    BY <1>3 DEF KeepsSnapshots
  <1>4. ASSUME NEW content \in Contents, EditFile(content) PROVE KeepsSnapshots
    BY <1>3, <1>4 DEF EditFile, serverVars
  <1>5. CASE ServicesChange \/ SIGHUP \/ StartWatcher \/ ConfigEvent \/ UNCHANGED vars
    BY <1>3, <1>5 DEF ServicesChange, SIGHUP, StartWatcher, ConfigEvent, vars, serverVars
  <1>6. CASE ServeReloadSignal
    BY <1>1, <1>2, <1>6 DEF ServeReloadSignal, serverVars, Places
  <1>7. CASE DebounceElapses
    BY <1>1, <1>2, <1>3, <1>7 DEF DebounceElapses, serverVars, Places
  <1>8. ASSUME NEW r \in Reloaders, LoadFile(r) PROVE KeepsSnapshots
    BY <1>1, <1>2, <1>8 DEF LoadFile, serverVars, Places
  <1>9. ASSUME NEW r \in Reloaders, ListServices(r) PROVE KeepsSnapshots
    BY <1>1, <1>2, <1>9 DEF ListServices, serverVars, Places
  <1>10. CASE ReceiveResult
    BY <1>1, <1>2, <1>10 DEF ReceiveResult, serverVars, Places
  <1>11. ASSUME NEW t \in Threads, SetConfig(t) PROVE KeepsSnapshots
    BY <1>2, <1>11 DEF SetConfig, Places
  <1>12. ASSUME NEW r \in Reloaders, BuildReload(r) PROVE Builds(r)
    BY <1>0, <1>1, <1>12 DEF BuildReload, Builds, Goto
  <1>13. CASE BuildDiscovered
    <2>1. Builds("discovery")
      BY <1>0, <1>1, <1>13 DEF BuildDiscovered, Builds, Goto
    <2>2. QED
      BY <1>1, <2>1
  <1>14. QED
    BY <1>1, <1>4, <1>5, <1>6, <1>7, <1>8, <1>9, <1>10, <1>11, <1>12, <1>13
       DEF Next, ReloadStep, SwapStep

\* Only the holder of the lock is about to store, so a snapshot that is stored is
\* newer than all that were built before.
LEMMA OriginStep ==
    ASSUME IInv, OriginInv, [Next]_vars
    PROVE  OriginInv'
  <1>0. /\ pc \in [Threads -> Places] /\ built \in [Threads -> Snapshot]
        /\ active \in Snapshot /\ Nobody \notin Threads
    BY ReloadAssumption DEF IInv, TypeOK, Threads, Reloaders
  <1>1. \A t \in Threads : built[t].generation \in Nat /\ active.generation \in Nat
    BY <1>0 DEF Snapshot
  <1>2. CASE KeepsSnapshots
    BY <1>2 DEF KeepsSnapshots, OriginInv
  <1>3. ASSUME NEW t \in Threads, Builds(t) PROVE OriginInv'
    <2>1. pc'[t] = "store"
      BY <1>0, <1>3 DEF Builds
    <2>2. \A u \in Threads \ {t} : pc'[u] = pc[u] /\ built'[u] = built[u]
      BY <1>0, <1>3 DEF Builds
    <2>3. active' = active
      BY <1>3 DEF Builds
    <2>4. QED
      BY <2>1, <2>2, <2>3 DEF OriginInv
  <1>4. ASSUME NEW t \in Threads, StoreSnapshot(t) PROVE OriginInv'
    <2>1. active' = built[t] /\ built' = built /\ pc[t] = "store"
      BY <1>4 DEF StoreSnapshot
    <2>2. \A u \in Threads \ {t} : pc[u] # "store"
      BY <1>4 DEF StoreSnapshot, IInv, LockInv
    <2>3. built[t].generation = active.generation + 1
      BY <2>1 DEF IInv, StoreInv
    <2>4. \A u \in Threads \ {t} : built[u].generation < built[t].generation
      BY <1>1, <2>2, <2>3, SMTT(60) DEF OriginInv
    <2>5. QED
      BY <1>1, <2>1, <2>4, SMTT(60) DEF OriginInv
  <1>5. QED
    BY <1>2, <1>3, <1>4, SnapshotSteps DEF IInv

\* A discovery update carries the static configuration over, and a reload is newer
\* than the last one of the other reloader.
LEMMA LastReloadStep ==
    ASSUME IInv, OriginInv, LastReloadInv, [Next]_vars
    PROVE  LastReloadInv'
  <1>0. /\ pc \in [Threads -> Places] /\ built \in [Threads -> Snapshot]
        /\ active \in Snapshot /\ {"signal", "watcher"} \subseteq Threads
    BY DEF IInv, TypeOK, Threads, Reloaders
  <1>1. \A t \in Threads : built[t].generation \in Nat /\ active.generation \in Nat
    BY <1>0 DEF Snapshot
  <1>2. CASE KeepsSnapshots
    BY <1>0, <1>2 DEF KeepsSnapshots, LastReloadInv
  <1>3. ASSUME NEW t \in Threads, Builds(t) PROVE LastReloadInv'
    <2>1. pc'[t] = "store" /\ active' = active
      BY <1>0, <1>3 DEF Builds
    <2>2. \A u \in Threads \ {t} : pc'[u] = pc[u] /\ built'[u] = built[u]
      BY <1>0, <1>3 DEF Builds
    <2>3. QED
      BY <1>0, <2>1, <2>2 DEF LastReloadInv
  <1>4. ASSUME NEW t \in Threads, StoreSnapshot(t) PROVE LastReloadInv'
    <2>1. active' = built[t] /\ built' = built /\ pc[t] = "store"
      BY <1>4 DEF StoreSnapshot
    <2>2. \A u \in Threads \ {t} : pc[u] # "store" /\ pc'[u] = pc[u]
      BY <1>0, <1>4 DEF StoreSnapshot, Goto, IInv, LockInv
    <2>3. built[t].generation = active.generation + 1
      BY <2>1 DEF IInv, StoreInv
    <2>4. \A u \in Threads \ {t} : built[u].generation < built[t].generation
      BY <1>1, <2>2, <2>3, SMTT(60) DEF OriginInv
    <2>5. CASE t \in Reloaders
      BY <1>0, <1>1, <2>1, <2>4, <2>5, SMTT(60) DEF LastReloadInv, Reloaders
    <2>6. CASE t \notin Reloaders
      <3>1. built[t].static = active.static
        BY <2>1, <2>6 DEF IInv, StoreInv
      <3>2. QED
        BY <1>0, <2>1, <2>2, <2>6, <3>1 DEF LastReloadInv, Reloaders
    <2>7. QED
      BY <2>5, <2>6
  <1>5. QED
    BY <1>2, <1>3, <1>4, SnapshotSteps DEF IInv

\* A thread that gives up its routes for others goes to the lock with them.
LEMMA RoutesStep ==
    ASSUME IInv, RoutesInv, [Next]_vars
    PROVE  RoutesInv'
  <1>0. /\ pc \in [Threads -> Places] /\ built \in [Threads -> Snapshot]
        /\ routes \in [Threads -> 0..MaxChanges] /\ cluster \in 0..MaxChanges
        /\ MaxChanges \in Nat
    BY ReloadAssumption DEF IInv, TypeOK
  <1>1. /\ {"signal", "watcher", "discovery"} \subseteq Threads /\ Reloaders \subseteq Threads
        /\ "discovery" \notin Reloaders
    BY DEF Threads, Reloaders
  <1>2. ASSUME UNCHANGED <<routes, built, active, cluster>>,
               \A t \in Threads : pc[t] = "lock" => pc'[t] = "lock"
        PROVE  RoutesInv'
    BY <1>1, <1>2 DEF RoutesInv
  <1>3. ASSUME NEW content \in Contents, EditFile(content) PROVE RoutesInv'
    BY <1>2, <1>3 DEF EditFile, serverVars, localVars
  <1>4. CASE SIGHUP \/ StartWatcher \/ ConfigEvent \/ UNCHANGED vars
    BY <1>2, <1>4 DEF SIGHUP, StartWatcher, ConfigEvent, vars, fileVars, serverVars, localVars
  <1>5. CASE ServicesChange
    <2>1. UNCHANGED <<routes, built, active, pc>> /\ Discovery /\ cluster' = cluster + 1
      BY <1>5 DEF ServicesChange, serverVars, localVars
    <2>2. \A t \in Threads : routes[t] <= cluster'
      BY <1>0, <2>1, SMTT(60) DEF RoutesInv
    <2>3. QED
      BY <2>1, <2>2 DEF RoutesInv
  <1>6. ASSUME NEW t \in Threads, NEW place \in Places, pc[t] # "lock", Goto(t, place),
               UNCHANGED <<routes, built, active, cluster>>
        PROVE  RoutesInv'
    BY <1>0, <1>2, <1>6 DEF Goto
  <1>7. CASE ServeReloadSignal
    BY <1>1, <1>6, <1>7 DEF ServeReloadSignal, fileVars, serverVars, localVars, Places
  <1>8. CASE DebounceElapses
    BY <1>1, <1>2, <1>6, <1>8 DEF DebounceElapses, serverVars, localVars, Places
  <1>9. ASSUME NEW r \in Reloaders, LoadFile(r) PROVE RoutesInv'
    BY <1>1, <1>6, <1>9 DEF LoadFile, fileVars, serverVars, Places
  <1>10. ASSUME NEW t \in Threads, pc'[t] = "lock", routes'[t] <= cluster,
                \A u \in Threads \ {t} : pc'[u] = pc[u] /\ routes'[u] = routes[u],
                UNCHANGED <<built, active, cluster>>
         PROVE  RoutesInv'
    BY <1>1, <1>10 DEF RoutesInv
  <1>11. ASSUME NEW r \in Reloaders, ListServices(r) PROVE RoutesInv'
    <2>1. UNCHANGED <<built, active, cluster>> /\ pc[r] = "list"
      BY <1>11 DEF ListServices, serverVars
    <2>2. CASE routes' = [routes EXCEPT ![r] = cluster] /\ Goto(r, "lock")
      <3>1. routes'[r] = cluster /\ pc'[r] = "lock"
        BY <1>0, <1>1, <2>2 DEF Goto
      <3>2. \A u \in Threads \ {r} : pc'[u] = pc[u] /\ routes'[u] = routes[u]
        BY <1>0, <2>2 DEF Goto
      <3>3. QED
        BY <1>0, <1>1, <1>10, <2>1, <3>1, <3>2, SMTT(60)
    <2>3. CASE Goto(r, "idle") /\ UNCHANGED routes
      BY <1>1, <1>6, <2>1, <2>3 DEF Places
    <2>4. QED
      BY <1>11, <2>2, <2>3 DEF ListServices
  <1>12. CASE ReceiveResult
    <2>1. UNCHANGED <<built, active, cluster>> /\ Goto("discovery", "lock")
      BY <1>12 DEF ReceiveResult, serverVars
    <2>2. \/ routes["discovery"] < cluster
             /\ routes' = [routes EXCEPT !["discovery"] = routes["discovery"] + 1]
          \/ routes' = [routes EXCEPT !["discovery"] = cluster]
      BY <1>12 DEF ReceiveResult
    <2>3. routes'["discovery"] <= cluster
      BY <1>0, <1>1, <2>2, SMTT(60)
    <2>4. \A u \in Threads \ {"discovery"} : pc'[u] = pc[u] /\ routes'[u] = routes[u]
      BY <1>0, <2>1, <2>2 DEF Goto
    <2>5. pc'["discovery"] = "lock"
      BY <1>0, <1>1, <2>1 DEF Goto
    <2>6. QED
      BY <1>1, <1>10, <2>1, <2>3, <2>4, <2>5
  <1>13. ASSUME NEW r \in Reloaders, BuildReload(r) PROVE RoutesInv'
    <2>1. UNCHANGED <<active, cluster, routes>>
      BY <1>13 DEF BuildReload, fileVars, localVars
    <2>2. built'[r].discovered = IF Discovery THEN routes[r] ELSE active.discovered
      BY <1>0, <1>1, <1>13 DEF BuildReload
    <2>3. \A u \in Threads \ {r} : pc'[u] = pc[u] /\ built'[u] = built[u]
      BY <1>0, <1>13 DEF BuildReload, Goto
    <2>4. QED
      BY <1>1, <2>1, <2>2, <2>3 DEF RoutesInv
  <1>14. CASE BuildDiscovered
    <2>1. UNCHANGED <<active, cluster, routes>>
      BY <1>14 DEF BuildDiscovered, fileVars, localVars
    <2>2. built'["discovery"].discovered = routes["discovery"]
      BY <1>0, <1>1, <1>14 DEF BuildDiscovered
    <2>3. \A u \in Threads \ {"discovery"} : pc'[u] = pc[u] /\ built'[u] = built[u]
      BY <1>0, <1>14 DEF BuildDiscovered, Goto
    <2>4. ~Discovery => routes["discovery"] = 0
      BY <1>0, <1>1, SMTT(60) DEF RoutesInv
    <2>5. QED
      BY <1>1, <2>1, <2>2, <2>3, <2>4 DEF RoutesInv
  <1>15. ASSUME NEW t \in Threads, StoreSnapshot(t) PROVE RoutesInv'
    <2>1. active' = built[t] /\ UNCHANGED <<built, cluster, routes>>
      BY <1>15 DEF StoreSnapshot, fileVars, localVars
    <2>2. \A u \in Threads : pc[u] = "lock" => pc'[u] = "lock"
      BY <1>0, <1>15 DEF StoreSnapshot, Goto
    <2>3. QED
      BY <1>1, <2>1, <2>2 DEF RoutesInv
  <1>16. ASSUME NEW t \in Threads, SetConfig(t) PROVE RoutesInv'
    BY <1>6, <1>16 DEF SetConfig, fileVars, localVars, Places
  <1>17. QED
    BY <1>3, <1>4, <1>5, <1>7, <1>8, <1>9, <1>11, <1>12, <1>13, <1>14, <1>15, <1>16
       DEF Next, ReloadStep, SwapStep

\* What the environment has spent it does not get back: a budget for failures that
\* is whole after a step was whole before, and the step was no failure.
LEMMA FaultsAreSpent ==
    ASSUME TypeOK, [Next]_vars, budget'.faults = MaxFaults
    PROVE  /\ budget.faults = MaxFaults
           /\ ~Spend("faults")
  <1>0. /\ budget \in [edits: 0..MaxEdits, signals: 0..MaxSignals, faults: 0..MaxFaults]
        /\ MaxFaults \in Nat
    BY ReloadAssumption DEF TypeOK
  <1>1. ~Spend("faults")
    BY <1>0, SMTT(60) DEF Spend
  <1>2. ASSUME Spend("edits") \/ Spend("signals") PROVE budget'.faults = budget.faults
    BY <1>0, <1>2 DEF Spend
  <1>3. budget'.faults = budget.faults
    BY <1>1, <1>2 DEF Next, EditFile, ServicesChange, SIGHUP, ServeReloadSignal,
          StartWatcher, ConfigEvent, DebounceElapses, ReloadStep, LoadFile, ListServices,
          BuildReload, ReceiveResult, BuildDiscovered, SwapStep, StoreSnapshot, SetConfig,
          vars, fileVars
  <1>4. QED
    BY <1>1, <1>3

\* A reload that nothing fails stores what it loaded before it ends.
LEMMA LoadedStep ==
    ASSUME IInv, LoadedIsBuilt, [Next]_vars
    PROVE  LoadedIsBuilt'
  <1> SUFFICES ASSUME budget'.faults = MaxFaults, NEW r \in Reloaders,
                      pc'[r] \notin {"list", "lock"}
               PROVE  built'[r].static = cfg'[r]
    BY DEF LoadedIsBuilt
  <1>0. /\ pc \in [Threads -> Places] /\ built \in [Threads -> Snapshot]
        /\ cfg \in [Reloaders -> Contents] /\ r \in Threads
    BY DEF IInv, TypeOK, Threads
  <1>1. budget.faults = MaxFaults /\ ~Spend("faults")
    BY FaultsAreSpent DEF IInv
  <1>2. pc[r] \notin {"list", "lock"} => built[r].static = cfg[r]
    BY <1>1 DEF LoadedIsBuilt
  <1>3. ASSUME pc[r] \in {"list", "lock"} => pc'[r] = pc[r],
               built'[r] = built[r], cfg'[r] = cfg[r]
        PROVE  built'[r].static = cfg'[r]
    BY <1>2, <1>3
  <1>4. ASSUME NEW t \in Threads \ {r}, NEW place \in Places, Goto(t, place),
               built'[r] = built[r], cfg'[r] = cfg[r]
        PROVE  built'[r].static = cfg'[r]
    BY <1>0, <1>3, <1>4 DEF Goto
  <1>5. ASSUME NEW content \in Contents, EditFile(content) PROVE built'[r].static = cfg'[r]
    BY <1>3, <1>5 DEF EditFile, serverVars, localVars
  <1>6. CASE ServicesChange \/ SIGHUP \/ StartWatcher \/ ConfigEvent \/ UNCHANGED vars
    BY <1>3, <1>6 DEF ServicesChange, SIGHUP, StartWatcher, ConfigEvent, vars, serverVars,
                      localVars
  <1>7. ASSUME NEW t \in Threads, pc[t] \notin {"list", "lock"}, NEW place \in Places,
               Goto(t, place), UNCHANGED <<built, cfg>>
        PROVE  built'[r].static = cfg'[r]
    BY <1>0, <1>3, <1>7 DEF Goto
  <1>8. {"signal", "watcher", "discovery"} \subseteq Threads /\ Reloaders \subseteq Threads
        /\ "discovery" \notin Reloaders
    BY DEF Threads, Reloaders
  <1>9. CASE ServeReloadSignal
    BY <1>7, <1>8, <1>9 DEF ServeReloadSignal, serverVars, localVars, Places
  <1>10. CASE DebounceElapses
    BY <1>3, <1>7, <1>8, <1>10 DEF DebounceElapses, serverVars, localVars, Places
  <1>11. ASSUME NEW u \in Reloaders, LoadFile(u) PROVE built'[r].static = cfg'[r]
    <2>1. built' = built /\ pc[u] = "load"
      BY <1>11 DEF LoadFile, serverVars
    <2>2. CASE u = r
      <3>1. CASE Goto(r, "idle") /\ UNCHANGED cfg
        BY <1>2, <2>1, <2>2, <3>1
      <3>2. CASE Goto(r, IF Discovery THEN "list" ELSE "lock")
        BY <1>0, <3>2 DEF Goto
      <3>3. QED
        BY <1>11, <2>2, <3>1, <3>2 DEF LoadFile
    <2>3. CASE u # r
      <3>1. cfg'[r] = cfg[r]
        BY <1>0, <1>11, <2>3 DEF LoadFile
      <3>2. \E place \in Places : Goto(u, place)
        BY <1>11 DEF LoadFile, Places
      <3>3. QED
        BY <1>4, <1>8, <2>1, <2>3, <3>1, <3>2
    <2>4. QED
      BY <2>2, <2>3
  <1>12. ASSUME NEW u \in Reloaders, ListServices(u) PROVE built'[r].static = cfg'[r]
    <2>1. built' = built /\ cfg' = cfg /\ Goto(u, "lock")
      BY <1>1, <1>12 DEF ListServices, serverVars
    <2>2. u # r
      BY <1>0, <2>1 DEF Goto
    <2>3. QED
      BY <1>4, <1>8, <2>1, <2>2 DEF Places
  <1>13. ASSUME NEW u \in Reloaders, BuildReload(u) PROVE built'[r].static = cfg'[r]
    <2>1. cfg' = cfg /\ Goto(u, "store")
      BY <1>13 DEF BuildReload, localVars
    <2>2. CASE u = r
      BY <1>0, <1>13, <2>1, <2>2 DEF BuildReload
    <2>3. CASE u # r
      <3>1. built'[r] = built[r]
        BY <1>0, <1>13, <2>3 DEF BuildReload
      <3>2. QED
        BY <1>4, <1>8, <2>1, <2>3, <3>1 DEF Places
    <2>4. QED
      BY <2>2, <2>3
  <1>14. CASE ReceiveResult
    BY <1>4, <1>8, <1>14 DEF ReceiveResult, serverVars, Places
  <1>15. CASE BuildDiscovered
    <2>1. built'[r] = built[r] /\ cfg' = cfg /\ Goto("discovery", "store")
      BY <1>0, <1>8, <1>15 DEF BuildDiscovered, localVars
    <2>2. QED
      BY <1>4, <1>8, <2>1 DEF Places
  <1>16. ASSUME NEW t \in Threads, SwapStep(t) PROVE built'[r].static = cfg'[r]
    BY <1>7, <1>16 DEF SwapStep, StoreSnapshot, SetConfig, localVars, Places
  <1>17. QED
    BY <1>5, <1>6, <1>9, <1>10, <1>11, <1>12, <1>13, <1>14, <1>15, <1>16
       DEF Next, ReloadStep

\* A step by anybody but the watcher that leaves the file alone and reloads, if
\* anything, the present content.
LEMMA WatcherFrame ==
    ASSUME WatcherInv, budget'.faults = budget.faults, UNCHANGED <<file, smooth>>,
           UNCHANGED watcherVars,
           pc["watcher"] = "load" => pc'["watcher"] = "load",
           \A r \in Reloaders : cfg'[r] = cfg[r] \/ cfg'[r] = file
    PROVE  WatcherInv'
  <1>1. "watcher" \in Reloaders
    BY DEF Reloaders
  <1>2. QED
    BY <1>1 DEF WatcherInv, watcherVars

\* The present content stays in the watcher's sight.
LEMMA WatcherStep ==
    ASSUME IInv, WatcherInv, [Next]_vars
    PROVE  WatcherInv'
  <1>0. /\ pc \in [Threads -> Places] /\ cfg \in [Reloaders -> Contents]
        /\ file \in Nat /\ digest \in Nat /\ StartupContent \in Nat /\ Contents \subseteq Nat
    BY ReloadAssumption DEF IInv, TypeOK
  <1>1. /\ {"signal", "watcher", "discovery"} \subseteq Threads /\ Reloaders \subseteq Threads
        /\ "watcher" \in Reloaders
    BY DEF Threads, Reloaders
  <1>2. CASE budget'.faults # MaxFaults \/ ~smooth'
    BY <1>2 DEF WatcherInv
  <1>3. CASE budget'.faults = MaxFaults /\ smooth'
    <2>1. budget.faults = MaxFaults /\ ~Spend("faults")
      BY <1>3, FaultsAreSpent DEF IInv
    <2>3. ASSUME NEW t \in Threads, NEW place \in Places,
                 UNCHANGED <<file, smooth, cfg>>, UNCHANGED watcherVars,
                 pc[t] # "load", Goto(t, place)
          PROVE  WatcherInv'
      <3>1. pc["watcher"] = "load" => pc'["watcher"] = "load"
        BY <1>0, <1>1, <2>3 DEF Goto
      <3>2. QED
        BY <1>3, <2>1, <2>3, <3>1, WatcherFrame
    <2>4. ASSUME NEW content \in Contents, EditFile(content) PROVE WatcherInv'
      <3>1. /\ smooth /\ watching = "on" /\ content > file
            /\ file' = content /\ event' /\ UNCHANGED <<watching, digest>>
        BY <1>3, <2>4 DEF EditFile
      <3>2. StartupContent <= file /\ digest <= file
        BY <2>1, <3>1 DEF WatcherInv
      <3>3. StartupContent < file' /\ digest < file'
        BY <1>0, <3>1, <3>2, SMTT(60)
      <3>4. QED
        BY <1>0, <3>1, <3>3, SMTT(60) DEF WatcherInv
    <2>5. CASE ServicesChange \/ SIGHUP \/ UNCHANGED vars
      <3>1. UNCHANGED <<file, smooth>> /\ UNCHANGED watcherVars /\ UNCHANGED <<cfg, pc>>
        BY <2>5 DEF ServicesChange, SIGHUP, vars, fileVars, localVars
      <3>2. QED
        BY <1>3, <2>1, <3>1, WatcherFrame
    <2>6. CASE StartWatcher
      <3>1. /\ UNCHANGED <<file, smooth, cfg, pc, event, timer>>
            /\ watching # "on"
            /\ digest' = digest \/ digest' = file
        BY <2>6 DEF StartWatcher, fileVars, localVars
      <3>2. digest = file /\ file = StartupContent
        BY <1>3, <2>1, <3>1 DEF WatcherInv
      <3>3. QED
        BY <1>0, <1>3, <2>1, <3>1, <3>2 DEF WatcherInv
    <2>7. CASE ConfigEvent
      <3>1. UNCHANGED <<file, smooth, cfg, pc, watching, digest>> /\ timer'
        BY <2>7 DEF ConfigEvent, fileVars, localVars
      <3>2. QED
        BY <1>3, <2>1, <3>1 DEF WatcherInv
    <2>8. CASE DebounceElapses
      <3>1. UNCHANGED <<file, smooth, watching, event, cfg>>
        BY <2>8 DEF DebounceElapses, localVars
      <3>2. CASE digest = file /\ UNCHANGED <<digest, pc>>
        BY <1>3, <2>1, <3>1, <3>2 DEF WatcherInv
      <3>3. CASE digest' = file /\ Goto("watcher", "load")
        <4>1. pc'["watcher"] = "load"
          BY <1>0, <1>1, <3>3 DEF Goto
        <4>2. watching' # "on" => file = StartupContent
          BY <1>3, <2>1, <3>1 DEF WatcherInv
        <4>3. QED
          BY <1>0, <1>3, <2>1, <3>1, <3>3, <4>1, <4>2, SMTT(60) DEF WatcherInv
      <3>4. QED
        BY <2>1, <2>8, <3>2, <3>3 DEF DebounceElapses
    <2>9. CASE ServeReloadSignal
      BY <1>1, <2>3, <2>9 DEF ServeReloadSignal, fileVars, localVars, Places
    <2>10. ASSUME NEW r \in Reloaders, LoadFile(r) PROVE WatcherInv'
      <3>1. UNCHANGED <<file, smooth>> /\ UNCHANGED watcherVars
        BY <2>10 DEF LoadFile, fileVars
      <3>2. CASE r = "watcher" /\ file \notin Broken
        <4>1. cfg' = [cfg EXCEPT !["watcher"] = file]
          BY <2>10, <3>2 DEF LoadFile
        <4>2. cfg'["watcher"] = file /\ \A u \in Reloaders : cfg'[u] \in {cfg[u], file}
          BY <1>0, <1>1, <4>1
        <4>3. QED
          BY <1>3, <2>1, <3>1, <4>2 DEF WatcherInv, watcherVars
      <3>3. CASE r = "watcher" /\ file \in Broken
        <4>1. cfg' = cfg
          BY <2>10, <3>3 DEF LoadFile
        <4>2. QED
          BY <1>3, <2>1, <3>1, <3>3, <4>1 DEF WatcherInv, watcherVars
      <3>4. CASE r # "watcher"
        <4>1. pc'["watcher"] = pc["watcher"]
          BY <1>0, <1>1, <2>10, <3>4 DEF LoadFile, Goto
        <4>2. \A u \in Reloaders : cfg'[u] \in {cfg[u], file}
          BY <1>0, <2>10 DEF LoadFile
        <4>3. QED
          BY <1>3, <2>1, <3>1, <4>1, <4>2, WatcherFrame
      <3>5. QED
        BY <3>2, <3>3, <3>4
    <2>11. ASSUME NEW r \in Reloaders, ListServices(r) \/ BuildReload(r) PROVE WatcherInv'
      BY <1>1, <2>3, <2>11 DEF ListServices, BuildReload, fileVars, localVars, Places
    <2>12. CASE ReceiveResult \/ BuildDiscovered
      BY <1>1, <2>3, <2>12 DEF ReceiveResult, BuildDiscovered, fileVars, localVars, Places
    <2>13. ASSUME NEW t \in Threads, SwapStep(t) PROVE WatcherInv'
      BY <2>3, <2>13 DEF SwapStep, StoreSnapshot, SetConfig, fileVars, localVars, Places
    <2>14. QED
      BY <2>4, <2>5, <2>6, <2>7, <2>8, <2>9, <2>10, <2>11, <2>12, <2>13
         DEF Next, ReloadStep
  <1>4. QED
    BY <1>2, <1>3

-----------------------------------------------------------------------------
\* What the two theorems below rest on holds in every reachable state.
THEOREM OriginInvariance ==
    Spec => [](OriginInv /\ RoutesInv /\ LastReloadInv /\ LoadedIsBuilt /\ WatcherInv)
  <1>1. Init => OriginInv /\ RoutesInv /\ LastReloadInv /\ LoadedIsBuilt /\ WatcherInv
    <2> SUFFICES ASSUME Init
                 PROVE  OriginInv /\ RoutesInv /\ LastReloadInv /\ LoadedIsBuilt /\ WatcherInv
      OBVIOUS
    <2>1. "discovery" \in Threads /\ Reloaders \subseteq Threads
          /\ {"signal", "watcher"} \subseteq Reloaders
      BY DEF Threads, Reloaders
    <2>2. StartupContent \in Nat
      BY ReloadAssumption
    <2>3. \A t \in Threads : built[t] = active /\ pc[t] = "idle" /\ routes[t] = 0
      BY DEF Init
    <2>4. OriginInv
      BY <2>1, <2>3, SMTT(60) DEF Init, OriginInv
    <2>5. RoutesInv
      BY <2>1, <2>3, SMTT(60) DEF Init, RoutesInv
    <2>6. LastReloadInv
      BY <2>1, <2>3 DEF Init, LastReloadInv
    <2>7. LoadedIsBuilt
      BY <2>1, <2>3 DEF Init, LoadedIsBuilt
    <2>8. WatcherInv
      BY <2>1, <2>2, SMTT(60) DEF Init, WatcherInv
    <2>9. QED
      BY <2>4, <2>5, <2>6, <2>7, <2>8
  <1>2. QED
    BY <1>1, Invariance, OriginStep, RoutesStep, LastReloadStep, LoadedStep, WatcherStep, PTL
       DEF Spec

\* When the watch has applied every change of the Services and no reload runs, the
\* discovered routes of the active snapshot are stale in one case only: a reload that
\* listed the Services before their last change stored after the watch did
\* (ReloadConfigWithDiscovery stores a list taken outside snapshotMu).
THEOREM OnlyOlderList == Spec => []OnlyAnOlderListUndoesDiscovery
  <1>1. IInv /\ OriginInv /\ RoutesInv => OnlyAnOlderListUndoesDiscovery
    <2> SUFFICES ASSUME IInv, OriginInv, RoutesInv,
                        DiscoveryIdle, ReloadersIdle, active.discovered # cluster
                 PROVE  /\ built["discovery"].discovered = cluster
                        /\ built["discovery"].generation < active.generation
                        /\ \E r \in Reloaders : active = built[r] /\ routes[r] < cluster
      BY DEF OnlyAnOlderListUndoesDiscovery
    <2>0. Threads = Reloaders \cup {"discovery"}
      BY DEF Threads
    <2>1. \A t \in Threads : pc[t] = "idle"
      BY <2>0 DEF DiscoveryIdle, ReloadersIdle
    <2>2. built["discovery"].discovered = cluster
      BY <2>0, <2>1 DEF DiscoveryIdle, RoutesInv
    <2>3. built["discovery"] # active
      BY <2>2
    <2>4. built["discovery"].generation \in Nat /\ active.generation \in Nat
      BY <2>0 DEF IInv, TypeOK, Snapshot
    <2>5. built["discovery"].generation < active.generation
      BY <2>0, <2>1, <2>3, <2>4, SMTT(60) DEF OriginInv
    <2>6. PICK r \in Reloaders : active = built[r]
      BY <2>0, <2>1, <2>3 DEF OriginInv
    <2>7. Discovery
      BY DEF RoutesInv
    <2>8. routes[r] = active.discovered /\ routes[r] <= cluster
      BY <2>0, <2>1, <2>6, <2>7 DEF RoutesInv
    <2>9. routes[r] \in Nat /\ cluster \in Nat
      BY <2>0, ReloadAssumption, SMTT(60) DEF IInv, TypeOK
    <2>10. QED
      BY <2>2, <2>5, <2>6, <2>8, <2>9, SMTT(60)
  <1>2. QED
    BY <1>1, Invariance, OriginInvariance, PTL

\* Whenever no read or list has failed and the file changed smoothly: once the
\* watcher is idle, a valid file is the active configuration, unless a reload by
\* signal that had loaded an earlier content was stored after the watcher's.
THEOREM OnlySignal == Spec => []OnlyASignalUndoesTheWatcher
  <1>1. LastReloadInv /\ LoadedIsBuilt /\ WatcherInv => OnlyASignalUndoesTheWatcher
    <2> SUFFICES ASSUME LastReloadInv, LoadedIsBuilt, WatcherInv,
                        budget.faults = MaxFaults, smooth, WatcherIdle, ReloadersIdle,
                        file \notin Broken
                 PROVE  active.static = file \/ SignalOvertookWatcher
      BY DEF OnlyASignalUndoesTheWatcher, WatchedFileIsActive
    <2>1. pc["signal"] = "idle" /\ pc["watcher"] = "idle"
      BY DEF ReloadersIdle, Reloaders
    <2>2. /\ built["signal"].static = cfg["signal"]
          /\ built["watcher"].static = cfg["watcher"]
      BY <2>1 DEF LoadedIsBuilt, Reloaders
    <2>3. digest = file
      BY DEF WatcherIdle, WatcherInv
    <2>4. cfg["watcher"] = file
      BY <2>1, <2>3 DEF WatcherInv, Reloaders
    <2>5. QED
      BY <2>1, <2>2, <2>4 DEF LastReloadInv, SignalOvertookWatcher
  <1>2. QED
    BY <1>1, OriginInvariance, PTL

================================================================================
