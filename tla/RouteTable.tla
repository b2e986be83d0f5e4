------------------------------ MODULE RouteTable ------------------------------
(***************************************************************************)
(* How the route table of a snapshot is built, and which route a client    *)
(* gets: Kubernetes Services -> discovered routes -> merge with the static *)
(* routes -> router (internal/discovery, internal/router, and              *)
(* BuildRouteSnapshot of internal/proxy/server.go).                        *)
(*                                                                         *)
(* A server address is a spelling; Norm is hostaddr.Normalize, a function  *)
(* to hosts that fails on some spellings and leaves a host as it is.  A    *)
(* list of routes is a function: from the position for configured routes,  *)
(* from the Service for discovered ones.  The sorts of the code order such *)
(* lists; New puts them into a map, where only a repeated host could make  *)
(* the order matter.                                                       *)
(***************************************************************************)
EXTENDS Naturals, Sequences

CONSTANTS
    Services,       \* Services of the namespace
    Specs,          \* what a Service object may hold
    Configs,        \* route configurations a file may hold
    Spellings,      \* server addresses as clients, files and annotations write them
    Hosts,          \* normalized server addresses
    Norm,           \* hostaddr.Normalize
    Invalid,        \* Normalize's error
    None            \* absent

ASSUME SpellingAssumption ==
    /\ Hosts \subseteq Spellings
    /\ Invalid \notin Hosts
    /\ Norm \in [Spellings -> Hosts \cup {Invalid}]
    /\ \A h \in Hosts : Norm[h] = h

ASSUME ServiceAssumption ==
    /\ Services \cap Nat = {}
    /\ None \notin Services
    /\ None \notin Specs
    /\ \A spec \in Specs :
         /\ {"external", "enabled", "port"} \subseteq DOMAIN spec
         /\ spec.host \in Spellings \cup {None}
    /\ None \notin Spellings

\* A configured route.  names holds the serverAddress and then the aliases; ok says
\* that backend, statusBackend and statusOverride pass their own checks.
Route == [names: Seq(Spellings), ok: BOOLEAN, backend: Nat]

ASSUME ConfigAssumption ==
    \A cfg \in Configs :
        /\ DOMAIN cfg.routes \subseteq Nat
        /\ \A i \in DOMAIN cfg.routes : cfg.routes[i] \in Route
        /\ cfg.policy \in {"deny", "default"}

-----------------------------------------------------------------------------
(* Discovery.                                                              *)

\* ToServiceInput drops ExternalName Services before anything is parsed.
Inputs(services) ==
    {s \in Services : services[s] # None /\ ~services[s].external}

\* ParseServiceAnnotations; port says that the annotation is a port the
\* Service has.
Parsed(spec) ==
    IF spec.enabled /\ spec.host # None /\ spec.port THEN Norm[spec.host] ELSE Invalid

Candidates(services) == {s \in Inputs(services) : Parsed(services[s]) # Invalid}

\* Wrong variant: one of several Services with the same host keeps its route.
FirstClaimantWins(services) ==
    LET candidates == Candidates(services)
        first == {s \in candidates : s = CHOOSE t \in candidates :
                    Parsed(services[t]) = Parsed(services[s])}
    IN  [s \in first |-> Parsed(services[s])]

BuildDiscoveredRoutes(services) ==
    LET candidates == Candidates(services)
        unique == {s \in candidates : \A t \in candidates :
                     Parsed(services[t]) = Parsed(services[s]) => t = s}
    IN  [s \in unique |-> Parsed(services[s])]

-----------------------------------------------------------------------------
(* Validation and merge.                                                   *)

Names(routes, i) == {Norm[routes[i].names[k]] : k \in DOMAIN routes[i].names}

ValidRoutes(routes) ==
    /\ \A i \in DOMAIN routes : routes[i].ok /\ Invalid \notin Names(routes, i)
    /\ \A i, j \in DOMAIN routes :
         \A k \in DOMAIN routes[i].names, l \in DOMAIN routes[j].names :
            Norm[routes[i].names[k]] = Norm[routes[j].names[l]] => i = j /\ k = l

Valid(cfg) == ValidRoutes(cfg.routes) /\ (cfg.policy = "default" => cfg.default)

StaticHosts(cfg) == UNION {Names(cfg.routes, i) : i \in DOMAIN cfg.routes}

DiscoveredRoute(host, s) == [names |-> <<host>>, ok |-> TRUE, backend |-> s]

NormalizedRoute(route) ==
    [route EXCEPT !.names = [k \in DOMAIN route.names |-> Norm[route.names[k]]]]

\* Wrong variant: discovered hosts are not compared with the static ones.
MergeWithoutConflicts(cfg, discovered) ==
    LET kept == DOMAIN discovered
    IN  [i \in DOMAIN cfg.routes \cup kept |->
            IF i \in kept THEN DiscoveredRoute(discovered[i], i)
                          ELSE NormalizedRoute(cfg.routes[i])]

\* Wrong variant: a discovered route replaces a static one.
MergeDiscoveredWins(cfg, discovered) ==
    LET kept == DOMAIN discovered
        static1 == {i \in DOMAIN cfg.routes :
                      \A s \in kept : discovered[s] \notin Names(cfg.routes, i)}
    IN  [i \in static1 \cup kept |->
            IF i \in kept THEN DiscoveredRoute(discovered[i], i)
                          ELSE NormalizedRoute(cfg.routes[i])]

MergeRoutes(cfg, discovered) ==
    LET kept == {s \in DOMAIN discovered :
                   /\ \A t \in DOMAIN discovered : discovered[t] = discovered[s] => t = s
                   /\ discovered[s] \notin StaticHosts(cfg)}
    IN  [i \in DOMAIN cfg.routes \cup kept |->
            IF i \in kept THEN DiscoveredRoute(discovered[i], i)
                          ELSE NormalizedRoute(cfg.routes[i])]

-----------------------------------------------------------------------------
(* The router.                                                             *)

\* router.New: every name of every route.
New(cfg, routes) ==
    [routes  |-> [h \in UNION {Names(routes, i) : i \in DOMAIN routes} |->
                    CHOOSE i \in DOMAIN routes : h \in Names(routes, i)],
     default |-> cfg.policy = "default" /\ cfg.default]

NoRoute == [matchedBy |-> "none", route |-> None]

Select(router, spelling) ==
    LET host == Norm[spelling]
    IN  CASE host = Invalid -> NoRoute
          [] host # Invalid /\ host \in DOMAIN router.routes ->
                [matchedBy |-> "route", route |-> router.routes[host]]
          [] host # Invalid /\ host \notin DOMAIN router.routes /\ router.default ->
                [matchedBy |-> "default", route |-> None]
          [] OTHER -> NoRoute

-----------------------------------------------------------------------------
VARIABLES
    services,       \* ServiceWatchController.Run's services, and the namespace
    static,         \* serverState.staticConfig
    router          \* serverState.router

tableVars == <<services, static, router>>

\* BuildRouteSnapshot and the swap of the snapshot; a failed build leaves the
\* active snapshot alone.
BuildRouteSnapshot(cfg, discovered) ==
    LET merged == MergeRoutes(cfg, discovered)
    IN  IF Valid(cfg) /\ ValidRoutes(merged)
        THEN static' = cfg /\ router' = New(cfg, merged)
        ELSE UNCHANGED <<static, router>>

TableInit ==
    /\ services \in [Services -> Specs \cup {None}]
    /\ static \in {cfg \in Configs : Valid(cfg)}
    /\ router = New(static, MergeRoutes(static, BuildDiscoveredRoutes(services)))

\* A watch event for one Service, and the sink update that follows it.
ApplyWatchEvent(s, spec) ==
    /\ services' = [services EXCEPT ![s] = spec]
    /\ BuildRouteSnapshot(static, BuildDiscoveredRoutes(services'))

\* ReloadFile with a configuration file holding cfg, and a fresh Service list.
Reload(cfg) ==
    /\ BuildRouteSnapshot(cfg, BuildDiscoveredRoutes(services))
    /\ UNCHANGED services

TableNext ==
    \/ \E s \in Services, spec \in Specs \cup {None} : ApplyWatchEvent(s, spec)
    \/ \E cfg \in Configs : Reload(cfg)

TableSpec == TableInit /\ [][TableNext]_tableVars

-----------------------------------------------------------------------------
(* Properties.                                                             *)

TableTypeOK ==
    /\ services \in [Services -> Specs \cup {None}]
    /\ static \in Configs

\* The active router is always the one the active static configuration and the
\* present Services give: no set of Services makes router.New reject a merge
\* with a valid configuration, so no watch update is ever lost to a failed
\* rebuild (UpdateDiscoveredRoutes, BuildRouteSnapshot).
RouterIsCurrent ==
    router = New(static, MergeRoutes(static, BuildDiscoveredRoutes(services)))

\* Discovery never changes where a configured address leads: an address the
\* static configuration routes goes to the same route whatever Services claim
\* it (staticHosts in MergeRoutes).
StaticRoutesWin ==
    \A sp \in Spellings :
        LET alone == Select(New(static, static.routes), sp)
        IN  alone.matchedBy = "route" => Select(router, sp) = alone

\* An address leads to a Service only while that Service claims it and no other
\* Service does: duplicate hosts disable every discovered route for the host
\* (BuildDiscoveredRoutes).
DiscoveredRouteHasOneClaimant ==
    \A sp \in Spellings, s \in Services :
        Select(router, sp).route = s =>
            \A t \in Services :
                (t \in Candidates(services) /\ Parsed(services[t]) = Norm[sp]) <=> t = s

=============================================================================
