# mc-router in TLA+

mc-router is a gateway for Minecraft servers. It accepts Java connections over
TCP and sends each to the backend its handshake names, relays UDP for Bedrock
and for voice chat, takes its routes from a file and from Kubernetes Services,
and reloads them while it runs. This directory models the parts of it that have
state and run concurrently, checks them with TLC on small instances, and proves
their safety properties with TLAPS for all instances.

Contents: [the system](#the-system), [modules](#modules-and-code),
[runs](#runs), [fairness](#fairness), [disagreements](#disagreements-between-code-and-documentation),
[proofs](#proofs), [what is left out](#not-modelled).

`PROJECT.json` lists every component and its status, the runs, the source lines
of every definition (`map`), the hazards of the code with the properties that
cover them, and for every property a mutation of the model that breaks it.

    tlc -workers 2 -config RouteReload.cfg RouteReload     # one run
    tlapm RouteProofs.tla                                  # one set of proofs

## The system

| part | state | operations | what makes it hard |
|---|---|---|---|
| voice chat registrations, `internal/voicechat/runtime.go` | `registrations`: player -> backend, owner, lease, expiry | PUT, refresh, DELETE, lookup by a packet, expiry sweep, Close | a request of an old lease arrives late; the gauge is published after the unlock |
| voice chat UDP runtime, same file | `sessions`, one socket and one goroutine each; wait group; `closed` | packet -> lookup -> session -> forward; answers; idle sweep; close on reassignment; Close | no operation holds the lock throughout: five kinds of goroutine meet in between |
| voice chat companion, `companion/core` (Java) | players and leases of one server; executor queue | connect, disconnect, refresh, stop; three attempts per call | calls time out and are served late; servers crash; a player moves faster than the calls |
| UDP relay, `internal/udprelay/relay.go` | `sessions` by client, limit, wait group | packet, answer, idle sweep, Close | as the voice chat runtime, and the limit |
| route table, `internal/discovery`, `internal/router` | none (a pure function of file and Services) | parse Services, merge, build, select | addresses have several spellings; a bad set of Services must not take the file's routes down |
| Kubernetes watch, `internal/discovery/kubernetes`, `discovery_runtime.go` | position in the event stream, retry count, ready and sync tokens | list, watch, apply, retry with backoff, start, stop | failures before and after the first sync are treated differently, and an error that looks like a cancellation like neither |
| route snapshots and reload, `internal/proxy/server.go`, `discovery_reload.go`, `internal/configwatch` | active snapshot (static part, discovered part, generation), digest and timer of the watcher | SIGHUP reload, watched reload, discovery update | three writers, each reading its inputs before it takes the lock |
| Java TCP proxy, `internal/proxy/server.go` | listener, wait group, per connection two sockets and two copy goroutines | accept, handshake, route, dial, copy, fall back, close, shut down | every step may fail, and each way out must undo what was begun |
| Bedrock host proxy, `internal/bedrockproxy/proxy.go` | registered connections, `closed`, wait group | accept, dial, spawn, bridge, Close | a connection made while Close collects the registered ones |
| login rate limiter, `internal/ratelimit/limiter.go` | token buckets by address, bounded | Allow; expiry, eviction, a new limiter per snapshot | the clock is read before the lock; a forgotten bucket starts full |
| availability monitor, `internal/availability`, and control companion, `companion/control-paper` (Java) | last state acknowledged per backend; requests, tasks and store of the companion | probe, notify on change, handle, apply, restart | calls fail and are served late, two workers let them overtake, the store is not persistent |
| gateway process, `cmd/mc-gateway/main.go` | one channel per part, the context, the exit status | start in order, wait for the first to end, stop and wait for the others | any part may fail at any time, also while others are being started or stopped; a signal may come during startup |

How they meet: the companion calls the registration API; a registration decides
where the UDP runtime forwards. The Kubernetes watch hands its results to
`Server.UpdateDiscoveredRoutes`, which shares the snapshot lock with both
reloaders. Each of them builds its snapshot with the route table, and a
connection of the TCP proxy works on the snapshot, and so on the rate limiter,
that was active when its handler began. The gateway process starts all servers
and relies on each to end once it is told to.

## Modules and code

**PlayerLease** is abstract: what the registration API promises. A player has at
most one claim; a claim is only ever replaced by a newly granted lease, given up
by naming its lease, lapsed, or ended by shutdown.

**VoiceChatRegistry** is the registration table, one action per critical section
that touches it (`Put`, `Refresh`, `Delete`, `LookupExpired`, `ExpireAll`,
`CloseRegistry`). Its mapping to PlayerLease is `ImplementsPlayerLease`. `ExpiresAt`
becomes a flag `expired`, set by `RegistrationTTLElapses`: the code only compares
it with the clock. A lease id, 128 random bits, is a fresh number.

**VoiceChatGauge** adds what each of these operations publishes as
`mc_gateway_voicechat_registrations`, and when.

**Service** is abstract: what the gateway process relies on in a server. A server
that was told to stop ends, and one that has ended holds no socket.

**VoiceChat** extends VoiceChatRegistry with the UDP side: the reader, the expiry
loop, HTTP handlers, one reader per session, and the goroutine that closes the
runtime. Each has a program counter; an action is what the goroutine does between
two points where others may run (an unlock, a dial, a socket call). Whether a
session is idle is a flag like `expired`.

**VoiceChatCompanion** composes VoiceChatRegistry with the companions of several
servers, the players that move between them, and calls that fail, time out, or
are served after their caller gave up.

**UDPRelay** is the plain relay, built like VoiceChat. Its backend resolvers are
immutable; resolving is one step with two outcomes.

**BedrockProxy** is the host proxy: `Serve`, one handler per client with the two
goroutines of `bridge`, `registerConn` and `Close`. The Bedrock library is external:
a dial, a spawn, a read or a write succeeds or fails.

**Bedrock** composes the two as `startBedrock` does, which serves the listener by
one or the other according to `bedrock.mode`, and maps the result to Service. It
also records whether two goroutines ever closed one relay session at once.

**RouteTable** is the pipeline from Services and file to routes as operators
(`Parsed`, `BuildDiscoveredRoutes`, `MergeRoutes`, `New`, `Select`...), over a state
that is just the current inputs and the snapshot built from them.
`hostaddr.Normalize` is a constant function from spellings to hosts that may
fail, assumed idempotent. Lists become functions: of the code's sorts only the
order among repeated hosts could matter.

**ServiceWatch** is runtime discovery: the one-shot controller, the supervisor
around it, the sink, startup and Stop. The Services are a version number: a list
returns the present one, a watch the following ones in order. A run returns nil, an
error, or an error that `errors.Is` takes for the end of a context (`"deadline"`), which
a list or watch call that timed out returns although the context is live.

**RouteReload** is who replaces the active snapshot. A file's content is a number,
some numbers do not load, and the discovered half of a snapshot is a version as
in ServiceWatch. Reading the file, listing Services, building under the lock,
storing, and `SetConfig` are separate steps. The watcher has its digest, its
pending event and its debounce timer. The history variable `smooth` says that
since startup the file changed only while it was watched, and never back to an
earlier content.

**ProxyServer** is `Serve`, `handleConn` and `copyAndClose`. What the client
sends and what policy, router and backend answer is chosen by the environment; a
snapshot is the set of optional behaviours it enables.

**Gateway** extends ProxyServer with `run` and `waitForServers`. The other parts are
servers as Service describes them; `todo` is the list of what `run` has yet to start
or to wait for, one list per case of the select; waiting for a part that was not
started returns at once, as its `Done` function does. The start of discovery takes several
steps: the watch runs while `run` waits for its first sync, its end or the end of the
context. Load, discovery and metrics look at the context and fail when it is done; the
other starts do not. `early` is history: a signal came while one of those was still to
be done. `Deployments` are the sets of parts
that may be configured. `late` records the connections that Shutdown did not wait
for: `wg.Wait` may pass between an Accept and its Add.

**RateLimiter** is `Allow`, which reads the clock, and `allowAt`, which works under
the mutex, with integers for time and for fractions of a token. A reading is used
within `MaxDelay`. `window` and `lastCall` are history: an arbitrary window of time
over one bucket, and whether a client kept its distance.

**Availability** is the monitor and the control companion. A call that fails leaves
its request to be served later, or never; a worker answers when it has scheduled the
update, and the server's main thread applies it. `strayed` is history: the backends
whose last update the monitor does not know to have been applied, or which was
forgotten.

The MC modules only give values to constants (`MCRouteTable`, `MCGateway`,
`MCAvailability`) or define symmetry sets (`MCVoiceChat`, `MCRateLimiter`). The `...Proofs` modules hold the theorems, each about
the module it is named after and the components that one is made of: GatewayProofs also
about ProxyServer, BedrockProofs about UDPRelay and BedrockProxy, VoiceChatRegistryProofs
about VoiceChatGauge, VoiceChatCompanion and, through the mapping, PlayerLease. RouteProofs
is about both RouteTable and RouteReload. Where two modules share a proof module, the
specification of one has a prefix (`TableSpec`, `GaugeSpec`).

Definitions named after a wrong variant of the code, marked as such by their
comment, are used only as mutations to show that a property can fail.

## Runs

States are distinct states. Every bound below is a constant of the `.cfg`.

| run | bounds | checks |
|---|---|---|
| `registry` (17,183) | 3 players, 2 backends, 2 handlers, limit 2, 3 leases | the table implements PlayerLease; the gauge is exact as long as updates did not overlap (`SerialUpdatesAreExact`) |
| `voicechat` (1,656,614) | 1 player, 1 address, 1 backend, 1 handler, 2 sessions, 2 leases | no socket is open that nobody will close (`NoOrphanSocket`); a session in the table has an open socket (`TableIsLive`); a packet is written only to a session of the lease it was looked up under; the session gauge is never below the truth |
| `voicechat_live` (about 54,000) | the same, 1 session | the runtime implements Service; expired registrations and idle sessions are swept |
| `companion` (42,158) | 1 player, 2 servers, 3 leases, 1 fault, 2 moves, 2 attempts | a companion refreshes only its own players; as long as no call fails and players are registered before they move on, a player is claimed by its server (`OrderlyMoveKeepsClaim`); the claim of a server that stopped or crashed ends (`AbandonedClaimEnds`) |
| `bedrock` (285,803) | 2 clients, 2 sessions, limit 1 | in both modes the listener implements Service and forgets nothing that is open (`NothingIsOrphaned`); the limit; every session in the table is served by its goroutine; when one end of a bridged connection goes, both do; the session gauge drifts only after two goroutines closed one session |
| `route_table` (4,455) | 3 Services, 2 hosts, 4 spellings, files of up to 2 routes | any set of Services leaves a valid file's router up to date (`RouterIsCurrent`); a configured address is never captured by discovery; a discovered address has exactly one claimant |
| `service_watch` (17,014) | 2 changes, 3 faults | a failed run is retried only after a sync and reported only before one, the watch ends otherwise only by a cancellation or a deadline, and started means applied (`ReadyMeansApplied`); backoff counts consecutive failures; what is applied never goes back; it converges to the cluster unless a deadline ended it; Stop returns |
| `reload` (1,359,600) | 4 contents (1 broken), 2 edits, 1 signal, 2 changes, 1 fault | a reload is never undone by discovery; if the file changes smoothly and nothing fails, only a signal that overtook the watcher leaves an older file active; only a reload with an older list leaves older Services active |
| `gateway` (185,738) | 1 connection, 2 snapshots, each option on in one of them; the proxy alone, with one other part, or all parts without a connection | whatever fails or ends first, `run` returns (`RunTerminates`), with the right status, having waited for every part and every connection but a late one, and with a signal before startup was through as the one exception to both; nothing outlives a handler; when either end of a connection closes, both do |
| `availability` (202,098) | 2 backends, 2 workers, 2 changes, 1 fault | monitor and companion agree on what was delivered, but for strayed updates; a stopping gateway announces nothing as offline; otherwise the store converges to the backends |
| `ratelimit` (566,347) | 2 addresses, 2 handlers, room for 1 bucket, burst 2, 2/3 token per tick, 6 ticks, 1 swap | admissions from one bucket keep to burst and rate; expiry gives no token away; a client that keeps its distance is never refused |

Why these bounds. Two sessions are needed for a session to be replaced while the
old one is still being closed; the races in VoiceChat and UDPRelay are between
goroutines for one key, so one player and one address (two clients in the relay,
to compete for the limit) suffice, and the choice of backend plays no part in
them. Three leases let a lease be replaced twice. Two moves bring a player back
to the server it left. Three Services allow a conflict between two and a third
bystander; two hosts, one with two spellings, allow every kind of clash with a
configured route. Two edits let the content return to what it was. In `gateway` one
connection suffices because handlers share only counters, and its handlers are
proved safe for any number; with a connection each part is tried by itself
(`bedrock` stops as `udp` does), because parts meet only in `run`. Two changes let a
backend flip and flip back between a call and its repetition. A table with room for
one of two clients evicts at every change of client; six ticks let a bucket fill up,
expire and be made again; a rate of 2/3 leaves fractions of a token.

Symmetry (`voicechat`, `route_table`, `ratelimit`) is used with safety properties
only. Deadlock is not checked where the system may stop: after shutdown, or when the
budget of the environment is spent. Each module has a type invariant, which documents
its state; the runs do not list it, but it holds on their instances.

## Fairness

Weak fairness is on the steps of goroutines that the Go scheduler must eventually
run, never on what clients, backends, the clock or operators do. In detail:

- VoiceChat: weak fairness per goroutine, and strong fairness on `ExpirerExits`. The
  expiry loop selects between its ticker and the closed context; a select whose cases
  are both ready chooses at random, so it does not choose the ticker forever.
- UDPRelay, BedrockProxy, Gateway: one weak fairness condition on all of a server's
  own steps together. That is less than fairness per goroutine, and enough: once it
  is told to stop, each goroutine has finitely many steps left.
- ServiceWatch: strong fairness on `ReceiveChange` and `ControllerCancelled`,
  which compete in one select. The API server's failures are bounded by
  `MaxFaults`, so after the last one it answers.
- VoiceChatCompanion: a companion's threads run; a call is eventually served or
  fails; a server notices that a player left; a claim nobody refreshes lapses
  (strong, because a refresh disables it for a while). `Timely` says that the
  refresh interval is kept well below the lease's lifetime.
- Gateway: `run`, the parts that are told to stop (as Service promises), the
  handler's steps, and a copy that sees a closed end. Reads of the handshake and dials
  have deadlines in the code. **The PROXY header is read without a deadline**
  (`server.go:451`), so there `RunTerminates` assumes that the trusted proxy sends a
  header or closes. A copy whose two ends stay open need not end, the first sync need not
  come, and nothing need fail.
- Availability: the monitor, whose calls time out, the oldest request, the main
  thread's tasks, and that a companion that stopped is started again.

## Disagreements between code and documentation

One run shows a documented statement violated by what the code does:

- `stale_session_after_reassignment`: `sessionFor` (`voicechat/runtime.go:393`)
  inserts a session for a registration looked up before the dial. When the player
  is reassigned in between, the session to the old backend appears after the
  stale ones were closed (`docs/voicechat-routing-design.md:306`).

Where the code falls short of a simple statement only in certain cases, the property
names the cases, and the runs show that there are no others:

- Two closers of one session can each leave the metric to the other
  (`udprelay/relay.go:351`), and the gauge stays too high
  (`SessionGaugeDriftsOnlyByContention`). The voice chat runtime does the same; its
  gauge is never too *low* (`GaugeNeverUndercounts`).
- A reload lists Services before it takes the lock (`discovery_reload.go:58`), so it
  may replace a newer watch result by an older list until the next event
  (`OnlyAnOlderListUndoesDiscovery`; compare `docs/architecture.md:246`).
- A reload by signal may read the file before an edit and be applied after the
  watcher's reload (`OnlyASignalUndoesTheWatcher`).
- The companion may hold another state than the monitor believes
  (`DeliveredUnlessStrayed`): when a call that failed is served later, when its answer
  was lost and the backend then returned to the state acknowledged before, and after a
  restart. It lasts until the backend next changes.
- Shutdown may return while a connection is between Accept and Add; the exit of the
  process then cuts it off (`late` in `ExitLeavesNothingRunning`).
- A list or watch call that times out ends the watch for good, also after the first
  sync: `isWatchNormalStop` (`watch_supervisor.go:257`) takes any error that is
  `context.DeadlineExceeded` or `context.Canceled` for a cancellation, without looking at
  whose context it was, and nobody selects on the watch once the gateway serves.
  `docs/architecture.md:232` says "After the first successful sync, watch failures are
  retried with backoff", and so does `docs/kubernetes-discovery.md:416`. All other
  failures are (`ReadyMeansApplied`, `Converges`).
- A SIGTERM during startup is not the graceful shutdown of `docs/releases/v0.1.0.md:17`.
  While `run` waits for the first sync, the watch is cancelled but not waited for
  (`discovery_runtime.go:136`, `ExitLeavesNothingRunning`). The context's error, also that
  of the Service list or of the metrics listen, is returned as it is, and the process exits
  with status 1: only `waitForServers`' error is compared with `context.Canceled`
  (`main.go:119`, `ExitStatusIsRight`).
- After Close, a control request may still be closing the sessions it took out of
  the table (`ClosedByRequests` in VoiceChat's mapping to Service).

Others are in the models but are not runs of their own: a lookup drops an expired
registration without closing its sessions (`runtime.go:315`); two overlapping
registration updates may publish their counts in the wrong order
(`runtime.go:575`, hence the condition of `SerialUpdatesAreExact`); a player that
moves before the calls of its last move ended may be taken back by the server it
left; a file edited between the startup load and the watcher's first digest is not
reloaded until the next edit (`watcher.go:58`); a file that changes between
digest and load, and back, or whose reload failed on the Service list, is not
retried (`watcher.go:146`).

## Proofs

All theorems hold for every value of the constants that satisfies the named `ASSUME` of
the modules: any number of connections, clients, sessions, players, Services, edits or
failures, any rate and any limit. The assumptions say that limits are positive and bounds
natural numbers, that `Conns`, `Clients`, `Sess` and `Addrs` are finite, that
availability monitors a non-empty list of different backends (`validateAvailability`),
that the goroutines of a module are different from one another and from its sessions, that
`None` is none of the values it stands beside, that the startup file loads, that
configured routes are records of the type `Route` with the Services named apart from
them, and that normalizing a host leaves it as it is. TLC evaluates them in the runs.
`OrderlyMove` alone has hypotheses of its own, given below.

Leaf steps go to Zenon (in ServiceWatchProofs to SMT) unless they name SMT, which is asked
where arithmetic, records or tuples are involved; the steps are small because neither finds
large ones reliably.

Each specification has an invariant that is inductive (`IInv`, theorem `Invariance`, or the
like with a prefix); TLC checked it on the run's instance before it was proved. The
properties are conjuncts of it or follow from it. What the properties alone lack, and `IInv`
adds:

**RouteProofs, on RouteTable** (`RouterCurrent`, `StaticWins`, `OneClaimant`). The heart is
`MergeIsValid`: whatever the Services hold, the merge with a valid file repeats no host, so
`router.New` accepts it and the rebuild cannot fail. The invariant only adds to
`RouterIsCurrent` that the active file is valid; the other two are facts about `Select`,
`New` and `MergeRoutes`.

**RouteProofs, on RouteReload** (`TypeCorrect`, `ReloadSurvives`, `GenerationGaugeExact`,
`ConsecutiveGenerations`, `OnlyOlderList`, `OnlySignal`).

- `LockInv`: a thread is between lock and unlock exactly if it holds the lock.
- `StoreInv`: what such a thread is about to store has the next generation, and
  as its static part the file it loaded (reloaders) or the active one (discovery).
- `GaugeInv`: the gauge lags only between store and `SetConfig`.

`ReloadSurvivesDiscovery` alone is not inductive: nothing in it says that the
snapshot discovery is about to store was built from the active one. That is
`StoreInv`, which needs `LockInv`, because another thread that stored in between
would make it false. `ConsecutiveGenerations` is an action property: it follows
from `StoreInv` in the state before the step. The last two theorems rest on a second
invariant (`OriginInvariance`): the active snapshot is the newest one that somebody
built (`OriginInv`), what a thread holds was once there (`RoutesInv`), and, while
nothing fails and the file changes smoothly, the present content is always in the
watcher's sight, as an event, a timer, a digest or a load under way (`WatcherInv`). The
steps are of three kinds only, as far as snapshots go: building, storing, neither
(`SnapshotSteps`).

**GatewayProofs**, on ProxyServer: `NothingOutlives`, `ServeWaits`, `ActiveGaugeExact`,
`ClosedServed` and `FallbackEligible`. The invariant has a part that counts (`Counters`:
the wait group and the gauge are cardinalities of sets of handlers), a part about the
accept loop (`AcceptInv`: at most one connection is accepted and not yet added), and a
part per handler (`HandlerInv`: which sockets are open, which copies run, and which
outcome is recorded at each place). A step of one handler leaves the part of the others
alone (`SameHandlerKeepsInv`), so each action is examined for its own connection only.
`ServeWaits` needs both other parts: that the wait group is zero says that no *added*
handler runs, and `AcceptInv` that there is none waiting to be added.

On the process: `NothingOutlivesInGateway`, `ServeWaitsInGateway`, `ExitIsClean` and
`ExitStatus`. Each step of Gateway is one of ProxyServer, or leaves the handlers alone, but
for `Listen`, which may end Serve at once; that this leaves no handler behind is the
additional invariant `Unstarted`: before the proxy is up there is no connection. How run
ends is `ExitInv`. While it stops, whatever was not waited for is in `todo`, or is an
abandoned watch (`StopInv`; for each case of the select the list is complete,
`ListsAreComplete`). An error stands for a failure or for a startup cut short by a signal,
while without a signal nothing but a failure ends the select (`StatusInv`). Both need what
holds during startup (`StartInv`): load and discovery come before everything else, so
nothing else runs when one of them is given up, and a cancelled context with a start to
come that looks at it was cancelled early.

**VoiceChatRegistryProofs, on the registry** (`RegistryImplementsLease`, `GaugeImplementsLease`, `OneClaim`,
`LostStaysLost`, `TypeCorrect`, `SerialUpdatesExact`). Every critical section maps to a step
of PlayerLease or to a stutter. The invariant bounds lease and generation of a registration by
`granted`; without it the next lease might have been issued before. `LostStaysLost` is an
action property: a step either grants a lease that was not issued or only shrinks the set of
leases held. For the gauge, `GaugeIInv` says that as long as no updates overlapped, what one
is about to publish is the present count.

**VoiceChatRegistryProofs, on the companions** (`CompanionTypeCorrect`, `OnlyOwnPlayers`,
`OrderlyMove`). `OnlyOwnPlayers` holds under every fault of the model: failed, late and
repeated calls, crashes, restarts. Its invariant, besides the types and that of the registry:

- `PlaceInv`: a player is on a running server that has noticed the last time it left;
- `AwayInv`: a server that has noticed that a player is not on it has forgotten the player,
  with nothing about it queued or called, or will, because the last of the events waiting for
  its thread says so. `RefreshesOnlyOwnPlayers` speaks of servers that have handled their
  events; how they get there is this.

`OrderlyMove` assumes `Timely`, and that the players are finitely many and no more than
`MaxTracked`. Both are needed: a claim that is not refreshed in time lapses while its player
is connected, and a companion at `config.maxTrackedPlayers` turns the next player away. The
run's instance satisfies them. The invariant is about orderly histories only, in which no step
is a crash or a failed call (`CalmStep`):

- `AwaitedInv`: the router serves every PUT while its sender waits for it;
- `WantedInv` and `HereInv`: a server registers only players on it, and the last word of its
  events on a player on it is not that it left;
- `OldInv`: the leases that companions and requests name were granted, so a DELETE under way
  never names a lease granted later;
- `HeldInv`: a server that has registered a player on it holds the claim, refreshes it under
  the registry's lease, and has no DELETE of that lease queued or in flight. The property says
  this of quiet states only, which is far from inductive: what the DELETEs in flight may do
  decides what the next quiet state looks like.

**AvailabilityProofs** (`TypeCorrect`, `DeliveredOrStrayed`, `ShutdownIsSilent`).

- `CallInv`: a request somebody still waits for is the last one sent, and is the monitor's
  present call; so overtaking by an older request is overtaking by one given up.
- `OutcomeInv`: for a backend that has not strayed, the last of its tasks, or the store if
  there is none, has the value the monitor has recorded or is about to record on an answer.
  `DeliveredUnlessStrayed` itself compares only once the tasks are done.
- `EventInv`: the last event of a backend tells the state in the store.
- `ForcedInv`: a probe fails for the sake of the context only after its cancellation. With it
  `NoRumourAtShutdown` is inductive.

**VoiceChatProofs** (`TypeCorrect`, `NothingOrphaned`, `TableLive`, `ForwardsUnderLease`,
`NeverUndercounts`, `ServiceSafety`). The invariant locates each goroutine (`LabelInv`), says
that what it is about to close was made and has left the table (`KeyInv`), that the reader
has a packet in hand for which there is no session while it dials (`ReaderInv`: only the
reader makes sessions), and that a closed runtime has an empty table (`ClosedInv`). Every action
is one of four kinds (`StepKinds`: a goroutine moves, takes sessions out, shuts one, or
inserts one), and each part of the invariant is proved for the kinds instead of for the
actions. The gauge is never too low because each socket is counted out at most once.

**BedrockProofs** (`NothingOrphaned`, `Bounded`, `Served`, `GaugeDrift`, `ServiceSafety`). The
relay's invariant is like the one of VoiceChat; its limit holds because only the reader
inserts. For the gauge, as long as nobody contended, every closing session is with one goroutine,
so every close is counted. The host proxy's is `ConnInv`: at which places of its handler a
connection can be open or registered. `OneServer` says that the mode that is not configured
stays in its initial state, so both can be composed without a product of cases.

`ServiceSafety`, here and in VoiceChatProofs, is the safety half of `ImplementsService`: the
initial state maps to one of Service and every step to a step or a stutter. That a server
that has ended holds no socket is the part of it that needs the invariants.

**ServiceWatchProofs** (`TypeCorrect`, `ReadyApplied`, `BackoffExact`, `NeverGoesBack`). The
invariant says what each signal stands for: a sync token or the ready channel for an applied
result or a cancelled context (`SignalInv`), that no applied result goes unseen (`SeenInv`),
that the controller returns nil only when it was cancelled (`NilInv`), and how `attempt` and the runs that failed agree inside and outside a run (`AttemptInv`). That the
applied version never goes back needs that the controller's map is at least as new as what is
applied, but only between its list and its return (`VersionInv`).

**RateLimiterProofs** (`TypeCorrect`, `Paced`, `ExpiryFree`, `SpacedAdmitted`).

- `TimeInv`: a reading is at most `MaxDelay` old, and a bucket was refilled at most
  `MaxDelay` after it was last seen (a late call sets `lastSeen` back but not `lastRefill`).
- `WindowInv`: the tokens taken in the window and those left were in the bucket or flowed
  into it up to its last refill. `PacedWhileKept` itself does not mention the tokens that are left.
- `SpacedInv`: a client that keeps its distance has one call under way at most, and its bucket
  was refilled `MinSpacing` before that call.

**Only model-checked** is all liveness: TLAPS 1.4.5 does not prove properties under
fairness. These are the fairness half of `ImplementsService`, `ExpiredIsSwept`,
`IdleIsSwept`, `AbandonedClaimEnds`, `HostProxyClosesBoth`, both `Converges`,
`StopTerminates`, `RunTerminates` and `EitherEndClosesBothOrExit`. Every safety property
that a passing run checks is proved.

## Not modelled

- Byte formats (voice packets, VarInt, handshake, status, PROXY header, Bedrock host
  names) are pure functions of one message: they are one step that succeeds or fails.
  Address normalization is a constant function.
- Rounding of the rate limiter's floating point numbers.
- Counters and histograms, logging, the scrape of the metrics endpoint, the scaler
  webhook (its result does not change what the proxy does next), configuration parsing,
  platform hooks and settings of the companions.
- The skipped-Services gauge, set after the snapshot lock is released
  (`discovery_reload.go:67`).
- A configuration file that is valid and cannot be read, and fsnotify errors that lose
  events: in RouteReload a load fails only on the content, and every write is an event.
- `Allow` of the rate limiter is called on the limiter of the handler's snapshot; that the
  snapshot is loaded some time before the clock is read is not a step of its own.
- Client address policies are immutable: their verdict is a choice in `Admit`.
