-------------------------- MODULE VoiceChatCompanion --------------------------
(***************************************************************************)
(* The companions of the backend servers and the registration table, with  *)
(* the network between them (companion/core, VoiceChatRegistrationManager  *)
(* and CompanionVoicechatPlugin).                                          *)
(*                                                                         *)
(* A companion has two threads: the server's thread, on which Simple Voice *)
(* Chat fires its events one after the other, and an executor that sends   *)
(* refreshes and the unregistration of replaced leases.  A call may time   *)
(* out, and a request that timed out may still be served later.  A player  *)
(* is on one server at a time; the server it left notices that later, and  *)
(* always before the player joins it again.                                *)
(***************************************************************************)
EXTENDS VoiceChatRegistry, Sequences

CONSTANTS
    MaxTracked,     \* config.maxTrackedPlayers
    MaxAttempts,    \* attempts of retry (3 in the code)
    MaxFaults,      \* bound on the failed calls and the crashes
    MaxMoves,       \* bound on the moves of the players
    Timely          \* a claim that is being refreshed never lapses

Companions == Backends \X Owners    \* a backend and an instanceId

\* n, the number of faults so far, tells a call from its repetition.
Request == [op: {"PUT", "refresh", "DELETE"}, from: Companions, player: Players,
            lease: Leases \cup {None}, n: 0..MaxFaults]

ASSUME CompanionAssumption ==
    /\ {MaxTracked, MaxAttempts} \subseteq Nat \ {0}
    /\ {MaxFaults, MaxMoves} \subseteq Nat
    /\ Timely \in BOOLEAN
    /\ None \notin Leases \cup Companions \cup Request

VARIABLES
    at,             \* where each player is: a companion's server, or None
    left,           \* servers that have yet to notice that a player left
    events,         \* companion -> events the server's thread has yet to handle
    up,             \* companion -> "up", "closing" or "down"
    tracked,        \* companion -> player -> the lease in leases, or None
    call,           \* companion -> the call its server's thread waits for, or None
    tries,          \* companion -> attempts of retry so far
    queue,          \* companion -> replaced leases the executor is to unregister
    exec,           \* companion -> the call its executor waits for, or None
    inFlight,       \* requests on their way to the router
    bounds          \* moves and faults so far, and whether a player
                    \* moved on before its server had registered it

playerVars == <<at, left, bounds>>
companionVars == <<events, up, tracked, call, tries, queue, exec>>
vars == <<registryVars, playerVars, companionVars, inFlight>>

TypeOK ==
    /\ RegistryTypeOK
    /\ at \in [Players -> Companions \cup {None}]
    /\ left \subseteq Companions \X Players
    /\ events \in [Companions -> Seq({"host", "gone"} \X Players)]
    /\ up \in [Companions -> {"up", "closing", "down"}]
    /\ tracked \in [Companions -> [Players -> Leases \cup {None}]]
    /\ {call, exec} \subseteq [Companions -> Request \cup {None}]
    /\ tries \in [Companions -> 0..MaxAttempts]
    /\ queue \in [Companions -> SUBSET (Players \X Leases)]
    /\ inFlight \subseteq Request
    /\ bounds \in [moves: 0..MaxMoves, faults: 0..MaxFaults, hasty: BOOLEAN]

Init ==
    /\ RegistryInit
    /\ at = [u \in Players |-> None]
    /\ left = {}
    /\ events = [c \in Companions |-> <<>>]
    /\ up = [c \in Companions |-> "up"]
    /\ tracked = [c \in Companions |-> [u \in Players |-> None]]
    /\ call = [c \in Companions |-> None]
    /\ tries = [c \in Companions |-> 0]
    /\ queue = [c \in Companions |-> {}]
    /\ exec = [c \in Companions |-> None]
    /\ inFlight = {}
    /\ bounds = [moves |-> 0, faults |-> 0, hasty |-> FALSE]

-----------------------------------------------------------------------------
(* Players and their servers.                                              *)

\* The server of c still has to register u.
Registering(c, u) ==
    \/ \E i \in DOMAIN events[c] : events[c][i] = <<"host", u>>
    \/ call[c] # None /\ call[c].op = "PUT" /\ call[c].player = u

\* u goes to the server of c, where Simple Voice Chat asks for the voice host; or
\* it goes away.
Move(u, c) ==
    /\ at[u] # c
    /\ bounds.moves < MaxMoves
    /\ bounds' = [bounds EXCEPT !.moves = @ + 1,
                                !.hasty = @ \/ (at[u] # None /\ Registering(at[u], u))]
    /\ c # None => up[c] = "up" /\ <<c, u>> \notin left
    /\ at' = [at EXCEPT ![u] = c]
    /\ left' = IF at[u] = None THEN left ELSE left \cup {<<at[u], u>>}
    /\ events' = IF c = None THEN events
                 ELSE [events EXCEPT ![c] = Append(@, <<"host", u>>)]
    /\ UNCHANGED <<registryVars, up, tracked, call, tries, queue, exec, inFlight>>

\* The client sets up voice again on the server it is on.
AskAgain(u) ==
    /\ at[u] # None
    /\ bounds.moves < MaxMoves
    /\ bounds' = [bounds EXCEPT !.moves = @ + 1]
    /\ events' = [events EXCEPT ![at[u]] = Append(@, <<"host", u>>)]
    /\ UNCHANGED <<registryVars, at, left, up, tracked, call, tries, queue, exec, inFlight>>

NoticeLeft(c, u) ==
    /\ <<c, u>> \in left
    /\ left' = left \ {<<c, u>>}
    /\ events' = IF up[c] = "up" THEN [events EXCEPT ![c] = Append(@, <<"gone", u>>)]
                 ELSE events
    /\ UNCHANGED <<registryVars, at, bounds, up, tracked, call, tries, queue, exec,
                   inFlight>>

-----------------------------------------------------------------------------
(* Calls of the companion.                                                 *)

Req(op, c, u, l) ==
    [op |-> op, from |-> c, player |-> u, lease |-> l, n |-> bounds.faults]

Send(request) == inFlight' = inFlight \cup {request}

TrackedBy(c) == {u \in Players : tracked[c][u] # None}

\* onVoiceHost and registerBeforeUdp up to the first attempt.
RegisterBeforeUdp(c, u) ==
    /\ up[c] = "up" /\ call[c] = None
    /\ events[c] # <<>> /\ Head(events[c]) = <<"host", u>>
    /\ events' = [events EXCEPT ![c] = Tail(@)]
    /\ IF tracked[c][u] = None /\ Cardinality(TrackedBy(c)) >= MaxTracked
       THEN UNCHANGED <<call, tries, inFlight>>
       ELSE /\ Send(Req("PUT", c, u, None))
            /\ call' = [call EXCEPT ![c] = Req("PUT", c, u, None)]
            /\ tries' = [tries EXCEPT ![c] = 1]
    /\ UNCHANGED <<registryVars, playerVars, up, tracked, queue, exec>>

\* Wrong variant: unregister leaves the lease and its refresh timer in place.
KeepTracking(c, u) == UNCHANGED tracked

\* leases.remove.
Untrack(c, u) == tracked' = [tracked EXCEPT ![c][u] = None]

\* unregister: for a player that left, or for every player when the server stops.
Unregister(c, u) ==
    /\ call[c] = None
    /\ \/ /\ up[c] = "up" /\ events[c] # <<>> /\ Head(events[c]) = <<"gone", u>>
          /\ events' = [events EXCEPT ![c] = Tail(@)]
       \/ /\ up[c] = "closing" /\ tracked[c][u] # None
          /\ UNCHANGED events
    /\ Untrack(c, u)
    /\ IF tracked[c][u] = None THEN UNCHANGED <<call, inFlight>>
       ELSE /\ Send(Req("DELETE", c, u, tracked[c][u]))
            /\ call' = [call EXCEPT ![c] = Req("DELETE", c, u, tracked[c][u])]
    /\ UNCHANGED <<registryVars, playerVars, up, tries, queue, exec>>

\* The scheduled refresh of a tracked player.
Refreshes(c, u) ==
    /\ up[c] # "down" /\ exec[c] = None
    /\ tracked[c][u] # None
    /\ Send(Req("refresh", c, u, tracked[c][u]))
    /\ exec' = [exec EXCEPT ![c] = Req("refresh", c, u, tracked[c][u])]
    /\ UNCHANGED <<registryVars, playerVars, events, up, tracked, call, tries, queue>>

\* unregisterBestEffort on the executor.
UnregisterReplaced(c, u, l) ==
    /\ up[c] # "down" /\ exec[c] = None
    /\ <<u, l>> \in queue[c]
    /\ queue' = [queue EXCEPT ![c] = @ \ {<<u, l>>}]
    /\ Send(Req("DELETE", c, u, l))
    /\ exec' = [exec EXCEPT ![c] = Req("DELETE", c, u, l)]
    /\ UNCHANGED <<registryVars, playerVars, events, up, tracked, call, tries>>

\* The server stops, its players are gone: close unregisters every player, and
\* then stops the executor.
BeginClose(c) ==
    /\ up[c] = "up" /\ call[c] = None
    /\ \A u \in Players : at[u] # c
    /\ up' = [up EXCEPT ![c] = "closing"]
    /\ events' = [events EXCEPT ![c] = <<>>]
    /\ UNCHANGED <<registryVars, playerVars, tracked, call, tries, queue, exec, inFlight>>

ShutdownNow(c) ==
    /\ up[c] = "closing" /\ call[c] = None /\ TrackedBy(c) = {}
    /\ up' = [up EXCEPT ![c] = "down"]
    /\ queue' = [queue EXCEPT ![c] = {}]
    /\ exec' = [exec EXCEPT ![c] = None]
    /\ UNCHANGED <<registryVars, playerVars, events, tracked, call, tries, inFlight>>

-----------------------------------------------------------------------------
(* The router serves a request; the answer arrives or is lost.             *)

\* The rest of registerBeforeUdp: the new lease replaces the previous one, which
\* the executor is told to unregister.
Track(c, u, l) ==
    /\ tracked' = [tracked EXCEPT ![c][u] = l]
    /\ queue' = [queue EXCEPT ![c] =
          IF tracked[c][u] = None THEN @ ELSE @ \cup {<<u, tracked[c][u]>>}]

ServePut(m) ==
    /\ m \in inFlight /\ m.op = "PUT"
    /\ inFlight' = inFlight \ {m}
    /\ Put(m.player, m.from[1], m.from[2])
    /\ IF call[m.from] = m
       THEN /\ Track(m.from, m.player, granted + 1)
            /\ call' = [call EXCEPT ![m.from] = None]
       ELSE UNCHANGED <<tracked, queue, call>>
    /\ UNCHANGED <<playerVars, events, up, tries, exec>>

\* A refresh answers with the same lease id; a rejected one is only logged.
ServeOther(m) ==
    /\ m \in inFlight /\ m.op # "PUT"
    /\ inFlight' = inFlight \ {m}
    /\ \/ m.op = "refresh" /\ Refresh(m.player, m.from[1], m.from[2], m.lease)
       \/ m.op = "DELETE" /\ Delete(m.player, m.from[1], m.from[2], m.lease)
       \/ ~HoldsLease(m.player, m.from[1], m.from[2], m.lease) /\ UNCHANGED registryVars
    /\ call' = [call EXCEPT ![m.from] = IF @ = m THEN None ELSE @]
    /\ exec' = [exec EXCEPT ![m.from] = IF @ = m THEN None ELSE @]
    /\ UNCHANGED <<playerVars, events, up, tracked, tries, queue>>

Fault == /\ bounds.faults < MaxFaults
         /\ bounds' = [bounds EXCEPT !.faults = @ + 1]

\* The loop of retry.
MayRetry(c) == tries[c] < MaxAttempts

\* The request or its answer is lost or late, or the router refuses it: retry
\* sends another PUT, up to the last attempt; a DELETE or a refresh is given up.
CallFails(c, m) ==
    /\ Fault
    /\ \E rest \in {inFlight, inFlight \ {m}} :
         \/ /\ call[c] = m /\ m.op = "PUT" /\ MayRetry(c)
            /\ tries' = [tries EXCEPT ![c] = @ + 1]
            /\ call' = [call EXCEPT ![c] = [m EXCEPT !.n = bounds.faults + 1]]
            /\ inFlight' = rest \cup {[m EXCEPT !.n = bounds.faults + 1]}
            /\ UNCHANGED exec
         \/ /\ call[c] = m /\ (m.op = "DELETE" \/ ~MayRetry(c))
            /\ call' = [call EXCEPT ![c] = None]
            /\ inFlight' = rest
            /\ UNCHANGED <<tries, exec>>
         \/ /\ exec[c] = m
            /\ exec' = [exec EXCEPT ![c] = None]
            /\ inFlight' = rest
            /\ UNCHANGED <<call, tries>>
    /\ UNCHANGED <<registryVars, at, left, events, up, tracked, queue>>

-----------------------------------------------------------------------------
(* The router by itself.                                                   *)

\* The holder of the claim on u sends refreshes for it.
BeingRefreshed(u) ==
    \E c \in Companions : /\ registrations[u] # None /\ up[c] # "down"
                          /\ tracked[c][u] = registrations[u].lease

Lapse(u) ==
    /\ Timely => ~BeingRefreshed(u)
    /\ RegistrationTTLElapses(u)
    /\ UNCHANGED <<playerVars, companionVars, inFlight>>

SweepExpired ==
    /\ ExpireAll
    /\ UNCHANGED <<playerVars, companionVars, inFlight>>

-----------------------------------------------------------------------------
(* Crashes.                                                                *)

\* The server process ends; its players are disconnected.
ServerCrashes(c) ==
    /\ up[c] # "down"
    /\ Fault
    /\ at' = [u \in Players |-> IF at[u] = c THEN None ELSE at[u]]
    /\ left' = {p \in left : p[1] # c}
    /\ events' = [events EXCEPT ![c] = <<>>]
    /\ up' = [up EXCEPT ![c] = "down"]
    /\ tracked' = [tracked EXCEPT ![c] = [u \in Players |-> None]]
    /\ call' = [call EXCEPT ![c] = None]
    /\ queue' = [queue EXCEPT ![c] = {}]
    /\ exec' = [exec EXCEPT ![c] = None]
    /\ UNCHANGED <<registryVars, tries, inFlight>>

\* The router restarts with an empty table; the players, whose connections it
\* carries, are disconnected.  Lease ids are never used again.
RouterRestarts ==
    /\ Fault
    /\ registrations' = [u \in Players |-> None]
    /\ at' = [u \in Players |-> None]
    /\ left' = left \cup {p \in Companions \X Players : at[p[2]] = p[1]}
    /\ UNCHANGED <<closed, granted, companionVars, inFlight>>

-----------------------------------------------------------------------------
CompanionStep(c) ==
    \/ \E u \in Players : RegisterBeforeUdp(c, u) \/ Unregister(c, u)
    \/ \E u \in Players, l \in Leases : UnregisterReplaced(c, u, l)
    \/ ShutdownNow(c)

Serve(m) == ServePut(m) \/ ServeOther(m)

Next ==
    \/ \E u \in Players, c \in Companions \cup {None} : Move(u, c)
    \/ \E u \in Players : AskAgain(u)
    \/ \E c \in Companions, u \in Players : NoticeLeft(c, u) \/ Refreshes(c, u)
    \/ \E c \in Companions : CompanionStep(c) \/ BeginClose(c)
    \/ \E m \in inFlight : Serve(m)
    \/ \E c \in Companions : \E m \in {call[c], exec[c]} \ {None} : CallFails(c, m)
    \/ \E c \in Companions : ServerCrashes(c)
    \/ RouterRestarts
    \/ \E u \in Players : Lapse(u)
    \/ SweepExpired

Spec == Init /\ [][Next]_vars

\* Threads run, servers notice that players left, a request a companion waits for
\* is served, and time passes: a claim nobody refreshes lapses and is swept.
FairSpec ==
    /\ Spec
    /\ \A c \in Companions : WF_vars(CompanionStep(c))
    /\ \A c \in Companions, u \in Players : WF_vars(NoticeLeft(c, u))
    /\ \A c \in Companions : WF_vars(call[c] # None /\ Serve(call[c]))
    /\ \A c \in Companions : WF_vars(exec[c] # None /\ Serve(exec[c]))
    /\ \A u \in Players : SF_vars(Lapse(u))
    /\ WF_vars(SweepExpired)

-----------------------------------------------------------------------------
(* Properties.                                                             *)

Holder(u) == <<registrations[u].backend, registrations[u].owner>>

\* The server's thread of c has nothing left to do for u.
Settled(c, u) ==
    /\ call[c] = None \/ call[c].player # u
    /\ <<c, u>> \notin left
    /\ \A i \in DOMAIN events[c] : events[c][i][2] # u

\* No server keeps a claim alive for a player that is elsewhere: a companion that
\* has handled its events refreshes a claim only for a player on its server,
\* whatever calls failed or came late (unregister, registerBeforeUdp).
RefreshesOnlyOwnPlayers ==
    \A u \in Players, c \in Companions :
        up[c] = "up" /\ Settled(c, u) /\ tracked[c][u] # None => at[u] = c

\* Nothing but refreshes is under way.
Quiet ==
    /\ \A c \in Companions, u \in Players : Settled(c, u)
    /\ \A c \in Companions : /\ up[c] # "closing"
                             /\ queue[c] = {}
                             /\ exec[c] = None \/ exec[c].op = "refresh"
    /\ \A m \in inFlight : m.op = "refresh"

\* When everything has settled, a player is claimed by the server it is on, under
\* the lease that this server refreshes ("registrations refreshed while the player
\* remains connected").
CurrentServerHoldsPlayer ==
    Quiet => \A u \in Players :
        at[u] # None => /\ registrations[u] # None
                        /\ Holder(u) = at[u]
                        /\ tracked[at[u]][u] = registrations[u].lease

\* It holds as long as players let their server register them before they move on
\* and no call fails: neither the late unregistration by the server a player left
\* nor that of a replaced lease removes the new claim.
OrderlyMoveKeepsClaim ==
    ~bounds.hasty /\ bounds.faults = 0 => CurrentServerHoldsPlayer

\* A claim of a server that the player is not on does not last: it is given up,
\* replaced, or lapses, even if its server crashed or its unregistration was lost.
AbandonedClaimEnds ==
    \A u \in Players, c \in Companions :
        (registrations[u] # None /\ Holder(u) = c /\ at[u] # c)
        ~> (registrations[u] = None \/ Holder(u) # c \/ at[u] = c)

=============================================================================
