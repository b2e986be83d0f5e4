------------------------------ MODULE VoiceChat ------------------------------
(***************************************************************************)
(* The dynamic Simple Voice Chat runtime (internal/voicechat/runtime.go).  *)
(*                                                                         *)
(* One UDP listener is shared by all players.  A datagram of a player that *)
(* VoiceChatRegistry says is claimed is forwarded through a session, a UDP *)
(* socket towards the backend that holds the player's lease.               *)
(*                                                                         *)
(* Everything is guarded by Runtime.mu, but no operation holds it from     *)
(* beginning to end: an action below is what one goroutine does between    *)
(* two points where others may run (an unlock, a dial, a socket call).     *)
(* The goroutines are the UDP reader (serveUDP, only one), the expiry loop, *)
(* one per HTTP request, one per session (readBackend), and the one in     *)
(* Serve that closes the runtime.                                          *)
(*                                                                         *)
(* A session whose lastActivity is IdleTimeout ago is in idle; time passes *)
(* in RegistrationTTLElapses and IdleTimeoutElapses.  A datagram the code  *)
(* drops without changing its state is a stuttering step.  The gauge of    *)
(* registrations is in VoiceChatGauge; the other metrics only count.       *)
(***************************************************************************)
EXTENDS VoiceChatRegistry

CONSTANTS
    Addrs,              \* client UDP endpoints
    Handlers,           \* goroutines serving registration requests
    Sess,               \* session objects (bounds how many are ever created)
    MaxSessions         \* cfg.MaxSessions

Reader  == "reader"
Expirer == "expirer"
Main    == "main"
Threads == {Reader, Expirer, Main} \cup Handlers \cup Sess

Keys    == Players \X Addrs
Session == [key: Keys, backend: Backends, lease: Leases, generation: Leases]
Packet  == [key: Keys, reg: Registration, sess: Sess \cup {None}]

ASSUME VoiceChatAssumption ==
    /\ MaxSessions \in Nat \ {0}
    /\ None \notin Sess
    /\ None \notin Session
    /\ None \notin Packet
    /\ Handlers \cap Sess = {}
    /\ {Reader, Expirer, Main} \cap (Handlers \cup Sess) = {}

VARIABLES
    listening,          \* the UDP listener and closeCh are still open
    sessions,           \* Runtime.sessions, by player and endpoint
    info,               \* the immutable fields of each session object
    open,               \* sessions whose closeOnce has not run
    idle,               \* sessions whose lastActivity is IdleTimeout ago
    pc,                 \* where each goroutine is
    todo,               \* sessions a goroutine is about to close; TRUE: close,
                        \* FALSE: closeWithoutMetric
    sweep,              \* players whose sessions a goroutine has yet to remove
    snap,               \* the expiry loop's snapshotSessions()
    rx,                 \* the datagram the reader is working on
    sessionGauge        \* mc_gateway_voicechat_sessions

vars == <<closed, registrations, granted, listening, sessions, info, open, idle,
          pc, todo, sweep, snap, rx, sessionGauge>>

------------------------------------------------------------------------------
InTable       == {k \in Keys : sessions[k] # None}
SessionsOf(u) == {sessions[k] : k \in {j \in InTable : j[1] = u}}
IsCurrent(s)  == sessions[info[s].key] = s

AtSessionLimit == Cardinality(InTable) >= MaxSessions

\* sessionFor reuses a session only for the very lease it was created under.
SameLease(s, reg) ==
    /\ info[s].backend = reg.backend
    /\ info[s].lease = reg.lease
    /\ info[s].generation = reg.generation

Goto(t, label) == pc' = [pc EXCEPT ![t] = label]

\* Wrong variant: every close counts, whoever came first.
ShutAlwaysCounts(s, counted) ==
    /\ open' = open \ {s}
    /\ idle' = idle \ {s}
    /\ sessionGauge' = sessionGauge - 1

\* close and closeWithoutMetric share closeOnce: whoever comes first decides
\* whether the gauge goes down.
Shut(s, counted) ==
    /\ open' = open \ {s}
    /\ idle' = idle \ {s}
    /\ sessionGauge' = IF counted /\ s \in open THEN sessionGauge - 1
                                                ELSE sessionGauge

Init ==
    /\ RegistryInit
    /\ listening = TRUE
    /\ sessions = [k \in Keys |-> None]
    /\ info = [s \in Sess |-> None]
    /\ open = {}
    /\ idle = {}
    /\ pc = [t \in Threads |-> CASE t = Reader  -> "read"
                                 [] t = Expirer -> "tick"
                                 [] t = Main    -> "serve"
                                 [] t \in Handlers -> "idle"
                                 [] OTHER -> "off"]
    /\ todo = [t \in Threads |-> {}]
    /\ sweep = [t \in Threads |-> {}]
    /\ snap = {}
    /\ rx = None
    /\ sessionGauge = 0

------------------------------------------------------------------------------
(* The passage of time. *)

RegistrationExpires(u) ==
    /\ RegistrationTTLElapses(u)
    /\ UNCHANGED <<listening, sessions, info, open, idle, pc, todo, sweep, snap, rx,
                   sessionGauge>>

IdleTimeoutElapses(s) ==
    /\ s \in open
    /\ idle' = idle \cup {s}
    /\ UNCHANGED <<registryVars, listening, sessions, info, open,
                   pc, todo, sweep, snap, rx, sessionGauge>>

------------------------------------------------------------------------------
(* Closing sessions: steps shared by several goroutines. *)

\* Where a goroutine goes once it has closed the sessions it removed.
AfterSweep(t) ==
    CASE t = Expirer -> "snapshot"
      [] t = Main    -> "wait"
      [] OTHER       -> "idle"

\* closeSessionsForUUID, the part under the lock.
RemoveSessionsForUUID(t, u) ==
    /\ pc[t] = "sweep" /\ todo[t] = {}
    /\ u \in sweep[t]
    /\ sessions' = [k \in Keys |-> IF k[1] = u THEN None ELSE sessions[k]]
    /\ todo' = [todo EXCEPT ![t] = SessionsOf(u) \X {TRUE}]
    /\ sweep' = [sweep EXCEPT ![t] = @ \ {u}]
    /\ Goto(t, IF SessionsOf(u) = {} /\ sweep[t] = {u} THEN AfterSweep(t) ELSE "sweep")
    /\ UNCHANGED <<registryVars, listening, info, open, idle,
                   snap, rx, sessionGauge>>

\* closeSessionsForUUID and Close, the part after the unlock.
CloseRemoved(t, s) ==
    /\ pc[t] = "sweep"
    /\ <<s, TRUE>> \in todo[t]
    /\ Shut(s, TRUE)
    /\ todo' = [todo EXCEPT ![t] = @ \ {<<s, TRUE>>}]
    /\ Goto(t, IF todo[t] = {<<s, TRUE>>} /\ sweep[t] = {} THEN AfterSweep(t) ELSE "sweep")
    /\ UNCHANGED <<registryVars, listening, sessions, info, sweep,
                   snap, rx>>

\* Wrong variant: the session is closed but stays in the table.
CloseSessionKeepsEntry(t, s) ==
    /\ pc[t] = "closeSession"
    /\ <<s, FALSE>> \in todo[t]
    /\ todo' = [todo EXCEPT ![t] = {<<s, TRUE>>}]
    /\ Goto(t, "finishClose")
    /\ UNCHANGED <<registryVars, listening, sessions, info, open, idle,
                   sweep, snap, rx, sessionGauge>>

\* closeSession, the part under the lock: only the goroutine that takes the
\* session out of the table closes it with its metric.
CloseSession(t, s) ==
    /\ pc[t] = "closeSession"
    /\ <<s, FALSE>> \in todo[t]
    /\ IF IsCurrent(s)
       THEN /\ sessions' = [sessions EXCEPT ![info[s].key] = None]
            /\ todo' = [todo EXCEPT ![t] = {<<s, TRUE>>}]
       ELSE UNCHANGED <<sessions, todo>>
    /\ Goto(t, "finishClose")
    /\ UNCHANGED <<registryVars, listening, info, open, idle,
                   sweep, snap, rx, sessionGauge>>

\* closeSession, the part after the unlock, and the return to the caller.
FinishClose(t, s, counted) ==
    /\ pc[t] = "finishClose"
    /\ <<s, counted>> \in todo[t]
    /\ Shut(s, counted)
    /\ todo' = [todo EXCEPT ![t] = {}]
    /\ Goto(t, CASE t = Reader  -> "read"
                 [] t = Expirer -> IF snap = {} THEN "tick" ELSE "idleCheck"
                 [] OTHER       -> "done")
    /\ rx' = IF t = Reader THEN None ELSE rx
    /\ UNCHANGED <<registryVars, listening, sessions, info, sweep,
                   snap>>

------------------------------------------------------------------------------
(* The registration API: one handler goroutine per request. *)

PutRegistration(h, u, b, o) ==
    /\ pc[h] = "idle"
    /\ Put(u, b, o)
    /\ sweep' = [sweep EXCEPT ![h] = IF u \in Registered THEN {u} ELSE {}]
    /\ Goto(h, IF u \in Registered THEN "sweep" ELSE "idle")
    /\ UNCHANGED <<listening, sessions, info, open, idle, todo, snap, rx, sessionGauge>>

RefreshRegistration(u, b, o, l) ==
    /\ Refresh(u, b, o, l)
    /\ UNCHANGED <<listening, sessions, info, open, idle, pc, todo, sweep, snap, rx,
                   sessionGauge>>

DeleteRegistration(h, u, b, o, l) ==
    /\ pc[h] = "idle"
    /\ Delete(u, b, o, l)
    /\ sweep' = [sweep EXCEPT ![h] = {u}]
    /\ Goto(h, "sweep")
    /\ UNCHANGED <<listening, sessions, info, open, idle, todo, snap, rx, sessionGauge>>

------------------------------------------------------------------------------
(* The UDP reader: serveUDP calls forwardClientPacket for one datagram at a *)
(* time.                                                                    *)

Drop ==
    /\ Goto(Reader, "read")
    /\ rx' = None

\* ParseClientPacket has named the player; lookupRegistration returns a copy of
\* the registration that the reader goes on to use without the lock.
ReceivePacket(u, a) ==
    /\ pc[Reader] = "read"
    /\ listening
    /\ Usable(u)
    /\ rx' = [key |-> <<u, a>>, reg |-> registrations[u], sess |-> None]
    /\ Goto(Reader, "sessionFor")
    /\ UNCHANGED <<registryVars, listening, sessions, info, open,
                   idle, todo, sweep, snap, sessionGauge>>

\* lookupRegistration finds the registration expired: it deletes it, and
\* leaves the player's sessions alone.
ReceiveExpired(u) ==
    /\ pc[Reader] = "read"
    /\ listening
    /\ LookupExpired(u)
    /\ UNCHANGED <<listening, sessions, info, open, idle, pc, todo, sweep, snap, rx,
                   sessionGauge>>

\* Wrong variant: a mismatched session leaves the table and is never closed.
FindSessionForgetsStale ==
    /\ pc[Reader] = "sessionFor" /\ ~closed
    /\ LET s == sessions[rx.key]
       IN  IF s # None /\ SameLease(s, rx.reg)
           THEN rx' = [rx EXCEPT !.sess = s] /\ Goto(Reader, "write") /\ UNCHANGED sessions
           ELSE sessions' = [sessions EXCEPT ![rx.key] = None]
                /\ Goto(Reader, "checkLimit") /\ UNCHANGED rx
    /\ UNCHANGED <<registryVars, listening, info, open, idle, todo, sweep, snap,
                   sessionGauge>>

\* Wrong variant: a session is reused whatever lease it was created under.
FindSessionAnyLease ==
    /\ pc[Reader] = "sessionFor" /\ ~closed
    /\ LET s == sessions[rx.key]
       IN  IF s # None THEN rx' = [rx EXCEPT !.sess = s] /\ Goto(Reader, "write")
           ELSE Goto(Reader, "checkLimit") /\ UNCHANGED rx
    /\ UNCHANGED <<registryVars, listening, sessions, info, open, idle, todo, sweep, snap,
                   sessionGauge>>

\* sessionFor, first critical section.
FindSession ==
    /\ pc[Reader] = "sessionFor"
    /\ LET s == sessions[rx.key]
       IN  \/ /\ closed
              /\ Drop
              /\ UNCHANGED <<sessions, todo>>
           \/ /\ ~closed /\ s = None
              /\ Goto(Reader, "checkLimit")
              /\ UNCHANGED <<sessions, todo, rx>>
           \/ /\ ~closed /\ s # None /\ SameLease(s, rx.reg)
              /\ rx' = [rx EXCEPT !.sess = s]
              /\ Goto(Reader, "write")
              /\ UNCHANGED <<sessions, todo>>
           \/ /\ ~closed /\ s # None /\ ~SameLease(s, rx.reg)
              /\ sessions' = [sessions EXCEPT ![rx.key] = None]
              /\ todo' = [todo EXCEPT ![Reader] = {<<s, TRUE>>}]
              /\ Goto(Reader, "closeStale")
              /\ UNCHANGED rx
    /\ UNCHANGED <<registryVars, listening, info, open, idle,
                   sweep, snap, sessionGauge>>

\* The mismatched session is closed after the unlock.
CloseStale(s) ==
    /\ pc[Reader] = "closeStale"
    /\ <<s, TRUE>> \in todo[Reader]
    /\ Shut(s, TRUE)
    /\ todo' = [todo EXCEPT ![Reader] = {}]
    /\ Goto(Reader, "checkLimit")
    /\ UNCHANGED <<registryVars, listening, sessions, info, sweep,
                   snap, rx>>

\* sessionFor, second critical section.
CheckLimit ==
    /\ pc[Reader] = "checkLimit"
    /\ IF AtSessionLimit THEN Drop ELSE Goto(Reader, "dial") /\ UNCHANGED rx
    /\ UNCHANGED <<registryVars, listening, sessions, info, open,
                   idle, todo, sweep, snap, sessionGauge>>

\* The dial fails, or the third critical section refuses the new session.
DialFailsOrRefused ==
    /\ pc[Reader] = "dial"
    /\ Drop
    /\ UNCHANGED <<registryVars, listening, sessions, info, open,
                   idle, todo, sweep, snap, sessionGauge>>

\* sessionFor, third critical section, after the dial.  The registration is
\* not looked up again.
InsertSession(s) ==
    /\ pc[Reader] = "dial"
    /\ ~closed
    /\ pc[s] = "off"
    /\ IF sessions[rx.key] # None
       THEN /\ rx' = [rx EXCEPT !.sess = sessions[rx.key]]
            /\ Goto(Reader, "write")
            /\ UNCHANGED <<sessions, info, open, sessionGauge>>
       ELSE /\ ~AtSessionLimit
            /\ sessions' = [sessions EXCEPT ![rx.key] = s]
            /\ info' = [info EXCEPT ![s] =
                  [key |-> rx.key, backend |-> rx.reg.backend,
                   lease |-> rx.reg.lease, generation |-> rx.reg.generation]]
            /\ open' = open \cup {s}
            /\ sessionGauge' = sessionGauge + 1
            /\ pc' = [pc EXCEPT ![Reader] = "write", ![s] = "read"]
            /\ rx' = [rx EXCEPT !.sess = s]
    /\ UNCHANGED <<registryVars, listening, idle, todo, sweep,
                   snap>>

\* touch and writeBackend.  A write may fail at any time and must fail on a
\* closed socket.
WriteBackend ==
    /\ pc[Reader] = "write"
    /\ idle' = idle \ {rx.sess}
    /\ \/ /\ rx.sess \in open
          /\ Drop
          /\ UNCHANGED todo
       \/ /\ todo' = [todo EXCEPT ![Reader] = {<<rx.sess, FALSE>>}]
          /\ Goto(Reader, "closeSession")
          /\ UNCHANGED rx
    /\ UNCHANGED <<registryVars, listening, sessions, info, open,
                   sweep, snap, sessionGauge>>

ReaderExits ==
    /\ pc[Reader] = "read"
    /\ ~listening
    /\ Goto(Reader, "done")
    /\ UNCHANGED <<registryVars, listening, sessions, info, open,
                   idle, todo, sweep, snap, rx, sessionGauge>>

------------------------------------------------------------------------------
(* The goroutine of session s: readBackend. *)

\* Read returns a datagram; sessionIsCurrent decides whether it is used.
ReadReply(s) ==
    /\ pc[s] = "read"
    /\ s \in open
    /\ Goto(s, IF ~closed /\ IsCurrent(s) THEN "send" ELSE "done")
    /\ UNCHANGED <<registryVars, listening, sessions, info, open,
                   idle, todo, sweep, snap, rx, sessionGauge>>

\* The reply goes to the client's endpoint.
SendReply(s) ==
    /\ pc[s] = "send"
    /\ listening
    /\ idle' = idle \ {s}
    /\ Goto(s, "read")
    /\ UNCHANGED <<registryVars, listening, sessions, info, open,
                   todo, sweep, snap, rx, sessionGauge>>

\* Read or WriteToUDP fails of its own accord; the runtime may be closed
\* already, in which case whoever closed it closes the session.
SessionSocketFails(s) ==
    /\ \/ pc[s] = "read" /\ s \in open
       \/ pc[s] = "send" /\ listening
    /\ IF closed
       THEN Goto(s, "done") /\ UNCHANGED todo
       ELSE /\ todo' = [todo EXCEPT ![s] = {<<s, FALSE>>}]
            /\ Goto(s, "closeSession")
    /\ UNCHANGED <<registryVars, listening, sessions, info, open,
                   idle, sweep, snap, rx, sessionGauge>>

\* Read fails on the closed session, or WriteToUDP on the closed listener.
SessionReaderExits(s) ==
    /\ \/ pc[s] = "read" /\ s \notin open
       \/ pc[s] = "send" /\ ~listening
    /\ Goto(s, "done")
    /\ UNCHANGED <<registryVars, listening, sessions, info, open,
                   idle, todo, sweep, snap, rx, sessionGauge>>

------------------------------------------------------------------------------
(* The expiry loop. *)

\* expireRegistrations, the part under the lock.
ExpireRegistrations ==
    /\ pc[Expirer] = "tick"
    /\ ExpireAll
    /\ sweep' = [sweep EXCEPT ![Expirer] = Expired]
    /\ Goto(Expirer, IF Expired = {} THEN "snapshot" ELSE "sweep")
    /\ UNCHANGED <<listening, sessions, info, open, idle, todo, snap, rx, sessionGauge>>

SnapshotSessions ==
    /\ pc[Expirer] = "snapshot"
    /\ snap' = {sessions[k] : k \in InTable}
    /\ Goto(Expirer, IF InTable = {} THEN "tick" ELSE "idleCheck")
    /\ UNCHANGED <<registryVars, listening, sessions, info, open,
                   idle, todo, sweep, rx, sessionGauge>>

\* Wrong variant: the comparison with IdleTimeout is inverted.
CheckIdleInverted(s) ==
    /\ pc[Expirer] = "idleCheck"
    /\ s \in snap
    /\ snap' = snap \ {s}
    /\ IF s \notin idle
       THEN /\ todo' = [todo EXCEPT ![Expirer] = {<<s, FALSE>>}]
            /\ Goto(Expirer, "closeSession")
       ELSE /\ UNCHANGED todo
            /\ Goto(Expirer, IF snap = {s} THEN "tick" ELSE "idleCheck")
    /\ UNCHANGED <<registryVars, listening, sessions, info, open, idle, sweep, rx,
                   sessionGauge>>

\* Session s of the snapshot is looked at.
CheckIdle(s) ==
    /\ pc[Expirer] = "idleCheck"
    /\ s \in snap
    /\ snap' = snap \ {s}
    /\ IF s \in idle
       THEN /\ todo' = [todo EXCEPT ![Expirer] = {<<s, FALSE>>}]
            /\ Goto(Expirer, "closeSession")
       ELSE /\ UNCHANGED todo
            /\ Goto(Expirer, IF snap = {s} THEN "tick" ELSE "idleCheck")
    /\ UNCHANGED <<registryVars, listening, sessions, info, open,
                   idle, sweep, rx, sessionGauge>>

ExpirerExits ==
    /\ pc[Expirer] = "tick"
    /\ ~listening
    /\ Goto(Expirer, "done")
    /\ UNCHANGED <<registryVars, listening, sessions, info, open,
                   idle, todo, sweep, snap, rx, sessionGauge>>

------------------------------------------------------------------------------
(* Serve and Close. *)

\* Wrong variant: the sessions leave the table and are not closed.
CloseForgetsSessions ==
    /\ pc[Main] = "serve"
    /\ CloseRegistry
    /\ sessions' = [k \in Keys |-> None]
    /\ Goto(Main, "closeListener")
    /\ UNCHANGED <<listening, info, open, idle, todo, sweep, snap, rx, sessionGauge>>

\* The context is done or the API server failed; Close, the part under the lock.
Close ==
    /\ pc[Main] = "serve"
    /\ CloseRegistry
    /\ todo' = [todo EXCEPT ![Main] = {sessions[k] : k \in InTable} \X {TRUE}]
    /\ sessions' = [k \in Keys |-> None]
    /\ Goto(Main, "closeListener")
    /\ UNCHANGED <<listening, info, open, idle, sweep, snap, rx,
                   sessionGauge>>

\* closeCh, the UDP listener and the API server are closed.
CloseListener ==
    /\ pc[Main] = "closeListener"
    /\ listening' = FALSE
    /\ Goto(Main, IF todo[Main] = {} THEN AfterSweep(Main) ELSE "sweep")
    /\ UNCHANGED <<closed, registrations, granted, sessions, info, open, idle, todo,
                   sweep, snap, rx, sessionGauge>>

\* wg.Wait returns: the reader, the expiry loop and every readBackend are gone.
\* The request handlers are not in the wait group.
ServeReturns ==
    /\ pc[Main] = "wait"
    /\ \A t \in {Reader, Expirer} \cup Sess : pc[t] \in {"off", "done"}
    /\ Goto(Main, "done")
    /\ UNCHANGED <<registryVars, listening, sessions, info, open,
                   idle, todo, sweep, snap, rx, sessionGauge>>

------------------------------------------------------------------------------
\* Steps a goroutine takes by itself once it is scheduled.
ClosingStep(t) ==
    \/ \E u \in Players : RemoveSessionsForUUID(t, u)
    \/ \E s \in Sess : CloseRemoved(t, s)
    \/ \E s \in Sess : CloseSession(t, s)
    \/ \E s \in Sess, counted \in BOOLEAN : FinishClose(t, s, counted)

ReaderStep ==
    \/ FindSession
    \/ \E s \in Sess : CloseStale(s)
    \/ CheckLimit
    \/ DialFailsOrRefused
    \/ \E s \in Sess : InsertSession(s)
    \/ WriteBackend
    \/ ReaderExits

SessionStep(s) == SendReply(s) \/ SessionReaderExits(s)

ExpirerStep ==
    \/ ExpireRegistrations
    \/ SnapshotSessions
    \/ \E s \in Sess : CheckIdle(s)
    \/ ExpirerExits

MainStep == CloseListener \/ ServeReturns

\* Steps that wait for the outside world: time, requests, datagrams, failures
\* and the order to stop.
EnvStep ==
    \/ \E u \in Players : RegistrationExpires(u)
    \/ \E s \in Sess : IdleTimeoutElapses(s)
    \/ \E h \in Handlers, u \in Players, b \in Backends, o \in Owners :
          PutRegistration(h, u, b, o)
    \/ \E u \in Players, b \in Backends, o \in Owners, l \in Leases :
          RefreshRegistration(u, b, o, l)
    \/ \E h \in Handlers, u \in Players, b \in Backends, o \in Owners, l \in Leases :
          DeleteRegistration(h, u, b, o, l)
    \/ \E u \in Players, a \in Addrs : ReceivePacket(u, a)
    \/ \E u \in Players : ReceiveExpired(u)
    \/ \E s \in Sess : ReadReply(s)
    \/ \E s \in Sess : SessionSocketFails(s)
    \/ Close

Next ==
    \/ EnvStep
    \/ \E t \in Threads : ClosingStep(t)
    \/ ReaderStep
    \/ \E s \in Sess : SessionStep(s)
    \/ ExpirerStep
    \/ MainStep

Spec == Init /\ [][Next]_vars

\* The scheduler runs every goroutine that can run, the mutexes are not
\* starved, and the expiry ticker keeps ticking.  Between two ticks only closeCh
\* can be ready in the loop's select, hence the strong fairness of its exit.
FairSpec ==
    /\ Spec
    /\ \A t \in Threads : WF_vars(ClosingStep(t))
    /\ WF_vars(ReaderStep)
    /\ \A s \in Sess : WF_vars(SessionStep(s))
    /\ WF_vars(ExpirerStep)
    /\ SF_vars(ExpirerExits)
    /\ WF_vars(MainStep)

------------------------------------------------------------------------------
(* Properties *)

Labels == {"read", "sessionFor", "closeStale", "checkLimit", "dial", "write",
           "closeSession", "finishClose", "send", "off", "done", "idle",
           "sweep", "tick", "snapshot", "idleCheck", "serve", "closeListener",
           "wait"}

TypeOK ==
    /\ RegistryTypeOK
    /\ listening \in BOOLEAN
    /\ sessions \in [Keys -> Sess \cup {None}]
    /\ info \in [Sess -> Session \cup {None}]
    /\ open \subseteq Sess
    /\ idle \subseteq Sess
    /\ pc \in [Threads -> Labels]
    /\ todo \in [Threads -> SUBSET (Sess \X BOOLEAN)]
    /\ sweep \in [Threads -> SUBSET Players]
    /\ snap \subseteq Sess
    /\ rx \in Packet \cup {None}
    /\ sessionGauge \in Int

\* A goroutine took s out of the table and has yet to call s.close.
BeingClosed(s) == \E t \in Threads : <<s, TRUE>> \in todo[t]

\* No backend socket leaks: a session whose socket is open is in the table, or
\* the goroutine that removed it is about to close it, whichever of the packet,
\* reassignment, expiry, error and shutdown paths ran into each other.
NoOrphanSocket == \A s \in open : IsCurrent(s) \/ BeingClosed(s)

\* The table never holds a session whose socket is closed (sessionFor would hand
\* it to every later datagram of the client), nor one filed under another key.
TableIsLive ==
    \A k \in InTable : sessions[k] \in open /\ info[sessions[k]].key = k

\* A datagram is written only to a session of the very lease that
\* lookupRegistration returned for it, although the lock is released three
\* times between the lookup and the write.
ForwardsUnderLookedUpLease ==
    pc[Reader] = "write" => /\ info[rx.sess] # None
                            /\ info[rx.sess].key = rx.key
                            /\ SameLease(rx.sess, rx.reg)

\* The active-session gauge never reports fewer sessions than there are open
\* backend sockets: no session is counted out twice.
GaugeNeverUndercounts == sessionGauge >= Cardinality(open)

\* Sessions that a control request took out of the table and will close.
ClosedByRequests == {x[1] : x \in UNION {todo[h] : h \in Handlers}}

Runtime ==
    INSTANCE Service WITH
        phase <- IF pc[Main] = "done" THEN "ended" ELSE IF closed THEN "closing" ELSE "serving",
        holding <- ~(open \subseteq ClosedByRequests)

\* Once Close has run, Serve returns, and then the runtime holds no backend socket.
\* Only a control request may be late in closing those it took out of the table:
\* Close does not wait for requests.
ImplementsService == Runtime!Spec

\* An expired registration that nobody refreshes does not stay in the table.
ExpiredIsSwept ==
    \A u \in Players :
        (registrations[u] # None /\ registrations[u].expired)
        ~> (registrations[u] = None \/ ~registrations[u].expired)

\* A session that stays idle is closed.
IdleIsSwept == \A s \in Sess : (s \in open \cap idle) ~> (s \notin open \cap idle)

\* Every goroutine that could still remove a session or set a gauge is at rest.
Quiet ==
    /\ pc[Reader] = "read"
    /\ pc[Expirer] = "tick"
    /\ \A h \in Handlers : pc[h] = "idle"
    /\ \A s \in Sess : pc[s] \in {"off", "read", "done"}
    /\ pc[Main] \in {"serve", "wait", "done"}

\* docs/voicechat-routing-design.md: a register for a UUID closes any stale UDP
\* session for that UUID before accepting new traffic.  (A generation above 1 is
\* a registration that replaced another one.)
ReassignmentClosesStaleSessions ==
    Quiet => \A k \in InTable :
                LET reg == registrations[k[1]]
                IN  (reg # None /\ reg.generation > 1) => SameLease(sessions[k], reg)

==============================================================================
