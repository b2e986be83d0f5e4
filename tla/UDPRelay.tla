------------------------------- MODULE UDPRelay -------------------------------
(***************************************************************************)
(* The UDP relay (internal/udprelay/relay.go): one listener, one session   *)
(* (a UDP socket towards a backend) per client endpoint.                   *)
(*                                                                         *)
(* The goroutines are the reader (Serve itself), the expiry loop, the one  *)
(* that calls Close when the context is done, and one per session          *)
(* (readBackend).  An action is what one of them does between two points   *)
(* where others may run.  A session whose lastActivity is IdleTimeout ago  *)
(* is in idle.  A datagram dropped without a change of state is a          *)
(* stuttering step.                                                        *)
(***************************************************************************)
EXTENDS Integers, FiniteSets

CONSTANTS
    Clients,        \* client UDP endpoints, the keys of Relay.sessions
    Sess,           \* session objects (bounds how many are ever created)
    MaxSessions,    \* cfg.MaxSessions
    None            \* absent from a map

Reader  == "reader"
Expirer == "expirer"
Closer  == "closer"
Threads == {Reader, Expirer, Closer} \cup Sess

ASSUME RelayAssumption ==
    /\ MaxSessions \in Nat \ {0}
    /\ IsFiniteSet(Clients)
    /\ IsFiniteSet(Sess)
    /\ None \notin Sess \cup Clients
    /\ {Reader, Expirer, Closer} \cap Sess = {}

VARIABLES
    closed,         \* Relay.closed
    listening,      \* the listener and closeCh are still open
    sessions,       \* Relay.sessions
    key,            \* session.key
    open,           \* sessions whose closeOnce has not run
    idle,           \* sessions whose lastActivity is IdleTimeout ago
    pc,             \* where each goroutine is
    removed,        \* sessions a goroutine took out of the table, to be closed
    target,         \* the session a goroutine is working on, or None
    client,         \* the client of the datagram being forwarded, or None
    snap,           \* the expiry loop's snapshotSessions()
    gauge           \* mc_gateway_udp_sessions

vars == <<closed, listening, sessions, key, open, idle, pc, removed, target, client,
          snap, gauge>>

------------------------------------------------------------------------------
InTable        == {c \in Clients : sessions[c] # None}
IsCurrent(s)   == key[s] # None /\ sessions[key[s]] = s

\* Wrong variant: the limit is off by one.
AboveSessionLimit == Cardinality(InTable) > MaxSessions

AtSessionLimit == Cardinality(InTable) >= MaxSessions

Goto(t, label) == pc' = [pc EXCEPT ![t] = label]

\* close (counted) and closeWithoutMetric share closeOnce: the first one decides
\* whether the gauge goes down.
Shut(s, counted) ==
    /\ open' = open \ {s}
    /\ idle' = idle \ {s}
    /\ gauge' = IF counted /\ s \in open THEN gauge - 1 ELSE gauge

Init ==
    /\ closed = FALSE
    /\ listening = TRUE
    /\ sessions = [c \in Clients |-> None]
    /\ key = [s \in Sess |-> None]
    /\ open = {}
    /\ idle = {}
    /\ pc = [t \in Threads |-> CASE t = Reader  -> "read"
                                 [] t = Expirer -> "tick"
                                 [] t = Closer  -> "serve"
                                 [] OTHER       -> "off"]
    /\ removed = [t \in Threads |-> {}]
    /\ target = [t \in Threads |-> None]
    /\ client = None
    /\ snap = {}
    /\ gauge = 0

IdleTimeoutElapses(s) ==
    /\ s \in open
    /\ idle' = idle \cup {s}
    /\ UNCHANGED <<closed, listening, sessions, key, open, pc, removed, target, client,
                   snap, gauge>>

------------------------------------------------------------------------------
(* closeSession, called by the reader, the expiry loop and readBackend. *)

\* Under the lock: whoever finds the session in the table takes it out.
CloseSession(t) ==
    /\ pc[t] = "closeSession"
    /\ IF IsCurrent(target[t])
       THEN /\ sessions' = [sessions EXCEPT ![key[target[t]]] = None]
            /\ removed' = [removed EXCEPT ![t] = {target[t]}]
       ELSE UNCHANGED <<sessions, removed>>
    /\ Goto(t, "finishClose")
    /\ UNCHANGED <<closed, listening, key, open, idle, target, client, snap, gauge>>

\* Wrong variant: closeSession never counts the session out.
FinishCloseUncounted(t) ==
    /\ pc[t] = "finishClose"
    /\ Shut(target[t], FALSE)
    /\ removed' = [removed EXCEPT ![t] = {}]
    /\ target' = [target EXCEPT ![t] = None]
    /\ client' = IF t = Reader THEN None ELSE client
    /\ Goto(t, CASE t = Reader  -> "read"
                 [] t = Expirer -> IF snap = {} THEN "tick" ELSE "idleCheck"
                 [] OTHER       -> "done")
    /\ UNCHANGED <<closed, listening, sessions, key, snap>>

\* After the unlock: close, or closeWithoutMetric; then the caller goes on.
FinishClose(t) ==
    /\ pc[t] = "finishClose"
    /\ Shut(target[t], removed[t] # {})
    /\ removed' = [removed EXCEPT ![t] = {}]
    /\ target' = [target EXCEPT ![t] = None]
    /\ client' = IF t = Reader THEN None ELSE client
    /\ Goto(t, CASE t = Reader  -> "read"
                 [] t = Expirer -> IF snap = {} THEN "tick" ELSE "idleCheck"
                 [] OTHER       -> "done")
    /\ UNCHANGED <<closed, listening, sessions, key, snap>>

------------------------------------------------------------------------------
(* The reader: Serve and forwardToBackend. *)

Drop ==
    /\ Goto(Reader, "read")
    /\ client' = None

\* A datagram arrives; sessionForClient, first critical section.
ReceivePacket(c) ==
    /\ pc[Reader] = "read"
    /\ listening
    /\ ~closed
    /\ \/ /\ sessions[c] # None
          /\ target' = [target EXCEPT ![Reader] = sessions[c]]
          /\ Goto(Reader, "write")
       \/ /\ sessions[c] = None
          /\ ~AtSessionLimit
          /\ Goto(Reader, "dial")
          /\ UNCHANGED target
    /\ client' = c
    /\ UNCHANGED <<closed, listening, sessions, key, open, idle, removed, snap, gauge>>

\* The resolver or the dial fails, or the second critical section refuses.
DialFailsOrRefused ==
    /\ pc[Reader] = "dial"
    /\ Drop
    /\ UNCHANGED <<closed, listening, sessions, key, open, idle, removed, target, snap,
                   gauge>>

\* sessionForClient, second critical section, after the dial.
InsertSession(s) ==
    /\ pc[Reader] = "dial"
    /\ ~closed
    /\ pc[s] = "off"
    /\ IF sessions[client] # None
       THEN /\ target' = [target EXCEPT ![Reader] = sessions[client]]
            /\ Goto(Reader, "write")
            /\ UNCHANGED <<sessions, key, open, gauge>>
       ELSE /\ ~AtSessionLimit
            /\ sessions' = [sessions EXCEPT ![client] = s]
            /\ key' = [key EXCEPT ![s] = client]
            /\ open' = open \cup {s}
            /\ gauge' = gauge + 1
            /\ target' = [target EXCEPT ![Reader] = s]
            /\ pc' = [pc EXCEPT ![Reader] = "write", ![s] = "read"]
    /\ UNCHANGED <<closed, listening, idle, removed, client, snap>>

\* touch and writeBackend: a write may fail at any time, and fails on a closed
\* socket.
WriteBackend ==
    /\ pc[Reader] = "write"
    /\ idle' = idle \ {target[Reader]}
    /\ \/ /\ target[Reader] \in open
          /\ Drop
          /\ target' = [target EXCEPT ![Reader] = None]
       \/ /\ Goto(Reader, "closeSession")
          /\ UNCHANGED <<client, target>>
    /\ UNCHANGED <<closed, listening, sessions, key, open, removed, snap, gauge>>

\* ReadFromUDP fails on the closed listener.
ReaderStops ==
    /\ pc[Reader] = "read"
    /\ ~listening
    /\ Goto(Reader, "wait")
    /\ UNCHANGED <<closed, listening, sessions, key, open, idle, removed, target,
                   client, snap, gauge>>

\* wg.Wait returns: the expiry loop and every readBackend are gone.
ServeReturns ==
    /\ pc[Reader] = "wait"
    /\ \A t \in {Expirer} \cup Sess : pc[t] \in {"off", "done"}
    /\ Goto(Reader, "done")
    /\ UNCHANGED <<closed, listening, sessions, key, open, idle, removed, target,
                   client, snap, gauge>>

------------------------------------------------------------------------------
(* The goroutine of session s: readBackend. *)

\* Read returns a datagram; sessionIsCurrent decides whether it is used.
ReadReply(s) ==
    /\ pc[s] = "read"
    /\ s \in open
    /\ Goto(s, IF ~closed /\ IsCurrent(s) THEN "send" ELSE "done")
    /\ UNCHANGED <<closed, listening, sessions, key, open, idle, removed, target,
                   client, snap, gauge>>

SendReply(s) ==
    /\ pc[s] = "send"
    /\ listening
    /\ idle' = idle \ {s}
    /\ Goto(s, "read")
    /\ UNCHANGED <<closed, listening, sessions, key, open, removed, target, client,
                   snap, gauge>>

\* Wrong variant: readBackend returns on an error without closing its session.
SessionReaderGivesUp(s) ==
    /\ \/ pc[s] = "read" /\ s \in open
       \/ pc[s] = "send" /\ listening
    /\ Goto(s, "done")
    /\ UNCHANGED <<closed, listening, sessions, key, open, idle, removed, target, client,
                   snap, gauge>>

\* Read or WriteToUDP fails of its own accord.
SessionSocketFails(s) ==
    /\ \/ pc[s] = "read" /\ s \in open
       \/ pc[s] = "send" /\ listening
    /\ IF closed
       THEN Goto(s, "done") /\ UNCHANGED target
       ELSE /\ target' = [target EXCEPT ![s] = s]
            /\ Goto(s, "closeSession")
    /\ UNCHANGED <<closed, listening, sessions, key, open, idle, removed, client, snap,
                   gauge>>

\* Read fails on the closed session, or WriteToUDP on the closed listener.
SessionReaderExits(s) ==
    /\ \/ pc[s] = "read" /\ s \notin open
       \/ pc[s] = "send" /\ ~listening
    /\ Goto(s, "done")
    /\ UNCHANGED <<closed, listening, sessions, key, open, idle, removed, target,
                   client, snap, gauge>>

------------------------------------------------------------------------------
(* The expiry loop: expireSessions. *)

SnapshotSessions ==
    /\ pc[Expirer] = "tick"
    /\ InTable # {}
    /\ snap' = {sessions[c] : c \in InTable}
    /\ Goto(Expirer, "idleCheck")
    /\ UNCHANGED <<closed, listening, sessions, key, open, idle, removed, target,
                   client, gauge>>

CheckIdle(s) ==
    /\ pc[Expirer] = "idleCheck"
    /\ s \in snap
    /\ snap' = snap \ {s}
    /\ IF s \in idle
       THEN /\ target' = [target EXCEPT ![Expirer] = s]
            /\ Goto(Expirer, "closeSession")
       ELSE /\ UNCHANGED target
            /\ Goto(Expirer, IF snap = {s} THEN "tick" ELSE "idleCheck")
    /\ UNCHANGED <<closed, listening, sessions, key, open, idle, removed, client, gauge>>

ExpirerExits ==
    /\ pc[Expirer] = "tick"
    /\ ~listening
    /\ Goto(Expirer, "done")
    /\ UNCHANGED <<closed, listening, sessions, key, open, idle, removed, target,
                   client, snap, gauge>>

------------------------------------------------------------------------------
(* Close, called when the context is done. *)

Close ==
    /\ pc[Closer] = "serve"
    /\ closed' = TRUE
    /\ removed' = [removed EXCEPT ![Closer] = {sessions[c] : c \in InTable}]
    /\ sessions' = [c \in Clients |-> None]
    /\ Goto(Closer, "closeListener")
    /\ UNCHANGED <<listening, key, open, idle, target, client, snap, gauge>>

CloseListener ==
    /\ pc[Closer] = "closeListener"
    /\ listening' = FALSE
    /\ Goto(Closer, "shut")
    /\ UNCHANGED <<closed, sessions, key, open, idle, removed, target, client, snap,
                   gauge>>

ShutRemoved(s) ==
    /\ pc[Closer] = "shut"
    /\ s \in removed[Closer]
    /\ Shut(s, TRUE)
    /\ removed' = [removed EXCEPT ![Closer] = @ \ {s}]
    /\ UNCHANGED <<closed, listening, sessions, key, pc, target, client, snap>>

------------------------------------------------------------------------------
\* Steps a goroutine takes by itself once it is scheduled.
ClosingStep(t) == CloseSession(t) \/ FinishClose(t)

ReaderStep ==
    \/ DialFailsOrRefused
    \/ \E s \in Sess : InsertSession(s)
    \/ WriteBackend
    \/ ReaderStops
    \/ ServeReturns

SessionStep(s) == SendReply(s) \/ SessionReaderExits(s)

ExpirerStep ==
    \/ SnapshotSessions
    \/ \E s \in Sess : CheckIdle(s)
    \/ ExpirerExits

CloserStep == CloseListener \/ \E s \in Sess : ShutRemoved(s)

\* Steps that wait for time, a datagram, a failure or the end of the context.
EnvStep ==
    \/ \E s \in Sess : IdleTimeoutElapses(s)
    \/ \E c \in Clients : ReceivePacket(c)
    \/ \E s \in Sess : ReadReply(s) \/ SessionSocketFails(s)
    \/ Close

RelayStep ==
    \/ \E t \in Threads : ClosingStep(t)
    \/ ReaderStep
    \/ \E s \in Sess : SessionStep(s)
    \/ ExpirerStep
    \/ CloserStep

Next == EnvStep \/ RelayStep

Spec == Init /\ [][Next]_vars

\* The relay does not rest while one of its goroutines can run.  That no goroutine
\* is passed over for ever is not needed: after Close each of them has finitely
\* many steps left.
Fairness == WF_vars(RelayStep)

FairSpec == Spec /\ Fairness

------------------------------------------------------------------------------
(* Properties *)

Labels == {"read", "dial", "write", "closeSession", "finishClose", "wait", "done",
           "send", "off", "tick", "idleCheck", "serve", "closeListener", "shut"}

TypeOK ==
    /\ closed \in BOOLEAN
    /\ listening \in BOOLEAN
    /\ sessions \in [Clients -> Sess \cup {None}]
    /\ key \in [Sess -> Clients \cup {None}]
    /\ open \subseteq Sess
    /\ idle \subseteq Sess
    /\ pc \in [Threads -> Labels]
    /\ removed \in [Threads -> SUBSET Sess]
    /\ target \in [Threads -> Sess \cup {None}]
    /\ client \in Clients \cup {None}
    /\ snap \subseteq Sess
    /\ gauge \in Int

\* No backend socket leaks: a session whose socket is open is in the table, or
\* the goroutine that took it out is about to close it.
NoOrphanSocket ==
    \A s \in open : IsCurrent(s) \/ \E t \in Threads : s \in removed[t]

\* maxSessions bounds the table, although it is tested before the dial.
SessionsBounded == Cardinality(InTable) <= MaxSessions

\* A reader goroutine that is gone leaves no open session in the table behind: a
\* client's table entry always has a goroutine that carries the replies.
TableIsServed ==
    \A c \in InTable : pc[sessions[c]] \in {"read", "send", "closeSession"}

\* No goroutine is between taking a session out of the table and closing it.
Quiet == \A t \in Threads : pc[t] \notin {"closeSession", "finishClose",
                                          "closeListener", "shut"}
===============================================================================
