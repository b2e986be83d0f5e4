---------------------------- MODULE VoiceChatGauge ----------------------------
(***************************************************************************)
(* The gauge mc_gateway_voicechat_registrations.  PUT, DELETE and the      *)
(* expiry loop read len(registrations) under Runtime.mu but publish it     *)
(* after the unlock, so two of them may publish in the opposite order      *)
(* (internal/voicechat/runtime.go); a lookup that finds an expired         *)
(* registration publishes under the lock.                                  *)
(***************************************************************************)
EXTENDS VoiceChatRegistry

CONSTANT Handlers       \* goroutines serving registration requests

Expirer == "expirer"
Main    == "main"
Threads == Handlers \cup {Expirer, Main}

VARIABLES
    gauge,              \* mc_gateway_voicechat_registrations
    pending,            \* the count a goroutine is about to publish, or None
    overlapped          \* history: an update began while another was pending

gaugeVars == <<closed, registrations, granted, gauge, pending, overlapped>>

ASSUME GaugeAssumption == None \notin Nat /\ {Expirer, Main} \cap Handlers = {}

AnyPending == \E t \in Threads : pending[t] # None

\* len(registrations) as the critical section leaves it.
Begin(t) ==
    /\ pending[t] = None
    /\ pending' = [pending EXCEPT ![t] =
          Cardinality({u \in Players : registrations'[u] # None})]
    /\ overlapped' = (overlapped \/ AnyPending)
    /\ UNCHANGED gauge

GaugeInit ==
    /\ RegistryInit
    /\ gauge = 0
    /\ pending = [t \in Threads |-> None]
    /\ overlapped = FALSE

PutRegistration(h, u, b, o) == Put(u, b, o) /\ Begin(h)

DeleteRegistration(h, u, b, o, l) == Delete(u, b, o, l) /\ Begin(h)

\* expireRegistrations publishes only when something expired.
ExpireRegistrations == Expired # {} /\ ExpireAll /\ Begin(Expirer)

Close == CloseRegistry /\ Begin(Main)

RegistrationsSet(t) ==
    /\ pending[t] # None
    /\ gauge' = pending[t]
    /\ pending' = [pending EXCEPT ![t] = None]
    /\ UNCHANGED <<registryVars, overlapped>>

\* Wrong variant: the lookup does not publish.
LookupSilently(u) ==
    /\ LookupExpired(u)
    /\ overlapped' = (overlapped \/ AnyPending)
    /\ UNCHANGED <<gauge, pending>>

LookupPublishes(u) ==
    /\ LookupExpired(u)
    /\ gauge' = Cardinality(Registered \ {u})
    /\ overlapped' = (overlapped \/ AnyPending)
    /\ UNCHANGED pending

GaugeNext ==
    \/ \E h \in Handlers, u \in Players, b \in Backends, o \in Owners :
          PutRegistration(h, u, b, o)
    \/ \E h \in Handlers, u \in Players, b \in Backends, o \in Owners, l \in Leases :
          DeleteRegistration(h, u, b, o, l)
    \/ ExpireRegistrations
    \/ Close
    \/ \E t \in Threads : RegistrationsSet(t)
    \/ \E u \in Players : LookupPublishes(u)
    \/ /\ \/ \E u \in Players : RegistrationTTLElapses(u)
          \/ \E u \in Players, b \in Backends, o \in Owners, l \in Leases :
                Refresh(u, b, o, l)
       /\ UNCHANGED <<gauge, pending, overlapped>>

GaugeSpec == GaugeInit /\ [][GaugeNext]_gaugeVars

GaugeTypeOK ==
    /\ RegistryTypeOK
    /\ gauge \in 0..MaxRegistrations
    /\ pending \in [Threads -> 0..MaxRegistrations \cup {None}]
    /\ overlapped \in BOOLEAN

\* The help text of mc_gateway_voicechat_registrations in
\* internal/metrics/recorder.go: currently active registrations.
RegistrationGaugeIsExact == ~AnyPending => gauge = Cardinality(Registered)

\* As long as no two updates of the table overlap, the gauge shows the number
\* of registrations whenever nothing is about to be published.
SerialUpdatesAreExact == ~overlapped => RegistrationGaugeIsExact
===============================================================================
