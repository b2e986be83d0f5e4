-------------------------- MODULE VoiceChatRegistry --------------------------
(***************************************************************************)
(* The registration table of the voice chat runtime, one action per        *)
(* critical section of Runtime.mu that touches it                          *)
(* (internal/voicechat/runtime.go).  Backends claim players over an HTTP   *)
(* API; a claim is a lease with a time to live.                            *)
(*                                                                         *)
(* An instant is only ever compared with ExpiresAt, so a registration      *)
(* carries expired, which RegistrationTTLElapses sets.  A request the code *)
(* rejects changes nothing.  A lease id is 128 random bits: a fresh number.*)
(***************************************************************************)
EXTENDS Integers, FiniteSets

CONSTANTS
    Players,            \* player UUIDs
    Backends,           \* configured backend IDs (the bearer token names one)
    Owners,             \* ownerId values of the companions
    MaxRegistrations,   \* cfg.MaxRegistrations
    MaxLease,           \* bound on the leases ever granted
    None                \* absent from a map

Leases == 1..MaxLease

Registration == [backend: Backends, owner: Owners, lease: Leases,
                 generation: Leases, expired: BOOLEAN]

ASSUME RegistryAssumption ==
    /\ MaxRegistrations \in Nat \ {0}
    /\ MaxLease \in Nat
    /\ None \notin Registration

VARIABLES
    closed,             \* Runtime.closed
    registrations,      \* Runtime.registrations
    granted             \* leases granted so far

registryVars == <<closed, registrations, granted>>

------------------------------------------------------------------------------
Registered == {u \in Players : registrations[u] # None}

AtRegistrationLimit == Cardinality(Registered) >= MaxRegistrations

\* Wrong variant: the lease id is not compared.
HoldsAnyLease(u, b, o, l) ==
    /\ registrations[u] # None
    /\ registrations[u].backend = b
    /\ registrations[u].owner = o

\* The check refresh and delete make before they touch a registration.
HoldsLease(u, b, o, l) ==
    /\ registrations[u] # None
    /\ registrations[u].backend = b
    /\ registrations[u].owner = o
    /\ registrations[u].lease = l

RegistryInit ==
    /\ closed = FALSE
    /\ registrations = [u \in Players |-> None]
    /\ granted = 0

RegistrationTTLElapses(u) ==
    /\ registrations[u] # None
    /\ registrations' = [registrations EXCEPT ![u].expired = TRUE]
    /\ UNCHANGED <<closed, granted>>

Put(u, b, o) ==
    /\ granted < MaxLease
    /\ ~closed
    /\ registrations[u] # None \/ ~AtRegistrationLimit
    /\ granted' = granted + 1
    /\ registrations' = [registrations EXCEPT ![u] =
          [backend |-> b, owner |-> o, lease |-> granted + 1, expired |-> FALSE,
           generation |-> IF registrations[u] = None THEN 1
                          ELSE registrations[u].generation + 1]]
    /\ UNCHANGED closed

\* Wrong variant: a refresh brings back a registration that is gone.
RefreshUpserts(u, b, o, l) ==
    /\ registrations[u] = None /\ l <= granted
    /\ registrations' = [registrations EXCEPT ![u] =
          [backend |-> b, owner |-> o, lease |-> l, expired |-> FALSE, generation |-> 1]]
    /\ UNCHANGED <<closed, granted>>

Refresh(u, b, o, l) ==
    /\ HoldsLease(u, b, o, l)
    /\ registrations' = [registrations EXCEPT ![u].expired = FALSE]
    /\ UNCHANGED <<closed, granted>>

Delete(u, b, o, l) ==
    /\ HoldsLease(u, b, o, l)
    /\ registrations' = [registrations EXCEPT ![u] = None]
    /\ UNCHANGED <<closed, granted>>

\* lookupRegistration returns the registration of u.
Usable(u) == registrations[u] # None /\ ~registrations[u].expired

\* lookupRegistration finds the registration of u expired and deletes it.
LookupExpired(u) ==
    /\ registrations[u] # None
    /\ registrations[u].expired
    /\ registrations' = [registrations EXCEPT ![u] = None]
    /\ UNCHANGED <<closed, granted>>

\* Wrong variant: the comparison with ExpiresAt is inverted.
ExpiredInverted == {u \in Registered : ~registrations[u].expired}

Expired == {u \in Registered : registrations[u].expired}

\* expireRegistrations deletes every expired registration.
ExpireAll ==
    /\ registrations' = [u \in Players |-> IF u \in Expired THEN None
                                           ELSE registrations[u]]
    /\ UNCHANGED <<closed, granted>>

\* Close.
CloseRegistry ==
    /\ ~closed
    /\ closed' = TRUE
    /\ registrations' = [u \in Players |-> None]
    /\ UNCHANGED granted

RegistryNext ==
    \/ \E u \in Players : RegistrationTTLElapses(u) \/ LookupExpired(u)
    \/ \E u \in Players, b \in Backends, o \in Owners : Put(u, b, o)
    \/ \E u \in Players, b \in Backends, o \in Owners, l \in Leases :
          Refresh(u, b, o, l) \/ Delete(u, b, o, l)
    \/ ExpireAll
    \/ CloseRegistry

RegistrySpec == RegistryInit /\ [][RegistryNext]_registryVars

------------------------------------------------------------------------------
RegistryTypeOK ==
    /\ closed \in BOOLEAN
    /\ registrations \in [Players -> Registration \cup {None}]
    /\ granted \in 0..MaxLease

\* The table implements the abstract lease service: the holder of a claim is the
\* pair of backend and owner, generations and the limit are its own business.
Lease == INSTANCE PlayerLease WITH
    Holders <- Backends \X Owners,
    claim   <- [u \in Players |->
                  IF registrations[u] = None THEN None
                  ELSE [holder |-> <<registrations[u].backend, registrations[u].owner>>,
                        lease  |-> registrations[u].lease,
                        lapsed |-> registrations[u].expired]],
    issued  <- 1..granted,
    down    <- closed

ASSUME LeaseAssumption == None \notin Lease!Claims

\* The code's critical sections, in any order, are steps of the lease service: each
\* touches one claim, but for the expiry, which drops lapsed claims only, and the
\* shutdown; a claim is renewed only while it is held.
ImplementsPlayerLease == Lease!Spec

==============================================================================
