------------------------ MODULE VoiceChatRegistryProofs ------------------------
(***************************************************************************)
(* The registration table implements the lease service of PlayerLease, and *)
(* its gauge is exact as long as updates do not overlap: for any players,  *)
(* backends, owners, handlers and limits.  The companions refresh claims   *)
(* of players on their own servers only, and an orderly move keeps the     *)
(* claim.                                                                  *)
(***************************************************************************)
EXTENDS VoiceChatGauge, VoiceChatCompanion, FiniteSetTheorems, TLAPS

\* Steps are for Zenon, unless they name the other prover; they are small, and the
\* limit is for a busy machine.
USE ZenonT(60)

\* A generation counts the grants for one player, so it stays below the leases
\* granted; this keeps it within its type.
IInv ==
    /\ closed \in BOOLEAN
    /\ granted \in 0..MaxLease
    /\ registrations \in [Players -> Registration \cup {None}]
    /\ \A u \in Players : registrations[u] # None =>
          registrations[u].generation <= granted

-----------------------------------------------------------------------------
\* What a PUT stores.
LEMMA PutRecord ==
    ASSUME IInv, NEW u \in Players, NEW b \in Backends, NEW o \in Owners, Put(u, b, o)
    PROVE  /\ granted \in Nat /\ granted + 1 \in Leases
           /\ granted' = granted + 1 /\ ~closed /\ closed' = closed
           /\ \E r \in Registration :
                 /\ r.backend = b /\ r.owner = o /\ r.lease = granted + 1
                 /\ ~r.expired /\ r.generation <= granted + 1
                 /\ registrations' = [registrations EXCEPT ![u] = r]
  <1> DEFINE g == IF registrations[u] = None THEN 1 ELSE registrations[u].generation + 1
             r == [backend |-> b, owner |-> o, lease |-> granted + 1, expired |-> FALSE,
                   generation |-> g]
  <1>a. MaxLease \in Nat
    BY RegistryAssumption
  <1>1. granted \in Nat /\ granted + 1 \in Leases
    BY <1>a, SMTT(60) DEF Put, IInv, Leases
  <1>2. g \in 1..granted + 1
    <2>1. CASE registrations[u] = None
      BY <1>1, <2>1, SMTT(60)
    <2>2. CASE registrations[u] # None
      <3>1. registrations[u].generation \in 1..granted
        BY <1>1, <2>2, SMTT(60) DEF IInv, Registration, Leases
      <3>2. QED
        BY <1>1, <2>2, <3>1, SMTT(60)
    <2>3. QED
      BY <2>1, <2>2
  <1>3. r \in Registration /\ r.generation <= granted + 1
    BY <1>a, <1>1, <1>2, SMTT(60) DEF Registration, Leases
  <1>4. /\ registrations' = [registrations EXCEPT ![u] = r]
        /\ granted' = granted + 1 /\ ~closed /\ closed' = closed
    BY DEF Put
  <1>5. QED
    BY <1>1, <1>3, <1>4

\* Every critical section keeps the table well-formed.
LEMMA IInvStep ==
    ASSUME IInv, [RegistryNext]_registryVars
    PROVE  IInv'
  <1>a. MaxLease \in Nat
    BY RegistryAssumption
  <1>1. ASSUME NEW u \in Players, registrations[u] # None, NEW b \in BOOLEAN,
               registrations' = [registrations EXCEPT ![u].expired = b],
               UNCHANGED <<closed, granted>>
        PROVE  IInv'
    <2>1. registrations[u] \in Registration
      BY <1>1 DEF IInv
    <2>2. /\ [registrations[u] EXCEPT !.expired = b] \in Registration
          /\ [registrations[u] EXCEPT !.expired = b].generation = registrations[u].generation
      BY <2>1 DEF Registration
    <2>3. QED
      BY <1>1, <2>2 DEF IInv
  <1>2. ASSUME NEW u \in Players, RegistrationTTLElapses(u) \/ LookupExpired(u) PROVE IInv'
    <2>1. CASE RegistrationTTLElapses(u)
      BY <1>1, <2>1 DEF RegistrationTTLElapses
    <2>2. CASE LookupExpired(u)
      BY <2>2 DEF LookupExpired, IInv
    <2>3. QED
      BY <1>2, <2>1, <2>2
  <1>3. ASSUME NEW u \in Players, NEW b \in Backends, NEW o \in Owners, Put(u, b, o)
        PROVE  IInv'
    <2>1. /\ granted \in Nat /\ granted + 1 \in Leases
          /\ granted' = granted + 1 /\ closed' = closed
      BY <1>3, PutRecord
    <2>2. PICK r \in Registration :
             /\ r.generation <= granted + 1
             /\ registrations' = [registrations EXCEPT ![u] = r]
      BY <1>3, PutRecord, SMTT(60)
    <2>3. ASSUME NEW v \in Players, registrations'[v] # None
          PROVE  registrations'[v].generation <= granted + 1
      <3>1. CASE v = u
        BY <2>2, <3>1 DEF IInv
      <3>2. CASE v # u
        <4>1. registrations'[v] = registrations[v]
          BY <2>2, <3>2 DEF IInv
        <4>2. registrations[v].generation \in Int /\ registrations[v].generation <= granted
          BY <2>3, <4>1, SMTT(60) DEF IInv, Registration, Leases
        <4>3. QED
          BY <2>1, <4>1, <4>2, SMTT(60)
      <3>3. QED
        BY <3>1, <3>2
    <2>4. registrations' \in [Players -> Registration \cup {None}]
      BY <2>2 DEF IInv
    <2>5. QED
      BY <1>a, <2>1, <2>3, <2>4, SMTT(60) DEF IInv, Leases
  <1>4. ASSUME NEW u \in Players, NEW b \in Backends, NEW o \in Owners, NEW l \in Leases,
               Refresh(u, b, o, l) \/ Delete(u, b, o, l)
        PROVE  IInv'
    <2>1. CASE Refresh(u, b, o, l)
      BY <1>1, <2>1 DEF Refresh, HoldsLease
    <2>2. CASE Delete(u, b, o, l)
      BY <2>2 DEF Delete, IInv
    <2>3. QED
      BY <1>4, <2>1, <2>2
  <1>5. CASE ExpireAll \/ CloseRegistry
    BY <1>5 DEF ExpireAll, CloseRegistry, IInv
  <1>6. CASE UNCHANGED registryVars
    BY <1>6 DEF registryVars, IInv
  <1>7. QED
    BY <1>2, <1>3, <1>4, <1>5, <1>6 DEF RegistryNext

\* The claim of a registration, as the refinement mapping defines it.
ClaimOf(r) ==
    [holder |-> <<r.backend, r.owner>>, lease |-> r.lease, lapsed |-> r.expired]

Claimed ==
    [u \in Players |-> IF registrations[u] = None THEN None ELSE ClaimOf(registrations[u])]

\* What is registered is claimed.
LEMMA MappedClaims ==
    ASSUME IInv, NEW u \in Players, registrations[u] # None
    PROVE  ClaimOf(registrations[u]) # None
  <1>1. registrations[u] \in Registration
    BY DEF IInv
  <1>2. ClaimOf(registrations[u]) \in Lease!Claims
    BY <1>1 DEF Registration, Lease!Claims, ClaimOf
  <1>3. QED
    BY <1>2, LeaseAssumption

\* Every critical section is a step of the lease service, or leaves it alone.
LEMMA StepRefines ==
    ASSUME IInv, [RegistryNext]_registryVars
    PROVE  [Lease!Next]_(Lease!vars)
  <1>r. \A u \in Players : registrations[u] # None => registrations[u] \in Registration
    BY DEF IInv
  <1>1. ASSUME NEW u \in Players, NEW b \in Backends, NEW o \in Owners, Put(u, b, o)
        PROVE  Lease!Next
    <2>1. /\ granted \in Nat /\ granted + 1 \in Leases
          /\ granted' = granted + 1 /\ ~closed /\ closed' = closed
          /\ \E r \in Registration :
                 /\ r.backend = b /\ r.owner = o /\ r.lease = granted + 1
                 /\ ~r.expired /\ r.generation <= granted + 1
                 /\ registrations' = [registrations EXCEPT ![u] = r]
      BY <1>1, PutRecord, SMTT(60)
    <2>2. PICK l \in Leases : l = granted + 1
      BY <2>1
    <2>3. l \notin 1..granted /\ 1..granted' = (1..granted) \cup {l}
      BY <2>1, <2>2, SMTT(60)
    <2>4. PICK r \in Registration :
             /\ r.backend = b /\ r.owner = o /\ r.lease = l /\ ~r.expired
             /\ registrations' = [registrations EXCEPT ![u] = r]
      BY <2>1, <2>2
    <2>5. r # None
      BY RegistryAssumption
    <2>6. PICK h \in Backends \X Owners : h = <<b, o>>
      OBVIOUS
    <2>7. ClaimOf(r) = [holder |-> h, lease |-> l, lapsed |-> FALSE]
      BY <2>4, <2>6 DEF ClaimOf, Registration
    <2>8. Claimed' = [Claimed EXCEPT ![u] = ClaimOf(r)]
      <3>1. \A v \in Players : registrations'[v] = IF v = u THEN r ELSE registrations[v]
        BY <2>4 DEF IInv
      <3>2. QED
        BY <2>5, <3>1 DEF Claimed
    <2>9. Lease!Grant(u, h, l)
      BY <2>1, <2>3, <2>7, <2>8 DEF Lease!Grant, Claimed, ClaimOf
    <2>10. QED
      BY <2>9 DEF Lease!Next
  <1>2. ASSUME NEW u \in Players, registrations[u] # None, NEW x \in BOOLEAN,
               registrations' = [registrations EXCEPT ![u].expired = x]
        PROVE  Claimed' = [Claimed EXCEPT ![u].lapsed = x]
    <2> DEFINE r == [registrations[u] EXCEPT !.expired = x]
    <2>1. registrations[u] \in Registration
      BY <1>2, <1>r
    <2>2. /\ r \in Registration
          /\ r.backend = registrations[u].backend /\ r.owner = registrations[u].owner
          /\ r.lease = registrations[u].lease /\ r.expired = x
      BY <2>1 DEF Registration
    <2>3. r # None
      BY <2>2, RegistryAssumption
    <2>4. registrations' = [registrations EXCEPT ![u] = r]
      BY <1>2
    <2> HIDE DEF r
    <2>5. Claimed[u] = ClaimOf(registrations[u]) /\ Claimed'[u] = ClaimOf(r)
      BY <1>2, <2>3, <2>4 DEF Claimed, IInv
    <2>6. ClaimOf(r) = [ClaimOf(registrations[u]) EXCEPT !.lapsed = x]
      BY <2>2, SMTT(60) DEF ClaimOf
    <2>7. \A v \in Players : v # u => Claimed'[v] = Claimed[v]
      BY <2>4 DEF Claimed, IInv
    <2>8. Claimed' = [v \in Players |-> Claimed'[v]] /\ Claimed = [v \in Players |-> Claimed[v]]
      BY DEF Claimed
    <2>9. QED
      BY <2>5, <2>6, <2>7, <2>8
  <1>3. ASSUME NEW u \in Players, RegistrationTTLElapses(u) PROVE Lease!Next
    <2>1. Claimed' = [Claimed EXCEPT ![u].lapsed = TRUE] /\ Claimed[u] # None
      BY <1>2, <1>3, MappedClaims DEF RegistrationTTLElapses, Claimed
    <2>2. Lease!Lapse(u)
      BY <1>3, <2>1 DEF Lease!Lapse, RegistrationTTLElapses, Claimed, ClaimOf
    <2>3. QED
      BY <2>2 DEF Lease!Next
  <1>4. ASSUME NEW u \in Players, NEW b \in Backends, NEW o \in Owners, NEW l \in Leases,
               Refresh(u, b, o, l) \/ Delete(u, b, o, l)
        PROVE  Lease!Next
    <2>1. PICK h \in Backends \X Owners : h = <<b, o>>
      OBVIOUS
    <2>2. CASE Refresh(u, b, o, l)
      <3>1. Claimed' = [Claimed EXCEPT ![u].lapsed = FALSE]
        BY <1>2, <2>2 DEF Refresh, HoldsLease
      <3>2. Lease!Named(u, h, l)
        BY <2>1, <2>2, MappedClaims DEF Lease!Named, Refresh, HoldsLease, ClaimOf
      <3>3. Lease!Renew(u, h, l)
        BY <2>2, <3>1, <3>2 DEF Lease!Renew, Refresh, Claimed, ClaimOf
      <3>4. QED
        BY <3>3 DEF Lease!Next
    <2>3. CASE Delete(u, b, o, l)
      <3>1. Lease!Release(u, h, l)
        BY <2>1, <2>3, MappedClaims
           DEF Lease!Release, Lease!Named, Delete, HoldsLease, IInv, ClaimOf
      <3>2. QED
        BY <3>1 DEF Lease!Next
    <2>4. QED
      BY <1>4, <2>2, <2>3
  <1>5. ASSUME NEW u \in Players, LookupExpired(u) PROVE Lease!Next
    <2>1. Lease!Drop({u})
      BY <1>5, MappedClaims DEF Lease!Drop, LookupExpired, IInv, ClaimOf
    <2>2. QED
      BY <2>1 DEF Lease!Next
  <1>6. CASE ExpireAll
    <2>1. PICK U \in SUBSET Players : U = Expired
      BY DEF Expired, Registered
    <2>2. Lease!Drop(U)
      BY <1>6, <2>1, MappedClaims DEF Lease!Drop, ExpireAll, Expired, Registered,
                                   ClaimOf
    <2>3. QED
      BY <2>2 DEF Lease!Next
  <1>7. CASE CloseRegistry
    BY <1>7 DEF Lease!ShutDown, Lease!Next, CloseRegistry
  <1>8. CASE UNCHANGED registryVars
    BY <1>8 DEF registryVars, Lease!vars
  <1>9. QED
    BY <1>1, <1>3, <1>4, <1>5, <1>6, <1>7, <1>8 DEF RegistryNext

-----------------------------------------------------------------------------
\* The empty table is well-formed.
LEMMA InitIInv == RegistryInit => IInv
  <1> SUFFICES ASSUME RegistryInit PROVE IInv
    OBVIOUS
  <1>1. 0 \in 0..MaxLease
    BY RegistryAssumption, SMTT(60)
  <1>2. closed \in BOOLEAN
    BY DEF RegistryInit
  <1>3. QED
    BY <1>1, <1>2 DEF RegistryInit, IInv

\* The registration table implements the lease service: for any number of players,
\* backends and owners, each critical section of Runtime.mu is a step of
\* PlayerLease or changes nothing it can see.
THEOREM RegistryImplementsLease == RegistrySpec => ImplementsPlayerLease
  <1>1. RegistryInit => IInv
    BY InitIInv
  <1>2. RegistryInit => Lease!Init
    BY SMTT(60) DEF RegistryInit, Lease!Init
  <1>3. RegistrySpec => []IInv
    BY <1>1, IInvStep, PTL DEF RegistrySpec
  <1>4. QED
    BY <1>2, <1>3, StepRefines, PTL DEF RegistrySpec, ImplementsPlayerLease, Lease!Spec

-----------------------------------------------------------------------------
(* Leases.                                                                 *)

\* The lease l is the one some player is registered under.
InUse(l) == \E u \in Players : registrations[u] # None /\ registrations[u].lease = l

\* A lease in use was granted, and for one player.
LeaseInv ==
    /\ \A u \in Players : registrations[u] # None => registrations[u].lease <= granted
    /\ \A u, v \in Players :
          (/\ registrations[u] # None /\ registrations[v] # None
           /\ registrations[u].lease = registrations[v].lease) => u = v

\* A critical section either leaves every registration under its lease or removes it,
\* or is a PUT, which registers one player under the next lease.
LEMMA LeasesOfAStep ==
    ASSUME IInv, [RegistryNext]_registryVars
    PROVE  \/ /\ granted' = granted
              /\ \A v \in Players : registrations'[v] # None =>
                    registrations[v] # None /\ registrations'[v].lease = registrations[v].lease
           \/ \E u \in Players :
                 /\ granted' = granted + 1
                 /\ registrations'[u].lease = granted + 1
                 /\ \A v \in Players \ {u} : registrations'[v] = registrations[v]
  <1> DEFINE Shrinks ==
          /\ granted' = granted
          /\ \A v \in Players : registrations'[v] # None =>
                registrations[v] # None /\ registrations'[v].lease = registrations[v].lease
  <1>1. ASSUME NEW u \in Players, NEW b \in Backends, NEW o \in Owners, Put(u, b, o)
        PROVE  /\ granted' = granted + 1
               /\ registrations'[u].lease = granted + 1
               /\ \A v \in Players \ {u} : registrations'[v] = registrations[v]
    BY <1>1, PutRecord, SMTT(60) DEF IInv
  <1>2. ASSUME NEW u \in Players, registrations[u] # None, NEW x \in BOOLEAN,
               registrations' = [registrations EXCEPT ![u].expired = x], granted' = granted
        PROVE  Shrinks
    <2>1. [registrations[u] EXCEPT !.expired = x].lease = registrations[u].lease
      BY <1>2 DEF IInv, Registration
    <2>2. QED
      BY <1>2, <2>1 DEF IInv
  <1>3. ASSUME NEW u \in Players, RegistrationTTLElapses(u) \/ LookupExpired(u)
        PROVE  Shrinks
    <2>1. CASE RegistrationTTLElapses(u)
      BY <1>2, <2>1 DEF RegistrationTTLElapses
    <2>2. CASE LookupExpired(u)
      BY <2>2 DEF LookupExpired, IInv
    <2>3. QED
      BY <1>3, <2>1, <2>2
  <1>4. ASSUME NEW u \in Players, NEW b \in Backends, NEW o \in Owners, NEW l \in Leases,
               Refresh(u, b, o, l) \/ Delete(u, b, o, l)
        PROVE  Shrinks
    <2>1. CASE Refresh(u, b, o, l)
      BY <1>2, <2>1 DEF Refresh, HoldsLease
    <2>2. CASE Delete(u, b, o, l)
      BY <2>2 DEF Delete, IInv
    <2>3. QED
      BY <1>4, <2>1, <2>2
  <1>5. CASE ExpireAll \/ CloseRegistry
    BY <1>5 DEF ExpireAll, CloseRegistry
  <1>6. CASE UNCHANGED registryVars
    BY <1>6 DEF registryVars
  <1>7. QED
    BY <1>1, <1>3, <1>4, <1>5, <1>6 DEF RegistryNext

\* A lease that is granted is new, so it is in use for no other player.
LEMMA LeaseInvStep ==
    ASSUME IInv, LeaseInv, [RegistryNext]_registryVars
    PROVE  LeaseInv'
  <1>t. granted \in Nat /\ \A u \in Players : registrations[u] # None =>
                                registrations[u].lease \in Nat
    BY RegistryAssumption, SMTT(60) DEF IInv, Registration, Leases
  <1>1. CASE /\ granted' = granted
             /\ \A v \in Players : registrations'[v] # None =>
                   registrations[v] # None /\ registrations'[v].lease = registrations[v].lease
    BY <1>1 DEF LeaseInv
  <1>2. ASSUME NEW u \in Players,
               /\ granted' = granted + 1
               /\ registrations'[u].lease = granted + 1
               /\ \A v \in Players \ {u} : registrations'[v] = registrations[v]
        PROVE  LeaseInv'
    <2>1. \A v \in Players : registrations'[v] # None =>
             IF v = u THEN registrations'[v].lease = granted + 1
             ELSE /\ registrations'[v].lease = registrations[v].lease
                  /\ registrations'[v].lease \in Nat /\ registrations'[v].lease <= granted
      BY <1>t, <1>2 DEF LeaseInv
    <2>2. QED
      BY <1>t, <1>2, <2>1, SMTT(60) DEF LeaseInv
  <1>3. QED
    BY <1>1, <1>2, LeasesOfAStep

\* Held and OneClaimPerLease of PlayerLease, in terms of the table.
LEMMA MappedLeases ==
    ASSUME IInv
    PROVE  /\ \A l : Lease!Held(l) <=> InUse(l)
           /\ LeaseInv => Lease!OneClaimPerLease
  <1>1. \A u \in Players : /\ Claimed[u] # None <=> registrations[u] # None
                           /\ registrations[u] # None =>
                                 Claimed[u].lease = registrations[u].lease
    BY MappedClaims DEF Claimed, ClaimOf
  <1>2. ASSUME NEW l PROVE Lease!Held(l) <=> InUse(l)
    <2>1. Lease!Held(l) <=> \E u \in Players : Claimed[u] # None /\ Claimed[u].lease = l
      BY DEF Lease!Held, Claimed, ClaimOf
    <2>2. QED
      BY <1>1, <2>1 DEF InUse
  <1>3. ASSUME LeaseInv PROVE Lease!OneClaimPerLease
    <2>1. \A l \in Leases : Lease!Held(l) => l \in 1..granted
      <3>1. granted \in Nat
        BY RegistryAssumption, SMTT(60) DEF IInv
      <3>2. QED
        BY <1>2, <1>3, <3>1, RegistryAssumption, SMTT(60) DEF InUse, LeaseInv, Leases
    <2>2. \A u, v \in Players :
             (Claimed[u] # None /\ Claimed[v] # None /\ Claimed[u].lease = Claimed[v].lease)
                => u = v
      BY <1>1, <1>3 DEF LeaseInv
    <2>3. QED
      BY <2>1, <2>2 DEF Lease!OneClaimPerLease, Claimed, ClaimOf
  <1>4. QED
    BY <1>2, <1>3

\* The table and its leases are well-formed in every reachable state.
LEMMA LeaseInvariance == RegistrySpec => [](IInv /\ LeaseInv)
  <1>1. RegistryInit => IInv /\ LeaseInv
    BY InitIInv DEF RegistryInit, LeaseInv
  <1>2. QED
    BY <1>1, IInvStep, LeaseInvStep, PTL DEF RegistrySpec

\* A lease is held for one player only, and only if it was issued.
THEOREM OneClaim == RegistrySpec => []Lease!OneClaimPerLease
  BY LeaseInvariance, MappedLeases, PTL

\* A lease that was replaced, released, dropped or shut down is never held again,
\* whatever requests that name it still arrive (the lease check of refresh and
\* DELETE in internal/voicechat/runtime.go).
THEOREM LostStaysLost == RegistrySpec => Lease!LostLeaseStaysLost
  <1>1. ASSUME IInv, LeaseInv, [RegistryNext]_registryVars
        PROVE  \A l \in 1..granted : ~InUse(l) => ~InUse(l)'
    <2>1. granted \in Nat
      BY <1>1, RegistryAssumption, SMTT(60) DEF IInv
    <2>2. CASE \A v \in Players : registrations'[v] # None =>
                  registrations[v] # None /\ registrations'[v].lease = registrations[v].lease
      BY <2>2 DEF InUse
    <2>3. ASSUME NEW u \in Players,
                 /\ registrations'[u].lease = granted + 1
                 /\ \A v \in Players \ {u} : registrations'[v] = registrations[v]
          PROVE  \A l \in 1..granted : ~InUse(l) => ~InUse(l)'
      BY <2>1, <2>3, SMTT(60) DEF InUse
    <2>4. QED
      BY <1>1, <2>2, <2>3, LeasesOfAStep
  <1>2. IInv /\ LeaseInv /\ [RegistryNext]_registryVars =>
           \A l \in 1..granted : ~InUse(l) => ~InUse(l)'
    BY <1>1
  <1>3. IInv => \A l : Lease!Held(l) <=> InUse(l)
    BY MappedLeases
  <1>4. IInv' => (\A l : Lease!Held(l) <=> InUse(l))'
    BY <1>3, PTL
  <1>5. IInv /\ LeaseInv /\ IInv' /\ [RegistryNext]_registryVars =>
           [\A l \in 1..granted : ~Lease!Held(l) => ~Lease!Held(l)']_(Lease!vars)
    BY <1>2, <1>3, <1>4
  <1>6. QED
    BY <1>5, LeaseInvariance, PTL DEF RegistrySpec, Lease!LostLeaseStaysLost

-----------------------------------------------------------------------------
\* The handlers publish the size of the table after the unlock: those steps leave
\* the table alone, and the others are critical sections.
LEMMA GaugeStepIsRegistryStep ==
    ASSUME [GaugeNext]_gaugeVars
    PROVE  [RegistryNext]_registryVars
  <1>1. ASSUME NEW h \in Handlers, NEW u \in Players, NEW b \in Backends, NEW o \in Owners,
               PutRegistration(h, u, b, o)
        PROVE  RegistryNext
    BY <1>1 DEF PutRegistration, RegistryNext
  <1>2. ASSUME NEW h \in Handlers, NEW u \in Players, NEW b \in Backends, NEW o \in Owners,
               NEW l \in Leases, DeleteRegistration(h, u, b, o, l)
        PROVE  RegistryNext
    BY <1>2 DEF DeleteRegistration, RegistryNext
  <1>3. CASE ExpireRegistrations \/ Close
    BY <1>3 DEF ExpireRegistrations, Close, RegistryNext
  <1>4. ASSUME NEW t \in Threads, RegistrationsSet(t) PROVE UNCHANGED registryVars
    BY <1>4 DEF RegistrationsSet
  <1>5. ASSUME NEW u \in Players, LookupPublishes(u) \/ RegistrationTTLElapses(u)
        PROVE  RegistryNext
    BY <1>5 DEF LookupPublishes, RegistryNext
  <1>6. ASSUME NEW u \in Players, NEW b \in Backends, NEW o \in Owners, NEW l \in Leases,
               Refresh(u, b, o, l)
        PROVE  RegistryNext
    BY <1>6 DEF RegistryNext
  <1>7. CASE UNCHANGED gaugeVars
    BY <1>7 DEF gaugeVars, registryVars
  <1>8. QED
    BY <1>1, <1>2, <1>3, <1>4, <1>5, <1>6, <1>7 DEF GaugeNext

\* So does the table with its gauge, which the handlers publish after the unlock:
\* the steps that publish leave the table alone.
THEOREM GaugeImplementsLease == GaugeSpec => ImplementsPlayerLease
  <1>1. GaugeInit => RegistryInit
    BY DEF GaugeInit
  <1>2. [GaugeNext]_gaugeVars => [RegistryNext]_registryVars
    BY GaugeStepIsRegistryStep
  <1>3. GaugeSpec => RegistrySpec
    BY <1>1, <1>2, PTL DEF GaugeSpec, RegistrySpec
  <1>4. QED
    BY <1>3, RegistryImplementsLease

-----------------------------------------------------------------------------
(* The limit and the gauge.                                                *)

\* The table is finite, whatever the number of players, and within its limit.
LimitInv ==
    /\ IsFiniteSet(Registered)
    /\ Cardinality(Registered) <= MaxRegistrations

PublishTypes ==
    /\ gauge \in 0..MaxRegistrations
    /\ pending \in [Threads -> 0..MaxRegistrations \cup {None}]
    /\ overlapped \in BOOLEAN

\* Without overlaps at most one goroutine is about to publish, and what it holds is
\* the present size of the table; if there is none, the gauge shows that size.
SerialInv ==
    ~overlapped =>
        /\ \A t, v \in Threads : pending[t] # None /\ pending[v] # None => t = v
        /\ \A t \in Threads : pending[t] # None => pending[t] = Cardinality(Registered)
        /\ ~AnyPending => gauge = Cardinality(Registered)

GaugeIInv == IInv /\ LimitInv /\ PublishTypes /\ SerialInv

\* A size that is within the limit is a count, and no count is None.
LEMMA SizeIsACount ==
    ASSUME LimitInv
    PROVE  Cardinality(Registered) \in 0..MaxRegistrations /\ Cardinality(Registered) # None
  BY FS_CardinalityType, RegistryAssumption, GaugeAssumption, SMTT(60) DEF LimitInv

\* Refreshing a registration and the passage of its time leave it in the table.
LEMMA ExpiryFlagKeepsRegistered ==
    ASSUME IInv, NEW u \in Players, NEW b \in BOOLEAN,
           registrations[u] # None,
           registrations' = [registrations EXCEPT ![u].expired = b]
    PROVE  Registered' = Registered
  <1>1. registrations[u] \in Registration
    BY DEF IInv
  <1>2. [registrations[u] EXCEPT !.expired = b] # None
    BY <1>1, RegistryAssumption DEF Registration
  <1>3. QED
    BY <1>2 DEF IInv, Registered

\* Every critical section respects the limit: only a PUT for a new player adds to
\* the table, and it looks at the limit under the same lock.
LEMMA LimitStep ==
    ASSUME IInv, LimitInv, [RegistryNext]_registryVars
    PROVE  LimitInv'
  <1>0. MaxRegistrations \in Nat /\ Cardinality(Registered) \in Nat
    BY SizeIsACount, RegistryAssumption, SMTT(60)
  <1>1. ASSUME Registered' \subseteq Registered PROVE LimitInv'
    <2>1. IsFiniteSet(Registered') /\ Cardinality(Registered') <= Cardinality(Registered)
      BY <1>1, FS_Subset, SMTT(60) DEF LimitInv
    <2>2. Cardinality(Registered') \in Nat
      BY <2>1, FS_CardinalityType, SMTT(60)
    <2>3. QED
      BY <1>0, <2>1, <2>2, SMTT(60) DEF LimitInv
  <1>2. ASSUME NEW u \in Players, NEW b \in Backends, NEW o \in Owners, Put(u, b, o)
        PROVE  LimitInv'
    <2>1. PICK r \in Registration : registrations' = [registrations EXCEPT ![u] = r]
      BY <1>2, PutRecord, SMTT(60)
    <2>2. Registered' = Registered \cup {u}
      BY <2>1, RegistryAssumption DEF IInv, Registered
    <2>3. u \in Registered \/ Cardinality(Registered) < MaxRegistrations
      BY <1>0, <1>2, SMTT(60) DEF Put, AtRegistrationLimit, Registered
    <2>4. /\ IsFiniteSet(Registered')
          /\ Cardinality(Registered') = IF u \in Registered THEN Cardinality(Registered)
                                        ELSE Cardinality(Registered) + 1
      BY <2>2, FS_AddElement, SMTT(60) DEF LimitInv
    <2>5. Cardinality(Registered') <= MaxRegistrations
      BY <1>0, <2>3, <2>4, SMTT(60) DEF LimitInv
    <2>6. QED
      BY <2>4, <2>5 DEF LimitInv
  <1>3. ASSUME NEW u \in Players, RegistrationTTLElapses(u) PROVE LimitInv'
    BY <1>1, <1>3, ExpiryFlagKeepsRegistered DEF RegistrationTTLElapses
  <1>4. ASSUME NEW u \in Players, NEW b \in Backends, NEW o \in Owners, NEW l \in Leases,
               Refresh(u, b, o, l)
        PROVE  LimitInv'
    BY <1>1, <1>4, ExpiryFlagKeepsRegistered DEF Refresh, HoldsLease
  <1>5. ASSUME NEW u \in Players, registrations' = [registrations EXCEPT ![u] = None]
        PROVE  LimitInv'
    BY <1>1, <1>5 DEF IInv, Registered
  <1>6. CASE ExpireAll \/ CloseRegistry \/ UNCHANGED registryVars
    BY <1>1, <1>6 DEF ExpireAll, CloseRegistry, registryVars, Registered
  <1>7. QED
    BY <1>2, <1>3, <1>4, <1>5, <1>6 DEF RegistryNext, LookupExpired, Delete

\* An update of the table that leaves its new size to be published.
LEMMA BeginKeepsSerial ==
    ASSUME GaugeIInv, LimitInv', NEW t \in Threads, Begin(t)
    PROVE  PublishTypes' /\ SerialInv'
  <1> DEFINE n == Cardinality(Registered')
  <1>1. n \in 0..MaxRegistrations /\ n # None
    BY FS_CardinalityType, RegistryAssumption, GaugeAssumption, SMTT(60) DEF LimitInv
  <1>2. pending' = [pending EXCEPT ![t] = n] /\ gauge' = gauge
    BY DEF Begin, Registered
  <1>3. pending \in [Threads -> 0..MaxRegistrations \cup {None}]
    BY DEF GaugeIInv, PublishTypes
  <1> HIDE DEF n
  <1>4. overlapped' \in BOOLEAN /\ (~overlapped' => ~overlapped /\ ~AnyPending)
    BY DEF Begin, GaugeIInv, PublishTypes
  <1>5. PublishTypes'
    BY <1>1, <1>2, <1>3, <1>4 DEF GaugeIInv, PublishTypes
  <1>6. ASSUME ~overlapped'
        PROVE  /\ \A v \in Threads : pending'[v] # None => v = t
               /\ pending'[t] = n
    BY <1>2, <1>3, <1>4, <1>6 DEF AnyPending
  <1>7. AnyPending'
    BY <1>1, <1>2, <1>3 DEF AnyPending
  <1>8. SerialInv'
    BY <1>6, <1>7 DEF SerialInv, n
  <1>9. QED
    BY <1>5, <1>8

\* Publishing a pending size.
LEMMA PublishKeepsSerial ==
    ASSUME GaugeIInv, NEW t \in Threads, RegistrationsSet(t)
    PROVE  PublishTypes' /\ SerialInv'
  <1>1. /\ pending[t] # None /\ gauge' = pending[t] /\ overlapped' = overlapped
        /\ pending' = [pending EXCEPT ![t] = None] /\ Registered' = Registered
    BY DEF RegistrationsSet, registryVars, Registered
  <1>2. pending \in [Threads -> 0..MaxRegistrations \cup {None}] /\ overlapped \in BOOLEAN
    BY DEF GaugeIInv, PublishTypes
  <1>3. PublishTypes'
    BY <1>1, <1>2 DEF PublishTypes
  <1>4. ASSUME ~overlapped
        PROVE  /\ \A v \in Threads : pending'[v] = None
               /\ gauge' = Cardinality(Registered)
    BY <1>1, <1>2, <1>4 DEF GaugeIInv, SerialInv
  <1>5. SerialInv'
    BY <1>1, <1>4 DEF SerialInv, AnyPending
  <1>6. QED
    BY <1>3, <1>5

\* A lookup that deletes an expired registration publishes under the lock.
LEMMA LookupKeepsSerial ==
    ASSUME GaugeIInv, LimitInv', NEW u \in Players, LookupPublishes(u)
    PROVE  PublishTypes' /\ SerialInv'
  <1>1. Registered' = Registered \ {u}
    BY DEF LookupPublishes, LookupExpired, GaugeIInv, IInv, Registered
  <1>2. /\ gauge' = Cardinality(Registered') /\ pending' = pending
        /\ overlapped' = (overlapped \/ AnyPending)
    BY <1>1 DEF LookupPublishes
  <1>3. overlapped' \in BOOLEAN /\ (~overlapped' => ~AnyPending)
    BY <1>2 DEF GaugeIInv, PublishTypes
  <1>4. Cardinality(Registered') \in 0..MaxRegistrations
    BY FS_CardinalityType, RegistryAssumption, SMTT(60) DEF LimitInv
  <1>5. PublishTypes'
    BY <1>2, <1>3, <1>4 DEF GaugeIInv, PublishTypes
  <1>6. SerialInv'
    BY <1>2, <1>3 DEF SerialInv, AnyPending
  <1>7. QED
    BY <1>5, <1>6

\* A step that changes neither the size of the table nor what is published.
LEMMA SameSizeKeepsSerial ==
    ASSUME GaugeIInv, Registered' = Registered, UNCHANGED <<gauge, pending, overlapped>>
    PROVE  PublishTypes' /\ SerialInv'
  BY DEF GaugeIInv, PublishTypes, SerialInv, AnyPending

\* The invariant holds in every reachable state.
THEOREM GaugeInvariance == GaugeSpec => []GaugeIInv
  <1>1. GaugeInit => GaugeIInv
    <2> SUFFICES ASSUME GaugeInit PROVE GaugeIInv
      OBVIOUS
    <2>1. IInv
      BY InitIInv DEF GaugeInit
    <2>2. Registered = {}
      BY DEF GaugeInit, RegistryInit, Registered
    <2>3. Cardinality(Registered) = 0 /\ IsFiniteSet(Registered)
      BY <2>2, FS_EmptySet, SMTT(60)
    <2>4. LimitInv
      BY <2>3, RegistryAssumption, SMTT(60) DEF LimitInv
    <2>5. PublishTypes
      <3>1. gauge \in 0..MaxRegistrations
        BY RegistryAssumption, SMTT(60) DEF GaugeInit
      <3>2. overlapped \in BOOLEAN
        BY DEF GaugeInit
      <3>3. pending \in [Threads -> 0..MaxRegistrations \cup {None}]
        BY DEF GaugeInit
      <3>4. QED
        BY <3>1, <3>2, <3>3 DEF PublishTypes
    <2>6. SerialInv
      BY <2>3 DEF GaugeInit, SerialInv
    <2>7. QED
      BY <2>1, <2>4, <2>5, <2>6 DEF GaugeIInv
  <1>2. GaugeIInv /\ [GaugeNext]_gaugeVars => GaugeIInv'
    <2> SUFFICES ASSUME GaugeIInv, [GaugeNext]_gaugeVars PROVE GaugeIInv'
      OBVIOUS
    <2>1. IInv' /\ LimitInv'
      BY GaugeStepIsRegistryStep, IInvStep, LimitStep DEF GaugeIInv
    <2>2. SUFFICES PublishTypes' /\ SerialInv'
      BY <2>1 DEF GaugeIInv
    <2>3. {Expirer, Main} \subseteq Threads /\ Handlers \subseteq Threads
      BY DEF Threads
    <2>4. ASSUME NEW t \in Threads, Begin(t) PROVE PublishTypes' /\ SerialInv'
      BY <2>1, <2>4, BeginKeepsSerial
    <2>5. CASE ExpireRegistrations \/ Close
      BY <2>3, <2>4, <2>5 DEF ExpireRegistrations, Close
    <2>6. CASE \/ \E h \in Handlers, u \in Players, b \in Backends, o \in Owners :
                     PutRegistration(h, u, b, o)
               \/ \E h \in Handlers, u \in Players, b \in Backends, o \in Owners,
                     l \in Leases : DeleteRegistration(h, u, b, o, l)
      BY <2>3, <2>4, <2>6 DEF PutRegistration, DeleteRegistration
    <2>7. CASE \E u \in Players : LookupPublishes(u)
      BY <2>1, <2>7, LookupKeepsSerial
    <2>8. CASE \E t \in Threads : RegistrationsSet(t)
      BY <2>8, PublishKeepsSerial
    <2>9. ASSUME NEW u \in Players, UNCHANGED <<gauge, pending, overlapped>>,
                 \/ RegistrationTTLElapses(u)
                 \/ \E b \in Backends, o \in Owners, l \in Leases : Refresh(u, b, o, l)
          PROVE  PublishTypes' /\ SerialInv'
      <3>1. Registered' = Registered
        BY <2>9, ExpiryFlagKeepsRegistered
           DEF GaugeIInv, RegistrationTTLElapses, Refresh, HoldsLease
      <3>2. QED
        BY <2>9, <3>1, SameSizeKeepsSerial
    <2>10. CASE UNCHANGED gaugeVars
      <3>1. Registered' = Registered /\ UNCHANGED <<gauge, pending, overlapped>>
        BY <2>10 DEF gaugeVars, Registered
      <3>2. QED
        BY <3>1, SameSizeKeepsSerial
    <2>11. QED
      BY <2>5, <2>6, <2>7, <2>8, <2>9, <2>10 DEF GaugeNext
  <1>3. QED
    BY <1>1, <1>2, PTL DEF GaugeSpec

\* Every variable keeps its type, for any number of players and handlers: in
\* particular the generation of a registration is a number of grants, and neither
\* the gauge nor a count about to be published is ever above MaxRegistrations.
THEOREM TypeCorrect == GaugeSpec => []GaugeTypeOK
  <1>1. GaugeIInv => GaugeTypeOK
    BY DEF GaugeIInv, IInv, PublishTypes, GaugeTypeOK, RegistryTypeOK
  <1>2. QED
    BY <1>1, GaugeInvariance, PTL

\* As long as no two updates of the table overlapped, the gauge shows the number of
\* registrations whenever nothing is about to be published (the counts taken under
\* Runtime.mu and published after the unlock).
THEOREM SerialUpdatesExact == GaugeSpec => []SerialUpdatesAreExact
  <1>1. GaugeIInv => SerialUpdatesAreExact
    BY DEF GaugeIInv, SerialInv, SerialUpdatesAreExact, RegistrationGaugeIsExact
  <1>2. QED
    BY <1>1, GaugeInvariance, PTL

-----------------------------------------------------------------------------
(* The companions.                                                         *)

Event == {"host", "gone"} \X Players

\* A voice host event for u waits in the list s.
HostWaits(s, u) == \E i \in DOMAIN s : s[i] = <<"host", u>>

\* The last word of the list s on u is that it left.
LeftLast(s, u) ==
    \E i \in DOMAIN s : /\ s[i] = <<"gone", u>>
                        /\ \A j \in DOMAIN s : j > i => s[j] # <<"host", u>>

\* The two kinds of events differ, and each names its player.
LEMMA EventsDiffer ==
    \A u, v : /\ <<"host", u>> # <<"gone", v>>
              /\ <<"host", u>> = <<"host", v>> => u = v
              /\ <<"gone", u>> = <<"gone", v>> => u = v
  BY SMTT(60)

\* The list of events as one is added or taken away.
LEMMA EventAdded ==
    ASSUME NEW s \in Seq(Event)
    PROVE  /\ \A e \in Event : Append(s, e) \in Seq(Event)
           /\ s # <<>> => Tail(s) \in Seq(Event)
  BY SMTT(60)

\* Firing an event.
LEMMA EventFired ==
    ASSUME NEW s \in Seq(Event), NEW e \in Event, NEW u \in Players
    PROVE  /\ HostWaits(Append(s, e), u) <=> HostWaits(s, u) \/ e = <<"host", u>>
           /\ LeftLast(Append(s, e), u) <=>
                 e = <<"gone", u>> \/ (LeftLast(s, u) /\ e # <<"host", u>>)
  <1> DEFINE t == Append(s, e)
             n == Len(s)
  <1>1. n \in Nat /\ DOMAIN s = 1..n /\ t \in Seq(Event)
    BY SMTT(60)
  <1>2. DOMAIN t = 1..(n + 1) /\ t[n + 1] = e /\ \A i \in 1..n : t[i] = s[i]
    BY SMTT(60)
  <1> HIDE DEF t, n
  <1>3. n + 1 \in DOMAIN t /\ DOMAIN s \subseteq DOMAIN t
    BY <1>1, <1>2, SMTT(60)
  <1>4. \A i \in DOMAIN t : i = n + 1 \/ (i \in DOMAIN s /\ n + 1 > i)
    BY <1>1, <1>2, SMTT(60)
  <1>5. HostWaits(t, u) <=> HostWaits(s, u) \/ e = <<"host", u>>
    BY <1>1, <1>2, <1>3, <1>4 DEF HostWaits
  <1>6. ASSUME e = <<"gone", u>> PROVE LeftLast(t, u)
    <2>1. \A j \in DOMAIN t : ~(j > n + 1)
      BY <1>1, <1>2, SMTT(60)
    <2>2. QED
      BY <1>2, <1>3, <1>6, <2>1 DEF LeftLast
  <1>7. ASSUME LeftLast(s, u), e # <<"host", u>> PROVE LeftLast(t, u)
    <2>1. PICK i \in DOMAIN s : /\ s[i] = <<"gone", u>>
                                /\ \A j \in DOMAIN s : j > i => s[j] # <<"host", u>>
      BY <1>7 DEF LeftLast
    <2>2. \A j \in DOMAIN t : j > i => t[j] # <<"host", u>>
      BY <1>1, <1>2, <1>4, <1>7, <2>1
    <2>3. QED
      BY <1>1, <1>2, <1>3, <2>1, <2>2 DEF LeftLast
  <1>8. ASSUME LeftLast(t, u), e # <<"gone", u>>
        PROVE  LeftLast(s, u) /\ e # <<"host", u>>
    <2>1. PICK i \in DOMAIN t : /\ t[i] = <<"gone", u>>
                                /\ \A j \in DOMAIN t : j > i => t[j] # <<"host", u>>
      BY <1>8 DEF LeftLast
    <2>2. i \in DOMAIN s /\ n + 1 > i
      BY <1>2, <1>4, <1>8, <2>1
    <2>3. s[i] = <<"gone", u>> /\ \A j \in DOMAIN s : j > i => s[j] # <<"host", u>>
      BY <1>1, <1>2, <1>3, <2>1, <2>2
    <2>4. QED
      BY <1>2, <1>3, <2>1, <2>2, <2>3 DEF LeftLast
  <1>9. QED
    BY <1>5, <1>6, <1>7, <1>8, EventsDiffer DEF t

\* Handling the first event.
LEMMA EventHandled ==
    ASSUME NEW s \in Seq(Event), s # <<>>, NEW u \in Players
    PROVE  /\ HostWaits(s, u) <=> Head(s) = <<"host", u>> \/ HostWaits(Tail(s), u)
           /\ LeftLast(s, u) <=>
                 \/ LeftLast(Tail(s), u)
                 \/ Head(s) = <<"gone", u>> /\ ~HostWaits(Tail(s), u)
  <1> DEFINE t == Tail(s)
             n == Len(s)
  <1>1. n \in Nat \ {0} /\ DOMAIN s = 1..n /\ t \in Seq(Event)
    BY SMTT(60)
  <1>2. DOMAIN t = 1..(n - 1) /\ Head(s) = s[1] /\ \A i \in 1..(n - 1) : t[i] = s[i + 1]
    BY SMTT(60)
  <1> HIDE DEF t, n
  <1>3. 1 \in DOMAIN s /\ \A i \in DOMAIN t : i + 1 \in DOMAIN s /\ i + 1 > 1
    BY <1>1, <1>2, SMTT(60)
  <1>4. \A i \in DOMAIN s : i = 1 \/ \E k \in DOMAIN t : i = k + 1
    <2>1. \A i \in DOMAIN s : i = 1 \/ (i - 1 \in DOMAIN t /\ i = (i - 1) + 1)
      BY <1>1, <1>2, SMTT(60)
    <2>2. QED
      BY <2>1
  <1>5. /\ \A i, j \in DOMAIN t : j > i <=> j + 1 > i + 1
        /\ \A i \in DOMAIN s : ~(1 > i)
    BY <1>1, <1>2, SMTT(60)
  <1>6. \A i \in DOMAIN t : t[i] = s[i + 1]
    BY <1>2
  <1>7. HostWaits(s, u) <=> Head(s) = <<"host", u>> \/ HostWaits(t, u)
    <2>1. ASSUME HostWaits(s, u), Head(s) # <<"host", u>> PROVE HostWaits(t, u)
      <3>1. PICK i \in DOMAIN s : s[i] = <<"host", u>>
        BY <2>1 DEF HostWaits
      <3>2. PICK k \in DOMAIN t : i = k + 1
        BY <1>2, <1>4, <2>1, <3>1
      <3>3. QED
        BY <1>6, <3>1, <3>2 DEF HostWaits
    <2>2. ASSUME HostWaits(t, u) PROVE HostWaits(s, u)
      <3>1. PICK k \in DOMAIN t : t[k] = <<"host", u>>
        BY <2>2 DEF HostWaits
      <3>2. QED
        BY <1>3, <1>6, <3>1 DEF HostWaits
    <2>3. Head(s) = <<"host", u>> => HostWaits(s, u)
      BY <1>2, <1>3 DEF HostWaits
    <2>4. QED
      BY <2>1, <2>2, <2>3
  <1>8. ASSUME LeftLast(t, u) PROVE LeftLast(s, u)
    <2>1. PICK i \in DOMAIN t : /\ t[i] = <<"gone", u>>
                                /\ \A j \in DOMAIN t : j > i => t[j] # <<"host", u>>
      BY <1>8 DEF LeftLast
    <2>2. ASSUME NEW j \in DOMAIN s, j > i + 1 PROVE s[j] # <<"host", u>>
      <3>1. j # 1
        BY <1>1, <1>2, <2>2, SMTT(60)
      <3>2. PICK k \in DOMAIN t : j = k + 1
        BY <1>4, <3>1
      <3>3. QED
        BY <1>5, <1>6, <2>1, <2>2, <3>2
    <2>3. QED
      BY <1>3, <1>6, <2>1, <2>2 DEF LeftLast
  <1>9. ASSUME Head(s) = <<"gone", u>>, ~HostWaits(t, u) PROVE LeftLast(s, u)
    <2>1. ASSUME NEW j \in DOMAIN s, j > 1 PROVE s[j] # <<"host", u>>
      <3>1. CASE j = 1
        BY <1>2, <1>9, <3>1, EventsDiffer
      <3>2. CASE \E k \in DOMAIN t : j = k + 1
        BY <1>6, <1>9, <3>2 DEF HostWaits
      <3>3. QED
        BY <1>4, <3>1, <3>2
    <2>2. QED
      BY <1>2, <1>3, <1>9, <2>1 DEF LeftLast
  <1>10. ASSUME LeftLast(s, u), ~LeftLast(t, u)
         PROVE  Head(s) = <<"gone", u>> /\ ~HostWaits(t, u)
    <2>1. PICK i \in DOMAIN s : /\ s[i] = <<"gone", u>>
                                /\ \A j \in DOMAIN s : j > i => s[j] # <<"host", u>>
      BY <1>10 DEF LeftLast
    <2>2. i = 1
      <3>1. ASSUME NEW k \in DOMAIN t, i = k + 1 PROVE FALSE
        <4>1. \A j \in DOMAIN t : j > k => t[j] # <<"host", u>>
          BY <1>3, <1>5, <1>6, <2>1, <3>1
        <4>2. QED
          BY <1>6, <1>10, <2>1, <3>1, <4>1 DEF LeftLast
      <3>2. QED
        BY <1>4, <3>1
    <2>3. QED
      BY <1>2, <1>3, <1>6, <2>1, <2>2 DEF HostWaits
  <1>11. QED
    BY <1>7, <1>8, <1>9, <1>10 DEF t

\* No event waits in the empty list.
LEMMA NoEvents == <<>> \in Seq(Event) /\ \A u : ~HostWaits(<<>>, u) /\ ~LeftLast(<<>>, u)
  <1>1. DOMAIN <<>> = {} /\ <<>> \in Seq(Event)
    BY SMTT(60)
  <1>2. QED
    BY <1>1 DEF HostWaits, LeftLast

\* A voice host event for u is fired.
LEMMA HostFired ==
    ASSUME TypeOK, NEW c \in Companions, NEW u \in Players, NEW v \in Players,
           events'[c] = Append(events[c], <<"host", u>>)
    PROVE  /\ HostWaits(events'[c], v) <=> HostWaits(events[c], v) \/ u = v
           /\ LeftLast(events'[c], v) <=> LeftLast(events[c], v) /\ u # v
  <1> DEFINE s == events[c]
             e == <<"host", u>>
  <1>1. s \in Seq(Event) /\ e \in Event
    BY DEF TypeOK, Event
  <1>2. /\ e = <<"host", v>> <=> u = v
        /\ e = <<"gone", v>> <=> FALSE
    BY EventsDiffer
  <1>3. events'[c] = Append(s, e)
    OBVIOUS
  <1> HIDE DEF s, e
  <1>4. /\ HostWaits(Append(s, e), v) <=> HostWaits(s, v) \/ e = <<"host", v>>
        /\ LeftLast(Append(s, e), v) <=>
              e = <<"gone", v>> \/ (LeftLast(s, v) /\ e # <<"host", v>>)
    BY <1>1, EventFired
  <1>5. QED
    BY <1>2, <1>3, <1>4 DEF s

\* The event that u left is fired.
LEMMA GoneFired ==
    ASSUME TypeOK, NEW c \in Companions, NEW u \in Players, NEW v \in Players,
           events'[c] = Append(events[c], <<"gone", u>>)
    PROVE  /\ HostWaits(events'[c], v) <=> HostWaits(events[c], v)
           /\ LeftLast(events'[c], v) <=> LeftLast(events[c], v) \/ u = v
  <1> DEFINE s == events[c]
             e == <<"gone", u>>
  <1>1. s \in Seq(Event) /\ e \in Event
    BY DEF TypeOK, Event
  <1>2. /\ e = <<"host", v>> <=> FALSE
        /\ e = <<"gone", v>> <=> u = v
    BY EventsDiffer
  <1>3. events'[c] = Append(s, e)
    OBVIOUS
  <1> HIDE DEF s, e
  <1>4. /\ HostWaits(Append(s, e), v) <=> HostWaits(s, v) \/ e = <<"host", v>>
        /\ LeftLast(Append(s, e), v) <=>
              e = <<"gone", v>> \/ (LeftLast(s, v) /\ e # <<"host", v>>)
    BY <1>1, EventFired
  <1>5. QED
    BY <1>2, <1>3, <1>4 DEF s

\* A voice host event for u is handled.
LEMMA HostHandled ==
    ASSUME TypeOK, NEW c \in Companions, NEW u \in Players, NEW v \in Players,
           events[c] # <<>>, Head(events[c]) = <<"host", u>>, events'[c] = Tail(events[c])
    PROVE  /\ HostWaits(events[c], v) <=> HostWaits(events'[c], v) \/ u = v
           /\ LeftLast(events[c], v) <=> LeftLast(events'[c], v)
  <1> DEFINE s == events[c]
             e == <<"host", u>>
  <1>1. s \in Seq(Event) /\ e \in Event
    BY DEF TypeOK, Event
  <1>2. /\ e = <<"host", v>> <=> u = v
        /\ e = <<"gone", v>> <=> FALSE
    BY EventsDiffer
  <1>3. events'[c] = Tail(s) /\ s # <<>> /\ Head(s) = e
    OBVIOUS
  <1> HIDE DEF s, e
  <1>4. /\ HostWaits(s, v) <=> Head(s) = <<"host", v>> \/ HostWaits(Tail(s), v)
        /\ LeftLast(s, v) <=> \/ LeftLast(Tail(s), v)
                              \/ Head(s) = <<"gone", v>> /\ ~HostWaits(Tail(s), v)
    BY <1>1, <1>3, EventHandled
  <1>5. QED
    BY <1>2, <1>3, <1>4 DEF s

\* The event that u left is handled.
LEMMA GoneHandled ==
    ASSUME TypeOK, NEW c \in Companions, NEW u \in Players, NEW v \in Players,
           events[c] # <<>>, Head(events[c]) = <<"gone", u>>, events'[c] = Tail(events[c])
    PROVE  /\ HostWaits(events[c], v) <=> HostWaits(events'[c], v)
           /\ LeftLast(events[c], v) <=>
                 LeftLast(events'[c], v) \/ (u = v /\ ~HostWaits(events'[c], v))
  <1> DEFINE s == events[c]
             e == <<"gone", u>>
  <1>1. s \in Seq(Event) /\ e \in Event
    BY DEF TypeOK, Event
  <1>2. /\ e = <<"host", v>> <=> FALSE
        /\ e = <<"gone", v>> <=> u = v
    BY EventsDiffer
  <1>3. events'[c] = Tail(s) /\ s # <<>> /\ Head(s) = e
    OBVIOUS
  <1> HIDE DEF s, e
  <1>4. /\ HostWaits(s, v) <=> Head(s) = <<"host", v>> \/ HostWaits(Tail(s), v)
        /\ LeftLast(s, v) <=> \/ LeftLast(Tail(s), v)
                              \/ Head(s) = <<"gone", v>> /\ ~HostWaits(Tail(s), v)
    BY <1>1, <1>3, EventHandled
  <1>5. QED
    BY <1>2, <1>3, <1>4 DEF s

-----------------------------------------------------------------------------
Bounds == [moves: 0..MaxMoves, faults: 0..MaxFaults, hasty: BOOLEAN]

\* A move and a fault are counted.
LEMMA Counted ==
    ASSUME TypeOK
    PROVE  /\ bounds.moves < MaxMoves =>
                 /\ [bounds EXCEPT !.moves = @ + 1] \in Bounds
                 /\ \A h \in BOOLEAN : [bounds EXCEPT !.moves = @ + 1, !.hasty = h] \in Bounds
           /\ Fault => bounds' \in Bounds /\ bounds'.faults # 0
           /\ bounds.faults \in 0..MaxFaults /\ bounds.hasty \in BOOLEAN
  <1>1. bounds \in Bounds
    BY DEF TypeOK, Bounds
  <1>2. /\ bounds.moves \in 0..MaxMoves /\ bounds.faults \in 0..MaxFaults
        /\ bounds.hasty \in BOOLEAN
    BY <1>1 DEF Bounds
  <1>3. ASSUME bounds.moves < MaxMoves PROVE bounds.moves + 1 \in 0..MaxMoves
    BY <1>2, <1>3, CompanionAssumption, SMTT(60)
  <1>4. ASSUME bounds.faults < MaxFaults
        PROVE  bounds.faults + 1 \in 0..MaxFaults /\ bounds.faults + 1 # 0
    BY <1>2, <1>4, CompanionAssumption, SMTT(60)
  <1>5. ASSUME Fault PROVE bounds' \in Bounds /\ bounds'.faults # 0
    BY <1>1, <1>4, <1>5 DEF Bounds, Fault
  <1>6. ASSUME bounds.moves < MaxMoves
        PROVE  [bounds EXCEPT !.moves = @ + 1] \in Bounds
    BY <1>1, <1>3, <1>6 DEF Bounds
  <1>7. ASSUME bounds.moves < MaxMoves, NEW h \in BOOLEAN
        PROVE  [bounds EXCEPT !.moves = @ + 1, !.hasty = h] \in Bounds
    BY <1>1, <1>3, <1>7 DEF Bounds
  <1>8. QED
    BY <1>2, <1>5, <1>6, <1>7

\* What a companion sends.
LEMMA RequestMade ==
    ASSUME TypeOK, NEW op \in {"PUT", "refresh", "DELETE"}, NEW c \in Companions,
           NEW u \in Players, NEW l \in Leases \cup {None}
    PROVE  /\ Req(op, c, u, l) \in Request /\ Req(op, c, u, l) # None
           /\ Req(op, c, u, l).op = op /\ Req(op, c, u, l).from = c
           /\ Req(op, c, u, l).player = u /\ Req(op, c, u, l).lease = l
  <1>1. Req(op, c, u, l) \in Request
    BY Counted DEF Req, Request
  <1>2. QED
    BY <1>1, CompanionAssumption DEF Req

\* A request that is repeated.
LEMMA RequestRepeated ==
    ASSUME TypeOK, Fault, NEW m \in Request
    PROVE  /\ [m EXCEPT !.n = bounds.faults + 1] \in Request
           /\ [m EXCEPT !.n = bounds.faults + 1] # None
           /\ [m EXCEPT !.n = bounds.faults + 1].op = m.op
           /\ [m EXCEPT !.n = bounds.faults + 1].player = m.player
  <1>a. bounds.faults < MaxFaults /\ bounds.faults \in 0..MaxFaults
    BY Counted DEF Fault
  <1>1. bounds.faults + 1 \in 0..MaxFaults
    BY <1>a, CompanionAssumption, SMTT(60)
  <1>2. [m EXCEPT !.n = bounds.faults + 1] \in Request
    BY <1>1 DEF Request
  <1>3. QED
    BY <1>2, CompanionAssumption DEF Request

\* What a request that is served does to the table is a critical section of
\* Runtime.mu; the other steps leave the table alone, but for a restart.
LEMMA TableStep ==
    ASSUME IInv, TypeOK, [Next]_vars
    PROVE  [RegistryNext]_registryVars \/ RouterRestarts
  <1>1. ASSUME NEW m \in inFlight, Serve(m) PROVE [RegistryNext]_registryVars
    <2>1. m \in Request
      BY DEF TypeOK
    <2>2. m.from[1] \in Backends /\ m.from[2] \in Owners /\ m.player \in Players
      BY <2>1 DEF Request, Companions
    <2>3. CASE ServePut(m)
      BY <2>2, <2>3 DEF ServePut, RegistryNext
    <2>4. CASE ServeOther(m)
      <3>1. ASSUME HoldsLease(m.player, m.from[1], m.from[2], m.lease)
            PROVE  m.lease \in Leases
        BY <2>2, <3>1 DEF IInv, HoldsLease, Registration
      <3>2. CASE \/ Refresh(m.player, m.from[1], m.from[2], m.lease)
                 \/ Delete(m.player, m.from[1], m.from[2], m.lease)
        <4>1. m.lease \in Leases
          BY <3>1, <3>2 DEF Refresh, Delete
        <4>2. QED
          BY <2>2, <3>2, <4>1 DEF RegistryNext
      <3>3. QED
        BY <2>4, <3>2 DEF ServeOther
    <2>5. QED
      BY <1>1, <2>3, <2>4 DEF Serve
  <1>2. ASSUME NEW u \in Players, Lapse(u) PROVE RegistryNext
    BY <1>2 DEF Lapse, RegistryNext
  <1>3. CASE SweepExpired
    BY <1>3 DEF SweepExpired, RegistryNext
  <1>4. ASSUME NEW c \in Companions, CompanionStep(c) \/ BeginClose(c) \/ ServerCrashes(c)
        PROVE  UNCHANGED registryVars
    BY <1>4 DEF CompanionStep, RegisterBeforeUdp, Unregister, UnregisterReplaced, ShutdownNow,
                BeginClose, ServerCrashes
  <1>5. ASSUME NEW c \in Companions, NEW u \in Players, NoticeLeft(c, u) \/ Refreshes(c, u)
        PROVE  UNCHANGED registryVars
    BY <1>5 DEF NoticeLeft, Refreshes
  <1>6. ASSUME NEW c \in Companions \cup {None}, NEW u \in Players, Move(u, c) \/ AskAgain(u)
        PROVE  UNCHANGED registryVars
    BY <1>6 DEF Move, AskAgain
  <1>7. ASSUME NEW c \in Companions, NEW m \in {call[c], exec[c]} \ {None}, CallFails(c, m)
        PROVE  UNCHANGED registryVars
    BY <1>7 DEF CallFails
  <1>8. CASE UNCHANGED vars
    BY <1>8 DEF vars
  <1>9. QED
    BY <1>1, <1>2, <1>3, <1>4, <1>5, <1>6, <1>7, <1>8 DEF Next

\* The table stays well-formed, a restart included.
LEMMA TableInvStep ==
    ASSUME IInv, TypeOK, [Next]_vars
    PROVE  IInv'
  <1>1. CASE RouterRestarts
    BY <1>1 DEF RouterRestarts, IInv
  <1>2. QED
    BY <1>1, TableStep, IInvStep

\* Every step keeps the types of the variables.
LEMMA TypeStep ==
    ASSUME IInv, TypeOK, [Next]_vars
    PROVE  TypeOK'
  <1>r. RegistryTypeOK'
    BY TableInvStep DEF IInv, RegistryTypeOK
  <1>e. events \in [Companions -> Seq(Event)]
    BY DEF TypeOK, Event
  <1>n. /\ call \in [Companions -> Request \cup {None}]
        /\ exec \in [Companions -> Request \cup {None}]
        /\ tracked \in [Companions -> [Players -> Leases \cup {None}]]
        /\ queue \in [Companions -> SUBSET (Players \X Leases)]
        /\ up \in [Companions -> {"up", "closing", "down"}]
        /\ tries \in [Companions -> 0..MaxAttempts]
        /\ at \in [Players -> Companions \cup {None}]
        /\ left \subseteq Companions \X Players
        /\ inFlight \subseteq Request
        /\ bounds \in Bounds
    BY DEF TypeOK, Bounds
  <1>q. SUFFICES /\ at' \in [Players -> Companions \cup {None}]
                 /\ left' \subseteq Companions \X Players
                 /\ events' \in [Companions -> Seq(Event)]
                 /\ up' \in [Companions -> {"up", "closing", "down"}]
                 /\ tracked' \in [Companions -> [Players -> Leases \cup {None}]]
                 /\ call' \in [Companions -> Request \cup {None}]
                 /\ exec' \in [Companions -> Request \cup {None}]
                 /\ tries' \in [Companions -> 0..MaxAttempts]
                 /\ queue' \in [Companions -> SUBSET (Players \X Leases)]
                 /\ inFlight' \subseteq Request
                 /\ bounds' \in Bounds
    BY <1>r DEF TypeOK, Event, Bounds
  <1> DEFINE Typed == /\ at' \in [Players -> Companions \cup {None}]
                      /\ left' \subseteq Companions \X Players
                      /\ events' \in [Companions -> Seq(Event)]
                      /\ up' \in [Companions -> {"up", "closing", "down"}]
                      /\ tracked' \in [Companions -> [Players -> Leases \cup {None}]]
                      /\ call' \in [Companions -> Request \cup {None}]
                      /\ exec' \in [Companions -> Request \cup {None}]
                      /\ tries' \in [Companions -> 0..MaxAttempts]
                      /\ queue' \in [Companions -> SUBSET (Players \X Leases)]
                      /\ inFlight' \subseteq Request
                      /\ bounds' \in Bounds
  <1>f. ASSUME NEW c \in Companions, NEW e \in Event
        PROVE  [events EXCEPT ![c] = Append(@, e)] \in [Companions -> Seq(Event)]
    <2>1. events[c] \in Seq(Event)
      BY <1>e
    <2>2. Append(events[c], e) \in Seq(Event)
      BY <2>1, EventAdded
    <2>3. QED
      BY <1>e, <2>2
  <1>h. ASSUME NEW c \in Companions, events[c] # <<>>
        PROVE  [events EXCEPT ![c] = Tail(@)] \in [Companions -> Seq(Event)]
    <2>1. events[c] \in Seq(Event)
      BY <1>e
    <2>2. Tail(events[c]) \in Seq(Event)
      BY <1>h, <2>1, EventAdded
    <2>3. QED
      BY <1>e, <2>2
  <1>x. \A u \in Players : <<"host", u>> \in Event /\ <<"gone", u>> \in Event
    BY DEF Event
  <1>t. \A c \in Companions, u \in Players : tracked[c][u] \in Leases \cup {None}
    BY <1>n
  <1>1. ASSUME NEW u \in Players, NEW c \in Companions \cup {None}, Move(u, c) PROVE Typed
    <2>1. at' \in [Players -> Companions \cup {None}]
      BY <1>n, <1>1 DEF Move
    <2>5. left' \subseteq Companions \X Players
      <3>1. at[u] # None => <<at[u], u>> \in Companions \X Players
        BY <1>n
      <3>2. QED
        BY <1>n, <1>1, <3>1 DEF Move
    <2>2. events' \in [Companions -> Seq(Event)]
      BY <1>e, <1>f, <1>x, <1>1 DEF Move
    <2>3. bounds' \in Bounds
      BY <1>1, Counted DEF Move
    <2>4. QED
      BY <1>n, <1>1, <2>1, <2>2, <2>3, <2>5 DEF Move
  <1>2. ASSUME NEW u \in Players, AskAgain(u) PROVE Typed
    <2>1. events' \in [Companions -> Seq(Event)]
      BY <1>n, <1>f, <1>x, <1>2 DEF AskAgain
    <2>2. bounds' \in Bounds
      BY <1>2, Counted DEF AskAgain
    <2>3. QED
      BY <1>n, <1>2, <2>1, <2>2 DEF AskAgain
  <1>3. ASSUME NEW c \in Companions, NEW u \in Players, NoticeLeft(c, u) PROVE Typed
    <2>1. events' \in [Companions -> Seq(Event)]
      BY <1>e, <1>f, <1>x, <1>3 DEF NoticeLeft
    <2>2. QED
      BY <1>n, <1>3, <2>1 DEF NoticeLeft
  <1>4. ASSUME NEW c \in Companions, NEW u \in Players, RegisterBeforeUdp(c, u) PROVE Typed
    <2>1. events' \in [Companions -> Seq(Event)]
      BY <1>h, <1>4 DEF RegisterBeforeUdp
    <2>2. Req("PUT", c, u, None) \in Request
      BY RequestMade
    <2>3. 1 \in 0..MaxAttempts
      BY CompanionAssumption, SMTT(60)
    <2>4. call' \in [Companions -> Request \cup {None}] /\ inFlight' \subseteq Request
      <3>1. /\ call' = call \/ call' = [call EXCEPT ![c] = Req("PUT", c, u, None)]
            /\ inFlight' = inFlight \/ inFlight' = inFlight \cup {Req("PUT", c, u, None)}
        BY <1>4 DEF RegisterBeforeUdp, Send
      <3>2. QED
        BY <1>n, <2>2, <3>1
    <2>5. tries' \in [Companions -> 0..MaxAttempts]
      BY <1>n, <1>4, <2>3 DEF RegisterBeforeUdp
    <2>6. QED
      BY <1>n, <1>4, <2>1, <2>4, <2>5 DEF RegisterBeforeUdp, playerVars
  <1>5. ASSUME NEW c \in Companions, NEW u \in Players, Unregister(c, u) PROVE Typed
    <2>1. events' \in [Companions -> Seq(Event)]
      BY <1>e, <1>h, <1>5 DEF Unregister
    <2>2. Req("DELETE", c, u, tracked[c][u]) \in Request
      BY <1>t, RequestMade
    <2>3. call' \in [Companions -> Request \cup {None}] /\ inFlight' \subseteq Request
      BY <1>n, <1>5, <2>2 DEF Unregister, Send
    <2>4. tracked' \in [Companions -> [Players -> Leases \cup {None}]]
      BY <1>n, <1>5 DEF Unregister, Untrack
    <2>5. QED
      BY <1>n, <1>5, <2>1, <2>3, <2>4 DEF Unregister, playerVars
  <1>6. ASSUME NEW c \in Companions, NEW u \in Players, Refreshes(c, u) PROVE Typed
    <2>1. Req("refresh", c, u, tracked[c][u]) \in Request
      BY <1>t, RequestMade
    <2>2. exec' \in [Companions -> Request \cup {None}] /\ inFlight' \subseteq Request
      BY <1>n, <1>6, <2>1 DEF Refreshes, Send
    <2>3. QED
      BY <1>n, <1>e, <1>6, <2>2 DEF Refreshes, playerVars
  <1>7. ASSUME NEW c \in Companions, NEW u \in Players, NEW l \in Leases,
               UnregisterReplaced(c, u, l)
        PROVE  Typed
    <2>1. Req("DELETE", c, u, l) \in Request
      BY RequestMade
    <2>2. exec' \in [Companions -> Request \cup {None}] /\ inFlight' \subseteq Request
      BY <1>n, <1>7, <2>1 DEF UnregisterReplaced, Send
    <2>3. queue' \in [Companions -> SUBSET (Players \X Leases)]
      BY <1>n, <1>7 DEF UnregisterReplaced
    <2>4. QED
      BY <1>n, <1>e, <1>7, <2>2, <2>3 DEF UnregisterReplaced, playerVars
  <1>8. ASSUME NEW c \in Companions, BeginClose(c) PROVE Typed
    BY <1>n, <1>e, <1>8, NoEvents DEF BeginClose, playerVars
  <1>9. ASSUME NEW c \in Companions, ShutdownNow(c) PROVE Typed
    BY <1>n, <1>e, <1>9 DEF ShutdownNow, playerVars
  <1>10. ASSUME NEW m \in inFlight, ServePut(m) PROVE Typed
    <2>1. m.from \in Companions /\ m.player \in Players
      BY <1>n DEF Request
    <2>2. m.from[1] \in Backends /\ m.from[2] \in Owners
      BY <2>1 DEF Companions
    <2>3. granted + 1 \in Leases
      BY <1>10, <2>1, <2>2, PutRecord DEF ServePut
    <2>t. ASSUME Track(m.from, m.player, granted + 1)
          PROVE  /\ tracked' \in [Companions -> [Players -> Leases \cup {None}]]
                 /\ queue' \in [Companions -> SUBSET (Players \X Leases)]
      <3>1. tracked' \in [Companions -> [Players -> Leases \cup {None}]]
        BY <1>n, <2>1, <2>3, <2>t DEF Track
      <3>2. tracked[m.from][m.player] # None =>
               <<m.player, tracked[m.from][m.player]>> \in Players \X Leases
        BY <1>t, <2>1
      <3>3. queue' \in [Companions -> SUBSET (Players \X Leases)]
        BY <1>n, <2>1, <2>t, <3>2 DEF Track
      <3>4. QED
        BY <3>1, <3>3
    <2>4. /\ tracked' \in [Companions -> [Players -> Leases \cup {None}]]
          /\ queue' \in [Companions -> SUBSET (Players \X Leases)]
      BY <1>n, <1>10, <2>t DEF ServePut
    <2>6. call' \in [Companions -> Request \cup {None}]
      BY <1>n, <1>10, <2>1 DEF ServePut
    <2>7. QED
      BY <1>n, <1>e, <1>10, <2>4, <2>6 DEF ServePut, playerVars
  <1>11. ASSUME NEW m \in inFlight, ServeOther(m) PROVE Typed
    BY <1>n, <1>e, <1>11 DEF ServeOther, playerVars
  <1>12. ASSUME NEW c \in Companions, NEW m \in {call[c], exec[c]} \ {None}, CallFails(c, m)
         PROVE  Typed
    <2>a. call[c] \in Request \cup {None} /\ exec[c] \in Request \cup {None}
      BY <1>n
    <2>0. m \in Request
      BY <2>a
    <2>1. [m EXCEPT !.n = bounds.faults + 1] \in Request
      BY <1>12, <2>0, RequestRepeated DEF CallFails
    <2>2. ASSUME MayRetry(c) PROVE tries[c] + 1 \in 0..MaxAttempts
      BY <1>n, <2>2, CompanionAssumption, SMTT(60) DEF MayRetry
    <2>3. tries' \in [Companions -> 0..MaxAttempts]
      BY <1>n, <1>12, <2>2 DEF CallFails
    <2>4. bounds' \in Bounds
      BY <1>12, Counted DEF CallFails
    <2>5. call' \in [Companions -> Request \cup {None}]
      BY <1>n, <1>12, <2>1 DEF CallFails
    <2>6. exec' \in [Companions -> Request \cup {None}]
      BY <1>n, <1>12 DEF CallFails
    <2>7. inFlight' \subseteq Request
      <3>1. PICK rest \in {inFlight, inFlight \ {m}} :
               inFlight' = rest \/ inFlight' = rest \cup {[m EXCEPT !.n = bounds.faults + 1]}
        BY <1>12 DEF CallFails
      <3>2. rest \subseteq Request
        BY <1>n
      <3>3. QED
        BY <2>1, <3>1, <3>2
    <2>8. QED
      BY <1>n, <1>e, <1>12, <2>3, <2>4, <2>5, <2>6, <2>7 DEF CallFails
  <1>13. ASSUME NEW u \in Players, Lapse(u) PROVE Typed
    BY <1>n, <1>e, <1>13 DEF Lapse, playerVars, companionVars
  <1>14. ASSUME NEW c \in Companions, ServerCrashes(c) PROVE Typed
    <2>1. bounds' \in Bounds
      BY <1>14, Counted DEF ServerCrashes
    <2>2. /\ at' \in [Players -> Companions \cup {None}] /\ left' \subseteq Companions \X Players
          /\ events' \in [Companions -> Seq(Event)]
          /\ tracked' \in [Companions -> [Players -> Leases \cup {None}]]
      BY <1>n, <1>e, <1>14, NoEvents DEF ServerCrashes
    <2>3. QED
      BY <1>n, <1>14, <2>1, <2>2 DEF ServerCrashes
  <1>15. CASE RouterRestarts
    <2>1. bounds' \in Bounds
      BY <1>15, Counted DEF RouterRestarts
    <2>2. QED
      BY <1>n, <1>e, <1>15, <2>1 DEF RouterRestarts, companionVars
  <1>16. CASE SweepExpired \/ UNCHANGED vars
    BY <1>n, <1>e, <1>16 DEF SweepExpired, vars, playerVars, companionVars
  <1>17. QED
    BY <1>1, <1>2, <1>3, <1>4, <1>5, <1>6, <1>7, <1>8, <1>9, <1>10, <1>11, <1>12, <1>13,
       <1>14, <1>15, <1>16 DEF Next, CompanionStep, Serve

-----------------------------------------------------------------------------
(* Players that are elsewhere.                                             *)

\* A player is on a server that is up, and that has noticed the last time it left.
PlaceInv ==
    \A u \in Players, c \in Companions : at[u] = c => up[c] = "up" /\ <<c, u>> \notin left

\* A player arrives at a server that is up, and a server stops when nobody is on it.
LEMMA PlaceStep ==
    ASSUME TypeOK, PlaceInv, [Next]_vars
    PROVE  PlaceInv'
  <1>n. /\ at \in [Players -> Companions \cup {None}]
        /\ up \in [Companions -> {"up", "closing", "down"}]
        /\ None \notin Companions
    BY CompanionAssumption DEF TypeOK
  <1>1. ASSUME NEW u \in Players, NEW c \in Companions \cup {None}, Move(u, c) PROVE PlaceInv'
    <2>1. /\ \A v \in Players : at'[v] = IF v = u THEN c ELSE at[v]
          /\ up' = up
      BY <1>n, <1>1 DEF Move
    <2>2. \A v \in Players, d \in Companions :
             <<d, v>> \in left' => <<d, v>> \in left \/ (d = at[u] /\ v = u)
      BY <1>1 DEF Move
    <2>3. QED
      BY <1>n, <1>1, <2>1, <2>2 DEF Move, PlaceInv
  <1>2. ASSUME at' = at, left' \subseteq left,
               \A c \in Companions, u \in Players : at[u] = c => up'[c] = up[c]
        PROVE  PlaceInv'
    BY <1>n, <1>2 DEF PlaceInv
  <1>3. ASSUME NEW c \in Companions, NEW u \in Players,
               NoticeLeft(c, u) \/ RegisterBeforeUdp(c, u) \/ Unregister(c, u) \/ Refreshes(c, u)
        PROVE  PlaceInv'
    BY <1>2, <1>3 DEF NoticeLeft, RegisterBeforeUdp, Unregister, Refreshes, playerVars
  <1>4. ASSUME NEW c \in Companions, NEW u \in Players, NEW l \in Leases,
               UnregisterReplaced(c, u, l)
        PROVE  PlaceInv'
    BY <1>2, <1>4 DEF UnregisterReplaced, playerVars
  <1>5. ASSUME NEW c \in Companions, BeginClose(c) \/ ShutdownNow(c) PROVE PlaceInv'
    <2>1. \A d \in Companions, u \in Players : at[u] = d => up'[d] = up[d]
      <3>1. \A d \in Companions : d # c => up'[d] = up[d]
        BY <1>n, <1>5 DEF BeginClose, ShutdownNow
      <3>2. \A u \in Players : at[u] # c
        BY <1>5 DEF BeginClose, ShutdownNow, PlaceInv
      <3>3. QED
        BY <3>1, <3>2
    <2>2. QED
      BY <1>2, <1>5, <2>1 DEF BeginClose, ShutdownNow, playerVars
  <1>6. ASSUME NEW m \in inFlight, Serve(m) PROVE PlaceInv'
    BY <1>2, <1>6 DEF Serve, ServePut, ServeOther, playerVars
  <1>7. ASSUME NEW c \in Companions, NEW m, CallFails(c, m) PROVE PlaceInv'
    BY <1>2, <1>7 DEF CallFails
  <1>8. ASSUME NEW u \in Players, Lapse(u) \/ AskAgain(u) PROVE PlaceInv'
    BY <1>2, <1>8 DEF Lapse, AskAgain, playerVars, companionVars
  <1>9. ASSUME NEW c \in Companions, ServerCrashes(c) PROVE PlaceInv'
    <2>1. \A v \in Players : at'[v] = IF at[v] = c THEN None ELSE at[v]
      BY <1>9 DEF ServerCrashes
    <2>2. left' \subseteq left /\ \A d \in Companions : d # c => up'[d] = up[d]
      BY <1>n, <1>9 DEF ServerCrashes
    <2>3. QED
      BY <1>n, <2>1, <2>2 DEF PlaceInv
  <1>10. CASE RouterRestarts
    BY <1>n, <1>10 DEF RouterRestarts, PlaceInv
  <1>11. CASE SweepExpired \/ UNCHANGED vars
    BY <1>2, <1>11 DEF SweepExpired, vars, playerVars, companionVars
  <1>12. QED
    BY <1>1, <1>3, <1>4, <1>5, <1>6, <1>7, <1>8, <1>9, <1>10, <1>11 DEF Next, CompanionStep

\* The server of c waits for the answer to a PUT for u.
Putting(c, u) == call[c] # None /\ call[c].op = "PUT" /\ call[c].player = u

\* The server of c knows that u left.
KnowsLeft(c, u) == up[c] = "up" /\ at[u] # c /\ <<c, u>> \notin left

\* Its companion has forgotten u, or is going to.
Forgets(c, u) ==
    \/ LeftLast(events[c], u)
    \/ ~HostWaits(events[c], u) /\ ~Putting(c, u) /\ tracked[c][u] = None

\* A player that is elsewhere is forgotten: when the server's thread has handled
\* the events it has, nothing is left of it.
AwayInv == \A c \in Companions, u \in Players : KnowsLeft(c, u) => Forgets(c, u)

\* A companion that gets no event for u and sends no PUT for it goes on forgetting u.
LEMMA ForgetsOn ==
    ASSUME NEW c \in Companions, NEW u \in Players, Forgets(c, u),
           HostWaits(events'[c], u) => HostWaits(events[c], u),
           LeftLast(events[c], u) => LeftLast(events'[c], u),
           Putting(c, u)' => Putting(c, u),
           tracked'[c][u] = tracked[c][u]
    PROVE  Forgets(c, u)'
  BY DEF Forgets

\* Every step keeps AwayInv: a voice host event is fired only on the server a player is
\* on, and when the player leaves it the event that it left comes last.
LEMMA AwayStep ==
    ASSUME TypeOK, TypeOK', AwayInv, [Next]_vars
    PROVE  AwayInv'
  <1>n. /\ call \in [Companions -> Request \cup {None}]
        /\ tracked \in [Companions -> [Players -> Leases \cup {None}]]
        /\ up \in [Companions -> {"up", "closing", "down"}]
        /\ at \in [Players -> Companions \cup {None}]
        /\ events \in [Companions -> Seq(Event)]
        /\ None \notin Companions
    BY CompanionAssumption DEF TypeOK, Event
  <1>p. exec \in [Companions -> Request \cup {None}]
    BY DEF TypeOK
  <1>s. SUFFICES ASSUME NEW d \in Companions, NEW v \in Players, KnowsLeft(d, v)'
                 PROVE  Forgets(d, v)'
    BY DEF AwayInv
  \* A step that concerns other servers or players, or neither their events nor calls.
  <1>k. ASSUME KnowsLeft(d, v), events'[d] = events[d], Putting(d, v)' => Putting(d, v),
               tracked'[d][v] = tracked[d][v]
        PROVE  Forgets(d, v)'
    BY <1>k, ForgetsOn DEF AwayInv
  <1>1. ASSUME NEW u \in Players, NEW c \in Companions \cup {None}, Move(u, c)
        PROVE  Forgets(d, v)'
    <2>1. KnowsLeft(d, v) /\ (v = u => d # c)
      BY <1>n, <1>s, <1>1 DEF KnowsLeft, Move
    <2>2. CASE d # c
      <3>1. events'[d] = events[d]
        BY <1>n, <1>1, <2>2 DEF Move
      <3>2. QED
        BY <1>k, <1>1, <2>1, <3>1 DEF Move, Putting
    <2>3. CASE d = c
      <3>1. events'[d] = Append(events[d], <<"host", u>>) /\ v # u
        BY <1>n, <1>1, <2>1, <2>3 DEF Move
      <3>2. /\ HostWaits(events'[d], v) => HostWaits(events[d], v)
            /\ LeftLast(events[d], v) => LeftLast(events'[d], v)
        BY <3>1, HostFired
      <3>3. QED
        BY <1>1, <2>1, <3>2, ForgetsOn DEF Move, Putting, AwayInv
    <2>4. QED
      BY <2>2, <2>3
  <1>2. ASSUME NEW u \in Players, AskAgain(u) PROVE Forgets(d, v)'
    <2>1. KnowsLeft(d, v)
      BY <1>s, <1>2 DEF KnowsLeft, AskAgain
    <2>2. CASE d # at[u]
      <3>1. events'[d] = events[d]
        BY <1>n, <1>2, <2>2 DEF AskAgain
      <3>2. QED
        BY <1>k, <1>2, <2>1, <3>1 DEF AskAgain, Putting
    <2>3. CASE d = at[u]
      <3>1. events'[d] = Append(events[d], <<"host", u>>) /\ v # u
        BY <1>n, <1>2, <2>1, <2>3 DEF AskAgain, KnowsLeft
      <3>2. /\ HostWaits(events'[d], v) => HostWaits(events[d], v)
            /\ LeftLast(events[d], v) => LeftLast(events'[d], v)
        BY <3>1, HostFired
      <3>3. QED
        BY <1>2, <2>1, <3>2, ForgetsOn DEF AskAgain, Putting, AwayInv
    <2>4. QED
      BY <2>2, <2>3
  <1>3. ASSUME NEW c \in Companions, NEW u \in Players, NoticeLeft(c, u)
        PROVE  Forgets(d, v)'
    <2>1. CASE d # c
      <3>1. events'[d] = events[d] /\ KnowsLeft(d, v)
        BY <1>n, <1>s, <1>3, <2>1 DEF NoticeLeft, KnowsLeft
      <3>2. QED
        BY <1>k, <1>3, <3>1 DEF NoticeLeft, Putting
    <2>2. CASE d = c
      <3>1. events'[d] = Append(events[d], <<"gone", u>>)
        BY <1>n, <1>s, <1>3, <2>2 DEF NoticeLeft, KnowsLeft
      <3>2. CASE v = u
        BY <3>1, <3>2, GoneFired DEF Forgets
      <3>3. CASE v # u
        <4>1. KnowsLeft(d, v)
          BY <1>s, <1>3, <3>3 DEF NoticeLeft, KnowsLeft
        <4>2. /\ HostWaits(events'[d], v) => HostWaits(events[d], v)
              /\ LeftLast(events[d], v) => LeftLast(events'[d], v)
          BY <3>1, <3>3, GoneFired
        <4>3. QED
          BY <1>3, <4>1, <4>2, ForgetsOn DEF NoticeLeft, Putting, AwayInv
      <3>4. QED
        BY <3>2, <3>3
    <2>3. QED
      BY <2>1, <2>2
  <1>4. ASSUME NEW c \in Companions, NEW u \in Players, RegisterBeforeUdp(c, u)
        PROVE  Forgets(d, v)'
    <2>1. KnowsLeft(d, v) /\ tracked' = tracked
      BY <1>s, <1>4 DEF KnowsLeft, RegisterBeforeUdp, playerVars
    <2>2. CASE d # c
      BY <1>k, <1>n, <1>4, <2>1, <2>2 DEF RegisterBeforeUdp, Putting
    <2>3. CASE d = c
      <3>1. /\ events'[d] = Tail(events[d]) /\ events[d] # <<>>
            /\ Head(events[d]) = <<"host", u>>
        BY <1>n, <1>4, <2>3 DEF RegisterBeforeUdp
      <3>2. /\ HostWaits(events[d], v) <=> v = u \/ HostWaits(events'[d], v)
            /\ LeftLast(events[d], v) <=> LeftLast(events'[d], v)
        BY <3>1, HostHandled
      <3>3. Putting(d, v)' => v = u
        <4>1. call[c] = None
          BY <1>4 DEF RegisterBeforeUdp
        <4>2. \/ call'[c] = None
              \/ call'[c] = Req("PUT", c, u, None)
          BY <1>n, <1>4, <4>1 DEF RegisterBeforeUdp
        <4>3. Req("PUT", c, u, None).player = u
          BY DEF Req
        <4>4. QED
          BY <2>3, <4>2, <4>3 DEF Putting
      <3>4. QED
        BY <2>1, <3>2, <3>3 DEF Forgets, AwayInv
    <2>4. QED
      BY <2>2, <2>3
  <1>5. ASSUME NEW c \in Companions, NEW u \in Players, Unregister(c, u)
        PROVE  Forgets(d, v)'
    <2>1. KnowsLeft(d, v)
      BY <1>s, <1>5 DEF KnowsLeft, Unregister, playerVars
    <2>2. CASE d # c
      <3>1. events'[d] = events[d] /\ call'[d] = call[d] /\ tracked'[d][v] = tracked[d][v]
        BY <1>n, <1>5, <2>2 DEF Unregister, Untrack
      <3>2. QED
        BY <1>k, <2>1, <3>1 DEF Putting
    <2>3. CASE d = c
      <3>1. /\ events'[d] = Tail(events[d]) /\ events[d] # <<>>
            /\ Head(events[d]) = <<"gone", u>>
        BY <1>n, <1>5, <2>1, <2>3 DEF Unregister, KnowsLeft
      <3>2. /\ HostWaits(events[d], v) <=> HostWaits(events'[d], v)
            /\ LeftLast(events[d], v) <=>
                  LeftLast(events'[d], v) \/ (v = u /\ ~HostWaits(events'[d], v))
        BY <3>1, GoneHandled
      <3>3. ~Putting(d, v)'
        <4>1. call[c] = None
          BY <1>5 DEF Unregister
        <4>2. \/ call'[c] = None
              \/ call'[c] = Req("DELETE", c, u, tracked[c][u])
          BY <1>n, <1>5, <4>1 DEF Unregister
        <4>3. Req("DELETE", c, u, tracked[c][u]).op = "DELETE"
          BY DEF Req
        <4>4. QED
          BY <2>3, <4>2, <4>3 DEF Putting
      <3>4. tracked'[d][v] = IF v = u THEN None ELSE tracked[d][v]
        BY <1>n, <1>5, <2>3 DEF Unregister, Untrack
      <3>5. QED
        BY <2>1, <3>2, <3>3, <3>4 DEF Forgets, AwayInv
    <2>4. QED
      BY <2>2, <2>3
  <1>6. ASSUME NEW c \in Companions, NEW u \in Players,
               Refreshes(c, u) \/ \E l \in Leases : UnregisterReplaced(c, u, l)
        PROVE  Forgets(d, v)'
    BY <1>k, <1>s, <1>6 DEF Refreshes, UnregisterReplaced, playerVars, KnowsLeft, Putting
  <1>7. ASSUME NEW c \in Companions, BeginClose(c) \/ ShutdownNow(c) \/ ServerCrashes(c)
        PROVE  Forgets(d, v)'
    <2>1. d # c
      BY <1>n, <1>s, <1>7 DEF BeginClose, ShutdownNow, ServerCrashes, KnowsLeft
    <2>2. up'[d] = up[d] /\ events'[d] = events[d]
      BY <1>n, <1>7, <2>1 DEF BeginClose, ShutdownNow, ServerCrashes
    <2>c. call'[d] = call[d] /\ tracked'[d] = tracked[d]
      BY <1>n, <1>7, <2>1 DEF BeginClose, ShutdownNow, ServerCrashes
    <2>3. at'[v] # d => at[v] # d
      BY <1>n, <1>7, <2>1 DEF BeginClose, ShutdownNow, ServerCrashes, playerVars
    <2>4. <<d, v>> \notin left' => <<d, v>> \notin left
      <3>1. <<d, v>>[1] = d
        OBVIOUS
      <3>2. QED
        BY <1>7, <2>1, <3>1 DEF BeginClose, ShutdownNow, ServerCrashes, playerVars
    <2>5. QED
      BY <1>k, <1>s, <2>2, <2>c, <2>3, <2>4 DEF KnowsLeft, Putting
  <1>8. ASSUME NEW m \in inFlight, ServePut(m) PROVE Forgets(d, v)'
    <2>1. KnowsLeft(d, v) /\ events' = events
      BY <1>s, <1>8 DEF KnowsLeft, ServePut, playerVars
    <2>2. m.from \in Companions /\ m.player \in Players
      BY DEF TypeOK, Request
    <2>3. Putting(d, v)' => Putting(d, v)
      BY <1>n, <1>8, <2>2 DEF ServePut, Putting
    <2>4. CASE Putting(d, v)
      BY <2>1, <2>4 DEF AwayInv, Forgets
    <2>5. CASE ~Putting(d, v)
      <3>1. tracked'[d][v] = tracked[d][v]
        <4>1. CASE call[m.from] = m
          <5>a. m \in Request
            BY DEF TypeOK
          <5>1. m # None
            BY <5>a, CompanionAssumption
          <5>2. ~(m.from = d /\ m.player = v)
            BY <1>8, <2>5, <4>1, <5>1 DEF ServePut, Putting
          <5>3. tracked' = [tracked EXCEPT ![m.from][m.player] = granted + 1]
            BY <1>8, <4>1 DEF ServePut, Track
          <5>4. QED
            BY <1>n, <2>2, <5>2, <5>3
        <4>2. CASE call[m.from] # m
          BY <1>8, <4>2 DEF ServePut
        <4>3. QED
          BY <4>1, <4>2
      <3>2. QED
        BY <1>k, <2>1, <2>3, <3>1
    <2>6. QED
      BY <2>4, <2>5
  <1>9. ASSUME NEW m \in inFlight, ServeOther(m) PROVE Forgets(d, v)'
    <2>1. Putting(d, v)' => Putting(d, v)
      BY <1>n, <1>9 DEF ServeOther, Putting
    <2>2. QED
      BY <1>k, <1>s, <1>9, <2>1 DEF ServeOther, playerVars, KnowsLeft
  <1>10. ASSUME NEW c \in Companions, NEW m \in {call[c], exec[c]} \ {None}, CallFails(c, m)
         PROVE  Forgets(d, v)'
    <2>1. Putting(d, v)' => Putting(d, v)
      <3>a. call[c] \in Request \cup {None} /\ exec[c] \in Request \cup {None}
        BY <1>n, <1>p
      <3>1. m \in Request
        BY <3>a
      <3>2. /\ [m EXCEPT !.n = bounds.faults + 1].op = m.op
            /\ [m EXCEPT !.n = bounds.faults + 1].player = m.player
        BY <1>10, <3>1, RequestRepeated DEF CallFails
      <3>3. CASE d # c
        BY <1>n, <1>10, <3>3 DEF CallFails, Putting
      <3>4. CASE d = c
        <4>1. \/ call'[c] = call[c] \/ call'[c] = None
              \/ call'[c] = [m EXCEPT !.n = bounds.faults + 1] /\ call[c] = m
          BY <1>n, <1>10 DEF CallFails
        <4>2. QED
          BY <1>10, <3>2, <3>4, <4>1 DEF Putting
      <3>5. QED
        BY <3>3, <3>4
    <2>2. QED
      BY <1>k, <1>s, <1>10, <2>1 DEF CallFails, KnowsLeft
  <1>11. ASSUME NEW u \in Players, Lapse(u) PROVE Forgets(d, v)'
    BY <1>k, <1>s, <1>11 DEF Lapse, playerVars, companionVars, KnowsLeft, Putting
  <1>12. CASE RouterRestarts
    <2>1. KnowsLeft(d, v)
      BY <1>s, <1>12 DEF RouterRestarts, companionVars, KnowsLeft
    <2>2. QED
      BY <1>k, <1>12, <2>1 DEF RouterRestarts, companionVars, Putting
  <1>13. CASE SweepExpired \/ UNCHANGED vars
    BY <1>k, <1>s, <1>13 DEF SweepExpired, vars, playerVars, companionVars, KnowsLeft, Putting
  <1>14. QED
    BY <1>1, <1>2, <1>3, <1>4, <1>5, <1>6, <1>7, <1>8, <1>9, <1>10, <1>11, <1>12, <1>13
       DEF Next, CompanionStep, Serve

CompanionIInv == IInv /\ TypeOK /\ PlaceInv /\ AwayInv

\* In the beginning nobody is on a server and nothing is tracked.
LEMMA CompanionInit == Init => CompanionIInv
  <1> SUFFICES ASSUME Init PROVE CompanionIInv
    OBVIOUS
  <1>1. IInv
    BY InitIInv DEF Init
  <1>2. 0 \in 0..MaxMoves /\ 0 \in 0..MaxFaults /\ 0 \in 0..MaxAttempts
    BY CompanionAssumption, SMTT(60)
  <1>3. bounds \in [moves: 0..MaxMoves, faults: 0..MaxFaults, hasty: BOOLEAN]
    BY <1>2 DEF Init
  <1>4. events \in [Companions -> Seq(Event)]
    BY NoEvents DEF Init
  <1>5. /\ at \in [Players -> Companions \cup {None}]
        /\ left \subseteq Companions \X Players
        /\ up \in [Companions -> {"up", "closing", "down"}]
        /\ tracked \in [Companions -> [Players -> Leases \cup {None}]]
        /\ call \in [Companions -> Request \cup {None}]
        /\ exec \in [Companions -> Request \cup {None}]
        /\ tries \in [Companions -> 0..MaxAttempts]
        /\ queue \in [Companions -> SUBSET (Players \X Leases)]
        /\ inFlight \subseteq Request
    BY <1>2 DEF Init
  <1>6. TypeOK
    BY <1>1, <1>3, <1>4, <1>5 DEF TypeOK, IInv, RegistryTypeOK, Event
  <1>7. PlaceInv
    BY CompanionAssumption DEF PlaceInv, Init
  <1>8. AwayInv
    BY NoEvents DEF AwayInv, Forgets, Putting, Init
  <1>9. QED
    BY <1>1, <1>6, <1>7, <1>8 DEF CompanionIInv

\* Every step keeps the invariant.
LEMMA CompanionInvStep ==
    ASSUME CompanionIInv, [Next]_vars
    PROVE  CompanionIInv'
  BY TableInvStep, TypeStep, PlaceStep, AwayStep DEF CompanionIInv

\* The invariant holds in every reachable state.
THEOREM CompanionInvariance == Spec => []CompanionIInv
  BY CompanionInit, CompanionInvStep, PTL DEF Spec

\* Every variable of the companions, the network and the table keeps its type.
THEOREM CompanionTypeCorrect == Spec => []TypeOK
  <1>1. CompanionIInv => TypeOK
    BY DEF CompanionIInv
  <1>2. QED
    BY <1>1, CompanionInvariance, PTL

\* Whatever calls fail or come late, and whoever crashes: a companion that has
\* handled its events refreshes a claim only for a player on its server.
THEOREM OnlyOwnPlayers == Spec => []RefreshesOnlyOwnPlayers
  <1>1. CompanionIInv => RefreshesOnlyOwnPlayers
    <2> SUFFICES ASSUME CompanionIInv, NEW u \in Players, NEW c \in Companions,
                        up[c] = "up", Settled(c, u), tracked[c][u] # None, at[u] # c
                 PROVE  FALSE
      BY DEF RefreshesOnlyOwnPlayers
    <2>1. LeftLast(events[c], u)
      BY DEF CompanionIInv, AwayInv, KnowsLeft, Forgets, Settled
    <2>2. PICK i \in DOMAIN events[c] : events[c][i] = <<"gone", u>>
      BY <2>1 DEF LeftLast
    <2>3. events[c][i][2] = u
      BY <2>2, SMTT(60)
    <2>4. QED
      BY <2>3 DEF Settled
  <1>2. QED
    BY <1>1, CompanionInvariance, PTL

-----------------------------------------------------------------------------
(* Orderly moves.                                                          *)

\* Players let their server register them before they move on, and no call fails.
Orderly == ~bounds.hasty /\ bounds.faults = 0

\* The router serves every PUT while its companion waits for it.
AwaitedInv == \A m \in inFlight : m.op = "PUT" => call[m.from] = m

\* A server registers only the players that are on it.
WantedInv == \A c \in Companions, u \in Players : Registering(c, u) => at[u] = c

\* The last word of a server's events on a player that is on it is not that it left.
HereInv == \A c \in Companions, u \in Players : at[u] = c => ~LeftLast(events[c], u)

\* The leases that companions and requests name have been granted.
OldInv ==
    /\ \A m \in inFlight : m.lease # None => m.lease <= granted
    /\ \A c \in Companions, u \in Players : tracked[c][u] # None => tracked[c][u] <= granted
    /\ \A c \in Companions, u \in Players, l \in Leases : <<u, l>> \in queue[c] => l <= granted

\* The server of c holds the claim on u, refreshes it, and is not about to give it up.
Holds(c, u) ==
    /\ registrations[u] # None
    /\ registrations[u].backend = c[1] /\ registrations[u].owner = c[2]
    /\ ~registrations[u].expired
    /\ tracked[c][u] = registrations[u].lease
    /\ <<u, registrations[u].lease>> \notin queue[c]
    /\ \A m \in inFlight : m.op = "DELETE" /\ m.from = c /\ m.player = u =>
                              m.lease # registrations[u].lease

\* A server that has registered a player holds the claim on it.
HeldInv ==
    \A c \in Companions, u \in Players : at[u] = c /\ ~Registering(c, u) => Holds(c, u)

OrderlyInv == Orderly => AwaitedInv /\ WantedInv /\ HereInv /\ OldInv /\ HeldInv

\* Every player can be tracked, and a claim that is refreshed does not lapse.
Roomy == Timely /\ IsFiniteSet(Players) /\ Cardinality(Players) <= MaxTracked

\* In an orderly history no call fails and nobody crashes.
CalmStep ==
    \/ \E u \in Players, c \in Companions \cup {None} : Move(u, c)
    \/ \E u \in Players : AskAgain(u)
    \/ \E c \in Companions, u \in Players : NoticeLeft(c, u) \/ Refreshes(c, u)
    \/ \E c \in Companions : CompanionStep(c) \/ BeginClose(c)
    \/ \E m \in inFlight : Serve(m)
    \/ \E u \in Players : Lapse(u)
    \/ SweepExpired

\* A move that keeps the history orderly leaves no server that is still registering.
LEMMA MoveInHaste ==
    ASSUME TypeOK, NEW u \in Players, NEW c \in Companions \cup {None}, Move(u, c), Orderly'
    PROVE  Orderly /\ (at[u] # None => ~Registering(at[u], u))
  <1>1. bounds \in Bounds
    BY DEF TypeOK, Bounds
  <1>2. /\ bounds'.faults = bounds.faults
        /\ bounds'.hasty = (bounds.hasty \/ (at[u] # None /\ Registering(at[u], u)))
    BY <1>1 DEF Move, Bounds
  <1>3. QED
    BY <1>2 DEF Orderly

\* A history that is orderly was so before, and its last step is calm.
LEMMA OrderlySoFar ==
    ASSUME TypeOK, [Next]_vars, Orderly'
    PROVE  Orderly /\ (CalmStep \/ UNCHANGED vars)
  <1>1. ~Fault
    BY Counted DEF Orderly
  <1>2. CalmStep \/ UNCHANGED vars
    BY <1>1 DEF Next, CalmStep, CallFails, ServerCrashes, RouterRestarts
  <1>3. ASSUME NEW u \in Players, AskAgain(u) PROVE Orderly
    <2>1. bounds \in Bounds
      BY DEF TypeOK, Bounds
    <2>2. bounds'.faults = bounds.faults /\ bounds'.hasty = bounds.hasty
      BY <1>3, <2>1 DEF AskAgain, Bounds
    <2>3. QED
      BY <2>2 DEF Orderly
  <1>4. ASSUME bounds' = bounds PROVE Orderly
    BY <1>4 DEF Orderly
  <1>5. ASSUME NEW c \in Companions, NEW u \in Players, NoticeLeft(c, u) \/ Refreshes(c, u)
        PROVE  bounds' = bounds
    BY <1>5 DEF NoticeLeft, Refreshes, playerVars
  <1>6. ASSUME NEW c \in Companions, CompanionStep(c) \/ BeginClose(c) PROVE bounds' = bounds
    BY <1>6 DEF CompanionStep, RegisterBeforeUdp, Unregister, UnregisterReplaced, ShutdownNow,
                BeginClose, playerVars
  <1>7. ASSUME NEW m \in inFlight, Serve(m) PROVE bounds' = bounds
    BY <1>7 DEF Serve, ServePut, ServeOther, playerVars
  <1>8. ASSUME NEW u \in Players, Lapse(u) PROVE bounds' = bounds
    BY <1>8 DEF Lapse, playerVars
  <1>9. CASE SweepExpired \/ UNCHANGED vars
    BY <1>2, <1>4, <1>9 DEF SweepExpired, vars, playerVars
  <1>10. QED
    BY <1>2, <1>3, <1>4, <1>5, <1>6, <1>7, <1>8, <1>9, MoveInHaste DEF CalmStep

\* A companion has one PUT under way, and waits until it is answered.
LEMMA AwaitedStep ==
    ASSUME TypeOK, AwaitedInv, CalmStep \/ UNCHANGED vars
    PROVE  AwaitedInv'
  <1>n. call \in [Companions -> Request \cup {None}] /\ inFlight \subseteq Request
    BY DEF TypeOK
  <1>f. \A m \in inFlight : m.from \in Companions /\ m # None
    BY <1>n, CompanionAssumption DEF Request
  <1>1. ASSUME call' = call, \A m \in inFlight' : m \in inFlight \/ m.op # "PUT"
        PROVE  AwaitedInv'
    BY <1>1 DEF AwaitedInv
  <1>2. ASSUME NEW c \in Companions, NEW u \in Players, RegisterBeforeUdp(c, u)
        PROVE  AwaitedInv'
    <2> DEFINE q == Req("PUT", c, u, None)
    <2>1. q.from = c
      BY DEF Req
    <2> HIDE DEF q
    <2>2. CASE UNCHANGED <<call, tries, inFlight>>
      BY <1>1, <2>2
    <2>3. CASE /\ inFlight' = inFlight \cup {q}
               /\ call' = [call EXCEPT ![c] = q]
      <3>1. ASSUME NEW m \in inFlight, m.op = "PUT" PROVE call'[m.from] = m
        <4>1. m.from # c
          BY <1>f, <1>2, <3>1 DEF AwaitedInv, RegisterBeforeUdp
        <4>2. QED
          BY <1>n, <1>f, <2>3, <3>1, <4>1 DEF AwaitedInv
      <3>2. call'[q.from] = q
        BY <1>n, <2>1, <2>3
      <3>3. QED
        BY <2>3, <3>1, <3>2 DEF AwaitedInv
    <2>4. QED
      BY <1>2, <2>2, <2>3 DEF RegisterBeforeUdp, Send, q
  <1>3. ASSUME NEW c \in Companions, NEW u \in Players, Unregister(c, u)
        PROVE  AwaitedInv'
    <2>1. ASSUME NEW m \in inFlight', m.op = "PUT" PROVE m \in inFlight
      <3>1. Req("DELETE", c, u, tracked[c][u]).op = "DELETE"
        BY DEF Req
      <3>2. QED
        BY <1>3, <2>1, <3>1 DEF Unregister, Send
    <2>2. ASSUME NEW m \in inFlight, m.op = "PUT" PROVE call'[m.from] = m
      <3>1. m.from # c
        BY <1>f, <1>3, <2>2 DEF AwaitedInv, Unregister
      <3>2. QED
        BY <1>n, <1>f, <1>3, <2>2, <3>1 DEF AwaitedInv, Unregister
    <2>3. QED
      BY <2>1, <2>2 DEF AwaitedInv
  <1>4. ASSUME NEW c \in Companions, NEW u \in Players, Refreshes(c, u) PROVE AwaitedInv'
    <2>1. Req("refresh", c, u, tracked[c][u]).op = "refresh"
      BY DEF Req
    <2>2. QED
      BY <1>1, <1>4, <2>1 DEF Refreshes, Send
  <1>5. ASSUME NEW c \in Companions, NEW u \in Players, NEW l \in Leases,
               UnregisterReplaced(c, u, l)
        PROVE  AwaitedInv'
    <2>1. Req("DELETE", c, u, l).op = "DELETE"
      BY DEF Req
    <2>2. QED
      BY <1>1, <1>5, <2>1 DEF UnregisterReplaced, Send
  <1>6. ASSUME NEW m \in inFlight, ServePut(m) PROVE AwaitedInv'
    <2>1. ASSUME NEW k \in inFlight', k.op = "PUT" PROVE call'[k.from] = k
      <3>1. k \in inFlight /\ k # m /\ call[k.from] = k
        BY <1>6, <2>1 DEF ServePut, AwaitedInv
      <3>2. k.from # m.from
        BY <1>6, <3>1 DEF ServePut, AwaitedInv
      <3>3. QED
        BY <1>n, <1>f, <1>6, <3>1, <3>2 DEF ServePut
    <2>2. QED
      BY <2>1 DEF AwaitedInv
  <1>7. ASSUME NEW m \in inFlight, ServeOther(m) PROVE AwaitedInv'
    <2>1. ASSUME NEW k \in inFlight', k.op = "PUT" PROVE call'[k.from] = k
      <3>1. k \in inFlight /\ k # m /\ call[k.from] = k
        BY <1>7, <2>1 DEF ServeOther, AwaitedInv
      <3>2. QED
        BY <1>n, <1>f, <1>7, <3>1 DEF ServeOther
    <2>2. QED
      BY <2>1 DEF AwaitedInv
  <1>8. ASSUME NEW u \in Players, NEW c,
               Move(u, c) \/ AskAgain(u) \/ NoticeLeft(c, u) \/ Lapse(u)
        PROVE  AwaitedInv'
    BY <1>1, <1>8 DEF Move, AskAgain, NoticeLeft, Lapse, companionVars
  <1>9. ASSUME NEW c, BeginClose(c) \/ ShutdownNow(c) PROVE AwaitedInv'
    BY <1>1, <1>9 DEF BeginClose, ShutdownNow
  <1>10. CASE SweepExpired \/ UNCHANGED vars
    BY <1>1, <1>10 DEF SweepExpired, vars, companionVars
  <1>11. QED
    BY <1>2, <1>3, <1>4, <1>5, <1>6, <1>7, <1>8, <1>9, <1>10 DEF CalmStep, CompanionStep, Serve

\* Registering, in terms of the events and of the call.
LEMMA RegisteringIs ==
    \A c \in Companions, u \in Players :
        /\ Registering(c, u) <=> HostWaits(events[c], u) \/ Putting(c, u)
        /\ Registering(c, u)' <=> HostWaits(events'[c], u) \/ Putting(c, u)'
  BY DEF Registering, HostWaits, Putting

\* What each step that fires or handles an event does to the events of all servers.
LEMMA MoveEvents ==
    ASSUME TypeOK, NEW u \in Players, NEW c \in Companions \cup {None}, Move(u, c),
           NEW d \in Companions, NEW v \in Players
    PROVE  /\ HostWaits(events'[d], v) <=> HostWaits(events[d], v) \/ (d = c /\ u = v)
           /\ LeftLast(events'[d], v) => LeftLast(events[d], v) /\ (d = c => u # v)
  <1>1. events \in [Companions -> Seq(Event)] /\ None \notin Companions
    BY CompanionAssumption DEF TypeOK, Event
  <1>2. CASE d # c
    <2>1. events'[d] = events[d]
      BY <1>1, <1>2 DEF Move
    <2>2. QED
      BY <1>2, <2>1
  <1>3. CASE d = c
    <2>1. events'[d] = Append(events[d], <<"host", u>>)
      BY <1>1, <1>3 DEF Move
    <2>2. QED
      BY <1>3, <2>1, HostFired
  <1>4. QED
    BY <1>2, <1>3

\* The client sets up voice again.
LEMMA AskEvents ==
    ASSUME TypeOK, NEW u \in Players, AskAgain(u), NEW d \in Companions, NEW v \in Players
    PROVE  /\ HostWaits(events'[d], v) <=> HostWaits(events[d], v) \/ (d = at[u] /\ u = v)
           /\ LeftLast(events'[d], v) => LeftLast(events[d], v)
  <1>1. events \in [Companions -> Seq(Event)]
    BY DEF TypeOK, Event
  <1>2. CASE d # at[u]
    <2>1. events'[d] = events[d]
      BY <1>1, <1>2 DEF AskAgain
    <2>2. QED
      BY <1>2, <2>1
  <1>3. CASE d = at[u]
    <2>1. events'[d] = Append(events[d], <<"host", u>>)
      BY <1>1, <1>3 DEF AskAgain
    <2>2. QED
      BY <1>3, <2>1, HostFired
  <1>4. QED
    BY <1>2, <1>3

\* A server notices that a player left.
LEMMA NoticeEvents ==
    ASSUME TypeOK, NEW c \in Companions, NEW u \in Players, NoticeLeft(c, u),
           NEW d \in Companions, NEW v \in Players
    PROVE  /\ HostWaits(events'[d], v) <=> HostWaits(events[d], v)
           /\ LeftLast(events'[d], v) => LeftLast(events[d], v) \/ (d = c /\ u = v)
  <1>1. events \in [Companions -> Seq(Event)]
    BY DEF TypeOK, Event
  <1>2. CASE d # c \/ up[c] # "up"
    <2>1. events'[d] = events[d]
      BY <1>1, <1>2 DEF NoticeLeft
    <2>2. QED
      BY <2>1
  <1>3. CASE d = c /\ up[c] = "up"
    <2>1. events'[d] = Append(events[d], <<"gone", u>>)
      BY <1>1, <1>3 DEF NoticeLeft
    <2>2. QED
      BY <1>3, <2>1, GoneFired
  <1>4. QED
    BY <1>2, <1>3

\* A voice host event is handled.
LEMMA RegisterEvents ==
    ASSUME TypeOK, NEW c \in Companions, NEW u \in Players, RegisterBeforeUdp(c, u),
           NEW d \in Companions, NEW v \in Players
    PROVE  /\ HostWaits(events[d], v) <=> HostWaits(events'[d], v) \/ (d = c /\ u = v)
           /\ LeftLast(events[d], v) <=> LeftLast(events'[d], v)
  <1>1. events \in [Companions -> Seq(Event)]
    BY DEF TypeOK, Event
  <1>2. CASE d # c
    <2>1. events'[d] = events[d]
      BY <1>1, <1>2 DEF RegisterBeforeUdp
    <2>2. QED
      BY <1>2, <2>1
  <1>3. CASE d = c
    <2>1. /\ events'[d] = Tail(events[d]) /\ events[d] # <<>>
          /\ Head(events[d]) = <<"host", u>>
      BY <1>1, <1>3 DEF RegisterBeforeUdp
    <2>2. QED
      BY <1>3, <2>1, HostHandled
  <1>4. QED
    BY <1>2, <1>3

\* The event that a player left is handled, or the server stops.
LEMMA UnregisterEvents ==
    ASSUME TypeOK, NEW c \in Companions, NEW u \in Players, Unregister(c, u),
           NEW d \in Companions, NEW v \in Players
    PROVE  /\ HostWaits(events[d], v) <=> HostWaits(events'[d], v)
           /\ LeftLast(events'[d], v) => LeftLast(events[d], v)
           /\ up[c] = "up" => LeftLast(events[c], u) \/ HostWaits(events'[c], u)
  <1>1. events \in [Companions -> Seq(Event)]
    BY DEF TypeOK, Event
  <1>2. CASE events' = events /\ up[c] = "closing"
    BY <1>2
  <1>3. CASE /\ events[c] # <<>> /\ Head(events[c]) = <<"gone", u>>
             /\ events' = [events EXCEPT ![c] = Tail(@)]
    <2>1. events'[c] = Tail(events[c])
      BY <1>1, <1>3
    <2>2. \A w \in Players :
             /\ HostWaits(events[c], w) <=> HostWaits(events'[c], w)
             /\ LeftLast(events[c], w) <=>
                   LeftLast(events'[c], w) \/ (u = w /\ ~HostWaits(events'[c], w))
      BY <1>3, <2>1, GoneHandled
    <2>3. d # c => events'[d] = events[d]
      BY <1>1, <1>3
    <2>4. QED
      BY <2>2, <2>3
  <1>4. QED
    BY <1>2, <1>3 DEF Unregister

\* A server that stops forgets its events.
LEMMA CloseEvents ==
    ASSUME TypeOK, NEW c \in Companions, BeginClose(c), NEW d \in Companions, NEW v \in Players
    PROVE  /\ HostWaits(events'[d], v) => HostWaits(events[d], v)
           /\ LeftLast(events'[d], v) => LeftLast(events[d], v)
           /\ d # c => events'[d] = events[d]
  <1>1. events \in [Companions -> Seq(Event)]
    BY DEF TypeOK, Event
  <1>2. events'[d] = IF d = c THEN <<>> ELSE events[d]
    BY <1>1 DEF BeginClose
  <1>3. QED
    BY <1>2, NoEvents

\* A companion that handles the voice host event of u waits for a PUT for u; one that
\* handles another event does not.
LEMMA RegisterCalls ==
    ASSUME TypeOK, NEW c \in Companions, NEW u \in Players, RegisterBeforeUdp(c, u),
           NEW d \in Companions, NEW v \in Players
    PROVE  /\ Putting(d, v)' => Putting(d, v) \/ (d = c /\ u = v)
           /\ Putting(d, v) => Putting(d, v)'
           /\ Roomy => Putting(c, u)'
  <1> DEFINE q == Req("PUT", c, u, None)
  <1>n. call \in [Companions -> Request \cup {None}]
    BY DEF TypeOK
  <1>1. q.player = u /\ q.op = "PUT"
    BY DEF Req
  <1>2. q \in Request
    BY RequestMade
  <1>3. q # None
    BY <1>2, CompanionAssumption
  <1> HIDE DEF q
  <1>4. call[c] = None
    BY DEF RegisterBeforeUdp
  <1>5. call' = call \/ call' = [call EXCEPT ![c] = q]
    BY DEF RegisterBeforeUdp, q
  <1>6. ASSUME call' = [call EXCEPT ![c] = q]
        PROVE  /\ Putting(d, v)' => Putting(d, v) \/ (d = c /\ u = v)
               /\ Putting(d, v) => Putting(d, v)'
               /\ Putting(c, u)'
    <2>1. call'[c] = q /\ (d # c => call'[d] = call[d])
      BY <1>n, <1>6
    <2>2. QED
      BY <1>1, <1>3, <1>4, <2>1 DEF Putting
  <1>7. ASSUME Roomy PROVE call' = [call EXCEPT ![c] = q]
    <2>1. ASSUME tracked[c][u] = None PROVE ~(Cardinality(TrackedBy(c)) >= MaxTracked)
      <3> DEFINE T == TrackedBy(c)
      <3>1. IsFiniteSet(Players) /\ T \subseteq Players /\ u \notin T
        BY <1>7, <2>1 DEF Roomy, TrackedBy
      <3> HIDE DEF T
      <3>2. IsFiniteSet(T)
        BY <3>1, FS_Subset
      <3>3. Cardinality(T \cup {u}) = Cardinality(T) + 1
        BY <3>1, <3>2, FS_AddElement
      <3>4. Cardinality(T \cup {u}) <= Cardinality(Players)
        <4>1. T \cup {u} \subseteq Players
          BY <3>1
        <4>2. QED
          BY <3>1, <4>1, FS_Subset
      <3>5. Cardinality(T) \in Nat /\ Cardinality(Players) \in Nat
        BY <3>1, <3>2, FS_CardinalityType
      <3>6. MaxTracked \in Nat /\ Cardinality(Players) <= MaxTracked
        BY <1>7, CompanionAssumption DEF Roomy
      <3>7. ~(Cardinality(T) >= MaxTracked)
        BY <3>3, <3>4, <3>5, <3>6, SMTT(60)
      <3>8. QED
        BY <3>7 DEF T
    <2>2. QED
      BY <2>1 DEF RegisterBeforeUdp, q
  <1>8. ASSUME call' = call
        PROVE  /\ Putting(d, v)' => Putting(d, v)
               /\ Putting(d, v) => Putting(d, v)'
    BY <1>8 DEF Putting
  <1>9. QED
    BY <1>5, <1>6, <1>7, <1>8

\* The other calls are no PUTs.
LEMMA OtherCalls ==
    ASSUME TypeOK, NEW d \in Companions, NEW v \in Players,
           \/ \E c \in Companions, u \in Players : Unregister(c, u)
           \/ \E m \in inFlight : ServeOther(m)
    PROVE  Putting(d, v)' <=> Putting(d, v)
  <1>n. call \in [Companions -> Request \cup {None}]
    BY DEF TypeOK
  <1>1. ASSUME NEW c \in Companions, NEW u \in Players, Unregister(c, u)
        PROVE  Putting(d, v)' <=> Putting(d, v)
    <2> DEFINE q == Req("DELETE", c, u, tracked[c][u])
    <2>1. q.op = "DELETE"
      BY DEF Req
    <2>2. call[c] = None /\ (call' = call \/ call' = [call EXCEPT ![c] = q])
      BY <1>1 DEF Unregister
    <2> HIDE DEF q
    <2>3. CASE call' = call
      BY <2>3 DEF Putting
    <2>4. CASE call' = [call EXCEPT ![c] = q]
      <3>1. call'[c] = q /\ (d # c => call'[d] = call[d])
        BY <1>n, <2>4
      <3>2. QED
        BY <2>1, <2>2, <3>1 DEF Putting
    <2>5. QED
      BY <2>2, <2>3, <2>4
  <1>2. ASSUME NEW m \in inFlight, ServeOther(m) PROVE Putting(d, v)' <=> Putting(d, v)
    <2>1. call'[d] = call[d] \/ (call'[d] = None /\ call[d] = m /\ m.op # "PUT")
      BY <1>n, <1>2 DEF ServeOther
    <2>2. QED
      BY <2>1 DEF Putting
  <1>3. QED
    BY <1>1, <1>2

\* A player that moves on has been registered, so its old server registers it no more.
LEMMA WantedStep ==
    ASSUME TypeOK, WantedInv, CalmStep \/ UNCHANGED vars, Orderly'
    PROVE  WantedInv'
  <1>n. /\ at \in [Players -> Companions \cup {None}]
        /\ None \notin Companions
        /\ call \in [Companions -> Request \cup {None}]
    BY CompanionAssumption DEF TypeOK
  <1>s. SUFFICES ASSUME NEW d \in Companions, NEW v \in Players, Registering(d, v)'
                 PROVE  at'[v] = d
    BY DEF WantedInv
  <1>r. HostWaits(events'[d], v) \/ Putting(d, v)'
    BY <1>s, RegisteringIs
  <1>k. ASSUME at' = at, HostWaits(events'[d], v) => HostWaits(events[d], v),
               Putting(d, v)' => Putting(d, v)
        PROVE  at'[v] = d
    BY <1>k, <1>r, RegisteringIs DEF WantedInv
  <1>1. ASSUME NEW u \in Players, NEW c \in Companions \cup {None}, Move(u, c)
        PROVE  at'[v] = d
    <2>1. at'[v] = IF v = u THEN c ELSE at[v]
      BY <1>n, <1>1 DEF Move
    <2>2. Putting(d, v)' <=> Putting(d, v)
      BY <1>1 DEF Move, Putting
    <2>3. CASE d = c /\ u = v
      BY <2>1, <2>3
    <2>4. CASE ~(d = c /\ u = v)
      <3>1. Registering(d, v)
        BY <1>1, <1>r, <2>2, <2>4, MoveEvents, RegisteringIs
      <3>2. at[v] = d
        BY <3>1 DEF WantedInv
      <3>3. v # u
        BY <1>n, <1>1, <3>1, <3>2, MoveInHaste
      <3>4. QED
        BY <2>1, <3>2, <3>3
    <2>5. QED
      BY <2>3, <2>4
  <1>2. ASSUME NEW u \in Players, AskAgain(u) PROVE at'[v] = d
    <2>1. CASE d = at[u] /\ u = v
      BY <1>2, <2>1 DEF AskAgain
    <2>2. CASE ~(d = at[u] /\ u = v)
      <3>1. HostWaits(events'[d], v) => HostWaits(events[d], v)
        BY <1>2, <2>2, AskEvents
      <3>2. QED
        BY <1>k, <1>2, <3>1 DEF AskAgain, Putting
    <2>3. QED
      BY <2>1, <2>2
  <1>3. ASSUME NEW c \in Companions, NEW u \in Players, NoticeLeft(c, u) PROVE at'[v] = d
    <2>1. HostWaits(events'[d], v) => HostWaits(events[d], v)
      BY <1>3, NoticeEvents
    <2>2. QED
      BY <1>k, <1>3, <2>1 DEF NoticeLeft, Putting
  <1>4. ASSUME NEW c \in Companions, NEW u \in Players, RegisterBeforeUdp(c, u)
        PROVE  at'[v] = d
    <2>a. HostWaits(events[d], v) <=> HostWaits(events'[d], v) \/ (d = c /\ u = v)
      BY <1>4, RegisterEvents
    <2>b. Putting(d, v)' => Putting(d, v) \/ (d = c /\ u = v)
      BY <1>4, RegisterCalls
    <2>1. Registering(d, v)
      BY <1>r, <2>a, <2>b, RegisteringIs
    <2>2. QED
      BY <1>4, <2>1 DEF WantedInv, RegisterBeforeUdp, playerVars
  <1>5. ASSUME NEW c \in Companions, NEW u \in Players, Unregister(c, u) PROVE at'[v] = d
    <2>1. HostWaits(events'[d], v) => HostWaits(events[d], v)
      BY <1>5, UnregisterEvents
    <2>2. Putting(d, v)' => Putting(d, v)
      BY <1>5, OtherCalls
    <2>3. QED
      BY <1>k, <1>5, <2>1, <2>2 DEF Unregister, playerVars
  <1>6. ASSUME NEW c \in Companions, NEW u \in Players,
               Refreshes(c, u) \/ \E l \in Leases : UnregisterReplaced(c, u, l)
        PROVE  at'[v] = d
    BY <1>k, <1>6 DEF Refreshes, UnregisterReplaced, playerVars, Putting
  <1>7. ASSUME NEW c \in Companions, BeginClose(c) PROVE at'[v] = d
    <2>1. HostWaits(events'[d], v) => HostWaits(events[d], v)
      BY <1>7, CloseEvents
    <2>2. QED
      BY <1>k, <1>7, <2>1 DEF BeginClose, playerVars, Putting
  <1>8. ASSUME NEW c \in Companions, ShutdownNow(c) PROVE at'[v] = d
    BY <1>k, <1>8 DEF ShutdownNow, playerVars, Putting
  <1>9. ASSUME NEW m \in inFlight, ServePut(m) PROVE at'[v] = d
    <2>1. Putting(d, v)' => Putting(d, v)
      BY <1>n, <1>9 DEF ServePut, Putting
    <2>2. QED
      BY <1>k, <1>9, <2>1 DEF ServePut, playerVars
  <1>10. ASSUME NEW m \in inFlight, ServeOther(m) PROVE at'[v] = d
    <2>1. Putting(d, v)' => Putting(d, v)
      BY <1>10, OtherCalls
    <2>2. QED
      BY <1>k, <1>10, <2>1 DEF ServeOther, playerVars
  <1>11. ASSUME NEW u \in Players, Lapse(u) PROVE at'[v] = d
    BY <1>k, <1>11 DEF Lapse, playerVars, companionVars, Putting
  <1>12. CASE SweepExpired \/ UNCHANGED vars
    BY <1>k, <1>12 DEF SweepExpired, vars, playerVars, companionVars, Putting
  <1>13. QED
    BY <1>1, <1>2, <1>3, <1>4, <1>5, <1>6, <1>7, <1>8, <1>9, <1>10, <1>11, <1>12
       DEF CalmStep, CompanionStep, Serve

\* The voice host event of a player that comes back follows the event that it left.
LEMMA HereStep ==
    ASSUME TypeOK, PlaceInv, HereInv, CalmStep \/ UNCHANGED vars
    PROVE  HereInv'
  <1>n. at \in [Players -> Companions \cup {None}]
    BY DEF TypeOK
  <1>s. SUFFICES ASSUME NEW d \in Companions, NEW v \in Players, at'[v] = d,
                        LeftLast(events'[d], v)
                 PROVE  FALSE
    BY DEF HereInv
  <1>k. ASSUME at' = at, LeftLast(events'[d], v) => LeftLast(events[d], v) PROVE FALSE
    BY <1>k, <1>s DEF HereInv
  <1>1. ASSUME NEW u \in Players, NEW c \in Companions \cup {None}, Move(u, c) PROVE FALSE
    <2>1. at'[v] = IF v = u THEN c ELSE at[v]
      BY <1>n, <1>1 DEF Move
    <2>a. LeftLast(events'[d], v) => LeftLast(events[d], v) /\ (d = c => u # v)
      BY <1>1, MoveEvents
    <2>2. LeftLast(events[d], v) /\ (d = c => u # v)
      BY <1>s, <2>a
    <2>3. QED
      BY <1>s, <2>1, <2>2 DEF HereInv
  <1>2. ASSUME NEW u \in Players, AskAgain(u) PROVE FALSE
    <2>1. LeftLast(events'[d], v) => LeftLast(events[d], v)
      BY <1>2, AskEvents
    <2>2. QED
      BY <1>k, <1>2, <2>1 DEF AskAgain
  <1>3. ASSUME NEW c \in Companions, NEW u \in Players, NoticeLeft(c, u) PROVE FALSE
    <2>1. at[u] # c
      BY <1>3 DEF NoticeLeft, PlaceInv
    <2>2. LeftLast(events[d], v) \/ (d = c /\ u = v)
      BY <1>3, <1>s, NoticeEvents
    <2>3. QED
      BY <1>s, <1>3, <2>1, <2>2 DEF NoticeLeft, HereInv
  <1>4. ASSUME NEW c \in Companions, NEW u \in Players, RegisterBeforeUdp(c, u) PROVE FALSE
    <2>1. LeftLast(events'[d], v) => LeftLast(events[d], v)
      BY <1>4, RegisterEvents
    <2>2. QED
      BY <1>k, <1>4, <2>1 DEF RegisterBeforeUdp, playerVars
  <1>5. ASSUME NEW c \in Companions, NEW u \in Players, Unregister(c, u) PROVE FALSE
    <2>1. LeftLast(events'[d], v) => LeftLast(events[d], v)
      BY <1>5, UnregisterEvents
    <2>2. QED
      BY <1>k, <1>5, <2>1 DEF Unregister, playerVars
  <1>6. ASSUME NEW c \in Companions, NEW u \in Players,
               Refreshes(c, u) \/ \E l \in Leases : UnregisterReplaced(c, u, l)
        PROVE  FALSE
    BY <1>k, <1>6 DEF Refreshes, UnregisterReplaced, playerVars
  <1>7. ASSUME NEW c \in Companions, BeginClose(c) PROVE FALSE
    <2>1. LeftLast(events'[d], v) => LeftLast(events[d], v)
      BY <1>7, CloseEvents
    <2>2. QED
      BY <1>k, <1>7, <2>1 DEF BeginClose, playerVars
  <1>8. ASSUME NEW c \in Companions, ShutdownNow(c) PROVE FALSE
    BY <1>k, <1>8 DEF ShutdownNow, playerVars
  <1>9. ASSUME NEW m \in inFlight, Serve(m) PROVE FALSE
    BY <1>k, <1>9 DEF Serve, ServePut, ServeOther, playerVars
  <1>10. ASSUME NEW u \in Players, Lapse(u) PROVE FALSE
    BY <1>k, <1>10 DEF Lapse, playerVars, companionVars
  <1>11. CASE SweepExpired \/ UNCHANGED vars
    BY <1>k, <1>11 DEF SweepExpired, vars, playerVars, companionVars
  <1>12. QED
    BY <1>1, <1>2, <1>3, <1>4, <1>5, <1>6, <1>7, <1>8, <1>9, <1>10, <1>11
       DEF CalmStep, CompanionStep

\* Companions learn of a lease when it is granted.
LEMMA OldStep ==
    ASSUME IInv, TypeOK, OldInv, [Next]_vars, CalmStep \/ UNCHANGED vars
    PROVE  OldInv'
  <1>n. /\ tracked \in [Companions -> [Players -> Leases \cup {None}]]
        /\ queue \in [Companions -> SUBSET (Players \X Leases)]
        /\ inFlight \subseteq Request
    BY DEF TypeOK
  <1>t. \A c \in Companions, u \in Players : tracked[c][u] \in Leases \cup {None}
    BY <1>n
  <1>g. \A l \in Leases : l <= granted => l <= granted'
    <2>1. granted' = granted \/ granted' = granted + 1
      BY TableStep, LeasesOfAStep DEF RouterRestarts
    <2>2. granted \in Nat /\ Leases \subseteq Nat
      BY RegistryAssumption, SMTT(60) DEF IInv, Leases
    <2>3. ASSUME NEW l \in Nat, l <= granted PROVE l <= granted'
      BY <2>1, <2>2, <2>3, SMTT(60)
    <2>4. QED
      BY <2>2, <2>3
  <1>m. \A m \in inFlight : m.lease # None => m.lease <= granted'
    <2>1. \A m \in inFlight : m.lease \in Leases \cup {None}
      BY <1>n DEF Request
    <2>2. QED
      BY <1>g, <2>1 DEF OldInv
  <1>d. \A c \in Companions, u \in Players : tracked[c][u] # None => tracked[c][u] <= granted'
    BY <1>g, <1>t DEF OldInv
  <1>q. \A c \in Companions, u \in Players, l \in Leases : <<u, l>> \in queue[c] => l <= granted'
    BY <1>g DEF OldInv
  <1>1. ASSUME tracked' = tracked, queue' = queue, inFlight' \subseteq inFlight PROVE OldInv'
    BY <1>m, <1>d, <1>q, <1>1 DEF OldInv
  <1>2. ASSUME NEW c \in Companions, NEW u \in Players, RegisterBeforeUdp(c, u)
        PROVE  OldInv'
    <2>1. Req("PUT", c, u, None).lease = None
      BY DEF Req
    <2>2. inFlight' \subseteq inFlight \cup {Req("PUT", c, u, None)}
      BY <1>2 DEF RegisterBeforeUdp, Send
    <2>3. \A m \in inFlight' : m.lease # None => m.lease <= granted'
      BY <1>m, <2>1, <2>2
    <2>4. QED
      BY <1>d, <1>q, <1>2, <2>3 DEF OldInv, RegisterBeforeUdp
  <1>3. ASSUME NEW c \in Companions, NEW u \in Players, Unregister(c, u) PROVE OldInv'
    <2>1. Req("DELETE", c, u, tracked[c][u]).lease = tracked[c][u]
      BY DEF Req
    <2>2. inFlight' \subseteq inFlight \cup {Req("DELETE", c, u, tracked[c][u])}
      BY <1>3 DEF Unregister, Send
    <2>3. \A m \in inFlight' : m.lease # None => m.lease <= granted'
      BY <1>m, <1>d, <2>1, <2>2
    <2>4. \A d \in Companions, v \in Players :
             tracked'[d][v] = IF d = c /\ v = u THEN None ELSE tracked[d][v]
      BY <1>n, <1>3 DEF Unregister, Untrack
    <2>5. QED
      BY <1>d, <1>q, <1>3, <2>3, <2>4 DEF OldInv, Unregister
  <1>4. ASSUME NEW c \in Companions, NEW u \in Players, Refreshes(c, u) PROVE OldInv'
    <2>1. Req("refresh", c, u, tracked[c][u]).lease = tracked[c][u]
      BY DEF Req
    <2>2. inFlight' = inFlight \cup {Req("refresh", c, u, tracked[c][u])}
      BY <1>4 DEF Refreshes, Send
    <2>3. \A m \in inFlight' : m.lease # None => m.lease <= granted'
      BY <1>m, <1>d, <2>1, <2>2
    <2>4. QED
      BY <1>d, <1>q, <1>4, <2>3 DEF OldInv, Refreshes
  <1>5. ASSUME NEW c \in Companions, NEW u \in Players, NEW l \in Leases,
               UnregisterReplaced(c, u, l)
        PROVE  OldInv'
    <2>1. Req("DELETE", c, u, l).lease = l
      BY DEF Req
    <2>2. inFlight' = inFlight \cup {Req("DELETE", c, u, l)} /\ l <= granted'
      BY <1>q, <1>5 DEF UnregisterReplaced, Send
    <2>3. \A m \in inFlight' : m.lease # None => m.lease <= granted'
      BY <1>m, <2>1, <2>2
    <2>4. \A d \in Companions : queue'[d] \subseteq queue[d]
      BY <1>n, <1>5 DEF UnregisterReplaced
    <2>5. QED
      BY <1>d, <1>q, <1>5, <2>3, <2>4 DEF OldInv, UnregisterReplaced
  <1>6. ASSUME NEW c \in Companions, ShutdownNow(c) PROVE OldInv'
    <2>1. \A d \in Companions : queue'[d] \subseteq queue[d]
      BY <1>n, <1>6 DEF ShutdownNow
    <2>2. QED
      BY <1>m, <1>d, <1>q, <1>6, <2>1 DEF OldInv, ShutdownNow
  <1>7. ASSUME NEW m \in inFlight, ServePut(m) PROVE OldInv'
    <2>1. m.from \in Companions /\ m.player \in Players
      BY <1>n DEF Request
    <2>2. inFlight' \subseteq inFlight
      BY <1>7 DEF ServePut
    <2>3. CASE UNCHANGED <<tracked, queue>>
      BY <1>1, <2>2, <2>3
    <2>4. CASE Track(m.from, m.player, granted + 1)
      <3>1. granted + 1 <= granted'
        <4>1. granted' = granted + 1 /\ granted \in 0..MaxLease
          BY <1>7 DEF ServePut, Put, IInv
        <4>2. QED
          BY <4>1, RegistryAssumption, SMTT(60)
      <3>2. \A d \in Companions, v \in Players :
               tracked'[d][v] = IF d = m.from /\ v = m.player THEN granted + 1 ELSE tracked[d][v]
        BY <1>n, <2>1, <2>4 DEF Track
      <3>3. ASSUME NEW d \in Companions, NEW v \in Players, NEW l \in Leases,
                   <<v, l>> \in queue'[d]
            PROVE  l <= granted'
        <4>1. \/ <<v, l>> \in queue[d]
              \/ tracked[m.from][m.player] # None /\
                    <<v, l>> = <<m.player, tracked[m.from][m.player]>>
          BY <1>n, <2>1, <2>4, <3>3 DEF Track
        <4>2. <<v, l>> = <<m.player, tracked[m.from][m.player]>> =>
                 l = tracked[m.from][m.player]
          OBVIOUS
        <4>3. QED
          BY <1>d, <1>q, <2>1, <4>1, <4>2
      <3>4. QED
        BY <1>m, <1>d, <2>2, <3>1, <3>2, <3>3 DEF OldInv
    <2>5. QED
      BY <1>7, <2>3, <2>4 DEF ServePut
  <1>8. ASSUME NEW m \in inFlight, ServeOther(m) PROVE OldInv'
    BY <1>1, <1>8 DEF ServeOther
  <1>9. ASSUME NEW u \in Players, NEW c,
               Move(u, c) \/ AskAgain(u) \/ NoticeLeft(c, u) \/ Lapse(u)
        PROVE  OldInv'
    BY <1>1, <1>9 DEF Move, AskAgain, NoticeLeft, Lapse, companionVars
  <1>10. ASSUME NEW c, BeginClose(c) PROVE OldInv'
    BY <1>1, <1>10 DEF BeginClose
  <1>11. CASE SweepExpired \/ UNCHANGED vars
    BY <1>1, <1>11 DEF SweepExpired, vars, companionVars
  <1>12. QED
    BY <1>2, <1>3, <1>4, <1>5, <1>6, <1>7, <1>8, <1>9, <1>10, <1>11
       DEF CalmStep, CompanionStep, Serve

\* A claim that is held stays so when a step touches neither it nor its lease, and
\* sends no DELETE that names it.
LEMMA HoldsOn ==
    ASSUME NEW c \in Companions, NEW u \in Players, Holds(c, u),
           registrations'[u] = registrations[u], tracked'[c][u] = tracked[c][u],
           <<u, registrations[u].lease>> \notin queue'[c],
           \A m \in inFlight' :
              \/ m \in inFlight
              \/ ~(/\ m.op = "DELETE" /\ m.from = c /\ m.player = u
                   /\ m.lease = registrations[u].lease)
    PROVE  Holds(c, u)'
  BY DEF Holds

\* The PUT of a player's server claims the player under a new lease.
LEMMA PutClaims ==
    ASSUME IInv, TypeOK, OldInv, NEW m \in inFlight, ServePut(m), call[m.from] = m
    PROVE  Holds(m.from, m.player)'
  <1> DEFINE c == m.from
             u == m.player
             n == granted + 1
  <1>1. c \in Companions /\ u \in Players
    BY DEF TypeOK, Request
  <1>2. c[1] \in Backends /\ c[2] \in Owners
    BY <1>1 DEF Companions
  <1>3. Put(u, c[1], c[2]) /\ Track(c, u, n) /\ inFlight' \subseteq inFlight
    BY DEF ServePut
  <1> HIDE DEF c, u
  <1>a. \E r \in Registration :
           /\ r.backend = c[1] /\ r.owner = c[2] /\ r.lease = granted + 1
           /\ ~r.expired /\ r.generation <= granted + 1
           /\ registrations' = [registrations EXCEPT ![u] = r]
    BY <1>1, <1>2, <1>3, PutRecord, SMTT(60)
  <1>4. PICK r \in Registration :
           /\ r.backend = c[1] /\ r.owner = c[2] /\ r.lease = n /\ ~r.expired
           /\ registrations' = [registrations EXCEPT ![u] = r]
    BY <1>a
  <1>5. granted \in Nat
    BY <1>1, <1>2, <1>3, PutRecord
  <1>6. ~(n <= granted) /\ n # None
    <2>1. n \in Leases
      BY <1>1, <1>2, <1>3, PutRecord
    <2>2. n # None
      BY <2>1, CompanionAssumption
    <2>3. ~(n <= granted)
      BY <1>5, SMTT(60)
    <2>4. QED
      BY <2>2, <2>3
  <1>n. /\ tracked \in [Companions -> [Players -> Leases \cup {None}]]
        /\ queue \in [Companions -> SUBSET (Players \X Leases)]
        /\ registrations \in [Players -> Registration \cup {None}]
    BY DEF TypeOK, IInv
  <1>l. n \in Leases
    BY <1>1, <1>2, <1>3, PutRecord
  <1> HIDE DEF n
  <1>7. registrations'[u] = r /\ r # None
    BY <1>1, <1>4, <1>n, RegistryAssumption
  <1>8. tracked'[c][u] = n
    BY <1>1, <1>3, <1>n DEF Track
  <1>9. <<u, n>> \notin queue'[c]
    <2>1. <<u, n>> \notin queue[c]
      BY <1>1, <1>6, <1>l DEF OldInv
    <2>2. tracked[c][u] # None => <<u, n>> # <<u, tracked[c][u]>>
      <3>1. tracked[c][u] # None => tracked[c][u] # n
        BY <1>1, <1>6 DEF OldInv
      <3>2. QED
        BY <3>1
    <2>3. queue'[c] \subseteq queue[c] \cup (IF tracked[c][u] = None THEN {}
                                             ELSE {<<u, tracked[c][u]>>})
      BY <1>1, <1>3, <1>n DEF Track
    <2>4. QED
      BY <2>1, <2>2, <2>3
  <1>10. \A k \in inFlight' : k.lease # n
    BY <1>3, <1>6 DEF OldInv
  <1>11. Holds(c, u)'
    BY <1>4, <1>7, <1>8, <1>9, <1>10 DEF Holds
  <1>12. QED
    BY <1>11 DEF c, u

\* The claim of the server that a player is on is not touched by any other server.
LEMMA HeldStep ==
    ASSUME Roomy, IInv, TypeOK, PlaceInv, AwaitedInv, WantedInv, HereInv, OldInv, HeldInv,
           CalmStep \/ UNCHANGED vars
    PROVE  HeldInv'
  <1>n. /\ at \in [Players -> Companions \cup {None}]
        /\ call \in [Companions -> Request \cup {None}]
        /\ tracked \in [Companions -> [Players -> Leases \cup {None}]]
        /\ queue \in [Companions -> SUBSET (Players \X Leases)]
        /\ up \in [Companions -> {"up", "closing", "down"}]
        /\ registrations \in [Players -> Registration \cup {None}]
        /\ None \notin Companions
    BY CompanionAssumption DEF TypeOK, IInv
  <1>m. \A m \in inFlight : m \in Request /\ m.from \in Companions /\ m.player \in Players
    BY DEF TypeOK, Request
  <1>s. SUFFICES ASSUME NEW d \in Companions, NEW v \in Players, at'[v] = d,
                        ~Registering(d, v)'
                 PROVE  Holds(d, v)'
    BY DEF HeldInv
  <1>r. ~HostWaits(events'[d], v) /\ ~Putting(d, v)'
    BY <1>s, RegisteringIs
  <1>h. ASSUME at[v] = d, HostWaits(events[d], v) => HostWaits(events'[d], v),
               Putting(d, v) => Putting(d, v)'
        PROVE  Holds(d, v)
    BY <1>h, <1>r, RegisteringIs DEF HeldInv
  <1>q. Holds(d, v) => <<v, registrations[v].lease>> \notin queue[d]
    BY DEF Holds
  \* A step that concerns neither the table nor what is tracked.
  <1>k. ASSUME Holds(d, v), registrations' = registrations, tracked' = tracked, queue' = queue,
               inFlight' \subseteq inFlight
        PROVE  Holds(d, v)'
    BY <1>k, <1>q, HoldsOn
  <1>1. ASSUME NEW u \in Players, NEW c \in Companions \cup {None}, Move(u, c)
        PROVE  Holds(d, v)'
    <2>1. at'[v] = IF v = u THEN c ELSE at[v]
      BY <1>n, <1>1 DEF Move
    <2>2. /\ HostWaits(events[d], v) => HostWaits(events'[d], v)
          /\ d = c /\ u = v => HostWaits(events'[d], v)
      BY <1>1, MoveEvents
    <2>3. at[v] = d /\ (HostWaits(events[d], v) => HostWaits(events'[d], v))
      BY <1>s, <1>r, <2>1, <2>2
    <2>4. Holds(d, v)
      BY <1>h, <1>1, <2>3 DEF Move, Putting
    <2>5. QED
      BY <1>k, <1>1, <2>4 DEF Move, registryVars
  <1>2. ASSUME NEW u \in Players, AskAgain(u) PROVE Holds(d, v)'
    <2>1. HostWaits(events'[d], v) <=> HostWaits(events[d], v) \/ (d = at[u] /\ u = v)
      BY <1>2, AskEvents
    <2>2. Holds(d, v)
      BY <1>s, <1>h, <1>2, <2>1 DEF AskAgain, Putting
    <2>3. QED
      BY <1>k, <1>2, <2>2 DEF AskAgain, registryVars
  <1>3. ASSUME NEW c \in Companions, NEW u \in Players, NoticeLeft(c, u) PROVE Holds(d, v)'
    <2>1. HostWaits(events'[d], v) <=> HostWaits(events[d], v)
      BY <1>3, NoticeEvents
    <2>2. Holds(d, v)
      BY <1>s, <1>h, <1>3, <2>1 DEF NoticeLeft, Putting
    <2>3. QED
      BY <1>k, <1>3, <2>2 DEF NoticeLeft, registryVars
  <1>4. ASSUME NEW c \in Companions, NEW u \in Players, RegisterBeforeUdp(c, u)
        PROVE  Holds(d, v)'
    <2> DEFINE q == Req("PUT", c, u, None)
    <2>1. HostWaits(events[d], v) <=> HostWaits(events'[d], v) \/ (d = c /\ u = v)
      BY <1>4, RegisterEvents
    <2>2. Putting(c, u)' /\ (Putting(d, v) => Putting(d, v)')
      BY <1>4, RegisterCalls
    <2>3. ~(d = c /\ u = v)
      BY <1>r, <2>2
    <2>4. Holds(d, v)
      BY <1>s, <1>h, <1>4, <2>1, <2>2, <2>3 DEF RegisterBeforeUdp, playerVars
    <2>5. q.op = "PUT"
      BY DEF Req
    <2>6. inFlight' \subseteq inFlight \cup {q} /\ UNCHANGED <<registrations, tracked, queue>>
      BY <1>4 DEF RegisterBeforeUdp, Send, registryVars
    <2> HIDE DEF q
    <2>7. QED
      BY <1>q, <2>4, <2>5, <2>6, HoldsOn
  <1>5. ASSUME NEW c \in Companions, NEW u \in Players, Unregister(c, u) PROVE Holds(d, v)'
    <2> DEFINE q == Req("DELETE", c, u, tracked[c][u])
    <2>0. at[v] = d
      BY <1>s, <1>5 DEF Unregister, playerVars
    <2>1. HostWaits(events[d], v) <=> HostWaits(events'[d], v)
      BY <1>5, UnregisterEvents
    <2>2. Putting(d, v)' <=> Putting(d, v)
      BY <1>5, OtherCalls
    <2>3. ~(d = c /\ u = v)
      <3>1. SUFFICES ASSUME d = c, u = v PROVE FALSE
        OBVIOUS
      <3>2. up[c] = "up" /\ ~LeftLast(events[c], u)
        BY <2>0, <3>1 DEF PlaceInv, HereInv
      <3>3. HostWaits(events'[c], u)
        BY <1>5, <3>2, UnregisterEvents
      <3>4. QED
        BY <1>r, <3>1, <3>3
    <2>4. Holds(d, v)
      BY <1>h, <2>0, <2>1, <2>2
    <2>5. q.op = "DELETE" /\ q.from = c /\ q.player = u
      BY DEF Req
    <2>6. inFlight' \subseteq inFlight \cup {q} /\ UNCHANGED <<registrations, queue>>
      BY <1>5 DEF Unregister, Send, registryVars
    <2>7. tracked'[d][v] = tracked[d][v]
      BY <1>n, <1>5, <2>3 DEF Unregister, Untrack
    <2> HIDE DEF q
    <2>8. \A m \in inFlight' : m \in inFlight \/ ~(m.from = d /\ m.player = v)
      BY <2>3, <2>5, <2>6
    <2>9. QED
      BY <1>q, <2>4, <2>6, <2>7, <2>8, HoldsOn
  <1>6. ASSUME NEW c \in Companions, NEW u \in Players, Refreshes(c, u) PROVE Holds(d, v)'
    <2> DEFINE q == Req("refresh", c, u, tracked[c][u])
    <2>1. Holds(d, v)
      BY <1>s, <1>h, <1>6 DEF Refreshes, playerVars, Putting
    <2>2. q.op = "refresh"
      BY DEF Req
    <2>3. inFlight' \subseteq inFlight \cup {q} /\ UNCHANGED <<registrations, tracked, queue>>
      BY <1>6 DEF Refreshes, Send, registryVars
    <2> HIDE DEF q
    <2>4. QED
      BY <1>q, <2>1, <2>2, <2>3, HoldsOn
  <1>7. ASSUME NEW c \in Companions, NEW u \in Players, NEW l \in Leases,
               UnregisterReplaced(c, u, l)
        PROVE  Holds(d, v)'
    <2> DEFINE q == Req("DELETE", c, u, l)
    <2>1. Holds(d, v)
      BY <1>s, <1>h, <1>7 DEF UnregisterReplaced, playerVars, Putting
    <2>2. q.from = c /\ q.player = u /\ q.lease = l
      BY DEF Req
    <2>3. inFlight' \subseteq inFlight \cup {q} /\ UNCHANGED <<registrations, tracked>>
      BY <1>7 DEF UnregisterReplaced, Send, registryVars
    <2>4. queue'[d] \subseteq queue[d] /\ <<u, l>> \in queue[c]
      BY <1>n, <1>7 DEF UnregisterReplaced
    <2>5. ~(c = d /\ u = v /\ l = registrations[v].lease)
      BY <1>q, <2>1, <2>4
    <2> HIDE DEF q
    <2>6. ASSUME NEW m \in inFlight', m \notin inFlight
          PROVE  ~(m.from = d /\ m.player = v /\ m.lease = registrations[v].lease)
      <3>1. m = q
        BY <2>3, <2>6
      <3>2. QED
        BY <2>2, <2>5, <3>1
    <2>7. QED
      BY <1>q, <2>1, <2>3, <2>4, <2>6, HoldsOn
  <1>8. ASSUME NEW c \in Companions, BeginClose(c) PROVE Holds(d, v)'
    <2>1. at[v] = d /\ d # c
      BY <1>s, <1>8 DEF BeginClose, playerVars
    <2>2. events'[d] = events[d]
      BY <1>8, <2>1, CloseEvents
    <2>3. Holds(d, v)
      BY <1>h, <1>8, <2>1, <2>2 DEF BeginClose, Putting
    <2>4. QED
      BY <1>k, <1>8, <2>3 DEF BeginClose, registryVars
  <1>9. ASSUME NEW c \in Companions, ShutdownNow(c) PROVE Holds(d, v)'
    <2>1. Holds(d, v)
      BY <1>s, <1>h, <1>9 DEF ShutdownNow, playerVars, Putting
    <2>2. queue'[d] \subseteq queue[d]
      BY <1>n, <1>9 DEF ShutdownNow
    <2>3. QED
      BY <1>q, <1>9, <2>1, <2>2, HoldsOn DEF ShutdownNow, registryVars
  <1>10. ASSUME NEW m \in inFlight, ServePut(m) PROVE Holds(d, v)'
    <2>1. call[m.from] = m /\ m # None /\ m.op = "PUT"
      BY <1>m, <1>10, CompanionAssumption DEF AwaitedInv, ServePut
    <2>2. at[m.player] = m.from
      BY <1>m, <2>1 DEF WantedInv, Registering
    <2>3. at[v] = d /\ events' = events
      BY <1>s, <1>10 DEF ServePut, playerVars
    <2>4. CASE v = m.player
      BY <1>10, <2>1, <2>2, <2>3, <2>4, PutClaims
    <2>5. CASE v # m.player
      <3>1. Putting(d, v) => Putting(d, v)'
        BY <1>n, <1>m, <1>10, <2>1, <2>5 DEF ServePut, Putting
      <3>2. Holds(d, v)
        BY <1>h, <2>3, <3>1
      <3>3. registrations'[v] = registrations[v]
        BY <1>n, <1>m, <1>10, <2>5 DEF ServePut, Put
      <3>4. Track(m.from, m.player, granted + 1) /\ inFlight' \subseteq inFlight
        BY <1>10, <2>1 DEF ServePut
      <3>5. tracked'[d][v] = tracked[d][v]
        BY <1>n, <1>m, <2>5, <3>4 DEF Track
      <3>6. <<v, registrations[v].lease>> \notin queue'[d]
        <4>1. <<v, registrations[v].lease>> # <<m.player, tracked[m.from][m.player]>>
          BY <2>5
        <4>2. queue'[d] \subseteq queue[d] \cup {<<m.player, tracked[m.from][m.player]>>}
          BY <1>n, <1>m, <3>4 DEF Track
        <4>3. QED
          BY <1>q, <3>2, <4>1, <4>2
      <3>7. QED
        BY <3>2, <3>3, <3>4, <3>5, <3>6, HoldsOn
    <2>6. QED
      BY <2>4, <2>5
  <1>11. ASSUME NEW m \in inFlight, ServeOther(m) PROVE Holds(d, v)'
    <2>1. Putting(d, v)' <=> Putting(d, v)
      BY <1>11, OtherCalls
    <2>2. Holds(d, v)
      BY <1>s, <1>h, <1>11, <2>1 DEF ServeOther, playerVars
    <2>3. inFlight' \subseteq inFlight /\ tracked' = tracked /\ queue' = queue
      BY <1>11 DEF ServeOther
    <2>4. ASSUME registrations'[v] = registrations[v] PROVE Holds(d, v)'
      BY <1>q, <2>2, <2>3, <2>4, HoldsOn
    <2>5. CASE UNCHANGED registryVars
      BY <2>4, <2>5 DEF registryVars
    <2>6. CASE m.op = "refresh" /\ Refresh(m.player, m.from[1], m.from[2], m.lease)
      <3>1. CASE v # m.player
        BY <1>n, <1>m, <2>4, <2>6, <3>1 DEF Refresh
      <3>2. CASE v = m.player
        <4> DEFINE r == [registrations[v] EXCEPT !.expired = FALSE]
        <4>1. registrations[v] \in Registration
          BY <1>n, <2>2 DEF Holds
        <4>2. /\ r \in Registration
              /\ r.backend = registrations[v].backend /\ r.owner = registrations[v].owner
              /\ r.lease = registrations[v].lease /\ ~r.expired
          BY <4>1 DEF Registration
        <4>3. registrations'[v] = r
          BY <1>n, <2>6, <3>2 DEF Refresh
        <4> HIDE DEF r
        <4>4. r # None
          BY <4>2, RegistryAssumption
        <4>5. QED
          BY <2>2, <2>3, <4>2, <4>3, <4>4 DEF Holds
      <3>3. QED
        BY <3>1, <3>2
    <2>7. CASE m.op = "DELETE" /\ Delete(m.player, m.from[1], m.from[2], m.lease)
      <3>1. v # m.player
        <4>1. SUFFICES ASSUME v = m.player PROVE FALSE
          OBVIOUS
        <4>2. /\ m.from[1] = d[1] /\ m.from[2] = d[2] /\ m.lease = registrations[v].lease
          BY <2>2, <2>7, <4>1 DEF Delete, HoldsLease, Holds
        <4>3. m.from = d
          <5>1. m.from \in Backends \X Owners /\ d \in Backends \X Owners
            BY <1>m DEF Companions
          <5>2. QED
            BY <4>2, <5>1, SMTT(60)
        <4>4. QED
          BY <2>2, <2>7, <4>1, <4>2, <4>3 DEF Holds
      <3>2. QED
        BY <1>n, <1>m, <2>4, <2>7, <3>1 DEF Delete
    <2>8. QED
      BY <1>11, <2>5, <2>6, <2>7 DEF ServeOther
  <1>12. ASSUME NEW u \in Players, Lapse(u) PROVE Holds(d, v)'
    <2>1. Holds(d, v) /\ at[v] = d
      BY <1>s, <1>h, <1>12 DEF Lapse, playerVars, companionVars, Putting
    <2>2. up[d] = "up"
      BY <2>1 DEF PlaceInv
    <2>3. BeingRefreshed(v)
      BY <2>1, <2>2 DEF BeingRefreshed, Holds
    <2>4. u # v
      BY <1>12, <2>3 DEF Lapse, Roomy
    <2>5. registrations'[v] = registrations[v]
      BY <1>n, <1>12, <2>4 DEF Lapse, RegistrationTTLElapses
    <2>6. QED
      BY <1>q, <1>12, <2>1, <2>5, HoldsOn DEF Lapse, companionVars
  <1>13. CASE SweepExpired
    <2>1. Holds(d, v)
      BY <1>s, <1>h, <1>13 DEF SweepExpired, playerVars, companionVars, Putting
    <2>2. registrations'[v] = registrations[v]
      BY <1>13, <2>1 DEF SweepExpired, ExpireAll, Expired, Holds
    <2>3. QED
      BY <1>q, <1>13, <2>1, <2>2, HoldsOn DEF SweepExpired, companionVars
  <1>14. CASE UNCHANGED vars
    <2>1. Holds(d, v)
      BY <1>s, <1>h, <1>14 DEF vars, playerVars, companionVars, Putting
    <2>2. QED
      BY <1>k, <1>14, <2>1 DEF vars, registryVars, companionVars
  <1>15. QED
    BY <1>1, <1>2, <1>3, <1>4, <1>5, <1>6, <1>7, <1>8, <1>9, <1>10, <1>11, <1>12, <1>13, <1>14
       DEF CalmStep, CompanionStep, Serve

\* Every step of an orderly history keeps the invariant.
LEMMA OrderlyStep ==
    ASSUME Roomy, CompanionIInv, OrderlyInv, [Next]_vars
    PROVE  OrderlyInv'
  <1> SUFFICES ASSUME Orderly' PROVE (AwaitedInv /\ WantedInv /\ HereInv /\ OldInv /\ HeldInv)'
    BY DEF OrderlyInv
  <1>1. IInv /\ TypeOK /\ PlaceInv
    BY DEF CompanionIInv
  <1>2. Orderly /\ (CalmStep \/ UNCHANGED vars)
    BY <1>1, OrderlySoFar
  <1>3. AwaitedInv /\ WantedInv /\ HereInv /\ OldInv /\ HeldInv
    BY <1>2 DEF OrderlyInv
  <1>4. AwaitedInv' /\ WantedInv' /\ HereInv'
    BY <1>1, <1>2, <1>3, AwaitedStep, WantedStep, HereStep
  <1>5. OldInv'
    BY <1>1, <1>2, <1>3, OldStep
  <1>6. HeldInv'
    BY <1>1, <1>2, <1>3, HeldStep
  <1>7. QED
    BY <1>4, <1>5, <1>6

\* As long as players let their server register them before they move on and no call
\* fails, a player is claimed by the server it is on once everything has settled,
\* under the lease that this server refreshes.  This is for companions that can track
\* every player (otherwise one is turned away: config.maxTrackedPlayers) and refresh
\* in time (otherwise a claim lapses while its player is connected).
THEOREM OrderlyMove ==
    ASSUME Timely, IsFiniteSet(Players), Cardinality(Players) <= MaxTracked
    PROVE  Spec => []OrderlyMoveKeepsClaim
  <1>r. Roomy
    BY DEF Roomy
  <1>1. Init => OrderlyInv
    <2> SUFFICES ASSUME Init PROVE OrderlyInv
      OBVIOUS
    <2>1. \A c \in Companions, u \in Players : at[u] # c
      BY CompanionAssumption DEF Init
    <2>2. \A c \in Companions, u \in Players : ~Registering(c, u)
      BY NoEvents DEF Init, Registering, HostWaits
    <2>3. AwaitedInv /\ WantedInv /\ HereInv /\ HeldInv
      BY <2>1, <2>2 DEF AwaitedInv, WantedInv, HereInv, HeldInv, Init
    <2>4. OldInv
      BY DEF OldInv, Init
    <2>5. QED
      BY <2>3, <2>4 DEF OrderlyInv
  <1>2. CompanionIInv /\ OrderlyInv /\ [Next]_vars => OrderlyInv'
    BY <1>r, OrderlyStep
  <1>3. CompanionIInv /\ OrderlyInv => OrderlyMoveKeepsClaim
    <2> SUFFICES ASSUME CompanionIInv, OrderlyInv, ~bounds.hasty, bounds.faults = 0, Quiet,
                        NEW u \in Players, at[u] # None
                 PROVE  /\ registrations[u] # None
                        /\ Holder(u) = at[u]
                        /\ tracked[at[u]][u] = registrations[u].lease
      BY DEF OrderlyMoveKeepsClaim, CurrentServerHoldsPlayer
    <2>1. PICK c \in Companions : at[u] = c
      BY DEF CompanionIInv, TypeOK
    <2>2. Settled(c, u)
      BY DEF Quiet
    <2>3. <<"host", u>>[2] = u
      OBVIOUS
    <2>4. ~Registering(c, u)
      BY <2>2, <2>3 DEF Settled, Registering
    <2>5. Holds(c, u)
      BY <2>1, <2>4 DEF OrderlyInv, Orderly, HeldInv
    <2>6. c = <<c[1], c[2]>>
      BY SMTT(60) DEF Companions
    <2>7. QED
      BY <2>1, <2>5, <2>6 DEF Holds, Holder
  <1>4. QED
    BY <1>1, <1>2, <1>3, CompanionInvariance, PTL DEF Spec
==============================================================================
