--------------------------- MODULE VoiceChatProofs ---------------------------
(***************************************************************************)
(* Proofs about the voice chat runtime: no socket is forgotten, the table  *)
(* holds live sessions under their own keys, a datagram is forwarded under *)
(* the lease it was looked up under, the session gauge never undercounts,  *)
(* and a runtime that has ended holds nothing but what late control        *)
(* requests are about to close.                                            *)
(***************************************************************************)
EXTENDS VoiceChat, TLAPS

\* Steps are for Zenon, unless they name the other prover; they are small, and the
\* limit is for a busy machine.
USE ZenonT(60)

\* A generation counts the grants for one player.
RegInv ==
    /\ RegistryTypeOK
    /\ \A u \in Players : registrations[u] # None => registrations[u].generation <= granted

Closing == {"closeSession", "finishClose"}

\* Where a goroutine can be.
LabelOK(t) ==
    /\ t = Reader  => pc[t] \in {"read", "sessionFor", "closeStale", "checkLimit", "dial",
                                 "write", "done"} \cup Closing
    /\ t = Expirer => pc[t] \in {"tick", "sweep", "snapshot", "idleCheck", "done"} \cup Closing
    /\ t = Main    => pc[t] \in {"serve", "closeListener", "sweep", "wait", "done"}
    /\ t \in Handlers => pc[t] \in {"idle", "sweep"}
    /\ t \in Sess  => pc[t] \in {"off", "read", "send", "done"} \cup Closing

\* A goroutine has sessions to close only where it closes them, and one at a time but
\* for closeSessionsForUUID and Close.
TodoOK(t) ==
    /\ pc[t] \in Closing \cup {"closeStale"} => \E x \in Sess \X BOOLEAN : todo[t] = {x}
    /\ pc[t] \notin Closing \cup {"closeStale", "sweep", "closeListener"} => todo[t] = {}
    /\ pc[t] \notin Closing => \A x \in todo[t] : x[2]
    /\ pc[t] = "closeSession" => \A x \in todo[t] : ~x[2]

LabelInv == \A t \in Threads : LabelOK(t) /\ TodoOK(t)

\* What a goroutine holds on to was made, and has left the table by the time it is
\* to be closed.
KeyInv ==
    /\ \A s \in Sess : pc[s] = "off" <=> info[s] = None
    /\ \A s \in open \cup snap : info[s] # None
    /\ \A t \in Threads : \A x \in todo[t] :
          /\ info[x[1]] # None
          /\ x[2] \/ pc[t] = "finishClose" => ~IsCurrent(x[1])

\* The datagram in the reader's hands.  From the first critical section of sessionFor
\* on there is no session for it, since only the reader makes one.
ReaderInv ==
    /\ pc[Reader] \in {"sessionFor", "closeStale", "checkLimit", "dial", "write"} => rx \in Packet
    /\ pc[Reader] \in {"closeStale", "checkLimit", "dial"} => sessions[rx.key] = None
    /\ pc[Reader] = "write" => rx.sess \in Sess /\ ForwardsUnderLookedUpLease

\* The wait group of the runtime is empty.
AtRest == \A t \in {Reader, Expirer} \cup Sess : pc[t] \in {"off", "done"}

\* A closed runtime has an empty table, which nothing fills again, and Serve returns
\* after all goroutines but those of requests.
ClosedInv ==
    /\ closed <=> pc[Main] # "serve"
    /\ closed => InTable = {}
    /\ pc[Main] = "done" => AtRest

GaugeInv == IsFiniteSet(open) /\ GaugeNeverUndercounts

IInv ==
    /\ TypeOK
    /\ RegInv
    /\ LabelInv
    /\ KeyInv
    /\ TableIsLive
    /\ ReaderInv
    /\ ClosedInv
    /\ NoOrphanSocket
    /\ GaugeInv

-----------------------------------------------------------------------------
\* The goroutines are different ones.
LEMMA ThreadFacts ==
    /\ Reader \in Threads /\ Expirer \in Threads /\ Main \in Threads
    /\ Handlers \subseteq Threads /\ Sess \subseteq Threads
    /\ Reader # Expirer /\ Reader # Main /\ Expirer # Main
    /\ \A h \in Handlers : h # Reader /\ h # Expirer /\ h # Main /\ h \notin Sess
    /\ \A s \in Sess : s # Reader /\ s # Expirer /\ s # Main /\ s \notin Handlers
    /\ \A t \in Threads : t = Reader \/ t = Expirer \/ t = Main \/ t \in Handlers \/ t \in Sess
  BY VoiceChatAssumption DEF Threads, Reader, Expirer, Main

-----------------------------------------------------------------------------
(* The registration table. *)

\* Every step is one of a critical section of the registry, or leaves it alone.
LEMMA RegistryStep ==
    ASSUME [Next]_vars
    PROVE  [RegistryNext]_registryVars
  <1> USE DEF registryVars
  <1>1. CASE EnvStep
    BY <1>1 DEF EnvStep, RegistryNext, RegistrationExpires, IdleTimeoutElapses, PutRegistration,
                RefreshRegistration, DeleteRegistration, ReceivePacket, ReceiveExpired,
                ReadReply, SessionSocketFails, Close
  <1>2. ASSUME NEW t \in Threads, ClosingStep(t) PROVE UNCHANGED registryVars
    BY <1>2 DEF ClosingStep, RemoveSessionsForUUID, CloseRemoved, CloseSession, FinishClose
  <1>3. CASE ReaderStep
    BY <1>3 DEF ReaderStep, FindSession, CloseStale, CheckLimit, DialFailsOrRefused,
                InsertSession, WriteBackend, ReaderExits
  <1>4. ASSUME NEW s \in Sess, SessionStep(s) PROVE UNCHANGED registryVars
    BY <1>4 DEF SessionStep, SendReply, SessionReaderExits
  <1>5. CASE ExpirerStep
    BY <1>5 DEF ExpirerStep, RegistryNext, ExpireRegistrations, SnapshotSessions, CheckIdle,
                ExpirerExits
  <1>6. CASE MainStep
    BY <1>6 DEF MainStep, CloseListener, ServeReturns
  <1>7. CASE UNCHANGED vars
    BY <1>7 DEF vars
  <1>8. QED
    BY <1>1, <1>2, <1>3, <1>4, <1>5, <1>6, <1>7 DEF Next

\* A PUT stores a registration with the next generation.
LEMMA PutKeeps ==
    ASSUME RegInv, NEW u \in Players, NEW b \in Backends, NEW o \in Owners, Put(u, b, o)
    PROVE  RegInv'
  <1> DEFINE g == IF registrations[u] = None THEN 1 ELSE registrations[u].generation + 1
             r == [backend |-> b, owner |-> o, lease |-> granted + 1, expired |-> FALSE,
                   generation |-> g]
  <1>1. MaxLease \in Nat /\ granted \in Nat /\ granted + 1 \in Leases
    BY RegistryAssumption, SMTT(60) DEF Put, RegInv, RegistryTypeOK, Leases
  <1>2. \A v \in Players : registrations[v] # None => registrations[v].generation \in 1..granted
    BY <1>1, SMTT(60) DEF RegInv, RegistryTypeOK, Registration, Leases
  <1>3. g \in 1..granted + 1
    BY <1>1, <1>2, SMTT(60)
  <1>4. r \in Registration /\ r.generation <= granted + 1
    BY <1>1, <1>3, SMTT(60) DEF Registration, Leases
  <1>5. registrations' = [registrations EXCEPT ![u] = r] /\ granted' = granted + 1
        /\ closed' = closed
    BY DEF Put
  <1> HIDE DEF r, g
  <1>6. \A v \in Players : registrations'[v] # None => registrations'[v].generation <= granted + 1
    BY <1>1, <1>2, <1>4, <1>5, SMTT(60) DEF RegInv, RegistryTypeOK
  <1>7. registrations' \in [Players -> Registration \cup {None}]
    BY <1>4, <1>5 DEF RegInv, RegistryTypeOK
  <1>8. QED
    BY <1>1, <1>5, <1>6, <1>7, SMTT(60) DEF RegInv, RegistryTypeOK, Leases

\* Every critical section keeps the registrations well-formed.
LEMMA RegInvStep ==
    ASSUME RegInv, [RegistryNext]_registryVars
    PROVE  RegInv'
  <1>1. ASSUME NEW u \in Players, registrations[u] # None, NEW b \in BOOLEAN,
               registrations' = [registrations EXCEPT ![u].expired = b],
               UNCHANGED <<closed, granted>>
        PROVE  RegInv'
    <2>1. registrations[u] \in Registration
      BY <1>1 DEF RegInv, RegistryTypeOK
    <2>2. /\ [registrations[u] EXCEPT !.expired = b] \in Registration
          /\ [registrations[u] EXCEPT !.expired = b].generation = registrations[u].generation
      BY <2>1 DEF Registration
    <2>3. QED
      BY <1>1, <2>2 DEF RegInv, RegistryTypeOK
  <1>2. ASSUME NEW u \in Players,
               \/ RegistrationTTLElapses(u)
               \/ \E b \in Backends, o \in Owners, l \in Leases : Refresh(u, b, o, l)
        PROVE  RegInv'
    BY <1>1, <1>2 DEF RegistrationTTLElapses, Refresh, HoldsLease
  <1>3. ASSUME NEW u \in Players,
               \/ LookupExpired(u)
               \/ \E b \in Backends, o \in Owners, l \in Leases : Delete(u, b, o, l)
        PROVE  RegInv'
    BY <1>3 DEF LookupExpired, Delete, RegInv, RegistryTypeOK
  <1>4. CASE ExpireAll \/ CloseRegistry
    BY <1>4 DEF ExpireAll, CloseRegistry, RegInv, RegistryTypeOK
  <1>5. CASE UNCHANGED registryVars
    BY <1>5 DEF registryVars, RegInv, RegistryTypeOK
  <1>6. QED
    BY <1>2, <1>3, <1>4, <1>5, PutKeeps DEF RegistryNext

-----------------------------------------------------------------------------
(* Types. *)

\* What the reader works on, and what a session was made with, are well-formed.
LEMMA RecordFacts ==
    ASSUME TypeOK
    PROVE  /\ \A s \in Sess : info[s] # None => info[s] \in Session /\ info[s].key \in Keys
           /\ rx \in Packet => rx.key \in Keys /\ rx.reg \in Registration
           /\ \A k \in InTable : k \in Keys /\ sessions[k] \in Sess
  BY DEF TypeOK, Session, Packet, InTable

\* Entries of todo.
LEMMA PairFacts ==
    ASSUME NEW s \in Sess, NEW b \in BOOLEAN
    PROVE  {<<s, b>>} \in SUBSET (Sess \X BOOLEAN)
  BY SMTT(60)

\* Every step keeps the types, given those of the registrations after it.
LEMMA TypeStep ==
    ASSUME TypeOK, RegInv', LabelInv, KeyInv, ReaderInv, [Next]_vars
    PROVE  TypeOK'
  <1>t. RegistryTypeOK'
    BY DEF RegInv
  <1>f. /\ \A s \in Sess : info[s] # None => info[s] \in Session /\ info[s].key \in Keys
        /\ rx \in Packet => rx.key \in Keys /\ rx.reg \in Registration
        /\ \A k \in InTable : k \in Keys /\ sessions[k] \in Sess
    BY RecordFacts
  <1>w. \A t \in Threads : AfterSweep(t) \in Labels
    BY DEF AfterSweep, Labels
  <1>g. \A t, l : Goto(t, l) /\ l \in Labels => pc' \in [Threads -> Labels]
    BY DEF Goto, TypeOK
  <1>p. \A s \in Sess : {<<s, TRUE>>} \in SUBSET (Sess \X BOOLEAN)
                        /\ {<<s, FALSE>>} \in SUBSET (Sess \X BOOLEAN)
    BY PairFacts
  <1>o. \A t, X : todo' = [todo EXCEPT ![t] = X] /\ X \in SUBSET (Sess \X BOOLEAN)
                  => todo' \in [Threads -> SUBSET (Sess \X BOOLEAN)]
    BY DEF TypeOK
  <1>u. UNCHANGED todo => todo' \in [Threads -> SUBSET (Sess \X BOOLEAN)]
    BY DEF TypeOK
  <1>1. CASE EnvStep
    <2>1. ASSUME NEW u \in Players, RegistrationExpires(u) PROVE TypeOK'
      BY <1>t, <2>1 DEF RegistrationExpires, TypeOK
    <2>2. ASSUME NEW s \in Sess, IdleTimeoutElapses(s) PROVE TypeOK'
      BY <1>t, <2>2 DEF IdleTimeoutElapses, TypeOK
    <2>3. ASSUME NEW h \in Handlers, NEW u \in Players, NEW b \in Backends, NEW o \in Owners,
                 PutRegistration(h, u, b, o)
          PROVE  TypeOK'
      <3>1. pc' \in [Threads -> Labels]
        BY <1>g, <2>3 DEF PutRegistration, Labels
      <3>2. QED
        BY <1>t, <2>3, <3>1 DEF PutRegistration, TypeOK
    <2>4. ASSUME NEW u \in Players, NEW b \in Backends, NEW o \in Owners, NEW l \in Leases,
                 RefreshRegistration(u, b, o, l)
          PROVE  TypeOK'
      BY <1>t, <2>4 DEF RefreshRegistration, TypeOK
    <2>5. ASSUME NEW h \in Handlers, NEW u \in Players, NEW b \in Backends, NEW o \in Owners,
                 NEW l \in Leases, DeleteRegistration(h, u, b, o, l)
          PROVE  TypeOK'
      <3>1. pc' \in [Threads -> Labels]
        BY <1>g, <2>5 DEF DeleteRegistration, Labels
      <3>2. QED
        BY <1>t, <2>5, <3>1 DEF DeleteRegistration, TypeOK
    <2>6. ASSUME NEW u \in Players, NEW a \in Addrs, ReceivePacket(u, a) PROVE TypeOK'
      <3>1. pc' \in [Threads -> Labels]
        BY <1>g, <2>6 DEF ReceivePacket, Labels
      <3>2. registrations[u] \in Registration
        BY <2>6 DEF ReceivePacket, Usable, TypeOK, RegistryTypeOK
      <3>3. rx' \in Packet
        BY <2>6, <3>2 DEF ReceivePacket, Packet, Keys
      <3>4. QED
        BY <1>t, <2>6, <3>1, <3>3 DEF ReceivePacket, TypeOK
    <2>7. ASSUME NEW u \in Players, ReceiveExpired(u) PROVE TypeOK'
      BY <1>t, <2>7 DEF ReceiveExpired, TypeOK
    <2>8. ASSUME NEW s \in Sess, ReadReply(s) PROVE TypeOK'
      <3>1. pc' \in [Threads -> Labels]
        BY <1>g, <2>8 DEF ReadReply, Labels
      <3>2. QED
        BY <1>t, <2>8, <3>1 DEF ReadReply, TypeOK
    <2>9. ASSUME NEW s \in Sess, SessionSocketFails(s) PROVE TypeOK'
      <3>1. pc' \in [Threads -> Labels]
        BY <1>g, <2>9 DEF SessionSocketFails, Labels
      <3>2. todo' \in [Threads -> SUBSET (Sess \X BOOLEAN)]
        BY <1>p, <1>o, <1>u, <2>9 DEF SessionSocketFails
      <3>3. QED
        BY <1>t, <2>9, <3>1, <3>2 DEF SessionSocketFails, TypeOK
    <2>10. CASE Close
      <3>1. pc' \in [Threads -> Labels]
        BY <1>g, <2>10 DEF Close, Labels
      <3>2. {sessions[k] : k \in InTable} \X {TRUE} \subseteq Sess \X BOOLEAN
        BY <1>f
      <3>3. todo' \in [Threads -> SUBSET (Sess \X BOOLEAN)]
        BY <2>10, <3>2 DEF Close, TypeOK
      <3>4. QED
        BY <1>t, <2>10, <3>1, <3>3 DEF Close, TypeOK
    <2>11. QED
      BY <1>1, <2>1, <2>2, <2>3, <2>4, <2>5, <2>6, <2>7, <2>8, <2>9, <2>10 DEF EnvStep
  <1>2. ASSUME NEW t \in Threads, ClosingStep(t) PROVE TypeOK'
    <2>1. ASSUME NEW u \in Players, RemoveSessionsForUUID(t, u) PROVE TypeOK'
      <3>1. pc' \in [Threads -> Labels]
        BY <1>g, <1>w, <2>1 DEF RemoveSessionsForUUID, Labels
      <3>2. SessionsOf(u) \X {TRUE} \subseteq Sess \X BOOLEAN
        BY <1>f DEF SessionsOf
      <3>3. todo' \in [Threads -> SUBSET (Sess \X BOOLEAN)]
        BY <2>1, <3>2 DEF RemoveSessionsForUUID, TypeOK
      <3>4. sweep' \in [Threads -> SUBSET Players] /\ sessions' \in [Keys -> Sess \cup {None}]
        BY <2>1 DEF RemoveSessionsForUUID, TypeOK
      <3>5. QED
        BY <1>t, <2>1, <3>1, <3>3, <3>4 DEF RemoveSessionsForUUID, TypeOK
    <2>2. ASSUME NEW s \in Sess, CloseRemoved(t, s) PROVE TypeOK'
      <3>1. pc' \in [Threads -> Labels]
        BY <1>g, <1>w, <2>2 DEF CloseRemoved, Labels
      <3>2. todo' \in [Threads -> SUBSET (Sess \X BOOLEAN)]
        BY <2>2 DEF CloseRemoved, TypeOK
      <3>3. sessionGauge' \in Int
        BY <2>2, SMTT(60) DEF CloseRemoved, Shut, TypeOK
      <3>4. QED
        BY <1>t, <2>2, <3>1, <3>2, <3>3 DEF CloseRemoved, Shut, TypeOK
    <2>3. ASSUME NEW s \in Sess, CloseSession(t, s) PROVE TypeOK'
      <3>1. pc' \in [Threads -> Labels]
        BY <1>g, <2>3 DEF CloseSession, Labels
      <3>2. todo' \in [Threads -> SUBSET (Sess \X BOOLEAN)]
        BY <1>p, <1>o, <1>u, <2>3 DEF CloseSession
      <3>3. sessions' \in [Keys -> Sess \cup {None}]
        BY <2>3 DEF CloseSession, TypeOK
      <3>4. QED
        BY <1>t, <2>3, <3>1, <3>2, <3>3 DEF CloseSession, TypeOK
    <2>4. ASSUME NEW s \in Sess, NEW counted \in BOOLEAN, FinishClose(t, s, counted) PROVE TypeOK'
      <3>1. pc' \in [Threads -> Labels]
        BY <1>g, <2>4 DEF FinishClose, Labels
      <3>2. todo' \in [Threads -> SUBSET (Sess \X BOOLEAN)]
        BY <2>4 DEF FinishClose, TypeOK
      <3>3. sessionGauge' \in Int
        BY <2>4, SMTT(60) DEF FinishClose, Shut, TypeOK
      <3>4. QED
        BY <1>t, <2>4, <3>1, <3>2, <3>3 DEF FinishClose, Shut, TypeOK
    <2>5. QED
      BY <1>2, <2>1, <2>2, <2>3, <2>4 DEF ClosingStep
  <1>3. CASE ReaderStep
    <2>1. CASE FindSession
      <3>1. pc' \in [Threads -> Labels]
        BY <1>g, <2>1 DEF FindSession, Drop, Labels
      <3>2. rx \in Packet
        BY <2>1 DEF FindSession, ReaderInv
      <3>3. sessions[rx.key] \in Sess \cup {None}
        BY <1>f, <3>2 DEF TypeOK
      <3>4. rx' \in Packet \cup {None}
        BY <2>1, <3>2, <3>3 DEF FindSession, Drop, Packet
      <3>5. todo' \in [Threads -> SUBSET (Sess \X BOOLEAN)]
        BY <1>p, <1>o, <1>u, <2>1, <3>3 DEF FindSession
      <3>6. sessions' \in [Keys -> Sess \cup {None}]
        BY <2>1 DEF FindSession, TypeOK
      <3>7. QED
        BY <1>t, <2>1, <3>1, <3>4, <3>5, <3>6 DEF FindSession, TypeOK
    <2>2. ASSUME NEW s \in Sess, CloseStale(s) PROVE TypeOK'
      <3>1. pc' \in [Threads -> Labels]
        BY <1>g, <2>2 DEF CloseStale, Labels
      <3>2. todo' \in [Threads -> SUBSET (Sess \X BOOLEAN)]
        BY <2>2 DEF CloseStale, TypeOK
      <3>3. sessionGauge' \in Int
        BY <2>2, SMTT(60) DEF CloseStale, Shut, TypeOK
      <3>4. QED
        BY <1>t, <2>2, <3>1, <3>2, <3>3 DEF CloseStale, Shut, TypeOK
    <2>3. CASE CheckLimit
      <3>1. pc' \in [Threads -> Labels]
        BY <1>g, <2>3 DEF CheckLimit, Drop, Labels
      <3>2. QED
        BY <1>t, <2>3, <3>1 DEF CheckLimit, Drop, TypeOK
    <2>4. CASE DialFailsOrRefused
      <3>1. pc' \in [Threads -> Labels]
        BY <1>g, <2>4 DEF DialFailsOrRefused, Drop, Labels
      <3>2. QED
        BY <1>t, <2>4, <3>1 DEF DialFailsOrRefused, Drop, TypeOK
    <2>5. ASSUME NEW s \in Sess, InsertSession(s) PROVE TypeOK'
      <3>1. pc' \in [Threads -> Labels]
        BY <2>5 DEF InsertSession, Goto, TypeOK, Labels
      <3>2. rx \in Packet /\ rx.key \in Keys /\ rx.reg \in Registration
        BY <1>f, <2>5 DEF InsertSession, ReaderInv
      <3>3. [key |-> rx.key, backend |-> rx.reg.backend, lease |-> rx.reg.lease,
             generation |-> rx.reg.generation] \in Session
        BY <3>2 DEF Session, Registration
      <3>4. info' \in [Sess -> Session \cup {None}]
        BY <2>5, <3>3 DEF InsertSession, TypeOK
      <3>5. rx' \in Packet
        <4>1. sessions[rx.key] \in Sess \cup {None}
          BY <3>2 DEF TypeOK
        <4>2. QED
          BY <2>5, <3>2, <4>1 DEF InsertSession, Packet
      <3>6. sessions' \in [Keys -> Sess \cup {None}]
        BY <2>5, SMTT(60) DEF InsertSession, TypeOK
      <3>7. sessionGauge' \in Int /\ open' \subseteq Sess
        BY <2>5, SMTT(60) DEF InsertSession, TypeOK
      <3>8. QED
        BY <1>t, <2>5, <3>1, <3>4, <3>5, <3>6, <3>7 DEF InsertSession, TypeOK
    <2>6. CASE WriteBackend
      <3>1. pc' \in [Threads -> Labels]
        BY <1>g, <2>6 DEF WriteBackend, Drop, Labels
      <3>2. rx.sess \in Sess
        BY <2>6 DEF WriteBackend, ReaderInv
      <3>3. todo' \in [Threads -> SUBSET (Sess \X BOOLEAN)]
        BY <1>p, <1>o, <1>u, <2>6, <3>2 DEF WriteBackend
      <3>4. QED
        BY <1>t, <2>6, <3>1, <3>3 DEF WriteBackend, Drop, TypeOK
    <2>7. CASE ReaderExits
      <3>1. pc' \in [Threads -> Labels]
        BY <1>g, <2>7 DEF ReaderExits, Labels
      <3>2. QED
        BY <1>t, <2>7, <3>1 DEF ReaderExits, TypeOK
    <2>8. QED
      BY <1>3, <2>1, <2>2, <2>3, <2>4, <2>5, <2>6, <2>7 DEF ReaderStep
  <1>4. ASSUME NEW s \in Sess, SessionStep(s) PROVE TypeOK'
    <2>1. pc' \in [Threads -> Labels]
      BY <1>g, <1>4 DEF SessionStep, SendReply, SessionReaderExits, Labels
    <2>2. QED
      BY <1>t, <1>4, <2>1 DEF SessionStep, SendReply, SessionReaderExits, TypeOK
  <1>5. CASE ExpirerStep
    <2>1. CASE ExpireRegistrations
      <3>1. pc' \in [Threads -> Labels]
        BY <1>g, <2>1 DEF ExpireRegistrations, Labels
      <3>2. Expired \subseteq Players
        BY DEF Expired, Registered
      <3>3. QED
        BY <1>t, <2>1, <3>1, <3>2 DEF ExpireRegistrations, TypeOK
    <2>2. CASE SnapshotSessions
      <3>1. pc' \in [Threads -> Labels]
        BY <1>g, <2>2 DEF SnapshotSessions, Labels
      <3>2. snap' \subseteq Sess
        BY <1>f, <2>2 DEF SnapshotSessions
      <3>3. QED
        BY <1>t, <2>2, <3>1, <3>2 DEF SnapshotSessions, TypeOK
    <2>3. ASSUME NEW s \in Sess, CheckIdle(s) PROVE TypeOK'
      <3>1. pc' \in [Threads -> Labels]
        BY <1>g, <2>3 DEF CheckIdle, Labels
      <3>2. todo' \in [Threads -> SUBSET (Sess \X BOOLEAN)]
        BY <1>p, <1>o, <1>u, <2>3 DEF CheckIdle
      <3>3. QED
        BY <1>t, <2>3, <3>1, <3>2 DEF CheckIdle, TypeOK
    <2>4. CASE ExpirerExits
      <3>1. pc' \in [Threads -> Labels]
        BY <1>g, <2>4 DEF ExpirerExits, Labels
      <3>2. QED
        BY <1>t, <2>4, <3>1 DEF ExpirerExits, TypeOK
    <2>5. QED
      BY <1>5, <2>1, <2>2, <2>3, <2>4 DEF ExpirerStep
  <1>6. CASE MainStep
    <2>1. pc' \in [Threads -> Labels]
      BY <1>g, <1>w, <1>6, ThreadFacts DEF MainStep, CloseListener, ServeReturns, Labels
    <2>2. QED
      BY <1>t, <1>6, <2>1 DEF MainStep, CloseListener, ServeReturns, TypeOK, registryVars
  <1>7. CASE UNCHANGED vars
    BY <1>t, <1>7 DEF vars, TypeOK
  <1>8. QED
    BY <1>1, <1>2, <1>3, <1>4, <1>5, <1>6, <1>7 DEF Next

-----------------------------------------------------------------------------
(* The kinds of steps, as far as the tables and sockets are concerned. *)

\* Goroutine t moves, the others stay where they are.
Frame(t) ==
    /\ pc[t] \notin {"off", "done"} /\ pc'[t] # "off"
    /\ \A u \in Threads \ {t} : pc'[u] = pc[u] /\ todo'[u] = todo[u]
    /\ LabelOK(t)' /\ TodoOK(t)'
    /\ IF t = Reader THEN ReaderInv' ELSE rx' = rx
    /\ t = Main => /\ pc[t] = "serve" => closed'
                   /\ pc'[t] # "serve"
                   /\ pc'[t] = "done" => AtRest

\* It may find a session to close.
Moves(t) ==
    /\ Frame(t)
    /\ UNCHANGED <<sessions, info, open, sessionGauge>>
    /\ \/ /\ todo'[t] = todo[t]
          /\ pc'[t] = "finishClose" => \A x \in todo[t] : ~IsCurrent(x[1])
       \/ /\ todo[t] = {} /\ pc'[t] # "finishClose"
          /\ \E s \in Sess : info[s] # None /\ todo'[t] = {<<s, FALSE>>}

\* It takes sessions out of the table, to close them after the unlock.
TakesOut(t, S) ==
    /\ Frame(t)
    /\ \A s \in S : \E k \in InTable : sessions[k] = s
    /\ \A k \in Keys : sessions'[k] = IF sessions[k] \in S THEN None ELSE sessions[k]
    /\ UNCHANGED <<info, open, sessionGauge>>
    /\ todo'[t] = S \X {TRUE}
    /\ \A x \in todo[t] : ~x[2]

\* It closes a session.
Shuts(t, s, counted) ==
    /\ Frame(t)
    /\ UNCHANGED <<sessions, info>>
    /\ <<s, counted>> \in todo[t]
    /\ todo'[t] = todo[t] \ {<<s, counted>>}
    /\ pc'[t] # "finishClose"
    /\ ~IsCurrent(s)
    /\ open' = open \ {s}
    /\ sessionGauge' = IF counted /\ s \in open THEN sessionGauge - 1 ELSE sessionGauge

\* The reader puts a new session into the table.
Inserts(s) ==
    /\ pc[Reader] = "dial" /\ pc'[Reader] = "write"
    /\ pc[s] = "off" /\ pc'[s] = "read"
    /\ \A t \in Threads \ {Reader, s} : pc'[t] = pc[t]
    /\ ~closed
    /\ rx.key \in Keys /\ sessions[rx.key] = None
    /\ \A k \in Keys : sessions'[k] = IF k = rx.key THEN s ELSE sessions[k]
    /\ \A r \in Sess \ {s} : info'[r] = info[r]
    /\ info'[s] # None /\ info'[s].key = rx.key
    /\ open' = open \cup {s}
    /\ sessionGauge' = sessionGauge + 1
    /\ UNCHANGED todo
    /\ ReaderInv'

StepKinds ==
    \/ UNCHANGED <<sessions, info, open, pc, todo, rx, sessionGauge>>
    \/ \E t \in Threads :
          \/ Moves(t)
          \/ \E S \in SUBSET Sess : TakesOut(t, S)
          \/ \E s \in Sess, counted \in BOOLEAN : Shuts(t, s, counted)
    \/ \E s \in Sess : Inserts(s)

\* What the invariant says of the goroutine that is about to move.
LEMMA MoverFacts ==
    ASSUME IInv, NEW t \in Threads
    PROVE  /\ LabelOK(t) /\ TodoOK(t)
           /\ todo[t] \subseteq Sess \X BOOLEAN
           /\ \A x \in todo[t] : info[x[1]] # None /\ (x[2] \/ pc[t] = "finishClose" => ~IsCurrent(x[1]))
  BY DEF IInv, LabelInv, KeyInv, TypeOK

\* A session is in the table at most once, and was made.
LEMMA TableFacts ==
    ASSUME IInv
    PROVE  /\ \A k \in InTable : /\ k \in Keys /\ sessions[k] \in Sess
                                 /\ info[sessions[k]] # None /\ info[sessions[k]].key = k
           /\ \A j, k \in InTable : sessions[j] = sessions[k] => j = k
           /\ \A k \in Keys : k \in InTable <=> sessions[k] # None
  BY SMTT(60) DEF IInv, TableIsLive, KeyInv, InTable, TypeOK

\* The steps of closeSession and finishClose, whoever runs them.
LEMMA ClosingKinds ==
    ASSUME IInv, NEW t \in Threads, ClosingStep(t)
    PROVE  StepKinds
  <1> USE ThreadFacts
  <1>m. /\ LabelOK(t) /\ TodoOK(t)
        /\ todo[t] \subseteq Sess \X BOOLEAN
        /\ \A x \in todo[t] : info[x[1]] # None /\ (x[2] \/ pc[t] = "finishClose" => ~IsCurrent(x[1]))
    BY MoverFacts
  <1>p. pc \in [Threads -> Labels] /\ todo \in [Threads -> SUBSET (Sess \X BOOLEAN)]
    BY DEF IInv, TypeOK
  <1>1. ASSUME NEW u \in Players, RemoveSessionsForUUID(t, u) PROVE TakesOut(t, SessionsOf(u))
    <2>1. t \in Handlers \cup {Main, Expirer}
      BY <1>m, <1>1 DEF RemoveSessionsForUUID, LabelOK, Closing
    <2>2. /\ pc[t] = "sweep" /\ todo[t] = {} /\ todo'[t] = SessionsOf(u) \X {TRUE}
          /\ \A v \in Threads \ {t} : pc'[v] = pc[v] /\ todo'[v] = todo[v]
          /\ UNCHANGED <<info, open, sessionGauge, rx>>
      BY <1>p, <1>1 DEF RemoveSessionsForUUID, Goto
    <2>3. pc'[t] = "sweep" \/ (pc'[t] = AfterSweep(t) /\ SessionsOf(u) = {})
      BY <1>p, <1>1 DEF RemoveSessionsForUUID, Goto
    <2>4. AfterSweep(t) \in {"snapshot", "wait", "idle"} /\ LabelOK(t)'
      BY <2>1, <2>3 DEF AfterSweep, LabelOK
    <2>5. TodoOK(t)'
      BY <2>2, <2>3, <2>4 DEF TodoOK, Closing
    <2>6. \A s \in SessionsOf(u) : \E k \in InTable : sessions[k] = s
      BY DEF SessionsOf
    <2>7. \A k \in Keys : sessions'[k] = IF sessions[k] \in SessionsOf(u) THEN None ELSE sessions[k]
      <3>1. \A k \in Keys : sessions'[k] = IF k[1] = u THEN None ELSE sessions[k]
        BY <1>1 DEF RemoveSessionsForUUID
      <3>2. \A k \in InTable : k[1] = u <=> sessions[k] \in SessionsOf(u)
        BY TableFacts, SMTT(60) DEF SessionsOf
      <3>3. None \notin SessionsOf(u)
        BY TableFacts, SMTT(60) DEF SessionsOf
      <3>4. QED
        BY <3>1, <3>2, <3>3, TableFacts, SMTT(60)
    <2>8. pc'[t] \notin {"off", "serve", "done"} /\ t # Reader
      BY <2>1, <2>3, <2>4
    <2>9. QED
      BY <2>2, <2>4, <2>5, <2>6, <2>7, <2>8 DEF TakesOut, Frame
  <1>2. ASSUME NEW s \in Sess, CloseRemoved(t, s) PROVE Shuts(t, s, TRUE)
    <2>1. t \in Handlers \cup {Main, Expirer}
      BY <1>m, <1>2 DEF CloseRemoved, LabelOK, Closing
    <2>2. /\ pc[t] = "sweep" /\ <<s, TRUE>> \in todo[t] /\ todo'[t] = todo[t] \ {<<s, TRUE>>}
          /\ \A v \in Threads \ {t} : pc'[v] = pc[v] /\ todo'[v] = todo[v]
          /\ UNCHANGED <<sessions, info, rx>>
          /\ Shut(s, TRUE)
      BY <1>p, <1>2 DEF CloseRemoved, Goto
    <2>3. pc'[t] = "sweep" \/ (pc'[t] = AfterSweep(t) /\ todo'[t] = {})
      BY <1>p, <1>2 DEF CloseRemoved, Goto
    <2>4. AfterSweep(t) \in {"snapshot", "wait", "idle"} /\ LabelOK(t)'
      BY <2>1, <2>3 DEF AfterSweep, LabelOK
    <2>5. \A x \in todo[t] : x[2]
      BY <1>m, <2>2 DEF TodoOK, Closing
    <2>6. TodoOK(t)'
      BY <2>2, <2>3, <2>4, <2>5 DEF TodoOK, Closing
    <2>7. ~IsCurrent(s)
      BY <1>m, <2>2
    <2>8. pc'[t] \notin {"off", "finishClose", "serve", "done"} /\ t # Reader
      BY <2>1, <2>3, <2>4
    <2>9. QED
      BY <2>2, <2>4, <2>6, <2>7, <2>8 DEF Shuts, Frame, Shut
  <1>3. ASSUME NEW s \in Sess, CloseSession(t, s)
        PROVE  Moves(t) \/ TakesOut(t, {s})
    <2>1. t \in {Reader, Expirer} \cup Sess
      BY <1>m, <1>3 DEF CloseSession, LabelOK
    <2>2. /\ pc[t] = "closeSession" /\ pc'[t] = "finishClose" /\ <<s, FALSE>> \in todo[t]
          /\ \A v \in Threads \ {t} : pc'[v] = pc[v] /\ todo'[v] = todo[v]
          /\ UNCHANGED <<info, open, sessionGauge, rx>>
      BY <1>p, <1>3 DEF CloseSession, Goto
    <2>3. todo[t] = {<<s, FALSE>>} /\ info[s] # None
      BY <1>m, <2>2 DEF TodoOK, Closing
    <2>4. LabelOK(t)'
      BY <2>1, <2>2 DEF LabelOK, Closing
    <2>5. t = Reader => ReaderInv'
      BY <2>2 DEF ReaderInv
    <2>6. CASE IsCurrent(s)
      <3>1. todo'[t] = {<<s, TRUE>>} /\ sessions' = [sessions EXCEPT ![info[s].key] = None]
        BY <1>p, <1>3, <2>6 DEF CloseSession
      <3>2. info[s].key \in InTable /\ sessions[info[s].key] = s
        <4>1. info[s].key \in Keys /\ s # None
          BY <2>3, RecordFacts, VoiceChatAssumption DEF IInv
        <4>2. QED
          BY <2>6, <4>1 DEF IsCurrent, InTable
      <3>3. \A k \in Keys : sessions'[k] = IF sessions[k] \in {s} THEN None ELSE sessions[k]
        <4>1. \A k \in Keys : sessions'[k] = IF k = info[s].key THEN None ELSE sessions[k]
          BY <3>1, <3>2 DEF IInv, TypeOK
        <4>2. \A k \in Keys : sessions[k] = s => k = info[s].key
          BY <3>2, TableFacts, SMTT(60)
        <4>3. QED
          BY <3>2, <4>1, <4>2
      <3>4. TodoOK(t)'
        <4>1. <<s, TRUE>> \in Sess \X BOOLEAN
          BY PairFacts
        <4>2. QED
          BY <2>2, <3>1, <4>1 DEF TodoOK, Closing
      <3>5. todo'[t] = {s} \X {TRUE}
        BY <3>1, SMTT(60)
      <3>6. QED
        BY <2>2, <2>3, <2>4, <2>5, <3>2, <3>3, <3>4, <3>5, SMTT(60) DEF TakesOut, Frame
    <2>7. CASE ~IsCurrent(s)
      <3>1. UNCHANGED <<sessions, todo>>
        BY <1>3, <2>7 DEF CloseSession
      <3>2. TodoOK(t)'
        BY <1>m, <2>2, <3>1 DEF TodoOK, Closing
      <3>3. \A x \in todo[t] : ~IsCurrent(x[1])
        BY <2>3, <2>7, SMTT(60)
      <3>4. QED
        BY <2>2, <2>3, <2>4, <2>5, <3>1, <3>2, <3>3 DEF Moves, Frame
    <2>8. QED
      BY <2>6, <2>7
  <1>4. ASSUME NEW s \in Sess, NEW counted \in BOOLEAN, FinishClose(t, s, counted)
        PROVE  Shuts(t, s, counted)
    <2>1. t \in {Reader, Expirer} \cup Sess
      BY <1>m, <1>4 DEF FinishClose, LabelOK
    <2>2. /\ pc[t] = "finishClose" /\ <<s, counted>> \in todo[t] /\ todo'[t] = {}
          /\ \A v \in Threads \ {t} : pc'[v] = pc[v] /\ todo'[v] = todo[v]
          /\ UNCHANGED <<sessions, info>>
          /\ Shut(s, counted)
          /\ t # Reader => rx' = rx
      BY <1>p, <1>4 DEF FinishClose, Goto
    <2>3. todo[t] = {<<s, counted>>} /\ ~IsCurrent(s)
      BY <1>m, <2>2, SMTT(60) DEF TodoOK, Closing
    <2>4. pc'[t] \in {"read", "tick", "idleCheck", "done"} /\ LabelOK(t)'
      BY <1>p, <1>4, <2>1 DEF FinishClose, Goto, LabelOK
    <2>5. TodoOK(t)'
      BY <2>2, <2>4 DEF TodoOK, Closing
    <2>6. t = Reader => ReaderInv'
      BY <2>4 DEF ReaderInv
    <2>7. todo'[t] = todo[t] \ {<<s, counted>>}
      BY <2>2, <2>3
    <2>8. QED
      BY <2>1, <2>2, <2>3, <2>4, <2>5, <2>6, <2>7 DEF Shuts, Frame, Shut
  <1>5. \A u : SessionsOf(u) \in SUBSET Sess
    BY TableFacts, SMTT(60) DEF SessionsOf
  <1>6. QED
    BY <1>1, <1>2, <1>3, <1>4, <1>5 DEF ClosingStep, StepKinds

\* A goroutine with nothing to close that goes on to where nothing is closed.
LEMMA MovesOn ==
    ASSUME IInv, NEW t \in Threads \ {Main}, NEW l \in Labels, Goto(t, l),
           pc[t] \notin {"off", "done"} \cup Closing \cup {"closeStale", "sweep", "closeListener"},
           l \notin {"off"} \cup Closing \cup {"closeStale", "closeListener"},
           UNCHANGED <<sessions, info, open, todo, sessionGauge>>,
           LabelOK(t)',
           IF t = Reader THEN ReaderInv' ELSE rx' = rx
    PROVE  Moves(t)
  <1>1. pc'[t] = l /\ todo'[t] = {} /\ todo[t] = {}
    BY MoverFacts, SMTT(60) DEF IInv, TypeOK, Goto, TodoOK
  <1>2. \A u \in Threads \ {t} : pc'[u] = pc[u] /\ todo'[u] = todo[u]
    BY DEF IInv, TypeOK, Goto
  <1>3. TodoOK(t)'
    BY <1>1 DEF TodoOK, Closing
  <1>4. QED
    BY <1>1, <1>2, <1>3 DEF Moves, Frame, Closing

\* A goroutine that goes on to closeSession.
LEMMA GoesToClose ==
    ASSUME IInv, NEW t \in {Reader, Expirer} \cup Sess, NEW s \in Sess, info[s] # None,
           Goto(t, "closeSession"), todo' = [todo EXCEPT ![t] = {<<s, FALSE>>}],
           pc[t] \notin {"off", "done"} \cup Closing \cup {"closeStale", "sweep", "closeListener"},
           UNCHANGED <<sessions, info, open, sessionGauge>>,
           t # Reader => rx' = rx
    PROVE  Moves(t)
  <1>1. t \in Threads /\ t # Main
    BY ThreadFacts
  <1>2. pc'[t] = "closeSession" /\ todo'[t] = {<<s, FALSE>>} /\ todo[t] = {}
    BY <1>1, MoverFacts, SMTT(60) DEF IInv, TypeOK, Goto, TodoOK
  <1>3. \A u \in Threads \ {t} : pc'[u] = pc[u] /\ todo'[u] = todo[u]
    BY <1>1 DEF IInv, TypeOK, Goto
  <1>4. TodoOK(t)'
    <2>1. <<s, FALSE>> \in Sess \X BOOLEAN
      BY PairFacts
    <2>2. QED
      BY <1>2, <2>1 DEF TodoOK, Closing
  <1>5. LabelOK(t)' /\ (t = Reader => ReaderInv')
    BY <1>2, ThreadFacts DEF LabelOK, ReaderInv, Closing
  <1>6. QED
    BY <1>1, <1>2, <1>3, <1>4, <1>5 DEF Moves, Frame, Closing

\* The steps of the goroutine that reads packets.
LEMMA ReaderKinds ==
    ASSUME IInv, ReaderStep
    PROVE  StepKinds
  <1> USE ThreadFacts
  <1>m. /\ LabelOK(Reader) /\ TodoOK(Reader)
        /\ todo[Reader] \subseteq Sess \X BOOLEAN
        /\ \A x \in todo[Reader] :
              info[x[1]] # None /\ (x[2] \/ pc[Reader] = "finishClose" => ~IsCurrent(x[1]))
    BY MoverFacts
  <1>p. pc \in [Threads -> Labels] /\ todo \in [Threads -> SUBSET (Sess \X BOOLEAN)]
        /\ ReaderInv
    BY DEF IInv, TypeOK
  <1>d. ASSUME Drop PROVE pc'[Reader] = "read" /\ LabelOK(Reader)' /\ ReaderInv'
    BY <1>d, <1>p DEF Drop, Goto, LabelOK, ReaderInv
  <1>1. CASE FindSession
    <2>1. rx \in Packet /\ rx.key \in Keys /\ pc[Reader] = "sessionFor"
      BY <1>1, <1>p, RecordFacts DEF FindSession, ReaderInv, IInv
    <2>2. UNCHANGED <<info, open, sessionGauge>>
      BY <1>1 DEF FindSession
    <2>3. CASE closed /\ Drop /\ UNCHANGED <<sessions, todo>>
      <3>1. Moves(Reader)
        BY <1>d, <2>1, <2>2, <2>3, MovesOn DEF Drop, Labels, Closing
      <3>2. QED
        BY <3>1 DEF StepKinds
    <2>4. CASE /\ sessions[rx.key] = None
               /\ Goto(Reader, "checkLimit")
               /\ UNCHANGED <<sessions, todo, rx>>
      <3>1. pc'[Reader] = "checkLimit"
        BY <1>p, <2>4 DEF Goto
      <3>2. LabelOK(Reader)' /\ ReaderInv'
        BY <2>1, <2>4, <3>1 DEF LabelOK, ReaderInv
      <3>3. Moves(Reader)
        BY <2>1, <2>2, <2>4, <3>2, MovesOn DEF Labels, Closing
      <3>4. QED
        BY <3>3 DEF StepKinds
    <2>5. CASE /\ sessions[rx.key] # None /\ SameLease(sessions[rx.key], rx.reg)
               /\ rx' = [rx EXCEPT !.sess = sessions[rx.key]]
               /\ Goto(Reader, "write")
               /\ UNCHANGED <<sessions, todo>>
      <3>1. pc'[Reader] = "write"
        BY <1>p, <2>5 DEF Goto
      <3>2. /\ sessions[rx.key] \in Sess /\ info[sessions[rx.key]] # None
            /\ info[sessions[rx.key]].key = rx.key
        BY <2>1, <2>5, TableFacts
      <3>3. /\ rx' \in Packet
            /\ rx'.sess = sessions[rx.key] /\ rx'.key = rx.key /\ rx'.reg = rx.reg
        BY <2>1, <2>5, <3>2 DEF Packet
      <3>4. LabelOK(Reader)' /\ ReaderInv'
        BY <2>2, <2>5, <3>1, <3>2, <3>3 DEF LabelOK, ReaderInv, ForwardsUnderLookedUpLease, SameLease
      <3>5. Moves(Reader)
        BY <2>1, <2>2, <2>5, <3>4, MovesOn DEF Labels, Closing
      <3>6. QED
        BY <3>5 DEF StepKinds
    <2>6. CASE /\ sessions[rx.key] # None
               /\ sessions' = [sessions EXCEPT ![rx.key] = None]
               /\ todo' = [todo EXCEPT ![Reader] = {<<sessions[rx.key], TRUE>>}]
               /\ Goto(Reader, "closeStale")
               /\ UNCHANGED rx
      <3> DEFINE s == sessions[rx.key]
      <3>1. pc'[Reader] = "closeStale" /\ todo'[Reader] = {<<s, TRUE>>} /\ todo[Reader] = {}
        BY <1>m, <1>p, <2>1, <2>6 DEF Goto, TodoOK, Closing
      <3>2. \A u \in Threads \ {Reader} : pc'[u] = pc[u] /\ todo'[u] = todo[u]
        BY <1>p, <2>6 DEF Goto
      <3>3. rx.key \in InTable /\ s \in Sess
        BY <2>1, <2>6, TableFacts
      <3>4. \A k \in Keys : sessions'[k] = IF k = rx.key THEN None ELSE sessions[k]
        BY <2>1, <2>6 DEF IInv, TypeOK
      <3>5. \A k \in Keys : sessions'[k] = IF sessions[k] \in {s} THEN None ELSE sessions[k]
        BY <3>3, <3>4, TableFacts
      <3>6. LabelOK(Reader)' /\ ReaderInv'
        BY <2>1, <2>6, <3>1, <3>4 DEF LabelOK, ReaderInv
      <3>7. TodoOK(Reader)'
        <4>1. <<s, TRUE>> \in Sess \X BOOLEAN
          BY <3>3, PairFacts
        <4>2. QED
          BY <3>1, <4>1 DEF TodoOK, Closing
      <3>8. todo'[Reader] = {s} \X {TRUE}
        BY <3>1, SMTT(60)
      <3>9. TakesOut(Reader, {s})
        BY <2>1, <2>2, <3>1, <3>2, <3>3, <3>5, <3>6, <3>7, <3>8 DEF TakesOut, Frame
      <3>10. QED
        BY <3>3, <3>9 DEF StepKinds
    <2>7. QED
      BY <1>1, <2>3, <2>4, <2>5, <2>6 DEF FindSession
  <1>2. ASSUME NEW s \in Sess, CloseStale(s) PROVE Shuts(Reader, s, TRUE)
    <2>1. /\ pc[Reader] = "closeStale" /\ pc'[Reader] = "checkLimit"
          /\ <<s, TRUE>> \in todo[Reader] /\ todo'[Reader] = {}
          /\ \A u \in Threads \ {Reader} : pc'[u] = pc[u] /\ todo'[u] = todo[u]
          /\ UNCHANGED <<sessions, info, rx>> /\ Shut(s, TRUE)
      BY <1>2, <1>p DEF CloseStale, Goto
    <2>2. todo[Reader] = {<<s, TRUE>>} /\ ~IsCurrent(s)
      BY <1>m, <2>1 DEF TodoOK, Closing
    <2>3. LabelOK(Reader)' /\ TodoOK(Reader)' /\ ReaderInv'
      BY <1>p, <2>1 DEF LabelOK, TodoOK, ReaderInv, Closing
    <2>4. todo'[Reader] = todo[Reader] \ {<<s, TRUE>>}
      BY <2>1, <2>2
    <2>5. QED
      BY <2>1, <2>2, <2>3, <2>4 DEF Shuts, Frame, Shut
  <1>3. CASE CheckLimit
    <2>1. CASE AtSessionLimit
      BY <1>3, <1>d, <2>1, MovesOn DEF CheckLimit, Drop, Labels, Closing, StepKinds
    <2>2. CASE ~AtSessionLimit
      <3>1. pc'[Reader] = "dial" /\ rx' = rx /\ pc[Reader] = "checkLimit" /\ UNCHANGED sessions
        BY <1>3, <1>p, <2>2 DEF CheckLimit, Goto
      <3>2. LabelOK(Reader)' /\ ReaderInv'
        BY <1>p, <3>1 DEF LabelOK, ReaderInv
      <3>3. QED
        BY <1>3, <2>2, <3>2, MovesOn DEF CheckLimit, Labels, Closing, StepKinds
    <2>3. QED
      BY <2>1, <2>2
  <1>4. CASE DialFailsOrRefused
    BY <1>4, <1>d, MovesOn DEF DialFailsOrRefused, Drop, Labels, Closing, StepKinds
  <1>5. ASSUME NEW s \in Sess, InsertSession(s) PROVE Inserts(s)
    <2> DEFINE new == [key |-> rx.key, backend |-> rx.reg.backend,
                       lease |-> rx.reg.lease, generation |-> rx.reg.generation]
    <2>1. /\ pc[Reader] = "dial" /\ pc[s] = "off" /\ ~closed
          /\ rx \in Packet /\ rx.key \in Keys /\ rx.reg \in Registration /\ sessions[rx.key] = None
      BY <1>5, <1>p, RecordFacts DEF InsertSession, ReaderInv, IInv
    <2>2. /\ sessions' = [sessions EXCEPT ![rx.key] = s]
          /\ info' = [info EXCEPT ![s] = new]
          /\ open' = open \cup {s} /\ sessionGauge' = sessionGauge + 1 /\ UNCHANGED todo
          /\ pc' = [pc EXCEPT ![Reader] = "write", ![s] = "read"]
          /\ rx' = [rx EXCEPT !.sess = s]
      BY <1>5, <2>1 DEF InsertSession
    <2>3. new \in Session /\ new # None
      BY <2>1, VoiceChatAssumption, SMTT(60) DEF Session, Registration
    <2>4. info'[s] = new /\ \A r \in Sess \ {s} : info'[r] = info[r]
      BY <2>2 DEF IInv, TypeOK
    <2>5. rx' \in Packet /\ rx'.sess = s /\ rx'.key = rx.key /\ rx'.reg = rx.reg
      BY <2>1, <2>2 DEF Packet
    <2>6. /\ pc'[Reader] = "write" /\ pc'[s] = "read"
          /\ \A t \in Threads \ {Reader, s} : pc'[t] = pc[t]
      BY <1>p, <2>2
    <2>7. ReaderInv'
      BY <2>3, <2>4, <2>5, <2>6, SMTT(60) DEF ReaderInv, ForwardsUnderLookedUpLease, SameLease
    <2>8. \A k \in Keys : sessions'[k] = IF k = rx.key THEN s ELSE sessions[k]
      BY <2>1, <2>2 DEF IInv, TypeOK
    <2>9. info'[s] # None /\ info'[s].key = rx.key
      BY <2>3, <2>4, SMTT(60)
    <2> HIDE DEF new
    <2>10. QED
      BY <2>1, <2>2, <2>4, <2>6, <2>7, <2>8, <2>9 DEF Inserts
  <1>6. CASE WriteBackend
    <2>1. pc[Reader] = "write" /\ rx.sess \in Sess /\ info[rx.sess] # None
      BY <1>6, <1>p DEF WriteBackend, ReaderInv, ForwardsUnderLookedUpLease
    <2>2. CASE Drop /\ UNCHANGED todo
      BY <1>6, <1>d, <2>2, MovesOn DEF WriteBackend, Drop, Labels, Closing, StepKinds
    <2>3. CASE todo' = [todo EXCEPT ![Reader] = {<<rx.sess, FALSE>>}] /\ Goto(Reader, "closeSession")
      <3>1. UNCHANGED <<sessions, info, open, sessionGauge>>
        BY <1>6 DEF WriteBackend
      <3>2. Moves(Reader)
        BY <2>1, <2>3, <3>1, GoesToClose DEF Closing
      <3>3. QED
        BY <3>2 DEF StepKinds
    <2>4. QED
      BY <1>6, <2>2, <2>3 DEF WriteBackend
  <1>7. CASE ReaderExits
    <2>1. pc'[Reader] = "done"
      BY <1>7, <1>p DEF ReaderExits, Goto
    <2>2. LabelOK(Reader)' /\ ReaderInv'
      BY <2>1 DEF LabelOK, ReaderInv
    <2>3. QED
      BY <1>7, <2>2, MovesOn DEF ReaderExits, Labels, Closing, StepKinds
  <1>8. QED
    BY <1>1, <1>2, <1>3, <1>4, <1>5, <1>6, <1>7 DEF ReaderStep, StepKinds

\* A session's own goroutine changes nothing but its place.
LEMMA SessionKinds ==
    ASSUME IInv, NEW s \in Sess,
           ReadReply(s) \/ SessionSocketFails(s) \/ SessionStep(s)
    PROVE  Moves(s)
  <1>1. s \in Threads /\ s # Reader /\ s # Expirer /\ s # Main /\ s \notin Handlers
    BY ThreadFacts
  <1>2. pc[s] \in {"read", "send"} /\ info[s] # None
    BY DEF ReadReply, SessionSocketFails, SessionStep, SendReply, SessionReaderExits,
           IInv, KeyInv
  <1>3. UNCHANGED <<sessions, info, open, sessionGauge, rx>>
    BY DEF ReadReply, SessionSocketFails, SessionStep, SendReply, SessionReaderExits
  <1>4. ASSUME NEW l \in {"read", "send", "done"}, Goto(s, l), UNCHANGED todo PROVE Moves(s)
    <2>1. LabelOK(s)'
      BY <1>1, <1>4 DEF Goto, LabelOK, IInv, TypeOK
    <2>2. QED
      BY <1>1, <1>2, <1>3, <1>4, <2>1, MovesOn DEF Labels, Closing
  <1>5. ASSUME Goto(s, "closeSession"), todo' = [todo EXCEPT ![s] = {<<s, FALSE>>}]
        PROVE  Moves(s)
    BY <1>1, <1>2, <1>3, <1>5, GoesToClose DEF Closing
  <1>6. QED
    BY <1>4, <1>5 DEF ReadReply, SessionSocketFails, SessionStep, SendReply, SessionReaderExits

\* A goroutine between requests or ticks that goes on to remove a player's sessions,
\* or not.
LEMMA GoesToSweep ==
    ASSUME IInv, NEW t \in Handlers \cup {Expirer}, pc[t] \in {"idle", "tick"},
           NEW l \in {"idle", "snapshot", "sweep"}, Goto(t, l),
           l = "idle" => t # Expirer, l = "snapshot" => t = Expirer,
           UNCHANGED <<sessions, info, open, todo, sessionGauge, rx>>
    PROVE  Moves(t)
  <1>1. t \in Threads /\ t # Reader /\ t # Main /\ t \notin Sess /\ (t = Expirer => t \notin Handlers)
    BY ThreadFacts
  <1>2. LabelOK(t)'
    BY <1>1 DEF Goto, LabelOK, IInv, TypeOK
  <1>3. QED
    BY <1>1, <1>2, MovesOn DEF Labels, Closing

\* The steps of the expiry loop.
LEMMA ExpirerKinds ==
    ASSUME IInv, ExpirerStep
    PROVE  StepKinds
  <1> USE ThreadFacts
  <1>p. pc \in [Threads -> Labels]
    BY DEF IInv, TypeOK
  <1>1. CASE ExpireRegistrations
    <2>1. Moves(Expirer)
      BY <1>1, GoesToSweep DEF ExpireRegistrations
    <2>2. QED
      BY <2>1 DEF StepKinds
  <1>2. ASSUME NEW l \in {"tick", "idleCheck", "done"}, Goto(Expirer, l),
               pc[Expirer] \in {"tick", "snapshot", "idleCheck"},
               UNCHANGED <<sessions, info, open, todo, sessionGauge, rx>>
        PROVE  Moves(Expirer)
    <2>1. LabelOK(Expirer)'
      BY <1>2, <1>p DEF Goto, LabelOK
    <2>2. QED
      BY <1>2, <2>1, MovesOn DEF Labels, Closing
  <1>3. CASE SnapshotSessions
    <2>1. Moves(Expirer)
      BY <1>2, <1>3 DEF SnapshotSessions
    <2>2. QED
      BY <2>1 DEF StepKinds
  <1>4. ASSUME NEW s \in Sess, CheckIdle(s) PROVE Moves(Expirer)
    <2>1. info[s] # None
      BY <1>4 DEF CheckIdle, IInv, KeyInv
    <2>2. CASE s \in idle
      BY <1>4, <2>1, <2>2, GoesToClose DEF CheckIdle, Closing
    <2>3. CASE s \notin idle
      BY <1>2, <1>4, <2>3 DEF CheckIdle
    <2>4. QED
      BY <2>2, <2>3
  <1>5. CASE ExpirerExits
    <2>1. Moves(Expirer)
      BY <1>2, <1>5 DEF ExpirerExits
    <2>2. QED
      BY <2>1 DEF StepKinds
  <1>6. QED
    BY <1>1, <1>3, <1>4, <1>5 DEF ExpirerStep, StepKinds

\* The end of Close and of Serve.
LEMMA MainKinds ==
    ASSUME IInv, MainStep
    PROVE  Moves(Main)
  <1> USE ThreadFacts
  <1>p. pc \in [Threads -> Labels] /\ LabelOK(Main) /\ TodoOK(Main)
    BY MoverFacts DEF IInv, TypeOK
  <1>1. UNCHANGED <<sessions, info, open, todo, sessionGauge, rx>>
    BY DEF MainStep, CloseListener, ServeReturns
  <1>2. CASE CloseListener
    <2>1. /\ pc[Main] = "closeListener" /\ pc'[Main] \in {"wait", "sweep"}
          /\ pc'[Main] = "wait" => todo[Main] = {}
          /\ \A t \in Threads \ {Main} : pc'[t] = pc[t]
      BY <1>2, <1>p DEF CloseListener, Goto, AfterSweep
    <2>2. LabelOK(Main)' /\ TodoOK(Main)'
      BY <1>p, <1>1, <2>1 DEF LabelOK, TodoOK, Closing
    <2>3. QED
      BY <1>1, <2>1, <2>2 DEF Moves, Frame
  <1>3. CASE ServeReturns
    <2>1. /\ pc[Main] = "wait" /\ pc'[Main] = "done" /\ AtRest
          /\ \A t \in Threads \ {Main} : pc'[t] = pc[t]
      BY <1>3, <1>p DEF ServeReturns, Goto, AtRest
    <2>2. LabelOK(Main)' /\ TodoOK(Main)'
      BY <1>p, <1>1, <2>1 DEF LabelOK, TodoOK, Closing
    <2>3. QED
      BY <1>1, <2>1, <2>2 DEF Moves, Frame
  <1>4. QED
    BY <1>2, <1>3 DEF MainStep

\* Close takes every session out of the table.
LEMMA CloseKind ==
    ASSUME IInv, Close
    PROVE  TakesOut(Main, {sessions[k] : k \in InTable})
  <1> USE ThreadFacts
  <1> DEFINE S == {sessions[k] : k \in InTable}
  <1>p. pc \in [Threads -> Labels] /\ todo \in [Threads -> SUBSET (Sess \X BOOLEAN)]
        /\ TodoOK(Main)
    BY MoverFacts DEF IInv, TypeOK
  <1>1. /\ pc[Main] = "serve" /\ pc'[Main] = "closeListener"
        /\ todo'[Main] = S \X {TRUE}
        /\ \A t \in Threads \ {Main} : pc'[t] = pc[t] /\ todo'[t] = todo[t]
        /\ UNCHANGED <<info, open, sessionGauge, rx>> /\ closed'
    BY <1>p DEF Close, CloseRegistry, Goto
  <1>2. todo[Main] = {}
    BY <1>p, <1>1 DEF TodoOK, Closing
  <1>3. \A k \in Keys : sessions'[k] = IF sessions[k] \in S THEN None ELSE sessions[k]
    BY TableFacts, SMTT(60) DEF Close
  <1>4. LabelOK(Main)' /\ TodoOK(Main)'
    BY <1>1 DEF LabelOK, TodoOK, Closing
  <1>5. QED
    BY <1>1, <1>2, <1>3, <1>4 DEF TakesOut, Frame

\* The steps that wait for the outside world.
LEMMA EnvKinds ==
    ASSUME IInv, EnvStep
    PROVE  StepKinds
  <1> USE ThreadFacts
  <1>p. pc \in [Threads -> Labels]
    BY DEF IInv, TypeOK
  <1>1. CASE \/ \E u \in Players : RegistrationExpires(u) \/ ReceiveExpired(u)
             \/ \E s \in Sess : IdleTimeoutElapses(s)
             \/ \E u \in Players, b \in Backends, o \in Owners, l \in Leases :
                   RefreshRegistration(u, b, o, l)
    BY <1>1 DEF RegistrationExpires, ReceiveExpired, IdleTimeoutElapses, RefreshRegistration,
                StepKinds
  <1>2. ASSUME NEW h \in Handlers, NEW u \in Players, NEW b \in Backends, NEW o \in Owners,
               PutRegistration(h, u, b, o)
        PROVE  Moves(h)
    BY <1>2, GoesToSweep DEF PutRegistration
  <1>3. ASSUME NEW h \in Handlers, NEW u \in Players, NEW b \in Backends, NEW o \in Owners,
               NEW l \in Leases, DeleteRegistration(h, u, b, o, l)
        PROVE  Moves(h)
    BY <1>3, GoesToSweep DEF DeleteRegistration
  <1>4. ASSUME NEW u \in Players, NEW a \in Addrs, ReceivePacket(u, a) PROVE Moves(Reader)
    <2>1. pc[Reader] = "read" /\ pc'[Reader] = "sessionFor"
      BY <1>4, <1>p DEF ReceivePacket, Goto
    <2>2. registrations[u] \in Registration
      BY <1>4 DEF ReceivePacket, Usable, IInv, RegInv, RegistryTypeOK
    <2>3. rx' \in Packet
      BY <1>4, <2>2 DEF ReceivePacket, Packet, Keys
    <2>4. LabelOK(Reader)' /\ ReaderInv'
      BY <2>1, <2>3 DEF LabelOK, ReaderInv
    <2>5. QED
      BY <1>4, <2>1, <2>4, MovesOn DEF ReceivePacket, Labels, Closing
  <1>5. CASE Close
    <2>1. {sessions[k] : k \in InTable} \in SUBSET Sess
      BY TableFacts, SMTT(60)
    <2>2. QED
      BY <1>5, <2>1, CloseKind DEF StepKinds
  <1>6. ASSUME NEW s \in Sess, ReadReply(s) \/ SessionSocketFails(s) PROVE Moves(s)
    BY <1>6, SessionKinds
  <1>7. QED
    BY <1>1, <1>2, <1>3, <1>4, <1>5, <1>6 DEF EnvStep, StepKinds

\* Every step is of one of the kinds.
LEMMA StepIsOfAKind ==
    ASSUME IInv, [Next]_vars
    PROVE  StepKinds
  <1>1. CASE Next
    <2>1. ASSUME NEW s \in Sess, SessionStep(s) PROVE StepKinds
      BY <2>1, SessionKinds, ThreadFacts DEF StepKinds
    <2>2. CASE MainStep
      BY <2>2, MainKinds, ThreadFacts DEF StepKinds
    <2>3. QED
      BY <1>1, <2>1, <2>2, EnvKinds, ClosingKinds, ReaderKinds, ExpirerKinds DEF Next
  <1>2. CASE UNCHANGED vars
    BY <1>2 DEF vars, StepKinds
  <1>3. QED
    BY <1>1, <1>2

-----------------------------------------------------------------------------
(* Each part of the invariant is kept by each kind of step. *)

\* Every goroutine stays in a place with what belongs to it.
LEMMA LabelStep ==
    ASSUME IInv, StepKinds
    PROVE  LabelInv'
  <1>l. \A t \in Threads : LabelOK(t) /\ TodoOK(t)
    BY DEF IInv, LabelInv
  <1>k. ASSUME NEW t \in Threads, pc'[t] = pc[t], todo'[t] = todo[t]
        PROVE  LabelOK(t)' /\ TodoOK(t)'
    BY <1>k, <1>l, SMTT(60) DEF LabelOK, TodoOK
  <1>1. CASE UNCHANGED <<sessions, info, open, pc, todo, rx, sessionGauge>>
    BY <1>k, <1>1 DEF LabelInv
  <1>2. ASSUME NEW t \in Threads, Frame(t) PROVE LabelInv'
    BY <1>k, <1>2 DEF Frame, LabelInv
  <1>3. ASSUME NEW s \in Sess, Inserts(s) PROVE LabelInv'
    <2>1. LabelOK(Reader)' /\ LabelOK(s)'
      BY <1>3, ThreadFacts DEF Inserts, LabelOK
    <2>2. todo[Reader] = {} /\ todo[s] = {}
      BY <1>3, <1>l, ThreadFacts DEF Inserts, TodoOK, Closing
    <2>3. TodoOK(Reader)' /\ TodoOK(s)'
      BY <1>3, <2>2 DEF Inserts, TodoOK, Closing
    <2>4. ASSUME NEW t \in Threads \ {Reader, s} PROVE LabelOK(t)' /\ TodoOK(t)'
      BY <1>3, <1>k DEF Inserts
    <2>5. QED
      BY <2>1, <2>3, <2>4 DEF LabelInv
  <1>4. QED
    BY <1>1, <1>2, <1>3 DEF StepKinds, Moves, TakesOut, Shuts

\* The expiry loop's snapshot holds sessions that were in the table.
LEMMA SnapStep ==
    ASSUME [Next]_vars
    PROVE  snap' \subseteq snap \cup {sessions[k] : k \in InTable}
  <1>1. CASE EnvStep
    BY <1>1 DEF EnvStep, RegistrationExpires, IdleTimeoutElapses, PutRegistration,
                RefreshRegistration, DeleteRegistration, ReceivePacket, ReceiveExpired,
                ReadReply, SessionSocketFails, Close
  <1>2. ASSUME NEW t \in Threads, ClosingStep(t) PROVE UNCHANGED snap
    BY <1>2 DEF ClosingStep, RemoveSessionsForUUID, CloseRemoved, CloseSession, FinishClose
  <1>3. CASE ReaderStep
    BY <1>3 DEF ReaderStep, FindSession, CloseStale, CheckLimit, DialFailsOrRefused,
                InsertSession, WriteBackend, ReaderExits
  <1>4. ASSUME NEW s \in Sess, SessionStep(s) PROVE UNCHANGED snap
    BY <1>4 DEF SessionStep, SendReply, SessionReaderExits
  <1>5. CASE ExpirerStep
    BY <1>5 DEF ExpirerStep, ExpireRegistrations, SnapshotSessions, CheckIdle, ExpirerExits
  <1>6. CASE MainStep
    BY <1>6 DEF MainStep, CloseListener, ServeReturns
  <1>7. CASE UNCHANGED vars
    BY <1>7 DEF vars
  <1>8. QED
    BY <1>1, <1>2, <1>3, <1>4, <1>5, <1>6, <1>7 DEF Next

\* Sessions stay filed under their own key.
LEMMA KeyStep ==
    ASSUME IInv, TypeOK', StepKinds, snap' \subseteq snap \cup {sessions[k] : k \in InTable}
    PROVE  KeyInv'
  <1> USE ThreadFacts
  <1>k. /\ \A s \in Sess : pc[s] = "off" <=> info[s] = None
        /\ \A s \in open : info[s] # None
        /\ open \subseteq Sess /\ snap' \subseteq Sess
    BY DEF IInv, KeyInv, TypeOK
  <1>t. \A t \in Threads : \A x \in todo[t] :
           /\ x[1] \in Sess /\ info[x[1]] # None /\ info[x[1]].key \in Keys
           /\ x[2] \/ pc[t] = "finishClose" => ~IsCurrent(x[1])
    BY RecordFacts, SMTT(60) DEF IInv, KeyInv, TypeOK
  <1>s. \A s \in snap' : info[s] # None
    BY TableFacts, SMTT(60) DEF IInv, KeyInv
  <1>1. CASE UNCHANGED <<sessions, info, open, pc, todo, rx, sessionGauge>>
    BY <1>k, <1>t, <1>s, <1>1, SMTT(60) DEF KeyInv, IsCurrent
  <1>2. ASSUME NEW t \in Threads, Frame(t), UNCHANGED info, open' \subseteq open
        PROVE  /\ \A s \in Sess : pc'[s] = "off" <=> info'[s] = None
               /\ \A s \in open' \cup snap' : info'[s] # None
    BY <1>k, <1>s, <1>2 DEF Frame
  <1>3. ASSUME NEW t \in Threads, Moves(t) PROVE KeyInv'
    <2>1. Frame(t) /\ UNCHANGED <<sessions, info, open>>
      BY <1>3 DEF Moves
    <2>2. ASSUME NEW u \in Threads \ {t}, NEW x \in todo'[u]
          PROVE  info'[x[1]] # None /\ (x[2] \/ pc'[u] = "finishClose" => ~IsCurrent(x[1])')
      BY <1>t, <2>1, <2>2, SMTT(60) DEF Frame, IsCurrent
    <2>3. ASSUME NEW x \in todo'[t]
          PROVE  info'[x[1]] # None /\ (x[2] \/ pc'[t] = "finishClose" => ~IsCurrent(x[1])')
      <3>1. CASE todo'[t] = todo[t] /\ (pc'[t] = "finishClose" => \A y \in todo[t] : ~IsCurrent(y[1]))
        BY <1>t, <2>1, <2>3, <3>1 DEF IsCurrent
      <3>2. ASSUME pc'[t] # "finishClose", NEW s \in Sess, info[s] # None,
                   todo'[t] = {<<s, FALSE>>}
            PROVE  info'[x[1]] # None /\ (x[2] \/ pc'[t] = "finishClose" => ~IsCurrent(x[1])')
        <4>1. x = <<s, FALSE>>
          BY <2>3, <3>2
        <4>2. x[1] = s /\ ~x[2]
          BY <4>1
        <4>3. QED
          BY <2>1, <3>2, <4>2
      <3>3. QED
        BY <1>3, <3>1, <3>2 DEF Moves
    <2>4. QED
      BY <1>2, <2>1, <2>2, <2>3 DEF KeyInv
  <1>4. ASSUME NEW t \in Threads, NEW S \in SUBSET Sess, TakesOut(t, S) PROVE KeyInv'
    <2>1. /\ Frame(t) /\ UNCHANGED <<info, open>> /\ todo'[t] = S \X {TRUE}
          /\ \A k \in Keys : sessions'[k] = IF sessions[k] \in S THEN None ELSE sessions[k]
      BY <1>4 DEF TakesOut
    <2>2. \A s \in S : info[s] # None /\ info[s].key \in Keys
      BY <1>4, TableFacts, SMTT(60) DEF TakesOut
    <2>3. ASSUME NEW s \in Sess, info[s].key \in Keys, s \in S \/ ~IsCurrent(s)
          PROVE  ~IsCurrent(s)'
      BY <2>1, <2>3, VoiceChatAssumption, SMTT(60) DEF IsCurrent
    <2>4. ASSUME NEW u \in Threads \ {t}, NEW x \in todo'[u]
          PROVE  info'[x[1]] # None /\ (x[2] \/ pc'[u] = "finishClose" => ~IsCurrent(x[1])')
      <3>1. x \in todo[u] /\ pc'[u] = pc[u]
        BY <2>1, <2>4 DEF Frame
      <3>2. x[1] \in Sess /\ info[x[1]] # None /\ info[x[1]].key \in Keys
        BY <1>t, <3>1
      <3>3. QED
        BY <1>t, <2>1, <2>3, <3>1, <3>2, SMTT(60)
    <2>5. ASSUME NEW x \in todo'[t]
          PROVE  info'[x[1]] # None /\ (x[2] \/ pc'[t] = "finishClose" => ~IsCurrent(x[1])')
      BY <2>1, <2>2, <2>3, <2>5, SMTT(60)
    <2>6. QED
      BY <1>2, <2>1, <2>4, <2>5 DEF KeyInv
  <1>5. ASSUME NEW t \in Threads, NEW s \in Sess, NEW c \in BOOLEAN, Shuts(t, s, c) PROVE KeyInv'
    <2>1. /\ Frame(t) /\ UNCHANGED <<sessions, info>> /\ open' \subseteq open
          /\ todo'[t] \subseteq todo[t] /\ pc'[t] # "finishClose"
      BY <1>5 DEF Shuts
    <2>2. ASSUME NEW u \in Threads, NEW x \in todo'[u]
          PROVE  info'[x[1]] # None /\ (x[2] \/ pc'[u] = "finishClose" => ~IsCurrent(x[1])')
      BY <1>t, <2>1, <2>2, SMTT(60) DEF Frame, IsCurrent
    <2>3. QED
      BY <1>2, <2>1, <2>2 DEF KeyInv
  <1>6. ASSUME NEW s \in Sess, Inserts(s) PROVE KeyInv'
    <2>1. info[s] = None /\ info'[s] # None /\ \A r \in Sess \ {s} : info'[r] = info[r]
      BY <1>k, <1>6 DEF Inserts
    <2>2. \A r \in Sess : info[r] # None => r # s /\ info'[r] = info[r]
      BY <2>1
    <2>3. \A r \in Sess : pc'[r] = "off" <=> info'[r] = None
      BY <1>k, <1>6, <2>1, SMTT(60) DEF Inserts
    <2>4. \A r \in open' \cup snap' : info'[r] # None
      BY <1>k, <1>s, <1>6, <2>1, <2>2, SMTT(60) DEF Inserts
    <2>5. ASSUME NEW t \in Threads, NEW x \in todo'[t]
          PROVE  info'[x[1]] # None /\ (x[2] \/ pc'[t] = "finishClose" => ~IsCurrent(x[1])')
      <3>1. x \in todo[t] /\ (pc'[t] = "finishClose" => pc[t] = "finishClose")
        BY <1>6, <2>5 DEF Inserts
      <3>2. /\ x[1] \in Sess /\ info[x[1]] # None /\ info[x[1]].key \in Keys
            /\ x[2] \/ pc[t] = "finishClose" => ~IsCurrent(x[1])
        BY <1>t, <3>1
      <3>3. x[1] # s /\ info'[x[1]] = info[x[1]]
        BY <2>2, <3>2
      <3>4. ~IsCurrent(x[1]) => ~IsCurrent(x[1])'
        BY <1>6, <3>2, <3>3, SMTT(60) DEF Inserts, IsCurrent
      <3>5. QED
        BY <3>1, <3>2, <3>3, <3>4
    <2>6. QED
      BY <2>3, <2>4, <2>5 DEF KeyInv
  <1>7. QED
    BY <1>1, <1>3, <1>4, <1>5, <1>6 DEF StepKinds

\* No socket is forgotten: what leaves the table is in the hands of who took it out.
LEMMA OrphanStep ==
    ASSUME IInv, StepKinds
    PROVE  NoOrphanSocket'
  <1> USE ThreadFacts
  <1>k. \A s \in open : /\ s \in Sess /\ info[s] # None /\ info[s].key \in Keys
                        /\ IsCurrent(s) \/ \E t \in Threads : <<s, TRUE>> \in todo[t]
    BY RecordFacts DEF IInv, KeyInv, TypeOK, NoOrphanSocket, BeingClosed
  <1>1. CASE UNCHANGED <<sessions, info, open, pc, todo, rx, sessionGauge>>
    BY <1>k, <1>1 DEF NoOrphanSocket, IsCurrent, BeingClosed
  <1>2. ASSUME NEW t \in Threads, Moves(t) PROVE NoOrphanSocket'
    <2>1. UNCHANGED <<sessions, info, open>> /\ Frame(t)
      BY <1>2 DEF Moves
    <2>2. todo[t] \subseteq todo'[t]
      BY <1>2 DEF Moves
    <2>3. QED
      BY <1>k, <2>1, <2>2 DEF Frame, NoOrphanSocket, IsCurrent, BeingClosed
  <1>3. ASSUME NEW t \in Threads, NEW S \in SUBSET Sess, TakesOut(t, S) PROVE NoOrphanSocket'
    <2>1. /\ Frame(t) /\ UNCHANGED <<info, open>> /\ todo'[t] = S \X {TRUE}
          /\ \A k \in Keys : sessions'[k] = IF sessions[k] \in S THEN None ELSE sessions[k]
          /\ \A x \in todo[t] : ~x[2]
      BY <1>3 DEF TakesOut
    <2>2. ASSUME NEW s \in open, IsCurrent(s) PROVE IsCurrent(s)' \/ BeingClosed(s)'
      <3>1. CASE s \in S
        <4>1. <<s, TRUE>> \in todo'[t]
          BY <2>1, <3>1
        <4>2. QED
          BY <4>1 DEF BeingClosed
      <3>2. CASE s \notin S
        BY <1>k, <2>1, <2>2, <3>2 DEF IsCurrent
      <3>3. QED
        BY <3>1, <3>2
    <2>3. ASSUME NEW s \in open, NEW u \in Threads, <<s, TRUE>> \in todo[u] PROVE BeingClosed(s)'
      <3>1. ~ (~ (<<s, TRUE>>[2]))
        OBVIOUS
      <3>2. u # t
        BY <2>1, <2>3, <3>1
      <3>3. QED
        BY <2>1, <2>3, <3>2 DEF Frame, BeingClosed
    <2>4. QED
      BY <1>k, <2>1, <2>2, <2>3 DEF NoOrphanSocket
  <1>4. ASSUME NEW t \in Threads, NEW s \in Sess, NEW c \in BOOLEAN, Shuts(t, s, c)
        PROVE  NoOrphanSocket'
    <2>1. /\ Frame(t) /\ UNCHANGED <<sessions, info>> /\ open' = open \ {s}
          /\ todo'[t] = todo[t] \ {<<s, c>>}
      BY <1>4 DEF Shuts
    <2>2. ASSUME NEW r \in open', NEW u \in Threads, <<r, TRUE>> \in todo[u] PROVE BeingClosed(r)'
      <3>1. r # s
        BY <2>1
      <3>2. <<r, TRUE>> # <<s, c>>
        BY <3>1
      <3>3. QED
        BY <2>1, <2>2, <3>2 DEF Frame, BeingClosed
    <2>3. QED
      BY <1>k, <2>1, <2>2 DEF NoOrphanSocket, IsCurrent
  <1>5. ASSUME NEW s \in Sess, Inserts(s) PROVE NoOrphanSocket'
    <2>1. info[s] = None
      BY <1>5 DEF Inserts, IInv, KeyInv
    <2>2. IsCurrent(s)'
      BY <1>5 DEF Inserts, IsCurrent
    <2>3. ASSUME NEW r \in open PROVE IsCurrent(r)' \/ BeingClosed(r)'
      <3>1. r # s /\ r \in Sess /\ info'[r] = info[r]
        BY <1>k, <1>5, <2>1, <2>3 DEF Inserts
      <3>2. CASE IsCurrent(r)
        <4>1. info[r].key # rx.key
          BY <1>5, <3>1, <3>2, VoiceChatAssumption DEF Inserts, IsCurrent
        <4>2. info[r].key \in Keys /\ sessions[info[r].key] = r
          BY <1>k, <2>3, <3>2 DEF IsCurrent
        <4>3. sessions'[info[r].key] = r
          BY <1>5, <4>1, <4>2 DEF Inserts
        <4>4. QED
          BY <3>1, <4>3 DEF IsCurrent
      <3>3. CASE \E t \in Threads : <<r, TRUE>> \in todo[t]
        BY <1>5, <3>3 DEF Inserts, BeingClosed
      <3>4. QED
        BY <1>k, <3>2, <3>3
    <2>4. open' = open \cup {s}
      BY <1>5 DEF Inserts
    <2>5. QED
      BY <2>2, <2>3, <2>4 DEF NoOrphanSocket
  <1>6. QED
    BY <1>1, <1>2, <1>3, <1>4, <1>5 DEF StepKinds

\* Only sessions that are out of the table are closed.
LEMMA LiveStep ==
    ASSUME IInv, TypeOK', StepKinds
    PROVE  TableIsLive'
  <1>k. \A k \in Keys : sessions[k] # None =>
           sessions[k] \in Sess /\ sessions[k] \in open /\ info[sessions[k]].key = k
    BY DEF IInv, TypeOK, TableIsLive, InTable
  <1>s. ASSUME \A k \in Keys : sessions'[k] # None =>
                  sessions'[k] \in open' /\ info'[sessions'[k]].key = k
        PROVE  TableIsLive'
    BY <1>s DEF TableIsLive, InTable
  <1>1. CASE UNCHANGED <<sessions, info, open, pc, todo, rx, sessionGauge>>
    BY <1>k, <1>s, <1>1
  <1>2. ASSUME NEW t \in Threads, Moves(t) PROVE TableIsLive'
    BY <1>k, <1>s, <1>2 DEF Moves
  <1>3. ASSUME NEW t \in Threads, NEW S \in SUBSET Sess, TakesOut(t, S) PROVE TableIsLive'
    BY <1>k, <1>s, <1>3 DEF TakesOut
  <1>4. ASSUME NEW t \in Threads, NEW s \in Sess, NEW c \in BOOLEAN, Shuts(t, s, c)
        PROVE  TableIsLive'
    <2>1. UNCHANGED <<sessions, info>> /\ open' = open \ {s} /\ ~IsCurrent(s)
      BY <1>4 DEF Shuts
    <2>2. QED
      BY <1>k, <1>s, <2>1 DEF IsCurrent
  <1>5. ASSUME NEW s \in Sess, Inserts(s) PROVE TableIsLive'
    <2>1. \A k \in Keys : sessions[k] # None => sessions[k] # s
      <3>1. info[s] = None
        BY <1>5 DEF Inserts, IInv, KeyInv
      <3>2. QED
        BY <1>k, <3>1 DEF IInv, KeyInv
    <2>2. QED
      BY <1>k, <1>s, <1>5, <2>1, SMTT(60) DEF Inserts
  <1>6. QED
    BY <1>1, <1>2, <1>3, <1>4, <1>5 DEF StepKinds

\* Nobody but the reader touches its datagram or fills the table.
LEMMA ReaderInvStep ==
    ASSUME IInv, StepKinds
    PROVE  ReaderInv'
  <1>k. ASSUME pc'[Reader] = pc[Reader], rx' = rx, UNCHANGED info,
               \A k \in Keys : sessions[k] = None => sessions'[k] = None
        PROVE  ReaderInv'
    <2>1. ReaderInv /\ (rx \in Packet => rx.key \in Keys)
      BY RecordFacts DEF IInv
    <2>2. QED
      BY <1>k, <2>1 DEF ReaderInv, ForwardsUnderLookedUpLease, SameLease
  <1>1. CASE UNCHANGED <<sessions, info, open, pc, todo, rx, sessionGauge>>
    BY <1>k, <1>1
  <1>2. ASSUME NEW t \in Threads, Frame(t), UNCHANGED info,
               \A k \in Keys : sessions[k] = None => sessions'[k] = None
        PROVE  ReaderInv'
    BY <1>k, <1>2, ThreadFacts DEF Frame
  <1>3. ASSUME NEW t \in Threads,
               \/ Moves(t)
               \/ \E S \in SUBSET Sess : TakesOut(t, S)
               \/ \E s \in Sess, c \in BOOLEAN : Shuts(t, s, c)
        PROVE  ReaderInv'
    BY <1>2, <1>3 DEF Moves, TakesOut, Shuts
  <1>4. ASSUME NEW s \in Sess, Inserts(s) PROVE ReaderInv'
    BY <1>4 DEF Inserts
  <1>5. QED
    BY <1>1, <1>3, <1>4 DEF StepKinds

\* Close is the only step that closes the runtime.
LEMMA OnlyCloseCloses ==
    ASSUME [Next]_vars
    PROVE  Close \/ UNCHANGED closed
  <1>1. CASE EnvStep
    BY <1>1 DEF EnvStep, RegistrationExpires, RegistrationTTLElapses, IdleTimeoutElapses,
                PutRegistration, Put, RefreshRegistration, Refresh, DeleteRegistration, Delete,
                ReceivePacket, ReceiveExpired, LookupExpired, ReadReply, SessionSocketFails,
                registryVars
  <1>2. CASE UNCHANGED registryVars
    BY <1>2 DEF registryVars
  <1>3. ASSUME NEW t \in Threads, ClosingStep(t) PROVE UNCHANGED registryVars
    BY <1>3 DEF ClosingStep, RemoveSessionsForUUID, CloseRemoved, CloseSession, FinishClose
  <1>4. CASE ReaderStep
    BY <1>2, <1>4 DEF ReaderStep, FindSession, CloseStale, CheckLimit, DialFailsOrRefused,
                InsertSession, WriteBackend, ReaderExits
  <1>5. ASSUME NEW s \in Sess, SessionStep(s) PROVE UNCHANGED registryVars
    BY <1>5 DEF SessionStep, SendReply, SessionReaderExits
  <1>6. CASE ExpirerStep
    BY <1>2, <1>6 DEF ExpirerStep, ExpireRegistrations, ExpireAll, SnapshotSessions, CheckIdle,
                ExpirerExits
  <1>7. CASE MainStep
    BY <1>2, <1>7 DEF MainStep, CloseListener, ServeReturns
  <1>8. CASE UNCHANGED vars
    BY <1>8 DEF vars
  <1>9. QED
    BY <1>1, <1>2, <1>3, <1>4, <1>5, <1>6, <1>7, <1>8 DEF Next

\* The table of a closed runtime stays empty, and Serve returns when all are at rest.
LEMMA ClosedStep ==
    ASSUME IInv, TypeOK', [Next]_vars, StepKinds
    PROVE  ClosedInv'
  <1> USE ThreadFacts
  <1>k. ClosedInv /\ closed \in BOOLEAN
    BY DEF IInv, TypeOK, RegistryTypeOK
  <1>e. \A k \in Keys : (closed => sessions[k] = None) /\ sessions[k] \in Sess \cup {None}
    BY <1>k DEF ClosedInv, InTable, IInv, TypeOK
  <1>1. Close \/ UNCHANGED closed
    BY OnlyCloseCloses
  <1>2. CASE Close
    <2>1. closed' /\ pc'[Main] = "closeListener"
      BY <1>2 DEF Close, CloseRegistry, Goto, IInv, TypeOK
    <2>2. \A k \in Keys : sessions'[k] = None
      BY <1>2 DEF Close
    <2>3. QED
      BY <2>1, <2>2 DEF ClosedInv, InTable
  <1>3. CASE closed' = closed
    <2>1. closed' => InTable' = {}
      <3>1. CASE ~closed
        BY <1>3, <3>1
      <3>2. CASE closed
        <4>1. \A k \in Keys : sessions'[k] = None
          BY <1>e, <3>2 DEF StepKinds, Moves, TakesOut, Shuts, Inserts
        <4>2. QED
          BY <4>1 DEF InTable
      <3>3. QED
        BY <3>1, <3>2
    <2>2. pc[Main] = "serve" <=> pc'[Main] = "serve"
      <3>1. pc[Main] = "serve" => ~closed'
        BY <1>3, <1>k DEF ClosedInv
      <3>2. ASSUME NEW t \in Threads, Frame(t)
            PROVE  pc[Main] = "serve" <=> pc'[Main] = "serve"
        <4>1. CASE t = Main
          BY <3>1, <3>2, <4>1 DEF Frame
        <4>2. CASE t # Main
          BY <3>2, <4>2 DEF Frame
        <4>3. QED
          BY <4>1, <4>2
      <3>3. ASSUME NEW s \in Sess, Inserts(s) PROVE pc'[Main] = pc[Main]
        BY <3>3 DEF Inserts
      <3>4. QED
        BY <3>2, <3>3 DEF StepKinds, Moves, TakesOut, Shuts
    <2>3. pc'[Main] = "done" => AtRest'
      <3>1. ASSUME NEW t \in Threads, Frame(t), pc'[Main] = "done" PROVE AtRest'
        <4>1. AtRest
          BY <1>k, <3>1 DEF Frame, ClosedInv
        <4>2. t \notin {Reader, Expirer} \cup Sess
          BY <3>1, <4>1 DEF Frame, AtRest
        <4>3. QED
          BY <3>1, <4>1, <4>2 DEF Frame, AtRest
      <3>2. ASSUME NEW s \in Sess, Inserts(s), pc'[Main] = "done" PROVE FALSE
        BY <1>k, <3>2 DEF Inserts, ClosedInv
      <3>3. CASE UNCHANGED pc
        BY <1>k, <3>3 DEF ClosedInv, AtRest
      <3>4. QED
        BY <3>1, <3>2, <3>3 DEF StepKinds, Moves, TakesOut, Shuts
    <2>4. QED
      BY <1>k, <1>3, <2>1, <2>2, <2>3 DEF ClosedInv
  <1>4. QED
    BY <1>1, <1>2, <1>3

-----------------------------------------------------------------------------
(* The runtime implements Service, as far as safety goes. *)

Ended == pc[Main] = "done"
Held  == ~(open \subseteq ClosedByRequests)

\* When Serve has returned, only requests have sessions to close.
LEMMA EndedHoldsNothing ==
    ASSUME IInv, Ended
    PROVE  ~Held
  <1> USE ThreadFacts
  <1>1. closed /\ InTable = {} /\ AtRest
    BY DEF Ended, IInv, ClosedInv
  <1>2. \A t \in Threads : TodoOK(t)
    BY DEF IInv, LabelInv
  <1>3. \A t \in {Reader, Expirer, Main} \cup Sess : todo[t] = {}
    BY <1>1, <1>2, SMTT(60) DEF Ended, AtRest, TodoOK, Closing
  <1>4. ASSUME NEW s \in open PROVE s \in ClosedByRequests
    <2>1. s \in Sess /\ info[s] # None
      BY DEF IInv, KeyInv, TypeOK
    <2>2. info[s].key \in Keys /\ s # None
      BY <2>1, RecordFacts, VoiceChatAssumption DEF IInv
    <2>3. ~IsCurrent(s)
      BY <1>1, <2>2 DEF IsCurrent, InTable
    <2>4. PICK t \in Threads : <<s, TRUE>> \in todo[t]
      BY <2>3 DEF IInv, NoOrphanSocket, BeingClosed
    <2>5. t \in Handlers
      BY <1>3, <2>4
    <2>6. <<s, TRUE>> \in UNION {todo[h] : h \in Handlers}
      BY <2>4, <2>5
    <2>7. <<s, TRUE>>[1] = s
      OBVIOUS
    <2>8. QED
      BY <2>6, <2>7 DEF ClosedByRequests
  <1>5. QED
    BY <1>4 DEF Held

\* Serve returns once; Close, which tells the runtime to stop, closes no socket yet.
LEMMA ServicePhases ==
    ASSUME IInv, [Next]_vars
    PROVE  /\ Ended => Ended'
           /\ UNCHANGED closed \/ (~closed /\ closed' /\ ~Ended' /\ UNCHANGED Held)
  <1> USE ThreadFacts
  <1>1. Ended => Ended'
    <2>1. ASSUME NEW t \in Threads, Frame(t), Ended PROVE Ended'
      BY <2>1 DEF Frame, Ended
    <2>2. ASSUME NEW s \in Sess, Inserts(s) PROVE pc'[Main] = pc[Main]
      BY <2>2 DEF Inserts
    <2>3. QED
      BY <2>1, <2>2, StepIsOfAKind DEF StepKinds, Moves, TakesOut, Shuts, Ended
  <1>2. CASE Close
    <2>1. ~closed /\ closed' /\ pc'[Main] = "closeListener" /\ UNCHANGED open
      BY <1>2 DEF Close, CloseRegistry, Goto, IInv, TypeOK
    <2>2. \A h \in Handlers : todo'[h] = todo[h]
      BY <1>2 DEF Close, IInv, TypeOK
    <2>3. {todo'[h] : h \in Handlers} = {todo[h] : h \in Handlers}
      BY <2>2
    <2>4. ClosedByRequests' = ClosedByRequests
      BY <2>3 DEF ClosedByRequests
    <2>5. QED
      BY <1>1, <2>1, <2>4 DEF Held, Ended
  <1>3. QED
    BY <1>1, <1>2, OnlyCloseCloses

-----------------------------------------------------------------------------
(* Counting: the facts about finite sets are needed only from here on. *)
INSTANCE FiniteSetTheorems

\* A session is counted in once, and counted out at most once.
LEMMA GaugeStep ==
    ASSUME IInv, StepKinds
    PROVE  GaugeInv'
  <1>k. /\ IsFiniteSet(open) /\ sessionGauge >= Cardinality(open)
        /\ sessionGauge \in Int /\ open \subseteq Sess
    BY DEF IInv, GaugeInv, GaugeNeverUndercounts, TypeOK
  <1>c. Cardinality(open) \in Nat
    BY <1>k, FS_CardinalityType, SMTT(60)
  <1>1. CASE UNCHANGED <<open, sessionGauge>>
    BY <1>k, <1>1 DEF GaugeInv, GaugeNeverUndercounts
  <1>2. ASSUME NEW t \in Threads, NEW s \in Sess, NEW c \in BOOLEAN, Shuts(t, s, c)
        PROVE  GaugeInv'
    <2>1. /\ open' = open \ {s}
          /\ sessionGauge' = IF c /\ s \in open THEN sessionGauge - 1 ELSE sessionGauge
      BY <1>2 DEF Shuts
    <2>2. /\ IsFiniteSet(open')
          /\ Cardinality(open') = IF s \in open THEN Cardinality(open) - 1 ELSE Cardinality(open)
      BY <1>k, <2>1, FS_RemoveElement, SMTT(60)
    <2>3. sessionGauge' = sessionGauge \/ (sessionGauge' = sessionGauge - 1 /\ s \in open)
      BY <2>1
    <2>4. sessionGauge' >= Cardinality(open')
      BY <1>k, <1>c, <2>2, <2>3, SMTT(60)
    <2>5. QED
      BY <2>2, <2>4 DEF GaugeInv, GaugeNeverUndercounts
  <1>3. ASSUME NEW s \in Sess, Inserts(s) PROVE GaugeInv'
    <2>1. open' = open \cup {s} /\ sessionGauge' = sessionGauge + 1
      BY <1>3 DEF Inserts
    <2>2. /\ IsFiniteSet(open')
          /\ Cardinality(open') = IF s \in open THEN Cardinality(open) ELSE Cardinality(open) + 1
      BY <1>k, <2>1, FS_AddElement, SMTT(60)
    <2>3. sessionGauge' >= Cardinality(open')
      BY <1>k, <1>c, <2>1, <2>2, SMTT(60)
    <2>4. QED
      BY <2>2, <2>3 DEF GaugeInv, GaugeNeverUndercounts
  <1>4. QED
    BY <1>1, <1>2, <1>3 DEF StepKinds, Moves, TakesOut

-----------------------------------------------------------------------------
(* The theorems. *)

\* The runtime begins in the invariant.
LEMMA InitIInv == Init => IInv
  <1> SUFFICES ASSUME Init PROVE IInv
    OBVIOUS
  <1> USE ThreadFacts
  <1>a. closed = FALSE /\ registrations = [u \in Players |-> None] /\ granted = 0
    BY DEF Init, RegistryInit
  <1>b. closed \in BOOLEAN
    BY <1>a
  <1>c. granted \in 0..MaxLease
    BY <1>a, RegistryAssumption, SMTT(60)
  <1>1. RegInv
    BY <1>a, <1>b, <1>c DEF RegInv, RegistryTypeOK
  <1>2. /\ pc[Reader] = "read" /\ pc[Expirer] = "tick" /\ pc[Main] = "serve"
        /\ \A h \in Handlers : pc[h] = "idle"
        /\ \A s \in Sess : pc[s] = "off"
    BY DEF Init
  <1>3. /\ \A t \in Threads : todo[t] = {}
        /\ InTable = {} /\ open = {} /\ snap = {} /\ ~closed
        /\ \A s \in Sess : info[s] = None
    BY DEF Init, InTable, RegistryInit
  <1>4. pc \in [Threads -> Labels]
    BY DEF Init, Labels
  <1>5. TypeOK
    BY <1>1, <1>4, SMTT(60) DEF Init, RegInv, TypeOK
  <1>6. LabelInv
    BY <1>2, <1>3 DEF LabelInv, LabelOK, TodoOK, Closing
  <1>7. KeyInv /\ TableIsLive /\ ReaderInv /\ ClosedInv /\ NoOrphanSocket
    BY <1>2, <1>3 DEF KeyInv, TableIsLive, ReaderInv, ClosedInv, NoOrphanSocket
  <1>8. GaugeInv
    BY FS_EmptySet, SMTT(60) DEF Init, GaugeInv, GaugeNeverUndercounts
  <1>9. QED
    BY <1>1, <1>5, <1>6, <1>7, <1>8 DEF IInv

\* The conjunction is inductive.
THEOREM Invariance == Spec => []IInv
  <1>1. IInv /\ [Next]_vars => IInv'
    <2> SUFFICES ASSUME IInv, [Next]_vars PROVE IInv'
      OBVIOUS
    <2>1. RegInv'
      BY RegistryStep, RegInvStep DEF IInv
    <2>2. TypeOK'
      BY <2>1, TypeStep DEF IInv
    <2>3. StepKinds
      BY StepIsOfAKind
    <2>4. LabelInv'
      BY <2>3, LabelStep
    <2>5. KeyInv'
      BY <2>2, <2>3, SnapStep, KeyStep
    <2>6. TableIsLive' /\ ReaderInv' /\ NoOrphanSocket' /\ GaugeInv' /\ ClosedInv'
      BY <2>2, <2>3, LiveStep, ReaderInvStep, OrphanStep, GaugeStep, ClosedStep
    <2>7. QED
      BY <2>1, <2>2, <2>4, <2>5, <2>6 DEF IInv
  <1>2. QED
    BY <1>1, InitIInv, PTL DEF Spec

\* Every variable keeps its type, leases and generations included.
THEOREM TypeCorrect == Spec => []TypeOK
  BY Invariance, PTL DEF IInv

\* No backend socket leaks, however the packet, reassignment, expiry, error and shutdown
\* paths meet.
THEOREM NothingOrphaned == Spec => []NoOrphanSocket
  BY Invariance, PTL DEF IInv

\* The table only ever holds open sessions, each under its own key.
THEOREM TableLive == Spec => []TableIsLive
  BY Invariance, PTL DEF IInv

\* A datagram is written only to a session of the lease that lookupRegistration returned
\* for it, although sessionFor lets go of the lock three times in between.
THEOREM ForwardsUnderLease == Spec => []ForwardsUnderLookedUpLease
  <1>1. IInv => ForwardsUnderLookedUpLease
    BY DEF IInv, ReaderInv, ForwardsUnderLookedUpLease
  <1>2. QED
    BY <1>1, Invariance, PTL

\* The gauge never reports fewer sessions than there are open sockets.
THEOREM NeverUndercounts == Spec => []GaugeNeverUndercounts
  BY Invariance, PTL DEF IInv, GaugeInv

\* The safety part of ImplementsService: a runtime whose Serve has returned holds no
\* socket but those that a late control request took out of the table and is closing.
THEOREM ServiceSafety == Spec => Runtime!Init /\ [][Runtime!Next]_(Runtime!vars)
  <1>1. Init => Runtime!Init
    BY ThreadFacts DEF Init, RegistryInit, Runtime!Init
  <1>2. IInv /\ IInv' /\ [Next]_vars => [Runtime!Next]_(Runtime!vars)
    <2> SUFFICES ASSUME IInv, IInv', [Next]_vars PROVE [Runtime!Next]_(Runtime!vars)
      OBVIOUS
    <2>1. Ended => ~Held
      BY EndedHoldsNothing
    <2>2. Ended' => ~Held'
      BY EndedHoldsNothing, PTL
    <2>3. /\ Ended => Ended'
          /\ UNCHANGED closed \/ (~closed /\ closed' /\ ~Ended' /\ UNCHANGED Held)
      BY ServicePhases
    <2>4. CASE Ended
      <3>1. UNCHANGED Runtime!vars
        BY <2>1, <2>2, <2>3, <2>4 DEF Runtime!vars, Ended, Held
      <3>2. QED
        BY <3>1
    <2>5. CASE ~Ended /\ Ended'
      <3>1. Runtime!End
        BY <2>2, <2>5 DEF Runtime!End, Ended, Held
      <3>2. QED
        BY <3>1 DEF Runtime!Next
    <2>6. CASE ~Ended /\ ~Ended' /\ UNCHANGED closed
      <3>1. Runtime!Serve
        BY <2>6 DEF Runtime!Serve, Ended
      <3>2. QED
        BY <3>1 DEF Runtime!Next
    <2>7. CASE ~Ended /\ ~Ended' /\ ~closed /\ closed' /\ UNCHANGED Held
      <3>1. Runtime!Stop
        BY <2>7 DEF Runtime!Stop, Ended, Held
      <3>2. QED
        BY <3>1 DEF Runtime!Next
    <2>8. QED
      BY <2>3, <2>4, <2>5, <2>6, <2>7
  <1>3. QED
    BY <1>1, <1>2, Invariance, PTL DEF Spec

=============================================================================
