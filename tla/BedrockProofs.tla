---------------------------- MODULE BedrockProofs ----------------------------
(***************************************************************************)
(* Proofs about the UDP relay, the Bedrock host proxy and the server made  *)
(* of either: no socket is forgotten, the table stays within its limit and *)
(* served, the gauge drifts only by contention, and a server that has      *)
(* ended holds nothing.                                                    *)
(***************************************************************************)
EXTENDS Bedrock, TLAPS

\* Steps are for Zenon, unless they name the other prover; they are small, and the
\* limit is for a busy machine.
USE ZenonT(60)

(* The relay. *)

Closing == {"closeSession", "finishClose"}

\* Where each goroutine can be.
LabelInv ==
    /\ pc[Reader] \in {"read", "dial", "write", "wait", "done"} \cup Closing
    /\ pc[Expirer] \in {"tick", "idleCheck", "done"} \cup Closing
    /\ pc[Closer] \in {"serve", "closeListener", "shut"}
    /\ \A s \in Sess : pc[s] \in {"off", "read", "send", "done"} \cup Closing

\* What the goroutines hold on to are sessions that were once in the table, and
\* readBackend closes no session but its own.
TargetInv ==
    /\ \A t \in Threads :
          pc[t] \in Closing \cup {"write"} => target[t] \in Sess /\ key[target[t]] # None
    /\ \A s \in Sess : pc[s] \in Closing => target[s] = s
    /\ pc[Reader] = "dial" => client \in Clients
    /\ \A s \in snap : key[s] # None

\* A session is made once: it is in the table under its own key, with an open socket,
\* until somebody takes it out, and never comes back.
KeyInv ==
    /\ \A s \in Sess : pc[s] = "off" <=> key[s] = None
    /\ \A s \in open : key[s] # None
    /\ \A c \in InTable : key[sessions[c]] = c /\ sessions[c] \in open
    /\ \A t \in Threads : pc[t] = "finishClose" => ~IsCurrent(target[t])

\* What was taken out of the table is with the goroutine that will close it.
RemovedInv ==
    /\ \A t \in Threads : \A s \in removed[t] : key[s] # None
    /\ \A t \in Threads \ {Closer} :
          removed[t] # {} => pc[t] = "finishClose" /\ removed[t] = {target[t]}
    /\ pc[Closer] = "serve" => removed[Closer] = {}

\* A closed relay has an empty table, which nothing fills again, and Serve returns
\* after all goroutines but Close's.
ClosedInv ==
    /\ closed <=> pc[Closer] # "serve"
    /\ ~listening => closed
    /\ closed => InTable = {}
    /\ pc[Reader] = "done" =>
          \A t \in {Expirer} \cup Sess : pc[t] \in {"off", "done"}

RelayInv ==
    /\ TypeOK
    /\ LabelInv
    /\ TargetInv
    /\ KeyInv
    /\ RemovedInv
    /\ ClosedInv

\* As long as no two goroutines close the same session, every close is counted.
GaugeInv ==
    /\ Contended => contended
    /\ ~contended => gauge = Cardinality(open)

-----------------------------------------------------------------------------
(* The host proxy. *)

\* At which places of its handler each connection can be open, and in the table.
ConnInv ==
    /\ hpOpen \cup hpConns \subseteq Clients \X HostProxy!Sides
    /\ \A c \in Clients :
          /\ HostProxy!Client(c) \in hpOpen =>
                hpPc[c] \in {"accepted", "dial", "dialled", "failed", "spawn", "bridge",
                             "disconnect"}
          /\ HostProxy!Server(c) \in hpOpen =>
                hpPc[c] \in {"dialled", "spawn", "bridge", "disconnect"}
          /\ HostProxy!Client(c) \in hpConns =>
                hpPc[c] \in {"dial", "dialled", "failed", "spawn", "bridge", "disconnect",
                             "unregister", "leave"}
          /\ HostProxy!Server(c) \in hpConns =>
                hpPc[c] \in {"spawn", "bridge", "disconnect", "unregister"}

\* Serve returns after the last handler.
HostProxyDone == hpServe = "returned" => \A c \in Clients : hpPc[c] \in {"none", "gone"}

\* The server that was not configured is not started.
OneServer ==
    /\ mode \in {"udp-forward", "host-proxy"}
    /\ mode = "udp-forward" => HostProxy!Init
    /\ mode = "host-proxy" => Init

IInv ==
    /\ RelayInv
    /\ NoOrphanSocket
    /\ SessionsBounded
    /\ TableIsServed
    /\ GaugeInv
    /\ HostProxy!TypeOK
    /\ ConnInv
    /\ HostProxyDone
    /\ OneServer

-----------------------------------------------------------------------------
(* The steps of the relay. *)

\* The three goroutines of the relay are not those of its sessions.
LEMMA ThreadFacts ==
    /\ Reader \in Threads /\ Expirer \in Threads /\ Closer \in Threads
    /\ Sess \subseteq Threads
    /\ Reader # Expirer /\ Reader # Closer /\ Expirer # Closer
    /\ Reader \notin Sess /\ Expirer \notin Sess /\ Closer \notin Sess
    /\ None \notin Sess /\ None \notin Clients
  BY RelayAssumption DEF Threads, Reader, Expirer, Closer

\* A step of the relay keeps the types.
LEMMA TypeStep ==
    ASSUME TypeOK, LabelInv, TargetInv, [Next]_vars
    PROVE  TypeOK'
  <1> USE ThreadFacts DEF TypeOK, Labels
  <1>1. ASSUME NEW s \in Sess, IdleTimeoutElapses(s) PROVE TypeOK'
    BY <1>1 DEF IdleTimeoutElapses
  <1>2. ASSUME NEW t \in Threads, CloseSession(t) PROVE TypeOK'
    <2>1. target[t] \in Sess
      BY <1>2 DEF CloseSession, TargetInv, Closing
    <2>2. sessions' \in [Clients -> Sess \cup {None}]
      BY <1>2 DEF CloseSession
    <2>3. removed' \in [Threads -> SUBSET Sess]
      BY <1>2, <2>1, SMTT(60) DEF CloseSession
    <2>4. pc' \in [Threads -> Labels]
      BY <1>2 DEF CloseSession, Goto
    <2>5. QED
      BY <1>2, <2>2, <2>3, <2>4 DEF CloseSession
  <1>3. ASSUME NEW t \in Threads, FinishClose(t) PROVE TypeOK'
    <2>1. pc' \in [Threads -> Labels]
      BY <1>3 DEF FinishClose, Goto
    <2>2. gauge' \in Int /\ open' \subseteq Sess /\ idle' \subseteq Sess
      BY <1>3, SMTT(60) DEF FinishClose, Shut
    <2>3. QED
      BY <1>3, <2>1, <2>2 DEF FinishClose
  <1>4. ASSUME NEW c \in Clients, ReceivePacket(c) PROVE TypeOK'
    BY <1>4 DEF ReceivePacket, Goto
  <1>5. CASE DialFailsOrRefused
    BY <1>5 DEF DialFailsOrRefused, Drop, Goto
  <1>6. ASSUME NEW s \in Sess, InsertSession(s) PROVE TypeOK'
    <2>1. client \in Clients
      BY <1>6 DEF InsertSession, TargetInv
    <2>2. CASE sessions[client] # None
      BY <1>6, <2>1, <2>2, SMTT(60) DEF InsertSession, Goto
    <2>3. CASE sessions[client] = None
      <3>1. pc' \in [Threads -> Labels]
        BY <1>6, <2>3, SMTT(60) DEF InsertSession
      <3>2. /\ sessions' \in [Clients -> Sess \cup {None}]
            /\ key' \in [Sess -> Clients \cup {None}]
        BY <1>6, <2>1, <2>3, SMTT(60) DEF InsertSession
      <3>3. open' \subseteq Sess /\ gauge' \in Int /\ target' \in [Threads -> Sess \cup {None}]
        BY <1>6, <2>3, SMTT(60) DEF InsertSession
      <3>4. QED
        BY <1>6, <3>1, <3>2, <3>3 DEF InsertSession
    <2>4. QED
      BY <2>2, <2>3
  <1>7. CASE WriteBackend
    BY <1>7 DEF WriteBackend, Drop, Goto
  <1>8. CASE ReaderStops \/ ServeReturns
    BY <1>8, SMTT(60) DEF ReaderStops, ServeReturns, Goto
  <1>9. ASSUME NEW s \in Sess, ReadReply(s) \/ SendReply(s) PROVE TypeOK'
    BY <1>9, SMTT(60) DEF ReadReply, SendReply, Goto
  <1>10. ASSUME NEW s \in Sess, SessionSocketFails(s) \/ SessionReaderExits(s) PROVE TypeOK'
    BY <1>10, SMTT(60) DEF SessionSocketFails, SessionReaderExits, Goto
  <1>11. CASE SnapshotSessions
    <2>1. snap' \subseteq Sess
      BY <1>11, SMTT(60) DEF SnapshotSessions, InTable
    <2>2. QED
      BY <1>11, <2>1 DEF SnapshotSessions, Goto
  <1>12. ASSUME NEW s \in Sess, CheckIdle(s) PROVE TypeOK'
    BY <1>12, SMTT(60) DEF CheckIdle, Goto
  <1>13. CASE ExpirerExits
    BY <1>13 DEF ExpirerExits, Goto
  <1>14. CASE Close
    <2>1. removed' \in [Threads -> SUBSET Sess]
      BY <1>14, SMTT(60) DEF Close, InTable
    <2>2. QED
      BY <1>14, <2>1 DEF Close, Goto
  <1>15. CASE CloseListener
    BY <1>15 DEF CloseListener, Goto
  <1>16. ASSUME NEW s \in Sess, ShutRemoved(s) PROVE TypeOK'
    BY <1>16, SMTT(60) DEF ShutRemoved, Shut
  <1>17. CASE UNCHANGED vars
    BY <1>17 DEF vars
  <1>18. QED
    BY <1>1, <1>2, <1>3, <1>4, <1>5, <1>6, <1>7, <1>8, <1>9, <1>10, <1>11, <1>12, <1>13, <1>14,
       <1>15, <1>16, <1>17, ZenonT(60)
       DEF Next, EnvStep, RelayStep, ClosingStep, ReaderStep, SessionStep, ExpirerStep,
           CloserStep

\* readBackend goes on or gives up.
SessionMoves(s) ==
    ReadReply(s) \/ SendReply(s) \/ SessionSocketFails(s) \/ SessionReaderExits(s)

\* A goroutine goes from one place to another, and nobody touches the table or a
\* socket.
Moves(t) ==
    /\ UNCHANGED <<closed, sessions, key, open, removed, gauge>>
    /\ \A u \in Threads \ {t} : pc'[u] = pc[u] /\ target'[u] = target[u]
    /\ pc[t] \notin Closing \cup {"off"}
    /\ pc'[t] \notin {"off", "finishClose"}
    /\ pc'[Closer] = "serve" <=> pc[Closer] = "serve"
    /\ t \in Sess => SessionMoves(t)

\* sessionForClient puts a new session into the table.
Inserts(s) == InsertSession(s) /\ sessions[client] = None

\* Apart from five kinds of steps, a step moves one goroutine.
LEMMA StepKinds ==
    ASSUME TypeOK, LabelInv, [Next]_vars
    PROVE  \/ \E t \in Threads : CloseSession(t) \/ FinishClose(t) \/ Moves(t)
           \/ \E s \in Sess : Inserts(s) \/ ShutRemoved(s)
           \/ Close
  <1> USE ThreadFacts
  <1>0. /\ pc \in [Threads -> Labels] /\ target \in [Threads -> Sess \cup {None}]
        /\ pc[Closer] \notin Closing \cup {"off", "finishClose"}
    BY DEF TypeOK, LabelInv, Closing
  <1>1. ASSUME NEW s \in Sess, IdleTimeoutElapses(s) PROVE Moves(Closer)
    BY <1>0, <1>1 DEF IdleTimeoutElapses, Moves
  <1>2. CASE UNCHANGED vars
    BY <1>0, <1>2 DEF vars, Moves, Closing
  <1>3. ASSUME NEW c \in Clients, ReceivePacket(c) PROVE Moves(Reader)
    BY <1>0, <1>3 DEF ReceivePacket, Goto, Moves, Closing
  <1>4. CASE DialFailsOrRefused \/ ReaderStops \/ ServeReturns
    <2>1. Moves(Reader)
      BY <1>0, <1>4 DEF DialFailsOrRefused, Drop, ReaderStops, ServeReturns, Goto, Moves, Closing
    <2>2. QED
      BY <2>1
  <1>5. ASSUME NEW s \in Sess, InsertSession(s), ~Inserts(s) PROVE Moves(Reader)
    BY <1>0, <1>5 DEF InsertSession, Inserts, Goto, Moves, Closing
  <1>6. CASE WriteBackend
    <2>1. Moves(Reader)
      BY <1>0, <1>6 DEF WriteBackend, Drop, Goto, Moves, Closing
    <2>2. QED
      BY <2>1
  <1>7. ASSUME NEW s \in Sess, ReadReply(s) \/ SendReply(s) PROVE Moves(s)
    BY <1>0, <1>7 DEF ReadReply, SendReply, SessionMoves, Goto, Moves, Closing
  <1>8. ASSUME NEW s \in Sess, SessionSocketFails(s) \/ SessionReaderExits(s) PROVE Moves(s)
    BY <1>0, <1>8 DEF SessionSocketFails, SessionReaderExits, SessionMoves, Goto, Moves,
                      Closing
  <1>9. ASSUME NEW s \in Sess, CheckIdle(s) PROVE Moves(Expirer)
    BY <1>0, <1>9 DEF CheckIdle, Goto, Moves, Closing
  <1>10. CASE SnapshotSessions \/ ExpirerExits
    <2>1. Moves(Expirer)
      BY <1>0, <1>10 DEF SnapshotSessions, ExpirerExits, Goto, Moves, Closing
    <2>2. QED
      BY <2>1
  <1>11. CASE CloseListener
    <2>1. Moves(Closer)
      BY <1>0, <1>11 DEF CloseListener, Goto, Moves, Closing
    <2>2. QED
      BY <2>1
  <1>12. QED
    BY <1>1, <1>2, <1>3, <1>4, <1>5, <1>6, <1>7, <1>8, <1>9, <1>10, <1>11
       DEF Next, EnvStep, RelayStep, ClosingStep, ReaderStep, SessionStep, ExpirerStep,
           CloserStep

\* Every goroutine stays on its own path.
LEMMA LabelStep ==
    ASSUME TypeOK, LabelInv, TargetInv, [Next]_vars
    PROVE  LabelInv'
  <1> USE ThreadFacts
  <1>0. pc \in [Threads -> Labels]
    BY DEF TypeOK
  <1> USE <1>0 DEF LabelInv, Closing, Goto
  <1>1. ASSUME NEW t \in Threads, CloseSession(t) PROVE LabelInv'
    BY <1>1 DEF CloseSession
  <1>2. ASSUME NEW t \in Threads, FinishClose(t) PROVE LabelInv'
    <2>1. t # Closer
      BY <1>2 DEF FinishClose
    <2>2. CASE t = Reader
      BY <1>2, <2>2 DEF FinishClose
    <2>3. CASE t = Expirer
      BY <1>2, <2>3 DEF FinishClose
    <2>4. CASE t \in Sess
      BY <1>2, <2>4 DEF FinishClose
    <2>5. QED
      BY <2>1, <2>2, <2>3, <2>4 DEF Threads
  <1>3. ASSUME NEW c \in Clients, ReceivePacket(c) PROVE LabelInv'
    BY <1>3 DEF ReceivePacket
  <1>4. ASSUME NEW s \in Sess, InsertSession(s) PROVE LabelInv'
    BY <1>4 DEF InsertSession
  <1>5. CASE DialFailsOrRefused \/ WriteBackend \/ ReaderStops \/ ServeReturns
    BY <1>5 DEF DialFailsOrRefused, WriteBackend, ReaderStops, ServeReturns, Drop
  <1>6. ASSUME NEW s \in Sess, ReadReply(s) \/ SendReply(s) PROVE LabelInv'
    BY <1>6 DEF ReadReply, SendReply
  <1>7. ASSUME NEW s \in Sess, SessionSocketFails(s) \/ SessionReaderExits(s) PROVE LabelInv'
    BY <1>7 DEF SessionSocketFails, SessionReaderExits
  <1>8. CASE SnapshotSessions \/ ExpirerExits
    BY <1>8 DEF SnapshotSessions, ExpirerExits
  <1>9. ASSUME NEW s \in Sess, CheckIdle(s) PROVE LabelInv'
    BY <1>9 DEF CheckIdle
  <1>10. CASE Close \/ CloseListener
    BY <1>10 DEF Close, CloseListener
  <1>11. ASSUME UNCHANGED pc PROVE LabelInv'
    BY <1>11
  <1>12. ASSUME NEW s \in Sess, IdleTimeoutElapses(s) \/ ShutRemoved(s) PROVE LabelInv'
    BY <1>11, <1>12 DEF IdleTimeoutElapses, ShutRemoved
  <1>13. CASE UNCHANGED vars
    BY <1>11, <1>13 DEF vars
  <1>14. QED
    BY <1>1, <1>2, <1>3, <1>4, <1>5, <1>6, <1>7, <1>8, <1>9, <1>10, <1>12, <1>13
       DEF Next, EnvStep, RelayStep, ClosingStep, ReaderStep, SessionStep, ExpirerStep,
           CloserStep

\* What a goroutine picks up was in the table: the reader finds it there, or has put
\* it there, the expiry loop has copied it from there, and readBackend runs for it.
LEMMA TargetStep ==
    ASSUME TypeOK, LabelInv, TargetInv, KeyInv, [Next]_vars
    PROVE  TargetInv'
  <1> USE ThreadFacts
  <1>0. /\ pc \in [Threads -> Labels] /\ target \in [Threads -> Sess \cup {None}]
        /\ sessions \in [Clients -> Sess \cup {None}] /\ key \in [Sess -> Clients \cup {None}]
    BY DEF TypeOK
  <1>k. \A c \in Clients : sessions[c] # None => key[sessions[c]] # None
    BY <1>0 DEF KeyInv, InTable
  <1> USE <1>0 DEF TargetInv, Closing, Goto
  <1>1. ASSUME NEW t \in Threads, CloseSession(t) PROVE TargetInv'
    BY <1>1 DEF CloseSession
  <1>2. ASSUME NEW t \in Threads, FinishClose(t) PROVE TargetInv'
    <2>1. pc'[t] \notin Closing \cup {"write", "dial"}
      BY <1>2 DEF FinishClose
    <2>2. \A u \in Threads \ {t} : pc'[u] = pc[u] /\ target'[u] = target[u]
      BY <1>2 DEF FinishClose
    <2>3. pc'[Reader] = "dial" => client' = client
      BY <1>2, <2>1 DEF FinishClose
    <2>4. UNCHANGED <<key, snap>>
      BY <1>2 DEF FinishClose
    <2>5. QED
      BY <2>1, <2>2, <2>3, <2>4
  <1>3. ASSUME NEW c \in Clients, ReceivePacket(c) PROVE TargetInv'
    BY <1>k, <1>3, SMTT(60) DEF ReceivePacket, LabelInv
  <1>4. ASSUME NEW s \in Sess, InsertSession(s) PROVE TargetInv'
    <2>0. client \in Clients
      BY <1>4 DEF InsertSession
    <2>1. CASE sessions[client] # None
      BY <1>k, <1>4, <2>0, <2>1, SMTT(60) DEF InsertSession, LabelInv
    <2>2. CASE sessions[client] = None
      <3>1. /\ pc' = [pc EXCEPT ![Reader] = "write", ![s] = "read"]
            /\ target' = [target EXCEPT ![Reader] = s]
            /\ key' = [key EXCEPT ![s] = client]
            /\ UNCHANGED <<client, snap>>
        BY <1>4, <2>2 DEF InsertSession
      <3>2. \A u \in Sess : key[u] # None => key'[u] # None
        BY <2>0, <3>1
      <3>3. key'[s] # None
        BY <2>0, <3>1
      <3>4. QED
        BY <3>1, <3>2, <3>3, SMTT(60) DEF TypeOK, LabelInv
    <2>3. QED
      BY <2>1, <2>2
  <1>5. CASE DialFailsOrRefused \/ ReaderStops \/ ServeReturns
    BY <1>5, SMTT(60) DEF DialFailsOrRefused, ReaderStops, ServeReturns, Drop
  <1>6. CASE WriteBackend
    BY <1>6, SMTT(60) DEF WriteBackend, Drop
  <1>7. ASSUME NEW s \in Sess, ReadReply(s) \/ SendReply(s) \/ SessionReaderExits(s)
        PROVE TargetInv'
    BY <1>7, SMTT(60) DEF ReadReply, SendReply, SessionReaderExits
  <1>8. ASSUME NEW s \in Sess, SessionSocketFails(s) PROVE TargetInv'
    <2>1. key[s] # None
      BY <1>8 DEF SessionSocketFails, KeyInv
    <2>2. QED
      BY <1>8, <2>1, SMTT(60) DEF SessionSocketFails
  <1>9. CASE SnapshotSessions
    <2>1. \A s \in snap' : key[s] # None
      BY <1>k, <1>9, SMTT(60) DEF SnapshotSessions, InTable
    <2>2. QED
      BY <1>9, <2>1 DEF SnapshotSessions
  <1>10. ASSUME NEW s \in Sess, CheckIdle(s) PROVE TargetInv'
    BY <1>10, SMTT(60) DEF CheckIdle
  <1>11. CASE ExpirerExits \/ Close \/ CloseListener
    BY <1>11, SMTT(60) DEF ExpirerExits, Close, CloseListener
  <1>12. ASSUME UNCHANGED <<pc, target, key, client, snap>> PROVE TargetInv'
    BY <1>12
  <1>13. ASSUME NEW s \in Sess, IdleTimeoutElapses(s) \/ ShutRemoved(s) PROVE TargetInv'
    BY <1>12, <1>13 DEF IdleTimeoutElapses, ShutRemoved
  <1>14. CASE UNCHANGED vars
    BY <1>12, <1>14 DEF vars
  <1>15. QED
    BY <1>1, <1>2, <1>3, <1>4, <1>5, <1>6, <1>7, <1>8, <1>9, <1>10, <1>11, <1>13, <1>14
       DEF Next, EnvStep, RelayStep, ClosingStep, ReaderStep, SessionStep, ExpirerStep,
           CloserStep

\* What one goroutine does when it takes its session out of the table, and what the
\* second of two does, who no longer finds it there.
LEMMA TakeOut ==
    ASSUME TypeOK, TargetInv, KeyInv, NEW t \in Threads, CloseSession(t)
    PROVE  /\ \A s \in Sess : IsCurrent(s)' <=> IsCurrent(s) /\ s # target[t]
           /\ InTable' = InTable \ {key[target[t]]} \/ InTable' = InTable
           /\ \A c \in InTable' : sessions'[c] = sessions[c]
           /\ InTable' \subseteq InTable
           /\ UNCHANGED <<key, open, target>>
           /\ pc'[t] = "finishClose" /\ \A u \in Threads \ {t} : pc'[u] = pc[u]
  <1>0. /\ pc \in [Threads -> Labels] /\ sessions \in [Clients -> Sess \cup {None}]
        /\ key \in [Sess -> Clients \cup {None}]
    BY DEF TypeOK
  <1>1. target[t] \in Sess /\ key[target[t]] \in Clients
    BY <1>0 DEF CloseSession, TargetInv, Closing
  <1>2. /\ UNCHANGED <<key, open, target>>
        /\ pc'[t] = "finishClose" /\ \A u \in Threads \ {t} : pc'[u] = pc[u]
    BY <1>0 DEF CloseSession, Goto
  <1>3. CASE ~IsCurrent(target[t])
    <2>1. UNCHANGED sessions
      BY <1>3 DEF CloseSession
    <2>2. QED
      BY <1>2, <1>3, <2>1 DEF IsCurrent, InTable
  <1>4. CASE IsCurrent(target[t])
    <2>1. sessions' = [sessions EXCEPT ![key[target[t]]] = None]
      BY <1>4 DEF CloseSession
    <2>2. \A c \in Clients : sessions'[c] = IF c = key[target[t]] THEN None ELSE sessions[c]
      BY <1>0, <2>1
    <2>3. InTable' = InTable \ {key[target[t]]}
      BY <2>2 DEF InTable
    <2>4. \A s \in Sess : IsCurrent(s)' <=> IsCurrent(s) /\ s # target[t]
      <3> SUFFICES ASSUME NEW s \in Sess
                   PROVE  IsCurrent(s)' <=> IsCurrent(s) /\ s # target[t]
        OBVIOUS
      <3>1. CASE key[s] = None
        BY <1>2, <3>1 DEF IsCurrent
      <3>2. CASE key[s] \in Clients
        BY <1>0, <1>1, <1>2, <1>4, <2>2, <3>2, ThreadFacts DEF IsCurrent
      <3>3. QED
        BY <1>0, <3>1, <3>2
    <2>5. QED
      BY <1>2, <2>2, <2>3, <2>4 DEF InTable
  <1>5. QED
    BY <1>3, <1>4

\* A new session is in the table, under the client it was made for, and displaces
\* none.
LEMMA PutIn ==
    ASSUME TypeOK, TargetInv, KeyInv, NEW s \in Sess, Inserts(s)
    PROVE  /\ client \in Clients /\ client \notin InTable /\ ~closed /\ ~AtSessionLimit
           /\ InTable' = InTable \cup {client}
           /\ sessions'[client] = s /\ \A c \in InTable : sessions'[c] = sessions[c]
           /\ key[s] = None /\ key'[s] = client /\ \A u \in Sess \ {s} : key'[u] = key[u]
           /\ \A u \in Sess : IsCurrent(u)' <=> IsCurrent(u) \/ u = s
           /\ open' = open \cup {s} /\ s \notin open
           /\ gauge' = gauge + 1
           /\ pc[Reader] = "dial" /\ pc'[Reader] = "write" /\ pc[s] = "off" /\ pc'[s] = "read"
           /\ \A u \in Threads \ {Reader, s} : pc'[u] = pc[u]
           /\ target'[Reader] = s /\ \A u \in Threads \ {Reader} : target'[u] = target[u]
           /\ UNCHANGED <<removed, closed, listening>>
  <1> USE ThreadFacts
  <1>0. /\ pc \in [Threads -> Labels] /\ sessions \in [Clients -> Sess \cup {None}]
        /\ key \in [Sess -> Clients \cup {None}] /\ target \in [Threads -> Sess \cup {None}]
    BY DEF TypeOK
  <1>1. pc[Reader] = "dial" /\ client \in Clients /\ sessions[client] = None /\ pc[s] = "off"
    BY DEF Inserts, InsertSession, TargetInv
  <1>2. /\ sessions' = [sessions EXCEPT ![client] = s]
        /\ key' = [key EXCEPT ![s] = client]
        /\ open' = open \cup {s}
        /\ gauge' = gauge + 1
        /\ target' = [target EXCEPT ![Reader] = s]
        /\ pc' = [pc EXCEPT ![Reader] = "write", ![s] = "read"]
        /\ UNCHANGED <<removed, closed, listening>>
        /\ ~closed /\ ~AtSessionLimit
    BY DEF Inserts, InsertSession
  <1>3. key[s] = None /\ s \notin open
    BY <1>1 DEF KeyInv
  <1>4. \A c \in Clients : sessions'[c] = IF c = client THEN s ELSE sessions[c]
    BY <1>0, <1>2
  <1>5. InTable' = InTable \cup {client} /\ client \notin InTable
    BY <1>1, <1>4 DEF InTable
  <1>6. key'[s] = client /\ \A u \in Sess \ {s} : key'[u] = key[u]
    BY <1>0, <1>2
  <1>7. \A u \in Sess : IsCurrent(u)' <=> IsCurrent(u) \/ u = s
    <2> SUFFICES ASSUME NEW u \in Sess PROVE IsCurrent(u)' <=> IsCurrent(u) \/ u = s
      OBVIOUS
    <2>1. CASE u = s
      BY <1>1, <1>4, <1>6, <2>1 DEF IsCurrent
    <2>2. CASE u # s
      BY <1>0, <1>1, <1>4, <1>6, <2>2 DEF IsCurrent
    <2>3. QED
      BY <2>1, <2>2
  <1>8. /\ pc'[Reader] = "write" /\ pc'[s] = "read"
        /\ \A u \in Threads \ {Reader, s} : pc'[u] = pc[u]
    BY <1>0, <1>2
  <1>9. target'[Reader] = s /\ \A u \in Threads \ {Reader} : target'[u] = target[u]
    BY <1>0, <1>2
  <1>10. sessions'[client] = s /\ \A c \in InTable : sessions'[c] = sessions[c]
    BY <1>1, <1>4, <1>5 DEF InTable
  <1>11. QED
    BY <1>1, <1>2, <1>3, <1>5, <1>6, <1>7, <1>8, <1>9, <1>10

\* What FinishClose changes: its own session is shut, and was not in the table.
LEMMA ShutOut ==
    ASSUME TypeOK, LabelInv, TargetInv, KeyInv, NEW t \in Threads, FinishClose(t)
    PROVE  /\ t # Closer /\ pc[t] = "finishClose"
           /\ target[t] \in Sess /\ ~IsCurrent(target[t])
           /\ open' = open \ {target[t]}
           /\ removed'[t] = {} /\ \A u \in Threads \ {t} : removed'[u] = removed[u]
           /\ pc'[t] \notin Closing \cup {"off", "wait"}
           /\ t \in Sess => pc'[t] = "done"
           /\ \A u \in Threads \ {t} : pc'[u] = pc[u] /\ target'[u] = target[u]
           /\ target'[t] = None
           /\ UNCHANGED <<closed, listening, sessions, key>>
           /\ gauge' = IF removed[t] # {} /\ target[t] \in open THEN gauge - 1 ELSE gauge
  <1> USE ThreadFacts
  <1>0. /\ pc \in [Threads -> Labels] /\ target \in [Threads -> Sess \cup {None}]
        /\ removed \in [Threads -> SUBSET Sess]
    BY DEF TypeOK
  <1>1. t # Closer /\ pc[t] = "finishClose"
    BY DEF FinishClose, LabelInv, Closing
  <1>2. target[t] \in Sess /\ ~IsCurrent(target[t])
    BY <1>1 DEF TargetInv, KeyInv, Closing
  <1>3. /\ pc'[t] \notin Closing \cup {"off", "wait"}
        /\ t \in Sess => pc'[t] = "done"
        /\ \A u \in Threads \ {t} : pc'[u] = pc[u]
    BY <1>0 DEF FinishClose, Goto, Closing
  <1>4. /\ target'[t] = None /\ \A u \in Threads \ {t} : target'[u] = target[u]
        /\ removed'[t] = {} /\ \A u \in Threads \ {t} : removed'[u] = removed[u]
        /\ UNCHANGED <<closed, listening, sessions, key>>
    BY <1>0 DEF FinishClose
  <1>5. /\ open' = open \ {target[t]}
        /\ gauge' = IF removed[t] # {} /\ target[t] \in open THEN gauge - 1 ELSE gauge
    BY DEF FinishClose, Shut
  <1>6. QED
    BY <1>1, <1>2, <1>3, <1>4, <1>5

\* What Close does under the lock.
LEMMA EmptyTable ==
    ASSUME TypeOK, Close
    PROVE  /\ InTable' = {} /\ \A s \in Sess : ~IsCurrent(s)'
           /\ closed' /\ pc[Closer] = "serve" /\ pc'[Closer] = "closeListener"
           /\ \A u \in Threads \ {Closer} : pc'[u] = pc[u] /\ removed'[u] = removed[u]
           /\ removed'[Closer] = {sessions[c] : c \in InTable}
           /\ UNCHANGED <<listening, key, open, target, gauge>>
  <1>0. /\ pc \in [Threads -> Labels] /\ removed \in [Threads -> SUBSET Sess]
        /\ key \in [Sess -> Clients \cup {None}]
    BY DEF TypeOK
  <1>1. \A c \in Clients : sessions'[c] = None
    BY DEF Close
  <1>2. UNCHANGED <<listening, key, open, target, gauge>>
    BY DEF Close
  <1>3. \A s \in Sess : ~IsCurrent(s)'
    BY <1>0, <1>1, <1>2, ThreadFacts DEF IsCurrent
  <1>4. InTable' = {}
    BY <1>1 DEF InTable
  <1>5. /\ closed' /\ pc[Closer] = "serve" /\ pc'[Closer] = "closeListener"
        /\ removed'[Closer] = {sessions[c] : c \in InTable}
    BY <1>0, ThreadFacts DEF Close, Goto
  <1>6. \A u \in Threads \ {Closer} : pc'[u] = pc[u] /\ removed'[u] = removed[u]
    BY <1>0 DEF Close, Goto
  <1>7. QED
    BY <1>2, <1>3, <1>4, <1>5, <1>6

\* What Close does to one of the sessions it has taken out.
LEMMA ShutByClose ==
    ASSUME TypeOK, ClosedInv, NEW s \in Sess, ShutRemoved(s)
    PROVE  /\ pc[Closer] = "shut" /\ s \in removed[Closer] /\ InTable = {}
           /\ open' = open \ {s}
           /\ removed'[Closer] = removed[Closer] \ {s}
           /\ \A u \in Threads \ {Closer} : removed'[u] = removed[u]
           /\ UNCHANGED <<closed, listening, sessions, key, pc, target>>
           /\ gauge' = IF s \in open THEN gauge - 1 ELSE gauge
  <1>0. removed \in [Threads -> SUBSET Sess]
    BY DEF TypeOK
  <1>1. pc[Closer] = "shut" /\ s \in removed[Closer] /\ InTable = {}
    BY DEF ShutRemoved, ClosedInv
  <1>2. /\ open' = open \ {s} /\ gauge' = IF s \in open THEN gauge - 1 ELSE gauge
        /\ UNCHANGED <<closed, listening, sessions, key, pc, target>>
    BY DEF ShutRemoved, Shut
  <1>3. /\ removed'[Closer] = removed[Closer] \ {s}
        /\ \A u \in Threads \ {Closer} : removed'[u] = removed[u]
    BY <1>0, ThreadFacts DEF ShutRemoved
  <1>4. QED
    BY <1>1, <1>2, <1>3

\* The session of a table entry is current: its key is that of the entry.
LEMMA TableIsCurrent ==
    ASSUME TypeOK, KeyInv, NEW c \in InTable
    PROVE  sessions[c] \in Sess /\ IsCurrent(sessions[c]) /\ key[sessions[c]] = c
  BY ThreadFacts DEF TypeOK, KeyInv, InTable, IsCurrent

\* A session in the table is filed under its client, before and after a step of the relay.
LEMMA KeyStep ==
    ASSUME TypeOK, LabelInv, TargetInv, KeyInv, ClosedInv, [Next]_vars
    PROVE  KeyInv'
  <1> USE ThreadFacts
  <1>0. open \subseteq Sess
    BY DEF TypeOK
  <1>1. ASSUME NEW t \in Threads, CloseSession(t) PROVE KeyInv'
    <2>1. pc[t] = "closeSession"
      BY <1>1 DEF CloseSession
    <2>2. \A u \in Threads : pc'[u] = "finishClose" => target[u] \in Sess /\ ~IsCurrent(target[u])'
      BY <1>1, <2>1, TakeOut, SMTT(60) DEF TargetInv, KeyInv, Closing
    <2>3. \A c \in InTable' : key'[sessions'[c]] = c /\ sessions'[c] \in open'
      BY <1>1, TakeOut DEF KeyInv
    <2>4. \A s \in Sess : (pc'[s] = "off" <=> key'[s] = None)
      BY <1>1, <2>1, TakeOut, SMTT(60) DEF KeyInv
    <2>5. UNCHANGED <<key, open, target>>
      BY <1>1, TakeOut
    <2>6. QED
      BY <2>2, <2>3, <2>4, <2>5 DEF KeyInv
  <1>2. ASSUME NEW t \in Threads, FinishClose(t) PROVE KeyInv'
    <2>1. UNCHANGED <<sessions, key>>
      BY <1>2, ShutOut
    <2>2. \A u \in Threads : pc'[u] = "finishClose" => ~IsCurrent(target[u])'
      BY <1>2, <2>1, ShutOut, SMTT(60) DEF KeyInv, IsCurrent, Closing
    <2>3. \A c \in InTable : sessions[c] # target[t]
      BY <1>2, ShutOut, TableIsCurrent
    <2>4. \A c \in InTable' : key'[sessions'[c]] = c /\ sessions'[c] \in open'
      BY <1>2, <2>1, <2>3, ShutOut, SMTT(60) DEF KeyInv, InTable
    <2>5. \A s \in Sess : (pc'[s] = "off" <=> key'[s] = None)
      BY <1>2, <2>1, ShutOut, SMTT(60) DEF KeyInv
    <2>6. \A s \in open' : key'[s] # None
      BY <1>2, <2>1, ShutOut, SMTT(60) DEF KeyInv
    <2>7. QED
      BY <2>2, <2>4, <2>5, <2>6 DEF KeyInv
  <1>3. ASSUME NEW t \in Threads, Moves(t) PROVE KeyInv'
    BY <1>3, SMTT(60) DEF KeyInv, Moves, InTable, IsCurrent, Closing
  <1>4. ASSUME NEW s \in Sess, Inserts(s) PROVE KeyInv'
    <2>1. \A u \in Threads : pc'[u] = "finishClose" => ~IsCurrent(target[u])'
      <3> SUFFICES ASSUME NEW u \in Threads, pc'[u] = "finishClose"
                   PROVE  ~IsCurrent(target[u])'
        OBVIOUS
      <3>1. pc[u] = "finishClose" /\ target'[u] = target[u]
        BY <1>4, PutIn
      <3>2. target[u] \in Sess /\ key[target[u]] # None /\ ~IsCurrent(target[u])
        BY <3>1 DEF TargetInv, KeyInv, Closing
      <3>3. target[u] # s
        BY <1>4, <3>2, PutIn
      <3>4. QED
        BY <1>4, <3>1, <3>2, <3>3, PutIn, SMTT(60) DEF IsCurrent
    <2>2. \A c \in InTable' : key'[sessions'[c]] = c /\ sessions'[c] \in open'
      <3> SUFFICES ASSUME NEW c \in InTable'
                   PROVE  key'[sessions'[c]] = c /\ sessions'[c] \in open'
        OBVIOUS
      <3>1. CASE c = client
        BY <1>4, <3>1, PutIn
      <3>2. CASE c \in InTable
        BY <1>4, <3>2, PutIn, TableIsCurrent, SMTT(60) DEF KeyInv
      <3>3. QED
        BY <1>4, <3>1, <3>2, PutIn, SMTT(60)
    <2>3. \A u \in Sess : (pc'[u] = "off" <=> key'[u] = None)
      BY <1>4, PutIn, SMTT(60) DEF KeyInv
    <2>4. \A u \in open' : key'[u] # None
      BY <1>0, <1>4, PutIn, SMTT(60) DEF KeyInv
    <2>5. QED
      BY <2>1, <2>2, <2>3, <2>4 DEF KeyInv
  <1>5. ASSUME NEW s \in Sess, ShutRemoved(s) PROVE KeyInv'
    BY <1>5, ShutByClose, SMTT(60) DEF KeyInv, InTable, IsCurrent
  <1>6. CASE Close
    <2>1. \A u \in Threads : pc'[u] = pc[u] \/ pc'[u] = "closeListener"
      BY <1>6, EmptyTable
    <2>2. QED
      BY <1>6, <2>1, EmptyTable, SMTT(60) DEF KeyInv, TargetInv, Closing
  <1>7. QED
    BY <1>1, <1>2, <1>3, <1>4, <1>5, <1>6, StepKinds

\* What is taken out of the table stays with whoever took it out until it is shut.
LEMMA RemovedStep ==
    ASSUME TypeOK, LabelInv, TargetInv, KeyInv, RemovedInv, ClosedInv, [Next]_vars
    PROVE  RemovedInv'
  <1> USE ThreadFacts
  <1>0. removed \in [Threads -> SUBSET Sess]
    BY DEF TypeOK
  <1>1. ASSUME NEW t \in Threads, CloseSession(t) PROVE RemovedInv'
    <2>1. pc[t] = "closeSession" /\ t # Closer /\ target[t] \in Sess /\ key[target[t]] # None
      BY <1>1 DEF CloseSession, LabelInv, TargetInv, Closing
    <2>2. /\ removed'[t] \in {{}, {target[t]}}
          /\ \A u \in Threads \ {t} : removed'[u] = removed[u]
      BY <1>0, <1>1, <2>1 DEF CloseSession, RemovedInv
    <2>3. QED
      BY <1>1, <2>1, <2>2, TakeOut, SMTT(60) DEF RemovedInv
  <1>2. ASSUME NEW t \in Threads, FinishClose(t) PROVE RemovedInv'
    BY <1>2, ShutOut, SMTT(60) DEF RemovedInv
  <1>3. ASSUME NEW t \in Threads, Moves(t) PROVE RemovedInv'
    BY <1>3 DEF RemovedInv, Moves, Closing
  <1>4. ASSUME NEW s \in Sess, Inserts(s) PROVE RemovedInv'
    <2>1. \A u \in Sess : key[u] # None => key'[u] # None
      BY <1>4, PutIn
    <2>2. \A u \in Threads : pc[u] = "finishClose" => pc'[u] = pc[u] /\ target'[u] = target[u]
      BY <1>4, PutIn
    <2>3. UNCHANGED removed /\ pc'[Closer] = pc[Closer]
      BY <1>4, PutIn, SMTT(60)
    <2>4. QED
      BY <1>0, <2>1, <2>2, <2>3 DEF RemovedInv
  <1>5. ASSUME NEW s \in Sess, ShutRemoved(s) PROVE RemovedInv'
    BY <1>5, ShutByClose DEF RemovedInv
  <1>6. CASE Close
    <2>1. \A s \in removed'[Closer] : key[s] # None
      BY <1>6, EmptyTable, TableIsCurrent, SMTT(60) DEF IsCurrent
    <2>2. QED
      BY <1>6, <2>1, EmptyTable DEF RemovedInv
  <1>7. QED
    BY <1>1, <1>2, <1>3, <1>4, <1>5, <1>6, StepKinds

\* Close empties the table for good, and when Serve has returned no goroutine is left
\* to fill it.
LEMMA ClosedStep ==
    ASSUME TypeOK, LabelInv, TargetInv, KeyInv, ClosedInv, [Next]_vars
    PROVE  ClosedInv'
  <1> USE ThreadFacts
  <1>0. pc \in [Threads -> Labels]
    BY DEF TypeOK
  <1>a. closed' => InTable' = {}
    <2>1. ASSUME NEW t \in Threads, CloseSession(t) PROVE closed' => InTable' = {}
      <3>1. closed' = closed /\ InTable' \subseteq InTable
        BY <2>1, TakeOut DEF CloseSession
      <3>2. QED
        BY <3>1 DEF ClosedInv
    <2>2. ASSUME NEW t \in Threads, FinishClose(t) \/ Moves(t) PROVE closed' => InTable' = {}
      <3>1. UNCHANGED <<closed, sessions>>
        BY <2>2 DEF FinishClose, Moves
      <3>2. QED
        BY <3>1 DEF ClosedInv, InTable
    <2>3. ASSUME NEW s \in Sess, Inserts(s) PROVE ~closed'
      BY <2>3, PutIn
    <2>4. ASSUME NEW s \in Sess, ShutRemoved(s) PROVE InTable' = {}
      BY <2>4, ShutByClose DEF InTable
    <2>5. CASE Close
      BY <2>5, EmptyTable
    <2>6. QED
      BY <2>1, <2>2, <2>3, <2>4, <2>5, StepKinds
  <1>b. (closed' <=> pc'[Closer] # "serve") /\ (~listening' => closed')
    <2>1. CASE Close
      BY <2>1, EmptyTable DEF ClosedInv
    <2>2. CASE CloseListener
      BY <1>0, <2>2 DEF CloseListener, Goto, ClosedInv
    <2>3. CASE UNCHANGED <<closed, listening>> /\ pc'[Closer] = pc[Closer]
      BY <2>3 DEF ClosedInv
    <2>4. ASSUME NEW t \in Threads, CloseSession(t) \/ FinishClose(t)
          PROVE  UNCHANGED <<closed, listening>> /\ pc'[Closer] = pc[Closer]
      BY <1>0, <2>4 DEF CloseSession, FinishClose, Goto, LabelInv, Closing
    <2>5. CASE ReaderStep
      BY <1>0, <2>3, <2>5 DEF ReaderStep, DialFailsOrRefused, InsertSession, WriteBackend,
                              ReaderStops, ServeReturns, Drop, Goto
    <2>6. ASSUME NEW s \in Sess, SessionStep(s) \/ ReadReply(s) \/ SessionSocketFails(s)
          PROVE  UNCHANGED <<closed, listening>> /\ pc'[Closer] = pc[Closer]
      BY <1>0, <2>6 DEF SessionStep, SendReply, SessionReaderExits, ReadReply,
                        SessionSocketFails, Goto
    <2>7. CASE ExpirerStep
      BY <1>0, <2>3, <2>7 DEF ExpirerStep, SnapshotSessions, CheckIdle, ExpirerExits, Goto
    <2>8. ASSUME NEW s \in Sess, IdleTimeoutElapses(s) \/ ShutRemoved(s)
          PROVE  UNCHANGED <<closed, listening>> /\ pc'[Closer] = pc[Closer]
      BY <2>8 DEF IdleTimeoutElapses, ShutRemoved
    <2>9. ASSUME NEW c \in Clients, ReceivePacket(c)
          PROVE  UNCHANGED <<closed, listening>> /\ pc'[Closer] = pc[Closer]
      BY <1>0, <2>9 DEF ReceivePacket, Goto
    <2>10. CASE UNCHANGED vars
      BY <2>3, <2>10 DEF vars
    <2>11. QED
      BY <2>1, <2>2, <2>3, <2>4, <2>5, <2>6, <2>7, <2>8, <2>9, <2>10
         DEF Next, EnvStep, RelayStep, ClosingStep, CloserStep
  <1>c. pc'[Reader] = "done" => \A t \in {Expirer} \cup Sess : pc'[t] \in {"off", "done"}
    <2>1. CASE ServeReturns
      BY <1>0, <2>1 DEF ServeReturns, Goto
    <2>2. CASE pc[Reader] = "done" /\ \A t \in {Expirer} \cup Sess : pc[t] \in {"off", "done"}
      <3>1. ASSUME NEW t \in Threads, CloseSession(t) \/ FinishClose(t)
            PROVE  t = Reader \/ t = Closer
        BY <2>2, <3>1 DEF Threads, CloseSession, FinishClose
      <3>2. ASSUME NEW t \in Threads, CloseSession(t) \/ FinishClose(t) PROVE FALSE
        BY <2>2, <3>1, <3>2 DEF CloseSession, FinishClose, LabelInv, Closing
      <3>3. ~ReaderStep /\ ~ExpirerStep /\ \A c \in Clients : ~ReceivePacket(c)
        BY <2>2 DEF ReaderStep, DialFailsOrRefused, InsertSession, WriteBackend, ReaderStops,
                    ServeReturns, ExpirerStep, SnapshotSessions, CheckIdle, ExpirerExits,
                    ReceivePacket
      <3>4. \A s \in Sess : ~SessionStep(s) /\ ~ReadReply(s) /\ ~SessionSocketFails(s)
        BY <2>2 DEF SessionStep, SendReply, SessionReaderExits, ReadReply, SessionSocketFails
      <3>5. \A t \in Threads \ {Closer} : pc'[t] = pc[t]
        BY <1>0, <3>2, <3>3, <3>4
           DEF Next, EnvStep, RelayStep, ClosingStep, CloserStep, Close, CloseListener,
               ShutRemoved, IdleTimeoutElapses, Goto, vars
      <3>6. QED
        BY <2>2, <3>5
    <2>3. CASE pc[Reader] # "done" /\ ~ServeReturns
      <3>1. pc'[Reader] # "done"
        <4>1. ASSUME NEW t \in Threads, CloseSession(t) \/ FinishClose(t)
              PROVE  pc'[Reader] # "done"
          BY <1>0, <2>3, <4>1 DEF CloseSession, FinishClose, Goto
        <4>2. CASE ReaderStep
          BY <1>0, <2>3, <4>2 DEF ReaderStep, DialFailsOrRefused, InsertSession, WriteBackend,
                                  ReaderStops, Drop, Goto
        <4>3. ASSUME NEW c \in Clients, ReceivePacket(c) PROVE pc'[Reader] # "done"
          BY <1>0, <4>3 DEF ReceivePacket, Goto
        <4>4. ASSUME NEW s \in Sess, SessionStep(s) \/ ReadReply(s) \/ SessionSocketFails(s)
              PROVE  pc'[Reader] = pc[Reader]
          BY <1>0, <4>4 DEF SessionStep, SendReply, SessionReaderExits, ReadReply,
                            SessionSocketFails, Goto
        <4>5. CASE ExpirerStep \/ Close \/ CloseListener
          BY <1>0, <2>3, <4>5 DEF ExpirerStep, SnapshotSessions, CheckIdle, ExpirerExits, Close,
                                  CloseListener, Goto
        <4>6. ASSUME NEW s \in Sess, IdleTimeoutElapses(s) \/ ShutRemoved(s)
              PROVE  pc'[Reader] = pc[Reader]
          BY <4>6 DEF IdleTimeoutElapses, ShutRemoved
        <4>7. CASE UNCHANGED vars
          BY <2>3, <4>7 DEF vars
        <4>8. QED
          BY <2>3, <4>1, <4>2, <4>3, <4>4, <4>5, <4>6, <4>7
             DEF Next, EnvStep, RelayStep, ClosingStep, CloserStep
      <3>2. QED
        BY <3>1
    <2>4. QED
      BY <2>1, <2>2, <2>3 DEF ClosedInv
  <1>1. QED
    BY <1>a, <1>b, <1>c DEF ClosedInv

\* An open socket passes from the table to a goroutine that will shut it, and to no
\* other place.
LEMMA OrphanStep ==
    ASSUME RelayInv, NoOrphanSocket, [Next]_vars
    PROVE  NoOrphanSocket'
  <1> USE ThreadFacts DEF RelayInv
  <1>0. /\ removed \in [Threads -> SUBSET Sess] /\ open \subseteq Sess
        /\ sessions \in [Clients -> Sess \cup {None}] /\ key \in [Sess -> Clients \cup {None}]
    BY DEF TypeOK
  <1>1. ASSUME NEW t \in Threads, CloseSession(t) PROVE NoOrphanSocket'
    <2>1. pc[t] = "closeSession" /\ t # Closer
      BY <1>1 DEF CloseSession, LabelInv, Closing
    <2>2. removed[t] = {} /\ \A u \in Threads \ {t} : removed'[u] = removed[u]
      BY <1>0, <1>1, <2>1 DEF CloseSession, RemovedInv
    <2>3. IsCurrent(target[t]) => target[t] \in removed'[t]
      BY <1>0, <1>1, SMTT(60) DEF CloseSession
    <2>4. QED
      BY <1>0, <1>1, <2>2, <2>3, TakeOut, SMTT(60) DEF NoOrphanSocket
  <1>2. ASSUME NEW t \in Threads, FinishClose(t) PROVE NoOrphanSocket'
    <2>1. removed[t] \subseteq {target[t]}
      BY <1>2, ShutOut DEF RemovedInv
    <2>2. QED
      BY <1>0, <1>2, <2>1, ShutOut, SMTT(60) DEF NoOrphanSocket, IsCurrent
  <1>3. ASSUME NEW t \in Threads, Moves(t) PROVE NoOrphanSocket'
    BY <1>3 DEF Moves, NoOrphanSocket, IsCurrent
  <1>4. ASSUME NEW s \in Sess, Inserts(s) PROVE NoOrphanSocket'
    BY <1>0, <1>4, PutIn, SMTT(60) DEF NoOrphanSocket
  <1>5. ASSUME NEW s \in Sess, ShutRemoved(s) PROVE NoOrphanSocket'
    BY <1>0, <1>5, ShutByClose, SMTT(60) DEF NoOrphanSocket, IsCurrent
  <1>6. CASE Close
    <2>1. removed[Closer] = {}
      BY <1>6, EmptyTable DEF RemovedInv
    <2>2. \A s \in Sess : IsCurrent(s) => s \in removed'[Closer]
      BY <1>0, <1>6, EmptyTable, SMTT(60) DEF IsCurrent, InTable
    <2>3. QED
      BY <1>0, <1>6, <2>1, <2>2, EmptyTable DEF NoOrphanSocket
  <1>7. QED
    BY <1>1, <1>2, <1>3, <1>4, <1>5, <1>6, StepKinds

\* readBackend ends only when its session is out of the table, or the table is gone.
LEMMA ServedStep ==
    ASSUME RelayInv, TableIsServed, [Next]_vars
    PROVE  TableIsServed'
  <1> USE ThreadFacts DEF RelayInv
  <1>0. pc \in [Threads -> Labels]
    BY DEF TypeOK
  <1>1. ASSUME NEW t \in Threads, CloseSession(t) PROVE TableIsServed'
    <2> SUFFICES ASSUME NEW c \in InTable'
                 PROVE  pc'[sessions'[c]] \in {"read", "send", "closeSession"}
      BY DEF TableIsServed
    <2>1. c \in InTable /\ sessions'[c] = sessions[c]
      BY <1>1, TakeOut
    <2>2. sessions[c] \in Sess /\ IsCurrent(sessions[c])' /\ sessions[c] # target[t]
      <3>1. sessions[c] \in Sess /\ key[sessions[c]] = c /\ key' = key /\ c # None
        BY <1>1, <2>1, TableIsCurrent, TakeOut DEF InTable
      <3>2. IsCurrent(sessions[c])'
        BY <2>1, <3>1 DEF IsCurrent
      <3>3. QED
        BY <1>1, <2>1, <3>1, TakeOut, SMTT(60) DEF IsCurrent
    <2>3. t \in Sess => target[t] = t
      BY <1>1 DEF CloseSession, TargetInv, Closing
    <2>4. pc'[sessions[c]] = pc[sessions[c]]
      BY <1>1, <2>2, <2>3, TakeOut, SMTT(60)
    <2>5. QED
      BY <2>1, <2>4 DEF TableIsServed
  <1>2. ASSUME NEW t \in Threads, FinishClose(t) PROVE TableIsServed'
    <2>1. t \in Sess => target[t] = t
      BY <1>2, ShutOut DEF TargetInv, Closing
    <2>2. \A c \in InTable : sessions[c] # t /\ sessions[c] \in Threads
      BY <1>2, <2>1, ShutOut, TableIsCurrent, SMTT(60)
    <2>3. UNCHANGED sessions /\ \A c \in InTable : pc'[sessions[c]] = pc[sessions[c]]
      BY <1>2, <2>2, ShutOut, SMTT(60)
    <2>4. QED
      BY <2>3 DEF TableIsServed, InTable
  <1>3. ASSUME NEW t \in Threads, Moves(t) PROVE TableIsServed'
    <2>1. CASE t \notin Sess
      BY <1>3, <2>1, TableIsCurrent, SMTT(60) DEF Moves, TableIsServed, InTable
    <2>2. CASE t \in Sess
      <3>1. UNCHANGED <<sessions, closed>> /\ \A u \in Threads \ {t} : pc'[u] = pc[u]
        BY <1>3 DEF Moves
      <3>2. SessionMoves(t)
        BY <1>3, <2>2 DEF Moves
      <3>3. ASSUME NEW c \in InTable, sessions[c] = t
            PROVE  pc'[t] \in {"read", "send", "closeSession"}
        <4>1. IsCurrent(t) /\ ~closed /\ listening /\ t \in open
          BY <3>3, TableIsCurrent DEF ClosedInv, KeyInv
        <4>2. QED
          BY <1>0, <3>2, <4>1
             DEF SessionMoves, ReadReply, SendReply, SessionSocketFails, SessionReaderExits, Goto
      <3>4. QED
        BY <3>1, <3>3, TableIsCurrent DEF TableIsServed, InTable
    <2>3. QED
      BY <2>1, <2>2
  <1>4. ASSUME NEW s \in Sess, Inserts(s) PROVE TableIsServed'
    <2> SUFFICES ASSUME NEW c \in InTable'
                 PROVE  pc'[sessions'[c]] \in {"read", "send", "closeSession"}
      BY DEF TableIsServed
    <2>1. CASE c = client
      BY <1>4, <2>1, PutIn
    <2>2. CASE c \in InTable
      <3>1. sessions'[c] = sessions[c] /\ sessions[c] \in Sess \ {s}
        BY <1>4, <2>2, PutIn, TableIsCurrent, SMTT(60) DEF IsCurrent
      <3>2. QED
        BY <1>4, <2>2, <3>1, PutIn, SMTT(60) DEF TableIsServed
    <2>3. QED
      BY <1>4, <2>1, <2>2, PutIn, SMTT(60)
  <1>5. ASSUME NEW s \in Sess, ShutRemoved(s) PROVE TableIsServed'
    BY <1>5, ShutByClose DEF TableIsServed, InTable
  <1>6. CASE Close
    BY <1>6, EmptyTable DEF TableIsServed
  <1>7. QED
    BY <1>1, <1>2, <1>3, <1>4, <1>5, <1>6, StepKinds

-----------------------------------------------------------------------------
(* The steps of the host proxy. *)

\* A step of the host proxy keeps the types.
LEMMA HostTypeStep ==
    ASSUME HostProxy!TypeOK, [HostProxy!Next]_(HostProxy!vars)
    PROVE  HostProxy!TypeOK'
  <1> USE DEF HostProxy!TypeOK, HostProxy!Places, HostProxy!Sides, HostProxy!closeVars,
              HostProxy!Goto, HostProxy!Client, HostProxy!Server, HostProxy!Both
  <1>1. ASSUME NEW c \in Clients, HostProxy!Accept(c) PROVE HostProxy!TypeOK'
    BY <1>1, SMTT(60) DEF HostProxy!Accept
  <1>2. ASSUME NEW c \in Clients, HostProxy!RegisterClient(c) PROVE HostProxy!TypeOK'
    BY <1>2, SMTT(60) DEF HostProxy!RegisterClient
  <1>3. CASE HostProxy!AcceptFails \/ HostProxy!ServeReturns
    BY <1>3 DEF HostProxy!AcceptFails, HostProxy!ServeReturns
  <1>4. CASE HostProxy!Close \/ HostProxy!CloseListener
    BY <1>4 DEF HostProxy!Close, HostProxy!CloseListener
  <1>5. CASE HostProxy!CloseConn
    BY <1>5, SMTT(60) DEF HostProxy!CloseConn
  <1>6. ASSUME NEW c \in Clients, HostProxy!Dial(c) \/ HostProxy!DialFailed(c)
        PROVE  HostProxy!TypeOK'
    BY <1>6, SMTT(60) DEF HostProxy!Dial, HostProxy!DialFailed
  <1>7. ASSUME NEW c \in Clients, HostProxy!RegisterServer(c) PROVE HostProxy!TypeOK'
    BY <1>7, SMTT(60) DEF HostProxy!RegisterServer
  <1>8. ASSUME NEW c \in Clients, HostProxy!Spawn(c) \/ HostProxy!BridgeReturns(c)
        PROVE  HostProxy!TypeOK'
    BY <1>8, SMTT(60) DEF HostProxy!Spawn, HostProxy!BridgeReturns
  <1>9. ASSUME NEW c \in Clients, NEW side \in HostProxy!Sides, HostProxy!PumpEnds(c, side)
        PROVE  HostProxy!TypeOK'
    BY <1>9 DEF HostProxy!PumpEnds
  <1>10. ASSUME NEW c \in Clients,
                \/ HostProxy!Disconnect(c) \/ HostProxy!UnregisterServer(c)
                \/ HostProxy!UnregisterClient(c)
         PROVE  HostProxy!TypeOK'
    BY <1>10, SMTT(60) DEF HostProxy!Disconnect, HostProxy!UnregisterServer, HostProxy!UnregisterClient
  <1>11. ASSUME NEW x \in Clients \X HostProxy!Sides, HostProxy!PeerLeaves(x)
         PROVE  HostProxy!TypeOK'
    BY <1>11, SMTT(60) DEF HostProxy!PeerLeaves
  <1>12. CASE UNCHANGED HostProxy!vars
    BY <1>12 DEF HostProxy!vars
  <1>13. QED
    BY <1>1, <1>2, <1>3, <1>4, <1>5, <1>6, <1>7, <1>8, <1>9, <1>10, <1>11, <1>12
       DEF HostProxy!Next, HostProxy!ProxyStep, HostProxy!HandlerStep, HostProxy!ServeStep,
           HostProxy!CloseStep, HostProxy!ReadFails, HostProxy!WriteFails

\* A connection is closed, and taken out of the table, before its handler is past the
\* place where that can be done.
LEMMA ConnStep ==
    ASSUME HostProxy!TypeOK, ConnInv, [HostProxy!Next]_(HostProxy!vars)
    PROVE  ConnInv'
  <1>0. hpPc \in [Clients -> HostProxy!Places]
    BY DEF HostProxy!TypeOK
  <1> USE <1>0 DEF ConnInv, HostProxy!Sides, HostProxy!closeVars, HostProxy!Goto,
                   HostProxy!Client, HostProxy!Server, HostProxy!Both
  <1>1. ASSUME NEW c \in Clients, HostProxy!Accept(c) PROVE ConnInv'
    BY <1>1, SMTT(60) DEF HostProxy!Accept
  <1>2. ASSUME NEW c \in Clients, HostProxy!RegisterClient(c) PROVE ConnInv'
    BY <1>2, SMTT(60) DEF HostProxy!RegisterClient
  <1>3. CASE HostProxy!AcceptFails \/ HostProxy!ServeReturns
    BY <1>3 DEF HostProxy!AcceptFails, HostProxy!ServeReturns
  <1>4. CASE HostProxy!Close \/ HostProxy!CloseListener
    BY <1>4 DEF HostProxy!Close, HostProxy!CloseListener
  <1>5. CASE HostProxy!CloseConn
    BY <1>5 DEF HostProxy!CloseConn
  <1>6. ASSUME NEW c \in Clients, HostProxy!Dial(c) \/ HostProxy!DialFailed(c) PROVE ConnInv'
    BY <1>6, SMTT(60) DEF HostProxy!Dial, HostProxy!DialFailed
  <1>7. ASSUME NEW c \in Clients, HostProxy!RegisterServer(c) PROVE ConnInv'
    BY <1>7, SMTT(60) DEF HostProxy!RegisterServer
  <1>8. ASSUME NEW c \in Clients, HostProxy!Spawn(c) \/ HostProxy!BridgeReturns(c)
        PROVE  ConnInv'
    BY <1>8 DEF HostProxy!Spawn, HostProxy!BridgeReturns
  <1>9. ASSUME NEW c \in Clients, NEW side \in HostProxy!Sides, HostProxy!PumpEnds(c, side)
        PROVE  ConnInv'
    BY <1>9 DEF HostProxy!PumpEnds
  <1>10. ASSUME NEW c \in Clients,
                \/ HostProxy!Disconnect(c) \/ HostProxy!UnregisterServer(c)
                \/ HostProxy!UnregisterClient(c)
         PROVE  ConnInv'
    BY <1>10 DEF HostProxy!Disconnect, HostProxy!UnregisterServer, HostProxy!UnregisterClient
  <1>11. ASSUME NEW x \in Clients \X HostProxy!Sides, HostProxy!PeerLeaves(x) PROVE ConnInv'
    BY <1>11 DEF HostProxy!PeerLeaves
  <1>12. CASE UNCHANGED HostProxy!vars
    BY <1>12 DEF HostProxy!vars
  <1>13. QED
    BY <1>1, <1>2, <1>3, <1>4, <1>5, <1>6, <1>7, <1>8, <1>9, <1>10, <1>11, <1>12
       DEF HostProxy!Next, HostProxy!ProxyStep, HostProxy!HandlerStep, HostProxy!ServeStep,
           HostProxy!CloseStep, HostProxy!ReadFails, HostProxy!WriteFails

\* No handler starts once Serve has returned.
LEMMA HostDoneStep ==
    ASSUME HostProxy!TypeOK, HostProxyDone, [HostProxy!Next]_(HostProxy!vars)
    PROVE  HostProxyDone'
  <1>0. hpPc \in [Clients -> HostProxy!Places]
    BY DEF HostProxy!TypeOK
  <1> USE <1>0 DEF HostProxyDone, HostProxy!closeVars, HostProxy!Goto
  <1>1. ASSUME NEW c \in Clients, HostProxy!Accept(c) \/ HostProxy!RegisterClient(c)
        PROVE  hpServe' # "returned"
    BY <1>1 DEF HostProxy!Accept, HostProxy!RegisterClient
  <1>2. CASE HostProxy!AcceptFails \/ HostProxy!ServeReturns
    BY <1>2 DEF HostProxy!AcceptFails, HostProxy!ServeReturns
  <1>3. ASSUME UNCHANGED <<hpServe, hpPc>> PROVE HostProxyDone'
    BY <1>3
  <1>4. CASE HostProxy!Close \/ HostProxy!CloseStep
    BY <1>3, <1>4 DEF HostProxy!Close, HostProxy!CloseStep, HostProxy!CloseListener,
                      HostProxy!CloseConn
  <1>5. ASSUME NEW c \in Clients,
               \/ HostProxy!Dial(c) \/ HostProxy!DialFailed(c) \/ HostProxy!RegisterServer(c)
               \/ HostProxy!Spawn(c) \/ HostProxy!BridgeReturns(c) \/ HostProxy!Disconnect(c)
               \/ HostProxy!UnregisterServer(c) \/ HostProxy!UnregisterClient(c)
        PROVE  HostProxyDone'
    BY <1>5 DEF HostProxy!Dial, HostProxy!DialFailed, HostProxy!RegisterServer,
                HostProxy!Spawn, HostProxy!BridgeReturns, HostProxy!Disconnect,
                HostProxy!UnregisterServer, HostProxy!UnregisterClient
  <1>6. ASSUME NEW c \in Clients, NEW side \in HostProxy!Sides, HostProxy!PumpEnds(c, side)
        PROVE  HostProxyDone'
    BY <1>3, <1>6 DEF HostProxy!PumpEnds
  <1>7. ASSUME NEW x \in Clients \X HostProxy!Sides, HostProxy!PeerLeaves(x)
        PROVE  HostProxyDone'
    BY <1>3, <1>7 DEF HostProxy!PeerLeaves
  <1>8. CASE UNCHANGED HostProxy!vars
    BY <1>3, <1>8 DEF HostProxy!vars
  <1>9. QED
    BY <1>1, <1>2, <1>4, <1>5, <1>6, <1>7, <1>8
       DEF HostProxy!Next, HostProxy!ProxyStep, HostProxy!HandlerStep, HostProxy!ServeStep,
           HostProxy!ReadFails, HostProxy!WriteFails

\* The host proxy begins in its invariant.
LEMMA HostInit ==
    ASSUME HostProxy!Init
    PROVE  HostProxy!TypeOK /\ ConnInv /\ HostProxyDone
  <1>1. HostProxy!TypeOK
    BY DEF HostProxy!Init, HostProxy!TypeOK, HostProxy!Places
  <1>2. ConnInv /\ HostProxyDone
    BY DEF HostProxy!Init, ConnInv, HostProxyDone
  <1>3. QED
    BY <1>1, <1>2

\* A connection of the host proxy belongs to a client, and its handler is not past
\* closing it and unregistering it.
LEMMA ConnHasHandler ==
    ASSUME ConnInv
    PROVE  HostProxy!NoOrphanConn /\ \A x \in hpOpen \cup hpConns : x[1] \in Clients
  <1>1. ASSUME NEW x \in hpOpen \cup hpConns
        PROVE  \E c \in Clients : x[1] = c /\ x \in {HostProxy!Client(c), HostProxy!Server(c)}
    BY SMTT(60) DEF ConnInv, HostProxy!Sides, HostProxy!Client, HostProxy!Server
  <1>2. QED
    BY <1>1, SMTT(60) DEF ConnInv, HostProxy!NoOrphanConn

-----------------------------------------------------------------------------
(* What run is promised by either server. *)

Ended   == RelayEnded \/ HostProxyEnded
Told    == closed \/ hpClosed
Holding == open \cup hpOpen \cup hpConns # {}

\* A server that has ended holds nothing: every session was shut by a goroutine that
\* Serve has waited for or by Close, and every handler is gone.
LEMMA EndedHoldsNothing ==
    ASSUME IInv, Ended
    PROVE  ~Holding
  <1> USE ThreadFacts
  <1>1. CASE RelayEnded
    <2>1. mode = "udp-forward"
      BY <1>1 DEF RelayEnded, IInv, OneServer, Init
    <2>2. hpOpen = {} /\ hpConns = {}
      BY <2>1 DEF IInv, OneServer, HostProxy!Init
    <2>3. \A t \in Threads : removed[t] = {}
      <3>1. \A t \in {Expirer} \cup Sess : pc[t] # "finishClose"
        BY <1>1 DEF RelayEnded, IInv, RelayInv, ClosedInv
      <3>2. QED
        BY <1>1, <3>1 DEF RelayEnded, IInv, RelayInv, RemovedInv, Threads
    <2>4. \A s \in Sess : ~IsCurrent(s)
      BY <1>1 DEF RelayEnded, IInv, RelayInv, TypeOK, ClosedInv, IsCurrent, InTable
    <2>5. open = {}
      BY <2>3, <2>4 DEF IInv, RelayInv, TypeOK, NoOrphanSocket
    <2>6. QED
      BY <2>2, <2>5 DEF Holding
  <1>2. CASE HostProxyEnded
    <2>1. mode = "host-proxy"
      BY <1>2 DEF HostProxyEnded, IInv, OneServer, HostProxy!Init
    <2>2. open = {}
      BY <2>1 DEF IInv, OneServer, Init
    <2>3. \A c \in Clients : hpPc[c] \in {"none", "gone"}
      BY <1>2 DEF HostProxyEnded, IInv, HostProxyDone
    <2>4. hpOpen = {} /\ hpConns = {}
      BY <2>3, ConnHasHandler, SMTT(60) DEF IInv, HostProxy!NoOrphanConn
    <2>5. QED
      BY <2>2, <2>4 DEF Holding
  <1>3. QED
    BY <1>1, <1>2 DEF Ended

\* A relay that has ended has no step left.
LEMMA RelayRests ==
    ASSUME RelayInv, RelayEnded, open = {}
    PROVE  ~Next
  <1> USE ThreadFacts
  <1>1. /\ pc[Reader] = "done" /\ pc[Closer] = "shut" /\ removed[Closer] = {}
        /\ \A t \in {Expirer} \cup Sess : pc[t] \in {"off", "done"}
        /\ \A t \in Threads : pc[t] \in {"off", "done", "shut"}
    BY DEF RelayEnded, RelayInv, ClosedInv, Threads
  <1>2. ~EnvStep
    BY <1>1 DEF EnvStep, IdleTimeoutElapses, ReceivePacket, ReadReply, SessionSocketFails, Close
  <1>3. \A t \in Threads : ~ClosingStep(t)
    BY <1>1 DEF ClosingStep, CloseSession, FinishClose
  <1>4. ~ReaderStep /\ ~ExpirerStep /\ ~CloserStep
    BY <1>1 DEF ReaderStep, DialFailsOrRefused, InsertSession, WriteBackend, ReaderStops,
                ServeReturns, ExpirerStep, SnapshotSessions, CheckIdle, ExpirerExits,
                CloserStep, CloseListener, ShutRemoved
  <1>5. \A s \in Sess : ~SessionStep(s)
    BY <1>1 DEF SessionStep, SendReply, SessionReaderExits
  <1>6. QED
    BY <1>2, <1>3, <1>4, <1>5 DEF Next, RelayStep

\* Only Close marks a server closed, and it does nothing to the connections yet.
LEMMA RelayTold ==
    ASSUME [Next]_vars
    PROVE  UNCHANGED closed \/ (closed' /\ UNCHANGED open)
  <1>1. ASSUME NEW t \in Threads, ClosingStep(t) PROVE UNCHANGED closed
    BY <1>1 DEF ClosingStep, CloseSession, FinishClose
  <1>2. CASE EnvStep
    BY <1>2 DEF EnvStep, IdleTimeoutElapses, ReceivePacket, ReadReply, SessionSocketFails, Close
  <1>3. CASE ReaderStep
    BY <1>3 DEF ReaderStep, DialFailsOrRefused, InsertSession, WriteBackend, ReaderStops,
                ServeReturns
  <1>4. CASE ExpirerStep \/ CloserStep
    BY <1>4 DEF ExpirerStep, SnapshotSessions, CheckIdle, ExpirerExits, CloserStep,
                CloseListener, ShutRemoved
  <1>5. ASSUME NEW s \in Sess, SessionStep(s) PROVE UNCHANGED closed
    BY <1>5 DEF SessionStep, SendReply, SessionReaderExits
  <1>6. CASE UNCHANGED vars
    BY <1>6 DEF vars
  <1>7. QED
    BY <1>1, <1>2, <1>3, <1>4, <1>5, <1>6 DEF Next, RelayStep

\* The same of the host proxy, whose Serve and Close also end once and for all.
LEMMA HostProxyTold ==
    ASSUME [HostProxy!Next]_(HostProxy!vars)
    PROVE  /\ UNCHANGED hpClosed \/ (hpClosed' /\ UNCHANGED <<hpOpen, hpConns>>)
           /\ HostProxyEnded => HostProxyEnded'
  <1> USE DEF HostProxyEnded, HostProxy!closeVars
  <1>1. CASE HostProxy!Close \/ HostProxy!CloseStep \/ HostProxy!AcceptFails
             \/ HostProxy!ServeReturns
    BY <1>1 DEF HostProxy!Close, HostProxy!CloseStep, HostProxy!CloseListener,
                HostProxy!CloseConn, HostProxy!AcceptFails, HostProxy!ServeReturns
  <1>2. ASSUME NEW c \in Clients, HostProxy!Accept(c) \/ HostProxy!RegisterClient(c)
        PROVE  UNCHANGED hpClosed /\ (HostProxyEnded => HostProxyEnded')
    BY <1>2 DEF HostProxy!Accept, HostProxy!RegisterClient
  <1>3. ASSUME NEW c \in Clients, HostProxy!HandlerStep(c)
        PROVE  UNCHANGED <<hpClosed, hpServe, hpCloser>>
    BY <1>3 DEF HostProxy!HandlerStep, HostProxy!Dial, HostProxy!DialFailed,
                HostProxy!RegisterServer, HostProxy!Spawn, HostProxy!BridgeReturns,
                HostProxy!Disconnect, HostProxy!UnregisterServer, HostProxy!UnregisterClient,
                HostProxy!ReadFails, HostProxy!PumpEnds
  <1>4. ASSUME NEW c \in Clients, NEW side \in HostProxy!Sides, HostProxy!WriteFails(c, side)
        PROVE  UNCHANGED <<hpClosed, hpServe, hpCloser>>
    BY <1>4 DEF HostProxy!WriteFails, HostProxy!PumpEnds
  <1>5. ASSUME NEW x \in Clients \X HostProxy!Sides, HostProxy!PeerLeaves(x)
        PROVE  UNCHANGED <<hpClosed, hpServe, hpCloser>>
    BY <1>5 DEF HostProxy!PeerLeaves
  <1>6. CASE UNCHANGED HostProxy!vars
    BY <1>6 DEF HostProxy!vars
  <1>7. QED
    BY <1>1, <1>2, <1>3, <1>4, <1>5, <1>6
       DEF HostProxy!Next, HostProxy!ProxyStep, HostProxy!ServeStep

-----------------------------------------------------------------------------
(* Counting: the facts about finite sets are needed only from here on. *)
INSTANCE FiniteSetTheorems

\* The second test of the limit is made under the lock that also covers the insert.
LEMMA BoundedStep ==
    ASSUME RelayInv, SessionsBounded, [Next]_vars
    PROVE  SessionsBounded'
  <1> USE DEF RelayInv
  <1>1. IsFiniteSet(InTable) /\ Cardinality(InTable) \in Nat
    BY RelayAssumption, FS_Subset, FS_CardinalityType, SMTT(60) DEF InTable
  <1>2. CASE InTable' \subseteq InTable
    <2>1. Cardinality(InTable') <= Cardinality(InTable)
      BY <1>1, <1>2, FS_Subset, SMTT(60)
    <2>2. Cardinality(InTable') \in Nat
      BY <1>1, <1>2, FS_Subset, FS_CardinalityType, SMTT(60)
    <2>3. QED
      BY <1>1, <2>1, <2>2, RelayAssumption, SMTT(60) DEF SessionsBounded
  <1>3. ASSUME NEW s \in Sess, Inserts(s) PROVE SessionsBounded'
    <2>1. Cardinality(InTable') = Cardinality(InTable) + 1
      BY <1>1, <1>3, PutIn, FS_AddElement, SMTT(60)
    <2>2. ~(Cardinality(InTable) >= MaxSessions)
      BY <1>3, PutIn DEF AtSessionLimit
    <2>3. QED
      BY <1>1, <2>1, <2>2, RelayAssumption, SMTT(60) DEF SessionsBounded
  <1>4. ASSUME NEW t \in Threads, CloseSession(t) PROVE InTable' \subseteq InTable
    BY <1>4, TakeOut
  <1>5. ASSUME NEW t \in Threads, FinishClose(t) \/ Moves(t) PROVE InTable' \subseteq InTable
    BY <1>5 DEF FinishClose, Moves, InTable
  <1>6. ASSUME NEW s \in Sess, ShutRemoved(s) PROVE InTable' \subseteq InTable
    BY <1>6 DEF ShutRemoved, InTable
  <1>7. CASE Close
    BY <1>2, <1>7, EmptyTable
  <1>8. QED
    BY <1>2, <1>3, <1>4, <1>5, <1>6, <1>7, StepKinds

\* closeOnce runs in the goroutine that counts, unless another one closes the same
\* session: then that one is between closeSession and the close too.
LEMMA GaugeStep ==
    ASSUME RelayInv, NoOrphanSocket, GaugeInv, [Next]_vars, contended' = (contended \/ Contended')
    PROVE  GaugeInv'
  <1> USE ThreadFacts DEF RelayInv
  <1>0. /\ open \subseteq Sess /\ gauge \in Int
        /\ removed \in [Threads -> SUBSET Sess]
    BY DEF TypeOK
  <1>1. IsFiniteSet(open) /\ Cardinality(open) \in Nat
    BY <1>0, RelayAssumption, FS_Subset, FS_CardinalityType, SMTT(60)
  <1> SUFFICES ASSUME ~contended' PROVE gauge' = Cardinality(open')
    BY DEF GaugeInv
  <1>2. ~Contended /\ gauge = Cardinality(open)
    BY DEF GaugeInv
  <1>3. ASSUME NEW s \in open, open' = open \ {s}, gauge' = gauge - 1
        PROVE  gauge' = Cardinality(open')
    <2>1. Cardinality(open \ {s}) = Cardinality(open) - 1
      BY <1>1, FS_RemoveElement
    <2>2. QED
      BY <1>2, <1>3, <2>1
  <1>4. ASSUME NEW t \in Threads, FinishClose(t) PROVE gauge' = Cardinality(open')
    <2>1. CASE target[t] \notin open
      BY <1>2, <1>4, <2>1, ShutOut, SMTT(60)
    <2>2. CASE target[t] \in open
      <3>1. PICK u \in Threads : target[t] \in removed[u]
        BY <1>4, <2>2, ShutOut DEF NoOrphanSocket
      <3>2. Closes(t, target[t]) /\ Closes(u, target[t])
        BY <1>4, <3>1, ShutOut DEF Closes
      <3>3. u = t
        BY <1>2, <1>4, <3>2, ShutOut DEF Contended
      <3>4. QED
        BY <1>3, <1>4, <2>2, <3>1, <3>3, ShutOut
    <2>3. QED
      BY <2>1, <2>2
  <1>5. ASSUME NEW s \in Sess, ShutRemoved(s) PROVE gauge' = Cardinality(open')
    <2>1. CASE s \notin open
      BY <1>2, <1>5, <2>1, ShutByClose
    <2>2. CASE s \in open
      BY <1>3, <1>5, <2>2, ShutByClose
    <2>3. QED
      BY <2>1, <2>2
  <1>6. ASSUME NEW s \in Sess, Inserts(s) PROVE gauge' = Cardinality(open')
    <2>1. open' = open \cup {s} /\ s \notin open /\ gauge' = gauge + 1
      BY <1>6, PutIn
    <2>2. Cardinality(open \cup {s}) = Cardinality(open) + 1
      BY <1>1, <2>1, FS_AddElement
    <2>3. QED
      BY <1>2, <2>1, <2>2
  <1>7. ASSUME NEW t \in Threads, CloseSession(t) \/ Moves(t) PROVE gauge' = Cardinality(open')
    BY <1>2, <1>7 DEF CloseSession, Moves
  <1>8. CASE Close
    BY <1>2, <1>8 DEF Close
  <1>9. QED
    BY <1>4, <1>5, <1>6, <1>7, <1>8, StepKinds

-----------------------------------------------------------------------------
(* The Bedrock server. *)

\* A relay that has just been started, and one that is not.
LEMMA RelayInit ==
    ASSUME Init
    PROVE  /\ RelayInv /\ NoOrphanSocket /\ SessionsBounded /\ TableIsServed
           /\ ~Contended /\ gauge = Cardinality(open)
  <1> USE ThreadFacts
  <1>1. /\ pc[Reader] = "read" /\ pc[Expirer] = "tick" /\ pc[Closer] = "serve"
        /\ \A s \in Sess : pc[s] = "off"
        /\ \A t \in Threads : pc[t] \in {"read", "tick", "serve", "off"}
    BY DEF Init
  <1>2. /\ \A t \in Threads : removed[t] = {} /\ target[t] = None
        /\ \A s \in Sess : key[s] = None
        /\ InTable = {} /\ open = {} /\ snap = {} /\ gauge = 0
    BY DEF Init, InTable
  <1>3. TypeOK
    <2>1. closed \in BOOLEAN /\ listening \in BOOLEAN
      BY DEF Init
    <2>2. pc \in [Threads -> Labels]
      BY DEF Init, Labels
    <2>3. QED
      BY <2>1, <2>2, SMTT(60) DEF Init, TypeOK
  <1>4. LabelInv /\ TargetInv
    BY <1>1, <1>2 DEF LabelInv, TargetInv, Closing
  <1>5. KeyInv /\ RemovedInv
    BY <1>1, <1>2 DEF KeyInv, RemovedInv
  <1>6. ClosedInv
    BY <1>1, <1>2 DEF ClosedInv, Init
  <1>7. NoOrphanSocket /\ TableIsServed /\ ~Contended
    BY <1>1, <1>2 DEF NoOrphanSocket, TableIsServed, Contended, Closes
  <1>8. Cardinality({}) = 0
    BY FS_EmptySet, SMTT(60)
  <1>9. SessionsBounded
    BY <1>2, <1>8, RelayAssumption, SMTT(60) DEF SessionsBounded
  <1>10. QED
    BY <1>2, <1>3, <1>4, <1>5, <1>6, <1>7, <1>8, <1>9 DEF RelayInv

\* The inductive invariant holds in every reachable state, in either mode.
THEOREM Invariance == BedrockSpec => []IInv
  <1>1. BedrockInit => IInv
    BY RelayInit, HostInit DEF BedrockInit, IInv, GaugeInv, OneServer
  <1>2. IInv /\ [BedrockNext]_bedrockVars => IInv'
    <2> SUFFICES ASSUME IInv, [BedrockNext]_bedrockVars PROVE IInv'
      OBVIOUS
    <2>0. ASSUME UNCHANGED <<contended, vars>>
          PROVE  RelayInv' /\ NoOrphanSocket' /\ SessionsBounded' /\ TableIsServed' /\ GaugeInv'
      <3>1. RelayInv
        BY DEF IInv
      <3>2. TypeOK' /\ LabelInv' /\ TargetInv'
        BY <2>0, <3>1, SMTT(60) DEF RelayInv, vars, TypeOK, LabelInv, TargetInv
      <3>3. KeyInv' /\ RemovedInv' /\ ClosedInv'
        BY <2>0, <3>1, SMTT(60) DEF RelayInv, vars, KeyInv, RemovedInv, ClosedInv, InTable,
                                    IsCurrent
      <3>4. NoOrphanSocket' /\ SessionsBounded' /\ TableIsServed' /\ GaugeInv'
        BY <2>0, SMTT(60) DEF IInv, vars, NoOrphanSocket, SessionsBounded, TableIsServed,
                              GaugeInv, Contended, Closes, InTable, IsCurrent
      <3>5. QED
        BY <3>2, <3>3, <3>4 DEF RelayInv
    <2>1. CASE mode = "udp-forward" /\ Next /\ contended' = (contended \/ Contended')
               /\ UNCHANGED <<mode, hostProxyVars>>
      <3>1. RelayInv'
        BY <2>1, TypeStep, LabelStep, TargetStep, KeyStep, RemovedStep, ClosedStep
           DEF IInv, RelayInv
      <3>2. NoOrphanSocket' /\ SessionsBounded' /\ TableIsServed' /\ GaugeInv'
        BY <2>1, OrphanStep, BoundedStep, ServedStep, GaugeStep DEF IInv
      <3>3. HostProxy!TypeOK' /\ ConnInv' /\ HostProxyDone' /\ OneServer'
        BY <2>1 DEF IInv, hostProxyVars, HostProxy!TypeOK, ConnInv, HostProxyDone, OneServer,
                    HostProxy!Init
      <3>4. QED
        BY <3>1, <3>2, <3>3 DEF IInv
    <2>2. CASE mode = "host-proxy" /\ [HostProxy!Next]_(HostProxy!vars)
               /\ UNCHANGED <<mode, contended, vars>>
      <3>1. RelayInv' /\ NoOrphanSocket' /\ SessionsBounded' /\ TableIsServed' /\ GaugeInv'
        BY <2>0, <2>2
      <3>2. HostProxy!TypeOK' /\ ConnInv' /\ HostProxyDone'
        BY <2>2, HostTypeStep, ConnStep, HostDoneStep DEF IInv
      <3>3. OneServer'
        BY <2>2 DEF IInv, OneServer, vars, Init
      <3>4. QED
        BY <3>1, <3>2, <3>3 DEF IInv
    <2>3. CASE UNCHANGED bedrockVars
      <3>1. UNCHANGED <<mode, contended, vars, hostProxyVars>>
        BY <2>3 DEF bedrockVars
      <3>2. RelayInv' /\ NoOrphanSocket' /\ SessionsBounded' /\ TableIsServed' /\ GaugeInv'
        BY <2>0, <3>1
      <3>3. HostProxy!TypeOK' /\ ConnInv' /\ HostProxyDone' /\ OneServer'
        BY <3>1 DEF IInv, hostProxyVars, HostProxy!TypeOK, ConnInv, HostProxyDone, OneServer,
                    HostProxy!Init, Init, vars
      <3>4. QED
        BY <3>2, <3>3 DEF IInv
    <2>4. QED
      BY <2>1, <2>2, <2>3 DEF BedrockNext
  <1>3. QED
    BY <1>1, <1>2, PTL DEF BedrockSpec

\* In either mode nothing that is open is forgotten (closeSession and Close of the
\* relay, the deferred calls of handleConn and registerConn of the host proxy).
THEOREM NothingOrphaned == BedrockSpec => []NothingIsOrphaned
  <1>1. IInv => NothingIsOrphaned
    BY ConnHasHandler DEF IInv, NothingIsOrphaned
  <1>2. QED
    BY <1>1, Invariance, PTL

\* The relay's table never exceeds maxSessions, for any limit and any number of
\* clients, although sessionForClient unlocks between its test and its insert.
THEOREM Bounded == BedrockSpec => []SessionsBounded
  <1>1. IInv => SessionsBounded
    BY DEF IInv
  <1>2. QED
    BY <1>1, Invariance, PTL

\* Every entry of the relay's table has a running readBackend.
THEOREM Served == BedrockSpec => []TableIsServed
  <1>1. IInv => TableIsServed
    BY DEF IInv
  <1>2. QED
    BY <1>1, Invariance, PTL

\* With nothing being closed, mc_gateway_udp_sessions is the number of sessions in the
\* table, unless two goroutines have once closed the same session.
THEOREM GaugeDrift == BedrockSpec => []SessionGaugeDriftsOnlyByContention
  <1>1. IInv => SessionGaugeDriftsOnlyByContention
    <2> SUFFICES ASSUME IInv, Quiet, ~contended PROVE gauge = Cardinality(InTable)
      BY DEF SessionGaugeDriftsOnlyByContention
    <2>1. \A t \in Threads : removed[t] = {}
      BY ThreadFacts DEF IInv, RelayInv, LabelInv, RemovedInv, Quiet
    <2>2. \A s \in open : s \in Sess /\ IsCurrent(s)
      BY <2>1 DEF IInv, RelayInv, TypeOK, NoOrphanSocket
    <2>3. \A c \in InTable : sessions[c] \in open /\ key[sessions[c]] = c
      BY DEF IInv, RelayInv, KeyInv
    <2>4. \A s \in open : key[s] \in InTable /\ sessions[key[s]] = s
      BY <2>2, ThreadFacts DEF IInv, RelayInv, TypeOK, IsCurrent, InTable
    <2> DEFINE f == [c \in InTable |-> sessions[c]]
    <2>5. f \in Bijection(InTable, open)
      BY <2>3, <2>4 DEF Bijection, Injection, Surjection, IsInjective
    <2>6. ExistsBijection(InTable, open)
      BY <2>5 DEF ExistsBijection
    <2>7. IsFiniteSet(InTable)
      BY RelayAssumption, FS_Subset, SMTT(60) DEF InTable
    <2>8. Cardinality(open) = Cardinality(InTable)
      BY <2>6, <2>7, FS_Bijection, SMTT(60)
    <2>9. QED
      BY <2>8 DEF IInv, GaugeInv
  <1>2. QED
    BY <1>1, Invariance, PTL

\* The safety part of ImplementsService: in either mode the server goes from serving
\* through closing to ended, never back, and has let go of every connection when it has
\* ended.  That it does end is the rest of ImplementsService, which is liveness.
THEOREM ServiceSafety == BedrockSpec => Bedrock!Init /\ [][Bedrock!Next]_(Bedrock!vars)
  <1>1. BedrockInit => Bedrock!Init
    BY ThreadFacts DEF BedrockInit, Init, HostProxy!Init, Bedrock!Init, RelayEnded,
                       HostProxyEnded
  <1>2. IInv /\ IInv' /\ [BedrockNext]_bedrockVars => [Bedrock!Next]_(Bedrock!vars)
    <2> SUFFICES ASSUME IInv, IInv', [BedrockNext]_bedrockVars
                 PROVE  [Bedrock!Next]_(Bedrock!vars)
      OBVIOUS
    <2>1. Ended => ~Holding
      BY EndedHoldsNothing
    <2>2. Ended' => ~Holding'
      BY EndedHoldsNothing, PTL
    <2>3. (Ended => Ended') /\ (UNCHANGED Told \/ (Told' /\ UNCHANGED Holding))
      <3>1. CASE mode = "udp-forward" /\ Next /\ UNCHANGED hostProxyVars
        <4>1. ~RelayEnded
          BY <3>1, <2>1, RelayRests DEF IInv, Ended, Holding
        <4>2. UNCHANGED <<hpClosed, hpOpen, hpConns, hpServe, hpCloser>>
          BY <3>1 DEF hostProxyVars
        <4>3. QED
          BY <3>1, <4>1, <4>2, RelayTold, SMTT(60) DEF Ended, Told, Holding, HostProxyEnded
      <3>2. CASE HostProxy!Next /\ UNCHANGED vars
        <4>1. UNCHANGED <<closed, open, pc, removed>>
          BY <3>2 DEF vars
        <4>2. QED
          BY <3>2, <4>1, HostProxyTold, SMTT(60) DEF Ended, Told, Holding, RelayEnded
      <3>3. CASE UNCHANGED bedrockVars
        BY <3>3 DEF bedrockVars, vars, hostProxyVars, Ended, Told, RelayEnded, HostProxyEnded
      <3>4. QED
        BY <3>1, <3>2, <3>3 DEF BedrockNext
    <2>4. CASE Ended
      <3>1. UNCHANGED Bedrock!vars
        BY <2>1, <2>2, <2>3, <2>4 DEF Bedrock!vars, Ended, Holding
      <3>2. QED
        BY <3>1
    <2>5. CASE ~Ended /\ Ended'
      <3>1. Bedrock!End
        BY <2>2, <2>5 DEF Bedrock!End, Ended, Holding
      <3>2. QED
        BY <3>1 DEF Bedrock!Next
    <2>6. CASE ~Ended /\ ~Ended' /\ UNCHANGED Told
      <3>1. Bedrock!Serve
        BY <2>6 DEF Bedrock!Serve, Ended, Told
      <3>2. QED
        BY <3>1 DEF Bedrock!Next
    <2>7. CASE ~Ended /\ ~Ended' /\ Told' /\ ~Told /\ UNCHANGED Holding
      <3>1. Bedrock!Stop
        BY <2>7 DEF Bedrock!Stop, Ended, Told, Holding
      <3>2. QED
        BY <3>1 DEF Bedrock!Next
    <2>8. QED
      BY <2>3, <2>4, <2>5, <2>6, <2>7
  <1>3. QED
    BY <1>1, <1>2, Invariance, PTL DEF BedrockSpec

=============================================================================
