-------------------------- MODULE AvailabilityProofs --------------------------
(***************************************************************************)
(* Proofs about the availability monitor and the control companion, for    *)
(* any number of backends and workers and any bound on flips and faults:   *)
(* what the monitor believes to be known there is known, and a gateway     *)
(* that stops spreads no rumours.                                          *)
(***************************************************************************)
EXTENDS Availability, SequenceTheorems, TLAPS

\* Steps are for Zenon, unless they name the other prover; they are small, and the
\* limit is for a busy machine.
USE ZenonT(60)

\* The task at i is the last one about b.
LastTask(b, i) ==
    /\ tasks[i].backend = b
    /\ \A j \in DOMAIN tasks : j > i => tasks[j].backend # b

\* The store will hold v for b when the tasks there are now have run.
Outcome(b, v) ==
    \/ \E i \in DOMAIN tasks : LastTask(b, i) /\ tasks[i].online = v
    \/ (\A i \in DOMAIN tasks : tasks[i].backend # b) /\ store[b] = v

\* A request somebody waits for is the last one and that of the monitor's call,
\* which is either not served yet or answered.
CallInv ==
    /\ \A i \in DOMAIN requests : requests[i].live =>
          /\ i = Len(requests)
          /\ pc = "call" /\ ~replied
          /\ requests[i].backend = Backend /\ requests[i].online = online
    /\ replied => pc = "call"

\* Unless b has strayed, the store ends up with what the monitor has recorded for
\* it, or is about to record when an answer is on its way.
OutcomeInv ==
    \A b \in IDs \ strayed :
        IF replied /\ b = Backend THEN Outcome(b, online)
        ELSE sent[b] # None => Outcome(b, sent[b])

\* The last event of a backend tells the state in the store.
EventInv == \A b \in IDs : events[b] \in {None, store[b]}

\* A probe fails for the sake of the context only once that is done.
ForcedInv == forced => cancelled

\* The inductive invariant.
IInv ==
    /\ TypeOK
    /\ CallInv /\ OutcomeInv /\ EventInv
    /\ ForcedInv /\ NoRumourAtShutdown

-------------------------------------------------------------------------------
\* The elements of a sequence from which one is removed.
LEMMA RemoveAtElements ==
    ASSUME NEW S, NEW s \in Seq(S), NEW i \in DOMAIN s
    PROVE  /\ RemoveAt(s, i) \in Seq(S)
           /\ Len(RemoveAt(s, i)) = Len(s) - 1
           /\ \A k \in 1..(Len(s) - 1) :
                 RemoveAt(s, i)[k] = IF k < i THEN s[k] ELSE s[k + 1]
  <1> DEFINE a == SubSeq(s, 1, i - 1)
             c == SubSeq(s, i + 1, Len(s))
  <1>1. i \in 1..Len(s)
    BY SMTT(60)
  <1>2. /\ a \in Seq(S) /\ Len(a) = i - 1
        /\ \A k \in 1..(i - 1) : a[k] = s[k]
    BY <1>1, SMTT(60)
  <1>3. /\ c \in Seq(S) /\ Len(c) = Len(s) - i
        /\ \A k \in 1..(Len(s) - i) : c[k] = s[i + k]
    BY <1>1, SMTT(60)
  <1>4. RemoveAt(s, i) = a \o c
    BY DEF RemoveAt
  <1> HIDE DEF a, c
  <1>5. /\ a \o c \in Seq(S)
        /\ Len(a \o c) = Len(a) + Len(c)
        /\ \A k \in 1..(Len(a) + Len(c)) :
              (a \o c)[k] = IF k <= Len(a) THEN a[k] ELSE c[k - Len(a)]
    BY <1>2, <1>3, ConcatProperties
  <1> DEFINE r == RemoveAt(s, i)
  <1>6. /\ r \in Seq(S)
        /\ Len(r) = Len(a) + Len(c)
        /\ \A k \in 1..(Len(a) + Len(c)) :
              r[k] = IF k <= Len(a) THEN a[k] ELSE c[k - Len(a)]
    <2> HIDE DEF r
    <2>1. r = a \o c
      BY <1>4 DEF r
    <2>2. QED
      BY <1>5, <2>1
  <1>7. RemoveAt(s, i) \in Seq(S) /\ Len(RemoveAt(s, i)) = Len(s) - 1
    BY <1>1, <1>2, <1>3, <1>6, SMTT(60)
  <1>8. ASSUME NEW k \in 1..(Len(s) - 1)
        PROVE  RemoveAt(s, i)[k] = IF k < i THEN s[k] ELSE s[k + 1]
    <2>1. k \in 1..(Len(a) + Len(c))
      BY <1>1, <1>2, <1>3, SMTT(60)
    <2>2. CASE k < i
      BY <1>1, <1>2, <1>6, <2>1, <2>2, SMTT(60)
    <2>3. CASE ~(k < i)
      <3>1. RemoveAt(s, i)[k] = c[k - Len(a)]
        BY <1>1, <1>2, <1>6, <2>1, <2>3, SMTT(60)
      <3>2. k - Len(a) \in 1..(Len(s) - i) /\ i + (k - Len(a)) = k + 1
        BY <1>1, <1>2, <2>3, SMTT(60)
      <3>3. QED
        BY <1>3, <2>3, <3>1, <3>2
    <2>4. QED
      BY <2>2, <2>3
  <1>9. QED
    BY <1>7, <1>8

\* Appending to the tasks something about another backend changes nothing for b.
LEMMA AppendOther ==
    ASSUME tasks \in Seq(Update), NEW t \in Update, tasks' = Append(tasks, t), store' = store,
           NEW b, NEW v, t.backend # b, Outcome(b, v)
    PROVE  Outcome(b, v)'
  <1>1. CASE \E i \in DOMAIN tasks : LastTask(b, i) /\ tasks[i].online = v
    BY <1>1, SMTT(60) DEF Outcome, LastTask
  <1>2. CASE (\A i \in DOMAIN tasks : tasks[i].backend # b) /\ store[b] = v
    BY <1>2, SMTT(60) DEF Outcome
  <1>3. QED
    BY <1>1, <1>2 DEF Outcome

\* The task that is appended decides about its backend.
LEMMA AppendDecides ==
    ASSUME tasks \in Seq(Update), NEW t \in Update, tasks' = Append(tasks, t)
    PROVE  Outcome(t.backend, t.online)'
  BY SMTT(60) DEF Outcome, LastTask

\* Running a task leaves every outcome as it is.
LEMMA RunTaskKeepsOutcome ==
    ASSUME tasks \in Seq(Update), store \in [IDs -> BOOLEAN \cup {None}], RunTask,
           NEW b \in IDs, NEW v, Outcome(b, v)
    PROVE  Outcome(b, v)'
  <1>0. /\ tasks # <<>> /\ tasks' = Tail(tasks) /\ Head(tasks) \in Update
        /\ store' = [store EXCEPT ![Head(tasks).backend] = Head(tasks).online]
    BY SMTT(60) DEF RunTask
  <1>1. CASE (\A i \in DOMAIN tasks : tasks[i].backend # b) /\ store[b] = v
    BY <1>0, <1>1, SMTT(60) DEF Outcome
  <1>2. ASSUME NEW i \in DOMAIN tasks, LastTask(b, i), tasks[i].online = v
        PROVE  Outcome(b, v)'
    <2>1. CASE i = 1
      BY <1>0, <1>2, <2>1, SMTT(60) DEF Outcome, LastTask, Update
    <2>2. CASE i # 1
      <3>1. i - 1 \in DOMAIN tasks' /\ tasks'[i - 1] = tasks[i]
        BY <1>0, <2>2, SMTT(60)
      <3>2. LastTask(b, i - 1)'
        BY <1>0, <1>2, <3>1, SMTT(60) DEF LastTask
      <3>3. QED
        BY <1>2, <3>1, <3>2 DEF Outcome
    <2>3. QED
      BY <2>1, <2>2
  <1>3. QED
    BY <1>1, <1>2 DEF Outcome


-------------------------------------------------------------------------------
(* The inductive invariant is kept by every step.                          *)

\* The list of backends is not empty, so an index is always that of a backend.
LEMMA BackendIsAnID ==
    ASSUME TypeOK
    PROVE  /\ Len(Backends) \in Nat \ {0}
           /\ Backend \in IDs
  <1>1. Len(Backends) \in Nat \ {0}
    BY AvailabilityAssumption, SMTT(60)
  <1>2. \A i \in 1..Len(Backends) : Backends[i] \in IDs
    BY AvailabilityAssumption, SMTT(60)
  <1>3. QED
    BY <1>1, <1>2 DEF TypeOK, Backend

\* checkAll goes on to a backend of the list.
LEMMA NextBackendType ==
    ASSUME TypeOK, NextBackend
    PROVE  /\ pc' \in {"wait", "probe"}
           /\ index' \in 1..Len(Backends)
  BY BackendIsAnID, SMTT(60) DEF TypeOK, NextBackend

\* A request that nobody waits for is a request.
LEMMA AbandonedRequest ==
    ASSUME NEW r \in PutRequest
    PROVE  [r EXCEPT !.live = FALSE] \in PutRequest
  BY DEF PutRequest

\* A failed call leaves requests to serve, but no new ones.
LEMMA FailureKeepsRequests ==
    ASSUME requests \in Seq(PutRequest),
           \/ requests' = Abandoned(requests)
           \/ \E i \in DOMAIN requests :
                 requests[i].live /\ requests' = RemoveAt(requests, i)
    PROVE  requests' \in Seq(PutRequest)
  <1>1. CASE requests' = Abandoned(requests)
    <2>1. \A i \in 1..Len(requests) : [requests[i] EXCEPT !.live = FALSE] \in PutRequest
      BY AbandonedRequest, SMTT(60)
    <2>2. requests' = [i \in 1..Len(requests) |-> [requests[i] EXCEPT !.live = FALSE]]
      BY <1>1, SMTT(60) DEF Abandoned
    <2>3. QED
      BY <2>1, <2>2, IsASeq, SMTT(60)
  <1>2. CASE \E i \in DOMAIN requests :
                 requests[i].live /\ requests' = RemoveAt(requests, i)
    BY <1>2, RemoveAtElements
  <1>3. QED
    BY <1>1, <1>2

\* Faults stay within their bound.
LEMMA FaultKeepsBounds ==
    ASSUME bounds \in [flips: 0..MaxFlips, faults: 0..MaxFaults], Fault
    PROVE  bounds' \in [flips: 0..MaxFlips, faults: 0..MaxFaults]
  <1>1. MaxFaults \in Nat
    BY AvailabilityAssumption
  <1>2. QED
    BY <1>1, SMTT(60) DEF Fault

\* Variables have their types.
LEMMA TypeStep ==
    ASSUME TypeOK, [Next]_vars
    PROVE  TypeOK'
  <1> USE DEF TypeOK
  <1>0. Backend \in IDs
    BY BackendIsAnID
  <1>1. ASSUME NEW b \in IDs, Flip(b)
        PROVE  TypeOK'
    BY <1>1, AvailabilityAssumption, SMTT(60) DEF Flip, monitorVars, companionVars
  <1>2. CASE Cancel
    BY <1>2 DEF Cancel, monitorVars, companionVars
  <1>3. CASE Ticker
    BY <1>3 DEF Ticker, companionVars
  <1>4. CASE StopMonitor
    BY <1>4 DEF StopMonitor, companionVars
  <1>5. CASE Probe
    <2>1. online' \in BOOLEAN /\ forced' \in BOOLEAN
      BY <1>0, <1>5 DEF Probe
    <2>2. QED
      BY <1>5, <2>1 DEF Probe, companionVars
  <1>6. CASE Notify
    <2>1. pc' \in {"wait", "probe", "call"} /\ index' \in 1..Len(Backends)
      BY <1>6, NextBackendType DEF Notify
    <2>2. Request \in PutRequest
      BY <1>0 DEF Request, PutRequest
    <2>3. requests' \in Seq(PutRequest)
      <3>1. requests' = requests \/ requests' = Append(requests, Request)
        BY <1>6 DEF Notify
      <3>2. requests \in Seq(PutRequest)
        OBVIOUS
      <3> HIDE DEF TypeOK
      <3>3. QED
        BY <2>2, <3>1, <3>2, SMTT(60)
    <2>4. QED
      BY <1>6, <2>1, <2>3 DEF Notify, companionVars
  <1>7. CASE Acknowledged
    <2>1. pc' \in {"wait", "probe"} /\ index' \in 1..Len(Backends)
      BY <1>7, NextBackendType DEF Acknowledged
    <2>2. sent' \in [IDs -> BOOLEAN \cup {None}]
      BY <1>0, <1>7 DEF Acknowledged
    <2>3. QED
      BY <1>7, <2>1, <2>2 DEF Acknowledged, companionVars
  <1>8. CASE NotifyFails
    <2>1. requests' \in Seq(PutRequest)
      BY <1>8, FailureKeepsRequests DEF NotifyFails
    <2>2. bounds' \in [flips: 0..MaxFlips, faults: 0..MaxFaults]
      BY <1>8, FaultKeepsBounds DEF NotifyFails
    <2>3. strayed' \subseteq IDs
      BY <1>0, <1>8 DEF NotifyFails
    <2>4. pc' \in {"wait", "probe"} /\ index' \in 1..Len(Backends)
      BY <1>8, NextBackendType DEF NotifyFails
    <2>5. QED
      BY <1>8, <2>1, <2>2, <2>3, <2>4 DEF NotifyFails, companionVars
  <1>9. CASE CallReset
    BY <1>9, NextBackendType DEF CallReset, companionVars
  <1>10. ASSUME NEW i \in 1..Workers, Handle(i)
         PROVE  TypeOK'
    <2>1. i \in DOMAIN requests /\ requests[i] \in PutRequest
      BY <1>10, SMTT(60) DEF Handle
    <2>2. requests' \in Seq(PutRequest)
      BY <1>10, <2>1, RemoveAtElements DEF Handle
    <2>3. tasks' \in Seq(Update)
      BY <1>10, <2>1, SMTT(60) DEF Handle, Update, PutRequest
    <2>4. replied' \in BOOLEAN /\ strayed' \subseteq IDs
      BY <1>10, <2>1 DEF Handle, PutRequest
    <2>5. QED
      BY <1>10, <2>2, <2>3, <2>4 DEF Handle, monitorVars
  <1>11. CASE RunTask
    <2>1. Head(tasks) \in Update /\ tasks' \in Seq(Update)
      BY <1>11, SMTT(60) DEF RunTask
    <2>2. store' \in [IDs -> BOOLEAN \cup {None}] /\ events' \in [IDs -> BOOLEAN \cup {None}]
      BY <1>11, <2>1 DEF RunTask, Update
    <2>3. QED
      BY <1>11, <2>1, <2>2 DEF RunTask, monitorVars
  <1>12. CASE Disable
    <2>1. bounds' \in [flips: 0..MaxFlips, faults: 0..MaxFaults]
      BY <1>12, FaultKeepsBounds DEF Disable
    <2>2. requests' \in Seq(PutRequest) /\ tasks' \in Seq(Update)
      BY <1>12, SMTT(60) DEF Disable
    <2>3. QED
      BY <1>12, <2>1, <2>2 DEF Disable, monitorVars
  <1>13. CASE Enable
    BY <1>13 DEF Enable, monitorVars, companionVars
  <1>14. CASE UNCHANGED vars
    BY <1>14 DEF vars, monitorVars, companionVars
  <1>15. QED
    BY <1>1, <1>2, <1>3, <1>4, <1>5, <1>6, <1>7, <1>8, <1>9, <1>10, <1>11, <1>12, <1>13,
       <1>14, Zenon DEF Next, MonitorStep


\* No request is waited for, and no answer is on its way.
Idle == ~replied /\ \A i \in DOMAIN requests : ~requests[i].live

\* Outside of a call the monitor waits for nothing.
LEMMA NoCall ==
    ASSUME CallInv
    PROVE  /\ pc # "call" => Idle
           /\ replied => \A i \in DOMAIN requests : ~requests[i].live
  BY DEF CallInv, Idle

\* What is left when the request at i is removed.
LEMMA RemovedRequest ==
    ASSUME requests \in Seq(PutRequest), NEW i \in DOMAIN requests,
           requests' = RemoveAt(requests, i)
    PROVE  /\ requests' \in Seq(PutRequest)
           /\ Len(requests') = Len(requests) - 1
           /\ \A j \in 1..(Len(requests) - 1) :
                 requests'[j] = IF j < i THEN requests[j] ELSE requests[j + 1]
  <1> DEFINE r == RemoveAt(requests, i)
  <1>1. /\ r \in Seq(PutRequest)
        /\ Len(r) = Len(requests) - 1
        /\ \A j \in 1..(Len(requests) - 1) :
              r[j] = IF j < i THEN requests[j] ELSE requests[j + 1]
    BY RemoveAtElements
  <1>2. requests' = r
    OBVIOUS
  <1> HIDE DEF r
  <1>3. QED
    BY <1>1, <1>2

\* What is left when the request at i is removed, and which of it is waited for.
LEMMA RemoveWaited ==
    ASSUME requests \in Seq(PutRequest), CallInv, NEW i \in DOMAIN requests,
           requests' = RemoveAt(requests, i),
           NEW k \in DOMAIN requests', requests'[k].live
    PROVE  /\ ~requests[i].live
           /\ k = Len(requests')
           /\ requests'[k] = requests[Len(requests)] /\ Len(requests) \in DOMAIN requests
           /\ requests[Len(requests)].live
  <1>1. /\ requests' \in Seq(PutRequest)
        /\ Len(requests') = Len(requests) - 1
        /\ \A j \in 1..(Len(requests) - 1) :
              requests'[j] = IF j < i THEN requests[j] ELSE requests[j + 1]
    BY RemovedRequest
  <1>2. k \in 1..(Len(requests) - 1) /\ Len(requests) \in Nat /\ i \in 1..Len(requests)
    BY <1>1, SMTT(60)
  <1>3. \A j \in 1..Len(requests) : requests[j].live => j = Len(requests)
    BY SMTT(60) DEF CallInv
  <1>4. k >= i
    BY <1>1, <1>2, <1>3, SMTT(60)
  <1>5. requests'[k] = requests[k + 1]
    BY <1>1, <1>2, <1>4, SMTT(60)
  <1>6. k + 1 = Len(requests)
    BY <1>2, <1>3, <1>5, SMTT(60)
  <1>7. QED
    BY <1>1, <1>2, <1>3, <1>4, <1>5, <1>6, SMTT(60)

\* The monitor waits for one call at a time, and its request is the youngest.
LEMMA CallStep ==
    ASSUME TypeOK, CallInv, [Next]_vars
    PROVE  CallInv'
  <1>r. requests \in Seq(PutRequest)
    BY DEF TypeOK
  <1>1. ASSUME UNCHANGED <<pc, index, online, requests, replied>>
        PROVE  CallInv'
    BY <1>1 DEF CallInv, Backend
  <1>2. ASSUME Idle'
        PROVE  CallInv'
    BY <1>2 DEF CallInv, Idle
  <1>3. CASE Ticker \/ StopMonitor \/ Probe
    <2>1. pc # "call" /\ UNCHANGED <<requests, replied>>
      BY <1>3 DEF Ticker, StopMonitor, Probe
    <2>2. QED
      BY <1>2, <2>1, NoCall DEF Idle
  <1>4. CASE Notify
    <2>1. Idle /\ replied' = replied
      BY <1>4, NoCall DEF Notify
    <2>2. CASE UNCHANGED requests
      BY <1>2, <2>1, <2>2 DEF Idle
    <2>3. CASE requests' = Append(requests, Request) /\ pc' = "call" /\ UNCHANGED index
      <3>1. ASSUME NEW i \in DOMAIN requests', requests'[i].live
            PROVE  i = Len(requests') /\ requests'[i] = Request
        BY <1>r, <2>1, <2>3, <3>1, SMTT(60) DEF Idle
      <3>2. UNCHANGED online
        BY <1>4 DEF Notify
      <3>3. Request.backend = Backend /\ Request.online = online
        BY DEF Request
      <3>4. Backend' = Backend
        BY <2>3 DEF Backend
      <3>5. QED
        BY <2>1, <2>3, <3>1, <3>2, <3>3, <3>4 DEF CallInv, Idle
    <2>4. QED
      BY <1>4, <2>2, <2>3 DEF Notify
  <1>5. CASE Acknowledged
    BY <1>2, <1>5, NoCall DEF Acknowledged, Idle
  <1>6. CASE NotifyFails
    <2>1. CASE requests' = Abandoned(requests)
      <3>1. ASSUME NEW i \in DOMAIN requests'
            PROVE  ~requests'[i].live
        <4>1. i \in DOMAIN requests /\ requests'[i] = [requests[i] EXCEPT !.live = FALSE]
          BY <2>1 DEF Abandoned
        <4>2. requests[i] \in PutRequest
          BY <1>r, <4>1, SMTT(60)
        <4>3. QED
          BY <4>1, <4>2 DEF PutRequest
      <3>2. QED
        BY <1>2, <1>6, <3>1 DEF NotifyFails, Idle
    <2>2. ASSUME NEW i \in DOMAIN requests, requests[i].live, requests' = RemoveAt(requests, i)
          PROVE  CallInv'
      <3>1. \A k \in DOMAIN requests' : ~requests'[k].live
        BY <1>r, <2>2, RemoveWaited
      <3>2. QED
        BY <1>2, <1>6, <3>1 DEF NotifyFails, Idle
    <2>3. QED
      BY <1>6, <2>1, <2>2 DEF NotifyFails
  <1>7. CASE CallReset
    BY <1>2, <1>7 DEF CallReset, Idle
  <1>8. ASSUME NEW i \in 1..Workers, Handle(i)
        PROVE  CallInv'
    <2>1. /\ i \in DOMAIN requests /\ requests' = RemoveAt(requests, i)
          /\ replied' = (replied \/ requests[i].live)
          /\ UNCHANGED <<pc, index, online>>
      BY <1>8 DEF Handle, monitorVars
    <2>2. ASSUME NEW k \in DOMAIN requests', requests'[k].live
          PROVE  /\ k = Len(requests') /\ pc = "call" /\ ~replied /\ ~requests[i].live
                 /\ requests'[k].backend = Backend /\ requests'[k].online = online
      <3>1. /\ ~requests[i].live /\ k = Len(requests')
            /\ requests'[k] = requests[Len(requests)] /\ Len(requests) \in DOMAIN requests
            /\ requests[Len(requests)].live
        BY <1>r, <2>1, <2>2, RemoveWaited
      <3>2. QED
        BY <3>1 DEF CallInv
    <2>3. replied' => pc' = "call"
      BY <2>1 DEF CallInv
    <2>4. QED
      BY <2>1, <2>2, <2>3 DEF CallInv, Backend
  <1>9. CASE Disable
    <2>1. requests' = <<>> /\ UNCHANGED <<replied, pc>>
      BY <1>9 DEF Disable, monitorVars
    <2>2. DOMAIN requests' = {}
      BY <2>1, SMTT(60)
    <2>3. QED
      BY <2>1, <2>2 DEF CallInv
  <1>10. ASSUME NEW b \in IDs, Flip(b)
         PROVE  CallInv'
    BY <1>1, <1>10 DEF Flip, monitorVars
  <1>11. CASE Cancel \/ RunTask \/ Enable \/ UNCHANGED vars
    BY <1>1, <1>11 DEF Cancel, RunTask, Enable, vars, monitorVars
  <1>12. QED
    BY <1>3, <1>4, <1>5, <1>6, <1>7, <1>8, <1>9, <1>10, <1>11 DEF Next, MonitorStep

\* What is announced was found by a probe that ran its course.
LEMMA ForcedStep ==
    ASSUME TypeOK, ForcedInv, NoRumourAtShutdown, [Next]_vars
    PROVE  ForcedInv' /\ NoRumourAtShutdown'
  <1>r. requests \in Seq(PutRequest)
    BY DEF TypeOK
  <1>1. ForcedInv'
    BY DEF ForcedInv, Next, MonitorStep, Flip, Cancel, Ticker, StopMonitor, Probe, Notify,
        Acknowledged, NotifyFails, CallReset, Handle, RunTask, Disable, Enable, vars, monitorVars
  <1> SUFFICES NoRumourAtShutdown'
    BY <1>1
  <1>2. ASSUME requests' \in {requests, <<>>}
        PROVE  NoRumourAtShutdown'
    BY <1>2, SMTT(60) DEF NoRumourAtShutdown
  <1>3. CASE Notify
    <2>1. CASE UNCHANGED requests
      BY <1>2, <2>1
    <2>2. CASE ~cancelled /\ requests' = Append(requests, Request)
      <3>1. ~Request.forced
        BY <2>2 DEF ForcedInv, Request
      <3>2. \A k \in DOMAIN requests' : requests'[k] = Request \/ \E i \in DOMAIN requests :
                requests'[k] = requests[i]
        BY <1>r, <2>2, SMTT(60)
      <3>3. QED
        BY <3>1, <3>2 DEF NoRumourAtShutdown
    <2>3. QED
      BY <1>3, <2>1, <2>2 DEF Notify
  <1>4. ASSUME NEW i \in DOMAIN requests, requests' = RemoveAt(requests, i)
        PROVE  NoRumourAtShutdown'
    <2>1. /\ requests' \in Seq(PutRequest)
          /\ Len(requests') = Len(requests) - 1
          /\ \A j \in 1..(Len(requests) - 1) :
                requests'[j] = IF j < i THEN requests[j] ELSE requests[j + 1]
      BY <1>r, <1>4, RemovedRequest
    <2>2. \A k \in DOMAIN requests' : \E j \in DOMAIN requests : requests'[k] = requests[j]
      BY <1>r, <2>1, SMTT(60)
    <2>3. QED
      BY <2>2 DEF NoRumourAtShutdown
  <1>5. CASE NotifyFails
    <2>1. CASE requests' = Abandoned(requests)
      <3>1. ASSUME NEW i \in DOMAIN requests'
            PROVE  ~requests'[i].forced
        <4>1. i \in DOMAIN requests /\ requests'[i] = [requests[i] EXCEPT !.live = FALSE]
          BY <2>1 DEF Abandoned
        <4>2. requests[i] \in PutRequest
          BY <1>r, <4>1, SMTT(60)
        <4>3. requests'[i].forced = requests[i].forced
          BY <4>1, <4>2 DEF PutRequest
        <4>4. QED
          BY <4>1, <4>3 DEF NoRumourAtShutdown
      <3>2. QED
        BY <3>1 DEF NoRumourAtShutdown
    <2>2. QED
      BY <1>4, <1>5, <2>1 DEF NotifyFails
  <1>6. ASSUME NEW i \in 1..Workers, Handle(i)
        PROVE  NoRumourAtShutdown'
    BY <1>4, <1>6 DEF Handle
  <1>7. QED
    BY <1>2, <1>3, <1>5, <1>6 DEF Next, MonitorStep, Flip, Cancel, Ticker,
       StopMonitor, Probe, Acknowledged, CallReset, RunTask, Disable, Enable, vars

\* The listener hears of the state the store has.
LEMMA EventStep ==
    ASSUME TypeOK, EventInv, [Next]_vars
    PROVE  EventInv'
  <1>1. CASE RunTask
    <2>1. /\ Head(tasks) \in Update
          /\ store' = [store EXCEPT ![Head(tasks).backend] = Head(tasks).online]
          /\ events' = IF store[Head(tasks).backend] \in {None, Head(tasks).online} THEN events
                       ELSE [events EXCEPT ![Head(tasks).backend] = Head(tasks).online]
      BY <1>1, SMTT(60) DEF RunTask, TypeOK
    <2>2. ASSUME NEW b \in IDs
          PROVE  events'[b] \in {None, store'[b]}
      <3>1. events[b] \in {None, store[b]}
        BY DEF EventInv
      <3>2. CASE b # Head(tasks).backend
        BY <2>1, <3>1, <3>2 DEF TypeOK
      <3>3. CASE b = Head(tasks).backend
        BY <2>1, <3>1, <3>3 DEF TypeOK
      <3>4. QED
        BY <3>2, <3>3
    <2>3. QED
      BY <2>2 DEF EventInv
  <1>2. CASE Disable
    BY <1>2 DEF Disable, EventInv
  <1>3. ASSUME UNCHANGED <<store, events>>
        PROVE  EventInv'
    BY <1>3 DEF EventInv
  <1>4. QED
    BY <1>1, <1>2, <1>3 DEF Next, MonitorStep, Flip, Cancel, Ticker, StopMonitor, Probe,
       Notify, Acknowledged, NotifyFails, CallReset, Handle, Enable, vars, companionVars


\* While the tasks and the store stay, so does every outcome.
LEMMA OutcomeFrame ==
    ASSUME UNCHANGED <<tasks, store>>, NEW b, NEW v, Outcome(b, v)
    PROVE  Outcome(b, v)'
  BY DEF Outcome, LastTask

\* What is recorded, or about to be, is what the store ends up with: the answers,
\* the late requests and the restarts are the places where that could fail.
LEMMA OutcomeStep ==
    ASSUME TypeOK, CallInv, OutcomeInv, [Next]_vars
    PROVE  OutcomeInv'
  <1>r. requests \in Seq(PutRequest) /\ tasks \in Seq(Update)
    BY DEF TypeOK
  <1>b. Backend \in IDs
    BY BackendIsAnID
  <1>1. ASSUME UNCHANGED <<index, online, sent, replied, tasks, store, strayed>>
        PROVE  OutcomeInv'
    <2>1. Backend' = Backend
      BY <1>1 DEF Backend
    <2>2. QED
      BY <1>1, <2>1, OutcomeFrame DEF OutcomeInv
  <1>2. ASSUME ~replied', UNCHANGED <<sent, tasks, store>>, strayed \subseteq strayed',
               replied => Backend \in strayed'
        PROVE  OutcomeInv'
    BY <1>2, OutcomeFrame DEF OutcomeInv
  <1>3. CASE Probe \/ Notify \/ CallReset
    <2>1. ~replied
      BY <1>3, NoCall DEF Probe, Notify, CallReset, Idle
    <2>2. UNCHANGED <<replied, sent, tasks, store, strayed>>
      BY <1>3 DEF Probe, Notify, CallReset, companionVars
    <2>3. QED
      BY <1>2, <2>1, <2>2
  <1>4. CASE NotifyFails
    <2>1. /\ ~replied' /\ UNCHANGED <<sent, tasks, store>>
          /\ strayed' = IF replied THEN strayed \cup {Backend} ELSE strayed
      BY <1>4 DEF NotifyFails, companionVars
    <2>2. QED
      BY <1>2, <2>1
  <1>5. CASE Acknowledged
    <2>1. /\ replied /\ ~replied' /\ UNCHANGED <<tasks, store, strayed>>
          /\ sent' = [sent EXCEPT ![Backend] = online]
      BY <1>5 DEF Acknowledged, companionVars
    <2>2. ASSUME NEW b \in IDs \ strayed'
          PROVE  Outcome(b, sent[b])' \/ sent'[b] = None
      <3>1. CASE b = Backend
        <4>1. Outcome(b, online) /\ sent'[b] = online
          BY <1>b, <2>1, <2>2, <3>1 DEF OutcomeInv, TypeOK
        <4>2. QED
          BY <2>1, <4>1, OutcomeFrame
      <3>2. CASE b # Backend
        <4>1. (sent[b] # None => Outcome(b, sent[b])) /\ sent'[b] = sent[b]
          BY <2>1, <2>2, <3>2 DEF OutcomeInv, TypeOK
        <4>2. QED
          BY <2>1, <4>1, OutcomeFrame
      <3>3. QED
        BY <3>1, <3>2
    <2>3. QED
      BY <2>1, <2>2 DEF OutcomeInv
  <1>6. ASSUME NEW i \in 1..Workers, Handle(i)
        PROVE  OutcomeInv'
    <2> DEFINE r == requests[i]
               t == [backend |-> r.backend, online |-> r.online]
    <2>1. /\ i \in DOMAIN requests /\ tasks' = Append(tasks, t)
          /\ replied' = (replied \/ r.live)
          /\ strayed' = IF r.live THEN strayed \ {r.backend} ELSE strayed \cup {r.backend}
          /\ UNCHANGED <<index, online, sent, store>>
      BY <1>6 DEF Handle, monitorVars
    <2>2. r \in PutRequest /\ t \in Update /\ t.backend = r.backend /\ t.online = r.online
      <3>1. r \in PutRequest
        BY <1>r, <2>1, SMTT(60)
      <3>2. QED
        BY <3>1 DEF PutRequest, Update
    <2>3. Backend' = Backend
      BY <2>1 DEF Backend
    <2> HIDE DEF r, t
    <2>4. ASSUME NEW b, b # r.backend, NEW v, Outcome(b, v)
          PROVE  Outcome(b, v)'
      BY <1>r, <2>1, <2>2, <2>4, AppendOther
    <2>5. CASE r.live
      <3>1. ~replied /\ r.backend = Backend /\ r.online = online
        BY <2>1, <2>5 DEF CallInv, r
      <3>2. Outcome(Backend, online)'
        BY <1>r, <2>1, <2>2, <2>3, <3>1, AppendDecides
      <3>3. ASSUME NEW b \in IDs \ strayed', b # Backend, sent'[b] # None
            PROVE  Outcome(b, sent[b])'
        <4>1. Outcome(b, sent[b])
          BY <2>1, <2>5, <3>1, <3>3 DEF OutcomeInv
        <4>2. QED
          BY <2>1, <2>4, <3>1, <3>3, <4>1
      <3>4. QED
        BY <2>1, <2>3, <2>5, <3>2, <3>3 DEF OutcomeInv
    <2>6. CASE ~r.live
      <3>1. /\ replied' = replied
            /\ \A b \in IDs \ strayed' : b \in IDs \ strayed /\ b # r.backend
        BY <2>1, <2>6 DEF TypeOK
      <3>2. ASSUME NEW b \in IDs \ strayed', replied', b = Backend'
            PROVE  Outcome(b, online)'
        BY <2>1, <2>3, <2>4, <3>1, <3>2 DEF OutcomeInv
      <3>3. ASSUME NEW b \in IDs \ strayed', ~(replied' /\ b = Backend'), sent'[b] # None
            PROVE  Outcome(b, sent[b])'
        BY <2>1, <2>3, <2>4, <3>1, <3>3 DEF OutcomeInv
      <3>4. QED
        BY <3>2, <3>3 DEF OutcomeInv
    <2>7. QED
      BY <2>5, <2>6
  <1>7. CASE RunTask
    <2>1. UNCHANGED <<index, online, sent, replied, strayed>>
      BY <1>7 DEF RunTask, monitorVars
    <2>2. Backend' = Backend
      BY <2>1 DEF Backend
    <2>3. ASSUME NEW b \in IDs, NEW v, Outcome(b, v)
          PROVE  Outcome(b, v)'
      BY <1>7, <2>3, RunTaskKeepsOutcome DEF TypeOK
    <2>4. QED
      BY <2>1, <2>2, <2>3 DEF OutcomeInv
  <1>8. CASE Disable
    <2>1. /\ strayed' = {b \in IDs : sent[b] # None \/ (replied /\ b = Backend)}
          /\ UNCHANGED <<index, sent, replied>>
      BY <1>8 DEF Disable, monitorVars
    <2>2. Backend' = Backend
      BY <2>1 DEF Backend
    <2>3. QED
      BY <2>1, <2>2 DEF OutcomeInv
  <1>9. ASSUME NEW b \in IDs, Flip(b)
        PROVE  OutcomeInv'
    BY <1>1, <1>9 DEF Flip, monitorVars, companionVars
  <1>10. CASE Cancel \/ Ticker \/ StopMonitor \/ Enable \/ UNCHANGED vars
    BY <1>1, <1>10 DEF Cancel, Ticker, StopMonitor, Enable, vars, monitorVars,
       companionVars
  <1>11. QED
    BY <1>3, <1>4, <1>5, <1>6, <1>7, <1>8, <1>9, <1>10 DEF Next, MonitorStep

-------------------------------------------------------------------------------
(* The theorems.                                                           *)

\* The inductive invariant holds in every reachable state of the monitor and the
\* companion, whatever calls fail and however often the companion restarts.
THEOREM Invariance == Spec => []IInv
  <1>1. Init => IInv
    <2> SUFFICES ASSUME Init PROVE IInv
      OBVIOUS
    <2>1. requests = <<>> /\ tasks = <<>> /\ ~replied /\ ~forced /\ sent = [b \in IDs |-> None]
      BY DEF Init
    <2>2. DOMAIN requests = {} /\ requests \in Seq(PutRequest) /\ tasks \in Seq(Update)
      BY <2>1, SMTT(60)
    <2>3. index \in 1..Len(Backends)
      BY AvailabilityAssumption, SMTT(60) DEF Init
    <2>4. bounds \in [flips: 0..MaxFlips, faults: 0..MaxFaults]
      BY AvailabilityAssumption, SMTT(60) DEF Init
    <2>5. TypeOK
      BY <2>2, <2>3, <2>4 DEF Init, TypeOK
    <2>6. CallInv /\ ForcedInv /\ NoRumourAtShutdown
      BY <2>1, <2>2 DEF CallInv, ForcedInv, NoRumourAtShutdown
    <2>7. OutcomeInv
      BY <2>1 DEF OutcomeInv
    <2>8. EventInv
      BY DEF Init, EventInv
    <2>9. QED
      BY <2>5, <2>6, <2>7, <2>8 DEF IInv
  <1>2. IInv /\ [Next]_vars => IInv'
    BY TypeStep, CallStep, OutcomeStep, EventStep, ForcedStep DEF IInv
  <1>3. QED
    BY <1>1, <1>2, PTL DEF Spec

\* Variables have their types in every reachable state.
THEOREM TypeCorrect == Spec => []TypeOK
  <1>1. IInv => TypeOK
    BY DEF IInv
  <1>2. QED
    BY <1>1, Invariance, PTL

\* What the monitor believes the companion to know, the companion knows when nothing
\* is under way, unless the update strayed: for any number of backends and workers.
THEOREM DeliveredOrStrayed == Spec => []DeliveredUnlessStrayed
  <1>1. IInv => DeliveredUnlessStrayed
    <2> SUFFICES ASSUME IInv, NEW b \in IDs, sent[b] # None, Delivered(b), b \notin strayed
                 PROVE  store[b] = sent[b] /\ events[b] \in {None, store[b]}
      BY DEF DeliveredUnlessStrayed
    <2>1. Outcome(b, sent[b])
      BY DEF IInv, OutcomeInv, Delivered
    <2>2. \A i \in DOMAIN tasks : tasks[i].backend # b
      BY DEF Delivered
    <2>3. store[b] = sent[b]
      BY <2>1, <2>2 DEF Outcome, LastTask
    <2>4. events[b] \in {None, store[b]}
      BY DEF IInv, EventInv
    <2>5. QED
      BY <2>3, <2>4
  <1>2. QED
    BY <1>1, Invariance, PTL

\* A probe that failed because the gateway is being stopped is never announced.
THEOREM ShutdownIsSilent == Spec => []NoRumourAtShutdown
  <1>1. IInv => NoRumourAtShutdown
    BY DEF IInv
  <1>2. QED
    BY <1>1, Invariance, PTL

===============================================================================
