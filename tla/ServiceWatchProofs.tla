-------------------------- MODULE ServiceWatchProofs --------------------------
(***************************************************************************)
(* Proofs about runtime discovery: what ready and a retry mean, what the   *)
(* backoff counts, and that the applied Services never go back.            *)
(***************************************************************************)
EXTENDS ServiceWatch, TLAPS

\* Every step is small; the limit is for a busy machine.
USE SMTT(60)

\* The controller runs exactly while the supervisor is in runOnce.
RunInv == controller # "idle" <=> supervisor = "running"

\* The versions along the way from the cluster through the controller's map to the
\* snapshot.  Between its list and its return the controller's map is at least as
\* new as what is applied; a map left by an earlier run need not be.
VersionInv ==
    /\ services <= cluster
    /\ applied <= cluster
    /\ controller \in {"watch", "apply", "signal", "events"} => applied <= services

\* What each signal a result leaves behind stands for.  A cancelled context breaks
\* the link, since update signals without having applied anything.
SignalInv ==
    /\ syncs.run => syncs.ever
    /\ controller = "signal" => syncs.run \/ cancelled
    /\ supervisor = "running" /\ (token \/ synced) => syncs.run \/ cancelled
    /\ ready \/ initialSyncSeen => syncs.ever \/ cancelled

\* No applied result goes unseen: its signals follow, and of one run the token or
\* what became of it is there when the run is over.
SeenInv ==
    /\ syncs.ever => ready \/ controller = "signal"
    /\ supervisor = "running" /\ syncs.run => synced \/ token \/ controller = "signal"

\* The attempts and the failed runs agree outside a run, and inside one until its
\* first token is taken.
AttemptInv ==
    /\ supervisor \in {"start", "sleeping"} => attempt = barren
    /\ supervisor = "running" => attempt = IF synced THEN 0 ELSE barren

\* The controller returns nil only for a cancellation: every other way out of Run is
\* an error.
NilInv == controller = "done" => err # "nil" \/ cancelled

IInv ==
    /\ TypeOK
    /\ RunInv
    /\ NilInv
    /\ VersionInv
    /\ SignalInv
    /\ SeenInv
    /\ AttemptInv
    /\ ReadyMeansApplied

-----------------------------------------------------------------------------
(* Each conjunct is preserved by every step.                               *)

\* Every step keeps the types.
LEMMA TypeStep ==
    ASSUME TypeOK, [Next]_vars
    PROVE  TypeOK'
  <1> USE WatchAssumption DEF TypeOK
  <1>1. CASE ServicesChange
    BY <1>1 DEF ServicesChange, controllerVars, supervisorVars, sinkVars, mainVars
  <1>2. CASE ControllerStep
    <2> USE DEF ControllerPlaces, Results, APIErrors, Fails, Return, clusterVars, supervisorVars, sinkVars, mainVars
    <2>1. CASE List
      <3>1. err' \in Results
        BY <2>1, Zenon DEF List
      <3>2. cluster' = cluster /\ faults' \in 0..MaxFaults
        BY <2>1 DEF List
      <3>3. controller' \in ControllerPlaces /\ services' \in 0..MaxChanges
        BY <2>1 DEF List
      <3>4. QED
        BY <2>1, <3>1, <3>2, <3>3 DEF List
    <2>2. CASE Watch
      <3>1. err' \in Results
        BY <2>2, Zenon DEF Watch
      <3>2. cluster' = cluster /\ faults' \in 0..MaxFaults
        BY <2>2 DEF Watch
      <3>3. controller' \in ControllerPlaces
        BY <2>2 DEF Watch
      <3>4. QED
        BY <2>2, <3>1, <3>2, <3>3 DEF Watch
    <2>3. CASE Apply
      <3>1. syncs' = syncs \/ syncs' = [ever |-> TRUE, run |-> TRUE]
        BY <2>3 DEF Apply
      <3>2. [ever |-> TRUE, run |-> TRUE] \in [ever: BOOLEAN, run: BOOLEAN]
        OBVIOUS
      <3>3. syncs' \in [ever: BOOLEAN, run: BOOLEAN]
        BY <3>1, <3>2, Zenon
      <3>4. applied' \in 0..MaxChanges
        BY <2>3 DEF Apply
      <3>5. QED
        BY <2>3, <3>3, <3>4 DEF Apply
    <2>4. CASE Signal
      BY <2>4 DEF Signal
    <2>5. CASE ReceiveChange
      BY <2>5 DEF ReceiveChange
    <2>6. CASE ReceiveBookmark
      BY <2>6 DEF ReceiveBookmark
    <2>7. CASE StreamFails
      <3>1. err' \in Results
        BY <2>7, Zenon DEF StreamFails
      <3>2. cluster' = cluster /\ faults' \in 0..MaxFaults
        BY <2>7 DEF StreamFails
      <3>3. controller' \in ControllerPlaces
        BY <2>7 DEF StreamFails
      <3>4. QED
        BY <2>7, <3>1, <3>2, <3>3 DEF StreamFails
    <2>8. CASE ControllerCancelled
      BY <2>8, Zenon DEF ControllerCancelled
    <2>9. QED
      BY <1>2, <2>1, <2>2, <2>3, <2>4, <2>5, <2>6, <2>7, <2>8 DEF ControllerStep
  <1>3. CASE SupervisorStep
    <2> USE DEF ControllerPlaces, SupervisorPlaces, clusterVars, controllerVars, sinkVars,
                mainVars
    <2>1. CASE StartRun
      BY <2>1, Zenon DEF StartRun
    <2>2. CASE TakeToken
      BY <2>2, ZenonT(60) DEF TakeToken
    <2>3. CASE RunDone
      BY <2>3 DEF RunDone
    <2>4. CASE Sleep
      BY <2>4 DEF Sleep
    <2>5. QED
      BY <1>3, <2>1, <2>2, <2>3, <2>4 DEF SupervisorStep
  <1>4. CASE MainStep \/ Cancel
    BY <1>4, Zenon DEF MainStep, Started, StartFails, Stop, StopReturns, Cancel, MainPlaces,
                clusterVars, controllerVars, supervisorVars, sinkVars
  <1>5. CASE UNCHANGED vars
    BY <1>5 DEF vars, clusterVars, controllerVars, supervisorVars, sinkVars, mainVars
  <1>6. QED
    BY <1>1, <1>2, <1>3, <1>4, <1>5 DEF Next

\* The supervisor enters runOnce by starting the controller and leaves it when the
\* controller is done.
LEMMA RunStep ==
    ASSUME TypeOK, RunInv, [Next]_vars
    PROVE  RunInv'
  <1> USE DEF RunInv
  <1>1. CASE ControllerStep
    BY <1>1 DEF ControllerStep, List, Watch, Apply, Signal, ReceiveChange, ReceiveBookmark,
                StreamFails, ControllerCancelled, Return, supervisorVars
  <1>2. CASE SupervisorStep
    BY <1>2 DEF SupervisorStep, StartRun, TakeToken, RunDone, Sleep, controllerVars
  <1>3. CASE ServicesChange \/ MainStep \/ Cancel \/ UNCHANGED vars
    BY <1>3 DEF ServicesChange, MainStep, Started, StartFails, Stop, StopReturns, Cancel, vars,
                controllerVars, supervisorVars
  <1>4. QED
    BY <1>1, <1>2, <1>3 DEF Next

\* List fails with an error; Watch, the stream and the context end Run with nil only
\* if the context is done.
LEMMA NilStep ==
    ASSUME NilInv, [Next]_vars
    PROVE  NilInv'
  <1> USE DEF NilInv
  <1>1. CASE List \/ Watch
    BY <1>1 DEF List, Watch, Return, APIErrors, mainVars
  <1>2. CASE Apply \/ Signal \/ ReceiveChange \/ ReceiveBookmark
    BY <1>2 DEF Apply, Signal, ReceiveChange, ReceiveBookmark
  <1>3. CASE StreamFails \/ ControllerCancelled
    BY <1>3 DEF StreamFails, ControllerCancelled, Return, mainVars
  <1>4. CASE SupervisorStep
    BY <1>4 DEF SupervisorStep, StartRun, TakeToken, RunDone, Sleep, controllerVars, mainVars
  <1>5. CASE ServicesChange \/ MainStep \/ Cancel \/ UNCHANGED vars
    BY <1>5 DEF ServicesChange, MainStep, Started, StartFails, Stop, StopReturns, Cancel, vars,
                controllerVars, mainVars
  <1>6. QED
    BY <1>1, <1>2, <1>3, <1>4, <1>5 DEF Next, ControllerStep

\* A relist brings the map up to the cluster, an event brings it one version nearer,
\* and an update brings the snapshot up to the map.
LEMMA VersionStep ==
    ASSUME TypeOK, RunInv, VersionInv, [Next]_vars
    PROVE  VersionInv' /\ applied <= applied'
  <1>0. cluster \in Nat /\ services \in Nat /\ applied \in Nat
    BY WatchAssumption DEF TypeOK
  <1> USE DEF VersionInv
  <1>1. CASE ServicesChange
    BY <1>0, <1>1 DEF ServicesChange, controllerVars, sinkVars
  <1>2. CASE ControllerStep
    <2> USE <1>0 DEF Fails, Return, clusterVars, sinkVars
    <2>1. CASE List
      BY <2>1 DEF List
    <2>2. CASE Watch
      BY <2>2 DEF Watch
    <2>3. CASE Apply
      BY <2>3 DEF Apply
    <2>4. CASE Signal \/ ReceiveChange \/ ReceiveBookmark
      BY <2>4 DEF Signal, ReceiveChange, ReceiveBookmark
    <2>5. CASE StreamFails \/ ControllerCancelled
      BY <2>5 DEF StreamFails, ControllerCancelled
    <2>6. QED
      BY <1>2, <2>1, <2>2, <2>3, <2>4, <2>5 DEF ControllerStep
  <1>3. CASE SupervisorStep
    BY <1>0, <1>3 DEF SupervisorStep, StartRun, TakeToken, RunDone, Sleep, clusterVars,
                      controllerVars, sinkVars
  <1>4. CASE MainStep \/ Cancel \/ UNCHANGED vars
    BY <1>0, <1>4 DEF MainStep, Started, StartFails, Stop, StopReturns, Cancel, vars,
                      clusterVars, controllerVars, sinkVars
  <1>5. QED
    BY <1>1, <1>2, <1>3, <1>4 DEF Next

\* Results are applied by Apply and forgotten, as those of a run, by StartRun.
LEMMA SyncsStep ==
    ASSUME TypeOK, [Next]_vars
    PROVE  \/ Apply /\ ~cancelled /\ syncs'.ever /\ syncs'.run
           \/ StartRun /\ syncs'.ever = syncs.ever /\ ~syncs'.run
           \/ ~StartRun /\ (Apply => cancelled) /\ UNCHANGED syncs
  <1>1. CASE Apply
    <2>1. ~StartRun
      BY <1>1 DEF Apply, StartRun, supervisorVars
    <2>2. QED
      BY <1>1, <2>1 DEF Apply
  <1>2. CASE StartRun
    BY <1>2 DEF StartRun, TypeOK
  <1>3. CASE ~Apply /\ ~StartRun
    BY <1>3, Zenon DEF Next, ServicesChange, ControllerStep, List, Watch, Signal, ReceiveChange,
                ReceiveBookmark, StreamFails, ControllerCancelled, SupervisorStep, TakeToken,
                RunDone, Sleep, MainStep, Started, StartFails, Stop, StopReturns, Cancel, vars,
                sinkVars
  <1>4. QED
    BY <1>1, <1>2, <1>3

\* A cancellation is never taken back.
LEMMA CancelledStep ==
    ASSUME [Next]_vars, cancelled
    PROVE  cancelled'
  BY Zenon DEF Next, ServicesChange, ControllerStep, List, Watch, Apply, Signal, ReceiveChange,
         ReceiveBookmark, StreamFails, ControllerCancelled, SupervisorStep, StartRun, TakeToken,
         RunDone, Sleep, MainStep, Started, StartFails, Stop, StopReturns, Cancel, vars, mainVars

\* A token, a taken token and a pending signal belong to the present run and mean
\* that it applied a result, because StartRun drains what an earlier run left.
LEMMA SignalStep ==
    ASSUME TypeOK, RunInv, SignalInv, [Next]_vars
    PROVE  SignalInv'
  <1>1. CASE Apply
    BY <1>1, SyncsStep, CancelledStep DEF Apply, SignalInv, supervisorVars
  <1>2. CASE Signal
    BY <1>2, SyncsStep, CancelledStep DEF Signal, SignalInv, supervisorVars
  <1>3. CASE List \/ Watch \/ ReceiveChange \/ ReceiveBookmark \/ StreamFails
             \/ ControllerCancelled
    BY <1>3 DEF List, Watch, ReceiveChange, ReceiveBookmark, StreamFails,
                ControllerCancelled, Return, SignalInv, supervisorVars, sinkVars, mainVars
  <1>4. CASE StartRun
    BY <1>4, SyncsStep, CancelledStep DEF StartRun, SignalInv
  <1>5. CASE TakeToken
    BY <1>5 DEF TakeToken, SignalInv, controllerVars, mainVars
  <1>6. CASE RunDone
    <2>1. UNCHANGED <<syncs, ready, cancelled>> /\ controller' = "idle"
      BY <1>6 DEF RunDone, mainVars
    <2>2. supervisor = "running" /\ supervisor' # "running"
      BY <1>6 DEF RunDone
    <2>3. initialSyncSeen' => initialSyncSeen \/ synced \/ token
      BY <1>6, Zenon DEF RunDone
    <2>4. QED
      BY <2>1, <2>2, <2>3 DEF SignalInv
  <1>7. CASE Sleep
    BY <1>7 DEF Sleep, SignalInv, controllerVars, sinkVars, mainVars
  <1>8. CASE ServicesChange \/ MainStep \/ Cancel \/ UNCHANGED vars
    BY <1>8 DEF ServicesChange, MainStep, Started, StartFails, Stop, StopReturns, Cancel, vars,
                SignalInv, controllerVars, supervisorVars, sinkVars, mainVars
  <1>9. QED
    BY <1>1, <1>2, <1>3, <1>4, <1>5, <1>6, <1>7, <1>8 DEF Next, ControllerStep, SupervisorStep

\* What was applied is seen: Signal follows Apply before anything else the run does.
LEMMA SeenStep ==
    ASSUME TypeOK, RunInv, SeenInv, [Next]_vars
    PROVE  SeenInv'
  <1>1. CASE Apply
    BY <1>1, SyncsStep DEF Apply, SeenInv, supervisorVars
  <1>2. CASE Signal
    BY <1>2 DEF Signal, SeenInv, supervisorVars
  <1>3. CASE List \/ Watch \/ ReceiveChange \/ ReceiveBookmark \/ StreamFails
             \/ ControllerCancelled
    BY <1>3 DEF List, Watch, ReceiveChange, ReceiveBookmark, StreamFails,
                ControllerCancelled, Return, SeenInv, supervisorVars, sinkVars
  <1>4. CASE StartRun
    BY <1>4, SyncsStep DEF StartRun, SeenInv, RunInv
  <1>5. CASE TakeToken
    BY <1>5 DEF TakeToken, SeenInv, controllerVars
  <1>6. CASE RunDone
    <2>1. UNCHANGED <<syncs, ready>> /\ controller = "done" /\ supervisor' # "running"
      BY <1>6 DEF RunDone
    <2>2. QED
      BY <2>1 DEF SeenInv
  <1>7. CASE Sleep
    BY <1>7 DEF Sleep, SeenInv, controllerVars, sinkVars
  <1>8. CASE ServicesChange \/ MainStep \/ Cancel \/ UNCHANGED vars
    BY <1>8 DEF ServicesChange, MainStep, Started, StartFails, Stop, StopReturns, Cancel, vars,
                SeenInv, controllerVars, supervisorVars, sinkVars
  <1>9. QED
    BY <1>1, <1>2, <1>3, <1>4, <1>5, <1>6, <1>7, <1>8 DEF Next, ControllerStep, SupervisorStep

\* onSync resets the attempts at the first token of a run; a retry adds one to them.
LEMMA AttemptStep ==
    ASSUME TypeOK, RunInv, SignalInv, SeenInv, AttemptInv, [Next]_vars
    PROVE  AttemptInv'
  <1>1. CASE ControllerStep
    <2>1. UNCHANGED supervisorVars
      BY <1>1, Zenon DEF ControllerStep, List, Watch, Apply, Signal, ReceiveChange, ReceiveBookmark,
                  StreamFails, ControllerCancelled
    <2>2. QED
      BY <2>1 DEF AttemptInv, supervisorVars
  <1>2. CASE StartRun
    BY <1>2 DEF StartRun, AttemptInv
  <1>3. CASE TakeToken
    BY <1>3 DEF TakeToken, AttemptInv
  <1>4. CASE RunDone
    <2>1. supervisor = "running" /\ controller = "done"
      BY <1>4 DEF RunDone
    <2>2. CASE supervisor' # "sleeping"
      BY <1>4, <2>2 DEF RunDone, AttemptInv
    <2>3. CASE supervisor' = "sleeping"
      <3>1. ~cancelled /\ attempt' = (IF ~synced /\ token THEN 0 ELSE attempt) + 1
            /\ barren' = IF syncs.run THEN 1 ELSE barren + 1
        BY <1>4, <2>3 DEF RunDone, IsWatchNormalStop
      <3>2. syncs.run <=> synced \/ token
        BY <2>1, <3>1 DEF SignalInv, SeenInv
      <3>3. attempt = IF synced THEN 0 ELSE barren
        BY <2>1 DEF AttemptInv
      <3>4. QED
        BY <2>3, <3>1, <3>2, <3>3 DEF AttemptInv
    <2>4. QED
      BY <2>2, <2>3
  <1>5. CASE Sleep
    BY <1>5 DEF Sleep, AttemptInv
  <1>6. CASE ServicesChange \/ MainStep \/ Cancel \/ UNCHANGED vars
    BY <1>6 DEF ServicesChange, MainStep, Started, StartFails, Stop, StopReturns, Cancel, vars,
                AttemptInv, supervisorVars
  <1>7. QED
    BY <1>1, <1>2, <1>3, <1>4, <1>5, <1>6 DEF Next, SupervisorStep

\* Where the supervisor and startup decide on a signal, the signal means a result.
LEMMA ReadyStep ==
    ASSUME TypeOK, RunInv, NilInv, SignalInv, SeenInv, ReadyMeansApplied, [Next]_vars
    PROVE  ReadyMeansApplied'
  <1>1. CASE Apply
    BY <1>1, SyncsStep, CancelledStep DEF Apply, RunInv, ReadyMeansApplied, supervisorVars,
                                          mainVars
  <1>2. CASE StartRun
    BY <1>2, SyncsStep, CancelledStep DEF StartRun, ReadyMeansApplied, mainVars
  <1>3. CASE RunDone
    <2>1. /\ UNCHANGED <<main, cancelled, syncs, err>>
          /\ supervisor = "running" /\ controller = "done"
      BY <1>3 DEF RunDone, mainVars
    <2>2. supervisor' = "failed" => ~ready
      BY <1>3 DEF RunDone, MayRetry
    <2>3. supervisor' = "sleeping" => ~cancelled /\ (synced \/ token \/ initialSyncSeen \/ ready)
      BY <1>3 DEF RunDone, MayRetry, IsWatchNormalStop
    <2>4. supervisor' = "failed" => ~syncs.ever
      BY <2>1, <2>2 DEF SeenInv
    <2>5. supervisor' = "sleeping" => syncs.ever
      BY <2>1, <2>3 DEF SignalInv
    <2>6. supervisor' = "stopped" => cancelled \/ err = "deadline"
      BY <1>3, <2>1 DEF RunDone, IsWatchNormalStop, NilInv
    <2>7. QED
      BY <2>1, <2>4, <2>5, <2>6 DEF ReadyMeansApplied
  <1>4. CASE Sleep
    BY <1>4 DEF Sleep, ReadyMeansApplied, controllerVars, sinkVars, mainVars
  <1>5. CASE Started
    BY <1>5 DEF Started, SignalInv, ReadyMeansApplied, controllerVars, supervisorVars,
                sinkVars
  <1>6. CASE StartFails \/ Stop \/ StopReturns \/ Cancel \/ ServicesChange \/ UNCHANGED vars
    BY <1>6 DEF StartFails, Stop, StopReturns, Cancel, ServicesChange, vars, ReadyMeansApplied,
                controllerVars, supervisorVars, sinkVars, mainVars
  <1>7. CASE TakeToken
    BY <1>7 DEF TakeToken, ReadyMeansApplied, controllerVars, mainVars
  <1>8. CASE List \/ Watch \/ Signal \/ ReceiveChange \/ ReceiveBookmark \/ StreamFails
             \/ ControllerCancelled
    <2>1. controller # "idle" /\ supervisor' = supervisor
      BY <1>8 DEF List, Watch, Signal, ReceiveChange, ReceiveBookmark, StreamFails,
                  ControllerCancelled, supervisorVars
    <2>2. UNCHANGED <<syncs, main, cancelled>>
      BY <1>8, Zenon DEF List, Watch, Signal, ReceiveChange, ReceiveBookmark, StreamFails,
                ControllerCancelled, sinkVars, mainVars
    <2>3. QED
      BY <2>1, <2>2 DEF RunInv, ReadyMeansApplied
  <1>9. QED
    BY <1>1, <1>2, <1>3, <1>4, <1>5, <1>6, <1>7, <1>8
       DEF Next, ControllerStep, SupervisorStep, MainStep

-----------------------------------------------------------------------------
(* The theorems.                                                           *)

\* The inductive invariant holds in every reachable state.
THEOREM Invariance == Spec => []IInv
  <1>1. Init => IInv
    <2> SUFFICES ASSUME Init PROVE IInv
      OBVIOUS
    <2>1. TypeOK
      <3>1. syncs \in [ever: BOOLEAN, run: BOOLEAN]
        BY DEF Init
      <3>2. /\ err \in Results /\ initialSyncSeen \in BOOLEAN /\ synced \in BOOLEAN
            /\ ready \in BOOLEAN /\ token \in BOOLEAN /\ cancelled \in BOOLEAN
        BY Zenon DEF Init, Results
      <3>3. /\ controller \in ControllerPlaces /\ supervisor \in SupervisorPlaces
            /\ main \in MainPlaces
        BY DEF Init, ControllerPlaces, SupervisorPlaces, MainPlaces
      <3>4. /\ cluster \in 0..MaxChanges /\ faults \in 0..MaxFaults /\ attempt \in Nat
            /\ services \in 0..MaxChanges /\ applied \in 0..MaxChanges /\ barren \in Nat
        BY WatchAssumption DEF Init
      <3>5. QED
        BY <3>1, <3>2, <3>3, <3>4 DEF TypeOK
    <2>2. /\ RunInv /\ NilInv /\ VersionInv /\ SignalInv /\ SeenInv /\ AttemptInv
          /\ ReadyMeansApplied
      BY DEF Init, RunInv, NilInv, VersionInv, SignalInv, SeenInv, AttemptInv, ReadyMeansApplied
    <2>3. QED
      BY <2>1, <2>2 DEF IInv
  <1>2. IInv /\ [Next]_vars => IInv'
    BY TypeStep, RunStep, NilStep, VersionStep, SignalStep, SeenStep, AttemptStep, ReadyStep
       DEF IInv
  <1>3. QED
    BY <1>1, <1>2, PTL DEF Spec

\* The state of discovery stays of its types, whatever fails and however often.
THEOREM TypeCorrect == Spec => []TypeOK
  <1>1. IInv => TypeOK
    BY DEF IInv
  <1>2. QED
    BY <1>1, Invariance, PTL

\* A failed run is retried only after some result was applied and reported only when
\* none ever was; the watch ends without an error only for a cancellation or for a
\* call that ran into a deadline; and the gateway starts serving only once a result was
\* applied (or is stopping), although what WatchSupervisor and
\* startKubernetesRuntimeDiscovery look at are signals that update sends in any case.
THEOREM ReadyApplied == Spec => []ReadyMeansApplied
  <1>1. IInv => ReadyMeansApplied
    BY DEF IInv
  <1>2. QED
    BY <1>1, Invariance, PTL

\* The attempt the backoff is computed from is the number of failed runs since a run
\* last applied a result, for any number of runs.
THEOREM BackoffExact == Spec => []BackoffCountsFailedRuns
  <1>1. IInv => BackoffCountsFailedRuns
    BY DEF IInv, AttemptInv, BackoffCountsFailedRuns
  <1>2. QED
    BY <1>1, Invariance, PTL

\* No update takes the snapshot back to an older set of Services: a relist is at
\* least as new as everything applied before it.
THEOREM NeverGoesBack == Spec => AppliedNeverGoesBack
  <1>1. IInv /\ [Next]_vars => [applied' >= applied]_vars
    <2> SUFFICES ASSUME IInv, [Next]_vars PROVE applied' >= applied
      OBVIOUS
    <2>1. applied <= applied'
      BY VersionStep DEF IInv
    <2>2. QED
      BY <2>1
  <1>2. QED
    BY <1>1, Invariance, PTL DEF Spec, AppliedNeverGoesBack

=============================================================================
