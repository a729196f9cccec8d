---------------------------- MODULE WatcherProofs ----------------------------
(***************************************************************************)
(* However health flaps and streams fail, and for any number of streams    *)
(* and of runs: a run that nobody supervises has been told to stop, and an *)
(* error that only the end of its run caused does not end the process.     *)
(***************************************************************************)
EXTENDS Watcher, SequenceTheorems, TLAPS

(* A run that is being started has not been told to stop yet. *)
CurrentRun ==
  /\ cancelled \subseteq 1..run
  /\ supervisor # "start" => run >= 1
  /\ supervisor = "subscribe" /\ exit = "no" => run \notin cancelled

(* A forwarder waits only as long as its run goes on, an error is late only *)
(* if its run is over, and what a forwarder hands on was fresh.            *)
Freshness ==
  \A p \in Handlers \X Runs :
    /\ forwarder[p] = "waiting" => ~RunOver(p[2])
    /\ raised[p] = "late" => RunOver(p[2])
    /\ sub[p] = "reporting" => raised[p] # "none"
    /\ forwarder[p] = "reporting" => raised[p] = "fresh" /\ sub[p] = "stopped"

(* The inductive invariant. *)
WInv == WTypeOK /\ CurrentRun /\ NoRunUnsupervised /\ Freshness /\ FreshFailuresOnly

LEMMA WInvInit == WInit => WInv
  <1> SUFFICES ASSUME WInit PROVE WInv
    OBVIOUS
  <1> USE DEF WInit, Init
  <1>1. WTypeOK
    <2>1. events \in Seq({"Up", "Down"}) /\ Len(events) <= EventBuffer
      BY EventBufferAssumption
    <2>2. run \in 0..MaxRuns /\ flaps \in 0..MaxRuns
      BY MaxRunsAssumption
    <2>3. QED
      BY <2>1, <2>2 DEF WTypeOK
  <1>2. CurrentRun /\ NoRunUnsupervised
    BY DEF CurrentRun, NoRunUnsupervised
  <1>3. Freshness /\ FreshFailuresOnly
    BY DEF Freshness, FreshFailuresOnly, RunOver
  <1>4. QED
    BY <1>1, <1>2, <1>3 DEF WInv

(* Ending a run's context ends the forwarders that wait on it              *)
(* (watcher.go:249-260).                                                   *)
LEMMA CancelRunKeepsFreshness ==
  ASSUME WTypeOK, Freshness, run \in Runs, cancelRun
  PROVE  Freshness' /\ forwarder' \in [Handlers \X Runs -> {"none", "waiting", "reporting", "gone"}]
         /\ \A p \in Handlers \X Runs : sub'[p] # "none" => forwarder'[p] # "none"
  BY DEF cancelRun, WithoutForwarders, Freshness, RunOver, WTypeOK

(* HealthCheck.Events() is a channel of transitions within its capacity. *)
TransitionsIn(s) == s \in Seq({"Up", "Down"}) /\ Len(s) <= EventBuffer

LEMMA TransitionTaken ==
  ASSUME NEW s, TransitionsIn(s), s # <<>>
  PROVE  TransitionsIn(Tail(s))
  BY EventBufferAssumption DEF TransitionsIn

LEMMA TransitionSent ==
  ASSUME NEW s, TransitionsIn(s), Len(s) < EventBuffer, NEW e \in {"Up", "Down"}
  PROVE  TransitionsIn(Append(s, e))
  BY EventBufferAssumption DEF TransitionsIn

LEMMA EventsType == WTypeOK => TransitionsIn(events)
  BY DEF WTypeOK, TransitionsIn

(* The steps of a subscriber and its forwarder                             *)
(* (grpc_utilities.go:79-115, watcher.go:249-271).                         *)
LEMMA SubscriberKeepsInv ==
  ASSUME WInv, NEW h \in Handlers, NEW r \in Runs, Subscribing(h, r)
  PROVE  WInv'
  <1> USE DEF WInv
  <1> DEFINE p == <<h, r>>
  <1>0. p \in Handlers \X Runs /\ p[2] = r
    OBVIOUS
  <1>1. UNCHANGED <<supervisor, run, starting, startErr, healthVars, cancelled, ctxDone, loop>>
    BY DEF Subscribing, SubscriberStep, RecvMessage, HandleMessage, RecvErr, SendErr, StreamErr,
           WaitedFor, WaitCutShort, Reconnected, ReconnectFailed, Forward, ReportedFailure,
           ReportDropped, runVars
  <1>2. ASSUME NEW from, NEW to \in {"receiving", "handling", "backoff", "connecting", "stopped", "ended"},
               from \in {"receiving", "handling", "backoff", "connecting"},
               Step(h, r, from, to), UNCHANGED <<forwarder, raised, exit>>
        PROVE  WInv'
    <2>1. WTypeOK'
      BY <1>0, <1>1, <1>2 DEF Step, WTypeOK, healthVars
    <2>2. CurrentRun' /\ NoRunUnsupervised' /\ FreshFailuresOnly'
      BY <1>1, <1>2 DEF CurrentRun, NoRunUnsupervised, FreshFailuresOnly
    <2>3. Freshness'
      BY <1>0, <1>1, <1>2 DEF Step, WTypeOK, Freshness, RunOver
    <2>4. QED
      BY <2>1, <2>2, <2>3
  <1>3. ASSUME NEW from \in {"receiving", "handling", "connecting"},
               Step(h, r, from, "reporting"), Raise(h, r), UNCHANGED <<forwarder, exit>>
        PROVE  WInv'
    <2>1. WTypeOK'
      BY <1>0, <1>1, <1>3 DEF Step, Raise, WTypeOK, healthVars
    <2>2. CurrentRun' /\ NoRunUnsupervised' /\ FreshFailuresOnly'
      BY <1>1, <1>3 DEF CurrentRun, NoRunUnsupervised, FreshFailuresOnly
    <2>3. Freshness'
      BY <1>0, <1>1, <1>3 DEF Step, Raise, WTypeOK, Freshness, RunOver
    <2>4. QED
      BY <2>1, <2>2, <2>3
  <1>4. CASE RecvMessage(h, r) \/ HandleMessage(h, r) \/ WaitedFor(h, r) \/ WaitCutShort(h, r)
             \/ Reconnected(h, r)
    BY <1>2, <1>4 DEF RecvMessage, HandleMessage, WaitedFor, WaitCutShort, Reconnected, runVars
  <1>5. CASE RecvErr(h, r) \/ SendErr(h, r)
    BY <1>2, <1>3, <1>5 DEF RecvErr, SendErr, StreamErr, runVars
  <1>6. CASE ReconnectFailed(h, r)
    BY <1>3, <1>6 DEF ReconnectFailed, runVars
  <1>7. CASE Forward(h, r)
    <2>1. WTypeOK'
      BY <1>0, <1>1, <1>7 DEF Forward, Step, WTypeOK, healthVars, runVars
    <2>4. Freshness'
      BY <1>0, <1>1, <1>7 DEF Forward, Step, WTypeOK, Freshness, RunOver, runVars
    <2>2. CurrentRun' /\ NoRunUnsupervised' /\ FreshFailuresOnly'
      BY <1>1, <1>7 DEF Forward, CurrentRun, NoRunUnsupervised, FreshFailuresOnly, runVars
    <2>3. QED
      BY <2>1, <2>2, <2>4
  <1>8. CASE ReportedFailure(h, r)
    BY <1>0, <1>1, <1>8 DEF ReportedFailure, WTypeOK, CurrentRun, NoRunUnsupervised, Freshness, FreshFailuresOnly,
           RunOver, healthVars
  <1>9. CASE ReportDropped(h, r)
    BY <1>0, <1>1, <1>9 DEF ReportDropped, WTypeOK, CurrentRun, NoRunUnsupervised, Freshness, FreshFailuresOnly,
           RunOver, healthVars, runVars
  <1>10. QED
    BY <1>4, <1>5, <1>6, <1>7, <1>8, <1>9 DEF Subscribing, SubscriberStep

(* Starting a run (watcher.go:205-247): the one before it is cancelled.    *)
LEMMA StartKeepsInv ==
  ASSUME WInv, StartLoop \/ (\E h \in Handlers : Subscribe(h)) \/ Started \/ StartRejected
  PROVE  WInv'
  <1> USE MaxRunsAssumption DEF WInv
  <1>1. CASE StartLoop
    <2>1. run' \in 0..MaxRuns /\ run' = run + 1 /\ run \in Nat
      BY <1>1 DEF StartLoop, WTypeOK
    <2>2. WTypeOK'
      BY <1>1, <2>1 DEF StartLoop, WTypeOK, Runs, runVars, healthVars
    <2>3. CurrentRun' /\ NoRunUnsupervised' /\ FreshFailuresOnly'
      BY <1>1, <2>1 DEF StartLoop, CurrentRun, NoRunUnsupervised, FreshFailuresOnly, runVars
    <2>4. Freshness'
      BY <1>1 DEF StartLoop, Freshness, RunOver, runVars
    <2>5. QED
      BY <2>2, <2>3, <2>4
  <1>2. ASSUME NEW h \in Handlers, Subscribe(h)
        PROVE  WInv'
    <2>1. run \in Runs /\ <<h, run>> \in Handlers \X Runs
      BY <1>2 DEF Subscribe, WTypeOK, CurrentRun, Runs
    <2>2. UNCHANGED <<raised, loop, runVars, supervisor, run, healthVars>>
      BY <1>2 DEF Subscribe
    <2>3. CurrentRun' /\ NoRunUnsupervised' /\ FreshFailuresOnly'
      BY <2>2 DEF CurrentRun, NoRunUnsupervised, FreshFailuresOnly, runVars
    <2>4. WTypeOK'
      <3>1. CASE ~ctxDone /\ sub' = [sub EXCEPT ![<<h, run>>] = "receiving"] /\ UNCHANGED startErr
        BY <1>2, <2>1, <2>2, <3>1 DEF Subscribe, WTypeOK, runVars, healthVars
      <3>2. CASE startErr' = TRUE /\ UNCHANGED sub
        BY <1>2, <2>1, <2>2, <3>2 DEF Subscribe, WTypeOK, runVars, healthVars
      <3>3. QED
        BY <1>2, <3>1, <3>2 DEF Subscribe
    <2>5. Freshness'
      BY <1>2, <2>1, <2>2 DEF Subscribe, WTypeOK, CurrentRun, Freshness, RunOver, runVars
    <2>6. QED
      BY <2>3, <2>4, <2>5
  <1>3. CASE Started
    BY <1>3 DEF Started, WTypeOK, CurrentRun, NoRunUnsupervised, Freshness, FreshFailuresOnly, RunOver,
                subVars, runVars, healthVars
  <1>4. CASE StartRejected
    <2>1. run \in Runs
      BY <1>4 DEF StartRejected, WTypeOK, CurrentRun, Runs
    <2>2. cancelRun
      BY <1>4 DEF StartRejected
    <2>3. Freshness' /\ WTypeOK'
      BY <1>4, <2>1, <2>2, CancelRunKeepsFreshness DEF StartRejected, cancelRun, WTypeOK, healthVars
    <2>4. CurrentRun' /\ NoRunUnsupervised' /\ FreshFailuresOnly'
      BY <1>4, <2>1 DEF StartRejected, cancelRun, WTypeOK, CurrentRun, NoRunUnsupervised, FreshFailuresOnly, Runs
    <2>5. QED
      BY <2>3, <2>4
  <1>5. QED
    BY <1>1, <1>2, <1>3, <1>4

(* superviseSubscribers (watcher.go:160-203): what replaces or ends a run  *)
(* cancels it first.                                                       *)
LEMMA SuperviseKeepsInv ==
  ASSUME WInv, \/ SupervisorDone \/ FatalError \/ TransitionUp \/ TransitionDown
               \/ SubscribersStopped \/ TimedOut \/ AwaitRecovery \/ SupervisorReports
  PROVE  WInv'
  <1> USE DEF WInv
  <1>1. CASE SupervisorDone \/ FatalError \/ TransitionDown
    <2>1. run \in Runs /\ cancelRun
      BY <1>1 DEF SupervisorDone, FatalError, TransitionDown, Selecting, WTypeOK, CurrentRun, Runs
    <2>2. TransitionsIn(events')
      BY <1>1, EventsType, TransitionTaken DEF SupervisorDone, FatalError, TransitionDown, healthVars
    <2>3. Freshness' /\ WTypeOK'
      <3>1. Freshness'
        BY <2>1, CancelRunKeepsFreshness
      <3>2. WTypeOK'
        BY <1>1, <2>1, <2>2, CancelRunKeepsFreshness
        DEF SupervisorDone, FatalError, TransitionDown, cancelRun, WTypeOK, TransitionsIn, healthVars
      <3>3. QED
        BY <3>1, <3>2
    <2>4. CurrentRun' /\ NoRunUnsupervised' /\ FreshFailuresOnly'
      BY <1>1, <2>1 DEF SupervisorDone, FatalError, TransitionDown, cancelRun, Selecting, WTypeOK,
                        CurrentRun, NoRunUnsupervised, FreshFailuresOnly, Runs
    <2>5. QED
      BY <2>3, <2>4
  <1>2. CASE TransitionUp \/ SubscribersStopped \/ TimedOut \/ AwaitRecovery
    <2>1. TransitionsIn(events')
      BY <1>2, EventsType, TransitionTaken
      DEF TransitionUp, SubscribersStopped, TimedOut, Waited, AwaitRecovery, healthVars
    <2>2. WTypeOK'
      BY <1>2, <2>1 DEF TransitionUp, SubscribersStopped, TimedOut, Waited, AwaitRecovery,
                        WTypeOK, TransitionsIn, subVars, runVars, healthVars
    <2>3. CurrentRun' /\ NoRunUnsupervised' /\ FreshFailuresOnly'
      BY <1>2 DEF TransitionUp, SubscribersStopped, TimedOut, Waited, AwaitRecovery, Selecting,
                  CurrentRun, NoRunUnsupervised, FreshFailuresOnly, runVars
    <2>4. Freshness'
      BY <1>2 DEF TransitionUp, SubscribersStopped, TimedOut, Waited, AwaitRecovery, Freshness, RunOver,
                  subVars, runVars
    <2>5. QED
      BY <2>2, <2>3, <2>4
  <1>3. CASE SupervisorReports
    BY <1>3 DEF SupervisorReports, WTypeOK, CurrentRun, NoRunUnsupervised, Freshness, FreshFailuresOnly, RunOver,
                subVars, healthVars
  <1>4. QED
    BY <1>1, <1>2, <1>3

(* The health check, the end of the process and the monitor loop. *)
LEMMA OthersKeepInv ==
  ASSUME WInv, \/ GoesDown \/ ComesUp \/ GivesUp \/ Shutdown \/ MainDone
               \/ (\E r \in Runs : Monitoring(r))
  PROVE  WInv'
  <1> USE DEF WInv
  <1>1. CASE GoesDown \/ ComesUp
    <2>0. flaps' \in 0..MaxRuns
      BY <1>1, MaxRunsAssumption DEF GoesDown, ComesUp, WTypeOK
    <2>1. TransitionsIn(events')
      BY <1>1, EventsType, TransitionSent DEF GoesDown, ComesUp, Transition
    <2>2. serverUp' \in BOOLEAN
      BY <1>1 DEF GoesDown, ComesUp, Transition
    <2>3. WTypeOK'
      BY <1>1, <2>0, <2>1, <2>2 DEF GoesDown, ComesUp, Transition, WTypeOK, TransitionsIn, subVars, runVars
    <2>4. CurrentRun' /\ NoRunUnsupervised' /\ FreshFailuresOnly'
      BY <1>1 DEF GoesDown, ComesUp, Transition, CurrentRun, NoRunUnsupervised, FreshFailuresOnly, runVars
    <2>5. Freshness'
      BY <1>1 DEF GoesDown, ComesUp, Transition, Freshness, RunOver, subVars, runVars
    <2>6. QED
      BY <2>3, <2>4, <2>5
  <1>2. CASE GivesUp \/ MainDone
    <2>1. WTypeOK'
      BY <1>2 DEF GivesUp, MainDone, WTypeOK, subVars, runVars, healthVars
    <2>2. CurrentRun' /\ NoRunUnsupervised' /\ FreshFailuresOnly'
      BY <1>2 DEF GivesUp, MainDone, MainWaits, CurrentRun, NoRunUnsupervised, FreshFailuresOnly, runVars
    <2>3. Freshness'
      BY <1>2 DEF GivesUp, MainDone, Freshness, RunOver, subVars, runVars
    <2>4. QED
      BY <2>1, <2>2, <2>3
  <1>3. CASE Shutdown
    <2>1. WTypeOK'
      BY <1>3 DEF Shutdown, WithoutForwarders, WTypeOK, healthVars
    <2>2. CurrentRun' /\ NoRunUnsupervised' /\ FreshFailuresOnly'
      BY <1>3 DEF Shutdown, CurrentRun, NoRunUnsupervised, FreshFailuresOnly
    <2>3. Freshness'
      BY <1>3 DEF Shutdown, WithoutForwarders, Freshness, RunOver
    <2>4. QED
      BY <2>1, <2>2, <2>3
  <1>4. CASE \E r \in Runs : Monitoring(r)
    <2>1. PICK r \in Runs : LoopStep(r) /\ UNCHANGED <<supervisor, run, starting, startErr, healthVars>>
      BY <1>4 DEF Monitoring
    <2>2. UNCHANGED <<sub, forwarder, raised, cancelled, ctxDone, exit>>
      BY <2>1 DEF LoopStep, Tick, UpdateMonitoredResources, LoopStops, runVars
    <2>3. loop' \in [Runs -> {"none", "ticking", "sweeping", "stopped"}]
      BY <2>1 DEF LoopStep, Tick, UpdateMonitoredResources, LoopStops, WTypeOK
    <2>4. WTypeOK'
      BY <2>1, <2>2, <2>3 DEF WTypeOK, healthVars
    <2>5. CurrentRun' /\ NoRunUnsupervised' /\ FreshFailuresOnly'
      BY <2>1, <2>2 DEF CurrentRun, NoRunUnsupervised, FreshFailuresOnly
    <2>6. Freshness'
      BY <2>2 DEF Freshness, RunOver
    <2>7. QED
      BY <2>4, <2>5, <2>6
  <1>5. QED
    BY <1>1, <1>2, <1>3, <1>4

LEMMA WInvStep == WInv /\ [Next]_vars => WInv'
  <1> SUFFICES ASSUME WInv, [Next]_vars PROVE WInv'
    OBVIOUS
  <1>1. CASE SupervisorStep
    BY <1>1, StartKeepsInv, SuperviseKeepsInv DEF SupervisorStep
  <1>2. CASE \E h \in Handlers, r \in Runs : Subscribing(h, r)
    BY <1>2, SubscriberKeepsInv
  <1>3. CASE \/ GoesDown \/ ComesUp \/ GivesUp \/ Shutdown \/ MainDone
             \/ (\E r \in Runs : Monitoring(r))
    BY <1>3, OthersKeepInv
  <1>4. CASE UNCHANGED vars
    BY <1>4 DEF vars, subVars, runVars, healthVars, WInv, WTypeOK, CurrentRun, NoRunUnsupervised, Freshness,
                FreshFailuresOnly, RunOver
  <1>5. QED
    BY <1>1, <1>2, <1>3, <1>4 DEF Next

LEMMA WInvHolds == Spec => []WInv
  BY WInvInit, WInvStep, PTL DEF Spec

(* The watcher, its subscribers and the health check keep their types, and *)
(* every subscriber has somebody to hear its errors (watcher.go:205-247).  *)
THEOREM WatcherTypeCorrect == Spec => []WTypeOK
  BY WInvHolds, PTL DEF WInv

(* In whatever order health flaps, starts are rejected and subscribers     *)
(* fail, a run that the supervisor does not start or listen for has been   *)
(* told to stop (watcher.go:159-207).                                      *)
THEOREM RunsAreSupervised == Spec => []NoRunUnsupervised
  BY WInvHolds, PTL DEF WInv

(* A process never ends with an error that came up because its run was     *)
(* over (watcher.go:249-271).                                              *)
THEOREM OnlyFreshFailuresEndIt == Spec => []FreshFailuresOnly
  BY WInvHolds, PTL DEF WInv
==============================================================================
