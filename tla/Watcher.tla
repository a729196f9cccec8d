------------------------------- MODULE Watcher -------------------------------
(***************************************************************************)
(* Watcher.Start and superviseSubscribers of internal/watcher/watcher.go,  *)
(* with run.Run of pkg/run/run.go that waits for them: the subscribers are *)
(* stopped while Octopus Server does not answer and started again when it  *)
(* does.  The health check (octopus-grpc, external) is modelled from how   *)
(* the watcher uses it: transitions on a channel of two, one fatal error.  *)
(***************************************************************************)
EXTENDS Subscribers, Sequences

CONSTANT EventBuffer  \* the capacity of HealthCheck.Events()

ASSUME EventBufferAssumption == EventBuffer \in Nat \ {0}

VARIABLES supervisor,  \* where Start, then superviseSubscribers is
          run,         \* the current run
          starting,    \* the streams startSubscribers has yet to subscribe to
          startErr,    \* some stream was rejected
          events,      \* the transitions in HealthCheck.Events()
          serverUp,    \* what the health check believes
          flaps,       \* how often the server went down, bounded by MaxRuns
          fatal        \* the health check gave up: "no", "raised", "taken"

subVars == <<sub, forwarder, raised, loop>>
healthVars == <<events, serverUp, flaps, fatal>>
vars == <<subVars, runVars, supervisor, run, starting, startErr, healthVars>>

WInit ==
  /\ Init
  /\ supervisor = "start"
  /\ run = 0
  /\ starting = {}
  /\ startErr = FALSE
  /\ events = <<>>
  /\ serverUp \in BOOLEAN
  /\ flaps = 0
  /\ fatal = "no"

cancelRun ==
  /\ cancelled' = cancelled \cup {run}
  /\ forwarder' = WithoutForwarders({run})
  /\ UNCHANGED <<sub, raised, loop, ctxDone>>

-----------------------------------------------------------------------------
(* startSubscribers *)
StartLoop ==
  /\ exit = "no"
  /\ supervisor = "start"
  /\ run < MaxRuns
  /\ run' = run + 1
  /\ loop' = [loop EXCEPT ![run + 1] = "ticking"]
  /\ starting' = Handlers
  /\ startErr' = FALSE
  /\ supervisor' = "subscribe"
  /\ UNCHANGED <<sub, forwarder, raised, runVars, healthVars>>

(* Mutant: nobody listens to the handler's errors. *)
SubscribeUnheard(h) ==
  /\ exit = "no"
  /\ supervisor = "subscribe"
  /\ h \in starting
  /\ starting' = starting \ {h}
  /\ sub' = [sub EXCEPT ![<<h, run>>] = "receiving"]
  /\ UNCHANGED <<forwarder, raised, loop, runVars, supervisor, run, startErr, healthVars>>

(* SubscribeToConfigurationUpdates, ...LogRequests, ...EventRequests *)
Subscribe(h) ==
  /\ exit = "no"
  /\ supervisor = "subscribe"
  /\ h \in starting
  /\ starting' = starting \ {h}
  /\ forwarder' = [forwarder EXCEPT ![<<h, run>>] = IF ctxDone THEN "gone" ELSE "waiting"]
  /\ \/ ~ctxDone /\ sub' = [sub EXCEPT ![<<h, run>>] = "receiving"] /\ UNCHANGED startErr
     \/ startErr' = TRUE /\ UNCHANGED sub
  /\ UNCHANGED <<raised, loop, runVars, supervisor, run, healthVars>>

(* The first start is Start's own: its failure is returned to run.Run, and *)
(* without a health check nobody supervises the run.                       *)
Started ==
  /\ exit = "no"
  /\ supervisor = "subscribe" /\ starting = {} /\ ~startErr
  /\ supervisor' \in (IF run = 1 THEN {"select", "off"} ELSE {"select"})
  /\ UNCHANGED <<subVars, runVars, run, starting, startErr, healthVars>>

StartRejected ==
  /\ exit = "no"
  /\ supervisor = "subscribe" /\ starting = {} /\ startErr
  /\ cancelRun
  /\ IF run = 1 THEN exit' = "start" /\ UNCHANGED supervisor
     ELSE supervisor' = "report" /\ UNCHANGED exit
  /\ UNCHANGED <<run, starting, startErr, healthVars>>

-----------------------------------------------------------------------------
(* superviseSubscribers *)
Selecting == exit = "no" /\ supervisor = "select"

SupervisorDone ==
  /\ Selecting /\ ctxDone
  /\ cancelRun
  /\ supervisor' = "done"
  /\ UNCHANGED <<exit, run, starting, startErr, healthVars>>

FatalError ==
  /\ Selecting /\ fatal = "raised"
  /\ fatal' = "taken"
  /\ cancelRun
  /\ supervisor' = "report"
  /\ UNCHANGED <<exit, run, starting, startErr, events, serverUp, flaps>>

TransitionUp ==
  /\ Selecting /\ events # <<>> /\ Head(events) = "Up"
  /\ events' = Tail(events)
  /\ UNCHANGED <<subVars, runVars, supervisor, run, starting, startErr, serverUp, flaps, fatal>>

(* Mutant: the run that is replaced is not cancelled. *)
TransitionDownLeavingTheRun ==
  /\ Selecting /\ events # <<>> /\ Head(events) = "Down"
  /\ events' = Tail(events)
  /\ supervisor' = "wait"
  /\ UNCHANGED <<subVars, runVars, run, starting, startErr, serverUp, flaps, fatal>>

TransitionDown ==
  /\ Selecting /\ events # <<>> /\ Head(events) = "Down"
  /\ events' = Tail(events)
  /\ cancelRun
  /\ supervisor' = "wait"
  /\ UNCHANGED <<exit, run, starting, startErr, serverUp, flaps, fatal>>

(* waitForSubscribers: they stop, or subscriberStopTimeout passes *)
Waited == supervisor' = "recover" /\ UNCHANGED <<subVars, runVars, run, starting, startErr, healthVars>>

SubscribersStopped == exit = "no" /\ supervisor = "wait" /\ AllStopped /\ Waited

(* Mutant: the wait has no timeout. *)
WaitForEver == SubscribersStopped

TimedOut == exit = "no" /\ supervisor = "wait" /\ ~AllStopped /\ Waited

(* AwaitRecovery reads transitions until the server is up, the health      *)
(* check gives up or the process is to end.                                *)
AwaitRecovery ==
  /\ exit = "no" /\ supervisor = "recover"
  /\ \/ /\ events # <<>>
        /\ events' = Tail(events)
        /\ supervisor' = IF Head(events) = "Up" THEN "start" ELSE "recover"
        /\ UNCHANGED fatal
     \/ /\ fatal = "raised"
        /\ fatal' = "taken"
        /\ supervisor' = "report"
        /\ UNCHANGED events
     \/ /\ ctxDone
        /\ supervisor' = "report"
        /\ UNCHANGED <<events, fatal>>
  /\ UNCHANGED <<subVars, runVars, run, starting, startErr, serverUp, flaps>>

(* report, from the supervisor, with the context of the process *)
SupervisorReports ==
  /\ exit = "no" /\ supervisor = "report"
  /\ supervisor' = "done"
  /\ exit' = "health" \/ (ctxDone /\ UNCHANGED exit)
  /\ UNCHANGED <<subVars, cancelled, ctxDone, run, starting, startErr, healthVars>>

SupervisorStep ==
  \/ StartLoop \/ (\E h \in Handlers : Subscribe(h)) \/ Started \/ StartRejected
  \/ SupervisorDone \/ FatalError \/ TransitionUp \/ TransitionDown
  \/ SubscribersStopped \/ TimedOut \/ AwaitRecovery \/ SupervisorReports

-----------------------------------------------------------------------------
(* run.Run waits for its context or ErrorCh once Start has returned. *)
MainWaits == exit = "no" /\ (run > 1 \/ supervisor \notin {"start", "subscribe"})

(* The health check: a full channel holds it up.  It may begin by taking   *)
(* the server for up, or report it up with its first good probe, which the *)
(* supervisor passes over.                                                 *)
HealthChecked == MainWaits /\ supervisor # "off" /\ fatal = "no"

Transition(event) ==
  /\ HealthChecked
  /\ Len(events) < EventBuffer
  /\ events' = Append(events, event)
  /\ serverUp' = (event = "Up")
  /\ UNCHANGED <<subVars, runVars, supervisor, run, starting, startErr, fatal>>

GoesDown ==
  /\ serverUp /\ flaps < MaxRuns
  /\ flaps' = flaps + 1
  /\ Transition("Down")

ComesUp ==
  /\ ~serverUp /\ flaps < MaxRuns
  /\ Transition("Up")
  /\ UNCHANGED flaps

GivesUp ==
  /\ HealthChecked /\ ~serverUp
  /\ fatal' = "raised"
  /\ UNCHANGED <<subVars, runVars, supervisor, run, starting, startErr, events, serverUp, flaps>>

(* A signal ends the context of the process. *)
Shutdown ==
  /\ exit = "no" /\ ~ctxDone
  /\ ctxDone' = TRUE
  /\ forwarder' = WithoutForwarders(Runs)
  /\ UNCHANGED <<sub, raised, loop, cancelled, exit, supervisor, run, starting, startErr, healthVars>>

MainDone ==
  /\ MainWaits /\ ctxDone
  /\ exit' = "shutdown"
  /\ UNCHANGED <<subVars, cancelled, ctxDone, supervisor, run, starting, startErr, healthVars>>

Subscribing(h, r) ==
  /\ SubscriberStep(h, r)
  /\ exit' = exit \/ MainWaits
  /\ UNCHANGED <<supervisor, run, starting, startErr, healthVars>>

Monitoring(r) ==
  LoopStep(r) /\ UNCHANGED <<supervisor, run, starting, startErr, healthVars>>

Next ==
  \/ SupervisorStep
  \/ \E h \in Handlers, r \in Runs : Subscribing(h, r)
  \/ \E r \in Runs : Monitoring(r)
  \/ GoesDown \/ ComesUp \/ GivesUp
  \/ Shutdown \/ MainDone

Spec == WInit /\ [][Next]_vars

(* What a goroutine does on its own, once it can: it leaves a backoff, a   *)
(* Connect and a handler, hears of the end of its run, and hands its error *)
(* over.  Messages, stream errors, ticks and health are up to the world.   *)
Proceeds(h, r) ==
  \/ HandleMessage(h, r) \/ (RunOver(r) /\ RecvErr(h, r))
  \/ WaitedFor(h, r) \/ WaitCutShort(h, r)
  \/ Reconnected(h, r) \/ ReconnectFailed(h, r)
  \/ Forward(h, r) \/ ReportedFailure(h, r) \/ ReportDropped(h, r)

FairSpec ==
  /\ Spec
  /\ WF_vars(SupervisorStep)
  /\ WF_vars(FatalError) /\ WF_vars(MainDone)
  /\ \A h \in Handlers, r \in Runs : WF_vars(Subscribing(h, r) /\ Proceeds(h, r))

-----------------------------------------------------------------------------
WTypeOK ==
  /\ sub \in [Handlers \X Runs -> {"none", "receiving", "handling", "backoff", "connecting",
                                  "reporting", "stopped", "ended"}]
  /\ forwarder \in [Handlers \X Runs -> {"none", "waiting", "reporting", "gone"}]
  /\ raised \in [Handlers \X Runs -> {"none", "fresh", "late"}]
  /\ loop \in [Runs -> {"none", "ticking", "sweeping", "stopped"}]
  /\ cancelled \subseteq Runs
  /\ ctxDone \in BOOLEAN /\ startErr \in BOOLEAN /\ serverUp \in BOOLEAN
  /\ exit \in {"no", "shutdown", "start", "health", "fresh", "late"}
  /\ supervisor \in {"start", "subscribe", "select", "off", "wait", "recover", "report", "done"}
  /\ run \in 0..MaxRuns /\ flaps \in 0..MaxRuns
  /\ starting \subseteq Handlers
  /\ events \in Seq({"Up", "Down"}) /\ Len(events) <= EventBuffer
  /\ fatal \in {"no", "raised", "taken"}
  /\ \A p \in Handlers \X Runs : sub[p] # "none" => forwarder[p] # "none"

(* watcher.go:159-207: however often health flaps and starts are rejected, *)
(* a run goes on only while it is the newest and the supervisor starts it  *)
(* or listens for what should end it; every other one has been told to     *)
(* stop.  (It may not have stopped: after waitForSubscribers times out it  *)
(* can still be handling a message beside its successor.)                  *)
NoRunUnsupervised ==
  \A r \in 1..run : r \in cancelled \/ (r = run /\ supervisor \in {"subscribe", "select", "off"})

(* watcher.go:262-263: an error that a subscriber meets only because its   *)
(* run is over is never what ends the process.                             *)
FreshFailuresOnly == exit # "late"

(* watcher.go:249-260, grpc_utilities.go:79-115: when a subscriber meets   *)
(* an error it cannot recover from, the process ends, unless the run ends  *)
(* first: no stream is silently left without its subscriber.               *)
Failing(h, r) == raised[<<h, r>>] = "fresh"

FailureEndsRun ==
  \A h \in Handlers, r \in Runs : Failing(h, r) ~> (exit # "no" \/ RunOver(r))

(* watcher.go:156-158, 171-196: once the health check has given up, the    *)
(* process ends so that the pod is restarted, whatever its subscribers do. *)
GivingUpEndsProcess == fatal = "raised" ~> exit # "no"

(* watcher.go:36-38: a stopped run's subscribers can be waited for: once   *)
(* the run is cancelled, they stop.                                        *)
CancelledStop ==
  \A h \in Handlers, r \in Runs :
    r \in cancelled ~> (exit # "no" \/ sub[<<h, r>>] \in {"none", "stopped", "ended"})
==============================================================================
