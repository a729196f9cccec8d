----------------------------- MODULE Subscribers -----------------------------
(***************************************************************************)
(* The goroutines that serve one run of the watcher: for each stream the   *)
(* subscriber of internal/commands, internal/logs or internal/events, with *)
(* the error handling of internal/communication, and the forwarder that    *)
(* internal/watcher/watcher.go starts for its errors; and the resource     *)
(* monitor loop.  Runs overlap: a new one starts while goroutines of the   *)
(* last may still be on their way down.                                    *)
(*                                                                         *)
(* The retry counter only sets the length of a backoff and is left out.    *)
(***************************************************************************)
EXTENDS Naturals

CONSTANTS Handlers,  \* the streams: commands, logs, events
          Senders,   \* the streams whose handler also sends
          MaxRuns    \* bound: runs of the subscribers

ASSUME SendersAssumption == Senders \subseteq Handlers
ASSUME MaxRunsAssumption == MaxRuns \in Nat \ {0}

Runs == 1..MaxRuns

VARIABLES sub,        \* the subscriber of each stream and run
          forwarder,  \* the goroutine of forwardErrors
          raised,     \* history: was the run live when its error came up?
          loop,       \* the resource monitor loop of each run
          cancelled,  \* the runs whose context was cancelled
          ctxDone,    \* the context of the process is done
          exit        \* "no", or what ended run.Run; a failure by its freshness

runVars == <<cancelled, ctxDone, exit>>

(* A run's context is a child of the process's. *)
RunOver(r) == r \in cancelled \/ ctxDone

Init ==
  /\ sub = [p \in Handlers \X Runs |-> "none"]
  /\ forwarder = [p \in Handlers \X Runs |-> "none"]
  /\ raised = [p \in Handlers \X Runs |-> "none"]
  /\ loop = [r \in Runs |-> "none"]
  /\ cancelled = {}
  /\ ctxDone = FALSE
  /\ exit = "no"

Step(h, r, from, to) ==
  /\ exit = "no"
  /\ sub[<<h, r>>] = from
  /\ sub' = [sub EXCEPT ![<<h, r>>] = to]

-----------------------------------------------------------------------------
(* receive, processRequest *)
RecvMessage(h, r) ==
  /\ Step(h, r, "receiving", "handling")
  /\ ~RunOver(r)
  /\ UNCHANGED <<forwarder, raised, loop, runVars>>

HandleMessage(h, r) ==
  /\ Step(h, r, "handling", "receiving")
  /\ UNCHANGED <<forwarder, raised, loop, runVars>>

(* An error is put on ErrCh: the subscriber waits for its forwarder. *)
Raise(h, r) ==
  raised' = [raised EXCEPT ![<<h, r>>] = IF RunOver(r) THEN "late" ELSE "fresh"]

(* HandleStreamRecvErr, HandleStreamSendErr *)
StreamErr(h, r, from) ==
  \/ /\ RunOver(r)
     /\ Step(h, r, from, "stopped")
     /\ UNCHANGED <<forwarder, raised, loop, runVars>>
  \/ /\ ~RunOver(r)
     /\ Step(h, r, from, "backoff") \/ Step(h, r, from, "ended")
     /\ UNCHANGED <<forwarder, raised, loop, runVars>>
  \/ /\ ~RunOver(r)
     /\ Step(h, r, from, "reporting")
     /\ Raise(h, r)
     /\ UNCHANGED <<forwarder, loop, runVars>>

RecvErr(h, r) == StreamErr(h, r, "receiving")

SendErr(h, r) == h \in Senders /\ StreamErr(h, r, "handling")

(* RestartSubscriber: WaitFor *)
WaitedFor(h, r) ==
  /\ Step(h, r, "backoff", "connecting")
  /\ UNCHANGED <<forwarder, raised, loop, runVars>>

WaitCutShort(h, r) ==
  /\ RunOver(r)
  /\ Step(h, r, "backoff", "stopped")
  /\ UNCHANGED <<forwarder, raised, loop, runVars>>

(* RestartSubscriber: Connect *)
Reconnected(h, r) ==
  /\ ~RunOver(r)
  /\ Step(h, r, "connecting", "receiving")
  /\ UNCHANGED <<forwarder, raised, loop, runVars>>

(* Mutant: a failed reconnect ends the subscriber without a word. *)
ReconnectGivesUp(h, r) ==
  /\ Step(h, r, "connecting", "ended")
  /\ Raise(h, r)
  /\ UNCHANGED <<forwarder, loop, runVars>>

ReconnectFailed(h, r) ==
  /\ Step(h, r, "connecting", "reporting")
  /\ Raise(h, r)
  /\ UNCHANGED <<forwarder, loop, runVars>>

-----------------------------------------------------------------------------
(* forwardErrors: the send on ErrCh meets the forwarder's receive. *)
Forward(h, r) ==
  /\ forwarder[<<h, r>>] = "waiting"
  /\ Step(h, r, "reporting", "stopped")
  /\ forwarder' = [forwarder EXCEPT ![<<h, r>>] = "reporting"]
  /\ UNCHANGED <<raised, loop, runVars>>

(* report: the send on the watcher's ErrorCh meets run.Run, or the run is  *)
(* over.                                                                   *)
ReportedFailure(h, r) ==
  /\ exit = "no"
  /\ forwarder[<<h, r>>] = "reporting"
  /\ forwarder' = [forwarder EXCEPT ![<<h, r>>] = "gone"]
  /\ exit' = raised[<<h, r>>]
  /\ UNCHANGED <<sub, raised, loop, cancelled, ctxDone>>

ReportDropped(h, r) ==
  /\ exit = "no"
  /\ forwarder[<<h, r>>] = "reporting"
  /\ RunOver(r)
  /\ forwarder' = [forwarder EXCEPT ![<<h, r>>] = "gone"]
  /\ UNCHANGED <<sub, raised, loop, runVars>>

(* Mutant: the forwarders do not end with their run. *)
WithoutForwardersSpared(runs) == forwarder

(* A cancelled context wakes the forwarders that wait on it. *)
WithoutForwarders(runs) ==
  [p \in Handlers \X Runs |->
     IF p[2] \in runs /\ forwarder[p] = "waiting" THEN "gone" ELSE forwarder[p]]

-----------------------------------------------------------------------------
(* StartResourceMonitorLoop: a tick and the end of the run can be ready at *)
(* once, and a sweep takes no notice of the end.                           *)
Tick(r) ==
  /\ exit = "no"
  /\ loop[r] = "ticking"
  /\ loop' = [loop EXCEPT ![r] = "sweeping"]
  /\ UNCHANGED <<sub, forwarder, raised, runVars>>

UpdateMonitoredResources(r) ==
  /\ exit = "no"
  /\ loop[r] = "sweeping"
  /\ loop' = [loop EXCEPT ![r] = "ticking"]
  /\ UNCHANGED <<sub, forwarder, raised, runVars>>

LoopStops(r) ==
  /\ exit = "no"
  /\ loop[r] = "ticking"
  /\ RunOver(r)
  /\ loop' = [loop EXCEPT ![r] = "stopped"]
  /\ UNCHANGED <<sub, forwarder, raised, runVars>>

-----------------------------------------------------------------------------
SubscriberStep(h, r) ==
  \/ RecvMessage(h, r) \/ HandleMessage(h, r)
  \/ RecvErr(h, r) \/ SendErr(h, r)
  \/ WaitedFor(h, r) \/ WaitCutShort(h, r)
  \/ Reconnected(h, r) \/ ReconnectFailed(h, r)
  \/ Forward(h, r) \/ ReportedFailure(h, r) \/ ReportDropped(h, r)

LoopStep(r) == Tick(r) \/ UpdateMonitoredResources(r) \/ LoopStops(r)

(* WaitGroup.Wait returns: no subscriber of any run is left. *)
AllStopped ==
  /\ \A p \in Handlers \X Runs : sub[p] \in {"none", "stopped", "ended"}
  /\ \A r \in Runs : loop[r] \in {"none", "stopped"}
==============================================================================
