----------------------------- MODULE Goroutines -----------------------------
(***************************************************************************)
(* Who waits for whom: the mailboxes of internal/cluster/mailbox.go and    *)
(* the goroutines that ask through them.  The callers are the streams'     *)
(* subscribers (internal/commands, logs, events) and the monitor loop; the *)
(* owners are ClusterList's registry (cluster_list.go), every target       *)
(* (cluster.go) and the interest index (resource_interests.go), which the  *)
(* cluster cache asks under its lock.  Updates leave through the bounded   *)
(* queue and the workers of internal/watcher/resource_updates.go.          *)
(*                                                                         *)
(* What the operations compute is the matter of ClusterState and           *)
(* ResourceInterests; here they are the places where a goroutine blocks.   *)
(***************************************************************************)
EXTENDS Naturals, SequencesExt

CONSTANTS Targets,    \* the machines Octopus Server sends commands for
          Callers,    \* goroutines that take commands, requests and ticks
          JobsOf,     \* what each of them takes
          QueueSize,  \* capacity of the send queue
          Workers     \* concurrentConnections

Jobs == {"merge", "delete", "sweep"}

ASSUME QueueAssumption == QueueSize \in Nat \ {0} /\ Workers \in Nat \ {0}
ASSUME JobsAssumption == JobsOf \in [Callers -> SUBSET Jobs]
ASSUME NamesAssumption ==
  /\ Targets \cap Callers = {}
  /\ (Targets \cup Callers) \cap {"registry", "index", "cache", "none", "idle", "change", "stopped"} = {}

Owners == Targets \cup {"registry", "index"}
Processes == Callers \cup Targets \cup {"registry", "cache"}

VARIABLES owner,      \* each owner: "none", "idle", "change", "stopped" or whose operation
          queue,      \* each owner's mailbox: who waits to be accepted, first come first
          caller,     \* each caller's job, its place in it and the targets it is for
          todo,       \* the steps a target has left in its operation
          known,      \* clusterRegistry.clusters
          pending,    \* the targets with a change in their queue
          event,      \* the cluster cache's watch event: "idle", "populate", "route"
          lock,       \* the cluster cache's lock: its holder, and who waits for it
          sendQueue,  \* items in the send queue
          busy,       \* workers with a request under way
          stopping    \* the context of the process is done

vars == <<owner, queue, caller, todo, known, pending, event, lock, sendQueue, busy, stopping>>
sendVars == <<sendQueue, busy>>

Idle == [job |-> "none", at |-> "idle", for |-> {}]

Init ==
  /\ owner = [o \in Owners |-> IF o \in Targets THEN "none" ELSE "idle"]
  /\ queue = [o \in Owners |-> <<>>]
  /\ caller = [c \in Callers |-> Idle]
  /\ todo = [t \in Targets |-> <<>>]
  /\ known = {}
  /\ pending = {}
  /\ event = "idle"
  /\ lock = <<>>
  /\ sendQueue = 0
  /\ busy = 0
  /\ stopping = FALSE

-----------------------------------------------------------------------------
(* mailbox: serve and ask *)
Waits(p, o) == p \in Range(queue[o])

Ask(p, o) == queue' = [queue EXCEPT ![o] = Append(@, p)]

(* The wait to be accepted ends: the context or the owner is done. *)
Withdraw(p, o) ==
  \E i \in DOMAIN queue[o] : queue[o][i] = p /\ queue' = [queue EXCEPT ![o] = RemoveAt(@, i)]

(* The operations of the index wait for nobody: p's is accepted and run in *)
(* one step, or, when the process is stopping, perhaps not at all.         *)
AskIndex == owner["index"] = "idle" \/ stopping

(* The operation of the owner is over. *)
Finish(o) == owner' = [owner EXCEPT ![o] = "idle"]

(* Mutant: the operation itself queues the update of a merge. *)
ProgramSending(job) ==
  CASE job = "merge"  -> <<"publish", "sync", "read", "publish", "send">>
    [] job = "delete" -> <<"publish">>
    [] job = "sweep"  -> <<"read", "publish">>

(* What a target does in an operation: mergeDesiredResources and           *)
(* replaceDesiredResources rescan, the deletes only publish, a sweep scans *)
(* on a cache that was synced for it.                                      *)
Program(job) ==
  CASE job = "merge"  -> <<"publish", "sync", "read", "publish">>
    [] job = "delete" -> <<"publish">>
    [] job = "sweep"  -> <<"read", "publish">>

Take(o) ==
  /\ owner[o] = "idle" /\ queue[o] # <<>>
  /\ owner' = [owner EXCEPT ![o] = Head(queue[o])]
  /\ queue' = [queue EXCEPT ![o] = Tail(@)]
  /\ todo' = IF o \in Targets THEN [todo EXCEPT ![o] = Program(caller[Head(queue[o])].job)]
             ELSE todo
  /\ UNCHANGED <<caller, known, pending, event, lock, sendVars, stopping>>

OwnerStops(o) ==
  /\ stopping
  /\ owner[o] = "idle"
  /\ owner' = [owner EXCEPT ![o] = "stopped"]
  /\ UNCHANGED <<queue, caller, todo, known, pending, event, lock, sendVars, stopping>>

(* The deletes ask with the context of their run. *)
Cancellable(c) == caller[c].job = "delete"

At(c, place) ==
  caller' = [caller EXCEPT ![c] = IF place = "idle" THEN Idle ELSE [@ EXCEPT !.at = place]]

(* Mutant: only the caller's own context is watched. *)
RefusedIfCancelled(c) ==
  /\ Cancellable(c)
  /\ \E o \in Owners : Waits(c, o) /\ Withdraw(c, o)
  /\ At(c, "idle")
  /\ UNCHANGED <<owner, todo, known, pending, event, lock, sendVars, stopping>>

(* A caller is told that its operation did not run: a sweep goes on with   *)
(* the next target, everything else ends.                                  *)
Refused(c) ==
  /\ stopping \/ Cancellable(c)
  /\ \E o \in Owners :
       /\ Waits(c, o)
       /\ Withdraw(c, o)
       /\ At(c, IF o \in Targets /\ caller[c].job = "sweep" THEN "next" ELSE "idle")
  /\ UNCHANGED <<owner, todo, known, pending, event, lock, sendVars, stopping>>

-----------------------------------------------------------------------------
(* The callers: the handlers of commands and ApplicationInstanceUpdates.   *)
(* All of them ask the registry first.  A log or event request asks no     *)
(* further, as a delete for a machine that is not known.                   *)
Begin(c) ==
  /\ caller[c].at = "idle"
  /\ ~stopping
  /\ \E job \in JobsOf[c], t \in Targets :
       caller' = [caller EXCEPT ![c] = [job |-> job, at |-> "registry",
                                        for |-> IF job = "sweep" THEN {} ELSE {t}]]
  /\ Ask(c, "registry")
  /\ UNCHANGED <<owner, todo, known, pending, event, lock, sendVars, stopping>>

(* ensure of a machine that is known, GetCluster, the targets of a sweep,  *)
(* which goes on to sync the cluster cache.                                *)
Lookup(c) ==
  /\ owner["registry"] = c
  /\ caller[c].job = "merge" => caller[c].for \subseteq known
  /\ Finish("registry")
  /\ IF caller[c].job = "sweep" /\ known # {}
     THEN /\ caller' = [caller EXCEPT ![c].for = known, ![c].at = "sync"]
          /\ lock' = Append(lock, c)
     ELSE /\ At(c, IF caller[c].job # "sweep" /\ caller[c].for \subseteq known
                   THEN "next" ELSE "idle")
          /\ UNCHANGED lock
  /\ UNCHANGED <<queue, todo, known, pending, event, sendVars, stopping>>

(* ensure of a new machine: connect on the first one, which may fail, then *)
(* newCluster, which subscribes to the index unless the process stops.     *)
Ensure(c) ==
  /\ owner["registry"] = c
  /\ caller[c].job = "merge" /\ ~(caller[c].for \subseteq known)
  /\ \/ /\ owner["index"] = "idle"
        /\ known' = known \cup caller[c].for
        /\ owner' = [o \in Owners |-> IF o \in {"registry"} \cup caller[c].for
                                      THEN "idle" ELSE owner[o]]
        /\ At(c, "next")
     \/ /\ known = {} \/ stopping
        /\ Finish("registry")
        /\ At(c, "idle")
        /\ UNCHANGED known
  /\ UNCHANGED <<queue, todo, pending, event, lock, sendVars, stopping>>

(* The next target of the job is asked; without one the job is done, and   *)
(* so is a merge of nothing.                                               *)
AskTarget(c) ==
  /\ caller[c].at = "next"
  /\ \/ /\ caller[c].for = {} \/ caller[c].job = "merge"
        /\ At(c, "idle") /\ UNCHANGED queue
     \/ \E t \in caller[c].for :
          /\ caller' = [caller EXCEPT ![c].at = "target", ![c].for = @ \ {t}]
          /\ Ask(c, t)
  /\ UNCHANGED <<owner, todo, known, pending, event, lock, sendVars, stopping>>

-----------------------------------------------------------------------------
(* The cluster cache (external).  Its lock is handed on in turn. *)
Holds(p) == lock # <<>> /\ Head(lock) = p

(* EnsureSynced: the cluster is listed under the lock if it has to be,     *)
(* asking the index about every resource; it may fail.                     *)
Sync(p, synced, failed) ==
  /\ Holds(p)
  /\ AskIndex
  /\ lock' = Tail(lock)
  /\ synced \/ failed
  /\ UNCHANGED <<owner, queue, known, pending, event, sendVars, stopping>>

(* The sync of a sweep *)
SweepSync(c) ==
  /\ caller[c].at = "sync"
  /\ Sync(c, At(c, "next"), At(c, "idle"))
  /\ UNCHANGED todo

(* A watch event: handled under the lock, it asks the index twice, once    *)
(* for the resource's info unless it was deleted, once to route it.        *)
EventBegins ==
  /\ event = "idle" /\ ~stopping
  /\ event' \in {"populate", "route"}
  /\ lock' = Append(lock, "cache")
  /\ UNCHANGED <<owner, queue, caller, todo, known, pending, sendVars, stopping>>

(* Without an answer the resource is stored as one nobody wants. *)
populateResourceInfo ==
  /\ event = "populate" /\ Holds("cache")
  /\ AskIndex
  /\ event' = "route"
  /\ UNCHANGED <<owner, queue, caller, todo, known, pending, lock, sendVars, stopping>>

(* Mutant: a change is handed to the target itself. *)
routeToTarget ==
  /\ event = "route" /\ Holds("cache")
  /\ \A t \in known : owner[t] = "idle"
  /\ pending' = pending \cup known
  /\ event' = "idle" /\ lock' = Tail(lock)
  /\ UNCHANGED <<owner, queue, caller, todo, known, sendVars, stopping>>

(* route: the queues of the interested targets accept at once.  Without an *)
(* answer nobody hears of the change.                                      *)
route ==
  /\ event = "route" /\ Holds("cache")
  /\ AskIndex
  /\ \E recipients \in SUBSET known :
       /\ recipients # {} => owner["index"] = "idle"
       /\ pending' = pending \cup recipients
  /\ event' = "idle" /\ lock' = Tail(lock)
  /\ UNCHANGED <<owner, queue, caller, todo, known, sendVars, stopping>>

-----------------------------------------------------------------------------
(* A target's goroutine, Cluster.run *)

(* Mutant: a change is taken only when no command waits. *)
TakeChangeLast(t) ==
  /\ owner[t] = "idle" /\ t \in pending
  /\ queue[t] = <<>>
  /\ owner' = [owner EXCEPT ![t] = "change"]
  /\ pending' = pending \ {t}
  /\ \E steps \in {<<>>, <<"publish", "send">>} : todo' = [todo EXCEPT ![t] = steps]
  /\ UNCHANGED <<queue, caller, known, event, lock, sendVars, stopping>>

(* applyResourceChange publishes if there is anything to tell, and         *)
(* sendResourceChangeUpdates queues it; an update and a deletion that go   *)
(* together are one item here.                                             *)
TakeChange(t) ==
  /\ owner[t] = "idle" /\ t \in pending
  /\ owner' = [owner EXCEPT ![t] = "change"]
  /\ pending' = pending \ {t}
  /\ \E steps \in {<<>>, <<"publish">>, <<"publish", "send">>} :
       todo' = [todo EXCEPT ![t] = steps]
  /\ UNCHANGED <<queue, caller, known, event, lock, sendVars, stopping>>

Doing(t, step) == todo[t] # <<>> /\ Head(todo[t]) = step

StepDone(t) == todo' = [todo EXCEPT ![t] = Tail(@)]

(* The rest of the operation is given up on an error. *)
GiveUp(t) == todo' = [todo EXCEPT ![t] = <<>>]

(* publishInterests: one that is refused is only logged. *)
Publish(t) ==
  /\ Doing(t, "publish")
  /\ AskIndex \/ (owner[t] \in Callers /\ Cancellable(owner[t]))
  /\ StepDone(t)
  /\ UNCHANGED <<owner, queue, caller, known, pending, event, lock, sendVars, stopping>>

(* rescan and getMonitoredResources use the cluster cache. *)
Lock(t) ==
  /\ Doing(t, "sync") \/ Doing(t, "read")
  /\ t \notin Range(lock)
  /\ lock' = Append(lock, t)
  /\ UNCHANGED <<owner, queue, caller, todo, known, pending, event, sendVars, stopping>>

RescanSync(t) ==
  /\ Doing(t, "sync")
  /\ Sync(t, StepDone(t), GiveUp(t))
  /\ UNCHANGED caller

(* A rescan ends when the cache cannot be read. *)
Read(t) ==
  /\ Doing(t, "read") /\ Holds(t)
  /\ lock' = Tail(lock)
  /\ StepDone(t) \/ (caller[owner[t]].job = "merge" /\ GiveUp(t))
  /\ UNCHANGED <<owner, queue, caller, known, pending, event, sendVars, stopping>>

(* The result is handed to the caller: a merge or replace that succeeded   *)
(* may have an update to queue, a sweep sends its updates itself.          *)
Done(t) ==
  /\ owner[t] \in Callers \cup {"change"} /\ todo[t] = <<>>
  /\ Finish(t)
  /\ IF owner[t] = "change" THEN UNCHANGED caller
     ELSE \E place \in CASE caller[owner[t]].job = "merge" -> {"send", "idle"}
                         [] caller[owner[t]].job = "sweep" -> {"rpc", "next"}
                         [] OTHER -> {"idle"} : At(owner[t], place)
  /\ UNCHANGED <<queue, todo, known, pending, event, lock, sendVars, stopping>>

-----------------------------------------------------------------------------
(* DefaultMonitoredResourcesUpdater *)

(* Mutant: the queue's capacity is not looked at. *)
EnqueueAlways == sendQueue' = sendQueue + 1 /\ UNCHANGED busy

Enqueue == sendQueue < QueueSize /\ sendQueue' = sendQueue + 1 /\ UNCHANGED busy

(* A change's update is queued by the target's goroutine, *)
SendChange(t) ==
  /\ Doing(t, "send")
  /\ Enqueue
  /\ StepDone(t)
  /\ UNCHANGED <<owner, queue, caller, known, pending, event, lock, stopping>>

(* a command's by the subscriber that handles it. *)
SendCommand(c) ==
  /\ caller[c].at = "send"
  /\ Enqueue
  /\ At(c, "idle")
  /\ UNCHANGED <<owner, queue, todo, known, pending, event, lock, stopping>>

runWorker ==
  /\ sendQueue > 0 /\ busy < Workers
  /\ sendQueue' = sendQueue - 1
  /\ busy' = busy + 1
  /\ UNCHANGED <<owner, queue, caller, todo, known, pending, event, lock, stopping>>

(* Octopus Server answers a worker, or the monitor loop. *)
Answer ==
  /\ busy > 0
  /\ busy' = busy - 1
  /\ UNCHANGED <<owner, queue, caller, todo, known, pending, event, lock, sendQueue, stopping>>

AnswerSweep(c) ==
  /\ caller[c].at = "rpc"
  /\ At(c, "next")
  /\ UNCHANGED <<owner, queue, todo, known, pending, event, lock, sendVars, stopping>>

Stop ==
  /\ ~stopping
  /\ stopping' = TRUE
  /\ UNCHANGED <<owner, queue, caller, todo, known, pending, event, lock, sendVars>>

-----------------------------------------------------------------------------
CallerStep(c) ==
  \/ Refused(c) \/ AskTarget(c) \/ SweepSync(c) \/ SendCommand(c)

RegistryStep(c) == Lookup(c) \/ Ensure(c)

CacheStep == populateResourceInfo \/ route

TargetStep(t) ==
  \/ Publish(t) \/ Lock(t) \/ RescanSync(t) \/ Read(t)
  \/ SendChange(t) \/ Done(t)

Next ==
  \/ \E o \in Owners : OwnerStops(o) \/ Take(o)
  \/ \E c \in Callers : Begin(c) \/ CallerStep(c) \/ RegistryStep(c) \/ AnswerSweep(c)
  \/ EventBegins \/ CacheStep
  \/ \E t \in Targets : TakeChange(t) \/ TargetStep(t)
  \/ runWorker \/ Answer \/ Stop

Spec == Init /\ [][Next]_vars

(* A goroutine that can go on does.  Select, which picks any of the cases  *)
(* that are ready, takes neither commands nor changes alone for ever, and  *)
(* the senders that wait for room in the send queue are served in turn.    *)
(* Nothing is assumed of Octopus Server, the cluster or the callers' work. *)
FairSpec ==
  /\ Spec
  /\ WF_vars(Take("registry"))
  /\ \A t \in Targets : SF_vars(Take(t)) /\ SF_vars(TakeChange(t)) /\ SF_vars(SendChange(t))
  /\ \A t \in Targets : WF_vars(TargetStep(t))
  /\ \A c \in Callers : WF_vars(CallerStep(c)) /\ WF_vars(RegistryStep(c))
  /\ \A c \in Callers : SF_vars(SendCommand(c))
  /\ WF_vars(CacheStep)
  /\ WF_vars(runWorker)

ServerAnswers == WF_vars(Answer) /\ \A c \in Callers : WF_vars(AnswerSweep(c))

-----------------------------------------------------------------------------
GTypeOK ==
  /\ owner \in [Owners -> Processes \cup {"none", "idle", "change", "stopped"}]
  /\ \A o \in Owners : queue[o] \in Seq(Processes) /\ IsInjective(queue[o])
  /\ caller \in [Callers -> [job : Jobs \cup {"none"}, for : SUBSET Targets,
                             at : {"idle", "registry", "next", "target", "sync", "send", "rpc"}]]
  /\ \A t \in Targets : todo[t] \in Seq({"publish", "sync", "read", "send"})
  /\ known \subseteq Targets /\ pending \subseteq known
  /\ event \in {"idle", "populate", "route"}
  /\ lock \in Seq(Processes) /\ IsInjective(lock)
  /\ sendQueue \in 0..QueueSize /\ busy \in 0..Workers
  /\ stopping \in BOOLEAN

(* resource_changes.go:23-25, resource_interests.go:56-57, 73-74: a watch  *)
(* event is handled under the cluster cache's lock, and is handled to its  *)
(* end even if Octopus Server never answers again, the send queue is full  *)
(* and the targets are stuck behind it.                                    *)
CacheNeverStalls == event # "idle" ~> event = "idle"

(* mailbox.go:33-34: an operation that a target has accepted runs to its   *)
(* end, whether or not Octopus Server answers and the process is stopping. *)
AcceptedRuns ==
  \A t \in Targets : owner[t] \in Callers ~> owner[t] \notin Callers

(* command_handler.go:116, cluster_list.go:113-156: as long as Octopus     *)
(* Server answers, no command, request or sweep hangs: not behind a full   *)
(* send queue, not behind each other, and not when the process stops.      *)
JobsReturn ==
  ServerAnswers => \A c \in Callers : caller[c].at # "idle" ~> caller[c].at = "idle"

(* cluster.go:108-115: commands and sweeps do not keep a target from its   *)
(* queued changes.                                                         *)
ChangesServed ==
  ServerAnswers => \A t \in Targets : t \in pending ~> (t \notin pending \/ stopping)
==============================================================================
