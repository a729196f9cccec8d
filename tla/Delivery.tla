------------------------------- MODULE Delivery -------------------------------
(***************************************************************************)
(* From a change in the cluster, or a command, to what Octopus Server      *)
(* knows: the goroutine of one target with one application instance, the   *)
(* command handlers and the monitor loops of successive runs, the send     *)
(* queue, its workers, and the server's view.                              *)
(*                                                                         *)
(* The target's operations are atomic here: ClusterState takes them apart. *)
(* A report leaves the target in the hand of whoever asked for it.  Change *)
(* reports and the reports of commands go through the queue, whose workers *)
(* send concurrently; a sweep sends its replacement itself.                *)
(***************************************************************************)
EXTENDS Reporting, Sequences, Bags

CONSTANTS NumWorkers,  \* workers of the send queue (10 in the code)
          Capacity,    \* of updateQueue (100 in the code)
          Commands,    \* what the server may send: [op, ids, orphaned, salt]
          MaxRuns,     \* bound: runs of the watcher
          MaxEvents    \* bound: commands, changes in the cluster, new runs and failures

ASSUME DeliveryAssumption ==
  /\ Capacity \in Nat \ {0} /\ NumWorkers \in Nat \ {0}
  /\ MaxRuns \in Nat \ {0} /\ MaxEvents \in Nat
  /\ Commands \subseteq [op : {"merge", "replace", "delete"}, ids : SUBSET Desirable,
                         orphaned : SUBSET Desirable, salt : {"empty", "salt"}]

ASSUME NoCommandAssumption == None \notin [n : Nat, c : Commands]

Runs == 1 .. MaxRuns

VARIABLES cached,   \* the cluster cache: a manifest of each resource, or None
          pending,  \* net changes queued for the target: was the resource there before
          desired,  \* the instance: "no", "expected" or "orphaned" for each Desirable
          held,     \* the instance: its monitored resources
          salt,     \* the instance: its hash salt, "none" before it is created
          report,   \* the request the target's goroutine is about to queue
          run,      \* the current run
          command,  \* of each run: the command its handler is at, with its number
          reply,    \* of each run: the report its handler has in hand
          sweep,    \* of each run: the replacement its monitor loop is sending
          queue,    \* updateQueue
          sending,  \* the requests the workers are sending, a bag
          server,   \* what the server knows of each resource
          applied,  \* the number of the last command the target applied
          sent,     \* commands the server has sent
          timedOut, \* a run was started before its predecessor had stopped
          events    \* commands, changes in the cluster, new runs and failures so far

instance == <<desired, held, salt>>
handlers == <<command, reply>>
counters == <<applied, sent, timedOut, events>>
vars == <<cached, pending, instance, report, run, handlers, sweep, queue, sending, server, counters>>

Init == /\ cached = [i \in Items |-> Manifest(1)]
        /\ pending = [i \in Items |-> None]
        /\ desired = [i \in Desirable |-> "no"]
        /\ held = [i \in Items |-> NotHeld]
        /\ salt = "none"
        /\ report = None
        /\ run = 1
        /\ command = [r \in Runs |-> None]
        /\ reply = [r \in Runs |-> None]
        /\ sweep = [r \in Runs |-> None]
        /\ queue = <<>>
        /\ sending = EmptyBag
        /\ server = [i \in Items |-> Gone]
        /\ applied = 0 /\ sent = 0 /\ timedOut = FALSE /\ events = 0

Event == events < MaxEvents /\ events' = events + 1

-----------------------------------------------------------------------------
(* The cluster: a resource is created or changed, or deleted.  A target    *)
(* with an instance is interested: the change is folded into the one that  *)
(* waits for it.                                                           *)
Changed(i, new) ==
  /\ Event
  /\ cached' = [cached EXCEPT ![i] = new]
  /\ pending' = [pending EXCEPT ![i] = IF @ # None \/ salt = "none" THEN @ ELSE [old |-> cached[i] # None]]
  /\ UNCHANGED <<instance, report, run, handlers, sweep, queue, sending, server,
                 applied, sent, timedOut>>

Modify(i) == Changed(i, Manifest(IF cached[i] = None \/ cached[i].v = 2 THEN 1 ELSE 2))

Delete(i) == cached[i] # None /\ Changed(i, None)

-----------------------------------------------------------------------------
(* getMonitoredResources of the shared cluster, for the desired resources  *)
(* `want': bad are resources whose manifest cannot be fetched, unsure the  *)
(* ones that the cluster's types or permissions say nothing of.            *)
Found(i, bad) == IF i \in bad THEN None ELSE cached[i]

Scanned(want, s, bad, unsure) ==
  [i \in Items |->
     IF i \in Children
     THEN IF cached[i] # None /\ cached[Parent] # None /\ want[Parent] # "no" /\ Parent \notin unsure
          THEN NewChildMonitoredResource(i, Found(i, bad), s) ELSE NotHeld
     ELSE CASE want[i] = "no" -> NotHeld
            [] want[i] # "no" /\ i \in unsure -> NewUnknownMonitoredResource(want[i])
            [] want[i] # "no" /\ i \notin unsure /\ cached[i] = None ->
                 NewMissingMonitoredResource(want[i])
            [] OTHER -> NewPresentMonitoredResource(i, Found(i, bad), want[i], s)]

(* The objects in the cache after a scan has read them *)
CacheAfter(read, s) ==
  [i \in Items |-> IF i \in read /\ cached[i] # None THEN LeftInCache(i, cached[i], s) ELSE cached[i]]

(* One rescan: nothing goes wrong, or one of its steps does *)
Scan(want, s) ==
  \/ /\ held' = Scanned(want, s, {}, {})
     /\ UNCHANGED events
  \/ /\ Event
     /\ \E i \in Items : \/ held' = Scanned(want, s, {i}, {})
                         \/ held' = Scanned(want, s, {}, {i})

TargetIdle == report = None

(* calculateResourceChange, GetChangesForUpdatedResource *)
ChangeOf(i, old, m) ==
  CASE m # None /\ i \in Desirable /\ desired[i] # "no" /\ held[i].kind \in {"missing", "present"} -> "found"
    [] m # None /\ i \in Children /\ (held[i].kind = "child" \/ held[Parent].kind = "present") -> "child"
    [] m = None /\ old /\ i \in Desirable /\ desired[i] # "no" /\ held[i].kind = "present" -> "removed"
    [] m = None /\ old /\ held[i].kind = "child" -> "deleted"
    [] OTHER -> "nothing"

(* Mutant: only updates are sent. *)
UpdateReport(i, change) ==
  IF change \in {"nothing", "deleted"} THEN None
  ELSE ToUpdateMonitoredResourceRequest([j \in {i} |-> held'[j]])

(* Update: what a change reports.  A child that is gone is deleted explicitly. *)
ChangeReport(i, change) ==
  CASE change = "nothing" -> None
    [] change = "deleted" -> toDeleteRequest({i})
    [] OTHER -> ToUpdateMonitoredResourceRequest([j \in {i} |-> held'[j]])

HeldAfter(i, change, m) ==
  CASE change = "nothing" -> held[i]
    [] change = "found" -> NewPresentMonitoredResource(i, m, desired[i], salt)
    [] change = "child" -> NewChildMonitoredResource(i, m, salt)
    [] change = "removed" -> NewMissingMonitoredResource(desired[i])
    [] change = "deleted" -> NotHeld

(* Cluster.run takes a change: the instance is updated, and the report of  *)
(* the change is for the goroutine itself to queue.                        *)
TakeChange(i) ==
  /\ TargetIdle
  /\ pending[i] # None
  /\ pending' = [pending EXCEPT ![i] = None]
  /\ LET change == ChangeOf(i, pending[i].old, cached[i])
     IN  /\ \/ /\ held' = [held EXCEPT ![i] = HeldAfter(i, change, cached[i])]
               /\ UNCHANGED events
            \/ /\ change \in {"found", "child"}
               /\ Event
               /\ held' = [held EXCEPT ![i] = HeldAfter(i, change, None)]
         /\ cached' = IF change \in {"found", "child"} THEN CacheAfter({i}, salt) ELSE cached
         /\ report' = ChangeReport(i, change)
  /\ UNCHANGED <<desired, salt, run, handlers, sweep, queue, sending, server,
                 applied, sent, timedOut>>

-----------------------------------------------------------------------------
(* Mutant: a handler goes on receiving when its run is over. *)
ReceiveAnyway(r) ==
  /\ r <= run
  /\ command[r] = None /\ reply[r] = None
  /\ Event
  /\ sent' = sent + 1
  /\ \E c \in Commands : command' = [command EXCEPT ![r] = [n |-> sent + 1, c |-> c]]
  /\ UNCHANGED <<cached, pending, instance, report, run, reply, sweep, queue, sending, server,
                 applied, timedOut>>

(* CommandHandler.receive: the handler of the current run takes the next command *)
Receive(r) ==
  /\ r = run
  /\ command[r] = None /\ reply[r] = None
  /\ Event
  /\ sent' = sent + 1
  /\ \E c \in Commands : command' = [command EXCEPT ![r] = [n |-> sent + 1, c |-> c]]
  /\ UNCHANGED <<cached, pending, instance, report, run, reply, sweep, queue, sending, server,
                 applied, timedOut>>

Wanted(c) ==
  [i \in Desirable |->
     CASE i \in c.ids /\ c.op = "delete" -> "no"
       [] i \in c.ids /\ c.op # "delete" -> IF i \in c.orphaned THEN "orphaned" ELSE "expected"
       [] i \notin c.ids /\ c.op = "replace" -> "no"
       [] OTHER -> desired[i]]

(* getOrCreateApplicationInstance: only a new instance takes the salt *)
SaltAfter(c) == IF salt = "none" THEN c.salt ELSE salt

(* What a command reports: a replacement all of it, a merge the incoming   *)
(* resources and the children of the present ones.                         *)
Incoming(c) == c.ids \cup {k \in Children : Parent \in c.ids /\ held'[Parent].kind = "present"}

CommandReport(c) ==
  IF c.op = "replace" THEN ToReplaceMonitoredResourceRequest(held')
  ELSE ToUpdateMonitoredResourceRequest(
         [i \in {j \in Incoming(c) : held'[j].kind # "none"} |-> held'[i]])

(* The target applies a merge or a replacement and scans the cluster *)
Apply(r) ==
  /\ TargetIdle
  /\ command[r] # None
  /\ LET c == command[r].c
     IN  /\ c.op # "delete"
         /\ desired' = Wanted(c)
         /\ salt' = SaltAfter(c)
         /\ Scan(Wanted(c), SaltAfter(c))
         /\ cached' = CacheAfter(Items, SaltAfter(c))
         /\ reply' = [reply EXCEPT ![r] = CommandReport(c)]
  /\ applied' = command[r].n
  /\ command' = [command EXCEPT ![r] = None]
  /\ UNCHANGED <<pending, report, run, sweep, queue, sending, server, sent, timedOut>>

(* The scan fails: what was stored stays, nothing is reported *)
ApplyFails(r) ==
  /\ TargetIdle
  /\ Event
  /\ command[r] # None
  /\ LET c == command[r].c
     IN  /\ c.op # "delete"
         /\ desired' = Wanted(c)
         /\ salt' = SaltAfter(c)
         /\ held' = [i \in Items |->
              IF i \in c.ids /\ (c.op = "replace" \/ held[i].kind = "none")
              THEN NewUnknownMonitoredResource(Wanted(c)[i])
              ELSE IF c.op = "replace" THEN NotHeld ELSE held[i]]
  /\ applied' = command[r].n
  /\ command' = [command EXCEPT ![r] = None]
  /\ UNCHANGED <<cached, pending, report, run, reply, sweep, queue, sending, server,
                 sent, timedOut>>

(* A delete tells the server nothing.  It is asked for with the context of *)
(* the run, and refused once that is over.                                 *)
ApplyDelete(r) ==
  /\ TargetIdle
  /\ command[r] # None
  /\ command[r].c.op = "delete"
  /\ command' = [command EXCEPT ![r] = None]
  /\ \/ /\ desired' = IF salt = "none" THEN desired ELSE Wanted(command[r].c)
        /\ applied' = command[r].n
     \/ /\ r < run
        /\ UNCHANGED <<desired, applied>>
  /\ UNCHANGED <<cached, pending, held, salt, report, run, reply, sweep, queue, sending, server,
                 sent, timedOut, events>>

-----------------------------------------------------------------------------
(* Mutant: the monitor loop is started for the first run only. *)
SweepInFirstRun(r) ==
  /\ r = run /\ r = 1
  /\ TargetIdle
  /\ sweep[r] = None
  /\ salt # "none"
  /\ Scan(desired, salt)
  /\ cached' = CacheAfter(Items, salt)
  /\ sweep' = [sweep EXCEPT ![r] = ToReplaceMonitoredResourceRequest(held')]
  /\ UNCHANGED <<pending, desired, salt, report, run, handlers, queue, sending, server,
                 applied, sent, timedOut>>

(* UpdateMonitoredResources: a sweep rescans the instance and sends a replacement *)
Sweep(r) ==
  /\ r = run
  /\ TargetIdle
  /\ sweep[r] = None
  /\ salt # "none"
  /\ Scan(desired, salt)
  /\ cached' = CacheAfter(Items, salt)
  /\ sweep' = [sweep EXCEPT ![r] = ToReplaceMonitoredResourceRequest(held')]
  /\ UNCHANGED <<pending, desired, salt, report, run, handlers, queue, sending, server,
                 applied, sent, timedOut>>

(* The queue takes a report when it has room *)
Queued(request) == Len(queue) < Capacity /\ queue' = Append(queue, request)

QueueChange == /\ report # None
               /\ Queued(report)
               /\ report' = None
               /\ UNCHANGED <<cached, pending, instance, run, handlers, sweep, sending, server, counters>>

QueueReply(r) == /\ reply[r] # None
                 /\ Queued(reply[r])
                 /\ reply' = [reply EXCEPT ![r] = None]
                 /\ UNCHANGED <<cached, pending, instance, report, run, command, sweep, sending,
                                server, counters>>

(* runWorker: a free worker takes the next request *)
runWorker == /\ BagCardinality(sending) < NumWorkers
             /\ queue # <<>>
             /\ sending' = sending (+) SetToBag({Head(queue)})
             /\ queue' = Tail(queue)
             /\ UNCHANGED <<cached, pending, instance, report, run, handlers, sweep, server, counters>>

(* sendFunc: the request arrives, or fails and is only logged *)
Arrives(request) == server' = Received(server, request) /\ UNCHANGED events
IsLost == Event /\ UNCHANGED server

Send(request) == /\ BagIn(request, sending)
                 /\ Arrives(request) \/ IsLost
                 /\ sending' = sending (-) SetToBag({request})
                 /\ UNCHANGED <<cached, pending, instance, report, run, handlers, sweep, queue,
                                applied, sent, timedOut>>

SendSweep(r) == /\ sweep[r] # None
                /\ Arrives(sweep[r]) \/ IsLost
                /\ sweep' = [sweep EXCEPT ![r] = None]
                /\ UNCHANGED <<cached, pending, instance, report, run, handlers, queue, sending,
                               applied, sent, timedOut>>

(* superviseSubscribers ends a run and starts the next when its goroutines *)
(* have stopped, or when it has waited for them long enough.               *)
Busy(r) == command[r] # None \/ reply[r] # None \/ sweep[r] # None

NextRun == /\ run < MaxRuns /\ Event
           /\ run' = run + 1
           /\ timedOut' = (timedOut \/ Busy(run))
           /\ UNCHANGED <<cached, pending, instance, report, handlers, sweep, queue, sending, server,
                          applied, sent>>

Next == \/ \E i \in Items : Modify(i) \/ Delete(i) \/ TakeChange(i)
        \/ \E r \in Runs : Receive(r) \/ Apply(r) \/ ApplyFails(r) \/ ApplyDelete(r)
                           \/ Sweep(r) \/ QueueReply(r) \/ SendSweep(r)
        \/ QueueChange
        \/ runWorker
        \/ \E request \in BagToSet(sending) : Send(request)
        \/ NextRun

(* Goroutines that can go on do; the monitor loop ticks for ever *)
Fairness == /\ \A i \in Items : WF_vars(TakeChange(i))
            /\ \A r \in Runs : /\ WF_vars(Apply(r)) /\ WF_vars(ApplyDelete(r))
                               /\ WF_vars(QueueReply(r)) /\ WF_vars(SendSweep(r))
                               /\ WF_vars(Sweep(r))
            /\ WF_vars(QueueChange)
            /\ WF_vars(runWorker)
            /\ WF_vars(\E request \in BagToSet(sending) : Send(request))

Spec == Init /\ [][Next]_vars /\ Fairness
-----------------------------------------------------------------------------
Outstanding == ({report} \cup Range(reply) \cup Range(sweep) \cup Range(queue) \cup BagToSet(sending)) \ {None}

Told(i) == toMonitoredResource(held[i])

(* The server knows what the instance holds, or a request is on its way that says it *)
Covered(i) == \/ ~Convertible(held[i])
              \/ server[i] = Told(i)
              \/ \E q \in Outstanding : i \in DOMAIN q.about /\ q.about[i] = Told(i)

(* What leaves the process, and what it keeps to be sent, has every value  *)
(* of a secret hashed, once, and no last-applied annotation, in manifests  *)
(* and in patches (sanitizeManifest, getSyncStatus).                       *)
HashedOnce ==
  \A i \in Items :
    \A e \in {held[i], server[i]} \cup {q.about[i] : q \in {p \in Outstanding : i \in DOMAIN p.about}} :
      e.kind \in {"present", "child"} =>
        \A m \in {e.manifest} \cup (IF e.kind = "present" THEN {e.sync.patch} ELSE {}) :
          m # None => m.hashed = (IF i \in SecretItems THEN 1 ELSE 0) /\ ~m.note

(* Commands take effect in the order the server sent them, unless a run    *)
(* was started while its predecessor was still at work (waitForSubscribers *)
(* timed out).                                                             *)
CommandsInOrder == timedOut \/ applied = sent - Cardinality({r \in Runs : command[r] # None})

IsMerge == \E r \in Runs : command[r] # None /\ command'[r] = None /\ command[r].c.op = "merge"

(* Whatever the instance comes to hold is reported: only a failure, an     *)
(* older request that arrives late, or the rescan of a merge (which        *)
(* reports the incoming resources only) leaves the server with something   *)
(* else and nothing on its way (DefaultMonitoredResourcesUpdater.Update,   *)
(* Replace, UpdateMonitoredResources).                                     *)
NothingForgotten ==
  [][\A i \in Items : Covered(i) /\ ~Covered(i)' =>
       events' # events \/ server'[i] # server[i] \/ IsMerge]_vars

(* However requests failed or overtook each other, and however sweeps of   *)
(* two runs overlapped, the sweeps make the server agree with the cluster  *)
(* once that is quiet (StartResourceMonitorLoop).                          *)
EventuallyAgrees ==
  <>[](salt # "none" => \A i \in Items : server[i] = toMonitoredResource(Scanned(desired, salt, {}, {})[i]))
=============================================================================
