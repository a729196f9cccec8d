# TLA+ specification of the Octopus Kubernetes monitor

The monitor runs in a Kubernetes cluster. Octopus Server tells it over gRPC which
resources a deployment put there (*desired* resources, grouped in application
instances, grouped in targets); the monitor watches the cluster through the
gitops-engine cluster cache and tells the server what became of them (*monitored*
resources: present, missing, unknown, and the children of present ones).

This directory holds the specification of the parts where several goroutines, the
cluster and the server meet: what a target holds of the cluster, how changes reach it,
how the streams to the server are kept alive, who waits for whom, what the server is told
and when, how an installation registers and keeps its credentials, and what permissions
make of a scan.

Source paths are relative to `src/`; line numbers in the comments of the modules refer to
the file they name. `PROJECT.json` maps every definition to the lines it models.

## 1. Inventory

| Component | State | Operations | Interacts with |
|---|---|---|---|
| Change queue (`internal/cluster/resource_changes.go`) | `order`, `queued` | accept and fold, hand over, stop | fed by the index under the cache's lock; read by its target |
| Interest index (`resource_interests.go`) | `keysByTarget`, `targetsByResource`, subscribers | subscribe, set, populateResourceInfo, route | asked by targets and, under its lock, by the cluster cache |
| Application instance (`application_instance.go`, `desired_resource.go`, `references.go`, `*_monitored_resource.go`) | desired, present, child, missing, unknown, tracked keys | merge, replace, two deletes, rescan, change of one resource | only its target's goroutine touches it |
| Target (`cluster.go`, `cluster_state.go`) | the instances | commands, sweep, applying a queued change, publishing interests | mailbox, change queue, index, shared cluster, updater |
| Shared cluster (`shared_cluster.go`, `cache.go`) | connection, discovery cache, gitops-engine cache | connect, sync, discovery, getMonitoredResources, logs, events | every target, the log and event handlers |
| Permission filter (`permission_filter.go`) | the allowed types, a cached discovery | build, refresh, ask | shared cluster, cluster cache |
| Log buffer and parsing (`buffer.go`, `cluster.go`) | a ring of bytes | write, read back, split | log handler |
| Cluster list (`cluster_list.go`) | the targets by machine, the shared cluster | ensure, get, sweep all | command handlers, monitor loop |
| Mailbox (`mailbox.go`) | who waits to be accepted | serve, ask | registry, targets, index |
| Stream subscribers (`internal/commands`, `logs`, `events`, `communication`) | the stream, a retry counter | connect, receive, handle, back off, reconnect, report | watcher (error channel), cluster list |
| Watcher (`internal/watcher/watcher.go`, `resource_monitor_loop.go`, `pkg/run/run.go`) | the current run, its context | start, supervise, stop, restart, shut down | health check (octopus-grpc), subscribers |
| Update delivery (`internal/watcher/resource_updates.go`, `internal/protos/*_mappers.go`) | a queue of 100 items, workers | update, replace, convert, send | targets, command handlers, server |
| Command handlers (`internal/commands/desired_resources_handlers.go`) | none | merge, replace, delete | cluster list, updater |
| Reports (`*_monitored_resource.go`, `sync_status.go`, `sanitize_manifest.go`, `internal/crypto`, `internal/health`) | none | sanitize and hash, sync status, health | instances, mappers |
| Configuration (`internal/config`) | `secret.json`, `config.json`, a Kubernetes secret | read, write secrets, write config | both commands |
| Registration (`cmd`, `pkg/register`, `internal/octopusdeploy`) | the configuration of a process | register, store, run | Octopus Server's REST API, configuration |
| Certificates, flags, logging, profiling, generated protobuf code | see section 7 | | |

What is hard here:

* **Scans race changes.** A target reads the cluster in several steps while the cluster
  changes, and applies queued changes later that may be older or newer than the scan.
* **Interest is indirect.** A change reaches a target only if its key, or an owner's, was
  published; publishing, inheriting and withdrawing interleave with events.
* **Keys change.** Discovery decides whether a kind is namespaced, and so changes the key a
  desired resource is filed, looked up and published under.
* **Partial failure.** A command is stored before its rescan, which can fail in three places.
* **Runs overlap.** A health transition cancels a run; its goroutines are waited for with a
  timeout, then the next run starts anyway.
* **Delivery.** Reports leave a target's goroutine before they are queued, ten workers send
  them at once, a sweep bypasses the queue, and a failed request is only logged.
* **Crashes while registering.** The server issues a token before the process stores it, a
  file is truncated before it is filled, and a file that cannot be read counts as none.
* **Permissions are read piecemeal.** A scan asks the filter twice and the cache's types more
  than once, while a loop refreshes the filter and the cache learns of types late.
* **Waiting.** The cache asks the index under its lock; the targets use the cache and ask
  the index; the updates wait for room in a bounded queue without watching a context.

The properties that make each component correct are listed with the runs in section 4, and
`hazards` in `PROJECT.json` ties each hazard to a line and to the properties that would
catch it.

## 2. Modules

| Module | Models | Composed from |
|---|---|---|
| `Resources` | cache resources and changes | |
| `NetChanges` | the contract of the change queue: unfolded backlog, net change | `Resources` |
| `ChangeQueue` | the queue's goroutine | `Resources` |
| `QueuedChanges` | the queue between a changing cache and a busy target; refines `NetChanges` | both |
| `InterestRelation` | the contract of the index: one relation | |
| `ResourceInterests` | the index with its two maps, and the cache that calls it; refines `InterestRelation` | |
| `ApplicationInstance` | the methods of an instance, as operators from instance to instance | `Resources` |
| `ClusterState` | one target with its queue, its interests, the cache and the cluster | `ApplicationInstance`, `ChangeQueue` |
| `Subscribers` | the goroutines of one run: streams, error forwarders, monitor loop | |
| `Watcher` | the supervisor, the health check, `run.Run` | `Subscribers` |
| `Goroutines` | mailboxes, lock, send queue: who waits for whom | |
| `Reporting` | what is told about a resource: sanitized manifest, sync status, requests | |
| `Delivery` | one target's reports, the command handlers and sweeps of successive runs, send queue, workers, the server's view | `Reporting` |
| `ConfigStore` | the file, Kubernetes and read-only stores | |
| `Registration` | the register and root commands, the API client, crashes and restarts | `ConfigStore` |
| `PermissionFilter` | which types the rules of a review let through | |
| `ContainerLogs` | ring buffer and log parsing, and the reference they are checked against | |
| `SharedCluster` | connection, refresh loop, the verdicts of a scan, logs and events | `PermissionFilter`, `ContainerLogs` |
| `ChangeQueueProofs`, `ResourceInterestsProofs`, `ClusterStateProofs`, `WatcherProofs`, `GoroutinesProofs`, `RegistrationProofs`, `DeliveryProofs`, `SharedClusterProofs` | theorems about the module each is named after | that module |
| `MC*` | the instances TLC checks | |

### State and actions against the code

**ChangeQueue.** `order` and `queued` are the fields of the same name. `Accept` is the body
of `case change := <-q.in` (`Fold` with its `continue`, `Enqueue` without), `HandOver` is
`case out <- next`. The channels are unbuffered, so a send is one step of both sides.

**ResourceInterests.** One action per operation of the index's mailbox. The cache calls
`populateResourceInfo` and then `route` for one event; other operations can fall in between,
so `populated` remembers the resource in flight. `StoreListed` is a first sync, which
populates without routing. `routeStopped` is the end of the context between two sends.

**ApplicationInstance.** Each Go method is an operator of the same name. A monitored
resource is its key, its UID and its owner's UID: that is all `calculateResourceChange`,
`GetParentResourceId` and `getRootParentResource` look at. Manifests, health and sync status
are dropped, and the constructors of monitored resources do not fail. The order in which Go
ranges over a map is a choice where it matters (two desired resources that resolve to one
key).

**ClusterState.** `op` is where the target's goroutine is in a command or sweep. A merge or
replace is `BeginMerge`/`BeginReplace` (store, first publish), `SyncFails` or `StartScan` (the
live objects are read), `FinishScan` (the hierarchy is walked, the result is stored, the
update is made), `ScanFails`. A sweep is `BeginSweep`, a scan for each instance, and
`FinishPublish`. Between any two of these the cluster may change (`Created`, `Touched`,
`Deleted`), and each change that somebody's interest covers goes to the queue in the same
step, as it does under the cache's lock. `ApplyResourceChange` takes one queued change,
applies it to every instance and publishes if anything changed. Discovery answers are chosen
from `Discoveries` each time the code asks. `WantedElsewhere` are the interests of other
targets, which decide about inheritance. `settled` and `missed` are history variables: which
instances have not been edited since their last complete scan, and, for each instance, which
keys changed unheard since its last complete scan while an older change of them was queued.

**Subscribers, Watcher.** `sub[h, r]` is the goroutine of stream `h` in run `r`, from
receiving through backoff and reconnecting to reporting and stopped; `forwarder[h, r]` is the
goroutine of `forwardErrors`. `raised` is history: was the run live when the error arose.
The supervisor is `Start` followed by `superviseSubscribers`, one action for each case of its
select and each outcome of `waitForSubscribers`. The health check is external: it sends
transitions on a channel of capacity two and raises one fatal error. A forwarder that was
spawned counts as waiting. The retry counter only sets the length of a backoff and is left
out.

**Goroutines.** `queue[o]` is the mailbox of owner `o`, `owner[o]` what the owner is doing,
`todo[t]` the steps a target has left in an operation in which it can block: ask the index,
wait for the cache's lock, wait for room in the send queue. `lock` is the cache's lock with
its waiters. The operations of the index wait for nobody (`ChangeQueue` accepts at any time),
so asking it is one step. An update and the deletion that goes with it are one item.

**Reporting, Delivery.** A manifest is a version (1 is what was deployed), how often its
secret values were hashed, and whether it has the last-applied annotation. The constructors
and mappers are operators of the same names; what cannot be converted (no manifest) is left
out of a request, as the mappers log and skip it. `Delivery` takes the target's operations as
atomic, since `ClusterState` takes them apart, and looks at what happens to their results:
`TakeChange` and `QueueChange` are the two halves of a change in `Cluster.run`; `Receive`,
`Apply` (or `ApplyFails`, `ApplyDelete`) and `QueueReply` are a command in the handler of its
run; `Sweep` and `SendSweep` are one application in `UpdateMonitoredResources`. `runWorker`
takes a request from the queue and `Send` delivers or loses it; the requests being sent are a
bag, so that they arrive in any order. `NextRun` is a restart of the subscribers, which does
not wait for a busy predecessor for ever (`timedOut`). The server (external) overwrites what
it knows of the resources a request is about.

**ConfigStore, Registration.** `secretFile` has its entries by tag and, from an older version,
by field name; `Read` is the set of configurations a read may resolve to. A process goes
through `phase`: `Start`, `AlreadyRegistered` or `Register`, `FindMachine`, `Post`, the steps of
`WriteSecrets` (`WriteSecretsChmod`, `-Truncate`, `-Fill`, or `CreateSecret`, `UpdateSecret`),
`WriteConfig`, `Done`. Between any two the process may crash; requests are refused or lose
their answer; reads and writes fail; and the process is started again with either command. A
failed read of a `secret.json` that is there (`ReadInConfigFails`) leaves a process with what flags
and environment say (`c.read` is FALSE), the settings of the server's API among them, and both
commands go on with it. The token of the server's n-th answer is n, and replaces those issued
for the same id; `unseen` is history, the answers given to processes that had not read the file.

**SharedCluster, PermissionFilter, ContainerLogs.** `discovered` is the memory cache of the
filter's discovery client, filled once by `newSharedCluster`. `startRefreshLoop` builds a set
from it and the current rules, `Swap` stores it. `sync` fills the cluster cache, which from then
on has its own list of types (`listed`, read by `GetAPIResources`) and watches those it may
(`watched`); both follow the cluster late (`CacheLists`, `CacheFollows`). A scan is `StartScan`,
`ReadFilter` for each resource, `ReadFilterAgain` for those let through, `ReadLive` or `ReadFails`,
`FinishScan`. `StartScan` takes the answer of discovery (asked anew by a sweep, from the memory
cache `remembered` in between, or failed), resolves namespaces with it, and decides on type,
namespace and scope. A desired resource says whether its version is the one that discovery prefers,
since namespaces are looked up by type and version while types are known without version, and
whether it came with a manifest, since one without is not looked for. Desired resources are
given from the start: the resolution at their arrival (`ClusterState` has it) and that of the
first scan are one. `live`, `served`, `review`, `listed` and `watched` belong to the cluster and its
cache (external). A target that the cache does not hold may be fetched from the API server by it.
`ProcessLogRequest` and `ProcessEventRequest` compute a whole answer: they share only the
connection with the rest.

## 3. Bounds

Every bound is a constant, and each is as small as the case it has to admit:

* `MaxBacklog` 3: a change, a fold, and a fold into a folded change.
* `MaxBirths` 2 per resource: a resource that is deleted and created again has another UID,
  which is what stale owners and overridden scans need. Three levels of owners are checked
  with one incarnation each (`sweeps_repair`).
* `MaxTouches` 1: an update that leaves the UID alone, so that two changes of one child fall
  between two sweeps.
* `MaxCommands` 3 with one application (a merge, an edit, and a command on the result), 2
  with two applications. Sweeps are not bounded.
* `MaxRuns` 2 runs and 2 outages: an old run overlaps the current one; a third adds only a
  second old one. `EventBuffer` 2 is the capacity in the code. One stream that also sends
  covers the paths of the other two.
* `QueueSize` 1 and `Workers` 1 instead of 100 and 10: the queue is full after one item,
  which is what the properties are about. One target, the command subscriber and the monitor
  loop compete for it.
* `delivery`: a Secret and its child, three commands (a merge, a replacement that orphans the
  Secret and brings an empty salt, a delete), a queue of one, two workers, two runs. `MaxEvents`
  4 bounds what happens to the system: commands, changes, failures and lost requests, a
  restart. Two versions of a manifest toggle. Steps of the monitor itself are not bounded. Two
  workers and a sweep are enough for three requests to arrive in any order.
* `registration`: `MaxAttempts` 2 instead of 10, `MaxFaults` 4: a failed lookup, a lost answer,
  a crash while storing and one more. `MaxRegistrations` is above what the faults can cause in
  a store that can be written; a read-only one registers until the bound, after which the
  server refuses.
* `shared_cluster`: a built-in type and one of a CRD, which may be there from the start; five
  desired resources (one out of scope, one without a manifest, one of a version that is not
  preferred), three sets of rights, two events: a resource that is created and one thing that
  happens to it, its type, its rights or its scan. The buffer has 6 bytes and the shortest line
  asked for 3, so that logs of up to three lines fill it, wrap, and lose a line to `TailLines`.
  Requests come before the events of a behaviour and use them up, because they share no
  state with them.
* `MCResourceInterests`: two targets, three resources in an owner chain, one of which may
  name no owner.

Symmetry is used for application ids in `discovery_outages` only, which checks invariants.
Deadlock is not checked where the process may stop, where the bounds end the behaviour, or
where the cluster may stay quiet; that is every run but `registration`, whose process is
always started again.

## 4. Runs

| Run | Properties | What it shows |
|---|---|---|
| `change_queue` | `InsertionOrderedMap`, `QueuedIsNetChange`, `NeverOvertaken`, `DeliversNetChanges` | The folded queue is the net change of what waits, in order of first change, and every change is delivered: the queue implements `NetChanges`. |
| `resource_interests` | `MapsAgree`, `NothingUnwantedTracked`, `IsARelation` | The two maps never disagree or leak, and answers and recipients are those of one relation. |
| `scans_and_changes` | `PresentXorMissing`, `Accurate` | A scan that races the cluster, plus the changes queued meanwhile, leaves the instance holding the newest state of what it desires and of the children it knows. |
| `discovery_outages` | `DesiredUnderItsKey`, `AccountedFor`, `InterestCovered` | Two applications, a kind that moves to another key, failing discovery, sync, scan and permissions. |
| `sweeps_repair` | `Converges` | Three levels of owners, the middle one wanted by another target so that inheritance skips it: sweeps repair whatever was missed. |
| `watcher_runs` | `NoRunUnsupervised`, `FreshFailuresOnly`, `FailureEndsRun`, `GivingUpEndsProcess` | Health flaps, restarts, failing streams, shutdown: every run but the one being started or listened for has been told to stop, and failures end the process when they should. |
| `goroutines` | `CacheNeverStalls`, `AcceptedRuns`, `JobsReturn`, `ChangesServed` | A watch event is handled even if the server never answers; an accepted operation ends likewise; while the server answers no command, sweep or change waits for ever. |
| `registration` | `StoredIsIssued`, `OneInstallation`, `SecretsPrivate`, `RegistersOnce`, `EventuallyStored` | Every store, every start, killed and refused at every step: what can be read back is one answer of the server and its newest; once it is stored nothing but a process that fails to read `secret.json` registers again; a writable store has credentials in the end. |
| `delivery` | `HashedOnce`, `CommandsInOrder`, `NothingForgotten`, `EventuallyAgrees` | Reports that overtake each other and get lost, sweeps and commands of overlapping runs: the server agrees with the cluster in the end, and what it is not told is due to a failure, a late request or a merge's rescan. |
| `shared_cluster` | `NoFalseMissing`, `RequestsAnswered`, `ReportsSettle` | Rights, types and resources change during refreshes and scans, and the cache follows late: what exists is reported missing for three reasons only, and reports settle on what is there and readable. Every log of up to three lines is answered with its last lines. |
| `owner_search`, `cancelled_subscribers` | one each | see section 5 |

The runs of `ChangeQueue`, `ResourceInterests`, `ClusterState`, `Watcher`, `Goroutines`,
`Registration` and `SharedCluster` also check a type invariant. Every property of a passing run has a mutant in
`PROJECT.json`: a variant of one definition, next to it in the module, under which TLC finds
the property violated.

`Accurate` has one exception, stated in its comment: a resource that changed unheard, before
it was desired, while an older change of it was still queued; the old change then overrides
the scan. It also says nothing of a child that the instance does not know; those are what
sweeps are for, and `Converges` covers them.

### Fairness

* `QueuedChanges`: weak fairness of `Out`. `Cluster.run` comes back to its select, and
  select does not pass over a ready case for ever.
* `ClusterState`: weak fairness of beginning a sweep (the ticker) and of the steps of an
  operation; strong fairness of taking a change (select) and of a successful scan, that is, a
  scan retried for ever succeeds at last. Nothing is assumed of the cluster or of commands;
  the bounds make both quiet in the end, which `Converges` needs as its premise.
* `Watcher`: weak fairness of what a goroutine does on its own (leave a backoff, a handler or
  a `Connect`, hear of the end of its run, hand an error over) and of the supervisor. `Connect`
  is assumed to return. Messages, stream errors and health are up to the world.
* `Delivery`: weak fairness of every goroutine that can go on, with or without a failure, and
  of the monitor loop's next sweep. Failures are bounded by `MaxEvents`, which stands for an
  outage that ends.
* `Registration`: weak fairness of the process's own steps and of its restart (the pod's restart
  policy, or an operator). Faults need not happen.
* `SharedCluster`: weak fairness of the refresh loop, of the sweep (its ticker and the steps of the
  goroutine that scans, first sync included), and of the two ways the cache follows the cluster
  (its watches and resyncs). Nothing is assumed of the cluster; its events are bounded.
* `Goroutines`: weak fairness of every goroutine; strong fairness of the two cases of a
  target's select and of waiting for room in the send queue, whose waiting senders Go serves
  in turn. Mailboxes and lock are first come, first served. `CacheNeverStalls` and
  `AcceptedRuns` assume nothing of Octopus Server; the other two have `ServerAnswers` as a
  premise.

## 5. Findings

Each is a run that TLC ends with a counterexample.

* `owner_search` (`references.go:22`, `:33`): the owner reference made up for Endpoints and
  for an OLM ClusterServiceVersion carries the UID of the object itself. The first change
  event stores the child as its own owner; the second sends `getRootParentResource` into
  recursion without end. `application_instance.go:117-118` and `shared_cluster.go:513-514`
  both describe such references as having no UID.
* `cancelled_subscribers` (`command_handler.go:84`): a subscriber with an error to report when
  its run is cancelled sends to a forwarder that is gone and never stops, so that a stop can
  only time out; `watcher.go:36-38` relies on waiting for it.

### Known behaviours

Met while modelling. The first three are within what sweeps repair (`Converges` holds with
them); the others are in the modules as the code has them, and the properties say where they
make an exception.

* A resource that some target wants already is not inherited by another target that wants its
  owner (`resource_interests.go:61`, unlike lines 131-133).
* A resource created and removed during a scan is one queued change from nil to nil, which no
  case covers; it stays present until the next sweep (`application_instance.go:391`).
* A resource that is both present and child is dropped from the tracked keys when it is
  removed as a child (`application_instance.go:457`).
* A child that goes before the rescan of a merge is dropped by it and not deleted on the server
  until the next sweep (`cluster_state.go:98`; the exception in `NothingForgotten`).
* An instance keeps the salt it was created with; an empty one withholds its present and child
  resources for good (`cluster_state.go:50-60`, `sanitize_manifest.go`).
* Types that a CRD adds after the start are never allowed by the filter, whose discovery client
  is cached (`cache.go:89`); their resources are reported unknown.
* A resource that exists is reported missing if it came without a manifest and its live
  object is not in the cache (`shared_cluster.go:348`), if the cache has not heard of its type
  (`:247`), or if the filter or the watched types change during the scan; these are the
  exceptions in `NoFalseMissing`. The first lasts (`ReportsSettle`). A resource can be both present
  and unknown.
* A desired resource of a version that discovery does not prefer is never resolved
  (`desired_resource.go:67`) and stays unknown (`shared_cluster.go:267`).
* After a stop that timed out a run may still be handling a message when the next one receives
  (`watcher.go:244`); a command of the old run can then be applied last (the exception in
  `CommandsInOrder`).
* A `secret.json` that cannot be read is taken for one that is not there (`store.go:115`): a
  process that has the settings of the server registers again and overwrites it. The comment at
  `cmd/root.go:40-41` means the user who has provided no file. `StoredIsIssued`,
  `OneInstallation` and `RegistersOnce` except what such a process does, and nothing else.
* `cmd/root.go:42` logs an error that lines 40-41 say should be returned, and goes on with a nil
  configuration when the store could not be made: a panic.
* `api_client.go:120` reads the status of a nil response: a registration without an answer
  panics instead of failing.
* A read-only store registers a new installation at every start, before it notices that it
  cannot store it (`store.go:82`).
* A request for logs or events of a machine that is not connected gets no answer.
* What the ring buffer leaves of a cut line is answered as a line if it looks like one
  (the second case of `IsTail`).

## 6. Proofs

`ChangeQueueProofs`, for every set of keys, versions and every `MaxBacklog`, from
`NilAssumption` (nil is not a resource):

* `QTypeCorrect`, `QueueIsAMap`, `FoldKeepsNetChange` (`QSpec => []...` for `QTypeOK`,
  `InsertionOrderedMap`, `QueuedIsNetChange`). The last is not inductive alone: that a fold leaves the
  net effect right needs to know that what is queued is the net effect so far and that a key
  has a change queued exactly if its backlog is not empty; that the next key of `order` has a
  change needs the map. `QInv` is the conjunction of the
  three, and is inductive.
* `FirstChangedFirstServed` (`NeverOvertaken`): from `QInv`, one step at a time.
* `ImplementsNetChanges`: every step of the queue is a step of `NetChanges` or leaves its
  variables alone. `FoldKeepsNetChange` is what makes `Out` a `Take`.

`ResourceInterestsProofs`, for all targets, keys and owner relations, without
an assumption:

* `IndexTypeCorrect` (`TypeOK`: keys are held, and deliveries made, for subscribed targets only), `MapsAlwaysAgree`, `NoEntryLeaks`, from `IndexInv`, the conjunction of
  the three: `set` withdraws through one map and publishes through the other, so agreement is
  needed before the step, and an entry that would become empty is recognised by its type.
* `IndexIsARelation` (`IsARelation`): under `MapsAgree` the targets read from
  `targetsByResource` are those of the relation read from `keysByTarget`, so the actions map
  one to one.

`ClusterStateProofs`, for any applications, kinds, commands and any finite set of resources:

* `FiledUnderItsKey` (`DesiredUnderItsKey`), `NeverPresentAndMissing` (`PresentXorMissing`),
  `NothingUnaccountedFor` (`AccountedFor`), `EverythingHeardOf` (`InterestCovered`), from
  `DesiredAssumption` (what commands carry is a desired resource, its two keys are keys). One lemma
  per method of `ApplicationInstance` says that it keeps `InstanceInv`, the first three for a
  single instance. `InterestCovered` speaks of idle states only, and is not inductive: it says
  nothing of the states that lead back to idle. `Covered` extends it to the commands whose scan
  is still to come, and `OpInv` says where the target is in an operation: a rescan is about one
  instance, which counts as edited until its scan is complete, and only a sweep goes on to a
  further one. `ClusterInv` is the conjunction.
* `TargetTyped` (`TypeOK`), from the assumptions on versions, owners, bounds and the answers of
  discovery as well (a version is any UID with any owner's, the kinds whose owner is made up have
  one, the incarnations of a resource have UIDs, no UID is not a UID). `TypeInv` adds the types of
  the queue and of what the cluster holds. The part that takes work is what an instance holds of
  a child: its owner is what the search for the root found, so lemmas say what the methods
  and a scan make of `present` and `child`.
* `NothingFallsBetween` (`Accurate`), for steady commands. `Accurate` says nothing of the states in
  which a scan is under way, nor of what is queued. `AccurateInv` says, in every state, that a change
  of a desired resource is heard (`DesiredHeard`), that a queued change leads to the state that is
  live unless a later one went unheard (`QueueNewest`), that what became live since a scan read the
  live objects is queued (`WalkSees`), and what `Accurate` says of each instance but the one being
  scanned (`SettledNewest`, which also keeps a desired resource from being held as a child and as
  present or missing at once). `Steady` is a hypothesis of the theorem and not an assumption,
  because other runs break it on purpose: each resource comes with a manifest, an id stands for one
  resource of the cluster, and discovery does not move a stored resource to another key. Without
  the last, a resource is published under a key its events do not arrive under until a
  sweep finds the right one. `MCClusterState` lets TLC evaluate that the instance of
  `scans_and_changes` is steady.
* `NamedOwnersAreFound` (`OwnerSearchReturns`), if no owner reference is made up. The run
  `owner_search` shows that the search does not end with made-up references; the theorem shows that
  they are the only cause. The keys of owners may form a cycle and what a target holds may be
  of any age, so the argument is not about the keys: an owner is born before the resource that
  names its UID, there is one order of birth for all states held, queued or live
  (`InOrderOfBirth`), and a search that climbs in that order through finitely many children ends
  (`SearchEnds`). A birth extends the order (`BirthKeepsOrder`), which is why `OwnersInv` says
  only that there is one.

`WatcherProofs`, for any streams and any number of runs, from `EventBufferAssumption` and
`MaxRunsAssumption`:

* `WatcherTypeCorrect` (`WTypeOK`), `RunsAreSupervised` (`NoRunUnsupervised`),
  `OnlyFreshFailuresEndIt` (`FreshFailuresOnly`). `WInv` adds `CurrentRun`, which phase of the
  supervisor leaves the current run live (starting the next one is only safe because nothing
  precedes it uncancelled), and `Freshness`: a forwarder waits only while its run goes on, so
  what it hands over came up before the run was over.

`GoroutinesProofs`, for any targets, callers, jobs, capacity and number of workers, from
`QueueAssumption`, `JobsAssumption` and `NamesAssumption` (targets, callers and the other
goroutines are told apart):

* `GoroutinesTypeCorrect` (`GTypeOK`) and `WaitsInOnePlace`. That a mailbox holds a goroutine
  once needs to know that a caller is nowhere else when it asks: `OneOwner` ties mailboxes and
  owners to the place a caller says it is at, `AtLock` the lock, and `GInv` is the conjunction
  with the types.

`RegistrationProofs`, for any number of attempts, faults and registrations, from
`BoundsAssumption` and `NoneAssumption` (no setting is not a value of one):

* `RegistrationTypeCorrect` (`TypeOK`), `ReadsWhatWasIssued` (`StoredIsIssued`),
  `NoStrayInstallations` (`OneInstallation`), `TokensPrivate` (`SecretsPrivate`), and the action
  property `RegistersAgainOnlyUnread` (`RegistersOnce`). `RegInv` says where a token can be kept (the
  operator's flags, the file under tags or under names, the Kubernetes secret) and that the copies agree (`Agree`,
  `KeptIsIssued`); that while a process is going to register nothing it has seen has a token, nor an id
  but the one it will use (`NothingKeptYet`), which is why an answer never mixes with an older
  one: a process that has not read the file has none of its entries to write back; and that the answer it has not stored yet is the last one given (`AnswerIsLast`).
  `Orphans` counts the ids that nothing leads to, with the one under way apart. The proof showed
  that `StoredIsIssued` needs no exception for a process in the middle of storing; the one it had
  is gone.

`DeliveryProofs`, for any resources, commands, capacity and number of workers and runs, from
`DeliveryAssumption`, `NilAssumption` and `NoCommandAssumption` (nil is neither a manifest nor a
request nor a command):

* `SecretsHashedOnce` (`HashedOnce`): `RequestInv` follows a request from the goroutine that
  makes it through the queue to a worker, and says that each entry is one that its resource may
  have; what the cache holds is never hashed (`InstanceInv`), so hashing it anew is the first time.
* `AppliedInOrder` (`CommandsInOrder`): as long as no run was started early, only the current
  run holds a command, and that is the last one sent (`InHand`).
* `EverythingIsReported` (`NothingForgotten`): one lemma per action, each showing that the
  request that covers a resource moves on from hand to queue to worker to server.

`SharedClusterProofs`, for any types, desired resources, rights and scopes, from
`SharedAssumption`:

* `SharedTypeCorrect` (`TypeOK`) and `ExistingNotMissing` (`NoFalseMissing`). `ScanInv` says what
  a scan under way knows, as long as neither the filter nor the cache changed since it began:
  what it let through is still allowed, what has a manifest and a known type was not skipped, and
  what was to be read was found. `ExistingNotMissing` follows for the step that ends a scan. `FilterInv` keeps scans and refreshes within a connection.
* `EveryRequestAnswered` (`RequestsAnswered`), for every log, every list of events and every
  capacity of the buffer, from `LogAssumption` (the capacity is a multiple of the shortest line,
  as 10 MiB is of 32 bytes) and `AnswersAssumption` (a log is made of lines that are not empty and
  not shorter than that if they have a timestamp; an event has one of the forms Kubernetes
  gives it). The argument follows the bytes. What the circular buffer holds after i bytes are the
  last of them, wherever the circle is cut (`WriteHolds`, by induction on i), so that `Bytes` returns
  the end of the stream (`BytesRead`); the end of a text is the rest of one line and the
  lines after it (`EndIsPart`); cutting it up gives these lines back (`LinesOfPart`); and those
  that are kept are the last lines that fit, with what is left of the one before them in front if it
  looks like a line (`AnsweredIsTail`). That `TailLines` does not ask for too few is `RoomNeeded`: one
  more line with a timestamp would not have fitted.

The induction rules of the library take the predicate as an operator, which the provers cannot
instantiate. `ClusterStateProofs` and `SharedClusterProofs` prove the rules they need for a set of
numbers instead (`Counting`, and `Iteration` and `Recursion` for the existence of a function defined
by recursion), from the fact that a set of numbers has a least element. That is why the operators
of `ContainerLogs` are recursive functions on the number of bytes or lines.

Outside the proofs, TLC was also run with the inductive invariants on the instances of the runs
(`InOrderOfBirth` with ranks below the number of UIDs), and they hold there.

Only model-checked is liveness, which is out of the prover's reach: the fairness part of
`DeliversNetChanges`, `Converges`, `FailureEndsRun`, `GivingUpEndsProcess`, `EventuallyStored`,
`EventuallyAgrees`, `ReportsSettle`, and the four properties of `Goroutines`. Every invariant and
every action property of a passing run has a theorem. Of the two findings, what `owner_search`
refutes is proved under the condition that rules the cause out; what `cancelled_subscribers`
refutes is a liveness property.

## 7. Not modelled

* The health checks of single kinds (`internal/health/deployments.go`, `replicasets.go`, and
  those of gitops-engine): functions of one manifest, without state, covered by unit tests.
* The conversion of protobuf messages into commands (`command_mappers.go`), and which fields
  of a message are missing.
* Certificates and TLS: a comparison during the handshake, made by the library.
* Flags, logging, profiling, telemetry, `pkg/genflags`: no state that the rest depends on.
* The builders in `internal/kubernetes`: test helpers.
* `internal/protos/*.pb.go`: generated.
* The length of a backoff (`grpc_utilities.go`): time is not modelled.

## 8. Status

Modelled, checked and proved about: change queue, interest index, application instance and
target, watcher and subscribers, waiting, delivery, registration and stores, shared cluster with
permissions and logs.

Worth adding when the code around it changes:

1. The premises of `Converges` as safety: that a complete sweep of a quiet cluster leaves
   every instance `UpToDate` is a statement about steps, and the lemmas behind
   `NothingFallsBetween` say most of it.
2. `getOwnerReferences` once its made-up references have no UID: `FilledIn = {}` can then go
   from `NamedOwnersAreFound`, and `owner_search` becomes a passing run.
3. The builders of child resources and the health checks of single kinds, if they come to
   keep state.
