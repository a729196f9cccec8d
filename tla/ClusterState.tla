----------------------------- MODULE ClusterState -----------------------------
(***************************************************************************)
(* A target: Cluster.run and clusterState of internal/cluster/cluster.go   *)
(* and cluster_state.go, with its change queue (ChangeQueue), what it      *)
(* published to the interest index, and the cluster cache.                 *)
(*                                                                         *)
(* The target's goroutine takes one command, sweep or queued change at a   *)
(* time.  While it works through a command or sweep the cluster cache goes *)
(* on changing: the interests are published, the cache is synced, the live *)
(* objects are read and the hierarchy is walked in separate steps, each    *)
(* under the cache's own lock.                                             *)
(***************************************************************************)
EXTENDS ApplicationInstance, ChangeQueue

CONSTANTS AppIds,           \* ApplicationInstanceId
          DesiredResources, \* what commands can carry: key |-> desired resource
          Discoveries,      \* what API discovery and the cache can answer
          DeployVersions,   \* deployment versions a prune command can keep
          Unmonitorable,    \* kinds outside the configured scope or filter
          WantedElsewhere,  \* keys other targets are interested in
          MaxBirths,        \* bound: incarnations of each resource
          MaxTouches,       \* bound: updates that leave the UID alone
          MaxCommands       \* bound: commands from Octopus Server

VARIABLES live,       \* the cluster cache's content
          births,     \* incarnations of each resource so far
          touches,    \* updates so far
          commands,   \* commands so far
          instances,  \* applicationInstances
          interest,   \* this target's keys in the interest index
          op,         \* the operation the target is in the middle of
          sent,       \* what the last operation sent to Octopus Server
          settled,    \* history: instances not edited since their last scan
          missed,     \* history: for each instance, the keys that changed
                      \* unheard behind a queued change
          dead        \* the process died of stack exhaustion

cacheVars == <<live, births, touches>>
vars == <<live, births, touches, commands, instances, interest, op, sent,
          settled, missed, dead, order, queued>>

Idle == [name |-> "idle", todo |-> {}]

(* What API discovery and the cluster cache know of the kinds:             *)
(* namespaceMapWithHealth's map (the built-in kinds when it is not         *)
(* healthy), GetAPIResources, and the kinds IsNamespaced accepts.          *)
IsDiscovery(disc) ==
  /\ disc.healthy \in BOOLEAN
  /\ disc.accessible \subseteq disc.known

ASSUME DesiredAssumption ==
  \A k \in DOMAIN DesiredResources : IsDesiredResource(DesiredResources[k])

ASSUME DiscoveriesAssumption == \A disc \in Discoveries : IsDiscovery(disc)

ASSUME KeysAssumption == IsFiniteSet(Keys)

ASSUME BoundsAssumption ==
  /\ MaxBirths \in [Keys -> Nat] /\ {MaxTouches, MaxCommands} \subseteq Nat
  /\ \A k \in Keys : \A n \in 1..MaxBirths[k] : <<k, n>> \in Uids

-----------------------------------------------------------------------------
newClusterState ==
  /\ live = [k \in Keys |-> Nil]
  /\ births = [k \in Keys |-> 0]
  /\ touches = 0
  /\ commands = 0
  /\ instances = <<>>
  /\ interest = {}
  /\ op = Idle
  /\ sent = {}
  /\ settled = {}
  /\ missed = [a \in AppIds |-> {}]
  /\ dead = FALSE
  /\ newChangeQueue

(* publishInterests: everything every instance wants. *)
KeysOfInterest(insts) ==
  UNION {resourceKeysOfInterest(insts[a]) : a \in DOMAIN insts}

publishInterests == interest' = KeysOfInterest(instances')

upsertApplicationInstance(a, inst) ==
  instances' = [x \in DOMAIN instances \cup {a} |-> IF x = a THEN inst ELSE instances[x]]

getOrCreateApplicationInstance(a) ==
  IF a \in DOMAIN instances THEN instances[a] ELSE NewApplicationInstance

(* clusterState.resolveNamespaces, on the resources of a command.  Each is *)
(* tried twice, and discovery is asked afresh after every failure, so each *)
(* resource has an answer of its own.  It is stored under its current key  *)
(* whether it was resolved or not.                                         *)
ResolvedIncoming(incoming) ==
  UNION {LET value(k) == ResolveNamespace(incoming[k], answer[k].mapped)
             rekey(k) == ResourceKey(value(k))
         IN  Rekeyed(incoming, rekey, value) :
           answer \in [DOMAIN incoming -> Discoveries]}

Command(a) ==
  /\ ~dead
  /\ op = Idle
  /\ commands < MaxCommands
  /\ commands' = commands + 1
  /\ settled' = settled \ {a}
  /\ UNCHANGED <<cacheVars, missed, dead, queueVars>>

(* Mutant: the interests are not published before the cluster is read. *)
BeginMergeUnpublished(a, carried) ==
  /\ Command(a)
  /\ carried # {}
  /\ \E incoming \in ResolvedIncoming(Restrict(DesiredResources, carried)) :
       /\ upsertApplicationInstance(a,
            MergeDesiredResources(getOrCreateApplicationInstance(a), incoming))
       /\ op' = [name |-> "merge", todo |-> {a}, ids |-> desiredIds(incoming)]
  /\ sent' = {}
  /\ UNCHANGED interest

(* mergeDesiredResources up to the first publishInterests of rescan *)
BeginMerge(a, carried) ==
  /\ Command(a)
  /\ carried # {}
  /\ \E incoming \in ResolvedIncoming(Restrict(DesiredResources, carried)) :
       /\ upsertApplicationInstance(a,
            MergeDesiredResources(getOrCreateApplicationInstance(a), incoming))
       /\ op' = [name |-> "merge", todo |-> {a}, ids |-> desiredIds(incoming)]
  /\ publishInterests
  /\ sent' = {}

(* replaceDesiredResources up to the first publishInterests of rescan *)
BeginReplace(a, carried) ==
  /\ Command(a)
  /\ \E incoming \in ResolvedIncoming(Restrict(DesiredResources, carried)) :
       /\ upsertApplicationInstance(a,
            ReplaceDesiredResources(getOrCreateApplicationInstance(a), incoming))
       /\ op' = [name |-> "replace", todo |-> {a}, ids |-> desiredIds(incoming)]
  /\ publishInterests
  /\ sent' = {}

deleteDesiredResources(a, ids) ==
  /\ Command(a)
  /\ a \in DOMAIN instances
  /\ instances' = [instances EXCEPT ![a] = DeleteDesiredResources(@, ids)]
  /\ publishInterests
  /\ sent' = {}
  /\ UNCHANGED op

deleteDesiredResourcesExceptForVersion(a, version) ==
  /\ Command(a)
  /\ a \in DOMAIN instances
  /\ instances' = [instances EXCEPT ![a] = DeleteDesiredResourcesExceptForVersion(@, version)]
  /\ publishInterests
  /\ sent' = {}
  /\ UNCHANGED op

(* rescan returns early when the cache does not sync *)
SyncFails ==
  /\ ~dead
  /\ op.name \in {"merge", "replace"}
  /\ op' = Idle
  /\ UNCHANGED <<cacheVars, commands, instances, interest, sent, settled, missed, dead, queueVars>>

(* monitoredResourceUpdates, on a cache that ClusterList has synced *)
BeginSweep ==
  /\ ~dead
  /\ op = Idle
  /\ instances # <<>>
  /\ op' = [name |-> "sweep", todo |-> DOMAIN instances, ids |-> {}]
  /\ sent' = {}
  /\ UNCHANGED <<cacheVars, commands, instances, interest, settled, missed, dead, queueVars>>

-----------------------------------------------------------------------------
(* getMonitoredResources *)

(* The desired resources that are unknown before the cluster is read. *)
UnknownBeforehand(desired, disc) ==
  {desired[k].id : k \in {x \in DOMAIN desired :
     IF desired[x].kind \notin disc.known THEN ~disc.healthy
     ELSE ~desired[x].resolved \/ desired[x].kind \in Unmonitorable}}

(* GetManagedLiveObjs: the targets that are live.  The engine may also     *)
(* return a desired resource without owner that was not asked for.         *)
TargetKeys(desired, disc) ==
  {k \in DOMAIN desired : /\ desired[k].id \notin UnknownBeforehand(desired, disc)
                          /\ desired[k].kind \in disc.known
                          /\ desired[k].manifest}

ManagedLiveObjs(desired, disc) ==
  LET wanted == {k \in TargetKeys(desired, disc) : live[k] # Nil}
      extra == {k \in DOMAIN desired \ wanted : live[k] # Nil /\ ownerRefKeys(live[k]) = {}}
  IN  {wanted \cup e : e \in SUBSET extra}

(* The cache's hierarchy: by the owner's UID, or by key for made-up        *)
(* references.                                                             *)
IsChildOf(k, p) ==
  /\ live[k] # Nil /\ live[p] # Nil
  /\ Owner[k] = p
  /\ \/ live[k].version.owner = uidOf(live[p])
     \/ k \in FilledIn /\ live[k].version.owner = NoUid

(* IterateHierarchyV2 from the managed objects that are still there *)
Discovered(managed) ==
  LET below[n \in 0..Cardinality(Keys)] ==
        IF n = 0 THEN {k \in managed : live[k] # Nil}
        ELSE UNION {{p} \cup {k \in Keys : IsChildOf(k, p)} : p \in below[n - 1]}
  IN  below[Cardinality(Keys)]

(* getFirstOwnerId: a made-up reference has no UID in the cache, so the    *)
(* owner is looked up by key.                                              *)
getFirstOwnerId(res) ==
  IF ownerRefKeys(res) = {} THEN NoUid
  ELSE IF res.version.owner # NoUid THEN res.version.owner
  ELSE IF live[Owner[res.key]] # Nil THEN uidOf(live[Owner[res.key]]) ELSE NoUid

Monitored(inst, managed, disc) ==
  LET desired == inst.desired
      found == Discovered(managed)
      presentKeys == found \cap DOMAIN desired
      present == [i \in {desired[k].id : k \in presentKeys} |->
                    live[CHOOSE k \in presentKeys : desired[k].id = i]]
      owned == [k \in found \ DOMAIN desired |->
                  [res |-> live[k], ownerId |-> getFirstOwnerId(live[k])]]
      child == [k \in DOMAIN owned |->
                  [res |-> owned[k].res, ownerId |-> owned[k].ownerId,
                   rootOwnerId |-> getRootParentResource(owned[k].ownerId, owned)]]
      unknown == UnknownBeforehand(desired, disc)
      rest == {k \in DOMAIN desired : desired[k].id \notin DOMAIN present \cup unknown}
      forbidden == {k \in rest : desired[k].kind \in disc.known \ disc.accessible}
  IN  replaceMonitoredResources(inst, present, child,
        {desired[k].id : k \in rest \ forbidden},
        unknown \cup {desired[k].id : k \in forbidden})

-----------------------------------------------------------------------------
(* ReplaceMonitoredResourcesFromCluster *)

(* The cluster cache holds no object of a kind it does not watch. *)
CacheAgrees(desired, disc) ==
  \A k \in DOMAIN desired : live[k] # Nil => desired[k].kind \in disc.accessible

(* Namespaces are resolved, then the live objects are read. *)
StartScan(a, disc) ==
  /\ ~dead
  /\ a \in op.todo /\ op.name # "walk"
  /\ \E inst \in resolveNamespaces(instances[a], disc.mapped) :
       /\ CacheAgrees(inst.desired, disc)
       /\ instances' = [instances EXCEPT ![a] = inst]
       /\ \E managed \in ManagedLiveObjs(inst.desired, disc) :
            op' = [name |-> "walk", todo |-> op.todo, ids |-> op.ids, in |-> op.name,
                   app |-> a, managed |-> managed, disc |-> disc]
  /\ missed' = [missed EXCEPT ![a] = @ \cap DOMAIN queued]
  /\ UNCHANGED <<cacheVars, commands, interest, sent, settled, dead, queueVars>>

(* What is left of the operation after a scan. *)
AfterScan(name, todo, ids) ==
  op' = [name |-> IF todo = {} THEN "publish" ELSE name, todo |-> todo, ids |-> ids]

(* GetManagedLiveObjs fails: a rescan returns before publishing, a sweep   *)
(* goes on with the next instance.                                         *)
ScanFails(a, disc) ==
  /\ ~dead
  /\ a \in op.todo /\ op.name # "walk"
  /\ \E inst \in resolveNamespaces(instances[a], disc.mapped) :
       instances' = [instances EXCEPT ![a] = inst]
  /\ IF op.name = "sweep" THEN AfterScan("sweep", op.todo \ {a}, {}) ELSE op' = Idle
  /\ UNCHANGED <<cacheVars, commands, interest, sent, settled, missed, dead, queueVars>>

(* The update of a merge: the incoming resources and what is below them. *)
MergeUpdate(inst, ids) ==
  LET present == DOMAIN inst.present \cap ids
      uids == {uidOf(inst.present[i]) : i \in present}
  IN  [NoUpdate EXCEPT !.present = present,
                       !.child = {k \in DOMAIN inst.child : inst.child[k].rootOwnerId \in uids},
                       !.missing = inst.missing \cap ids,
                       !.unknown = inst.unknown \cap ids]

(* The hierarchy is walked and the instance's monitored resources are      *)
(* replaced by what was found.                                             *)
FinishScan ==
  /\ ~dead
  /\ op.name = "walk"
  /\ LET inst == Monitored(instances[op.app], op.managed, op.disc)
         update == IF op.in = "merge" THEN MergeUpdate(inst, op.ids)
                   ELSE MonitoredResourceChanges(inst)
     IN  /\ instances' = [instances EXCEPT ![op.app] = inst]
         /\ sent' = sent \cup {[app |-> op.app, how |-> op.in, ids |-> op.ids, what |-> update]}
  /\ settled' = settled \cup {op.app}
  /\ AfterScan(op.in, op.todo \ {op.app}, op.ids)
  /\ UNCHANGED <<cacheVars, commands, interest, missed, dead, queueVars>>

(* The end of a rescan, or of the last instance of a sweep *)
FinishPublish ==
  /\ ~dead
  /\ op.name = "publish"
  /\ op' = Idle
  /\ interest' = KeysOfInterest(instances)
  /\ UNCHANGED <<cacheVars, commands, instances, sent, settled, missed, dead, queueVars>>

-----------------------------------------------------------------------------
(* applyResourceChange: the change is applied to every instance; interests *)
(* are published if there is anything to send.                             *)
ChangeApplied(change) ==
  LET result == [a \in DOMAIN instances |-> GetChangesForUpdatedResource(instances[a], change)]
      updated == {a \in DOMAIN instances : result[a].update # NoUpdate}
  IN  /\ instances' = [a \in DOMAIN instances |-> result[a].inst]
      /\ sent' = {[app |-> a, how |-> "change", ids |-> {}, what |-> result[a].update] :
                    a \in updated}
      /\ IF updated # {} THEN publishInterests ELSE UNCHANGED interest
      /\ UNCHANGED dead

(* getRootParentResource never returns: the stack is exhausted. *)
StackExhausted ==
  /\ dead' = TRUE
  /\ UNCHANGED <<instances, sent, interest>>

ApplyResourceChange ==
  /\ ~dead
  /\ op = Idle
  /\ \E k \in DOMAIN queued :
       /\ HandOver(k)
       /\ IF \A a \in DOMAIN instances : OwnerSearchEnds(instances[a], queued[k])
          THEN ChangeApplied(queued[k])
          ELSE StackExhausted
  /\ UNCHANGED <<cacheVars, commands, op, settled, missed>>

-----------------------------------------------------------------------------
(* The cluster cache and the interest index (see ResourceInterests). *)

(* populateResourceInfo: a new state of a resource nobody wants yet is     *)
(* inherited from its owner.                                               *)
InheritedInterest(res) ==
  IF /\ res # Nil /\ res.key \notin interest \cup WantedElsewhere
     /\ ownerRefKeys(res) \cap interest # {}
  THEN interest \cup {res.key}
  ELSE interest

(* route: this target is sent a change of what it wants or an owner of it *)
IsRouted(old, new, wanted) ==
  \E r \in {old, new} \ {Nil} : ({r.key} \cup ownerRefKeys(r)) \cap wanted # {}

ResourceEvent(k, res) ==
  /\ ~dead
  /\ live' = [live EXCEPT ![k] = res]
  /\ interest' = InheritedInterest(res)
  /\ IF IsRouted(live[k], res, interest')
     THEN /\ Accept([oldRes |-> live[k], newRes |-> res])
          /\ missed' = [a \in AppIds |-> missed[a] \ {k}]
     ELSE /\ UNCHANGED queueVars
          /\ missed' = [a \in AppIds |-> missed[a] \cup ({k} \cap DOMAIN queued)]
  /\ UNCHANGED <<commands, instances, op, sent, settled, dead>>

(* A resource appears with a UID of its own, on its own or under its owner. *)
PossibleOwners(k) == {o \in Keys : k \notin FilledIn /\ o = Owner[k] /\ live[o] # Nil}

Created(k) ==
  /\ live[k] = Nil
  /\ births[k] < MaxBirths[k]
  /\ births' = [births EXCEPT ![k] = @ + 1]
  /\ \E owner \in {NoUid} \cup {uidOf(live[o]) : o \in PossibleOwners(k)} :
       ResourceEvent(k, [key |-> k, version |-> [uid |-> <<k, births'[k]>>, owner |-> owner]])
  /\ UNCHANGED touches

Touched(k) ==
  /\ live[k] # Nil
  /\ touches < MaxTouches
  /\ touches' = touches + 1
  /\ ResourceEvent(k, live[k])
  /\ UNCHANGED births

Deleted(k) ==
  /\ live[k] # Nil
  /\ ResourceEvent(k, Nil)
  /\ UNCHANGED <<births, touches>>

-----------------------------------------------------------------------------
Commands ==
  \E a \in AppIds :
    \/ \E carried \in SUBSET DOMAIN DesiredResources :
         BeginMerge(a, carried) \/ BeginReplace(a, carried)
    \/ \E ids \in SUBSET Ids : deleteDesiredResources(a, ids)
    \/ \E v \in DeployVersions : deleteDesiredResourcesExceptForVersion(a, v)

Next ==
  \/ Commands
  \/ SyncFails
  \/ BeginSweep
  \/ \E a \in AppIds, disc \in Discoveries : StartScan(a, disc) \/ ScanFails(a, disc)
  \/ FinishScan
  \/ FinishPublish
  \/ ApplyResourceChange
  \/ \E k \in Keys : Created(k) \/ Touched(k) \/ Deleted(k)

Spec == newClusterState /\ [][Next]_vars

(* The monitor loop asks for a sweep every period, an operation runs to    *)
(* its end, Go's select serves every case that is ready again and again,   *)
(* and a scan that is retried for ever succeeds in the end.                *)
FairSpec ==
  /\ Spec
  /\ WF_vars(BeginSweep)
  /\ \A a \in AppIds : SF_vars(\E disc \in Discoveries : StartScan(a, disc))
  /\ WF_vars(FinishScan)
  /\ WF_vars(FinishPublish)
  /\ SF_vars(ApplyResourceChange)

-----------------------------------------------------------------------------
(* The fields of an instance hold what their Go types say. *)
InstanceTypeOK(inst) ==
  /\ DOMAIN inst.desired \subseteq Keys
  /\ \A k \in DOMAIN inst.desired : inst.desired[k].id \in Ids
  /\ DOMAIN inst.present \subseteq Ids
  /\ \A i \in DOMAIN inst.present : inst.present[i] \in Resource
  /\ DOMAIN inst.child \subseteq Keys
  /\ \A k \in DOMAIN inst.child :
       /\ inst.child[k].res \in StatesOf(k) \ {Nil}
       /\ {inst.child[k].ownerId, inst.child[k].rootOwnerId} \subseteq Uids \cup {NoUid}
  /\ inst.missing \subseteq Ids /\ inst.unknown \subseteq Ids
  /\ inst.tracked \subseteq Keys

TypeOK ==
  /\ \A k \in Keys : live[k] \in StatesOf(k)
  /\ births \in [Keys -> Nat]
  /\ touches \in 0..MaxTouches /\ commands \in 0..MaxCommands
  /\ DOMAIN instances \subseteq AppIds
  /\ \A a \in DOMAIN instances : InstanceTypeOK(instances[a])
  /\ interest \subseteq Keys
  /\ op.name \in {"idle", "merge", "replace", "sweep", "walk", "publish"}
  /\ op.todo \cup settled \subseteq DOMAIN instances
  /\ \A u \in sent : u.app \in DOMAIN instances
  /\ missed \in [AppIds -> SUBSET Keys]
  /\ dead \in BOOLEAN
  /\ DOMAIN queued \subseteq Keys
  /\ \A k \in DOMAIN queued : queued[k] \in [oldRes : StatesOf(k), newRes : StatesOf(k)]

(* desired_resource.go:53-63, application_instance.go:319-330: a desired   *)
(* resource is always filed under its current key, although discovery can  *)
(* change that key after the resource was stored: events find it by key.   *)
DesiredUnderItsKey ==
  \A a \in DOMAIN instances : \A k \in DOMAIN instances[a].desired :
    ResourceKey(instances[a].desired[k]) = k

(* application_instance.go:140-248: no resource is reported present and    *)
(* missing at once, whatever changes were applied since the last scan and  *)
(* whichever merges, rescans and scans failed in between.                  *)
PresentXorMissing ==
  \A a \in DOMAIN instances :
    DOMAIN instances[a].present \cap instances[a].missing = {}

(* application_instance.go:53-67, shared_cluster.go:453-497: every desired *)
(* resource is held as present, missing or unknown, between the steps of   *)
(* every command, when its rescan fails, and whatever is deleted.          *)
AccountedFor ==
  \A a \in DOMAIN instances : LET inst == instances[a] IN
    desiredIds(inst.desired) \subseteq DOMAIN inst.present \cup inst.missing \cup inst.unknown

(* cluster_state.go:261-277, 194-207: between operations the index holds   *)
(* every key the target reacts to: what it tracks, and what it desires     *)
(* unless the last rescan failed.                                          *)
InterestCovered ==
  op = Idle =>
    \A a \in DOMAIN instances : LET inst == instances[a] IN
      /\ inst.tracked \subseteq interest
      /\ a \in settled => DOMAIN inst.desired \subseteq interest

(* Commands whose resources carry a manifest, one id for each resource of  *)
(* the cluster, and keys that no answer of discovery changes once the      *)
(* resource is stored.                                                     *)
IsSteady(desired, discoveries) ==
  /\ \A k \in DOMAIN desired : LET d == desired[k] IN
       /\ d.manifest
       /\ \/ d.resolved
          \/ d.assumed = d.actual
          \/ \A disc \in discoveries : d.kind \in disc.mapped
  /\ \A k, l \in DOMAIN desired :
       desired[k].id = desired[l].id => desired[k].actual = desired[l].actual

Steady == IsSteady(DesiredResources, Discoveries)

(* cluster_state.go:259-277, resource_changes.go:23-25: a scan reads the   *)
(* cluster while it changes, yet once the changes that were queued in the  *)
(* meantime are applied nothing is held missing that is there, and of what *)
(* is there, if desired or owned by a desired one, the newest state is     *)
(* held: no change falls between the scan and the queue.  Excepted is a    *)
(* resource that changed unheard, before it was desired, while an older    *)
(* change of it was queued: that change overrides the scan.                *)
Accurate ==
  ~dead /\ op.name # "walk" =>
    \A a \in settled : LET inst == instances[a] IN
      \A k \in {x \in Keys \ (DOMAIN queued \cup missed[a]) : live[x] # Nil} :
        /\ k \in DOMAIN inst.desired => LET id == inst.desired[k].id IN
             /\ id \notin inst.missing
             /\ id \in DOMAIN inst.present => inst.present[id] = live[k]
        /\ k \in DOMAIN inst.child /\ ownerRefKeys(live[k]) \cap DOMAIN inst.desired # {}
             => inst.child[k].res = live[k]

(* What a scan of a cluster that does not change any more finds. *)
UpToDate(inst) ==
  LET there == {k \in DOMAIN inst.desired : live[k] # Nil}
      below == Discovered(there) \ DOMAIN inst.desired
  IN  /\ inst.missing = {inst.desired[k].id : k \in DOMAIN inst.desired \ there}
      /\ DOMAIN inst.present = {inst.desired[k].id : k \in there}
      /\ \A k \in there : inst.present[inst.desired[k].id] = live[k]
      /\ DOMAIN inst.child = below
      /\ \A k \in below : inst.child[k].res = live[k]
      /\ inst.unknown = {}

(* cluster_state.go:168-190, resource_interests.go:135-137: whatever was   *)
(* missed between two sweeps, once cluster and commands are quiet every    *)
(* instance comes to agree with the cluster and stays so.                  *)
Converges == <>[](\A a \in DOMAIN instances : UpToDate(instances[a]))

(* application_instance.go:114-116, shared_cluster.go:513-514: a filled-in *)
(* owner reference has no UID of its own and is looked up by key, so the   *)
(* search for the root owner of a child ends.                              *)
OwnerSearchReturns == ~dead
=============================================================================
