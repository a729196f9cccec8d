-------------------------- MODULE ClusterStateProofs --------------------------
(***************************************************************************)
(* What a target holds of its applications is consistent in every state    *)
(* that commands, sweeps, queued changes, failures and a changing cluster  *)
(* lead to, for any number of applications, resources and commands: first  *)
(* within an instance, then in its types, then with the cluster itself;    *)
(* and the search for an owner ends where owners are named.                *)
(***************************************************************************)
EXTENDS ClusterState, FiniteSetTheorems, TLAPS

(* The fields of an instance. *)
IsInstance(inst) ==
  /\ DOMAIN inst = {"desired", "present", "child", "missing", "unknown", "tracked"}
  /\ \A k \in DOMAIN inst.desired : IsDesiredResource(inst.desired[k])

(* What holds of each instance by itself. *)
UnderItsKey(inst) == \A k \in DOMAIN inst.desired : ResourceKey(inst.desired[k]) = k

NotBoth(inst) == DOMAIN inst.present \cap inst.missing = {}

NoneLost(inst) == \A k \in DOMAIN inst.desired :
                    inst.desired[k].id \in DOMAIN inst.present \cup inst.missing \cup inst.unknown

InstanceInv(inst) == IsInstance(inst) /\ UnderItsKey(inst) /\ NotBoth(inst) /\ NoneLost(inst)

-----------------------------------------------------------------------------
(* The methods of an instance *)

LEMMA NewInstance == InstanceInv(NewApplicationInstance)
  BY DEF NewApplicationInstance, InstanceInv, IsInstance, UnderItsKey, NotBoth, NoneLost

(* Resolving a namespace changes nothing but whether it is resolved        *)
(* (desired_resource.go:53-63).                                            *)
LEMMA ResolveNamespaceKeeps ==
  ASSUME NEW d, IsDesiredResource(d), NEW m
  PROVE  /\ IsDesiredResource(ResolveNamespace(d, m))
         /\ ResolveNamespace(d, m).id = d.id
         /\ ResolveNamespace(d, m).assumed = d.assumed
         /\ ~ResolveNamespace(d, m).resolved => ~d.resolved
         /\ ResourceKey(ResolveNamespace(d, m)) \in Keys
  BY DEF IsDesiredResource, ResolveNamespace, ResourceKey

(* resolveNamespaces (application_instance.go:319-330) loses no key, adds  *)
(* no id, and files everything under its current key.                      *)
LEMMA ResolveNamespacesKeeps ==
  ASSUME NEW a, InstanceInv(a), NEW m, NEW inst \in resolveNamespaces(a, m)
  PROVE  /\ InstanceInv(inst)
         /\ inst.present = a.present /\ inst.child = a.child /\ inst.missing = a.missing
         /\ inst.unknown = a.unknown /\ inst.tracked = a.tracked
  <1> DEFINE value(k) == ResolveNamespace(a.desired[k], m)
             rekey(k) == IF value(k).resolved THEN ResourceKey(value(k)) ELSE k
             keys == {rekey(k) : k \in DOMAIN a.desired}
  <1>1. PICK f : f \in Rekeyed(a.desired, rekey, value) /\ inst = [a EXCEPT !.desired = f]
    BY Zenon DEF resolveNamespaces
  <1>a. /\ DOMAIN f = keys
        /\ \A k \in keys : \E x \in DOMAIN a.desired : rekey(x) = k /\ f[k] = value(x)
    BY <1>1 DEF Rekeyed
  <1>2. /\ DOMAIN inst = DOMAIN a
        /\ inst.desired = f /\ inst.present = a.present /\ inst.child = a.child
        /\ inst.missing = a.missing /\ inst.unknown = a.unknown /\ inst.tracked = a.tracked
    BY <1>1 DEF InstanceInv, IsInstance
  <1>3. ASSUME NEW k \in DOMAIN f
        PROVE  /\ IsDesiredResource(f[k]) /\ ResourceKey(f[k]) = k
               /\ f[k].id \in DOMAIN a.present \cup a.missing \cup a.unknown
    <2>1. PICK x \in DOMAIN a.desired : rekey(x) = k /\ f[k] = value(x)
      BY <1>a
    <2>2. IsDesiredResource(a.desired[x]) /\ ResourceKey(a.desired[x]) = x
      BY DEF InstanceInv, IsInstance, UnderItsKey
    <2>3. IsDesiredResource(f[k]) /\ f[k].id = a.desired[x].id
      BY <2>1, <2>2, ResolveNamespaceKeeps
    <2>4. ResourceKey(f[k]) = k
      BY <2>1, <2>2, ResolveNamespaceKeeps DEF ResourceKey
    <2>5. QED
      BY <2>3, <2>4 DEF InstanceInv, NoneLost
  <1>4. QED
    BY <1>2, <1>3 DEF InstanceInv, IsInstance, UnderItsKey, NotBoth, NoneLost

(* The resources of a command, as they are stored. *)
IsIncoming(incoming) ==
  \A k \in DOMAIN incoming : IsDesiredResource(incoming[k]) /\ ResourceKey(incoming[k]) = k

(* Merging and replacing (application_instance.go:53-83): what is stored   *)
(* is unknown until the rescan.                                            *)
LEMMA MergeKeeps ==
  ASSUME NEW a, InstanceInv(a), NEW incoming, IsIncoming(incoming)
  PROVE  InstanceInv(MergeDesiredResources(a, incoming))
  BY DEF MergeDesiredResources, desiredIds, IsIncoming, InstanceInv, IsInstance, UnderItsKey,
         NotBoth, NoneLost

LEMMA ReplaceKeeps ==
  ASSUME NEW a, NEW incoming, IsIncoming(incoming)
  PROVE  InstanceInv(ReplaceDesiredResources(a, incoming))
  BY DEF ReplaceDesiredResources, NewApplicationInstance, desiredIds, IsIncoming, InstanceInv,
         IsInstance, UnderItsKey, NotBoth, NoneLost

LEMMA RestrictKeeps ==
  ASSUME NEW a, InstanceInv(a), NEW S \in SUBSET DOMAIN a.desired
  PROVE  InstanceInv([a EXCEPT !.desired = Restrict(@, S)])
  BY DEF Restrict, InstanceInv, IsInstance, UnderItsKey, NotBoth, NoneLost

(* The two deletes (application_instance.go:85-106) leave what is held.    *)
LEMMA DeleteKeeps ==
  ASSUME NEW a, InstanceInv(a), NEW ids, NEW version
  PROVE  /\ InstanceInv(DeleteDesiredResources(a, ids))
         /\ InstanceInv(DeleteDesiredResourcesExceptForVersion(a, version))
  BY RestrictKeeps DEF DeleteDesiredResources, DeleteDesiredResourcesExceptForVersion

(* clusterState.resolveNamespaces (cluster_state.go:351-383): a command's  *)
(* resources are filed under their current keys.                           *)
LEMMA ResolvedIncomingIsIncoming ==
  ASSUME NEW carried \in SUBSET DOMAIN DesiredResources,
         NEW incoming \in ResolvedIncoming(Restrict(DesiredResources, carried))
  PROVE  IsIncoming(incoming)
  <1> DEFINE given == Restrict(DesiredResources, carried)
             value(answer, k) == ResolveNamespace(given[k], answer[k].mapped)
             rekey(answer, k) == ResourceKey(value(answer, k))
  <1>1. \A k \in DOMAIN given : IsDesiredResource(given[k])
    BY DesiredAssumption DEF Restrict
  <1> HIDE DEF given
  <1>2. PICK answer \in [DOMAIN given -> Discoveries] :
          LET newValue(k) == value(answer, k)
              newKey(k) == rekey(answer, k)
          IN  incoming \in Rekeyed(given, newKey, newValue)
    BY Zenon DEF ResolvedIncoming, given
  <1>3. \A k \in DOMAIN incoming : \E x \in DOMAIN given :
          rekey(answer, x) = k /\ incoming[k] = value(answer, x)
    BY <1>2 DEF Rekeyed
  <1>4. QED
    BY <1>1, <1>3, ResolveNamespaceKeeps DEF IsIncoming

(* replaceMonitoredResources (application_instance.go:129-138): a scan     *)
(* that accounts for everything keeps everything accounted for.            *)
LEMMA ReplaceMonitoredKeeps ==
  ASSUME NEW a, InstanceInv(a), NEW present, NEW child, NEW missing, NEW unknown,
         DOMAIN present \cap missing = {},
         \A k \in DOMAIN a.desired : a.desired[k].id \in DOMAIN present \cup missing \cup unknown
  PROVE  InstanceInv(replaceMonitoredResources(a, present, child, missing, unknown))
  BY DEF replaceMonitoredResources, InstanceInv, IsInstance, UnderItsKey, NotBoth, NoneLost

(* getMonitoredResources (shared_cluster.go:424-500): whatever was found,  *)
(* the rest is missing, or unknown if it could not be read.                *)
LEMMA MonitoredKeeps ==
  ASSUME NEW a, InstanceInv(a), NEW managed, NEW disc
  PROVE  InstanceInv(Monitored(a, managed, disc))
  <1> DEFINE desired == a.desired
             found == Discovered(managed)
             presentKeys == found \cap DOMAIN desired
             present == [i \in {desired[k].id : k \in presentKeys} |->
                           live[CHOOSE k \in presentKeys : desired[k].id = i]]
             owned == [k \in found \ DOMAIN desired |->
                         [res |-> live[k], ownerId |-> getFirstOwnerId(live[k])]]
             child == [k \in DOMAIN owned |->
                         [res |-> owned[k].res, ownerId |-> owned[k].ownerId,
                          rootOwnerId |-> getRootParentResource(owned[k].ownerId, owned)]]
             unknown == UnknownBeforehand(desired, disc)
             rest == {k \in DOMAIN desired : desired[k].id \notin DOMAIN present \cup unknown}
             forbidden == {k \in rest : desired[k].kind \in disc.known \ disc.accessible}
             missing == {desired[k].id : k \in rest \ forbidden}
             unread == unknown \cup {desired[k].id : k \in forbidden}
  <1>1. Monitored(a, managed, disc) = replaceMonitoredResources(a, present, child, missing, unread)
    BY DEF Monitored
  <1> HIDE DEF present, child, unknown
  <1>2. /\ DOMAIN present \cap missing = {}
        /\ \A k \in DOMAIN a.desired : a.desired[k].id \in DOMAIN present \cup missing \cup unread
    OBVIOUS
  <1> HIDE DEF missing, unread
  <1>3. QED
    BY <1>1, <1>2, ReplaceMonitoredKeeps

-----------------------------------------------------------------------------
(* One change of one resource (application_instance.go:140-248) *)

LEMMA NowPresentKeeps ==
  ASSUME NEW a, InstanceInv(a), NEW new
  PROVE  InstanceInv(NowPresent(a, new))
  BY DEF NowPresent, upsertPresentMonitoredResource, InstanceInv, IsInstance, UnderItsKey,
         NotBoth, NoneLost

LEMMA NowMissingKeeps ==
  ASSUME NEW a, InstanceInv(a), NEW old
  PROVE  InstanceInv(NowMissing(a, old))
  BY DEF NowMissing, deletePresentMonitoredResource, Restrict, InstanceInv, IsInstance,
         UnderItsKey, NotBoth, NoneLost

LEMMA ChildKeeps ==
  ASSUME NEW a, InstanceInv(a), NEW c, NEW k
  PROVE  /\ InstanceInv(upsertChildMonitoredResource(a, c))
         /\ InstanceInv(deleteChildMonitoredResource(a, k))
  BY DEF upsertChildMonitoredResource, deleteChildMonitoredResource, Restrict, InstanceInv,
         IsInstance, UnderItsKey, NotBoth, NoneLost

(* A change that there is nothing to send of changes nothing.              *)
LEMMA ChangeKeeps ==
  ASSUME NEW a, InstanceInv(a), NEW change
  PROVE  LET result == GetChangesForUpdatedResource(a, change)
         IN  /\ InstanceInv(result.inst)
             /\ result.update = NoUpdate => result.inst = a
  <1> DEFINE case == calculateResourceChange(a, change)
             new == change.newRes
             old == change.oldRes
             result == GetChangesForUpdatedResource(a, change)
  <1> SUFFICES InstanceInv(result.inst) /\ (result.update = NoUpdate => result.inst = a)
    OBVIOUS
  <1>1. case \in {"DesiredResourceFound", "DesiredResourceUpdated", "ChildResourceUpdated",
                  "DesiredResourceRemoved", "ChildResourceRemoved", "ChildResourceFound",
                  "NoChange"}
    BY DEF calculateResourceChange
  <1> HIDE DEF case, new, old, result
  <1>2. CASE case \in {"DesiredResourceFound", "DesiredResourceUpdated"}
    <2>1. /\ result.inst = NowPresent(a, new)
          /\ result.update.present = {a.desired[new.key].id}
      BY <1>2 DEF GetChangesForUpdatedResource, case, new, old, result, isChildUpsert, NoUpdate
    <2>2. result.update # NoUpdate
      BY <2>1 DEF NoUpdate
    <2>3. QED
      BY <2>1, <2>2, NowPresentKeeps
  <1>3. CASE case = "DesiredResourceRemoved"
    <2>1. /\ result.inst = NowMissing(a, old)
          /\ result.update.missing = {a.desired[old.key].id}
      BY <1>3 DEF GetChangesForUpdatedResource, case, new, old, result, isChildUpsert, NoUpdate
    <2>2. result.update # NoUpdate
      BY <2>1 DEF NoUpdate
    <2>3. QED
      BY <2>1, <2>2, NowMissingKeeps
  <1>4. CASE isChildUpsert(case)
    <2>1. /\ result.inst = upsertChildMonitoredResource(a, NewChildMonitoredResource(a, new))
          /\ result.update = [NoUpdate EXCEPT !.child = {new.key}]
      BY <1>4 DEF GetChangesForUpdatedResource, case, new, old, result, isChildUpsert
    <2>2. QED
      BY <2>1, ChildKeeps DEF NoUpdate
  <1>5. CASE case = "ChildResourceRemoved"
    <2>1. /\ result.inst = deleteChildMonitoredResource(a, old.key)
          /\ result.update = [NoUpdate EXCEPT !.deleted = {old.key}]
      BY <1>5 DEF GetChangesForUpdatedResource, case, new, old, result, isChildUpsert
    <2>2. QED
      BY <2>1, ChildKeeps DEF NoUpdate
  <1>6. CASE case = "NoChange"
    <2>1. result.inst = a
      BY <1>6 DEF GetChangesForUpdatedResource, case, new, old, result, isChildUpsert
    <2>2. QED
      BY <2>1
  <1>7. QED
    BY <1>1, <1>2, <1>3, <1>4, <1>5, <1>6 DEF isChildUpsert

-----------------------------------------------------------------------------
(* The target *)

InstancesInv == \A a \in DOMAIN instances : InstanceInv(instances[a])

(* Where the target is in an operation: a rescan is about one instance,    *)
(* which counts as edited until its scan is complete, and only a sweep     *)
(* goes on to a further instance.                                          *)
OpInv ==
  /\ op.name \in {"idle", "merge", "replace", "sweep", "walk", "publish"}
  /\ op.name \in {"idle", "publish"} => op.todo = {}
  /\ op.name \in {"merge", "replace"} => \E a \in op.todo : op.todo = {a} /\ a \notin settled
  /\ op.name = "walk" => /\ op.in \in {"merge", "replace", "sweep"}
                         /\ op.in # "sweep" => op.todo = {op.app}

(* The index holds what every instance reacts to, except while a sweep, or *)
(* a scan that is not published yet, may have changed that.                *)
Covered ==
  op.name \in {"idle", "merge", "replace"} =>
    \A a \in DOMAIN instances :
      /\ instances[a].tracked \subseteq interest
      /\ a \in settled => DOMAIN instances[a].desired \subseteq interest

ClusterInv == InstancesInv /\ OpInv /\ Covered

LEMMA ClusterInit == newClusterState => ClusterInv
  BY DEF newClusterState, ClusterInv, InstancesInv, OpInv, Covered, Idle

(* publishInterests publishes at least the tracked and the desired keys.   *)
LEMMA PublishedCovers ==
  ASSUME NEW insts, NEW a \in DOMAIN insts
  PROVE  /\ insts[a].tracked \subseteq KeysOfInterest(insts)
         /\ DOMAIN insts[a].desired \subseteq KeysOfInterest(insts)
  BY DEF KeysOfInterest, resourceKeysOfInterest

LEMMA UpsertKeeps ==
  ASSUME InstancesInv, NEW a, NEW inst, InstanceInv(inst), upsertApplicationInstance(a, inst)
  PROVE  InstancesInv'
  BY DEF InstancesInv, upsertApplicationInstance

LEMMA GetOrCreateKeeps ==
  ASSUME InstancesInv, NEW a
  PROVE  InstanceInv(getOrCreateApplicationInstance(a))
  BY NewInstance DEF InstancesInv, getOrCreateApplicationInstance

(* The commands.  Each publishes what it leaves. *)
LEMMA CommandsKeep == ClusterInv /\ Commands => ClusterInv'
  <1> SUFFICES ASSUME ClusterInv, Commands PROVE ClusterInv'
    OBVIOUS
  <1>1. PICK a \in AppIds :
          \/ \E carried \in SUBSET DOMAIN DesiredResources :
               BeginMerge(a, carried) \/ BeginReplace(a, carried)
          \/ \E ids \in SUBSET Ids : deleteDesiredResources(a, ids)
          \/ \E v \in DeployVersions : deleteDesiredResourcesExceptForVersion(a, v)
    BY DEF Commands
  <1>2. interest' = KeysOfInterest(instances') /\ settled' = settled \ {a}
    BY <1>1 DEF BeginMerge, BeginReplace, deleteDesiredResources,
                deleteDesiredResourcesExceptForVersion, Command, publishInterests
  <1>3. Covered'
    BY <1>2, PublishedCovers DEF Covered
  <1>4. ASSUME NEW carried \in SUBSET DOMAIN DesiredResources, BeginMerge(a, carried)
        PROVE  InstancesInv' /\ OpInv'
    <2>1. PICK incoming \in ResolvedIncoming(Restrict(DesiredResources, carried)) :
            /\ upsertApplicationInstance(a,
                 MergeDesiredResources(getOrCreateApplicationInstance(a), incoming))
            /\ op' = [name |-> "merge", todo |-> {a}, ids |-> desiredIds(incoming)]
      BY <1>4 DEF BeginMerge
    <2>2. InstanceInv(MergeDesiredResources(getOrCreateApplicationInstance(a), incoming))
      BY GetOrCreateKeeps, ResolvedIncomingIsIncoming, MergeKeeps DEF ClusterInv
    <2>3. InstancesInv'
      BY <2>1, <2>2, UpsertKeeps DEF ClusterInv
    <2>4. OpInv'
      BY <2>1, <1>2 DEF OpInv
    <2>5. QED
      BY <2>3, <2>4
  <1>5. ASSUME NEW carried \in SUBSET DOMAIN DesiredResources, BeginReplace(a, carried)
        PROVE  InstancesInv' /\ OpInv'
    <2>1. PICK incoming \in ResolvedIncoming(Restrict(DesiredResources, carried)) :
            /\ upsertApplicationInstance(a,
                 ReplaceDesiredResources(getOrCreateApplicationInstance(a), incoming))
            /\ op' = [name |-> "replace", todo |-> {a}, ids |-> desiredIds(incoming)]
      BY <1>5 DEF BeginReplace
    <2>2. InstanceInv(ReplaceDesiredResources(getOrCreateApplicationInstance(a), incoming))
      BY ResolvedIncomingIsIncoming, ReplaceKeeps
    <2>3. InstancesInv'
      BY <2>1, <2>2, UpsertKeeps DEF ClusterInv
    <2>4. OpInv'
      BY <2>1, <1>2 DEF OpInv
    <2>5. QED
      BY <2>3, <2>4
  <1>6. ASSUME NEW ids, deleteDesiredResources(a, ids)
        PROVE  InstancesInv' /\ OpInv'
    BY <1>6, DeleteKeeps DEF deleteDesiredResources, Command, ClusterInv, InstancesInv, OpInv, Idle
  <1>7. ASSUME NEW v, deleteDesiredResourcesExceptForVersion(a, v)
        PROVE  InstancesInv' /\ OpInv'
    BY <1>7, DeleteKeeps DEF deleteDesiredResourcesExceptForVersion, Command, ClusterInv,
                             InstancesInv, OpInv, Idle
  <1>8. QED
    BY <1>1, <1>3, <1>4, <1>5, <1>6, <1>7 DEF ClusterInv

(* A scan is begun: namespaces are resolved. *)
LEMMA StartScanKeeps ==
  ASSUME ClusterInv, NEW a, NEW disc, StartScan(a, disc)
  PROVE  ClusterInv'
  <1>1. PICK inst \in resolveNamespaces(instances[a], disc.mapped) :
          instances' = [instances EXCEPT ![a] = inst]
    BY DEF StartScan
  <1>2. InstancesInv'
    BY <1>1, ResolveNamespacesKeeps DEF ClusterInv, InstancesInv
  <1>3. op'.name = "walk" /\ op'.todo = op.todo /\ op'.in = op.name /\ op'.app = a
    BY DEF StartScan
  <1>4. a \in op.todo /\ op.name # "walk"
    BY DEF StartScan
  <1>5. OpInv' /\ Covered'
    BY <1>3, <1>4 DEF ClusterInv, OpInv, Covered
  <1>6. QED
    BY <1>2, <1>5 DEF ClusterInv

(* A scan fails: a rescan ends with its instance unsettled.                *)
LEMMA ScanFailsKeeps ==
  ASSUME ClusterInv, NEW a, NEW disc, ScanFails(a, disc)
  PROVE  ClusterInv'
  <1>1. PICK inst \in resolveNamespaces(instances[a], disc.mapped) :
          instances' = [instances EXCEPT ![a] = inst]
    BY DEF ScanFails
  <1>2. InstancesInv'
    BY <1>1, ResolveNamespacesKeeps DEF ClusterInv, InstancesInv
  <1>3. /\ a \in op.todo /\ op.name # "walk"
        /\ interest' = interest /\ settled' = settled
    BY DEF ScanFails
  <1>4. CASE op.name = "sweep"
    <2>1. op'.name \in {"sweep", "publish"} /\ (op'.name = "publish" => op'.todo = {})
      BY <1>4 DEF ScanFails, AfterScan
    <2>2. QED
      BY <1>2, <2>1 DEF ClusterInv, OpInv, Covered
  <1>5. CASE op.name # "sweep"
    <2>1. op' = Idle
      BY <1>5 DEF ScanFails
    <2>2. op.name \in {"merge", "replace"} /\ a \notin settled
      BY <1>3, <1>5 DEF ClusterInv, OpInv
    <2>3. \A x \in DOMAIN instances' : /\ x \in DOMAIN instances
                                       /\ instances'[x].tracked = instances[x].tracked
                                       /\ x # a => instances'[x] = instances[x]
      BY <1>1, ResolveNamespacesKeeps DEF ClusterInv, InstancesInv
    <2>4. Covered'
      BY <1>3, <2>1, <2>2, <2>3 DEF ClusterInv, Covered
    <2>5. OpInv'
      BY <2>1 DEF OpInv, Idle
    <2>6. QED
      BY <1>2, <2>4, <2>5 DEF ClusterInv
  <1>6. QED
    BY <1>4, <1>5

(* A scan is complete: only a sweep goes on, anything else publishes.      *)
LEMMA FinishScanKeeps == ClusterInv /\ FinishScan => ClusterInv'
  <1> SUFFICES ASSUME ClusterInv, FinishScan PROVE ClusterInv'
    OBVIOUS
  <1>1. InstancesInv'
    BY MonitoredKeeps DEF FinishScan, ClusterInv, InstancesInv
  <1>2. /\ op.name = "walk"
        /\ op'.name = IF op.todo \ {op.app} = {} THEN "publish" ELSE op.in
        /\ op'.todo = op.todo \ {op.app}
    BY DEF FinishScan, AfterScan
  <1>3. op'.name \in {"sweep", "publish"} /\ (op'.name = "publish" => op'.todo = {})
    BY <1>2 DEF ClusterInv, OpInv
  <1>4. QED
    BY <1>1, <1>3 DEF ClusterInv, OpInv, Covered

(* A queued change is applied to every instance.                           *)
LEMMA ApplyKeeps == ClusterInv /\ ApplyResourceChange => ClusterInv'
  <1> SUFFICES ASSUME ClusterInv, ApplyResourceChange PROVE ClusterInv'
    OBVIOUS
  <1>1. op' = op /\ settled' = settled
    BY DEF ApplyResourceChange
  <1>2. OpInv'
    BY <1>1 DEF ClusterInv, OpInv
  <1>3. PICK k : ChangeApplied(queued[k]) \/ StackExhausted
    BY DEF ApplyResourceChange
  <1>4. CASE StackExhausted
    BY <1>1, <1>2, <1>4 DEF StackExhausted, ClusterInv, InstancesInv, Covered
  <1>5. CASE ChangeApplied(queued[k])
    <2> DEFINE result == [a \in DOMAIN instances |->
                            GetChangesForUpdatedResource(instances[a], queued[k])]
               updated == {a \in DOMAIN instances : result[a].update # NoUpdate}
    <2>1. /\ instances' = [a \in DOMAIN instances |-> result[a].inst]
          /\ IF updated # {} THEN interest' = KeysOfInterest(instances') ELSE interest' = interest
      BY <1>5 DEF ChangeApplied, publishInterests
    <2>2. \A a \in DOMAIN instances : /\ InstanceInv(result[a].inst)
                                      /\ a \notin updated => result[a].inst = instances[a]
      BY ChangeKeeps DEF ClusterInv, InstancesInv
    <2> HIDE DEF result
    <2>3. InstancesInv'
      BY <2>1, <2>2 DEF InstancesInv
    <2>4. Covered'
      <3>1. CASE updated # {}
        BY <2>1, <3>1, PublishedCovers DEF Covered
      <3>2. CASE updated = {}
        BY <1>1, <2>1, <2>2, <3>2 DEF ClusterInv, Covered
      <3>3. QED
        BY <3>1, <3>2
    <2>5. QED
      BY <1>2, <2>3, <2>4 DEF ClusterInv
  <1>6. QED
    BY <1>3, <1>4, <1>5

(* The cluster changes: interest is at most inherited.                     *)
LEMMA EventKeeps ==
  ASSUME ClusterInv, NEW k, NEW res, ResourceEvent(k, res)
  PROVE  ClusterInv'
  <1>1. /\ interest \subseteq interest'
        /\ instances' = instances /\ op' = op /\ settled' = settled
    BY DEF ResourceEvent, InheritedInterest
  <1>2. QED
    BY <1>1 DEF ClusterInv, InstancesInv, OpInv, Covered

LEMMA ClusterStep == ClusterInv /\ [Next]_vars => ClusterInv'
  <1> SUFFICES ASSUME ClusterInv, [Next]_vars PROVE ClusterInv'
    OBVIOUS
  <1>1. CASE Commands
    BY <1>1, CommandsKeep
  <1>2. CASE SyncFails
    BY <1>2 DEF SyncFails, ClusterInv, InstancesInv, OpInv, Covered, Idle
  <1>3. CASE BeginSweep
    BY <1>3 DEF BeginSweep, ClusterInv, InstancesInv, OpInv, Covered
  <1>4. CASE \E a \in AppIds, disc \in Discoveries : StartScan(a, disc) \/ ScanFails(a, disc)
    BY <1>4, StartScanKeeps, ScanFailsKeeps
  <1>5. CASE FinishScan
    BY <1>5, FinishScanKeeps
  <1>6. CASE FinishPublish
    <2>1. Covered'
      BY <1>6, PublishedCovers DEF FinishPublish, Covered
    <2>2. QED
      BY <1>6, <2>1 DEF FinishPublish, ClusterInv, InstancesInv, OpInv, Idle
  <1>7. CASE ApplyResourceChange
    BY <1>7, ApplyKeeps
  <1>8. CASE \E k \in Keys : Created(k) \/ Touched(k) \/ Deleted(k)
    BY <1>8, EventKeeps DEF Created, Touched, Deleted
  <1>9. CASE UNCHANGED vars
    BY <1>9 DEF vars, ClusterInv, InstancesInv, OpInv, Covered
  <1>10. QED
    BY <1>1, <1>2, <1>3, <1>4, <1>5, <1>6, <1>7, <1>8, <1>9 DEF Next

LEMMA ClusterInvariant == Spec => []ClusterInv
  BY ClusterInit, ClusterStep, PTL DEF Spec

-----------------------------------------------------------------------------
(* desired_resource.go:53-63, application_instance.go:319-330: whatever    *)
(* discovery answers and when, a desired resource is filed under the key   *)
(* its events arrive under.                                                *)
THEOREM FiledUnderItsKey == Spec => []DesiredUnderItsKey
  <1>1. ClusterInv => DesiredUnderItsKey
    BY DEF ClusterInv, InstancesInv, InstanceInv, UnderItsKey, DesiredUnderItsKey
  <1>2. QED
    BY <1>1, ClusterInvariant, PTL

(* application_instance.go:140-248: no sequence of commands, scans, failed *)
(* scans and changes makes a resource both present and missing.            *)
THEOREM NeverPresentAndMissing == Spec => []PresentXorMissing
  <1>1. ClusterInv => PresentXorMissing
    BY DEF ClusterInv, InstancesInv, InstanceInv, NotBoth, PresentXorMissing
  <1>2. QED
    BY <1>1, ClusterInvariant, PTL

(* application_instance.go:53-67, shared_cluster.go:453-497: no desired    *)
(* resource is forgotten, in the middle of no command and by no failure.   *)
THEOREM NothingUnaccountedFor == Spec => []AccountedFor
  <1>1. ClusterInv => AccountedFor
    BY DEF ClusterInv, InstancesInv, InstanceInv, NoneLost, AccountedFor, desiredIds
  <1>2. QED
    BY <1>1, ClusterInvariant, PTL

(* cluster_state.go:261-277, 194-207: between operations the index holds   *)
(* every key that an instance reacts to.                                   *)
THEOREM EverythingHeardOf == Spec => []InterestCovered
  <1>1. ClusterInv => InterestCovered
    BY DEF ClusterInv, Covered, InterestCovered, Idle
  <1>2. QED
    BY <1>1, ClusterInvariant, PTL

-----------------------------------------------------------------------------
(* Induction.  The rules of the library take the predicate as a parameter; *)
(* these take the set of the numbers it holds for.                         *)

LEMMA LeastNumber ==
  ASSUME NEW T \in SUBSET Nat, T # {}
  PROVE  \E m \in T : \A n \in T : ~(n < m)
  <1> DEFINE R == OpToRel(<, Nat)
  <1>1. PICK m \in T : \A n \in T : ~(<<n, m>> \in R)
    BY NatLessThanWellFounded, WFMin, Zenon
  <1>2. \A n \in T : n < m => <<n, m>> \in R
    BY DEF OpToRel
  <1>3. QED
    BY <1>1, <1>2

LEMMA Counting ==
  ASSUME NEW G, 0 \in G, NEW N \in Nat, \A n \in 1..N : n - 1 \in G => n \in G
  PROVE  \A n \in 0..N : n \in G
  <1> SUFFICES ASSUME NEW x \in 0..N, x \notin G PROVE FALSE
    OBVIOUS
  <1> DEFINE T == {n \in 0..N : n \notin G}
  <1>1. T \in SUBSET Nat /\ T # {}
    OBVIOUS
  <1>2. PICK m \in T : \A n \in T : ~(n < m)
    BY <1>1, LeastNumber, Zenon
  <1>3. m \in 1..N /\ m - 1 \in 0..N /\ m - 1 < m
    BY <1>2
  <1>4. m - 1 \in G
    BY <1>2, <1>3
  <1>5. QED
    BY <1>3, <1>4

IsIteration(g, X, F, c, N) ==
  g \in [0..N -> X] /\ g[0] = c /\ \A n \in 1..N : g[n] = F[g[n - 1]]

LEMMA Iteration ==
  ASSUME NEW X, NEW F \in [X -> X], NEW c \in X, NEW N \in Nat
  PROVE  \E g : IsIteration(g, X, F, c, N)
  <1> DEFINE Is(g, m) == IsIteration(g, X, F, c, m)
             G == {m \in Nat : \E g : Is(g, m)}
  <1>1. 0 \in G
    <2>1. Is([i \in 0..0 |-> c], 0)
      BY DEF IsIteration
    <2>2. QED
      BY <2>1
  <1>2. ASSUME NEW m \in 1..N, m - 1 \in G
        PROVE  m \in G
    <2>1. PICK g : Is(g, m - 1)
      BY <1>2
    <2> DEFINE h == [i \in 0..m |-> IF i = m THEN F[g[m - 1]] ELSE g[i]]
    <2>2. h \in [0..m -> X]
      BY <2>1 DEF IsIteration
    <2>3. h[0] = c /\ \A n \in 1..m : h[n] = F[h[n - 1]]
      BY <2>1 DEF IsIteration
    <2>4. Is(h, m)
      BY <2>2, <2>3 DEF IsIteration
    <2> HIDE DEF h, Is
    <2>5. QED
      BY <2>4
  <1> HIDE DEF G
  <1>3. \A m \in 1..N : m - 1 \in G => m \in G
    BY <1>2
  <1>4. \A m \in 0..N : m \in G
    BY <1>1, <1>3, Counting, Zenon
  <1>5. QED
    BY <1>4 DEF G

(* IterateHierarchyV2: the walk finds every managed object that is there, *)
(* and nothing that is not. *)
LEMMA DiscoveredIsLive ==
  ASSUME NEW managed \in SUBSET Keys
  PROVE  /\ {k \in managed : live[k] # Nil} \subseteq Discovered(managed)
         /\ Discovered(managed) \subseteq {k \in Keys : live[k] # Nil}
  <1> DEFINE N == Cardinality(Keys)
             there == {k \in Keys : live[k] # Nil}
             base == {k \in managed : live[k] # Nil}
             step(S) == UNION {{p} \cup {k \in Keys : IsChildOf(k, p)} : p \in S}
             F == [S \in SUBSET there |-> step(S)]
             IsWalk(g) == g = [n \in 0..N |-> IF n = 0 THEN base ELSE step(g[n - 1])]
             below == CHOOSE g : IsWalk(g)
  <1>1. N \in Nat
    BY KeysAssumption, FS_CardinalityType
  <1>2. Discovered(managed) = below[N]
    BY DEF Discovered
  <1>3. \A k, p : IsChildOf(k, p) => live[k] # Nil
    BY DEF IsChildOf
  <1> DEFINE X == SUBSET there
  <1>4. F \in [X -> X]
    BY <1>3
  <1>a. base \in X
    OBVIOUS
  <1> HIDE DEF N, F, base, X
  <1>5. PICK g : IsIteration(g, X, F, base, N)
    BY <1>1, <1>4, <1>a, Iteration
  <1>b. \A n \in 0..N : g[n] = IF n = 0 THEN base ELSE step(g[n - 1])
    <2> SUFFICES ASSUME NEW n \in 0..N, n # 0 PROVE g[n] = step(g[n - 1])
      BY <1>5 DEF IsIteration
    <2>1. n \in 1..N /\ n - 1 \in 0..N
      BY <1>1
    <2>2. g[n - 1] \in SUBSET there
      BY <1>5, <2>1 DEF X, IsIteration
    <2>3. QED
      BY <1>5, <2>1, <2>2 DEF F, IsIteration
  <1>6. IsWalk(g)
    BY <1>5, <1>b DEF IsIteration
  <1>7. IsWalk(below)
    BY <1>6, Zenon
  <1> HIDE DEF below
  <1> DEFINE G == {n \in 0..N : base \subseteq below[n] /\ below[n] \subseteq there}
  <1>c. below[0] = base
    BY <1>1, <1>7
  <1>8. 0 \in G
    BY <1>1, <1>a, <1>c DEF X
  <1>9. \A n \in 1..N : n - 1 \in G => n \in G
    <2> SUFFICES ASSUME NEW n \in 1..N, n - 1 \in G PROVE n \in G
      OBVIOUS
    <2>1. n \in 0..N /\ n # 0
      BY <1>1
    <2>2. below[n] = step(below[n - 1])
      BY <2>1, <1>7
    <2>3. QED
      BY <2>1, <2>2, <1>3
  <1> HIDE DEF G
  <1>10. N \in G
    BY <1>1, <1>8, <1>9, Counting
  <1>11. QED
    BY <1>2, <1>10 DEF G, base

(* getRootParentResource: what is reached in at most one climb more than  *)
(* there are children.                                                     *)
OwnersOf(u, child) == {child[c].ownerId : c \in {x \in DOMAIN child : uidOf(child[x].res) = u}}

ClimbFrom(T, child) ==
  UNION {IF OwnersOf(u, child) = {} THEN {u} ELSE OwnersOf(u, child) : u \in T}

IsClimb(at, ownerId, child, S) ==
  LET N == Cardinality(DOMAIN child) + 1
  IN  /\ at[0] = {ownerId}
      /\ \A n \in 0..N : at[n] \in (SUBSET S) \ {{}}
      /\ \A n \in 1..N : at[n] = ClimbFrom(at[n - 1], child)
      /\ LET top == CHOOSE u \in at[N] : TRUE
         IN  climb(ownerId, child) = [top |-> top, ends |-> OwnersOf(top, child) = {}]

LEMMA Climbs ==
  ASSUME NEW child, IsFiniteSet(DOMAIN child), NEW S, NEW ownerId \in S,
         \A c \in DOMAIN child : child[c].ownerId \in S
  PROVE  \E at : IsClimb(at, ownerId, child, S)
  <1> DEFINE up(u) == OwnersOf(u, child)
             N == Cardinality(DOMAIN child) + 1
             step(T) == ClimbFrom(T, child)
             X == (SUBSET S) \ {{}}
             F == [T \in X |-> step(T)]
             Is(g) == g = [n \in 0..N |-> IF n = 0 THEN {ownerId} ELSE step(g[n - 1])]
             at == CHOOSE g : Is(g)
             top == CHOOSE u \in at[N] : TRUE
  <1>1. N \in Nat
    BY FS_CardinalityType
  <1>2. climb(ownerId, child) = [top |-> top, ends |-> up(top) = {}]
    BY DEF climb, OwnersOf, ClimbFrom
  <1>3. \A u : up(u) \in SUBSET S
    BY DEF OwnersOf
  <1> HIDE DEF up
  <1>4. ASSUME NEW T \in X PROVE step(T) \in X
    <2>0. step(T) = UNION {IF up(u) = {} THEN {u} ELSE up(u) : u \in T}
      BY DEF ClimbFrom, up
    <2>1. step(T) \in SUBSET S
      BY <1>3, <2>0
    <2>2. PICK u \in T : TRUE
      OBVIOUS
    <2>3. (IF up(u) = {} THEN {u} ELSE up(u)) \subseteq step(T)
      BY <2>0
    <2>4. step(T) # {}
      BY <2>3
    <2>5. QED
      BY <2>1, <2>4
  <1>a. F \in [X -> X]
    BY <1>4
  <1>b. {ownerId} \in X
    OBVIOUS
  <1> HIDE DEF N, F, X, step
  <1>5. PICK g : IsIteration(g, X, F, {ownerId}, N)
    BY <1>1, <1>a, <1>b, Iteration
  <1>c. \A n \in 0..N : g[n] = IF n = 0 THEN {ownerId} ELSE step(g[n - 1])
    <2> SUFFICES ASSUME NEW n \in 0..N, n # 0 PROVE g[n] = step(g[n - 1])
      BY <1>5 DEF IsIteration
    <2>1. n \in 1..N /\ n - 1 \in 0..N
      BY <1>1
    <2>2. g[n - 1] \in X
      BY <1>5, <2>1 DEF IsIteration
    <2>3. QED
      BY <1>5, <2>1, <2>2 DEF F, IsIteration
  <1>6. Is(g)
    BY <1>5, <1>c DEF IsIteration
  <1>7. Is(at)
    BY <1>6, Zenon
  <1> HIDE DEF at
  <1> DEFINE G == {n \in 0..N : at[n] \in X}
  <1>d. at[0] = {ownerId}
    BY <1>1, <1>7
  <1>e. \A n \in 1..N : at[n] = step(at[n - 1])
    <2>1. \A n \in 1..N : n \in 0..N /\ n # 0
      BY <1>1
    <2>2. QED
      BY <1>7, <2>1
  <1>8. 0 \in G
    BY <1>1, <1>b, <1>d
  <1>9. \A n \in 1..N : n - 1 \in G => n \in G
    <2> SUFFICES ASSUME NEW n \in 1..N, n - 1 \in G PROVE n \in G
      OBVIOUS
    <2>1. n \in 0..N
      BY <1>1
    <2>3. QED
      BY <2>1, <1>e, <1>4
  <1> HIDE DEF G
  <1>10. \A n \in 0..N : n \in G
    BY <1>1, <1>8, <1>9, Counting
  <1>11. \A n \in 0..N : at[n] \in X
    BY <1>10 DEF G
  <1>12. IsClimb(at, ownerId, child, S)
    <2> HIDE DEF top
    <2>1. QED
      BY <1>2, <1>d, <1>e, <1>11 DEF IsClimb, X, N, step, top, up
  <1>13. QED
    BY <1>12

(* The root owner is the owner itself or one of the owners of the          *)
(* children.                                                               *)
LEMMA RootIsAnOwner ==
  ASSUME NEW child, IsFiniteSet(DOMAIN child), NEW S, NEW ownerId \in S,
         \A c \in DOMAIN child : child[c].ownerId \in S
  PROVE  getRootParentResource(ownerId, child) \in S
  <1> DEFINE N == Cardinality(DOMAIN child) + 1
  <1>1. N \in 0..N
    BY FS_CardinalityType
  <1>2. PICK at : IsClimb(at, ownerId, child, S)
    BY Climbs
  <1>3. at[N] \in (SUBSET S) \ {{}}
    BY <1>1, <1>2 DEF IsClimb
  <1>4. getRootParentResource(ownerId, child) = CHOOSE u \in at[N] : TRUE
    BY <1>2 DEF IsClimb, getRootParentResource
  <1>5. QED
    BY <1>3, <1>4

(* The search ends if every owner was born before what it owns: each climb *)
(* leaves a child behind.                                                  *)
LEMMA SearchEnds ==
  ASSUME NEW child, IsFiniteSet(DOMAIN child), NEW rank \in [Uids -> Nat],
         NEW ownerId \in Uids \cup {NoUid},
         \A c \in DOMAIN child :
           /\ uidOf(child[c].res) \in Uids
           /\ child[c].ownerId \in Uids \cup {NoUid}
           /\ child[c].ownerId # NoUid => rank[child[c].ownerId] < rank[uidOf(child[c].res)]
  PROVE  climb(ownerId, child).ends
  <1> DEFINE C == Cardinality(DOMAIN child)
             S == Uids \cup {NoUid}
             up(u) == OwnersOf(u, child)
             older(u) == {c \in DOMAIN child : rank[uidOf(child[c].res)] <= rank[u]}
  <1>1. C \in Nat
    BY FS_CardinalityType
  <1>2. PICK at : IsClimb(at, ownerId, child, S)
    BY Climbs
  <1>3. /\ at[0] = {ownerId}
        /\ \A n \in 0..C + 1 : at[n] \in (SUBSET S) \ {{}}
        /\ \A n \in 1..C + 1 : at[n] = ClimbFrom(at[n - 1], child)
        /\ climb(ownerId, child).ends = (up(CHOOSE u \in at[C + 1] : TRUE) = {})
    BY <1>2 DEF IsClimb
  <1>4. up(NoUid) = {}
    BY NoUidAssumption DEF OwnersOf
  <1>5. ASSUME NEW u PROVE IsFiniteSet(older(u)) /\ Cardinality(older(u)) \in Nat /\ Cardinality(older(u)) <= C
    BY FS_Subset, FS_CardinalityType
  <1> DEFINE Left(u, n) == up(u) = {} \/ Cardinality(older(u)) + n <= C
             G == {n \in 0..C + 1 : \A u \in at[n] : Left(u, n)}
  <1>6. 0 \in G
    <2> HIDE DEF older, up
    <2>1. Cardinality(older(ownerId)) + 0 <= C
      BY <1>1, <1>5
    <2>2. \A u \in at[0] : Left(u, 0)
      BY <1>3, <2>1
    <2>3. QED
      BY <1>1, <2>2
  <1>7. ASSUME NEW n \in 1..C + 1, n - 1 \in G, NEW v \in at[n]
        PROVE  Left(v, n)
    <2>1. n - 1 \in 0..C + 1 /\ \A u \in at[n - 1] : Left(u, n - 1)
      BY <1>7
    <2>2. PICK u \in at[n - 1] : v \in IF up(u) = {} THEN {u} ELSE up(u)
      BY <1>3 DEF ClimbFrom
    <2>3. CASE up(u) = {}
      BY <2>2, <2>3
    <2>4. CASE up(u) # {}
      <3>1. PICK c \in DOMAIN child : uidOf(child[c].res) = u /\ v = child[c].ownerId
        BY <2>2, <2>4 DEF OwnersOf
      <3>2. CASE v = NoUid
        BY <1>4, <3>2
      <3>3. CASE v # NoUid
        <4>1. rank[v] < rank[u] /\ u \in Uids /\ v \in Uids /\ rank[u] \in Nat /\ rank[v] \in Nat
          BY <3>1, <3>3
        <4>2. c \in older(u)
          BY <3>1, <4>1
        <4>3. older(v) \subseteq older(u) \ {c}
          <5> SUFFICES ASSUME NEW x \in older(v) PROVE x \in older(u) /\ x # c
            OBVIOUS
          <5>1. rank[uidOf(child[x].res)] \in Nat /\ rank[uidOf(child[x].res)] <= rank[v]
            OBVIOUS
          <5>2. QED
            BY <3>1, <4>1, <5>1
        <4> HIDE DEF older
        <4>4. IsFiniteSet(older(u)) /\ Cardinality(older(u)) \in Nat
          BY <1>5
        <4>5. /\ IsFiniteSet(older(u) \ {c})
              /\ Cardinality(older(u) \ {c}) = Cardinality(older(u)) - 1
          BY <4>2, <4>4, FS_RemoveElement
        <4>6. Cardinality(older(v)) <= Cardinality(older(u)) - 1 /\ Cardinality(older(v)) \in Nat
          BY <4>3, <4>5, <1>5, FS_Subset
        <4>7. Cardinality(older(u)) + (n - 1) <= C
          BY <2>1, <2>4
        <4>8. QED
          BY <1>1, <4>4, <4>6, <4>7
      <3>4. QED
        BY <3>2, <3>3
    <2>5. QED
      BY <2>3, <2>4
  <1>8. \A n \in 1..C + 1 : n - 1 \in G => n \in G
    <2> HIDE DEF Left
    <2>1. \A n \in 1..C + 1 : n \in 0..C + 1
      BY <1>1
    <2>2. QED
      BY <1>7, <2>1
  <1> HIDE DEF G
  <1>9. \A n \in 0..C + 1 : n \in G
    BY <1>1, <1>6, <1>8, Counting
  <1> DEFINE top == CHOOSE u \in at[C + 1] : TRUE
  <1>10. top \in at[C + 1]
    BY <1>1, <1>3
  <1>11. Left(top, C + 1)
    BY <1>1, <1>9, <1>10 DEF G
  <1>12. up(top) = {}
    BY <1>1, <1>5, <1>11
  <1>13. QED
    BY <1>3, <1>12

-----------------------------------------------------------------------------
(* Types *)

UidOrNone == Uids \cup {NoUid}

(* What an instance desires has its type by the invariant; the rest is     *)
(* what has to be looked at.                                               *)
HeldTypeOK(inst) ==
  /\ DOMAIN inst.present \subseteq Ids
  /\ \A i \in DOMAIN inst.present : inst.present[i] \in Resource
  /\ DOMAIN inst.child \subseteq Keys
  /\ \A k \in DOMAIN inst.child :
       /\ inst.child[k].res \in StatesOf(k) \ {Nil}
       /\ inst.child[k].ownerId \in UidOrNone
       /\ inst.child[k].rootOwnerId \in UidOrNone
  /\ inst.missing \subseteq Ids /\ inst.unknown \subseteq Ids
  /\ inst.tracked \subseteq Keys

LEMMA HeldIsEnough ==
  ASSUME NEW a, InstanceInv(a)
  PROVE  HeldTypeOK(a) <=> InstanceTypeOK(a)
  BY DEF HeldTypeOK, InstanceTypeOK, UidOrNone, InstanceInv, IsInstance, UnderItsKey,
         IsDesiredResource, ResourceKey

LEMMA ResourceTypes ==
  ASSUME NEW k, NEW r \in StatesOf(k), r # Nil
  PROVE  /\ r \in Resource /\ r.key = k /\ k \in Keys
         /\ uidOf(r) \in Uids /\ r.version.owner \in UidOrNone
         /\ infoOwnerUid(r) \in UidOrNone
  BY VersionsAssumption DEF StatesOf, ResourceOrNil, Resource, uidOf, infoOwnerUid, UidOrNone

LEMMA ChildOwnersTyped ==
  ASSUME NEW a, HeldTypeOK(a), NEW ownerId \in UidOrNone
  PROVE  getRootParentResource(ownerId, a.child) \in UidOrNone
  <1>1. IsFiniteSet(DOMAIN a.child)
    BY KeysAssumption, FS_Subset DEF HeldTypeOK
  <1>2. QED
    BY <1>1, RootIsAnOwner DEF HeldTypeOK

(* The methods of an instance keep the types. *)
LEMMA DesiredEditsTyped ==
  ASSUME NEW a, InstanceInv(a), HeldTypeOK(a), NEW incoming, IsIncoming(incoming), NEW ids, NEW v
  PROVE  /\ HeldTypeOK(NewApplicationInstance)
         /\ HeldTypeOK(MergeDesiredResources(a, incoming))
         /\ HeldTypeOK(ReplaceDesiredResources(a, incoming))
         /\ HeldTypeOK(DeleteDesiredResources(a, ids))
         /\ HeldTypeOK(DeleteDesiredResourcesExceptForVersion(a, v))
  <1>1. HeldTypeOK(NewApplicationInstance)
    BY DEF HeldTypeOK, NewApplicationInstance
  <1>2. desiredIds(incoming) \subseteq Ids
    BY DEF desiredIds, IsIncoming, IsDesiredResource
  <1>3. HeldTypeOK(MergeDesiredResources(a, incoming))
    BY <1>2 DEF HeldTypeOK, MergeDesiredResources, InstanceInv, IsInstance
  <1>4. HeldTypeOK(ReplaceDesiredResources(a, incoming))
    BY <1>2 DEF HeldTypeOK, ReplaceDesiredResources, NewApplicationInstance
  <1>5. /\ HeldTypeOK(DeleteDesiredResources(a, ids))
        /\ HeldTypeOK(DeleteDesiredResourcesExceptForVersion(a, v))
    BY DEF HeldTypeOK, DeleteDesiredResources, DeleteDesiredResourcesExceptForVersion,
           InstanceInv, IsInstance
  <1>6. QED
    BY <1>1, <1>3, <1>4, <1>5

LiveTypeOK == DOMAIN live = Keys /\ \A k \in Keys : live[k] \in StatesOf(k)

(* getFirstOwnerId (shared_cluster.go:500-537) *)
LEMMA FirstOwnerTyped ==
  ASSUME LiveTypeOK, NEW k \in Keys, live[k] # Nil
  PROVE  getFirstOwnerId(live[k]) \in UidOrNone
  <1>1. live[k].key = k /\ live[k].version.owner \in UidOrNone
    BY ResourceTypes DEF LiveTypeOK
  <1>2. CASE k \in FilledIn /\ live[k].version.owner = NoUid
    <2>1. Owner[k] \in Keys
      BY <1>2, FilledInAssumption, OwnerAssumption
    <2>2. live[Owner[k]] # Nil => uidOf(live[Owner[k]]) \in UidOrNone
      BY <2>1, ResourceTypes DEF LiveTypeOK, UidOrNone
    <2>3. QED
      BY <1>1, <2>2 DEF getFirstOwnerId, UidOrNone
  <1>3. CASE ~(k \in FilledIn /\ live[k].version.owner = NoUid)
    BY <1>1, <1>3 DEF getFirstOwnerId, ownerRefKeys, UidOrNone
  <1>4. QED
    BY <1>2, <1>3
(* getMonitoredResources: what a scan finds is there, and has its type.    *)
LEMMA MonitoredTyped ==
  ASSUME NEW a, InstanceInv(a), HeldTypeOK(a), LiveTypeOK, NEW managed \in SUBSET Keys, NEW disc
  PROVE  HeldTypeOK(Monitored(a, managed, disc))
  <1> DEFINE desired == a.desired
             found == Discovered(managed)
             presentKeys == found \cap DOMAIN desired
             present == [i \in {desired[k].id : k \in presentKeys} |->
                           live[CHOOSE k \in presentKeys : desired[k].id = i]]
             owned == [k \in found \ DOMAIN desired |->
                         [res |-> live[k], ownerId |-> getFirstOwnerId(live[k])]]
             child == [k \in DOMAIN owned |->
                         [res |-> owned[k].res, ownerId |-> owned[k].ownerId,
                          rootOwnerId |-> getRootParentResource(owned[k].ownerId, owned)]]
             unknown == UnknownBeforehand(desired, disc)
             rest == {k \in DOMAIN desired : desired[k].id \notin DOMAIN present \cup unknown}
             forbidden == {k \in rest : desired[k].kind \in disc.known \ disc.accessible}
             missing == {desired[k].id : k \in rest \ forbidden}
             unread == unknown \cup {desired[k].id : k \in forbidden}
  <1>1. Monitored(a, managed, disc) = replaceMonitoredResources(a, present, child, missing, unread)
    BY DEF Monitored
  <1>2. \A k \in DOMAIN desired : desired[k].id \in Ids
    BY DEF InstanceInv, IsInstance, IsDesiredResource
  <1>3. \A k \in found : /\ k \in Keys /\ live[k] \in StatesOf(k) /\ live[k] # Nil
                         /\ live[k] \in Resource /\ live[k].key \in Keys
    BY DiscoveredIsLive, ResourceTypes DEF LiveTypeOK
  <1>4. \A k \in found : getFirstOwnerId(live[k]) \in UidOrNone
    BY <1>3, FirstOwnerTyped
  <1> HIDE DEF found
  <1>5. DOMAIN present \subseteq Ids /\ \A i \in DOMAIN present : present[i] \in Resource /\ present[i].key \in Keys
    <2> SUFFICES ASSUME NEW i \in {desired[k].id : k \in presentKeys}
                 PROVE  i \in Ids /\ present[i] \in Resource /\ present[i].key \in Keys
      OBVIOUS
    <2>1. PICK k \in presentKeys : desired[k].id = i
      OBVIOUS
    <2>2. (CHOOSE x \in presentKeys : desired[x].id = i) \in presentKeys
      BY <2>1
    <2>3. QED
      BY <2>1, <2>2, <1>2, <1>3
  <1>6. DOMAIN owned \subseteq Keys /\ IsFiniteSet(DOMAIN owned)
    BY <1>3, KeysAssumption, FS_Subset
  <1>7. \A k \in DOMAIN owned : owned[k].res \in StatesOf(k) \ {Nil} /\ owned[k].ownerId \in UidOrNone
    BY <1>3, <1>4
  <1> HIDE DEF owned
  <1>8. \A k \in DOMAIN owned : getRootParentResource(owned[k].ownerId, owned) \in UidOrNone
    BY <1>6, <1>7, RootIsAnOwner
  <1>9. /\ DOMAIN child \subseteq Keys
        /\ \A k \in DOMAIN child : /\ child[k].res \in StatesOf(k) \ {Nil}
                                   /\ child[k].ownerId \in UidOrNone
                                   /\ child[k].rootOwnerId \in UidOrNone
    BY <1>6, <1>7, <1>8
  <1>10. missing \subseteq Ids /\ unread \subseteq Ids
    BY <1>2 DEF UnknownBeforehand
  <1> HIDE DEF present, child, missing, unread
  <1>11. QED
    BY <1>1, <1>5, <1>9, <1>10
       DEF HeldTypeOK, replaceMonitoredResources, InstanceInv, IsInstance

ChangeTypeOK(k, change) == change \in [oldRes : StatesOf(k), newRes : StatesOf(k)]

(* GetParentResourceId (application_instance.go:105-130) *)
LEMMA ParentTyped ==
  ASSUME NEW a, HeldTypeOK(a), NEW k, NEW r \in StatesOf(k), r # Nil
  PROVE  GetParentResourceId(a, r) \in UidOrNone
  <1> DEFINE owned(o) == IF /\ o \in DOMAIN a.desired
                            /\ a.desired[o].id \in DOMAIN a.present
                         THEN {uidOf(a.present[a.desired[o].id])}
                         ELSE IF o \in DOMAIN a.child THEN {uidOf(a.child[o].res)} ELSE {}
             known == UNION {owned(o) : o \in ownerRefKeys(r)}
  <1>1. \A i \in DOMAIN a.present : uidOf(a.present[i]) \in Uids
    BY VersionsAssumption DEF HeldTypeOK, Resource, uidOf
  <1>2. \A o \in DOMAIN a.child : uidOf(a.child[o].res) \in Uids
    BY ResourceTypes DEF HeldTypeOK
  <1>3. \A o : owned(o) \subseteq Uids
    BY <1>1, <1>2
  <1>4. known \subseteq Uids
    BY <1>3
  <1>5. known # {} => (CHOOSE u \in known : TRUE) \in UidOrNone
    BY <1>4 DEF UidOrNone
  <1>6. /\ infoOwnerUid(r) \in UidOrNone /\ NoUid \in UidOrNone
    BY ResourceTypes DEF UidOrNone
  <1>7. GetParentResourceId(a, r) = IF ownerRefKeys(r) # {} /\ infoOwnerUid(r) # NoUid
                                    THEN infoOwnerUid(r)
                                    ELSE IF known # {} THEN CHOOSE u \in known : TRUE ELSE NoUid
    BY DEF GetParentResourceId
  <1> HIDE DEF known
  <1>8. QED
    BY <1>5, <1>6, <1>7
(* One change of one resource keeps the types. *)
LEMMA ChangeTyped ==
  ASSUME NEW a, InstanceInv(a), HeldTypeOK(a), NEW k, NEW change, ChangeTypeOK(k, change)
  PROVE  HeldTypeOK(GetChangesForUpdatedResource(a, change).inst)
  <1> DEFINE case == calculateResourceChange(a, change)
             new == change.newRes
             old == change.oldRes
             inst == GetChangesForUpdatedResource(a, change).inst
  <1>1. new \in StatesOf(k) /\ old \in StatesOf(k)
    BY DEF ChangeTypeOK
  <1>2. case \in {"DesiredResourceFound", "DesiredResourceUpdated", "ChildResourceUpdated",
                  "DesiredResourceRemoved", "ChildResourceRemoved", "ChildResourceFound",
                  "NoChange"}
    BY DEF calculateResourceChange
  <1>3. /\ case \in {"DesiredResourceFound", "DesiredResourceUpdated"} =>
             new # Nil /\ new.key \in DOMAIN a.desired
        /\ case = "DesiredResourceRemoved" =>
             /\ old # Nil /\ old.key \in DOMAIN a.desired
             /\ a.desired[old.key].id \in DOMAIN a.present
        /\ isChildUpsert(case) => new # Nil
    BY DEF calculateResourceChange, isChildUpsert
  <1>4. DOMAIN a = {"desired", "present", "child", "missing", "unknown", "tracked"}
    BY DEF InstanceInv, IsInstance
  <1>5. \A x \in DOMAIN a.desired : a.desired[x].id \in Ids
    BY DEF InstanceInv, IsInstance, IsDesiredResource
  <1> HIDE DEF case, new, old
  <1>6. CASE case \in {"DesiredResourceFound", "DesiredResourceUpdated"}
    <2>1. inst = NowPresent(a, new)
      BY <1>6 DEF GetChangesForUpdatedResource, case, new, old, isChildUpsert
    <2>2. new \in Resource /\ new.key \in Keys
      BY <1>1, <1>3, <1>6, ResourceTypes
    <2>3. a.desired[new.key].id \in Ids
      BY <1>3, <1>5, <1>6
    <2>4. HeldTypeOK(NowPresent(a, new))
      BY <2>2, <2>3, <1>4 DEF HeldTypeOK, NowPresent, upsertPresentMonitoredResource
    <2>5. QED
      BY <2>1, <2>4
  <1>7. CASE case = "DesiredResourceRemoved"
    <2>1. inst = NowMissing(a, old)
      BY <1>7 DEF GetChangesForUpdatedResource, case, new, old, isChildUpsert
    <2>2. a.desired[old.key].id \in Ids
      BY <1>3, <1>5, <1>7
    <2>3. HeldTypeOK(NowMissing(a, old))
      BY <2>2, <1>4 DEF HeldTypeOK, NowMissing, deletePresentMonitoredResource, Restrict
    <2>4. QED
      BY <2>1, <2>3
  <1>8. CASE isChildUpsert(case)
    <2> DEFINE c == NewChildMonitoredResource(a, new)
    <2>1. inst = upsertChildMonitoredResource(a, c)
      BY <1>8 DEF GetChangesForUpdatedResource, case, new, old, isChildUpsert
    <2>2. new # Nil /\ new.key = k /\ k \in Keys
      BY <1>1, <1>3, <1>8, ResourceTypes
    <2>3. GetParentResourceId(a, new) \in UidOrNone
      BY <1>1, <2>2, ParentTyped
    <2>4. /\ c.res = new /\ c.ownerId = GetParentResourceId(a, new)
          /\ c.rootOwnerId = getRootParentResource(GetParentResourceId(a, new), a.child)
      BY DEF NewChildMonitoredResource
    <2>5. c.res \in StatesOf(k) \ {Nil} /\ c.ownerId \in UidOrNone /\ c.rootOwnerId \in UidOrNone
      BY <1>1, <2>2, <2>3, <2>4, ChildOwnersTyped
    <2>6. c.res.key = k
      BY <2>2, <2>4
    <2> HIDE DEF c
    <2>7. HeldTypeOK(upsertChildMonitoredResource(a, c))
      BY <1>4, <2>2, <2>5, <2>6 DEF HeldTypeOK, upsertChildMonitoredResource
    <2>8. QED
      BY <2>1, <2>7
  <1>9. CASE case = "ChildResourceRemoved"
    <2>1. inst = deleteChildMonitoredResource(a, old.key)
      BY <1>9 DEF GetChangesForUpdatedResource, case, new, old, isChildUpsert
    <2>2. HeldTypeOK(deleteChildMonitoredResource(a, old.key))
      BY <1>4 DEF HeldTypeOK, deleteChildMonitoredResource, Restrict
    <2>3. QED
      BY <2>1, <2>2
  <1>10. CASE case = "NoChange"
    BY <1>10 DEF GetChangesForUpdatedResource, case, new, old, isChildUpsert
  <1>11. QED
    BY <1>2, <1>6, <1>7, <1>8, <1>9, <1>10 DEF isChildUpsert

(* The queue holds changes of the resources they are filed under. *)
QueueTypeOK ==
  DOMAIN queued \subseteq Keys /\ \A k \in DOMAIN queued : ChangeTypeOK(k, queued[k])

LEMMA AcceptTyped ==
  ASSUME QueueTypeOK, NEW k \in Keys, NEW old \in StatesOf(k), NEW new \in StatesOf(k),
         old # Nil \/ new # Nil, Accept([oldRes |-> old, newRes |-> new])
  PROVE  /\ QueueTypeOK'
         /\ DOMAIN queued' = DOMAIN queued \cup {k}
         /\ queued'[k].newRes = new
         /\ \A x \in DOMAIN queued \ {k} : queued'[x] = queued[x]
  <1> DEFINE change == [oldRes |-> old, newRes |-> new]
  <1>1. key(change) = k
    BY ResourceTypes DEF key
  <1>2. ChangeTypeOK(k, change)
    BY DEF ChangeTypeOK
  <1>3. CASE Fold(change)
    BY <1>1, <1>3 DEF Fold, QueueTypeOK, ChangeTypeOK
  <1>4. CASE Enqueue(change)
    BY <1>1, <1>2, <1>4 DEF Enqueue, QueueTypeOK
  <1>5. QED
    BY <1>3, <1>4 DEF Accept
(* The target: what TypeOK says, as what the methods above keep, and what  *)
(* a scan that has begun will read.                                        *)
InstancesTyped ==
  /\ DOMAIN instances \subseteq AppIds
  /\ \A a \in DOMAIN instances : HeldTypeOK(instances[a])

OpTyped ==
  /\ op.todo \cup settled \subseteq DOMAIN instances
  /\ op.name = "walk" => op.app \in op.todo /\ op.managed \in SUBSET Keys
  /\ \A u \in sent : u.app \in DOMAIN instances

CountsTyped ==
  /\ births \in [Keys -> Nat]
  /\ touches \in 0..MaxTouches /\ commands \in 0..MaxCommands
  /\ missed \in [AppIds -> SUBSET Keys]
  /\ interest \subseteq Keys
  /\ dead \in BOOLEAN

TypeInv == LiveTypeOK /\ InstancesTyped /\ OpTyped /\ CountsTyped /\ QueueTypeOK

LEMMA TypeInvIsEnough == ClusterInv /\ TypeInv => TypeOK
  <1> SUFFICES ASSUME ClusterInv, TypeInv PROVE TypeOK
    OBVIOUS
  <1>1. \A a \in DOMAIN instances : InstanceTypeOK(instances[a])
    BY HeldIsEnough DEF ClusterInv, InstancesInv, TypeInv, InstancesTyped
  <1>2. QED
    BY <1>1 DEF ClusterInv, OpInv, TypeInv, LiveTypeOK, InstancesTyped, OpTyped, CountsTyped,
                QueueTypeOK, ChangeTypeOK, TypeOK

LEMMA TypeInit == newClusterState => TypeInv
  <1> SUFFICES ASSUME newClusterState PROVE TypeInv
    OBVIOUS
  <1>1. \A k \in Keys : Nil \in StatesOf(k)
    BY DEF StatesOf, ResourceOrNil
  <1>2. LiveTypeOK /\ InstancesTyped /\ OpTyped /\ QueueTypeOK
    BY <1>1 DEF newClusterState, LiveTypeOK, InstancesTyped, OpTyped, Idle, QueueTypeOK,
                newChangeQueue
  <1>3. CountsTyped
    <2>1. MaxTouches \in Nat /\ MaxCommands \in Nat
      BY BoundsAssumption
    <2>2. touches \in 0..MaxTouches /\ commands \in 0..MaxCommands
      BY <2>1 DEF newClusterState
    <2>3. /\ births \in [Keys -> Nat] /\ missed \in [AppIds -> SUBSET Keys]
          /\ interest \subseteq Keys /\ dead \in BOOLEAN
      BY DEF newClusterState
    <2>4. QED
      BY <2>2, <2>3 DEF CountsTyped
  <1>4. QED
    BY <1>2, <1>3 DEF TypeInv

LEMMA InterestTyped ==
  ASSUME NEW insts, \A a \in DOMAIN insts : InstanceInv(insts[a]) /\ HeldTypeOK(insts[a])
  PROVE  KeysOfInterest(insts) \subseteq Keys
  <1>1. ASSUME NEW a \in DOMAIN insts
        PROVE  resourceKeysOfInterest(insts[a]) \subseteq Keys
    BY <1>1 DEF resourceKeysOfInterest, InstanceInv, IsInstance, UnderItsKey, HeldTypeOK,
                IsDesiredResource, ResourceKey
  <1>2. QED
    BY <1>1 DEF KeysOfInterest

LEMMA CommandsTyped == ClusterInv /\ TypeInv /\ Commands => TypeInv'
  <1> SUFFICES ASSUME ClusterInv, TypeInv, Commands PROVE TypeInv'
    OBVIOUS
  <1>1. PICK a \in AppIds :
          \/ \E carried \in SUBSET DOMAIN DesiredResources :
               BeginMerge(a, carried) \/ BeginReplace(a, carried)
          \/ \E ids \in SUBSET Ids : deleteDesiredResources(a, ids)
          \/ \E v \in DeployVersions : deleteDesiredResourcesExceptForVersion(a, v)
    BY DEF Commands
  <1>2. /\ interest' = KeysOfInterest(instances') /\ settled' = settled \ {a}
        /\ commands < MaxCommands /\ commands' = commands + 1 /\ op = Idle
        /\ UNCHANGED <<live, births, touches, missed, dead, order, queued>>
        /\ sent' = {}
    BY <1>1 DEF BeginMerge, BeginReplace, deleteDesiredResources,
                deleteDesiredResourcesExceptForVersion, Command, publishInterests, cacheVars,
                queueVars
  <1>3. ClusterInv'
    BY CommandsKeep
  <1> DEFINE Edited == /\ InstancesTyped'
                       /\ op'.name # "walk" /\ op'.todo \subseteq DOMAIN instances'
                       /\ DOMAIN instances \subseteq DOMAIN instances'
  <1>4. Edited
    <2>1. InstancesTyped
      BY DEF TypeInv
    <2>2. HeldTypeOK(NewApplicationInstance)
      BY DEF HeldTypeOK, NewApplicationInstance
    <2>3. InstanceInv(getOrCreateApplicationInstance(a)) /\ HeldTypeOK(getOrCreateApplicationInstance(a))
      BY <2>1, <2>2, GetOrCreateKeeps DEF ClusterInv, getOrCreateApplicationInstance, InstancesTyped
    <2>4. ASSUME NEW inst, HeldTypeOK(inst), upsertApplicationInstance(a, inst)
          PROVE  InstancesTyped' /\ DOMAIN instances' = DOMAIN instances \cup {a}
      BY <2>1, <2>4 DEF upsertApplicationInstance, InstancesTyped
    <2>5. ASSUME NEW carried \in SUBSET DOMAIN DesiredResources, BeginMerge(a, carried)
          PROVE  Edited
      <3>1. PICK incoming \in ResolvedIncoming(Restrict(DesiredResources, carried)) :
              /\ upsertApplicationInstance(a,
                   MergeDesiredResources(getOrCreateApplicationInstance(a), incoming))
              /\ op' = [name |-> "merge", todo |-> {a}, ids |-> desiredIds(incoming)]
        BY <2>5 DEF BeginMerge
      <3>2. HeldTypeOK(MergeDesiredResources(getOrCreateApplicationInstance(a), incoming))
        BY <2>3, ResolvedIncomingIsIncoming, DesiredEditsTyped
      <3>3. InstancesTyped' /\ DOMAIN instances' = DOMAIN instances \cup {a}
        BY <2>4, <3>1, <3>2
      <3>4. QED
        BY <3>1, <3>3
    <2>6. ASSUME NEW carried \in SUBSET DOMAIN DesiredResources, BeginReplace(a, carried)
          PROVE  Edited
      <3>1. PICK incoming \in ResolvedIncoming(Restrict(DesiredResources, carried)) :
              /\ upsertApplicationInstance(a,
                   ReplaceDesiredResources(getOrCreateApplicationInstance(a), incoming))
              /\ op' = [name |-> "replace", todo |-> {a}, ids |-> desiredIds(incoming)]
        BY <2>6 DEF BeginReplace
      <3>2. HeldTypeOK(ReplaceDesiredResources(getOrCreateApplicationInstance(a), incoming))
        BY <2>3, ResolvedIncomingIsIncoming, DesiredEditsTyped
      <3>3. InstancesTyped' /\ DOMAIN instances' = DOMAIN instances \cup {a}
        BY <2>4, <3>1, <3>2
      <3>4. QED
        BY <3>1, <3>3
    <2>7. ASSUME NEW ids, deleteDesiredResources(a, ids)
          PROVE  Edited
      <3>1. /\ a \in DOMAIN instances /\ op' = op
            /\ instances' = [instances EXCEPT ![a] = DeleteDesiredResources(@, ids)]
        BY <2>7 DEF deleteDesiredResources
      <3>2. HeldTypeOK(DeleteDesiredResources(instances[a], ids))
        BY <2>1, <3>1 DEF ClusterInv, InstancesInv, InstancesTyped, HeldTypeOK,
                          DeleteDesiredResources, InstanceInv, IsInstance
      <3>3. QED
        BY <1>2, <2>1, <3>1, <3>2 DEF InstancesTyped, Idle
    <2>8. ASSUME NEW v, deleteDesiredResourcesExceptForVersion(a, v)
          PROVE  Edited
      <3>1. /\ a \in DOMAIN instances /\ op' = op
            /\ instances' = [instances EXCEPT ![a] =
                               DeleteDesiredResourcesExceptForVersion(@, v)]
        BY <2>8 DEF deleteDesiredResourcesExceptForVersion
      <3>2. HeldTypeOK(DeleteDesiredResourcesExceptForVersion(instances[a], v))
        BY <2>1, <3>1 DEF ClusterInv, InstancesInv, InstancesTyped, HeldTypeOK,
                          DeleteDesiredResourcesExceptForVersion, InstanceInv, IsInstance
      <3>3. QED
        BY <1>2, <2>1, <3>1, <3>2 DEF InstancesTyped, Idle
    <2>9. QED
      BY <1>1, <2>5, <2>6, <2>7, <2>8
  <1>5. interest' \subseteq Keys
    BY <1>2, <1>3, <1>4, InterestTyped DEF ClusterInv, InstancesInv, InstancesTyped
  <1>6. CountsTyped'
    BY <1>2, <1>5, BoundsAssumption DEF TypeInv, CountsTyped
  <1>7. LiveTypeOK' /\ QueueTypeOK' /\ OpTyped'
    BY <1>2, <1>4 DEF TypeInv, LiveTypeOK, QueueTypeOK, OpTyped
  <1>8. QED
    BY <1>4, <1>6, <1>7 DEF TypeInv
(* resolveNamespaces edits nothing but what is desired. *)
LEMMA ResolveTyped ==
  ASSUME ClusterInv, TypeInv, NEW a \in DOMAIN instances, NEW m,
         NEW inst \in resolveNamespaces(instances[a], m),
         instances' = [instances EXCEPT ![a] = inst]
  PROVE  InstancesTyped' /\ DOMAIN instances' = DOMAIN instances /\ DOMAIN inst.desired \subseteq Keys
  <1>1. InstanceInv(inst) /\ HeldTypeOK(inst)
    BY ResolveNamespacesKeeps DEF ClusterInv, InstancesInv, TypeInv, InstancesTyped, HeldTypeOK
  <1>2. QED
    BY <1>1, HeldIsEnough DEF TypeInv, InstancesTyped, InstanceTypeOK

LEMMA StartScanTyped ==
  ASSUME ClusterInv, TypeInv, NEW a, NEW disc, StartScan(a, disc)
  PROVE  TypeInv'
  <1>1. PICK inst \in resolveNamespaces(instances[a], disc.mapped) :
          /\ instances' = [instances EXCEPT ![a] = inst]
          /\ \E managed \in ManagedLiveObjs(inst.desired, disc) :
               op' = [name |-> "walk", todo |-> op.todo, ids |-> op.ids, in |-> op.name,
                      app |-> a, managed |-> managed, disc |-> disc]
    BY DEF StartScan
  <1>2. a \in op.todo /\ a \in DOMAIN instances
    BY DEF StartScan, TypeInv, OpTyped
  <1>3. /\ InstancesTyped' /\ DOMAIN instances' = DOMAIN instances
        /\ DOMAIN inst.desired \subseteq Keys
    BY <1>1, <1>2, ResolveTyped
  <1>4. \A managed \in ManagedLiveObjs(inst.desired, disc) : managed \subseteq DOMAIN inst.desired
    BY DEF ManagedLiveObjs, TargetKeys
  <1>5. PICK managed \in SUBSET Keys :
          op' = [name |-> "walk", todo |-> op.todo, ids |-> op.ids, in |-> op.name,
                 app |-> a, managed |-> managed, disc |-> disc]
    BY <1>1, <1>3, <1>4
  <1>6. op'.name = "walk" /\ op'.todo = op.todo /\ op'.app = a /\ op'.managed = managed
    BY <1>5
  <1>7. /\ UNCHANGED <<live, births, touches, commands, interest, sent, settled, dead, queued>>
        /\ missed' = [missed EXCEPT ![a] = @ \cap DOMAIN queued]
    BY DEF StartScan, cacheVars, queueVars
  <1>8. OpTyped'
    BY <1>2, <1>3, <1>6, <1>7 DEF TypeInv, OpTyped
  <1>9. CountsTyped' /\ LiveTypeOK' /\ QueueTypeOK'
    BY <1>7 DEF TypeInv, CountsTyped, LiveTypeOK, QueueTypeOK
  <1>10. QED
    BY <1>3, <1>8, <1>9 DEF TypeInv

LEMMA ScanFailsTyped ==
  ASSUME ClusterInv, TypeInv, NEW a, NEW disc, ScanFails(a, disc)
  PROVE  TypeInv'
  <1>1. PICK inst \in resolveNamespaces(instances[a], disc.mapped) :
          instances' = [instances EXCEPT ![a] = inst]
    BY DEF ScanFails
  <1>2. a \in op.todo /\ a \in DOMAIN instances
    BY DEF ScanFails, TypeInv, OpTyped
  <1>3. InstancesTyped' /\ DOMAIN instances' = DOMAIN instances
    BY <1>1, <1>2, ResolveTyped
  <1>4. /\ op'.name # "walk"
        /\ op'.todo \subseteq op.todo
    BY DEF ScanFails, AfterScan, Idle
  <1>5. UNCHANGED <<live, births, touches, commands, interest, sent, settled, missed, dead, queued>>
    BY DEF ScanFails, cacheVars, queueVars
  <1>6. OpTyped'
    BY <1>3, <1>4, <1>5 DEF TypeInv, OpTyped
  <1>7. CountsTyped' /\ LiveTypeOK' /\ QueueTypeOK'
    BY <1>5 DEF TypeInv, CountsTyped, LiveTypeOK, QueueTypeOK
  <1>8. QED
    BY <1>3, <1>6, <1>7 DEF TypeInv

LEMMA FinishScanTyped ==
  ASSUME ClusterInv, TypeInv, FinishScan
  PROVE  TypeInv'
  <1> DEFINE inst == Monitored(instances[op.app], op.managed, op.disc)
  <1>1. op.name = "walk" /\ op.app \in op.todo /\ op.app \in DOMAIN instances /\ op.managed \in SUBSET Keys
    BY DEF FinishScan, TypeInv, OpTyped
  <1>2. HeldTypeOK(inst)
    BY <1>1, MonitoredTyped DEF ClusterInv, InstancesInv, TypeInv, InstancesTyped
  <1>3. /\ instances' = [instances EXCEPT ![op.app] = inst]
        /\ settled' = settled \cup {op.app}
        /\ UNCHANGED <<live, births, touches, commands, interest, missed, dead, queued>>
    BY DEF FinishScan, cacheVars, queueVars
  <1>4. PICK update : sent' = sent \cup {[app |-> op.app, how |-> op.in, ids |-> op.ids, what |-> update]}
    BY DEF FinishScan
  <1>5. op'.name # "walk" /\ op'.todo \subseteq op.todo
    BY <1>1 DEF FinishScan, AfterScan, ClusterInv, OpInv
  <1> HIDE DEF inst
  <1>6. InstancesTyped' /\ DOMAIN instances' = DOMAIN instances
    BY <1>1, <1>2, <1>3 DEF TypeInv, InstancesTyped
  <1>7. OpTyped'
    BY <1>1, <1>3, <1>4, <1>5, <1>6 DEF TypeInv, OpTyped
  <1>8. CountsTyped' /\ LiveTypeOK' /\ QueueTypeOK'
    BY <1>3 DEF TypeInv, CountsTyped, LiveTypeOK, QueueTypeOK
  <1>9. QED
    BY <1>6, <1>7, <1>8 DEF TypeInv

LEMMA ApplyTyped ==
  ASSUME ClusterInv, TypeInv, ApplyResourceChange
  PROVE  TypeInv'
  <1>1. PICK k \in DOMAIN queued : HandOver(k) /\ (ChangeApplied(queued[k]) \/ StackExhausted)
    BY DEF ApplyResourceChange
  <1>2. UNCHANGED <<live, births, touches, commands, op, settled, missed>>
    BY DEF ApplyResourceChange, cacheVars
  <1>3. LiveTypeOK' /\ QueueTypeOK'
    BY <1>1, <1>2 DEF HandOver, TypeInv, LiveTypeOK, QueueTypeOK
  <1>4. CASE StackExhausted
    <2>1. dead' = TRUE /\ UNCHANGED <<instances, sent, interest>>
      BY <1>4 DEF StackExhausted
    <2>2. InstancesTyped' /\ OpTyped' /\ CountsTyped'
      BY <1>2, <2>1 DEF TypeInv, InstancesTyped, OpTyped, CountsTyped
    <2>3. QED
      BY <1>3, <2>2 DEF TypeInv
  <1>5. CASE ChangeApplied(queued[k])
    <2> DEFINE result == [a \in DOMAIN instances |->
                            GetChangesForUpdatedResource(instances[a], queued[k])]
               updated == {a \in DOMAIN instances : result[a].update # NoUpdate}
    <2>1. /\ instances' = [a \in DOMAIN instances |-> result[a].inst]
          /\ sent' = {[app |-> a, how |-> "change", ids |-> {}, what |-> result[a].update] :
                        a \in updated}
          /\ interest' = KeysOfInterest(instances') \/ interest' = interest
          /\ dead' = dead
      BY <1>5 DEF ChangeApplied, publishInterests
    <2>2. \A a \in DOMAIN instances : HeldTypeOK(result[a].inst)
      BY <1>1, ChangeTyped DEF ClusterInv, InstancesInv, TypeInv, InstancesTyped, QueueTypeOK
    <2> HIDE DEF result
    <2>3. InstancesTyped' /\ DOMAIN instances' = DOMAIN instances
      BY <2>1, <2>2 DEF TypeInv, InstancesTyped
    <2>4. interest' \subseteq Keys
      BY <2>1, <2>3, ApplyKeeps, InterestTyped
         DEF ClusterInv, InstancesInv, InstancesTyped, TypeInv, CountsTyped
    <2>5. OpTyped'
      BY <1>2, <2>1, <2>3 DEF TypeInv, OpTyped
    <2>6. CountsTyped'
      BY <1>2, <2>1, <2>4 DEF TypeInv, CountsTyped
    <2>7. QED
      BY <1>3, <2>3, <2>5, <2>6 DEF TypeInv
  <1>6. QED
    BY <1>1, <1>4, <1>5
(* The cluster cache reports a new state of a resource.                    *)
LEMMA EventTyped ==
  ASSUME TypeInv, NEW k \in Keys, NEW res \in StatesOf(k), live[k] # Nil \/ res # Nil,
         ResourceEvent(k, res)
  PROVE  /\ LiveTypeOK' /\ InstancesTyped' /\ OpTyped' /\ QueueTypeOK'
         /\ missed' \in [AppIds -> SUBSET Keys] /\ interest' \subseteq Keys /\ dead' \in BOOLEAN
         /\ commands' = commands
  <1>1. /\ live' = [live EXCEPT ![k] = res]
        /\ interest' = InheritedInterest(res)
        /\ UNCHANGED <<commands, instances, op, sent, settled, dead>>
    BY DEF ResourceEvent
  <1>2. interest' \subseteq Keys
    <2>1. res # Nil => res.key \in Keys
      BY ResourceTypes
    <2>2. QED
      BY <1>1, <2>1 DEF InheritedInterest, TypeInv, CountsTyped
  <1>3. LiveTypeOK'
    BY <1>1 DEF TypeInv, LiveTypeOK
  <1>4. InstancesTyped' /\ OpTyped'
    BY <1>1 DEF TypeInv, InstancesTyped, OpTyped
  <1>5. QueueTypeOK' /\ missed' \in [AppIds -> SUBSET Keys]
    <2>1. live[k] \in StatesOf(k) /\ QueueTypeOK /\ missed \in [AppIds -> SUBSET Keys]
      BY DEF TypeInv, LiveTypeOK, CountsTyped
    <2>2. CASE IsRouted(live[k], res, interest')
      <3>1. /\ Accept([oldRes |-> live[k], newRes |-> res])
            /\ missed' = [a \in AppIds |-> missed[a] \ {k}]
        BY <2>2 DEF ResourceEvent
      <3>2. QED
        BY <2>1, <3>1, AcceptTyped
    <2>3. CASE ~IsRouted(live[k], res, interest')
      <3>1. /\ queued' = queued
            /\ missed' = [a \in AppIds |-> missed[a] \cup ({k} \cap DOMAIN queued)]
        BY <2>3 DEF ResourceEvent, queueVars
      <3>2. QED
        BY <2>1, <3>1 DEF QueueTypeOK
    <2>4. QED
      BY <2>2, <2>3
  <1>6. QED
    BY <1>1, <1>2, <1>3, <1>4, <1>5 DEF TypeInv, CountsTyped

(* A resource that appears has a UID of its own, and an owner that is      *)
(* there.                                                                  *)
LEMMA CreatedState ==
  ASSUME TypeInv, NEW k \in Keys, Created(k)
  PROVE  \E res \in StatesOf(k) : res # Nil /\ ResourceEvent(k, res)
  <1>1. PICK owner \in {NoUid} \cup {uidOf(live[o]) : o \in PossibleOwners(k)} :
          ResourceEvent(k, [key |-> k, version |-> [uid |-> <<k, births'[k]>>, owner |-> owner]])
    BY DEF Created
  <1> DEFINE res == [key |-> k, version |-> [uid |-> <<k, births'[k]>>, owner |-> owner]]
  <1>2. owner \in UidOrNone
    <2>1. \A o \in PossibleOwners(k) : o \in Keys /\ live[o] # Nil
      BY DEF PossibleOwners
    <2>2. QED
      BY <2>1, ResourceTypes DEF UidOrNone, TypeInv, LiveTypeOK
  <1>3. <<k, births'[k]>> \in Uids
    <2>1. births[k] \in Nat /\ births[k] < MaxBirths[k] /\ births'[k] = births[k] + 1
      BY DEF Created, TypeInv, CountsTyped
    <2>2. MaxBirths[k] \in Nat
      BY BoundsAssumption
    <2>3. births'[k] \in 1..MaxBirths[k]
      BY <2>1, <2>2
    <2>4. QED
      BY <2>3, BoundsAssumption
  <1>4. res \in Resource
    BY <1>2, <1>3, VersionsAssumption DEF Resource, UidOrNone
  <1>5. res \in StatesOf(k) /\ res # Nil
    BY <1>4, NilAssumption DEF StatesOf, ResourceOrNil
  <1>6. QED
    BY <1>1, <1>5

(* Every change of the cluster is an event of a resource that was or is    *)
(* there.                                                                  *)
LEMMA ClusterEvents ==
  ASSUME TypeInv, NEW k \in Keys, Created(k) \/ Touched(k) \/ Deleted(k)
  PROVE  \E res \in StatesOf(k) : (live[k] # Nil \/ res # Nil) /\ ResourceEvent(k, res)
  <1>1. Nil \in StatesOf(k) /\ live[k] \in StatesOf(k)
    BY DEF StatesOf, ResourceOrNil, TypeInv, LiveTypeOK
  <1>2. QED
    BY <1>1, CreatedState DEF Touched, Deleted

LEMMA ClusterChangesTyped ==
  ASSUME TypeInv, NEW k \in Keys, Created(k) \/ Touched(k) \/ Deleted(k)
  PROVE  TypeInv'
  <1>1. PICK res \in StatesOf(k) : (live[k] # Nil \/ res # Nil) /\ ResourceEvent(k, res)
    BY ClusterEvents
  <1>2. births' \in [Keys -> Nat] /\ touches' \in 0..MaxTouches
    <2>1. births \in [Keys -> Nat] /\ touches \in 0..MaxTouches /\ MaxTouches \in Nat
      BY BoundsAssumption DEF TypeInv, CountsTyped
    <2>2. CASE Created(k)
      BY <2>1, <2>2 DEF Created
    <2>3. CASE Touched(k)
      BY <2>1, <2>3 DEF Touched
    <2>4. CASE Deleted(k)
      BY <2>1, <2>4 DEF Deleted
    <2>5. QED
      BY <2>2, <2>3, <2>4
  <1>3. QED
    BY <1>1, <1>2, EventTyped DEF TypeInv, CountsTyped

LEMMA TypeStep == ClusterInv /\ TypeInv /\ [Next]_vars => TypeInv'
  <1> SUFFICES ASSUME ClusterInv, TypeInv, [Next]_vars PROVE TypeInv'
    OBVIOUS
  <1>1. CASE Commands
    BY <1>1, CommandsTyped
  <1>2. CASE SyncFails \/ BeginSweep \/ FinishPublish
    <2>1. /\ UNCHANGED <<live, births, touches, commands, instances, settled, missed, dead, queued>>
          /\ op'.name # "walk" /\ op'.todo \subseteq DOMAIN instances
          /\ sent' \subseteq sent
      BY <1>2 DEF SyncFails, BeginSweep, FinishPublish, cacheVars, queueVars, Idle
    <2>2. interest' \subseteq Keys
      BY <1>2, InterestTyped DEF SyncFails, BeginSweep, FinishPublish, ClusterInv, InstancesInv,
                                 TypeInv, InstancesTyped, CountsTyped
    <2>3. QED
      BY <2>1, <2>2 DEF TypeInv, LiveTypeOK, InstancesTyped, OpTyped, CountsTyped, QueueTypeOK
  <1>3. CASE \E a \in AppIds, disc \in Discoveries : StartScan(a, disc) \/ ScanFails(a, disc)
    BY <1>3, StartScanTyped, ScanFailsTyped
  <1>4. CASE FinishScan
    BY <1>4, FinishScanTyped
  <1>5. CASE ApplyResourceChange
    BY <1>5, ApplyTyped
  <1>6. CASE \E k \in Keys : Created(k) \/ Touched(k) \/ Deleted(k)
    BY <1>6, ClusterChangesTyped
  <1>7. CASE UNCHANGED vars
    BY <1>7 DEF vars, TypeInv, LiveTypeOK, InstancesTyped, OpTyped, CountsTyped, QueueTypeOK
  <1>8. QED
    BY <1>1, <1>2, <1>3, <1>4, <1>5, <1>6, <1>7 DEF Next

LEMMA TypeInvariant == Spec => [](ClusterInv /\ TypeInv)
  <1>1. ClusterInv /\ TypeInv /\ [Next]_vars => (ClusterInv /\ TypeInv)'
    BY ClusterStep, TypeStep
  <1>2. QED
    BY <1>1, ClusterInit, TypeInit, PTL DEF Spec

(* Every map of a target holds what its Go type says: keys of resources,   *)
(* the state of the resource it is filed under, UIDs for owners, ids for   *)
(* what is missing, and no operation is about an instance that is not      *)
(* there, although scans and changes are interleaved with a cluster that   *)
(* changes under them.                                                     *)
THEOREM TargetTyped == Spec => []TypeOK
  BY TypeInvIsEnough, TypeInvariant, PTL
-----------------------------------------------------------------------------
(* Accurate *)

(* A stored resource came with a command, and its key is settled.          *)
IsSteadyDesired(d) ==
  /\ d.manifest
  /\ d.resolved \/ d.assumed = d.actual
  /\ \E k \in DOMAIN DesiredResources :
       d.id = DesiredResources[k].id /\ d.actual = DesiredResources[k].actual

SteadyInstance(inst) == \A k \in DOMAIN inst.desired : IsSteadyDesired(inst.desired[k])

(* Every change of a desired resource is routed to the target at any time, *)
(* in the middle of a scan as well.                                        *)
DesiredHeard ==
  \A a \in DOMAIN instances :
    SteadyInstance(instances[a]) /\ DOMAIN instances[a].desired \subseteq interest

(* A queued change leads to the state that is live, unless a later change  *)
(* of it was not heard.                                                    *)
QueueNewest ==
  \A a \in AppIds : \A k \in DOMAIN queued \ missed[a] : queued[k].newRes = live[k]

(* Since the live objects were read, what became live is queued.           *)
WalkSees ==
  op.name = "walk" =>
    LET desired == instances[op.app].desired
    IN  \A k \in DOMAIN desired \ (DOMAIN queued \cup missed[op.app]) :
          live[k] # Nil => \/ k \in op.managed
                           \/ desired[k].id \in UnknownBeforehand(desired, op.disc)

(* A desired resource is held as a child only if it is neither present nor *)
(* missing: one change never has two places to go to.                      *)
ChildApart(inst) ==
  \A k \in DOMAIN inst.child \cap DOMAIN inst.desired :
    inst.desired[k].id \notin DOMAIN inst.present \cup inst.missing

(* What Accurate says of one resource.                                     *)
HeldNewest(inst, k, res) ==
  /\ k \in DOMAIN inst.desired =>
       /\ inst.desired[k].id \notin inst.missing
       /\ inst.desired[k].id \in DOMAIN inst.present => inst.present[inst.desired[k].id] = res
  /\ k \in DOMAIN inst.child /\ ownerRefKeys(res) \cap DOMAIN inst.desired # {}
       => inst.child[k].res = res

(* The instance a scan is about is left out: what was missed of it counts  *)
(* no more, and the scan has not replaced it yet.                          *)
Scanned(a) == op.name = "walk" /\ op.app = a

SettledNewest ==
  ~dead => \A a \in settled :
    /\ ChildApart(instances[a])
    /\ ~Scanned(a) => \A k \in Keys \ (DOMAIN queued \cup missed[a]) :
                        live[k] # Nil => HeldNewest(instances[a], k, live[k])

AccurateInv == DesiredHeard /\ QueueNewest /\ WalkSees /\ SettledNewest
LEMMA OneKeyPerId ==
  ASSUME Steady, NEW a, InstanceInv(a), SteadyInstance(a),
         NEW k \in DOMAIN a.desired, NEW l \in DOMAIN a.desired, a.desired[k].id = a.desired[l].id
  PROVE  k = l
  <1>1. a.desired[k].actual = k /\ a.desired[l].actual = l
    BY DEF InstanceInv, UnderItsKey, SteadyInstance, IsSteadyDesired, ResourceKey
  <1>2. a.desired[k].actual = a.desired[l].actual
    BY DEF Steady, IsSteady, SteadyInstance, IsSteadyDesired
  <1>3. QED
    BY <1>1, <1>2

(* application_instance.go:319-330: what is steady is not filed anew.      *)
LEMMA ResolveSteady ==
  ASSUME NEW a, InstanceInv(a), SteadyInstance(a), NEW m, NEW inst \in resolveNamespaces(a, m)
  PROVE  /\ SteadyInstance(inst)
         /\ DOMAIN inst.desired = DOMAIN a.desired
         /\ \A k \in DOMAIN a.desired : inst.desired[k].id = a.desired[k].id
  <1> DEFINE value(k) == ResolveNamespace(a.desired[k], m)
             rekey(k) == IF value(k).resolved THEN ResourceKey(value(k)) ELSE k
             keys == {rekey(k) : k \in DOMAIN a.desired}
  <1>1. PICK f : f \in Rekeyed(a.desired, rekey, value) /\ inst = [a EXCEPT !.desired = f]
    BY Zenon DEF resolveNamespaces
  <1>2. /\ DOMAIN f = keys
        /\ \A k \in keys : \E x \in DOMAIN a.desired : rekey(x) = k /\ f[k] = value(x)
    BY <1>1 DEF Rekeyed
  <1>3. inst.desired = f
    BY <1>1 DEF InstanceInv, IsInstance
  <1>4. ASSUME NEW x \in DOMAIN a.desired
        PROVE  rekey(x) = x /\ IsSteadyDesired(value(x)) /\ value(x).id = a.desired[x].id
    <2>1. /\ IsDesiredResource(a.desired[x]) /\ ResourceKey(a.desired[x]) = x
          /\ IsSteadyDesired(a.desired[x])
      BY DEF InstanceInv, IsInstance, UnderItsKey, SteadyInstance
    <2>2. QED
      BY <2>1 DEF ResolveNamespace, ResourceKey, IsSteadyDesired, IsDesiredResource
  <1> HIDE DEF value, rekey
  <1>5. keys = DOMAIN a.desired
    BY <1>4
  <1>6. \A k \in DOMAIN f : f[k] = value(k)
    BY <1>2, <1>4, <1>5
  <1>7. QED
    BY <1>2, <1>3, <1>4, <1>5, <1>6 DEF SteadyInstance

(* cluster_state.go:351-383: what is stored of a steady command is steady. *)
LEMMA IncomingSteady ==
  ASSUME Steady, NEW carried \in SUBSET DOMAIN DesiredResources,
         NEW incoming \in ResolvedIncoming(Restrict(DesiredResources, carried))
  PROVE  \A k \in DOMAIN incoming : IsSteadyDesired(incoming[k])
  <1> DEFINE given == Restrict(DesiredResources, carried)
             value(answer, k) == ResolveNamespace(given[k], answer[k].mapped)
             rekey(answer, k) == ResourceKey(value(answer, k))
  <1>1. \A k \in DOMAIN given :
          k \in DOMAIN DesiredResources /\ given[k] = DesiredResources[k]
    BY DEF Restrict
  <1> HIDE DEF given
  <1>2. PICK answer \in [DOMAIN given -> Discoveries] :
          LET newValue(k) == value(answer, k)
              newKey(k) == rekey(answer, k)
          IN  incoming \in Rekeyed(given, newKey, newValue)
    BY Zenon DEF ResolvedIncoming, given
  <1>3. \A k \in DOMAIN incoming : \E x \in DOMAIN given : incoming[k] = value(answer, x)
    BY <1>2 DEF Rekeyed
  <1>4. ASSUME NEW x \in DOMAIN given
        PROVE  IsSteadyDesired(value(answer, x))
    <2>1. /\ x \in DOMAIN DesiredResources /\ given[x] = DesiredResources[x]
          /\ answer[x] \in Discoveries
      BY <1>1
    <2>2. IsDesiredResource(given[x])
      BY <2>1, DesiredAssumption
    <2>3. /\ given[x].manifest
          /\ given[x].resolved \/ given[x].assumed = given[x].actual
               \/ given[x].kind \in answer[x].mapped
      BY <2>1 DEF Steady, IsSteady
    <2>4. QED
      BY <2>1, <2>2, <2>3 DEF ResolveNamespace, IsSteadyDesired, IsDesiredResource
  <1>5. QED
    BY <1>3, <1>4

LEMMA EditsSteady ==
  ASSUME NEW a, InstanceInv(a), SteadyInstance(a), NEW incoming,
         \A k \in DOMAIN incoming : IsSteadyDesired(incoming[k]), NEW ids, NEW v
  PROVE  /\ SteadyInstance(MergeDesiredResources(a, incoming))
         /\ SteadyInstance(ReplaceDesiredResources(a, incoming))
         /\ SteadyInstance(DeleteDesiredResources(a, ids))
         /\ SteadyInstance(DeleteDesiredResourcesExceptForVersion(a, v))
  <1>1. SteadyInstance(MergeDesiredResources(a, incoming))
    BY DEF SteadyInstance, MergeDesiredResources, InstanceInv, IsInstance
  <1>2. SteadyInstance(ReplaceDesiredResources(a, incoming))
    BY DEF SteadyInstance, ReplaceDesiredResources, NewApplicationInstance
  <1>3. /\ SteadyInstance(DeleteDesiredResources(a, ids))
        /\ SteadyInstance(DeleteDesiredResourcesExceptForVersion(a, v))
    BY DEF SteadyInstance, DeleteDesiredResources, DeleteDesiredResourcesExceptForVersion,
           Restrict, InstanceInv, IsInstance
  <1>4. QED
    BY <1>1, <1>2, <1>3

(* shared_cluster.go:424-500: a scan holds the newest state of what it     *)
(* finds, and finds what the live objects that were read lead to.          *)
LEMMA MonitoredNewest ==
  ASSUME Steady, NEW a, InstanceInv(a), SteadyInstance(a), NEW managed \in SUBSET Keys, NEW disc,
         NEW inst, inst = Monitored(a, managed, disc)
  PROVE  /\ inst.desired = a.desired
         /\ ChildApart(inst)
         /\ \A k \in Keys :
              /\ live[k] # Nil
              /\ k \in DOMAIN a.desired => \/ k \in managed
                                           \/ a.desired[k].id \in UnknownBeforehand(a.desired, disc)
              => HeldNewest(inst, k, live[k])
  <1> DEFINE desired == a.desired
             found == Discovered(managed)
             presentKeys == found \cap DOMAIN desired
             present == [i \in {desired[k].id : k \in presentKeys} |->
                           live[CHOOSE k \in presentKeys : desired[k].id = i]]
             owned == [k \in found \ DOMAIN desired |->
                         [res |-> live[k], ownerId |-> getFirstOwnerId(live[k])]]
             child == [k \in DOMAIN owned |->
                         [res |-> owned[k].res, ownerId |-> owned[k].ownerId,
                          rootOwnerId |-> getRootParentResource(owned[k].ownerId, owned)]]
             unknown == UnknownBeforehand(desired, disc)
             rest == {k \in DOMAIN desired : desired[k].id \notin DOMAIN present \cup unknown}
             forbidden == {k \in rest : desired[k].kind \in disc.known \ disc.accessible}
             missing == {desired[k].id : k \in rest \ forbidden}
             unread == unknown \cup {desired[k].id : k \in forbidden}
  <1>1. inst = replaceMonitoredResources(a, present, child, missing, unread)
    BY DEF Monitored
  <1>2. {k \in managed : live[k] # Nil} \subseteq found
    BY DiscoveredIsLive
  <1> HIDE DEF found
  <1>3. DOMAIN child \cap DOMAIN desired = {} /\ \A k \in DOMAIN child : child[k].res = live[k]
    OBVIOUS
  <1> HIDE DEF child
  <1>4. ASSUME NEW k \in DOMAIN desired, live[k] # Nil, k \in managed \/ desired[k].id \in unknown
        PROVE  /\ desired[k].id \notin missing
               /\ desired[k].id \in DOMAIN present => present[desired[k].id] = live[k]
    <2>1. \A x \in DOMAIN desired : desired[x].id = desired[k].id => x = k
      BY OneKeyPerId
    <2>2. k \in managed => desired[k].id \in DOMAIN present
      BY <1>2, <1>4
    <2>3. desired[k].id \notin missing
      BY <1>4, <2>1, <2>2
    <2>4. ASSUME desired[k].id \in DOMAIN present
          PROVE  present[desired[k].id] = live[k]
      <3>1. PICK x \in presentKeys : desired[x].id = desired[k].id
        BY <2>4
      <3>2. k \in presentKeys
        BY <2>1, <3>1
      <3>3. (CHOOSE y \in presentKeys : desired[y].id = desired[k].id) = k
        BY <2>1, <3>2
      <3>4. QED
        BY <2>4, <3>3
    <2>5. QED
      BY <2>3, <2>4
  <1> HIDE DEF present, missing, unread
  <1>5. /\ inst.desired = desired /\ inst.present = present /\ inst.child = child
        /\ inst.missing = missing
    BY <1>1 DEF replaceMonitoredResources, InstanceInv, IsInstance
  <1>6. QED
    BY <1>3, <1>4, <1>5 DEF ChildApart, HeldNewest
(* No change of the cluster edits what is desired.                         *)
LEMMA DesiredUntouched ==
  ASSUME NEW a, InstanceInv(a), NEW change
  PROVE  GetChangesForUpdatedResource(a, change).inst.desired = a.desired
  <1> DEFINE case == calculateResourceChange(a, change)
  <1>1. case \in {"DesiredResourceFound", "DesiredResourceUpdated", "ChildResourceUpdated",
                  "DesiredResourceRemoved", "ChildResourceRemoved", "ChildResourceFound",
                  "NoChange"}
    BY DEF calculateResourceChange
  <1> HIDE DEF case
  <1>2. GetChangesForUpdatedResource(a, change).inst \in
          {NowPresent(a, change.newRes), NowMissing(a, change.oldRes),
           upsertChildMonitoredResource(a, NewChildMonitoredResource(a, change.newRes)),
           deleteChildMonitoredResource(a, change.oldRes.key), a}
    BY <1>1 DEF GetChangesForUpdatedResource, case, isChildUpsert
  <1>3. QED
    BY <1>2 DEF NowPresent, upsertPresentMonitoredResource, NowMissing,
                deletePresentMonitoredResource, upsertChildMonitoredResource,
                deleteChildMonitoredResource, InstanceInv, IsInstance

(* application_instance.go:140-248: a change of resource x brings what is  *)
(* held of x to the state it leads to and leaves the rest.                 *)
LEMMA ChangeNewest ==
  ASSUME Steady, NEW a, InstanceInv(a), SteadyInstance(a), ChildApart(a),
         NEW x, NEW change, ChangeTypeOK(x, change),
         NEW inst, inst = GetChangesForUpdatedResource(a, change).inst
  PROVE  /\ inst.desired = a.desired
         /\ ChildApart(inst)
         /\ \A k, res : k # x /\ HeldNewest(a, k, res) => HeldNewest(inst, k, res)
         /\ change.newRes # Nil => HeldNewest(inst, x, change.newRes)
  <1> DEFINE case == calculateResourceChange(a, change)
             new == change.newRes
             old == change.oldRes
             id == a.desired[x].id
             Goal == /\ inst.desired = a.desired
                     /\ ChildApart(inst)
                     /\ \A k, res : k # x /\ HeldNewest(a, k, res) => HeldNewest(inst, k, res)
                     /\ new # Nil => HeldNewest(inst, x, new)
  <1>1. (new # Nil => new.key = x) /\ (old # Nil => old.key = x)
    BY ResourceTypes DEF ChangeTypeOK
  <1>2. case \in {"DesiredResourceFound", "DesiredResourceUpdated", "ChildResourceUpdated",
                  "DesiredResourceRemoved", "ChildResourceRemoved", "ChildResourceFound",
                  "NoChange"}
    BY DEF calculateResourceChange
  <1>3. /\ case \in {"DesiredResourceFound", "DesiredResourceUpdated"} =>
             new # Nil /\ x \in DOMAIN a.desired /\ id \in a.missing \cup DOMAIN a.present
        /\ case = "DesiredResourceRemoved" =>
             /\ old # Nil /\ new = Nil
             /\ x \in DOMAIN a.desired /\ id \in DOMAIN a.present
        /\ isChildUpsert(case) =>
             /\ new # Nil
             /\ x \in DOMAIN a.desired => id \notin a.missing \cup DOMAIN a.present
        /\ case = "ChildResourceRemoved" => old # Nil /\ new = Nil
        /\ case = "NoChange" /\ new # Nil =>
             /\ x \in DOMAIN a.desired => id \notin a.missing \cup DOMAIN a.present
             /\ x \notin DOMAIN a.child
    BY <1>1 DEF calculateResourceChange, isChildUpsert
  <1>4. DOMAIN a = {"desired", "present", "child", "missing", "unknown", "tracked"}
    BY DEF InstanceInv, IsInstance
  <1>5. x \in DOMAIN a.desired => \A k \in DOMAIN a.desired : k # x => a.desired[k].id # id
    BY OneKeyPerId
  <1> SUFFICES Goal
    OBVIOUS
  <1> HIDE DEF case, new, old, id
  <1>6. CASE case \in {"DesiredResourceFound", "DesiredResourceUpdated"}
    <2>1. inst = NowPresent(a, new)
      BY <1>6 DEF GetChangesForUpdatedResource, case, new, old, isChildUpsert
    <2>2. /\ new # Nil /\ new.key = x /\ x \in DOMAIN a.desired
          /\ id \in a.missing \cup DOMAIN a.present
      BY <1>1, <1>3, <1>6
    <2>3. /\ inst.desired = a.desired /\ inst.child = a.child
          /\ inst.missing = a.missing \ {id}
          /\ inst.present = [i \in DOMAIN a.present \cup {id} |->
                               IF i = id THEN new ELSE a.present[i]]
      BY <2>1, <2>2, <1>4 DEF NowPresent, upsertPresentMonitoredResource, id
    <2>4. ChildApart(inst)
      BY <2>2, <2>3 DEF ChildApart, id
    <2>5. HeldNewest(inst, x, new)
      <3>1. x \notin DOMAIN a.child
        BY <2>2 DEF ChildApart, id
      <3>2. QED
        BY <2>2, <2>3, <3>1 DEF HeldNewest, id
    <2>6. ASSUME NEW k, NEW res, k # x, HeldNewest(a, k, res)
          PROVE  HeldNewest(inst, k, res)
      BY <1>5, <2>2, <2>3, <2>6 DEF HeldNewest
    <2>7. QED
      BY <2>3, <2>4, <2>5, <2>6
  <1>7. CASE case = "DesiredResourceRemoved"
    <2>1. inst = NowMissing(a, old)
      BY <1>7 DEF GetChangesForUpdatedResource, case, new, old, isChildUpsert
    <2>2. /\ old # Nil /\ old.key = x /\ x \in DOMAIN a.desired
          /\ id \in DOMAIN a.present /\ new = Nil
      BY <1>1, <1>3, <1>7
    <2>3. /\ inst.desired = a.desired /\ inst.child = a.child
          /\ inst.missing = a.missing \cup {id}
          /\ inst.present = [i \in DOMAIN a.present \ {id} |-> a.present[i]]
      BY <2>1, <2>2, <1>4 DEF NowMissing, deletePresentMonitoredResource, Restrict, id
    <2>4. ChildApart(inst)
      <3>1. x \notin DOMAIN a.child
        BY <2>2 DEF ChildApart, id
      <3>2. QED
        BY <1>5, <2>2, <2>3, <3>1 DEF ChildApart
    <2>5. ASSUME NEW k, NEW res, k # x, HeldNewest(a, k, res)
          PROVE  HeldNewest(inst, k, res)
      BY <1>5, <2>2, <2>3, <2>5 DEF HeldNewest
    <2>6. QED
      BY <2>2, <2>3, <2>4, <2>5
  <1>8. CASE isChildUpsert(case)
    <2> DEFINE c == NewChildMonitoredResource(a, new)
    <2>1. inst = upsertChildMonitoredResource(a, c)
      BY <1>8 DEF GetChangesForUpdatedResource, case, new, old, isChildUpsert
    <2>2. /\ new # Nil /\ new.key = x
          /\ x \in DOMAIN a.desired => id \notin a.missing \cup DOMAIN a.present
      BY <1>1, <1>3, <1>8
    <2>3. c.res = new
      BY DEF NewChildMonitoredResource
    <2> HIDE DEF c
    <2>4. /\ inst.desired = a.desired /\ inst.missing = a.missing /\ inst.present = a.present
          /\ inst.child = [k \in DOMAIN a.child \cup {x} |-> IF k = x THEN c ELSE a.child[k]]
      BY <2>1, <2>2, <2>3, <1>4 DEF upsertChildMonitoredResource
    <2>5. ChildApart(inst)
      BY <2>2, <2>4 DEF ChildApart, id
    <2>6. HeldNewest(inst, x, new)
      BY <2>2, <2>3, <2>4 DEF HeldNewest, id
    <2>7. ASSUME NEW k, NEW res, k # x, HeldNewest(a, k, res)
          PROVE  HeldNewest(inst, k, res)
      BY <2>4, <2>7 DEF HeldNewest
    <2>8. QED
      BY <2>4, <2>5, <2>6, <2>7
  <1>9. CASE case = "ChildResourceRemoved"
    <2>1. inst = deleteChildMonitoredResource(a, old.key)
      BY <1>9 DEF GetChangesForUpdatedResource, case, new, old, isChildUpsert
    <2>2. old.key = x /\ new = Nil
      BY <1>1, <1>3, <1>9
    <2>3. /\ inst.desired = a.desired /\ inst.missing = a.missing /\ inst.present = a.present
          /\ inst.child = [k \in DOMAIN a.child \ {x} |-> a.child[k]]
      BY <2>1, <2>2, <1>4 DEF deleteChildMonitoredResource, Restrict
    <2>4. ChildApart(inst)
      BY <2>3 DEF ChildApart
    <2>5. ASSUME NEW k, NEW res, k # x, HeldNewest(a, k, res)
          PROVE  HeldNewest(inst, k, res)
      BY <2>3, <2>5 DEF HeldNewest
    <2>6. QED
      BY <2>2, <2>3, <2>4, <2>5
  <1>10. CASE case = "NoChange"
    <2>1. inst = a
      BY <1>10 DEF GetChangesForUpdatedResource, case, new, old, isChildUpsert
    <2>2. new # Nil => HeldNewest(a, x, new)
      BY <1>3, <1>10 DEF HeldNewest, id
    <2>3. QED
      BY <2>1, <2>2
  <1>11. QED
    BY <1>2, <1>6, <1>7, <1>8, <1>9, <1>10 DEF isChildUpsert
LEMMA AccurateInit == newClusterState => AccurateInv
  BY DEF newClusterState, newChangeQueue, Idle, AccurateInv, DesiredHeard, QueueNewest, WalkSees,
         SettledNewest

(* Outside of a scan every settled instance holds the newest.              *)
LEMMA SettledOutsideScan ==
  ASSUME TypeInv, AccurateInv, ~dead, op.name # "walk", NEW a \in settled
  PROVE  /\ a \in DOMAIN instances /\ a \in AppIds
         /\ ChildApart(instances[a])
         /\ \A k \in Keys \ (DOMAIN queued \cup missed[a]) :
              live[k] # Nil => HeldNewest(instances[a], k, live[k])
  BY DEF TypeInv, OpTyped, InstancesTyped, AccurateInv, SettledNewest, Scanned

LEMMA AccurateIsEnough == TypeInv /\ AccurateInv => Accurate
  BY SettledOutsideScan DEF Accurate, HeldNewest

LEMMA CommandsAccurate ==
  ASSUME Steady, ClusterInv, TypeInv, AccurateInv, Commands
  PROVE  AccurateInv'
  <1>1. PICK a \in AppIds :
          \/ \E carried \in SUBSET DOMAIN DesiredResources :
               BeginMerge(a, carried) \/ BeginReplace(a, carried)
          \/ \E ids \in SUBSET Ids : deleteDesiredResources(a, ids)
          \/ \E v \in DeployVersions : deleteDesiredResourcesExceptForVersion(a, v)
    BY DEF Commands
  <1>2. /\ interest' = KeysOfInterest(instances') /\ settled' = settled \ {a}
        /\ op.name = "idle" /\ op'.name # "walk" /\ ~dead
        /\ UNCHANGED <<live, missed, dead, queued>>
    BY <1>1 DEF BeginMerge, BeginReplace, deleteDesiredResources,
                deleteDesiredResourcesExceptForVersion, Command, publishInterests, cacheVars,
                queueVars, Idle
  <1>3. /\ InstanceInv(getOrCreateApplicationInstance(a))
        /\ SteadyInstance(getOrCreateApplicationInstance(a))
    BY GetOrCreateKeeps DEF ClusterInv, getOrCreateApplicationInstance, AccurateInv, DesiredHeard,
                            SteadyInstance, NewApplicationInstance
  <1> DEFINE Edited == \E inst : /\ SteadyInstance(inst)
                                 /\ instances' = [x \in DOMAIN instances \cup {a} |->
                                                    IF x = a THEN inst ELSE instances[x]]
  <1>4. Edited
    <2>1. ASSUME NEW carried \in SUBSET DOMAIN DesiredResources,
                 BeginMerge(a, carried) \/ BeginReplace(a, carried)
          PROVE  Edited
      <3>1. PICK incoming \in ResolvedIncoming(Restrict(DesiredResources, carried)) :
              \/ upsertApplicationInstance(a,
                   MergeDesiredResources(getOrCreateApplicationInstance(a), incoming))
              \/ upsertApplicationInstance(a,
                   ReplaceDesiredResources(getOrCreateApplicationInstance(a), incoming))
        BY <2>1 DEF BeginMerge, BeginReplace
      <3>2. /\ SteadyInstance(MergeDesiredResources(getOrCreateApplicationInstance(a), incoming))
            /\ SteadyInstance(ReplaceDesiredResources(getOrCreateApplicationInstance(a), incoming))
        BY <1>3, IncomingSteady, EditsSteady
      <3>3. QED
        BY <3>1, <3>2 DEF upsertApplicationInstance
    <2>2. ASSUME NEW inst, a \in DOMAIN instances, instances' = [instances EXCEPT ![a] = inst],
                 SteadyInstance(inst)
          PROVE  Edited
      <3>1. instances' = [x \in DOMAIN instances \cup {a} |->
                            IF x = a THEN inst ELSE instances[x]]
        BY <2>2
      <3>2. QED
        BY <2>2, <3>1
    <2>3. ASSUME NEW ids, deleteDesiredResources(a, ids)
          PROVE  Edited
      <3>1. /\ a \in DOMAIN instances
            /\ instances' = [instances EXCEPT ![a] = DeleteDesiredResources(instances[a], ids)]
        BY <2>3 DEF deleteDesiredResources
      <3>2. InstanceInv(instances[a]) /\ SteadyInstance(instances[a])
        BY <3>1 DEF ClusterInv, InstancesInv, AccurateInv, DesiredHeard
      <3>3. SteadyInstance(DeleteDesiredResources(instances[a], ids))
        BY <3>2 DEF SteadyInstance, DeleteDesiredResources, Restrict, InstanceInv, IsInstance
      <3>4. QED
        BY <2>2, <3>1, <3>3
    <2>4. ASSUME NEW v, deleteDesiredResourcesExceptForVersion(a, v)
          PROVE  Edited
      <3>1. /\ a \in DOMAIN instances
            /\ instances' = [instances EXCEPT ![a] =
                               DeleteDesiredResourcesExceptForVersion(instances[a], v)]
        BY <2>4 DEF deleteDesiredResourcesExceptForVersion
      <3>2. InstanceInv(instances[a]) /\ SteadyInstance(instances[a])
        BY <3>1 DEF ClusterInv, InstancesInv, AccurateInv, DesiredHeard
      <3>3. SteadyInstance(DeleteDesiredResourcesExceptForVersion(instances[a], v))
        BY <3>2 DEF SteadyInstance, DeleteDesiredResourcesExceptForVersion, Restrict, InstanceInv,
                    IsInstance
      <3>4. QED
        BY <2>2, <3>1, <3>3
    <2>5. QED
      BY <1>1, <2>1, <2>3, <2>4
  <1>5. \A x \in DOMAIN instances' : /\ SteadyInstance(instances'[x])
                                     /\ x # a => instances'[x] = instances[x]
    BY <1>4 DEF AccurateInv, DesiredHeard
  <1>6. DesiredHeard'
    BY <1>2, <1>5, PublishedCovers DEF DesiredHeard, SteadyInstance
  <1>7. QueueNewest' /\ WalkSees'
    BY <1>2 DEF AccurateInv, QueueNewest, WalkSees
  <1>8. SettledNewest'
    <2>1. \A x \in settled' : x \in settled /\ x # a /\ instances'[x] = instances[x]
      BY <1>2, <1>4 DEF TypeInv, OpTyped
    <2>2. QED
      BY <1>2, <2>1, SettledOutsideScan DEF SettledNewest
  <1>9. QED
    BY <1>6, <1>7, <1>8 DEF AccurateInv

(* Steps that edit neither cluster nor queue nor instances. *)
LEMMA IdleStepsAccurate ==
  ASSUME TypeInv, AccurateInv, SyncFails \/ BeginSweep \/ FinishPublish
  PROVE  AccurateInv'
  <1>1. /\ UNCHANGED <<live, instances, settled, missed, dead, queued>>
        /\ op.name # "walk" /\ op'.name # "walk" /\ ~dead
        /\ interest' \in {interest, KeysOfInterest(instances)}
    BY DEF SyncFails, BeginSweep, FinishPublish, cacheVars, queueVars, Idle
  <1>2. DesiredHeard'
    BY <1>1, PublishedCovers DEF AccurateInv, DesiredHeard
  <1>3. QueueNewest' /\ WalkSees'
    BY <1>1 DEF AccurateInv, QueueNewest, WalkSees
  <1>4. SettledNewest'
    BY <1>1, SettledOutsideScan DEF SettledNewest
  <1>5. QED
    BY <1>2, <1>3, <1>4 DEF AccurateInv

(* Resolving the namespaces of an instance again shows in nothing that is  *)
(* held of it.                                                             *)
LEMMA ResolveAccurate ==
  ASSUME ClusterInv, AccurateInv, NEW a \in DOMAIN instances, NEW m,
         NEW inst \in resolveNamespaces(instances[a], m),
         instances' = [instances EXCEPT ![a] = inst], interest' = interest
  PROVE  /\ DesiredHeard'
         /\ SteadyInstance(inst) /\ DOMAIN inst.desired = DOMAIN instances[a].desired
         /\ ChildApart(instances[a]) => ChildApart(inst)
         /\ \A k, res : HeldNewest(instances[a], k, res) => HeldNewest(inst, k, res)
  <1>1. InstanceInv(instances[a]) /\ SteadyInstance(instances[a])
    BY DEF ClusterInv, InstancesInv, AccurateInv, DesiredHeard
  <1>2. /\ inst.present = instances[a].present /\ inst.child = instances[a].child
        /\ inst.missing = instances[a].missing
    BY <1>1, ResolveNamespacesKeeps
  <1>3. /\ SteadyInstance(inst)
        /\ DOMAIN inst.desired = DOMAIN instances[a].desired
        /\ \A k \in DOMAIN instances[a].desired : inst.desired[k].id = instances[a].desired[k].id
    BY <1>1, ResolveSteady
  <1>4. DesiredHeard'
    BY <1>3 DEF AccurateInv, DesiredHeard, SteadyInstance
  <1>5. ChildApart(instances[a]) => ChildApart(inst)
    BY <1>2, <1>3 DEF ChildApart
  <1>6. \A k, res : HeldNewest(instances[a], k, res) => HeldNewest(inst, k, res)
    BY <1>2, <1>3 DEF HeldNewest
  <1>7. QED
    BY <1>3, <1>4, <1>5, <1>6
(* cluster_state.go:259-277: from here on a resource that becomes live is  *)
(* queued, and what is live now is read, or cannot be.                     *)
LEMMA StartScanAccurate ==
  ASSUME ClusterInv, TypeInv, AccurateInv, NEW a, NEW disc \in Discoveries, StartScan(a, disc)
  PROVE  AccurateInv'
  <1>1. PICK inst \in resolveNamespaces(instances[a], disc.mapped) :
          /\ CacheAgrees(inst.desired, disc)
          /\ instances' = [instances EXCEPT ![a] = inst]
          /\ \E managed \in ManagedLiveObjs(inst.desired, disc) :
               op' = [name |-> "walk", todo |-> op.todo, ids |-> op.ids, in |-> op.name,
                      app |-> a, managed |-> managed, disc |-> disc]
    BY DEF StartScan
  <1>2. PICK managed \in ManagedLiveObjs(inst.desired, disc) :
          op' = [name |-> "walk", todo |-> op.todo, ids |-> op.ids, in |-> op.name,
                 app |-> a, managed |-> managed, disc |-> disc]
    BY <1>1
  <1>3. op'.name = "walk" /\ op'.app = a /\ op'.managed = managed /\ op'.disc = disc
    BY <1>2
  <1>4. /\ UNCHANGED <<live, interest, settled, dead, queued>> /\ ~dead /\ op.name # "walk"
        /\ a \in op.todo
        /\ missed' = [missed EXCEPT ![a] = @ \cap DOMAIN queued]
    BY DEF StartScan, cacheVars, queueVars
  <1>5. a \in DOMAIN instances /\ a \in AppIds /\ missed \in [AppIds -> SUBSET Keys]
    BY <1>4 DEF TypeInv, OpTyped, InstancesTyped, CountsTyped
  <1>6. /\ DesiredHeard' /\ SteadyInstance(inst)
        /\ ChildApart(instances[a]) => ChildApart(inst)
    BY <1>1, <1>4, <1>5, ResolveAccurate
  <1>7. QueueNewest'
    BY <1>4, <1>5 DEF AccurateInv, QueueNewest
  <1>8. instances'[a] = inst /\ \A x \in DOMAIN instances : x # a => instances'[x] = instances[x]
    BY <1>1, <1>5
  <1>9. WalkSees'
    <2> SUFFICES ASSUME NEW k \in DOMAIN inst.desired, live[k] # Nil,
                        inst.desired[k].id \notin UnknownBeforehand(inst.desired, disc)
                 PROVE  k \in managed
      BY <1>3, <1>4, <1>8 DEF WalkSees, UnknownBeforehand
    <2>1. inst.desired[k].kind \in disc.known
      BY <1>1, DiscoveriesAssumption DEF CacheAgrees, IsDiscovery
    <2>2. k \in TargetKeys(inst.desired, disc)
      BY <1>6, <2>1 DEF TargetKeys, SteadyInstance, IsSteadyDesired
    <2>3. QED
      BY <2>2 DEF ManagedLiveObjs
  <1>10. SettledNewest'
    <2> SUFFICES ASSUME NEW x \in settled
                 PROVE  /\ ChildApart(instances'[x])
                        /\ x # a => \A k \in Keys \ (DOMAIN queued \cup missed'[x]) :
                                      live[k] # Nil => HeldNewest(instances'[x], k, live[k])
      BY <1>3, <1>4 DEF SettledNewest, Scanned
    <2>1. CASE x = a
      BY <1>4, <1>6, <1>8, <2>1, SettledOutsideScan
    <2>2. CASE x # a
      <3>1. instances'[x] = instances[x] /\ missed'[x] = missed[x]
        BY <1>4, <1>5, <1>8, <2>2, SettledOutsideScan
      <3>2. QED
        BY <1>4, <3>1, SettledOutsideScan
    <2>3. QED
      BY <2>1, <2>2
  <1>11. QED
    BY <1>6, <1>7, <1>9, <1>10 DEF AccurateInv

LEMMA ScanFailsAccurate ==
  ASSUME ClusterInv, TypeInv, AccurateInv, NEW a, NEW disc, ScanFails(a, disc)
  PROVE  AccurateInv'
  <1>1. PICK inst \in resolveNamespaces(instances[a], disc.mapped) :
          instances' = [instances EXCEPT ![a] = inst]
    BY DEF ScanFails
  <1>2. /\ UNCHANGED <<live, interest, settled, missed, dead, queued>>
        /\ ~dead /\ op.name # "walk" /\ op'.name # "walk" /\ a \in op.todo
    BY DEF ScanFails, AfterScan, Idle, cacheVars, queueVars
  <1>3. a \in DOMAIN instances
    BY <1>2 DEF TypeInv, OpTyped
  <1>4. /\ DesiredHeard'
        /\ ChildApart(instances[a]) => ChildApart(inst)
        /\ \A k, res : HeldNewest(instances[a], k, res) => HeldNewest(inst, k, res)
    BY <1>1, <1>2, <1>3, ResolveAccurate
  <1>5. instances'[a] = inst /\ \A x \in DOMAIN instances : x # a => instances'[x] = instances[x]
    BY <1>1, <1>3
  <1>6. QueueNewest' /\ WalkSees'
    BY <1>2 DEF AccurateInv, QueueNewest, WalkSees
  <1>7. SettledNewest'
    <2> SUFFICES ASSUME NEW x \in settled
                 PROVE  /\ ChildApart(instances'[x])
                        /\ \A k \in Keys \ (DOMAIN queued \cup missed[x]) :
                             live[k] # Nil => HeldNewest(instances'[x], k, live[k])
      BY <1>2 DEF SettledNewest
    <2>1. /\ x \in DOMAIN instances /\ ChildApart(instances[x])
          /\ \A k \in Keys \ (DOMAIN queued \cup missed[x]) :
               live[k] # Nil => HeldNewest(instances[x], k, live[k])
      BY <1>2, SettledOutsideScan
    <2>2. CASE x = a
      BY <1>4, <1>5, <2>1, <2>2
    <2>3. CASE x # a
      BY <1>5, <2>1, <2>3
    <2>4. QED
      BY <2>2, <2>3
  <1>8. QED
    BY <1>4, <1>6, <1>7 DEF AccurateInv

(* A scan that began is complete.                                          *)
LEMMA FinishScanAccurate ==
  ASSUME Steady, ClusterInv, TypeInv, AccurateInv, FinishScan
  PROVE  AccurateInv'
  <1> DEFINE a == op.app
             inst == Monitored(instances[a], op.managed, op.disc)
  <1>1. op.name = "walk" /\ a \in DOMAIN instances /\ op.managed \in SUBSET Keys /\ ~dead
    BY DEF FinishScan, TypeInv, OpTyped
  <1>2. /\ instances' = [instances EXCEPT ![a] = inst]
        /\ settled' = settled \cup {a}
        /\ UNCHANGED <<live, interest, missed, dead, queued>>
        /\ op'.name # "walk"
    BY <1>1 DEF FinishScan, AfterScan, cacheVars, queueVars, ClusterInv, OpInv
  <1>3. InstanceInv(instances[a]) /\ SteadyInstance(instances[a])
    BY <1>1 DEF ClusterInv, InstancesInv, AccurateInv, DesiredHeard
  <1>4. /\ inst.desired = instances[a].desired
        /\ ChildApart(inst)
        /\ \A k \in Keys :
             /\ live[k] # Nil
             /\ k \in DOMAIN instances[a].desired =>
                  \/ k \in op.managed
                  \/ instances[a].desired[k].id \in UnknownBeforehand(instances[a].desired, op.disc)
             => HeldNewest(inst, k, live[k])
    BY <1>1, <1>3, MonitoredNewest
  <1> HIDE DEF inst
  <1>5. instances'[a] = inst /\ \A x \in DOMAIN instances : x # a => instances'[x] = instances[x]
    BY <1>1, <1>2
  <1>6. DesiredHeard'
    BY <1>2, <1>4 DEF AccurateInv, DesiredHeard, SteadyInstance
  <1>7. QueueNewest' /\ WalkSees'
    BY <1>2 DEF AccurateInv, QueueNewest, WalkSees
  <1>8. SettledNewest'
    <2> SUFFICES ASSUME NEW x \in settled \cup {a}
                 PROVE  /\ ChildApart(instances'[x])
                        /\ \A k \in Keys \ (DOMAIN queued \cup missed[x]) :
                             live[k] # Nil => HeldNewest(instances'[x], k, live[k])
      BY <1>2 DEF SettledNewest
    <2>1. CASE x = a
      <3>1. \A k \in DOMAIN instances[a].desired \ (DOMAIN queued \cup missed[a]) :
              live[k] # Nil =>
                \/ k \in op.managed
                \/ instances[a].desired[k].id \in UnknownBeforehand(instances[a].desired, op.disc)
        BY <1>1 DEF AccurateInv, WalkSees
      <3>2. QED
        BY <1>4, <1>5, <2>1, <3>1
    <2>2. CASE x # a
      <3>1. /\ x \in DOMAIN instances /\ ~Scanned(x)
            /\ ChildApart(instances[x])
            /\ \A k \in Keys \ (DOMAIN queued \cup missed[x]) :
                 live[k] # Nil => HeldNewest(instances[x], k, live[k])
        BY <1>1, <2>2 DEF TypeInv, OpTyped, AccurateInv, SettledNewest, Scanned
      <3>2. QED
        BY <1>5, <2>2, <3>1
    <2>3. QED
      BY <2>1, <2>2
  <1>9. QED
    BY <1>6, <1>7, <1>8 DEF AccurateInv
(* The first queued change is applied to every instance.                   *)
LEMMA ApplyAccurate ==
  ASSUME Steady, ClusterInv, TypeInv, AccurateInv, ApplyResourceChange
  PROVE  AccurateInv'
  <1>1. PICK x \in DOMAIN queued : HandOver(x) /\ (ChangeApplied(queued[x]) \/ StackExhausted)
    BY DEF ApplyResourceChange
  <1>2. UNCHANGED <<live, op, settled, missed>> /\ ~dead /\ op.name = "idle"
    BY DEF ApplyResourceChange, cacheVars, Idle
  <1>3. /\ DOMAIN queued' = DOMAIN queued \ {x}
        /\ \A k \in DOMAIN queued' : queued'[k] = queued[k]
    BY <1>1 DEF HandOver
  <1>4. QueueNewest' /\ WalkSees'
    BY <1>2, <1>3 DEF AccurateInv, QueueNewest, WalkSees
  <1>5. CASE StackExhausted
    <2>1. dead' = TRUE /\ UNCHANGED <<instances, interest>>
      BY <1>5 DEF StackExhausted
    <2>2. DesiredHeard' /\ SettledNewest'
      BY <2>1 DEF AccurateInv, DesiredHeard, SettledNewest
    <2>3. QED
      BY <1>4, <2>2 DEF AccurateInv
  <1>6. CASE ChangeApplied(queued[x])
    <2> DEFINE result == [a \in DOMAIN instances |->
                            GetChangesForUpdatedResource(instances[a], queued[x])]
    <2>1. /\ instances' = [a \in DOMAIN instances |-> result[a].inst]
          /\ interest' = KeysOfInterest(instances') \/ interest' = interest
          /\ dead' = dead
      BY <1>6 DEF ChangeApplied, publishInterests
    <2>2. \A a \in DOMAIN instances : instances'[a] = GetChangesForUpdatedResource(instances[a], queued[x]).inst
      BY <2>1
    <2>3. DOMAIN instances' = DOMAIN instances
      BY <2>1
    <2> HIDE DEF result
    <2>4. \A a \in DOMAIN instances : InstanceInv(instances[a]) /\ SteadyInstance(instances[a])
      BY DEF ClusterInv, InstancesInv, AccurateInv, DesiredHeard
    <2>5. ChangeTypeOK(x, queued[x])
      BY DEF TypeInv, QueueTypeOK
    <2>6. \A a \in DOMAIN instances : instances'[a].desired = instances[a].desired
      <3> SUFFICES ASSUME NEW a \in DOMAIN instances PROVE instances'[a].desired = instances[a].desired
        OBVIOUS
      <3>1. QED
        BY <2>2, <2>4, DesiredUntouched
    <2>7. DesiredHeard'
      <3>1. interest' = interest => DesiredHeard'
        BY <2>3, <2>6 DEF AccurateInv, DesiredHeard, SteadyInstance
      <3>2. interest' = KeysOfInterest(instances') => DesiredHeard'
        BY <2>3, <2>6, PublishedCovers DEF AccurateInv, DesiredHeard, SteadyInstance
      <3>3. QED
        BY <2>1, <3>1, <3>2
    <2>8. SettledNewest'
      <3> SUFFICES ASSUME NEW a \in settled
                   PROVE  /\ ChildApart(instances'[a])
                          /\ \A k \in Keys \ (DOMAIN queued' \cup missed[a]) :
                               live[k] # Nil => HeldNewest(instances'[a], k, live[k])
        BY <1>2 DEF SettledNewest
      <3>1. /\ a \in DOMAIN instances /\ a \in AppIds
            /\ ChildApart(instances[a])
            /\ \A k \in Keys \ (DOMAIN queued \cup missed[a]) :
                 live[k] # Nil => HeldNewest(instances[a], k, live[k])
        BY <1>2, SettledOutsideScan
      <3>2. /\ ChildApart(instances'[a])
            /\ \A k, res : k # x /\ HeldNewest(instances[a], k, res) => HeldNewest(instances'[a], k, res)
            /\ queued[x].newRes # Nil => HeldNewest(instances'[a], x, queued[x].newRes)
        BY <2>2, <2>4, <2>5, <3>1, ChangeNewest
      <3>3. x \notin missed[a] => queued[x].newRes = live[x]
        BY <3>1 DEF AccurateInv, QueueNewest
      <3>4. QED
        BY <1>3, <3>1, <3>2, <3>3
    <2>9. QED
      BY <1>4, <2>7, <2>8 DEF AccurateInv
  <1>7. QED
    BY <1>1, <1>5, <1>6

(* The cluster changes: what concerns a desired resource, or one that a    *)
(* desired resource owns, is queued.                                       *)
LEMMA EventAccurate ==
  ASSUME TypeInv, AccurateInv, NEW k \in Keys, NEW res \in StatesOf(k),
         live[k] # Nil \/ res # Nil, ResourceEvent(k, res)
  PROVE  AccurateInv'
  <1>1. /\ live' = [live EXCEPT ![k] = res]
        /\ interest \subseteq interest'
        /\ UNCHANGED <<instances, op, settled, dead>> /\ ~dead
    BY DEF ResourceEvent, InheritedInterest
  <1>2. live'[k] = res /\ \A y \in Keys : y # k => live'[y] = live[y]
    BY <1>1 DEF TypeInv, LiveTypeOK
  <1>3. DesiredHeard'
    BY <1>1 DEF AccurateInv, DesiredHeard
  <1>4. /\ settled \subseteq DOMAIN instances /\ DOMAIN instances \subseteq AppIds
        /\ op.name = "walk" => op.app \in DOMAIN instances
        /\ DOMAIN queued \subseteq Keys
        /\ \A a \in DOMAIN instances : DOMAIN instances[a].desired \subseteq interest
        /\ interest \subseteq Keys
    BY DEF TypeInv, OpTyped, InstancesTyped, QueueTypeOK, CountsTyped, AccurateInv, DesiredHeard
  <1>5. CASE IsRouted(live[k], res, interest')
    <2>1. /\ Accept([oldRes |-> live[k], newRes |-> res])
          /\ missed' = [a \in AppIds |-> missed[a] \ {k}]
      BY <1>5 DEF ResourceEvent
    <2>2. /\ DOMAIN queued' = DOMAIN queued \cup {k}
          /\ queued'[k].newRes = res
          /\ \A y \in DOMAIN queued \ {k} : queued'[y] = queued[y]
      BY <2>1, AcceptTyped DEF TypeInv, LiveTypeOK
    <2>3. QueueNewest'
      BY <1>2, <1>4, <2>1, <2>2 DEF AccurateInv, QueueNewest
    <2>4. WalkSees'
      BY <1>1, <1>2, <1>4, <2>1, <2>2 DEF AccurateInv, WalkSees, UnknownBeforehand
    <2>5. SettledNewest'
      BY <1>1, <1>2, <1>4, <2>1, <2>2 DEF AccurateInv, SettledNewest, Scanned
    <2>6. QED
      BY <1>3, <2>3, <2>4, <2>5 DEF AccurateInv
  <1>6. CASE ~IsRouted(live[k], res, interest')
    <2>1. /\ queued' = queued
          /\ missed' = [a \in AppIds |-> missed[a] \cup ({k} \cap DOMAIN queued)]
      BY <1>6 DEF ResourceEvent, queueVars
    <2>2. /\ k \notin interest'
          /\ res # Nil => ownerRefKeys(res) \cap interest' = {}
      <3>1. (live[k] # Nil => live[k].key = k) /\ (res # Nil => res.key = k)
        BY ResourceTypes DEF TypeInv, LiveTypeOK
      <3>2. QED
        BY <1>6, <3>1 DEF IsRouted
    <2>3. QueueNewest'
      BY <1>2, <1>4, <2>1 DEF AccurateInv, QueueNewest
    <2>4. WalkSees'
      BY <1>1, <1>2, <1>4, <2>1, <2>2 DEF AccurateInv, WalkSees, UnknownBeforehand
    <2>5. SettledNewest'
      <3> SUFFICES ASSUME NEW a \in settled
                   PROVE  /\ ChildApart(instances[a])
                          /\ ~Scanned(a) =>
                               \A y \in Keys \ (DOMAIN queued \cup missed'[a]) :
                                 live'[y] # Nil => HeldNewest(instances[a], y, live'[y])
        BY <1>1, <2>1 DEF SettledNewest, Scanned
      <3>1. /\ ChildApart(instances[a])
            /\ ~Scanned(a) => \A y \in Keys \ (DOMAIN queued \cup missed[a]) :
                                live[y] # Nil => HeldNewest(instances[a], y, live[y])
        BY <1>1 DEF AccurateInv, SettledNewest
      <3>2. a \in AppIds /\ DOMAIN instances[a].desired \subseteq interest'
        BY <1>1, <1>4
      <3>3. res # Nil => HeldNewest(instances[a], k, res)
        BY <2>2, <3>2 DEF HeldNewest
      <3>4. QED
        BY <1>2, <2>1, <3>1, <3>2, <3>3
    <2>6. QED
      BY <1>3, <2>3, <2>4, <2>5 DEF AccurateInv
  <1>7. QED
    BY <1>5, <1>6

LEMMA AccurateStep ==
  ASSUME Steady, ClusterInv, TypeInv, AccurateInv, [Next]_vars
  PROVE  AccurateInv'
  <1>1. CASE Commands
    BY <1>1, CommandsAccurate
  <1>2. CASE SyncFails \/ BeginSweep \/ FinishPublish
    BY <1>2, IdleStepsAccurate
  <1>3. CASE \E a \in AppIds, disc \in Discoveries : StartScan(a, disc) \/ ScanFails(a, disc)
    BY <1>3, StartScanAccurate, ScanFailsAccurate
  <1>4. CASE FinishScan
    BY <1>4, FinishScanAccurate
  <1>5. CASE ApplyResourceChange
    BY <1>5, ApplyAccurate
  <1>6. CASE \E k \in Keys : Created(k) \/ Touched(k) \/ Deleted(k)
    <2>1. PICK k \in Keys : Created(k) \/ Touched(k) \/ Deleted(k)
      BY <1>6
    <2>2. PICK res \in StatesOf(k) : (live[k] # Nil \/ res # Nil) /\ ResourceEvent(k, res)
      BY <2>1, ClusterEvents
    <2>3. QED
      BY <2>2, EventAccurate
  <1>7. CASE UNCHANGED vars
    BY <1>7 DEF vars, AccurateInv, DesiredHeard, QueueNewest, WalkSees, UnknownBeforehand,
                SettledNewest, Scanned
  <1>8. QED
    BY <1>1, <1>2, <1>3, <1>4, <1>5, <1>6, <1>7 DEF Next

(* cluster_state.go:259-277, resource_changes.go:23-25: whatever else runs *)
(* in the same target and however the cluster changes while it is read, no *)
(* change falls between a scan and the queue, provided that the commands   *)
(* are steady.                                                             *)
THEOREM NothingFallsBetween == Steady /\ Spec => []Accurate
  <1> SUFFICES ASSUME Steady PROVE Spec => []Accurate
    OBVIOUS
  <1> DEFINE Inv == ClusterInv /\ TypeInv /\ AccurateInv
  <1>1. newClusterState => Inv
    BY ClusterInit, TypeInit, AccurateInit
  <1>2. Inv /\ [Next]_vars => Inv'
    BY ClusterStep, TypeStep, AccurateStep
  <1>3. Inv => Accurate
    BY AccurateIsEnough
  <1>4. QED
    BY <1>1, <1>2, <1>3, PTL DEF Spec
-----------------------------------------------------------------------------
(* OwnerSearchReturns *)

IsBorn(u, b) == \E k \in Keys : \E n \in 1..b[k] : u = <<k, n>>

(* A state of a resource whose owner, if it names one, was born before it. *)
OwnerFirst(r, rank, b) ==
  r # Nil => /\ IsBorn(r.version.uid, b)
             /\ r.version.owner # NoUid => /\ IsBorn(r.version.owner, b)
                                           /\ rank[r.version.owner] < rank[r.version.uid]

(* The owner of a child is the one that it names. *)
ChildrenNameOwners(inst, rank, b) ==
  \A k \in DOMAIN inst.child :
    /\ OwnerFirst(inst.child[k].res, rank, b)
    /\ inst.child[k].ownerId = inst.child[k].res.version.owner

LiveInOrder(rank) == \A k \in Keys : OwnerFirst(live[k], rank, births)

(* There is one order of birth for all states that can come to be held.    *)
InOrderOfBirth(rank) ==
  /\ LiveInOrder(rank)
  /\ \A k \in DOMAIN queued : OwnerFirst(queued[k].newRes, rank, births)
  /\ \A a \in DOMAIN instances : ChildrenNameOwners(instances[a], rank, births)

OwnersInv == ~dead /\ \E rank \in [Uids -> Nat] : InOrderOfBirth(rank)

(* Without made-up references every way to an owner leads to the one that  *)
(* the resource names.                                                     *)
LEMMA NamedOwner ==
  ASSUME FilledIn = {}, NEW a, NEW r
  PROVE  getFirstOwnerId(r) = r.version.owner /\ GetParentResourceId(a, r) = r.version.owner
  <1>1. r.version.owner = NoUid => ownerRefKeys(r) = {}
    BY DEF ownerRefKeys
  <1>2. r.version.owner # NoUid => ownerRefKeys(r) = {Owner[r.key]}
    BY DEF ownerRefKeys
  <1>3. infoOwnerUid(r) = r.version.owner
    BY DEF infoOwnerUid
  <1>4. getFirstOwnerId(r) = r.version.owner
    BY <1>1, <1>2 DEF getFirstOwnerId
  <1>5. CASE r.version.owner = NoUid
    BY <1>1, <1>4, <1>5 DEF GetParentResourceId
  <1>6. CASE r.version.owner # NoUid
    BY <1>2, <1>3, <1>4, <1>6 DEF GetParentResourceId
  <1>7. QED
    BY <1>5, <1>6

LEMMA SearchOfChangeEnds ==
  ASSUME FilledIn = {}, TypeInv, NEW rank \in [Uids -> Nat], InOrderOfBirth(rank),
         NEW a \in DOMAIN instances, NEW k \in DOMAIN queued
  PROVE  OwnerSearchEnds(instances[a], queued[k])
  <1> DEFINE new == queued[k].newRes
             child == instances[a].child
  <1> SUFFICES ASSUME isChildUpsert(calculateResourceChange(instances[a], queued[k]))
               PROVE  climb(GetParentResourceId(instances[a], new), child).ends
    BY DEF OwnerSearchEnds
  <1>1. new # Nil /\ new \in StatesOf(k)
    BY DEF isChildUpsert, calculateResourceChange, TypeInv, QueueTypeOK, ChangeTypeOK
  <1>2. new.version.owner \in Uids \cup {NoUid}
    BY <1>1, ResourceTypes DEF UidOrNone
  <1>3. IsFiniteSet(DOMAIN child)
    BY KeysAssumption, FS_Subset DEF TypeInv, InstancesTyped, HeldTypeOK
  <1>4. ASSUME NEW c \in DOMAIN child
        PROVE  /\ uidOf(child[c].res) \in Uids
               /\ child[c].ownerId \in Uids \cup {NoUid}
               /\ child[c].ownerId # NoUid => rank[child[c].ownerId] < rank[uidOf(child[c].res)]
    <2>1. child[c].res \in StatesOf(c) /\ child[c].res # Nil
      BY DEF TypeInv, InstancesTyped, HeldTypeOK
    <2>2. uidOf(child[c].res) \in Uids /\ child[c].res.version.owner \in Uids \cup {NoUid}
      BY <2>1, ResourceTypes DEF UidOrNone
    <2>3. OwnerFirst(child[c].res, rank, births) /\ child[c].ownerId = child[c].res.version.owner
      BY DEF InOrderOfBirth, ChildrenNameOwners
    <2>4. QED
      BY <2>1, <2>2, <2>3 DEF OwnerFirst, uidOf
  <1> HIDE DEF child, new
  <1>5. climb(new.version.owner, child).ends
    BY <1>2, <1>3, <1>4, SearchEnds
  <1>6. QED
    BY <1>5, NamedOwner

(* What is held of an instance after an edit, a scan and a change. *)
LEMMA EditsNameOwners ==
  ASSUME NEW a, InstanceInv(a), NEW rank, ChildrenNameOwners(a, rank, births),
         NEW incoming, NEW ids, NEW v
  PROVE  /\ ChildrenNameOwners(NewApplicationInstance, rank, births)
         /\ ChildrenNameOwners(MergeDesiredResources(a, incoming), rank, births)
         /\ ChildrenNameOwners(ReplaceDesiredResources(a, incoming), rank, births)
         /\ ChildrenNameOwners(DeleteDesiredResources(a, ids), rank, births)
         /\ ChildrenNameOwners(DeleteDesiredResourcesExceptForVersion(a, v), rank, births)
  BY DEF ChildrenNameOwners, NewApplicationInstance, MergeDesiredResources,
         ReplaceDesiredResources, DeleteDesiredResources, DeleteDesiredResourcesExceptForVersion,
         InstanceInv, IsInstance

LEMMA ResolveNamesOwners ==
  ASSUME NEW a, InstanceInv(a), NEW rank, ChildrenNameOwners(a, rank, births), NEW map,
         NEW inst \in resolveNamespaces(a, map)
  PROVE  ChildrenNameOwners(inst, rank, births)
  <1>1. PICK f : inst = [a EXCEPT !.desired = f]
    BY DEF resolveNamespaces
  <1>2. inst.child = a.child
    BY <1>1 DEF InstanceInv, IsInstance
  <1>3. QED
    BY <1>2 DEF ChildrenNameOwners

LEMMA MonitoredNamesOwners ==
  ASSUME FilledIn = {}, NEW a, InstanceInv(a), NEW rank, LiveInOrder(rank),
         NEW managed \in SUBSET Keys, NEW disc
  PROVE  ChildrenNameOwners(Monitored(a, managed, disc), rank, births)
  <1> DEFINE found == Discovered(managed)
             owned == [k \in found \ DOMAIN a.desired |->
                         [res |-> live[k], ownerId |-> getFirstOwnerId(live[k])]]
             child == [k \in DOMAIN owned |->
                         [res |-> owned[k].res, ownerId |-> owned[k].ownerId,
                          rootOwnerId |-> getRootParentResource(owned[k].ownerId, owned)]]
  <1>1. Monitored(a, managed, disc).child = child
    BY DEF Monitored, replaceMonitoredResources, InstanceInv, IsInstance
  <1>2. \A k \in found : k \in Keys
    BY DiscoveredIsLive
  <1> HIDE DEF found
  <1>3. \A k \in DOMAIN owned : OwnerFirst(owned[k].res, rank, births) /\ owned[k].ownerId = owned[k].res.version.owner
    <2>1. \A k \in found : OwnerFirst(live[k], rank, births)
      BY <1>2, Zenon DEF LiveInOrder
    <2>2. \A r : getFirstOwnerId(r) = r.version.owner
      BY NamedOwner
    <2>3. QED
      BY <2>1, <2>2
  <1> HIDE DEF owned
  <1>4. \A k \in DOMAIN child : OwnerFirst(child[k].res, rank, births) /\ child[k].ownerId = child[k].res.version.owner
    BY <1>3
  <1> HIDE DEF child
  <1>5. QED
    BY <1>1, <1>4 DEF ChildrenNameOwners

LEMMA ChangeNamesOwners ==
  ASSUME FilledIn = {}, NEW a, InstanceInv(a), NEW rank, ChildrenNameOwners(a, rank, births),
         NEW change, OwnerFirst(change.newRes, rank, births)
  PROVE  ChildrenNameOwners(GetChangesForUpdatedResource(a, change).inst, rank, births)
  <1> DEFINE case == calculateResourceChange(a, change)
             new == change.newRes
             old == change.oldRes
             inst == GetChangesForUpdatedResource(a, change).inst
  <1>1. case \in {"DesiredResourceFound", "DesiredResourceUpdated", "ChildResourceUpdated",
                  "DesiredResourceRemoved", "ChildResourceRemoved", "ChildResourceFound",
                  "NoChange"}
    BY DEF calculateResourceChange
  <1>2. DOMAIN a = {"desired", "present", "child", "missing", "unknown", "tracked"}
    BY DEF InstanceInv, IsInstance
  <1> HIDE DEF case, new, old
  <1>3. CASE case \in {"DesiredResourceFound", "DesiredResourceUpdated"}
    <2>1. inst = NowPresent(a, new)
      BY <1>3 DEF GetChangesForUpdatedResource, case, new, old, isChildUpsert
    <2>2. NowPresent(a, new).child = a.child
      BY <1>2 DEF NowPresent, upsertPresentMonitoredResource
    <2>3. QED
      BY <2>1, <2>2 DEF ChildrenNameOwners
  <1>4. CASE case = "DesiredResourceRemoved"
    <2>1. inst = NowMissing(a, old)
      BY <1>4 DEF GetChangesForUpdatedResource, case, new, old, isChildUpsert
    <2>2. NowMissing(a, old).child = a.child
      BY <1>2 DEF NowMissing, deletePresentMonitoredResource
    <2>3. QED
      BY <2>1, <2>2 DEF ChildrenNameOwners
  <1>5. CASE isChildUpsert(case)
    <2> DEFINE c == NewChildMonitoredResource(a, new)
    <2>1. inst = upsertChildMonitoredResource(a, c)
      BY <1>5 DEF GetChangesForUpdatedResource, case, new, old, isChildUpsert
    <2>2. c.res = new /\ c.ownerId = new.version.owner
      BY NamedOwner DEF NewChildMonitoredResource
    <2> HIDE DEF c
    <2>3. ChildrenNameOwners(upsertChildMonitoredResource(a, c), rank, births)
      BY <1>2, <2>2 DEF ChildrenNameOwners, upsertChildMonitoredResource, new
    <2>4. QED
      BY <2>1, <2>3
  <1>6. CASE case = "ChildResourceRemoved"
    <2>1. inst = deleteChildMonitoredResource(a, old.key)
      BY <1>6 DEF GetChangesForUpdatedResource, case, new, old, isChildUpsert
    <2>2. ChildrenNameOwners(deleteChildMonitoredResource(a, old.key), rank, births)
      BY <1>2 DEF ChildrenNameOwners, deleteChildMonitoredResource, Restrict
    <2>3. QED
      BY <2>1, <2>2
  <1>7. CASE case = "NoChange"
    BY <1>7 DEF GetChangesForUpdatedResource, case, new, old, isChildUpsert
  <1>8. QED
    BY <1>1, <1>3, <1>4, <1>5, <1>6, <1>7 DEF isChildUpsert
(* Steps other than a birth keep the order there is. *)
LEMMA CommandsKeepOrder ==
  ASSUME ClusterInv, NEW rank, InOrderOfBirth(rank), Commands
  PROVE  InOrderOfBirth(rank)'
  <1>1. UNCHANGED <<live, births, queued>>
    BY DEF Commands, BeginMerge, BeginReplace, deleteDesiredResources,
           deleteDesiredResourcesExceptForVersion, Command, cacheVars, queueVars
  <1>2. PICK a, inst :
          /\ instances' = [x \in DOMAIN instances \cup {a} |-> IF x = a THEN inst ELSE instances[x]]
          /\ ChildrenNameOwners(inst, rank, births)
    <2>1. PICK a \in AppIds :
            \/ \E carried \in SUBSET DOMAIN DesiredResources :
                 BeginMerge(a, carried) \/ BeginReplace(a, carried)
            \/ \E ids \in SUBSET Ids : deleteDesiredResources(a, ids)
            \/ \E v \in DeployVersions : deleteDesiredResourcesExceptForVersion(a, v)
      BY DEF Commands
    <2> DEFINE old == getOrCreateApplicationInstance(a)
    <2>2. InstanceInv(old) /\ ChildrenNameOwners(old, rank, births)
      <3>1. InstanceInv(old)
        BY GetOrCreateKeeps DEF ClusterInv
      <3>2. ChildrenNameOwners(NewApplicationInstance, rank, births)
        BY DEF ChildrenNameOwners, NewApplicationInstance
      <3>3. a \in DOMAIN instances => ChildrenNameOwners(instances[a], rank, births)
        BY DEF InOrderOfBirth
      <3>4. QED
        BY <3>1, <3>2, <3>3 DEF getOrCreateApplicationInstance
    <2> HIDE DEF old
    <2>3. CASE \E carried \in SUBSET DOMAIN DesiredResources :
                 BeginMerge(a, carried) \/ BeginReplace(a, carried)
      <3>1. PICK incoming :
              \/ upsertApplicationInstance(a, MergeDesiredResources(old, incoming))
              \/ upsertApplicationInstance(a, ReplaceDesiredResources(old, incoming))
        BY <2>3 DEF BeginMerge, BeginReplace, old
      <3>2. QED
        BY <2>2, <3>1, EditsNameOwners DEF upsertApplicationInstance
    <2>4. CASE \/ \E ids \in SUBSET Ids : deleteDesiredResources(a, ids)
               \/ \E v \in DeployVersions : deleteDesiredResourcesExceptForVersion(a, v)
      <3>1. PICK ids, v :
              /\ a \in DOMAIN instances
              /\ \/ instances' = [instances EXCEPT ![a] = DeleteDesiredResources(@, ids)]
                 \/ instances' = [instances EXCEPT ![a] =
                                    DeleteDesiredResourcesExceptForVersion(@, v)]
        BY <2>4 DEF deleteDesiredResources, deleteDesiredResourcesExceptForVersion
      <3>2. old = instances[a] /\ DOMAIN instances \cup {a} = DOMAIN instances
        BY <3>1 DEF old, getOrCreateApplicationInstance
      <3>3. PICK inst : /\ instances' = [instances EXCEPT ![a] = inst]
                        /\ \/ inst = DeleteDesiredResources(old, ids)
                           \/ inst = DeleteDesiredResourcesExceptForVersion(old, v)
        BY <3>1, <3>2
      <3>4. ChildrenNameOwners(inst, rank, births)
        BY <2>2, <3>3, EditsNameOwners
      <3>5. instances' = [x \in DOMAIN instances |-> IF x = a THEN inst ELSE instances[x]]
        BY <3>3
      <3>6. QED
        BY <3>2, <3>4, <3>5
    <2>5. QED
      BY <2>1, <2>3, <2>4
  <1>3. \A x \in DOMAIN instances' : ChildrenNameOwners(instances'[x], rank, births)
    BY <1>2 DEF InOrderOfBirth
  <1>4. QED
    BY <1>1, <1>3 DEF InOrderOfBirth, LiveInOrder

LEMMA ScansKeepOrder ==
  ASSUME FilledIn = {}, ClusterInv, TypeInv, NEW rank, InOrderOfBirth(rank),
         FinishScan \/ \E a \in AppIds, disc \in Discoveries : StartScan(a, disc) \/ ScanFails(a, disc)
  PROVE  InOrderOfBirth(rank)'
  <1>1. UNCHANGED <<live, births, queued>>
    BY DEF FinishScan, StartScan, ScanFails, cacheVars, queueVars
  <1>2. PICK a, inst : /\ instances' = [instances EXCEPT ![a] = inst]
                       /\ ChildrenNameOwners(inst, rank, births)
    <2>1. CASE FinishScan
      <3>1. op.app \in DOMAIN instances /\ op.managed \in SUBSET Keys
        BY <2>1 DEF FinishScan, TypeInv, OpTyped
      <3>2. ChildrenNameOwners(Monitored(instances[op.app], op.managed, op.disc), rank, births)
        BY <3>1, MonitoredNamesOwners DEF ClusterInv, InstancesInv, InOrderOfBirth
      <3>3. QED
        BY <2>1, <3>2 DEF FinishScan
    <2>2. CASE \E a \in AppIds, disc \in Discoveries : StartScan(a, disc) \/ ScanFails(a, disc)
      <3>1. PICK a \in AppIds, disc \in Discoveries : StartScan(a, disc) \/ ScanFails(a, disc)
        BY <2>2
      <3>2. PICK inst \in resolveNamespaces(instances[a], disc.mapped) :
              instances' = [instances EXCEPT ![a] = inst]
        BY <3>1 DEF StartScan, ScanFails
      <3>3. a \in DOMAIN instances
        BY <3>1 DEF StartScan, ScanFails, TypeInv, OpTyped
      <3>4. QED
        BY <3>2, <3>3, ResolveNamesOwners DEF ClusterInv, InstancesInv, InOrderOfBirth
    <2>3. QED
      BY <2>1, <2>2
  <1>3. \A x \in DOMAIN instances' : ChildrenNameOwners(instances'[x], rank, births)
    BY <1>2 DEF InOrderOfBirth
  <1>4. QED
    BY <1>1, <1>3 DEF InOrderOfBirth, LiveInOrder

LEMMA ApplyKeepsOrder ==
  ASSUME FilledIn = {}, ClusterInv, TypeInv, NEW rank \in [Uids -> Nat], InOrderOfBirth(rank),
         ApplyResourceChange
  PROVE  InOrderOfBirth(rank)' /\ dead' = dead
  <1>1. PICK k \in DOMAIN queued : HandOver(k) /\ ChangeApplied(queued[k])
    BY SearchOfChangeEnds DEF ApplyResourceChange
  <1>2. UNCHANGED <<live, births>> /\ dead' = dead
    BY <1>1 DEF ApplyResourceChange, cacheVars, ChangeApplied
  <1>3. \A x \in DOMAIN queued' : x \in DOMAIN queued /\ queued'[x] = queued[x]
    BY <1>1 DEF HandOver
  <1>4. /\ DOMAIN instances' = DOMAIN instances
        /\ \A a \in DOMAIN instances :
             instances'[a] = GetChangesForUpdatedResource(instances[a], queued[k]).inst
    BY <1>1 DEF ChangeApplied
  <1>5. \A a \in DOMAIN instances' : ChildrenNameOwners(instances'[a], rank, births)
    BY <1>1, <1>4, ChangeNamesOwners DEF ClusterInv, InstancesInv, InOrderOfBirth
  <1>6. QED
    BY <1>2, <1>3, <1>5 DEF InOrderOfBirth, LiveInOrder

(* An event is about a state that is in order. *)
LEMMA EventKeepsOrder ==
  ASSUME TypeInv, NEW rank, NEW k \in Keys, NEW res \in StatesOf(k), live[k] # Nil \/ res # Nil,
         ResourceEvent(k, res), OwnerFirst(res, rank, births'), InOrderOfBirth(rank),
         births' = births \/ births' = [births EXCEPT ![k] = @ + 1]
  PROVE  InOrderOfBirth(rank)' /\ dead' = dead
  <1>1. live' = [live EXCEPT ![k] = res] /\ UNCHANGED <<instances, dead>>
    BY DEF ResourceEvent
  <1>2. \A x \in DOMAIN queued' : \/ x = k /\ queued'[x].newRes = res
                                  \/ x \in DOMAIN queued /\ queued'[x] = queued[x]
    <2>1. live[k] \in StatesOf(k) /\ QueueTypeOK
      BY DEF TypeInv, LiveTypeOK
    <2>2. Accept([oldRes |-> live[k], newRes |-> res]) \/ queued' = queued
      BY DEF ResourceEvent, queueVars
    <2>3. CASE queued' = queued
      BY <2>3
    <2>4. CASE Accept([oldRes |-> live[k], newRes |-> res])
      <3>1. /\ DOMAIN queued' = DOMAIN queued \cup {k} /\ queued'[k].newRes = res
            /\ \A x \in DOMAIN queued \ {k} : queued'[x] = queued[x]
        BY <2>1, <2>4, AcceptTyped
      <3>2. QED
        BY <3>1
    <2>5. QED
      BY <2>2, <2>3, <2>4
  <1>3. \A u : IsBorn(u, births) => IsBorn(u, births')
    <2> SUFFICES ASSUME NEW u, IsBorn(u, births) PROVE IsBorn(u, births')
      OBVIOUS
    <2>0. PICK x \in Keys : \E n \in 1..births[x] : u = <<x, n>>
      BY DEF IsBorn
    <2>1. PICK n \in 1..births[x] : u = <<x, n>>
      BY <2>0
    <2>2. n \in 1..births'[x]
      BY DEF TypeInv, CountsTyped
    <2>3. QED
      BY <2>1, <2>2 DEF IsBorn
  <1>4. \A r : OwnerFirst(r, rank, births) => OwnerFirst(r, rank, births')
    BY <1>3 DEF OwnerFirst
  <1>5. LiveInOrder(rank)'
    <2> SUFFICES ASSUME NEW x \in Keys PROVE OwnerFirst(live'[x], rank, births')
      BY DEF LiveInOrder
    <2>1. live'[x] = res \/ live'[x] = live[x]
      BY <1>1 DEF TypeInv, LiveTypeOK
    <2>2. OwnerFirst(live[x], rank, births)
      BY DEF InOrderOfBirth, LiveInOrder
    <2>3. QED
      BY <1>4, <2>1, <2>2
  <1>6. QED
    BY <1>1, <1>2, <1>4, <1>5 DEF InOrderOfBirth, ChildrenNameOwners
(* A new resource is younger than its owner, and nobody has named it yet:  *)
(* it can be given any place in the order.                                 *)
LEMMA BirthKeepsOrder ==
  ASSUME TypeInv, NEW rank \in [Uids -> Nat], InOrderOfBirth(rank), NEW k \in Keys, Created(k)
  PROVE  dead' = dead /\ \E younger \in [Uids -> Nat] : InOrderOfBirth(younger)'
  <1> DEFINE u == <<k, births'[k]>>
  <1>1. /\ births' = [births EXCEPT ![k] = @ + 1] /\ births \in [Keys -> Nat]
        /\ births'[k] = births[k] + 1 /\ births[k] \in Nat
    BY DEF Created, TypeInv, CountsTyped
  <1>a. \A o \in PossibleOwners(k) : o \in Keys /\ live[o] # Nil
    BY DEF PossibleOwners
  <1>b. ASSUME NEW o \in PossibleOwners(k) PROVE IsBorn(uidOf(live[o]), births)
    <2>1. OwnerFirst(live[o], rank, births)
      BY <1>a DEF InOrderOfBirth, LiveInOrder
    <2>2. QED
      BY <1>a, <2>1 DEF OwnerFirst, uidOf
  <1>2. PICK owner \in {NoUid} \cup {uidOf(live[o]) : o \in PossibleOwners(k)} :
          ResourceEvent(k, [key |-> k, version |-> [uid |-> u, owner |-> owner]])
    BY DEF Created
  <1> DEFINE res == [key |-> k, version |-> [uid |-> u, owner |-> owner]]
             last == IF owner = NoUid THEN 0 ELSE rank[owner]
  <1>3. u \in Uids /\ owner \in Uids \cup {NoUid} /\ res \in StatesOf(k) /\ res # Nil
    <2>1. births[k] < MaxBirths[k] /\ MaxBirths[k] \in Nat
      BY BoundsAssumption DEF Created
    <2>2. births'[k] \in 1..MaxBirths[k]
      BY <1>1, <2>1
    <2>3. u \in Uids
      BY <2>2, BoundsAssumption
    <2>5. owner \in Uids \cup {NoUid}
      BY <1>a, ResourceTypes DEF TypeInv, LiveTypeOK
    <2>6. res \in Resource
      BY <2>3, <2>5, VersionsAssumption DEF Resource
    <2>7. QED
      BY <2>3, <2>5, <2>6, NilAssumption DEF StatesOf, ResourceOrNil
  <1>4. owner # NoUid => IsBorn(owner, births)
    BY <1>b
  <1>5. ~IsBorn(u, births)
    BY <1>1 DEF IsBorn
  <1>6. IsBorn(u, births')
    BY <1>1 DEF IsBorn
  <1>7. \A x : IsBorn(x, births) => IsBorn(x, births')
    <2> SUFFICES ASSUME NEW x, IsBorn(x, births) PROVE IsBorn(x, births')
      OBVIOUS
    <2>0. PICK y \in Keys : \E n \in 1..births[y] : x = <<y, n>>
      BY DEF IsBorn
    <2>1. PICK n \in 1..births[y] : x = <<y, n>>
      BY <2>0
    <2>2. n \in 1..births'[y]
      BY <1>1
    <2>3. QED
      BY <2>1, <2>2 DEF IsBorn
  <1> HIDE DEF u
  <1>8. last \in Nat
    BY <1>3
  <1>9. PICK younger \in [Uids -> Nat] :
          younger[u] = last + 1 /\ \A x \in Uids : x # u => younger[x] = rank[x]
    <2> DEFINE f == [rank EXCEPT ![u] = last + 1]
    <2>1. f \in [Uids -> Nat] /\ f[u] = last + 1 /\ \A x \in Uids : x # u => f[x] = rank[x]
      BY <1>3, <1>8
    <2> HIDE DEF f
    <2>2. QED
      BY <2>1
  <1>10. OwnerFirst(res, younger, births')
    <2>1. owner # NoUid => owner # u /\ owner \in Uids /\ IsBorn(owner, births')
      BY <1>3, <1>4, <1>5, <1>7
    <2>2. owner # NoUid => younger[owner] < younger[u]
      BY <1>8, <1>9, <2>1
    <2>3. QED
      BY <1>6, <2>1, <2>2 DEF OwnerFirst
  <1>11. ASSUME NEW x, NEW r \in StatesOf(x), OwnerFirst(r, rank, births)
         PROVE  OwnerFirst(r, younger, births)
    <2> SUFFICES ASSUME r # Nil PROVE OwnerFirst(r, younger, births)
      BY DEF OwnerFirst
    <2>1. r.version.uid \in Uids /\ r.version.owner \in Uids \cup {NoUid}
      BY ResourceTypes DEF uidOf, UidOrNone
    <2>2. IsBorn(r.version.uid, births) /\ r.version.uid # u
      BY <1>5, <1>11 DEF OwnerFirst
    <2>3. r.version.owner # NoUid =>
            /\ IsBorn(r.version.owner, births) /\ r.version.owner # u
            /\ rank[r.version.owner] < rank[r.version.uid]
      BY <1>5, <1>11 DEF OwnerFirst
    <2>4. QED
      BY <1>9, <2>1, <2>2, <2>3 DEF OwnerFirst
  <1>12. InOrderOfBirth(younger)
    <2>1. \A x \in Keys : live[x] \in StatesOf(x) /\ OwnerFirst(live[x], rank, births)
      BY DEF TypeInv, LiveTypeOK, InOrderOfBirth, LiveInOrder
    <2>2. \A x \in DOMAIN queued : /\ queued[x].newRes \in StatesOf(x)
                                   /\ OwnerFirst(queued[x].newRes, rank, births)
      BY DEF TypeInv, QueueTypeOK, ChangeTypeOK, InOrderOfBirth
    <2>3. ASSUME NEW a \in DOMAIN instances, NEW x \in DOMAIN instances[a].child
          PROVE  /\ OwnerFirst(instances[a].child[x].res, younger, births)
                 /\ instances[a].child[x].ownerId = instances[a].child[x].res.version.owner
      <3>1. instances[a].child[x].res \in StatesOf(x)
        BY DEF TypeInv, InstancesTyped, HeldTypeOK
      <3>2. /\ OwnerFirst(instances[a].child[x].res, rank, births)
            /\ instances[a].child[x].ownerId = instances[a].child[x].res.version.owner
        BY DEF InOrderOfBirth, ChildrenNameOwners
      <3>3. QED
        BY <1>11, <3>1, <3>2
    <2>4. QED
      BY <1>11, <2>1, <2>2, <2>3 DEF InOrderOfBirth, LiveInOrder, ChildrenNameOwners
  <1> HIDE DEF res
  <1>13. ResourceEvent(k, res)
    BY <1>2 DEF res
  <1>14. InOrderOfBirth(younger)' /\ dead' = dead
    BY <1>1, <1>3, <1>10, <1>12, <1>13, EventKeepsOrder
  <1>15. QED
    BY <1>9, <1>14

LEMMA OwnersStep ==
  ASSUME FilledIn = {}, ClusterInv, TypeInv, OwnersInv, [Next]_vars
  PROVE  OwnersInv'
  <1>1. PICK rank \in [Uids -> Nat] : InOrderOfBirth(rank)
    BY DEF OwnersInv
  <1>2. SUFFICES dead' = dead /\ \E r \in [Uids -> Nat] : InOrderOfBirth(r)'
    BY DEF OwnersInv
  <1>3. CASE Commands
    <2>1. dead' = dead
      BY <1>3 DEF Commands, BeginMerge, BeginReplace, deleteDesiredResources,
                  deleteDesiredResourcesExceptForVersion, Command
    <2>2. QED
      BY <1>1, <1>3, <2>1, CommandsKeepOrder
  <1>4. CASE SyncFails \/ BeginSweep \/ FinishPublish \/ UNCHANGED vars
    <2>1. UNCHANGED <<live, births, instances, queued, dead>>
      BY <1>4 DEF SyncFails, BeginSweep, FinishPublish, vars, cacheVars, queueVars
    <2>2. InOrderOfBirth(rank)'
      BY <1>1, <2>1 DEF InOrderOfBirth, LiveInOrder
    <2>3. QED
      BY <2>1, <2>2
  <1>5. CASE FinishScan \/ \E a \in AppIds, disc \in Discoveries : StartScan(a, disc) \/ ScanFails(a, disc)
    <2>1. dead' = dead
      BY <1>5 DEF FinishScan, StartScan, ScanFails
    <2>2. QED
      BY <1>1, <1>5, <2>1, ScansKeepOrder
  <1>6. CASE ApplyResourceChange
    BY <1>1, <1>6, ApplyKeepsOrder
  <1>7. CASE \E k \in Keys : Created(k) \/ Touched(k) \/ Deleted(k)
    <2>1. PICK k \in Keys : Created(k) \/ Touched(k) \/ Deleted(k)
      BY <1>7
    <2>2. CASE Created(k)
      BY <1>1, <2>2, BirthKeepsOrder
    <2>3. CASE Touched(k) \/ Deleted(k)
      <3>1. /\ births' = births /\ live[k] # Nil
            /\ ResourceEvent(k, live[k]) \/ ResourceEvent(k, Nil)
        BY <2>3 DEF Touched, Deleted
      <3>2. live[k] \in StatesOf(k) /\ Nil \in StatesOf(k)
        BY DEF TypeInv, LiveTypeOK, StatesOf, ResourceOrNil
      <3>3. OwnerFirst(live[k], rank, births') /\ OwnerFirst(Nil, rank, births')
        BY <1>1, <3>1 DEF InOrderOfBirth, LiveInOrder, OwnerFirst
      <3>4. QED
        BY <1>1, <3>1, <3>2, <3>3, EventKeepsOrder
    <2>4. QED
      BY <2>1, <2>2, <2>3
  <1>8. QED
    BY <1>3, <1>4, <1>5, <1>6, <1>7 DEF Next

(* If no owner reference is made up (getOwnerReferences), the search for   *)
(* the root owner of a child (getRootParentResource) ends, whatever was    *)
(* deleted and created anew under the same key and however old the states  *)
(* are that the target holds: owner and owned may change places, but an    *)
(* owner is born before what names it.  So the made-up references, which   *)
(* carry the UID of the resource itself, are the only cause of the         *)
(* exhausted stack.                                                        *)
THEOREM NamedOwnersAreFound == FilledIn = {} /\ Spec => []OwnerSearchReturns
  <1> SUFFICES ASSUME FilledIn = {} PROVE Spec => []OwnerSearchReturns
    OBVIOUS
  <1> DEFINE Inv == ClusterInv /\ TypeInv /\ OwnersInv
  <1>1. newClusterState => Inv
    <2> SUFFICES ASSUME newClusterState PROVE OwnersInv
      BY ClusterInit, TypeInit
    <2>1. InOrderOfBirth([x \in Uids |-> 0])
      BY DEF newClusterState, newChangeQueue, InOrderOfBirth, LiveInOrder, OwnerFirst
    <2>2. ~dead /\ [x \in Uids |-> 0] \in [Uids -> Nat]
      BY DEF newClusterState
    <2>3. QED
      BY <2>1, <2>2 DEF OwnersInv
  <1>2. Inv /\ [Next]_vars => Inv'
    BY ClusterStep, TypeStep, OwnersStep
  <1>3. Inv => OwnerSearchReturns
    BY DEF OwnersInv, OwnerSearchReturns
  <1>4. QED
    BY <1>1, <1>2, <1>3, PTL DEF Spec
==============================================================================
