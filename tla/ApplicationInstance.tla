------------------------- MODULE ApplicationInstance -------------------------
(***************************************************************************)
(* ApplicationInstance of internal/cluster/application_instance.go: the    *)
(* desired resources of one application and what is known of each in the   *)
(* cluster.  Only its target's goroutine touches it, so its methods are    *)
(* operators from an instance to an instance; ClusterState applies them.   *)
(*                                                                         *)
(* A monitored resource is reduced to what decides between the cases: its  *)
(* key, its UID and its owner's UID.  Manifests, health and sync status    *)
(* are left out.                                                           *)
(***************************************************************************)
EXTENDS Resources, Naturals, FiniteSets, Functions

CONSTANTS Ids,       \* DesiredResourceId
          Uids,      \* types.UID
          NoUid,     \* the empty UID
          Owner,     \* the key a resource's first owner reference names
          FilledIn,  \* keys whose owner reference getOwnerReferences makes up
          NoVersion  \* a desired resource that carries no deployment version

ASSUME VersionsAssumption == Versions = [uid : Uids, owner : Uids \cup {NoUid}]
ASSUME OwnerAssumption == Owner \in [Keys -> Keys \cup {Nil}]
ASSUME NoUidAssumption == NoUid \notin Uids
ASSUME FilledInAssumption == \A k \in FilledIn : k \in Keys /\ Owner[k] # Nil

uidOf(res) == res.version.uid

(* getOwnerReferences, as keys: a resource without an owner reference has  *)
(* one made up for it if its kind is one of the special cases.             *)
ownerRefKeys(res) ==
  IF res.key \in FilledIn \/ res.version.owner # NoUid THEN {Owner[res.key]} ELSE {}

(* The UID in ResourceInfo.OwnerRefs: the made-up references carry the UID *)
(* of the resource itself.                                                 *)
infoOwnerUid(res) ==
  IF res.key \in FilledIn /\ res.version.owner = NoUid THEN uidOf(res) ELSE res.version.owner

NewApplicationInstance ==
  [desired |-> <<>>, present |-> <<>>, child |-> <<>>,
   missing |-> {}, unknown |-> {}, tracked |-> {}]

-----------------------------------------------------------------------------
(* DesiredResource: its kind decides whether discovery can resolve it,     *)
(* actual is its key once resolved (not the assumed one if the kind is     *)
(* cluster-scoped), manifest says whether it carries one.                  *)
IsDesiredResource(d) ==
  /\ DOMAIN d = {"id", "kind", "assumed", "actual", "version", "manifest", "resolved"}
  /\ d.id \in Ids
  /\ {d.assumed, d.actual} \subseteq Keys
  /\ {d.manifest, d.resolved} \subseteq BOOLEAN

ResourceKey(d) == IF d.resolved THEN d.actual ELSE d.assumed

ResolveNamespace(d, namespacedMap) ==
  [d EXCEPT !.resolved = @ \/ d.kind \in namespacedMap]

(* The desired resources under the keys the resolution gives them.  Two    *)
(* can end under one key: map iteration decides which of them stays.       *)
Rekeyed(desired, newKey(_), newValue(_)) ==
  LET keys == {newKey(k) : k \in DOMAIN desired}
      candidates(k) == {newValue(x) : x \in {y \in DOMAIN desired : newKey(y) = k}}
  IN  {f \in [keys -> UNION {candidates(k) : k \in keys}] :
         \A k \in keys : f[k] \in candidates(k)}

(* Mutant: the map is edited in place, under the keys it had. *)
resolveNamespacesInPlace(a, namespacedMap) ==
  {[a EXCEPT !.desired = [k \in DOMAIN @ |-> ResolveNamespace(@[k], namespacedMap)]]}

(* ApplicationInstance.resolveNamespaces: an unresolved one keeps its key. *)
resolveNamespaces(a, namespacedMap) ==
  LET value(k) == ResolveNamespace(a.desired[k], namespacedMap)
      rekey(k) == IF value(k).resolved THEN ResourceKey(value(k)) ELSE k
  IN  {[a EXCEPT !.desired = f] : f \in Rekeyed(a.desired, rekey, value)}

desiredIds(desired) == {desired[k].id : k \in DOMAIN desired}

(* Mutant: nothing is assumed of the incoming resources. *)
MergeAssumingNothing(a, incoming) ==
  [a EXCEPT !.desired = [k \in DOMAIN incoming \cup DOMAIN @ |->
                           IF k \in DOMAIN incoming THEN incoming[k] ELSE a.desired[k]]]

(* Incoming resources are unknown until a rescan decides. *)
MergeDesiredResources(a, incoming) ==
  [a EXCEPT !.unknown = @ \cup desiredIds(incoming),
            !.desired = [k \in DOMAIN incoming \cup DOMAIN @ |->
                           IF k \in DOMAIN incoming THEN incoming[k] ELSE a.desired[k]]]

ReplaceDesiredResources(a, incoming) ==
  [NewApplicationInstance EXCEPT !.desired = incoming, !.unknown = desiredIds(incoming)]

DeleteDesiredResources(a, ids) ==
  [a EXCEPT !.desired = Restrict(@, {k \in DOMAIN @ : @[k].id \notin ids})]

DeleteDesiredResourcesExceptForVersion(a, version) ==
  [a EXCEPT !.desired =
     Restrict(@, {k \in DOMAIN @ : @[k].version \in {NoVersion, version}})]

(* Mutant: what the scan did not find again is kept. *)
replaceWhatWasFound(a, present, child, missing, unknown) ==
  [a EXCEPT !.present = [i \in DOMAIN present \cup DOMAIN @ |->
                           IF i \in DOMAIN present THEN present[i] ELSE a.present[i]],
            !.child = child, !.missing = missing \ DOMAIN a.present, !.unknown = unknown]

(* replaceMonitoredResources: tracked is computed afresh. *)
replaceMonitoredResources(a, present, child, missing, unknown) ==
  [a EXCEPT !.present = present, !.child = child,
            !.missing = missing, !.unknown = unknown,
            !.tracked = {present[i].key : i \in DOMAIN present} \cup DOMAIN child]

(* Mutant: the children are left to the index to inherit. *)
resourceKeysDesired(a) == DOMAIN a.desired

(* A desired resource's stored key and its current key, and the tracked.   *)
resourceKeysOfInterest(a) ==
  DOMAIN a.desired \cup {ResourceKey(a.desired[k]) : k \in DOMAIN a.desired} \cup a.tracked

-----------------------------------------------------------------------------
(* getRootParentResource climbs from owner to owner while the owner is     *)
(* itself a child.  More climbs than there are children never end.         *)
climb(ownerId, child) ==
  LET up(u) == {child[c].ownerId : c \in {x \in DOMAIN child : uidOf(child[x].res) = u}}
      at[n \in 0..Cardinality(DOMAIN child) + 1] ==
        IF n = 0 THEN {ownerId}
        ELSE UNION {IF up(u) = {} THEN {u} ELSE up(u) : u \in at[n - 1]}
      top == CHOOSE u \in at[Cardinality(DOMAIN child) + 1] : TRUE
  IN  [top |-> top, ends |-> up(top) = {}]

getRootParentResource(ownerId, child) == climb(ownerId, child).top

GetParentResourceId(a, res) ==
  LET owners == ownerRefKeys(res)
      owned(o) == IF /\ o \in DOMAIN a.desired
                     /\ a.desired[o].id \in DOMAIN a.present
                  THEN {uidOf(a.present[a.desired[o].id])}
                  ELSE IF o \in DOMAIN a.child THEN {uidOf(a.child[o].res)} ELSE {}
      known == UNION {owned(o) : o \in owners}
  IN  IF owners # {} /\ infoOwnerUid(res) # NoUid THEN infoOwnerUid(res)
      ELSE IF known # {} THEN CHOOSE u \in known : TRUE ELSE NoUid

(* calculateResourceChange: the cases in the order the code tries them. *)
calculateResourceChange(a, change) ==
  LET new == change.newRes
      old == change.oldRes
      desiredIn(res, ids) ==
        res # Nil /\ res.key \in DOMAIN a.desired /\ a.desired[res.key].id \in ids
  IN  IF desiredIn(new, a.missing) THEN "DesiredResourceFound"
      ELSE IF desiredIn(new, DOMAIN a.present) THEN "DesiredResourceUpdated"
      ELSE IF new # Nil /\ new.key \in DOMAIN a.child THEN "ChildResourceUpdated"
      ELSE IF desiredIn(old, DOMAIN a.present) THEN "DesiredResourceRemoved"
      ELSE IF old # Nil /\ old.key \in DOMAIN a.child THEN "ChildResourceRemoved"
      ELSE IF new # Nil /\ ownerRefKeys(new) \cap a.tracked # {} THEN "ChildResourceFound"
      ELSE "NoChange"

NoUpdate == [present |-> {}, child |-> {}, missing |-> {}, unknown |-> {}, deleted |-> {}]

upsertPresentMonitoredResource(a, id, res) ==
  [a EXCEPT !.tracked = @ \cup {res.key},
            !.present = [i \in DOMAIN @ \cup {id} |-> IF i = id THEN res ELSE @[i]]]

deletePresentMonitoredResource(a, id) ==
  [a EXCEPT !.tracked = @ \ {a.present[id].key},
            !.present = Restrict(@, DOMAIN @ \ {id})]

(* Mutant: a child is filed under the key of its owner. *)
upsertChildUnderOwner(a, c) ==
  [a EXCEPT !.child = [k \in DOMAIN @ \cup {Owner[c.res.key]} |->
                         IF k = Owner[c.res.key] THEN c ELSE @[k]]]

upsertChildMonitoredResource(a, c) ==
  [a EXCEPT !.tracked = @ \cup {c.res.key},
            !.child = [k \in DOMAIN @ \cup {c.res.key} |-> IF k = c.res.key THEN c ELSE @[k]]]

deleteChildMonitoredResource(a, k) ==
  [a EXCEPT !.tracked = @ \ {k}, !.child = Restrict(@, DOMAIN @ \ {k})]

NewChildMonitoredResource(a, res) ==
  LET ownerId == GetParentResourceId(a, res)
  IN  [res |-> res, ownerId |-> ownerId,
       rootOwnerId |-> getRootParentResource(ownerId, a.child)]

isChildUpsert(case) == case \in {"ChildResourceFound", "ChildResourceUpdated"}

(* Whether the search for the root owner of a changed child ends. *)
OwnerSearchEnds(a, change) ==
  isChildUpsert(calculateResourceChange(a, change)) =>
    climb(GetParentResourceId(a, change.newRes), a.child).ends

(* Mutant: the resource that was found stays missing as well. *)
PresentAsWell(a, new) ==
  upsertPresentMonitoredResource(a, a.desired[new.key].id, new)

(* A missing resource is found, or a present one updated. *)
NowPresent(a, new) ==
  LET id == a.desired[new.key].id
  IN  [upsertPresentMonitoredResource(a, id, new) EXCEPT !.missing = @ \ {id}]

(* A present resource is removed. *)
NowMissing(a, old) ==
  LET id == a.desired[old.key].id
  IN  [deletePresentMonitoredResource(a, id) EXCEPT !.missing = @ \cup {id}]

(* GetChangesForUpdatedResource: the instance after the change, and what   *)
(* is to be sent of it.                                                    *)
GetChangesForUpdatedResource(a, change) ==
  LET case == calculateResourceChange(a, change)
      new == change.newRes
      old == change.oldRes
      after(inst, update) == [inst |-> inst, update |-> update]
  IN  CASE case \in {"DesiredResourceFound", "DesiredResourceUpdated"} ->
             after(NowPresent(a, new), [NoUpdate EXCEPT !.present = {a.desired[new.key].id}])
        [] case = "DesiredResourceRemoved" ->
             after(NowMissing(a, old), [NoUpdate EXCEPT !.missing = {a.desired[old.key].id}])
        [] isChildUpsert(case) ->
             after(upsertChildMonitoredResource(a, NewChildMonitoredResource(a, new)),
                   [NoUpdate EXCEPT !.child = {new.key}])
        [] case = "ChildResourceRemoved" ->
             after(deleteChildMonitoredResource(a, old.key),
                   [NoUpdate EXCEPT !.deleted = {old.key}])
        [] case = "NoChange" -> after(a, NoUpdate)

(* MonitoredResourceChanges: the complete state of the instance. *)
MonitoredResourceChanges(a) ==
  [NoUpdate EXCEPT !.present = DOMAIN a.present, !.child = DOMAIN a.child,
                   !.missing = a.missing, !.unknown = a.unknown]
==============================================================================
