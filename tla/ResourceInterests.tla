-------------------------- MODULE ResourceInterests --------------------------
(***************************************************************************)
(* resourceInterests and interestIndex of                                  *)
(* internal/cluster/resource_interests.go: which targets want which        *)
(* resources, as two maps that have to agree.  Each action is one          *)
(* operation the index's goroutine takes from its mailbox, so the          *)
(* operations interleave but none sees another half done.                  *)
(*                                                                         *)
(* The cluster cache (gitops-engine, external) is modelled from how it     *)
(* calls the index under its lock: it populates a resource it lists or     *)
(* hears about, then stores it and, for an event, routes the change.  The  *)
(* targets' operations can fall between the two calls.                     *)
(***************************************************************************)
EXTENDS Naturals, FiniteSets

CONSTANTS Targets,  \* ClusterId
          Keys,     \* kube.ResourceKey
          OwnersOf, \* the owner keys the states of a resource can name
          Nil       \* the nil *cache.Resource

(* ResourceInfo: a resource's key and the keys of its owner references.    *)
(* An owner reference whose API version does not parse is left out.        *)
ResourceInfo == [key : Keys, owners : SUBSET Keys]

ASSUME OwnersOfAssumption == OwnersOf \in [Keys -> SUBSET SUBSET Keys]
ASSUME NilNotAResource == Nil \notin ResourceInfo

InfosOf(k) == {r \in ResourceInfo : r.key = k /\ r.owners \in OwnersOf[k]}

VARIABLES keysByTarget,       \* target -> the keys it wants
          targetsByResource,  \* key -> the targets that want it
          subscribers,        \* the targets with a change queue
          stopped,            \* the index's context is done
          manifestKept,       \* the last answer of populateResourceInfo
          sentTo,             \* the targets the last change was sent to
          stored,             \* the cluster cache's content
          populated           \* the resource the cache is about to store

indexVars == <<keysByTarget, targetsByResource>>
cacheVars == <<stored, populated>>
vars == <<keysByTarget, targetsByResource, subscribers, stopped, manifestKept,
          sentTo, stored, populated>>

-----------------------------------------------------------------------------
(* Reading a key that a Go map does not hold yields its zero value. *)
TargetsOf(k) ==
  IF k \in DOMAIN targetsByResource THEN targetsByResource[k] ELSE {}

newResourceInterests ==
  /\ keysByTarget = [t \in Targets |-> {}]
  /\ targetsByResource = [k \in {} |-> {}]
  /\ subscribers = {}
  /\ stopped = FALSE
  /\ manifestKept = FALSE
  /\ sentTo = {}
  /\ stored = [k \in Keys |-> Nil]
  /\ populated = Nil

subscribe(t) ==
  /\ ~stopped
  /\ subscribers' = subscribers \cup {t}
  /\ UNCHANGED <<indexVars, stopped, manifestKept, sentTo, cacheVars>>

(* Mutant: a key without targets keeps its empty entry. *)
removeTargetFromKeysLeaking(t, dropped, targets) ==
  [k \in DOMAIN targets |-> IF k \in dropped THEN targets[k] \ {t} ELSE targets[k]]

(* removeTargetFromKey: a key without targets is dropped. *)
removeTargetFromKeys(t, dropped, targets) ==
  [k \in {x \in DOMAIN targets : x \in dropped => targets[x] \ {t} # {}} |->
     IF k \in dropped THEN targets[k] \ {t} ELSE targets[k]]

addTargetToKeys(t, keys, targets) ==
  [k \in DOMAIN targets \cup keys |->
     (IF k \in DOMAIN targets THEN targets[k] ELSE {})
       \cup (IF k \in keys THEN {t} ELSE {})]

(* Mutant: newCluster lets its target publish before it subscribes it. *)
setUnsubscribed(t, keys) ==
  /\ ~stopped
  /\ targetsByResource' =
       addTargetToKeys(t, keys,
         removeTargetFromKeys(t, keysByTarget[t] \ keys, targetsByResource))
  /\ keysByTarget' = [keysByTarget EXCEPT ![t] = keys]
  /\ UNCHANGED <<subscribers, stopped, manifestKept, sentTo, cacheVars>>

(* set: the published keys replace all the target wanted before.  A target *)
(* publishes only after newCluster subscribed it.                          *)
set(t, keys) ==
  /\ ~stopped
  /\ t \in subscribers
  /\ targetsByResource' =
       addTargetToKeys(t, keys,
         removeTargetFromKeys(t, keysByTarget[t] \ keys, targetsByResource))
  /\ keysByTarget' = [keysByTarget EXCEPT ![t] = keys]
  /\ UNCHANGED <<subscribers, stopped, manifestKept, sentTo, cacheVars>>

isResourceInIndex(k) == TargetsOf(k) # {}

OwnerTargets(res) == UNION {TargetsOf(o) : o \in res.owners}

(* Mutant: remember without addKeyToTarget, so set cannot withdraw it. *)
inheritInOneMapOnly(res) ==
  LET heirs == OwnerTargets(res)
  IN  /\ UNCHANGED keysByTarget
      /\ targetsByResource' =
           IF heirs = {} THEN targetsByResource
           ELSE [k \in DOMAIN targetsByResource \cup {res.key} |->
                   TargetsOf(k) \cup (IF k = res.key THEN heirs ELSE {})]

(* remember, for every target that wants an owner *)
inheritInterestFromOwners(res) ==
  LET heirs == OwnerTargets(res)
  IN  /\ keysByTarget' = [t \in Targets |->
           keysByTarget[t] \cup (IF t \in heirs THEN {res.key} ELSE {})]
      /\ targetsByResource' =
           IF heirs = {} THEN targetsByResource
           ELSE [k \in DOMAIN targetsByResource \cup {res.key} |->
                   TargetsOf(k) \cup (IF k = res.key THEN heirs ELSE {})]

(* populateResourceInfo: the cache asks whether to keep a manifest.  A     *)
(* root has no owners to inherit from.                                     *)
populateResourceInfo(res) ==
  /\ ~stopped
  /\ populated = Nil
  /\ populated' = res
  /\ IF isResourceInIndex(res.key)
     THEN manifestKept' = TRUE /\ UNCHANGED indexVars
     ELSE /\ manifestKept' = (OwnerTargets(res) # {})
          /\ inheritInterestFromOwners(res)
  /\ UNCHANGED <<subscribers, stopped, sentTo, stored>>

(* Mutant: a resource that is gone is nobody's. *)
recipientsOfNew(old, new) ==
  subscribers \cap
    UNION {TargetsOf(r.key) \cup OwnerTargets(r) : r \in {new} \ {Nil}}

(* route: those who want the resource or an owner, before or after *)
recipients(old, new) ==
  subscribers \cap
    UNION {TargetsOf(r.key) \cup OwnerTargets(r) : r \in {old, new} \ {Nil}}

route(old, new) ==
  /\ ~stopped
  /\ sentTo' = recipients(old, new)
  /\ UNCHANGED <<indexVars, subscribers, stopped, manifestKept>>

(* route's select: the context can end between two of its sends *)
routeStopped(old, new) ==
  /\ ~stopped
  /\ stopped' = TRUE
  /\ sentTo' \in SUBSET recipients(old, new)
  /\ UNCHANGED <<indexVars, subscribers, manifestKept>>

-----------------------------------------------------------------------------
(* The cluster cache. *)
StoreAndRoute ==
  /\ populated # Nil
  /\ route(stored[populated.key], populated) \/ routeStopped(stored[populated.key], populated)
  /\ stored' = [stored EXCEPT ![populated.key] = populated]
  /\ populated' = Nil

(* The first sync stores what it lists without an event for each. *)
StoreListed ==
  /\ populated # Nil
  /\ stored' = [stored EXCEPT ![populated.key] = populated]
  /\ populated' = Nil
  /\ UNCHANGED <<indexVars, subscribers, stopped, manifestKept, sentTo>>

Delete(k) ==
  /\ populated = Nil /\ stored[k] # Nil
  /\ route(stored[k], Nil) \/ routeStopped(stored[k], Nil)
  /\ stored' = [stored EXCEPT ![k] = Nil]
  /\ UNCHANGED populated

Next ==
  \/ \E t \in Targets : subscribe(t)
  \/ \E t \in Targets : \E keys \in SUBSET Keys : set(t, keys)
  \/ \E k \in Keys : \E res \in InfosOf(k) : populateResourceInfo(res)
  \/ StoreAndRoute
  \/ StoreListed
  \/ \E k \in Keys : Delete(k)

Spec == newResourceInterests /\ [][Next]_vars

-----------------------------------------------------------------------------
(* A target that wants something has a queue to be told through: route     *)
(* passes over one that has none.                                          *)
TypeOK ==
  /\ keysByTarget \in [Targets -> SUBSET Keys]
  /\ DOMAIN targetsByResource \subseteq Keys
  /\ targetsByResource \in [DOMAIN targetsByResource -> SUBSET Targets]
  /\ subscribers \subseteq Targets
  /\ stopped \in BOOLEAN
  /\ manifestKept \in BOOLEAN
  /\ sentTo \subseteq subscribers
  /\ \A t \in Targets : keysByTarget[t] # {} => t \in subscribers
  /\ stored \in [Keys -> ResourceInfo \cup {Nil}]
  /\ \A k \in Keys : stored[k] \in InfosOf(k) \cup {Nil}
  /\ populated \in ResourceInfo \cup {Nil}
  /\ populated # Nil => populated \in InfosOf(populated.key)

(* resource_interests.go:84-125: the two maps are each other's inverse     *)
(* whatever was published, withdrawn and inherited in between, so a target *)
(* is told of exactly what it wants.                                       *)
MapsAgree ==
  \A t \in Targets, k \in Keys : k \in keysByTarget[t] <=> t \in TargetsOf(k)

(* resource_interests.go:12-13, 119-125: a resource no target wants any    *)
(* more is not tracked: no entry of targetsByResource is left empty.       *)
NothingUnwantedTracked ==
  \A k \in DOMAIN targetsByResource : targetsByResource[k] # {}

(* The two maps implement one relation: what is answered to the cache and  *)
(* who is sent a change is what that relation says, step by step.          *)
Relation == INSTANCE InterestRelation
  WITH interest <- {p \in Targets \X Keys : p[2] \in keysByTarget[p[1]]}

IsARelation == Relation!RelSpec
=============================================================================
