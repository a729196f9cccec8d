---------------------- MODULE ResourceInterestsProofs ----------------------
(***************************************************************************)
(* The interest index keeps its two maps each other's inverse and leaks no *)
(* entry, and it implements InterestRelation, for all sets of targets and  *)
(* keys and every shape of ownership.                                      *)
(***************************************************************************)
EXTENDS ResourceInterests, TLAPS

(* The inductive invariant. *)
IndexInv == TypeOK /\ MapsAgree /\ NothingUnwantedTracked

(* The index starts empty (resource_interests.go:26-38). *)
LEMMA IndexInvInit == newResourceInterests => IndexInv
  BY DEF newResourceInterests, IndexInv, TypeOK, MapsAgree,
         NothingUnwantedTracked, TargetsOf

(* Who wants a resource is always a set of targets. *)
LEMMA TargetsOfType ==
  ASSUME TypeOK, NEW k
  PROVE  TargetsOf(k) \subseteq Targets
  BY DEF TypeOK, TargetsOf

LEMMA OwnerTargetsType ==
  ASSUME TypeOK, NEW res
  PROVE  OwnerTargets(res) \subseteq Targets
  BY TargetsOfType DEF OwnerTargets

(* A published set replaces what the target wanted, in both maps           *)
(* (resource_interests.go:84-94).                                          *)
LEMMA SetKeepsInv ==
  ASSUME IndexInv, NEW t \in Targets, NEW keys \in SUBSET Keys, set(t, keys)
  PROVE  IndexInv'
  <1> USE DEF IndexInv
  <1> DEFINE dropped == keysByTarget[t] \ keys
             kept == {k \in DOMAIN targetsByResource :
                        k \in dropped => targetsByResource[k] \ {t} # {}}
             removed == removeTargetFromKeys(t, dropped, targetsByResource)
  <1>1. /\ keysByTarget' = [keysByTarget EXCEPT ![t] = keys]
        /\ targetsByResource' = addTargetToKeys(t, keys, removed)
        /\ UNCHANGED <<subscribers, stopped, manifestKept, sentTo, stored, populated>>
    BY DEF set, cacheVars
  <1>2. /\ DOMAIN removed = kept
        /\ \A k \in kept : removed[k] = IF k \in dropped THEN targetsByResource[k] \ {t}
                                        ELSE targetsByResource[k]
    BY DEF removeTargetFromKeys
  <1> HIDE DEF removed
  <1>3. /\ DOMAIN targetsByResource' = kept \cup keys
        /\ \A k \in kept \cup keys :
             targetsByResource'[k] = (IF k \in kept THEN removed[k] ELSE {})
                                       \cup (IF k \in keys THEN {t} ELSE {})
    BY <1>1, <1>2 DEF addTargetToKeys
  <1>4. TypeOK'
    <2>1. targetsByResource' = [k \in kept \cup keys |-> targetsByResource'[k]]
      BY <1>1, <1>2, <1>3 DEF addTargetToKeys
    <2>2. \A k \in kept \cup keys : targetsByResource'[k] \subseteq Targets
      BY <1>2, <1>3 DEF TypeOK
    <2>3. \A u \in Targets : keysByTarget'[u] # {} => u \in subscribers
      BY <1>1 DEF TypeOK, set
    <2>4. QED
      BY <1>1, <1>3, <2>1, <2>2, <2>3 DEF TypeOK
  <1>5. NothingUnwantedTracked'
    BY <1>2, <1>3 DEF NothingUnwantedTracked
  <1>6. ASSUME NEW u \in Targets, NEW k \in Keys
        PROVE  k \in keysByTarget'[u] <=> u \in TargetsOf(k)'
    <2>1. keysByTarget'[u] = IF u = t THEN keys ELSE keysByTarget[u]
      BY <1>1 DEF TypeOK
    <2>2. TargetsOf(k)' = IF k \in kept \cup keys THEN targetsByResource'[k] ELSE {}
      BY <1>3 DEF TargetsOf
    <2>3. k \in keysByTarget[u] <=> u \in TargetsOf(k)
      BY DEF MapsAgree
    <2>4. k \in keysByTarget[t] <=> t \in TargetsOf(k)
      BY DEF MapsAgree
    <2>5. CASE k \in keys
      <3>1. k \notin dropped /\ (k \in kept <=> k \in DOMAIN targetsByResource)
        BY <2>5
      <3>2. TargetsOf(k)' = TargetsOf(k) \cup {t}
        BY <1>2, <1>3, <2>2, <2>5, <3>1 DEF TargetsOf
      <3>3. QED
        BY <2>1, <2>3, <2>5, <3>2
    <2>6. CASE k \notin keys
      BY <1>2, <1>3, <2>1, <2>2, <2>3, <2>4, <2>6 DEF TargetsOf
    <2>7. QED
      BY <2>5, <2>6
  <1>7. QED
    BY <1>4, <1>5, <1>6 DEF MapsAgree

(* A populated resource is remembered in both maps, or in neither          *)
(* (resource_interests.go:58-71, 96-117, 138-151).                         *)
LEMMA PopulateKeepsInv ==
  ASSUME IndexInv, NEW j \in Keys, NEW res \in InfosOf(j), populateResourceInfo(res)
  PROVE  IndexInv'
  <1> USE DEF IndexInv
  <1>1. /\ res \in ResourceInfo /\ res.key \in Keys /\ res \in InfosOf(res.key)
        /\ populated' = res /\ manifestKept' \in BOOLEAN
        /\ UNCHANGED <<subscribers, stopped, sentTo, stored>>
    BY DEF populateResourceInfo, InfosOf, ResourceInfo
  <1>2. CASE UNCHANGED indexVars
    BY <1>1, <1>2 DEF indexVars, TypeOK, MapsAgree, NothingUnwantedTracked, TargetsOf
  <1>3. CASE inheritInterestFromOwners(res)
    <2> DEFINE heirs == OwnerTargets(res)
    <2>0. heirs \subseteq Targets
      BY OwnerTargetsType
    <2> HIDE DEF heirs
    <2>1. /\ keysByTarget' = [t \in Targets |->
                keysByTarget[t] \cup (IF t \in heirs THEN {res.key} ELSE {})]
          /\ heirs = {} => targetsByResource' = targetsByResource
          /\ heirs # {} => targetsByResource' =
                [k \in DOMAIN targetsByResource \cup {res.key} |->
                   TargetsOf(k) \cup (IF k = res.key THEN heirs ELSE {})]
      BY <1>3 DEF inheritInterestFromOwners, heirs
    <2>2. \A k \in Keys : TargetsOf(k)' = TargetsOf(k) \cup (IF k = res.key THEN heirs ELSE {})
      BY <2>1 DEF TargetsOf
    <2>3. TypeOK'
      <3>1. keysByTarget' \in [Targets -> SUBSET Keys]
        BY <1>1, <2>1 DEF TypeOK
      <3>2. /\ DOMAIN targetsByResource' \subseteq Keys
            /\ targetsByResource' \in [DOMAIN targetsByResource' -> SUBSET Targets]
        BY <1>1, <2>0, <2>1 DEF TypeOK, TargetsOf
      <3>3. \A t \in Targets : keysByTarget'[t] # {} => t \in subscribers
        <4>1. \A t \in heirs : keysByTarget[t] # {}
          BY <2>0, <1>1 DEF heirs, OwnerTargets, MapsAgree, InfosOf, ResourceInfo
        <4>2. QED
          BY <2>0, <2>1, <4>1 DEF TypeOK
      <3>4. QED
        BY <1>1, <3>1, <3>2, <3>3 DEF TypeOK
    <2>4. MapsAgree'
      BY <1>1, <2>1, <2>2 DEF MapsAgree
    <2>5. NothingUnwantedTracked'
      BY <2>1 DEF NothingUnwantedTracked, TargetsOf
    <2>6. QED
      BY <2>3, <2>4, <2>5
  <1>4. QED
    BY <1>2, <1>3 DEF populateResourceInfo

(* No step of the index, the targets or the cache breaks the invariant. *)
LEMMA IndexInvNext == IndexInv /\ [Next]_vars => IndexInv'
  <1> SUFFICES ASSUME IndexInv, [Next]_vars PROVE IndexInv'
    OBVIOUS
  <1>1. ASSUME UNCHANGED indexVars, TypeOK' PROVE IndexInv'
    BY <1>1 DEF IndexInv, indexVars, MapsAgree, NothingUnwantedTracked, TargetsOf
  <1>2. ASSUME NEW old, NEW new, route(old, new) \/ routeStopped(old, new)
        PROVE  /\ UNCHANGED <<keysByTarget, targetsByResource, subscribers, manifestKept>>
               /\ sentTo' \subseteq subscribers /\ stopped' \in BOOLEAN
    <2>1. recipients(old, new) \subseteq subscribers
      BY DEF recipients
    <2>2. QED
      BY <1>2, <2>1 DEF route, routeStopped, indexVars, IndexInv, TypeOK
  <1>3. ASSUME NEW t \in Targets, subscribe(t) PROVE IndexInv'
    BY <1>1, <1>3 DEF subscribe, cacheVars, indexVars, IndexInv, TypeOK
  <1>4. ASSUME NEW t \in Targets, NEW keys \in SUBSET Keys, set(t, keys) PROVE IndexInv'
    BY <1>4, SetKeepsInv
  <1>5. ASSUME NEW k \in Keys, NEW res \in InfosOf(k), populateResourceInfo(res)
        PROVE  IndexInv'
    BY <1>5, PopulateKeepsInv
  <1>6. CASE StoreAndRoute
    <2>1. /\ populated # Nil /\ populated' = Nil
          /\ stored' = [stored EXCEPT ![populated.key] = populated]
          /\ \/ route(stored[populated.key], populated)
             \/ routeStopped(stored[populated.key], populated)
      BY <1>6 DEF StoreAndRoute
    <2>2. /\ UNCHANGED <<keysByTarget, targetsByResource, subscribers, manifestKept>>
          /\ sentTo' \subseteq subscribers /\ stopped' \in BOOLEAN
      BY <1>2, <2>1
    <2>3. TypeOK'
      BY <2>1, <2>2 DEF IndexInv, TypeOK
    <2>4. QED
      BY <1>1, <2>2, <2>3 DEF indexVars
  <1>7. CASE StoreListed
    BY <1>1, <1>7 DEF StoreListed, indexVars, IndexInv, TypeOK
  <1>8. ASSUME NEW k \in Keys, Delete(k) PROVE IndexInv'
    <2>1. /\ populated' = populated
          /\ stored' = [stored EXCEPT ![k] = Nil]
          /\ route(stored[k], Nil) \/ routeStopped(stored[k], Nil)
      BY <1>8 DEF Delete
    <2>2. /\ UNCHANGED <<keysByTarget, targetsByResource, subscribers, manifestKept>>
          /\ sentTo' \subseteq subscribers /\ stopped' \in BOOLEAN
      BY <1>2, <2>1
    <2>3. TypeOK'
      BY <2>1, <2>2 DEF IndexInv, TypeOK
    <2>4. QED
      BY <1>1, <2>2, <2>3 DEF indexVars
  <1>9. CASE UNCHANGED vars
    BY <1>1, <1>9 DEF vars, indexVars, IndexInv, TypeOK
  <1>10. QED
    BY <1>3, <1>4, <1>5, <1>6, <1>7, <1>8, <1>9 DEF Next

LEMMA IndexInvAlways == Spec => []IndexInv
  <1>1. QED
    BY IndexInvInit, IndexInvNext, PTL DEF Spec

(* The index's maps hold keys and targets (resource_interests.go:19-24). *)
THEOREM IndexTypeCorrect == Spec => []TypeOK
  <1>1. IndexInv => TypeOK
    BY DEF IndexInv
  <1>2. QED
    BY <1>1, IndexInvAlways, PTL

(* The two maps are each other's inverse in every reachable state          *)
(* (resource_interests.go:84-125).                                         *)
THEOREM MapsAlwaysAgree == Spec => []MapsAgree
  <1>1. IndexInv => MapsAgree
    BY DEF IndexInv
  <1>2. QED
    BY <1>1, IndexInvAlways, PTL

(* No entry outlives its last target (resource_interests.go:12-13).        *)
THEOREM NoEntryLeaks == Spec => []NothingUnwantedTracked
  <1>1. IndexInv => NothingUnwantedTracked
    BY DEF IndexInv
  <1>2. QED
    BY <1>1, IndexInvAlways, PTL

-----------------------------------------------------------------------------
(* The relation the two maps stand for. *)
Abs == {p \in Targets \X Keys : p[2] \in keysByTarget[p[1]]}

(* With the maps in agreement, either one tells who wants a resource. *)
LEMMA WantedByIsTargetsOf ==
  ASSUME TypeOK, MapsAgree
  PROVE  /\ \A k \in Keys : Relation!WantedBy(k) = TargetsOf(k)
         /\ \A r \in ResourceInfo : Relation!InheritedBy(r) = OwnerTargets(r)
  <1>1. ASSUME NEW k \in Keys PROVE Relation!WantedBy(k) = TargetsOf(k)
    <2>1. \A t \in Targets : t \in TargetsOf(k) <=> k \in keysByTarget[t]
      BY DEF MapsAgree
    <2>2. Relation!WantedBy(k) = {t \in Targets : k \in keysByTarget[t]}
      BY DEF Relation!WantedBy
    <2>3. QED
      BY <2>1, <2>2, TargetsOfType
  <1>2. ASSUME NEW r \in ResourceInfo PROVE Relation!InheritedBy(r) = OwnerTargets(r)
    <2>1. r.owners \subseteq Keys
      BY DEF ResourceInfo
    <2>2. \A o \in r.owners : Relation!WantedBy(o) = TargetsOf(o)
      BY <1>1, <2>1
    <2>3. QED
      BY <2>2 DEF Relation!InheritedBy, OwnerTargets
  <1>3. QED
    BY <1>1, <1>2

(* So both sides choose the same recipients for a change. *)
LEMMA SameRecipients ==
  ASSUME TypeOK, MapsAgree,
         NEW old \in ResourceInfo \cup {Nil}, NEW new \in ResourceInfo \cup {Nil}
  PROVE  Relation!Recipients(old, new) = recipients(old, new)
  <1>1. \A r \in {old, new} \ {Nil} :
          Relation!WantedBy(r.key) \cup Relation!InheritedBy(r)
            = TargetsOf(r.key) \cup OwnerTargets(r)
    BY WantedByIsTargetsOf DEF ResourceInfo
  <1>2. QED
    BY <1>1 DEF Relation!Recipients, recipients

(* The index refines the relation: what it answers the cache, and who it   *)
(* sends a change to, is what one relation would say                       *)
(* (resource_interests.go:58-71, 84-94, 153-185).                          *)
THEOREM IndexIsARelation == Spec => IsARelation
  <1>1. newResourceInterests => Relation!RelInit
    BY DEF newResourceInterests, Relation!RelInit
  <1>2. ASSUME IndexInv, [Next]_vars PROVE [Relation!RelNext]_(Relation!relVars)
    <2> USE <1>2 DEF IndexInv
    <2>0. \A k : Relation!StatesOf(k) = InfosOf(k)
      BY DEF Relation!StatesOf, Relation!Resource, InfosOf, ResourceInfo
    <2>1. ASSUME NEW t \in Targets, subscribe(t) PROVE Relation!RelSubscribe(t)
      BY <2>1 DEF subscribe, Relation!RelSubscribe, indexVars, cacheVars
    <2>2. ASSUME NEW t \in Targets, NEW keys \in SUBSET Keys, set(t, keys)
          PROVE  Relation!RelSet(t, keys)
      <3>1. keysByTarget' = [keysByTarget EXCEPT ![t] = keys]
        BY <2>2 DEF set
      <3>2. \A u \in Targets : keysByTarget'[u] = IF u = t THEN keys ELSE keysByTarget[u]
        BY <3>1 DEF TypeOK
      <3>3. Abs' = {p \in Abs : p[1] # t} \cup ({t} \X keys)
        BY <3>2 DEF Abs
      <3>4. QED
        BY <2>2, <3>3 DEF set, Relation!RelSet, Abs, cacheVars
    <2>3. ASSUME NEW k \in Keys, NEW res \in InfosOf(k), populateResourceInfo(res)
          PROVE  Relation!RelPopulate(res)
      <3>1. res \in ResourceInfo /\ res.key \in Keys
        BY DEF InfosOf, ResourceInfo
      <3>2. /\ Relation!WantedBy(res.key) = TargetsOf(res.key)
            /\ Relation!InheritedBy(res) = OwnerTargets(res)
        BY <3>1, WantedByIsTargetsOf
      <3>3. CASE TargetsOf(res.key) # {}
        BY <2>3, <3>2, <3>3
           DEF populateResourceInfo, isResourceInIndex, Relation!RelPopulate, indexVars
      <3>4. CASE TargetsOf(res.key) = {}
        <4>1. /\ keysByTarget' = [t \in Targets |-> keysByTarget[t] \cup
                   (IF t \in OwnerTargets(res) THEN {res.key} ELSE {})]
              /\ manifestKept' = (OwnerTargets(res) # {})
              /\ ~stopped /\ UNCHANGED <<subscribers, sentTo, stopped, stored>>
          BY <2>3, <3>4 DEF populateResourceInfo, isResourceInIndex,
                            inheritInterestFromOwners
        <4>2. Abs' = Abs \cup (OwnerTargets(res) \X {res.key})
          BY <3>1, <4>1, OwnerTargetsType DEF Abs
        <4>3. QED
          BY <3>2, <3>4, <4>1, <4>2 DEF Relation!RelPopulate, Abs
      <3>5. QED
        BY <3>3, <3>4
    <2>4. ASSUME NEW k \in Keys, NEW new \in InfosOf(k) \cup {Nil},
                 route(stored[k], new) \/ routeStopped(stored[k], new),
                 stored' = [stored EXCEPT ![k] = new]
          PROVE  Relation!RelRoute(k, new) \/ Relation!RelStop(k, new)
      <3>1. Relation!Recipients(stored[k], new) = recipients(stored[k], new)
        BY SameRecipients DEF InfosOf, TypeOK
      <3>2. QED
        BY <2>4, <3>1 DEF route, routeStopped, indexVars, Relation!RelRoute,
                          Relation!RelStop
    <2>5. CASE StoreAndRoute
      <3>1. populated.key \in Keys /\ populated \in InfosOf(populated.key)
        BY <2>5 DEF StoreAndRoute, TypeOK, ResourceInfo
      <3>2. QED
        BY <2>0, <2>4, <2>5, <3>1 DEF StoreAndRoute, Relation!RelNext
    <2>6. CASE StoreListed
      <3>1. populated.key \in Keys /\ populated \in InfosOf(populated.key)
        BY <2>6 DEF StoreListed, TypeOK, ResourceInfo
      <3>2. Relation!RelList(populated.key, populated)
        BY <2>6 DEF StoreListed, indexVars, Relation!RelList
      <3>3. QED
        BY <2>0, <3>1, <3>2 DEF Relation!RelNext
    <2>7. ASSUME NEW k \in Keys, Delete(k) PROVE Relation!RelNext
      BY <2>0, <2>4, <2>7 DEF Delete, Relation!RelNext
    <2>8. CASE UNCHANGED vars
      BY <2>8 DEF vars, Relation!relVars
    <2>9. QED
      BY <2>0, <2>1, <2>2, <2>3, <2>5, <2>6, <2>7, <2>8 DEF Next, Relation!RelNext
  <1>3. QED
    BY <1>1, <1>2, IndexInvAlways, PTL DEF Spec, IsARelation, Relation!RelSpec
=============================================================================
