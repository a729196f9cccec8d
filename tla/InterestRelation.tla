-------------------------- MODULE InterestRelation --------------------------
(***************************************************************************)
(* What the interest index of internal/cluster/resource_interests.go       *)
(* stands for: one relation between targets and the resources they want,   *)
(* with no second copy that could disagree.  A target's published set      *)
(* replaces all it wanted before, what it inherited included.              *)
(***************************************************************************)
EXTENDS Naturals

CONSTANTS Targets,  \* ClusterId
          Keys,     \* kube.ResourceKey
          OwnersOf, \* the owner keys the states of a resource can name
          Nil       \* the nil *cache.Resource

(* ResourceInfo: a resource's key and the keys of its owner references.    *)
(* An owner reference whose API version does not parse is left out.        *)
Resource == [key : Keys, owners : SUBSET Keys]

StatesOf(k) == {r \in Resource : r.key = k /\ r.owners \in OwnersOf[k]}

VARIABLES interest,     \* <<t, k>>: target t wants resource k
          subscribers,  \* the targets with a change queue
          manifestKept, \* the index's last answer to the cluster cache
          sentTo,       \* the targets the last routed change was sent to
          stopped,      \* the index's context is done
          stored        \* the cluster cache's content

relVars == <<interest, subscribers, manifestKept, sentTo, stopped, stored>>

WantedBy(k) == {t \in Targets : <<t, k>> \in interest}

InheritedBy(res) == UNION {WantedBy(o) : o \in res.owners}

RelInit ==
  /\ interest = {}
  /\ subscribers = {}
  /\ manifestKept = FALSE
  /\ sentTo = {}
  /\ stopped = FALSE
  /\ stored = [k \in Keys |-> Nil]

RelSubscribe(t) ==
  /\ ~stopped
  /\ subscribers' = subscribers \cup {t}
  /\ UNCHANGED <<interest, manifestKept, sentTo, stopped, stored>>

RelSet(t, keys) ==
  /\ ~stopped
  /\ interest' = {p \in interest : p[1] # t} \cup ({t} \X keys)
  /\ UNCHANGED <<subscribers, manifestKept, sentTo, stopped, stored>>

(* A resource nobody wants yet is inherited from its owners. *)
RelPopulate(res) ==
  /\ ~stopped
  /\ interest' = IF WantedBy(res.key) # {} THEN interest
                 ELSE interest \cup (InheritedBy(res) \X {res.key})
  /\ manifestKept' = (WantedBy(res.key) # {} \/ InheritedBy(res) # {})
  /\ UNCHANGED <<subscribers, sentTo, stopped, stored>>

Recipients(old, new) ==
  subscribers \cap UNION {WantedBy(r.key) \cup InheritedBy(r) : r \in {old, new} \ {Nil}}

(* A change of the cache is sent to those who want what was there or what  *)
(* is there now.                                                           *)
RelRoute(k, new) ==
  /\ ~stopped
  /\ stored' = [stored EXCEPT ![k] = new]
  /\ sentTo' = Recipients(stored[k], new)
  /\ UNCHANGED <<interest, subscribers, manifestKept, stopped>>

(* The context can end while a change is being sent to its recipients. *)
RelStop(k, new) ==
  /\ ~stopped
  /\ stopped' = TRUE
  /\ stored' = [stored EXCEPT ![k] = new]
  /\ sentTo' \in SUBSET Recipients(stored[k], new)
  /\ UNCHANGED <<interest, subscribers, manifestKept>>

(* What the cache lists is not sent to anybody. *)
RelList(k, new) ==
  /\ new # Nil
  /\ stored' = [stored EXCEPT ![k] = new]
  /\ UNCHANGED <<interest, subscribers, manifestKept, sentTo, stopped>>

RelNext ==
  \/ \E t \in Targets : RelSubscribe(t)
  \/ \E t \in Targets : \E keys \in SUBSET Keys : RelSet(t, keys)
  \/ \E k \in Keys : \E res \in StatesOf(k) : RelPopulate(res)
  \/ \E k \in Keys : \E new \in StatesOf(k) \cup {Nil} :
        RelRoute(k, new) \/ RelStop(k, new) \/ RelList(k, new)

RelSpec == RelInit /\ [][RelNext]_relVars
=============================================================================
