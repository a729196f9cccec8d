------------------------------ MODULE Resources ------------------------------
(***************************************************************************)
(* The data that passes between the cluster cache, the interest index, the *)
(* change queues and the targets: resources of the cluster cache and the   *)
(* changes of them.                                                        *)
(***************************************************************************)
CONSTANTS Keys,      \* kube.ResourceKey
          Versions,  \* what tells two states of one resource apart
          Nil        \* the nil *cache.Resource

(* A *cache.Resource of the cluster cache: its key and its content. *)
Resource == [key : Keys, version : Versions]

ASSUME NilAssumption == Nil \notin Resource

ResourceOrNil == Resource \cup {Nil}

(* The states resource k can be in: absent or some version of it. *)
StatesOf(k) == {r \in ResourceOrNil : r # Nil => r.key = k}

(* resourceChange: either side is nil when the resource is added, removed. *)
Change == [oldRes : ResourceOrNil, newRes : ResourceOrNil]

ChangeOf(k) == [oldRes : StatesOf(k), newRes : StatesOf(k)]

(* resourceChange.key: one side of a routed change is never nil. *)
key(change) ==
  IF change.newRes # Nil THEN change.newRes.key ELSE change.oldRes.key
==============================================================================
