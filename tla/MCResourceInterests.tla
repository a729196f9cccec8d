------------------------- MODULE MCResourceInterests -------------------------
(* A chain of resources, as a Deployment, its ReplicaSet and its Pod. *)
EXTENDS ResourceInterests

CONSTANTS deployment, replicaSet, pod

MCKeys == {deployment, replicaSet, pod}

(* The pod may be adopted or released. *)
MCOwnersOf ==
  [k \in MCKeys |-> CASE k = deployment -> {{}}
                      [] k = replicaSet -> {{deployment}}
                      [] k = pod        -> {{replicaSet}, {}}]
==============================================================================
