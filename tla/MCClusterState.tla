---------------------------- MODULE MCClusterState ----------------------------
(***************************************************************************)
(* The instances of ClusterState that TLC checks.                          *)
(***************************************************************************)
EXTENDS ClusterState

Desired(id, kind, assumed, actual) ==
  [id |-> id, kind |-> kind, assumed |-> assumed, actual |-> actual,
   version |-> "release1", manifest |-> TRUE, resolved |-> FALSE]

Symmetric == Permutations(AppIds)

MCUids == Keys \X (1..2)
MCVersions == [uid : MCUids, owner : MCUids \cup {NoUid}]

(* A desired deployment with a replica set below it, which may be desired  *)
(* as well; discovery is well.                                             *)
OwnedKeys == {"deployment", "replicaSet"}
OwnedOwner == [deployment |-> Nil, replicaSet |-> "deployment"]
OwnedDesired ==
  [deployment |-> Desired("i1", "Deployment", "deployment", "deployment"),
   replicaSet |-> Desired("i2", "ReplicaSet", "replicaSet", "replicaSet")]
RootDesired == [deployment |-> OwnedDesired["deployment"]]
OwnedBirths == [deployment |-> 2, replicaSet |-> 2]
Healthy ==
  {[mapped |-> {"Deployment", "ReplicaSet"}, healthy |-> TRUE,
    known |-> {"Deployment", "ReplicaSet"}, accessible |-> {"Deployment", "ReplicaSet"}]}

ASSUME OwnedIsSteady == \A d \in {OwnedDesired, RootDesired} : IsSteady(d, Healthy)

(* A pod below the replica set, on which another target has its eye. *)
PodKeys == OwnedKeys \cup {"pod"}
PodOwner == [deployment |-> Nil, replicaSet |-> "deployment", pod |-> "replicaSet"]
PodBirths == [deployment |-> 1, replicaSet |-> 1, pod |-> 1]

(* A desired service; its endpoints name no owner. *)
ServiceKeys == {"service", "endpoints"}
ServiceOwner == [service |-> Nil, endpoints |-> "service"]
ServiceDesired == [service |-> Desired("i1", "Service", "service", "service")]
ServiceBirths == [service |-> 2, endpoints |-> 2]
ServiceHealthy ==
  {[mapped |-> {"Service"}, healthy |-> TRUE, known |-> {"Service"}, accessible |-> {"Service"}]}

(* A deployment, and a custom resource whose kind is cluster-scoped: it is *)
(* filed under a namespace until discovery knows better.  Its definition   *)
(* may not be installed, discovery or the cache may not know of it, and    *)
(* the service account may not be allowed to watch it.                     *)
CustomKeys == {"deployment", "namespace/custom", "custom"}
CustomOwner == [k \in CustomKeys |-> Nil]
CustomDesired ==
  ("deployment" :> [Desired("i1", "Deployment", "deployment", "deployment")
                      EXCEPT !.version = NoVersion]) @@
  ("namespace/custom" :> Desired("i2", "Custom", "namespace/custom", "custom"))
CustomBirths == [k \in CustomKeys |-> IF k = "namespace/custom" THEN 0 ELSE 1]
BuiltIn == {"Deployment"}
All == {"Deployment", "Custom"}
Answer(mapped, healthy, known, accessible) ==
  [mapped |-> mapped, healthy |-> healthy, known |-> known, accessible |-> accessible]
Outages ==
  {Answer(All, TRUE, All, All), Answer(BuiltIn, TRUE, BuiltIn, BuiltIn),
   Answer(BuiltIn, FALSE, All, All), Answer(BuiltIn, FALSE, BuiltIn, BuiltIn),
   Answer(All, TRUE, All, BuiltIn)}
==============================================================================
