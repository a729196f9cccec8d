---------------------------- MODULE MCSharedCluster ----------------------------
(* SharedCluster for TLC: a built-in type and one that a CRD defines; a      *)
(* resource of each, one of the built-in type outside the scope, one without *)
(* a manifest and one of a version that is not preferred.                    *)
EXTENDS SharedCluster

MCPods == [group |-> "", resource |-> "pods"]
MCCustom == [group |-> "g", resource |-> "customs"]
MCTypes == {MCPods, MCCustom}
MCBuiltIn == {MCPods}

MCResource(name, type, namespace) ==
  [name |-> name, type |-> type, namespace |-> namespace, preferred |-> TRUE, manifest |-> TRUE]

MCDesired == {MCResource("pod", MCPods, "in"), MCResource("custom", MCCustom, ""),
              MCResource("other", MCPods, "out"),
              [MCResource("bare", MCPods, "in") EXCEPT !.manifest = FALSE],
              [MCResource("old", MCCustom, "") EXCEPT !.preferred = FALSE]}

MCRule(verbs, groups, resources, names) ==
  [verbs |-> verbs, groups |-> groups, resources |-> resources, names |-> names]

(* All; pods only, by two rules; pods by their names only *)
MCReviews ==
  {[rules |-> {MCRule({"*"}, {"*"}, {"*"}, {})}, readable |-> MCTypes, listable |-> MCTypes],
   [rules |-> {MCRule({"get"}, {""}, {"pods", "secrets"}, {}), MCRule({"list", "watch"}, {"*"}, {"*"}, {})},
    readable |-> {MCPods}, listable |-> MCTypes],
   [rules |-> {MCRule({"get", "list", "watch"}, {""}, {"pods"}, {"a"}), MCRule({"*"}, {"g"}, {"*"}, {})},
    readable |-> {MCCustom}, listable |-> {MCCustom}]}

(* Logs of up to three lines; one kind of message looks like a line itself *)
MCLines == {<<"T", "_">>, <<"T", "_", "x">>, <<"T", "_", "T", "_">>, <<"x">>}
MCLogs == [lines : UNION {[1 .. n -> MCLines] : n \in 0 .. 3}, ended : BOOLEAN]

MCItem(first, last, time, count) ==
  [first |-> first, last |-> last, time |-> time, count |-> count, marshals |-> TRUE]
MCItems == {MCItem(1, 2, 0, 2), MCItem(0, 0, 1, 0), [MCItem(1, 1, 0, 1) EXCEPT !.marshals = FALSE]}
MCEventLists == UNION {[1 .. n -> MCItems] : n \in 0 .. 2}
=============================================================================
