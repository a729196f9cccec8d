--------------------------- MODULE PermissionFilter ---------------------------
(***************************************************************************)
(* The set of types that a PermissionResourceFilter                        *)
(* (internal/cluster/permission_filter.go) lets through.  A type is its    *)
(* group and its resource name: versions are dropped.  A rule is one of    *)
(* the answer to a SelfSubjectRulesReview.                                 *)
(***************************************************************************)
EXTENDS Naturals

requiredVerbs == {"get", "list", "watch"}

Lists(values, x) == x \in values \/ "*" \in values

(* A rule about named objects does not grant a list or a watch of all. *)
rulesPermitVerb(rules, type, verb) ==
  \E rule \in rules : /\ rule.names = {}
                      /\ Lists(rule.verbs, verb)
                      /\ Lists(rule.groups, type.group)
                      /\ Lists(rule.resources, type.resource)

rulesPermitAllVerbs(rules, type) == \A verb \in requiredVerbs : rulesPermitVerb(rules, type, verb)

buildAllowedResourcesMap(discovered, rules) ==
  {type \in discovered : rulesPermitAllVerbs(rules, type)}
=============================================================================
