------------------------------ MODULE Reporting ------------------------------
(***************************************************************************)
(* What is told to Octopus Server about a resource: the monitored          *)
(* resources an application instance holds (their sanitized manifest,      *)
(* health and sync status, internal/cluster) and the requests they are     *)
(* converted to (internal/protos).                                         *)
(*                                                                         *)
(* A manifest is reduced to its version, how often its secret values were  *)
(* hashed, and whether it has the last-applied annotation.  Version 1 is   *)
(* what was deployed, version 2 differs from it.                           *)
(***************************************************************************)
EXTENDS Naturals, FiniteSets, Functions

CONSTANTS Desirable,   \* resources that may be desired
          Children,    \* resources owned by the first of them
          Parent,      \* that first one
          SecretItems, \* the ones that are a v1 Secret
          None         \* nil, or the empty string

ASSUME ItemsAssumption == /\ Parent \in Desirable /\ Desirable \cap Children = {}
                          /\ SecretItems \subseteq Desirable \cup Children

Items == Desirable \cup Children

Manifest(v) == [v |-> v, hashed |-> 0, note |-> TRUE]

-----------------------------------------------------------------------------
isSecret(i) == i \in SecretItems

HashString(m) == [m EXCEPT !.hashed = @ + 1]

removeLastAppliedAnnotation(m) == [m EXCEPT !.note = FALSE]

sanitizeManifest(i, m, salt) ==
  IF salt = "empty" \/ m = None THEN None
  ELSE removeLastAppliedAnnotation(IF isSecret(i) THEN HashString(m) ELSE m)

(* Mutant: the cached object is changed in place. *)
ChangedInPlace(i, m, salt) == IF isSecret(i) /\ salt # "empty" THEN HashString(m) ELSE m

(* The manifest is cloned before it is changed: the cache keeps its own. *)
LeftInCache(i, m, salt) == m

(* A desired resource is "expected" or "orphaned" *)
NewSyncStatus(want, code, patch) ==
  IF want = "orphaned" THEN [code |-> "Orphaned", patch |-> None]
  ELSE [code |-> code, patch |-> patch]

(* getSyncStatus: the difference (gitops-engine) is taken from the sanitized manifest *)
getSyncStatus(m, want) ==
  NewSyncStatus(want,
    CASE m = None -> "Unknown" [] m # None /\ m.v = 1 -> "InSync" [] OTHER -> "OutOfSync",
    IF m # None /\ m.v # 1 THEN m ELSE None)

(* GetHealthStatus: the checks of gitops-engine are external *)
GetHealthStatus(m) == IF m = None THEN "Unknown" ELSE "Healthy"

NotHeld == [kind |-> "none", manifest |-> None, status |-> None, sync |-> None]

NewPresentMonitoredResource(i, m, want, salt) ==
  LET sanitized == sanitizeManifest(i, m, salt)
  IN  [kind |-> "present", manifest |-> sanitized, status |-> GetHealthStatus(m),
       sync |-> getSyncStatus(sanitized, want)]

NewChildMonitoredResource(i, m, salt) ==
  [kind |-> "child", manifest |-> sanitizeManifest(i, m, salt),
   status |-> GetHealthStatus(m), sync |-> None]

NewMissingMonitoredResource(want) ==
  [kind |-> "missing", manifest |-> None, status |-> "Missing",
   sync |-> NewSyncStatus(want, "OutOfSync", None)]

NewUnknownMonitoredResource(want) ==
  [kind |-> "unknown", manifest |-> None, status |-> "Unknown",
   sync |-> NewSyncStatus(want, "Unknown", None)]

-----------------------------------------------------------------------------
(* A resource without a manifest (or without its ids) cannot be converted: *)
(* it is logged and left out of the request.                               *)
Convertible(r) == r.kind \in {"present", "child"} => r.manifest # None

ToResourceStatus(status) == IF status = None THEN "NotApplicable" ELSE status

MapToV1SyncStatusCode(code) == IF code = "Orphaned" THEN "NotApplicable" ELSE code

ToSyncStatus(sync) == [v1 |-> MapToV1SyncStatusCode(sync.code), v2 |-> sync.code, patch |-> sync.patch]

Gone == [kind |-> "none"]

toMonitoredResource(r) ==
  IF r.kind = "none" \/ ~Convertible(r) THEN Gone
  ELSE [kind |-> r.kind, manifest |-> r.manifest, status |-> ToResourceStatus(r.status),
        sync |-> IF r.sync = None THEN None ELSE ToSyncStatus(r.sync)]

(* changes: the monitored resources that changed *)
ToUpdateMonitoredResourceRequest(changes) ==
  [kind |-> "update",
   about |-> [i \in {j \in DOMAIN changes : Convertible(changes[j])} |->
                toMonitoredResource(changes[i])]]

(* The complete state that the server shall hold for the instance *)
ToReplaceMonitoredResourceRequest(held) ==
  [kind |-> "replace", about |-> [i \in Items |-> toMonitoredResource(held[i])]]

toDeleteRequest(keys) == [kind |-> "delete", about |-> [i \in keys |-> Gone]]

(* The server (external) overwrites what it knows of what a request is about *)
Received(server, request) ==
  [i \in Items |-> IF i \in DOMAIN request.about THEN request.about[i] ELSE server[i]]

-----------------------------------------------------------------------------
(* The values: a manifest, the codes of health and sync, a sync status,    *)
(* what is told of one resource, and a request.                            *)
Manifests == [v : {1, 2}, hashed : Nat, note : BOOLEAN]

Codes == {"Healthy", "Missing", "Unknown", "InSync", "OutOfSync", "Orphaned", "NotApplicable"}

SyncStatuses == [code : Codes, patch : Manifests \cup {None}]

Facts ==
  {Gone} \cup [kind : {"present", "child", "missing", "unknown"}, manifest : Manifests \cup {None},
               status : Codes, sync : [v1 : Codes, v2 : Codes, patch : Manifests \cup {None}] \cup {None}]

Requests == [kind : {"update", "replace", "delete"}, about : UNION {[S -> Facts] : S \in SUBSET Items}]

ASSUME NilAssumption == None \notin Manifests \cup SyncStatuses \cup Requests
=============================================================================
