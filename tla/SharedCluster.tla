---------------------------- MODULE SharedCluster ----------------------------
(***************************************************************************)
(* What all targets share of the Kubernetes cluster                        *)
(* (internal/cluster/shared_cluster.go and cache.go): the connection, the  *)
(* permission filter with its refresh loop, the part of a scan that        *)
(* decides what can be monitored, and the requests for logs and events,    *)
(* which go to the API server without a target's goroutine.                *)
(***************************************************************************)
EXTENDS PermissionFilter, ContainerLogs

CONSTANTS None,
          Types,        \* the types of resources: [group, resource]
          BuiltIn,      \* the ones that no CRD is needed for
          Desired,      \* desired resources: [name, type, namespace, preferred, manifest]:
                        \* namespace "" if cluster-scoped, whether its version is the one
                        \* that discovery prefers, whether a manifest came with it
          TargetNamespaces, ClusterScopedResources,  \* the configured scope
          Reviews,      \* what RBAC may grant: [rules], and the types that lets the
                        \* account list and watch [listable], and also get [readable]
          Logs,         \* logs of a container
          EventLists,   \* answers to a request for the events of an object
          MaxEvents     \* bound: changes of types, rights and resources, failures, requests

ASSUME SharedAssumption ==
  /\ BuiltIn \subseteq Types
  /\ \A r \in Desired : r.type \in Types /\ r.preferred \in BOOLEAN /\ r.manifest \in BOOLEAN
  /\ \A granted \in Reviews : granted.readable \subseteq granted.listable /\ granted.listable \subseteq Types
  /\ MaxEvents \in Nat
  /\ None \notin {"PERMISSION_DENIED", "UNEXPECTED"}

(* An event is one of a series, from first to last, or has a time.  The    *)
(* zero of a time is 0.                                                    *)
IsEvent(item) ==
  /\ item \in [first : Nat, last : Nat, time : Nat, count : Nat, marshals : BOOLEAN]
  /\ \/ item.first > 0 /\ item.first <= item.last
     \/ item.first = 0 /\ item.last = 0 /\ item.time > 0

(* What the API server answers (external) *)
ASSUME AnswersAssumption ==
  /\ \A log \in Logs : IsLog(log)
  /\ \A items \in EventLists : items \in Seq({items[i] : i \in DOMAIN items})
  /\ \A items \in EventLists : \A i \in DOMAIN items : IsEvent(items[i])

VARIABLES served,     \* the types the API server serves
          review,     \* the rights of the service account
          live,       \* the desired resources that exist
          listed,     \* the types the cluster cache knows of: its GetAPIResources
          watched,    \* the ones of them it watches
          conn,       \* the connection: "none", "unsynced", "up" or "down"
          remembered, \* the types in the discovery cache of the scans, if it holds any
          resolved,   \* the desired resources whose namespace is resolved
          discovered, \* the types in the discovery cache of the filter
          allowed,    \* the filter
          refresh,    \* the set its refresh loop has built and not yet swapped in
          scan,       \* the scan that is running
          reported,   \* what the last scan said of each desired resource
          answer,     \* the answer to a request that is about to be sent
          events      \* of MaxEvents, so far

cluster == <<served, review, live>>
cache == <<listed, watched>>
discovery == <<remembered, resolved>>
filter == <<discovered, allowed, refresh>>
vars == <<cluster, cache, conn, discovery, filter, scan, reported, answer, events>>

Init == /\ served \in {types \in SUBSET Types : BuiltIn \subseteq types}
        /\ review \in Reviews
        /\ live = {}
        /\ listed = {} /\ watched = {}
        /\ conn = "none"
        /\ remembered = None /\ resolved = {}
        /\ discovered = {} /\ allowed = {} /\ refresh = None
        /\ scan = None
        /\ reported = [r \in Desired |-> {}]
        /\ answer = None
        /\ events = 0

Event == events < MaxEvents /\ events' = events + 1

-----------------------------------------------------------------------------
(* The cluster (external) *)
(* Resources that existed from the start of a scan until now *)
StillThere == scan' = IF scan = None THEN None ELSE [scan EXCEPT !.there = @ \cap live']

(* The filter, or what the cache watches, changes in the middle of a scan *)
Shifts(changed) ==
  scan' = IF scan = None THEN None ELSE [scan EXCEPT !.shifted = @ \/ changed]

TypeChanges(type) ==
  /\ Event
  /\ served' = IF type \in served THEN served \ {type} ELSE served \cup {type}
  /\ live' = {r \in live : r.type \in served'}
  /\ StillThere
  /\ UNCHANGED <<review, cache, conn, discovery, filter, reported, answer>>

RightsChange(granted) ==
  /\ Event
  /\ granted # review
  /\ review' = granted
  /\ UNCHANGED <<served, live, cache, conn, discovery, filter, scan, reported, answer>>

ResourceChanges(r) ==
  /\ Event
  /\ r.type \in served
  /\ live' = IF r \in live THEN live \ {r} ELSE live \cup {r}
  /\ StillThere
  /\ UNCHANGED <<served, review, cache, conn, discovery, filter, reported, answer>>

Listable(types) == types \cap served \cap review.listable

(* The cluster cache learns late, from a CRD it watches or at a resync,    *)
(* which types there are.                                                  *)
CacheLists ==
  /\ conn = "up"
  /\ listed # served
  /\ listed' = served
  /\ UNCHANGED <<cluster, watched, conn, discovery, filter, scan, reported, answer, events>>

(* It lists and watches what it may (SetRespectRBAC). *)
CacheFollows ==
  /\ conn = "up"
  /\ watched # Listable(listed)
  /\ watched' = Listable(listed)
  /\ Shifts(TRUE)
  /\ UNCHANGED <<cluster, listed, conn, discovery, filter, reported, answer, events>>

-----------------------------------------------------------------------------
(* newSharedCluster: the filter is built first, and its discovery client   *)
(* remembers what it saw.  If anything fails there is no connection: the   *)
(* next command tries again.                                               *)
newSharedCluster ==
  /\ conn = "none"
  /\ conn' = "unsynced"
  /\ discovered' = served
  /\ allowed' = buildAllowedResourcesMap(served, review.rules)
  /\ UNCHANGED <<cluster, cache, discovery, refresh, scan, reported, answer, events>>

ConnectFails == /\ conn = "none"
                /\ Event
                /\ UNCHANGED <<cluster, cache, conn, discovery, filter, scan, reported, answer>>

(* The first scan fills the cache; if that fails, it is skipped. *)
sync == /\ conn = "unsynced"
        /\ conn' = "up"
        /\ listed' = served
        /\ watched' = Listable(served)
        /\ UNCHANGED <<cluster, discovery, filter, scan, reported, answer, events>>

SyncFails == /\ conn = "unsynced"
             /\ Event
             /\ UNCHANGED <<cluster, cache, conn, discovery, filter, scan, reported, answer>>

Connected == conn \in {"unsynced", "up"}

(* The context of the process ends: the cache is invalidated. *)
Stop == /\ Connected
        /\ Event
        /\ conn' = "down"
        /\ watched' = {}
        /\ Shifts(TRUE)
        /\ UNCHANGED <<cluster, listed, discovery, filter, reported, answer>>

(* startRefreshLoop: at a tick the rules are fetched; discovery answers    *)
(* from its cache.  A failure keeps the prior set.                         *)
startRefreshLoop ==
  /\ Connected
  /\ refresh = None
  /\ \/ /\ refresh' = buildAllowedResourcesMap(discovered, review.rules)
        /\ UNCHANGED events
     \/ /\ Event
        /\ UNCHANGED refresh
  /\ UNCHANGED <<cluster, cache, conn, discovery, discovered, allowed, scan, reported, answer>>

(* The new set is swapped in. *)
Swap ==
  /\ refresh # None
  /\ allowed' = refresh
  /\ refresh' = None
  /\ Shifts(allowed' # allowed)
  /\ UNCHANGED <<cluster, cache, conn, discovery, discovered, reported, answer, events>>

IsExcludedResource(type) == type \notin allowed

-----------------------------------------------------------------------------
(* Mutant: with a list of namespaces nothing cluster-scoped is in scope. *)
OutOfScopeIfClusterScoped(r) == TargetNamespaces # {} /\ r.namespace \notin TargetNamespaces

(* getMonitoredResources: resources outside the configured scope *)
OutOfScope(r) ==
  /\ TargetNamespaces # {}
  /\ IF r.namespace = "" THEN ~ClusterScopedResources ELSE r.namespace \notin TargetNamespaces

(* What the cache does not know of was deleted, if discovery is healthy.   *)
Verdict(r, healthy) ==
  CASE r.type \notin listed -> IF healthy THEN "skipped" ELSE "unknown"
    [] r.type \in listed /\ (r \notin resolved' \/ OutOfScope(r)) -> "unknown"
    [] OTHER -> "unread"

(* namespaceMapWithHealth: a sweep asks anew, a rescan in between may be   *)
(* answered from the discovery cache, and a failure leaves the defaults.   *)
namespaceMap(answered) ==
  CASE answered = "anew" -> served [] answered = "cached" -> remembered [] answered = "failed" -> BuiltIn

(* Namespaces are resolved, by type and version, before the types that the *)
(* cache knows of are read.  What is resolved stays so.                    *)
StartScan(answered) ==
  /\ conn = "up"
  /\ scan = None
  /\ answered = "cached" => remembered # None
  /\ IF answered = "anew" THEN UNCHANGED events ELSE Event
  /\ resolved' = resolved \cup {r \in Desired : r.preferred /\ r.type \in namespaceMap(answered)}
  /\ remembered' = IF answered = "failed" THEN None ELSE namespaceMap(answered)
  /\ scan' = [known |-> listed, verdict |-> [r \in Desired |-> Verdict(r, answered # "failed")],
              present |-> None, there |-> live, shifted |-> FALSE]
  /\ UNCHANGED <<cluster, cache, conn, filter, reported, answer>>

Pending(verdict) == {r \in Desired : scan.verdict[r] = verdict}

Judge(r, verdict) ==
  /\ scan' = [scan EXCEPT !.verdict[r] = verdict]
  /\ UNCHANGED <<cluster, cache, conn, discovery, filter, reported, answer, events>>

(* The filter is asked of each resource, and again of those it let through *)
(* that have a manifest.                                                   *)
ReadFilter(r) ==
  /\ scan # None
  /\ r \in Pending("unread")
  /\ Judge(r, IF IsExcludedResource(r.type) THEN "unknown" ELSE "candidate")

ReadFilterAgain(r) ==
  /\ scan # None
  /\ Pending("unread") = {}
  /\ r \in Pending("candidate")
  /\ Judge(r, IF ~r.manifest \/ IsExcludedResource(r.type) THEN "skipped" ELSE "target")

(* GetManagedLiveObjs: the targets that the cache holds, and perhaps       *)
(* others of the desired resources that it holds, or targets that it asks  *)
(* the API server for.                                                     *)
Held == {r \in live : r.type \in watched}

JudgedAll == scan # None /\ scan.present = None /\ Pending("unread") \cup Pending("candidate") = {}

ReadLive ==
  /\ JudgedAll
  /\ LET found == Held \cap Pending("target")
         others == (Held \cup (live \cap Pending("target"))) \ found
     IN  \E extra \in SUBSET others : scan' = [scan EXCEPT !.present = found \cup extra]
  /\ UNCHANGED <<cluster, cache, conn, discovery, filter, reported, answer, events>>

(* Its error ends the scan: what was reported before stands. *)
ReadFails ==
  /\ JudgedAll
  /\ Event
  /\ scan' = None
  /\ UNCHANGED <<cluster, cache, conn, discovery, filter, reported, answer>>

(* Mutant: types that the cache does not watch are like any other. *)
StatusUnwatched(r) ==
  IF r \in scan.present THEN {"present"}
  ELSE IF scan.verdict[r] = "unknown" THEN {} ELSE {"missing"}

(* Mutant: present resources are not accounted for. *)
StatusUnaccounted(r) ==
  (IF r \in scan.present THEN {"present"} ELSE {})
  \cup (IF scan.verdict[r] = "unknown" \/ r.type \in scan.known \ watched THEN {} ELSE {"missing"})

(* What is neither present nor unknown is missing, unless the cache knows  *)
(* its type and does not watch it.                                         *)
Status(r) ==
  IF r \in scan.present THEN {"present"}
  ELSE IF scan.verdict[r] = "unknown" THEN {}
  ELSE IF r.type \in scan.known \ watched THEN {"unknown"} ELSE {"missing"}

FinishScan ==
  /\ scan # None
  /\ scan.present # None
  /\ reported' = [r \in Desired |->
       Status(r) \cup (IF scan.verdict[r] = "unknown" THEN {"unknown"} ELSE {})]
  /\ scan' = None
  /\ UNCHANGED <<cluster, cache, conn, discovery, filter, answer, events>>

-----------------------------------------------------------------------------
(* The requests.  An error of the API server becomes a code. *)
ErrorCode(error) == IF error = "forbidden" THEN "PERMISSION_DENIED" ELSE "UNEXPECTED"

Answer(kind, about, content) == [kind |-> kind, about |-> about, content |-> content, error |-> None]

Apology(kind, error) == [kind |-> kind, about |-> None, content |-> <<>>, error |-> ErrorCode(error)]

containerLogs(log) ==
  LET parsed == parseLogs(Streamed(log))
  IN  IF parsed.failed THEN Apology("logs", "malformed") ELSE Answer("logs", log, parsed.lines)

(* An event without a series has its time elsewhere, and no count. *)
ToEvent(item) == [firstObserved |-> IF item.first = 0 THEN item.time ELSE item.first,
                  lastObserved |-> IF item.last = 0 THEN item.time ELSE item.last,
                  count |-> IF item.count = 0 THEN 1 ELSE item.count]

(* An event that cannot be marshalled is left out. *)
GetEvents(items) ==
  LET kept == Selected(items, LAMBDA item : item.marshals)
  IN  Answer("events", items, [i \in DOMAIN kept |-> ToEvent(kept[i])])

(* processRequest: a machine that is not there gets no answer.  Requests   *)
(* share nothing with the rest but the connection: to keep the state space *)
(* small they come before, and use up, the events of a behaviour.          *)
ProcessRequest(replies) ==
  /\ answer = None
  /\ events = 0 /\ events' = MaxEvents
  /\ answer' \in (IF Connected THEN replies ELSE {None})
  /\ UNCHANGED <<cluster, cache, conn, discovery, filter, scan, reported>>

ProcessLogRequest ==
  ProcessRequest({containerLogs(log) : log \in Logs} \cup {Apology("logs", e) : e \in {"forbidden", "other"}})

ProcessEventRequest ==
  ProcessRequest({GetEvents(items) : items \in EventLists}
                 \cup {Apology("events", e) : e \in {"forbidden", "other"}})

(* The answer is sent, or lost with its stream. *)
SendMsg == /\ answer # None
           /\ answer' = None
           /\ UNCHANGED <<cluster, cache, conn, discovery, filter, scan, reported, events>>

-----------------------------------------------------------------------------
Next == \/ \E type \in Types \ BuiltIn : TypeChanges(type)
        \/ \E granted \in Reviews : RightsChange(granted)
        \/ CacheLists \/ CacheFollows
        \/ newSharedCluster \/ ConnectFails \/ sync \/ SyncFails \/ Stop
        \/ startRefreshLoop \/ Swap
        \/ \E r \in Desired : ResourceChanges(r) \/ ReadFilter(r) \/ ReadFilterAgain(r)
        \/ \E answered \in {"anew", "cached", "failed"} : StartScan(answered)
        \/ ReadLive \/ ReadFails \/ FinishScan
        \/ ProcessLogRequest \/ ProcessEventRequest \/ SendMsg

(* A sweep: the scan of a target's goroutine, one step after the other *)
Sweep == \/ sync \/ StartScan("anew")
         \/ \E r \in Desired : ReadFilter(r) \/ ReadFilterAgain(r)
         \/ ReadLive \/ FinishScan

(* The refresh loop and the sweeps go on; so do the cache's watches. *)
Fairness == /\ WF_vars(CacheLists) /\ WF_vars(CacheFollows)
            /\ WF_vars(startRefreshLoop \/ Swap)
            /\ WF_vars(Sweep)

Spec == Init /\ [][Next]_vars /\ Fairness
-----------------------------------------------------------------------------
TypeOK ==
  /\ served \subseteq Types /\ listed \subseteq Types /\ watched \subseteq Types
  /\ review \in Reviews
  /\ live \subseteq Desired
  /\ conn \in {"none", "unsynced", "up", "down"}
  /\ remembered = None \/ remembered \subseteq Types
  /\ resolved \subseteq {r \in Desired : r.preferred}
  /\ allowed \subseteq discovered /\ discovered \subseteq Types
  /\ refresh = None \/ refresh \subseteq discovered
  /\ \A r \in Desired : reported[r] \in {{}, {"present"}, {"missing"}, {"unknown"}, {"present", "unknown"}}

(* A resource that exists all through a scan is reported missing for three *)
(* reasons only, whatever is forbidden, out of scope or unresolved: it     *)
(* came without a manifest and is not looked for, the cache had not heard  *)
(* of its type when the scan began, or, since the filter is read twice and *)
(* the cache three times, one of them changed during the scan              *)
(* (getMonitoredResources).                                                *)
NoFalseMissing ==
  [][FinishScan => \A r \in scan.there : "missing" \in reported'[r] =>
       ~r.manifest \/ r.type \notin scan.known \/ scan.shifted]_vars

LastOfTheLog ==
  answer # None /\ answer.kind = "logs" /\ answer.error = None => IsTail(answer.content, answer.about)

HappenedSometime ==
  answer # None /\ answer.kind = "events" => \A i \in DOMAIN answer.content :
    LET event == answer.content[i]
    IN  event.count > 0 /\ event.firstObserved > 0 /\ event.firstObserved <= event.lastObserved

(* The lines answered are the last of the container's log, in order and    *)
(* none but the oldest ones left out, whether the log is empty, just fills *)
(* the buffer or wraps around in it (CircularBuffer, parseLogs).  Every    *)
(* event answered happened at least once, at a time, and not last before   *)
(* it first did (sharedCluster.events).                                    *)
RequestsAnswered == LastOfTheLog /\ HappenedSometime

Monitorable(r) ==
  /\ TargetNamespaces = {} \/ r.namespace \in TargetNamespaces \/ (r.namespace = "" /\ ClusterScopedResources)
  /\ r.type \in review.readable \cap discovered
  /\ r.preferred

(* Whatever changed in between, the scans come to report every desired     *)
(* resource as it is: present or missing if it can be monitored, missing   *)
(* if its type is gone, and otherwise unknown, as is one of a version that *)
(* discovery does not prefer (getMonitoredResources).  One that came       *)
(* without a manifest may stay missing although it is there.               *)
(* The filter catches up with the rights that are granted and revoked, for *)
(* the types that were there when it was built: types that appear later    *)
(* are never allowed (startRefreshLoop, and the discovery cache newCache   *)
(* gives the filter).                                                      *)
ReportsSettle ==
  <>[](conn = "up" => \A r \in Desired :
        IF r.type \notin served THEN reported[r] = {"missing"}
        ELSE IF Monitorable(r)
             THEN \/ reported[r] = {IF r \in live THEN "present" ELSE "missing"}
                  \/ reported[r] = {"missing"} /\ ~r.manifest
             ELSE "unknown" \in reported[r])
=============================================================================
