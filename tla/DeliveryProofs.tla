---------------------------- MODULE DeliveryProofs ----------------------------
(***************************************************************************)
(* Proofs about Delivery, for every set of resources and commands, every   *)
(* capacity of the queue and every number of workers, runs and events:     *)
(* what is sent has its secrets hashed once, commands take effect in their *)
(* order, and what the instance comes to hold is reported.                 *)
(*                                                                         *)
(* The first and the last rest on one invariant: wherever a request is on  *)
(* its way (in a goroutine's hand, in the queue, with a worker), it is a   *)
(* request, and every entry of it is one that a resource may have.         *)
(***************************************************************************)
EXTENDS Delivery, FiniteSetTheorems, SequenceTheorems, TLAPS

(* A manifest in the cluster cache, and what sanitizeManifest makes of it *)
Cached == [v : {1, 2}, hashed : {0}, note : {TRUE}]

Times(i) == IF isSecret(i) THEN 1 ELSE 0

Sanitized(i) == [v : {1, 2}, hashed : {Times(i)}, note : {FALSE}] \cup {None}

(* What an instance may hold of resource i, and what may be told of it *)
HeldAs(i) ==
  {NotHeld}
  \cup [kind : {"present"}, manifest : Sanitized(i), status : Codes,
        sync : [code : Codes, patch : Sanitized(i)]]
  \cup [kind : {"child"}, manifest : Sanitized(i), status : Codes, sync : {None}]
  \cup [kind : {"missing", "unknown"}, manifest : {None}, status : Codes,
        sync : [code : Codes, patch : {None}]]

ToldAs(i) ==
  {Gone}
  \cup [kind : {"present"}, manifest : Sanitized(i), status : Codes,
        sync : [v1 : Codes, v2 : Codes, patch : Sanitized(i)]]
  \cup [kind : {"child"}, manifest : Sanitized(i), status : Codes, sync : {None}]
  \cup [kind : {"missing", "unknown"}, manifest : {None}, status : Codes,
        sync : [v1 : Codes, v2 : Codes, patch : {None}]]

CleanRequests == {q \in Requests : \A i \in DOMAIN q.about : i \in Items /\ q.about[i] \in ToldAs(i)}

InstanceInv == /\ DOMAIN cached = Items /\ \A i \in Items : cached[i] \in Cached \cup {None}
               /\ DOMAIN held = Items /\ \A i \in Items : held[i] \in HeldAs(i)

(* Requests on their way, and what arrived of them *)
RequestInv == /\ report \in CleanRequests \cup {None}
              /\ reply \in [Runs -> CleanRequests \cup {None}]
              /\ sweep \in [Runs -> CleanRequests \cup {None}]
              /\ queue \in Seq(CleanRequests)
              /\ \A q \in DOMAIN sending : q \in CleanRequests /\ sending[q] \in Nat \ {0}
              /\ \A i \in Items : server[i] \in ToldAs(i)

CommandType == /\ run \in Runs
               /\ command \in [Runs -> [n : Nat, c : Commands] \cup {None}]
               /\ sent \in Nat /\ applied \in Nat /\ events \in Nat
               /\ timedOut \in BOOLEAN

(* The command that is in hand, if any, is the last that was sent *)
InHand == ~timedOut => /\ \A r \in Runs : r # run => command[r] = None
                       /\ command[run] = None => applied = sent
                       /\ command[run] # None => command[run].n = sent /\ applied = sent - 1

DInv == InstanceInv /\ RequestInv /\ CommandType /\ InHand

-----------------------------------------------------------------------------
(* What the constructors of Reporting make *)

LEMMA Once == \A i : Times(i) \in Nat
BY DEF Times

LEMMA SanitizedIsManifest == \A i : Sanitized(i) \subseteq Manifests \cup {None}
BY Once DEF Sanitized, Manifests

(* sanitizeManifest: hashed once if it is a secret, and without the annotation *)
LEMMA Sanitizes ==
  ASSUME NEW i, NEW m \in Cached \cup {None}, NEW s
  PROVE  sanitizeManifest(i, m, s) \in Sanitized(i)
<1>1. CASE s = "empty" \/ m = None
  BY <1>1 DEF sanitizeManifest, Sanitized
<1>2. CASE s # "empty" /\ m # None
  <2>1. m \in Cached
    BY <1>2
  <2>2. m.hashed + 1 = 1
    BY <2>1 DEF Cached
  <2>3. HashString(m) \in [v : {1, 2}, hashed : {1}, note : {TRUE}]
    BY <2>1, <2>2 DEF HashString, Cached
  <2>4. PICK h : h = IF isSecret(i) THEN HashString(m) ELSE m
    OBVIOUS
  <2>5. h \in [v : {1, 2}, hashed : {Times(i)}, note : {TRUE}]
    BY <2>1, <2>3, <2>4 DEF Times, Cached
  <2>6. removeLastAppliedAnnotation(h) \in [v : {1, 2}, hashed : {Times(i)}, note : {FALSE}]
    BY <2>5 DEF removeLastAppliedAnnotation
  <2> QED BY <1>2, <2>4, <2>6 DEF sanitizeManifest, Sanitized
<1> QED BY <1>1, <1>2

(* NewPresentMonitoredResource: the difference is taken from the sanitized manifest *)
LEMMA PresentHeld ==
  ASSUME NEW i, NEW m \in Cached \cup {None}, NEW want, NEW s
  PROVE  NewPresentMonitoredResource(i, m, want, s) \in HeldAs(i)
<1> DEFINE c == sanitizeManifest(i, m, s)
<1>1. c \in Sanitized(i)
  BY Sanitizes
<1>2. None \in Sanitized(i)
  BY DEF Sanitized
<1>3. getSyncStatus(c, want) \in [code : Codes, patch : Sanitized(i)]
  <2> HIDE DEF c
  <2> QED BY <1>1, <1>2 DEF getSyncStatus, NewSyncStatus, Codes
<1> HIDE DEF c
<1>4. GetHealthStatus(m) \in Codes
  BY DEF GetHealthStatus, Codes
<1>5. NewPresentMonitoredResource(i, m, want, s)
        = [kind |-> "present", manifest |-> c, status |-> GetHealthStatus(m),
           sync |-> getSyncStatus(c, want)]
  BY DEF NewPresentMonitoredResource, c
<1> QED BY <1>1, <1>3, <1>4, <1>5 DEF HeldAs

LEMMA ChildHeld ==
  ASSUME NEW i, NEW m \in Cached \cup {None}, NEW s
  PROVE  NewChildMonitoredResource(i, m, s) \in HeldAs(i)
<1>1. sanitizeManifest(i, m, s) \in Sanitized(i)
  BY Sanitizes
<1>2. GetHealthStatus(m) \in Codes
  BY DEF GetHealthStatus, Codes
<1> QED BY <1>1, <1>2 DEF NewChildMonitoredResource, HeldAs

LEMMA AbsentHeld ==
  ASSUME NEW i, NEW want
  PROVE  /\ NewMissingMonitoredResource(want) \in HeldAs(i)
         /\ NewUnknownMonitoredResource(want) \in HeldAs(i)
         /\ NotHeld \in HeldAs(i)
<1>1. /\ NewSyncStatus(want, "OutOfSync", None) \in [code : Codes, patch : {None}]
      /\ NewSyncStatus(want, "Unknown", None) \in [code : Codes, patch : {None}]
  BY DEF NewSyncStatus, Codes
<1> QED BY <1>1 DEF NewMissingMonitoredResource, NewUnknownMonitoredResource, HeldAs, Codes

(* toMonitoredResource keeps the manifest and the patch *)
LEMMA TellsWhatIsHeld ==
  ASSUME NEW i, NEW h \in HeldAs(i)
  PROVE  toMonitoredResource(h) \in ToldAs(i)
<1>1. CASE h.kind = "none" \/ ~Convertible(h)
  BY <1>1 DEF toMonitoredResource, ToldAs
<1>2. CASE h.kind # "none" /\ Convertible(h)
  <2>1. ToResourceStatus(h.status) \in Codes
    BY <1>2 DEF HeldAs, ToResourceStatus, NotHeld, Codes
  <2>2. ASSUME NEW P, h.sync \in [code : Codes, patch : P]
        PROVE  ToSyncStatus(h.sync) \in [v1 : Codes, v2 : Codes, patch : P]
    BY <2>2 DEF ToSyncStatus, MapToV1SyncStatusCode, Codes
  <2>3. toMonitoredResource(h) =
          [kind |-> h.kind, manifest |-> h.manifest, status |-> ToResourceStatus(h.status),
           sync |-> IF h.sync = None THEN None ELSE ToSyncStatus(h.sync)]
    BY <1>2 DEF toMonitoredResource
  <2>4. [code : Codes, patch : Sanitized(i)] \subseteq SyncStatuses
    BY SanitizedIsManifest DEF SyncStatuses
  <2>5. CASE h \in [kind : {"present"}, manifest : Sanitized(i), status : Codes,
                    sync : [code : Codes, patch : Sanitized(i)]]
    <3>1. h.sync # None
      BY <2>4, <2>5, NilAssumption
    <3>2. ToSyncStatus(h.sync) \in [v1 : Codes, v2 : Codes, patch : Sanitized(i)]
      BY <2>2, <2>5
    <3> QED BY <2>1, <2>3, <2>5, <3>1, <3>2 DEF ToldAs
  <2>6. CASE h \in [kind : {"child"}, manifest : Sanitized(i), status : Codes, sync : {None}]
    BY <2>1, <2>3, <2>6 DEF ToldAs
  <2>7. CASE h \in [kind : {"missing", "unknown"}, manifest : {None}, status : Codes,
                    sync : [code : Codes, patch : {None}]]
    <3>1. h.sync # None
      BY <2>4, <2>7, NilAssumption DEF Sanitized
    <3>2. ToSyncStatus(h.sync) \in [v1 : Codes, v2 : Codes, patch : {None}]
      BY <2>2, <2>7
    <3> QED BY <2>1, <2>3, <2>7, <3>1, <3>2 DEF ToldAs
  <2> QED BY <1>2, <2>5, <2>6, <2>7 DEF HeldAs, NotHeld
<1> QED BY <1>1, <1>2

LEMMA ToldIsFact == ASSUME NEW i PROVE ToldAs(i) \subseteq Facts
<1>1. Sanitized(i) \subseteq Manifests \cup {None}
  BY SanitizedIsManifest
<1>2. [v1 : Codes, v2 : Codes, patch : Sanitized(i)]
        \subseteq [v1 : Codes, v2 : Codes, patch : Manifests \cup {None}]
  BY <1>1
<1> QED BY <1>1, <1>2 DEF ToldAs, Facts

(* A request about resources, each as it may be told *)
LEMMA MakesRequest ==
  ASSUME NEW kind \in {"update", "replace", "delete"}, NEW S \in SUBSET Items, NEW f,
         f = [i \in S |-> f[i]], \A i \in S : f[i] \in ToldAs(i)
  PROVE  [kind |-> kind, about |-> f] \in CleanRequests
<1>1. f \in [S -> Facts]
  BY ToldIsFact
<1>2. [kind |-> kind, about |-> f] \in Requests
  BY <1>1 DEF Requests
<1>3. DOMAIN f = S
  OBVIOUS
<1> QED BY <1>2, <1>3 DEF CleanRequests

LEMMA UpdateClean ==
  ASSUME NEW S \in SUBSET Items, NEW f, DOMAIN f = S, \A i \in S : f[i] \in HeldAs(i)
  PROVE  ToUpdateMonitoredResourceRequest(f) \in CleanRequests
<1> DEFINE T == {j \in S : Convertible(f[j])}
           g == [i \in T |-> toMonitoredResource(f[i])]
<1>1. \A i \in T : g[i] \in ToldAs(i)
  BY TellsWhatIsHeld
<1>2. g = [i \in T |-> g[i]] /\ T \in SUBSET Items
  OBVIOUS
<1>3. ToUpdateMonitoredResourceRequest(f) = [kind |-> "update", about |-> g]
  BY DEF ToUpdateMonitoredResourceRequest
<1> HIDE DEF T, g
<1> QED BY <1>1, <1>2, <1>3, MakesRequest

LEMMA ReplaceClean ==
  ASSUME NEW f, \A i \in Items : f[i] \in HeldAs(i)
  PROVE  ToReplaceMonitoredResourceRequest(f) \in CleanRequests
<1> DEFINE g == [i \in Items |-> toMonitoredResource(f[i])]
<1>1. \A i \in Items : g[i] \in ToldAs(i)
  BY TellsWhatIsHeld
<1>2. g = [i \in Items |-> g[i]]
  OBVIOUS
<1>3. ToReplaceMonitoredResourceRequest(f) = [kind |-> "replace", about |-> g]
  BY DEF ToReplaceMonitoredResourceRequest
<1> HIDE DEF g
<1> QED BY <1>1, <1>2, <1>3, MakesRequest

LEMMA DeleteClean ==
  ASSUME NEW S \in SUBSET Items
  PROVE  toDeleteRequest(S) \in CleanRequests
<1> DEFINE g == [i \in S |-> Gone]
<1>1. \A i \in S : g[i] \in ToldAs(i)
  BY DEF ToldAs
<1>2. g = [i \in S |-> g[i]]
  OBVIOUS
<1>3. toDeleteRequest(S) = [kind |-> "delete", about |-> g]
  BY DEF toDeleteRequest
<1> HIDE DEF g
<1> QED BY <1>1, <1>2, <1>3, MakesRequest

LEMMA NotNil == None \notin CleanRequests
BY NilAssumption DEF CleanRequests

LEMMA ServerOverwritten ==
  ASSUME NEW srv, NEW q \in CleanRequests, \A i \in Items : srv[i] \in ToldAs(i)
  PROVE  \A i \in Items : Received(srv, q)[i] \in ToldAs(i)
BY DEF Received, CleanRequests

-----------------------------------------------------------------------------
(* The workers' requests, a bag, and the queue *)
LEMMA BagAdds ==
  ASSUME NEW B, NEW x, \A q \in DOMAIN B : B[q] \in Nat \ {0}
  PROVE  /\ DOMAIN (B (+) SetToBag({x})) = DOMAIN B \cup {x}
         /\ \A q \in DOMAIN (B (+) SetToBag({x})) : (B (+) SetToBag({x}))[q] \in Nat \ {0}
<1>1. DOMAIN SetToBag({x}) = {x} /\ SetToBag({x})[x] = 1
  BY DEF SetToBag
<1> QED BY <1>1 DEF (+)

LEMMA BagRemoves ==
  ASSUME NEW B, NEW x, \A q \in DOMAIN B : B[q] \in Nat \ {0}
  PROVE  /\ DOMAIN (B (-) SetToBag({x})) \subseteq DOMAIN B
         /\ \A q \in DOMAIN B : q # x => q \in DOMAIN (B (-) SetToBag({x}))
         /\ \A q \in DOMAIN (B (-) SetToBag({x})) : (B (-) SetToBag({x}))[q] \in Nat \ {0}
<1>1. DOMAIN SetToBag({x}) = {x} /\ SetToBag({x})[x] = 1
  BY DEF SetToBag
<1> DEFINE D == [e \in DOMAIN B |-> IF e \in {x} THEN B[e] - 1 ELSE B[e]]
           P == {d \in DOMAIN D : D[d] > 0}
<1>2. B (-) SetToBag({x}) = [e \in P |-> D[e]]
  BY <1>1 DEF (-)
<1>3. \A e \in DOMAIN B : D[e] \in Nat /\ (e # x => D[e] = B[e])
  OBVIOUS
<1>4. DOMAIN D = DOMAIN B
  OBVIOUS
<1> HIDE DEF D
<1> QED BY <1>2, <1>3, <1>4

LEMMA QueueGrows ==
  ASSUME NEW S, NEW s \in Seq(S), NEW x \in S
  PROVE  Append(s, x) \in Seq(S) /\ Range(Append(s, x)) = Range(s) \cup {x}
<1>1. Append(s, x) \in Seq(S)
  BY AppendProperties
<1>2. /\ Len(Append(s, x)) = Len(s) + 1
      /\ \A j \in 1 .. Len(s) : Append(s, x)[j] = s[j]
      /\ Append(s, x)[Len(s) + 1] = x
  BY AppendProperties
<1>3. DOMAIN Append(s, x) = 1 .. (Len(s) + 1) /\ DOMAIN s = 1 .. Len(s) /\ Len(s) \in Nat
  BY <1>1, <1>2, LenProperties
<1>4. 1 .. (Len(s) + 1) = (1 .. Len(s)) \cup {Len(s) + 1}
  BY <1>3
<1> HIDE DEF Range
<1>5. \A y : y \in Range(Append(s, x)) <=> \E j \in 1 .. (Len(s) + 1) : y = Append(s, x)[j]
  BY <1>3, Zenon DEF Range
<1>6. \A y : y \in Range(s) <=> \E j \in 1 .. Len(s) : y = s[j]
  BY <1>3, Zenon DEF Range
<1>7. \A y : y \in Range(Append(s, x)) <=> y \in Range(s) \cup {x}
  BY <1>2, <1>4, <1>5, <1>6
<1> QED BY <1>1, <1>7, Zenon

LEMMA QueueShrinks ==
  ASSUME NEW S, NEW s \in Seq(S), s # << >>
  PROVE  /\ Head(s) \in S /\ Tail(s) \in Seq(S)
         /\ Range(s) \subseteq Range(Tail(s)) \cup {Head(s)}
<1>1. /\ Head(s) = s[1] /\ Head(s) \in S
      /\ Tail(s) \in Seq(S) /\ Len(Tail(s)) = Len(s) - 1
      /\ \A j \in 1 .. Len(Tail(s)) : Tail(s)[j] = s[j + 1]
  BY HeadTailProperties, ElementOfSeq, EmptySeq
<1>2. DOMAIN s = 1 .. Len(s) /\ DOMAIN Tail(s) = 1 .. Len(Tail(s)) /\ Len(s) \in Nat
  BY <1>1, LenProperties
<1>3. ASSUME NEW j \in DOMAIN s PROVE s[j] = Head(s) \/ \E k \in DOMAIN Tail(s) : s[j] = Tail(s)[k]
  <2>1. CASE j = 1
    BY <1>1, <2>1
  <2>2. CASE j # 1
    <3>1. j - 1 \in 1 .. Len(Tail(s)) /\ j = (j - 1) + 1
      BY <1>1, <1>2, <2>2
    <3> QED BY <1>1, <1>2, <3>1
  <2> QED BY <2>1, <2>2
<1>4. ASSUME NEW y \in Range(s) PROVE y \in Range(Tail(s)) \cup {Head(s)}
  <2>1. PICK j \in DOMAIN s : y = s[j]
    BY Zenon DEF Range
  <2>2. ASSUME NEW k \in DOMAIN Tail(s), y = Tail(s)[k] PROVE y \in Range(Tail(s))
    BY <2>2, Zenon DEF Range
  <2> QED BY <1>3, <2>1, <2>2
<1> QED BY <1>1, <1>4

-----------------------------------------------------------------------------
(* The instance holds what the constructors make, of what the cache has *)
LEMMA RunsNonempty == 1 \in Runs /\ Runs \subseteq Nat
BY DeliveryAssumption DEF Runs

LEMMA InitDInv == Init => DInv
<1> SUFFICES ASSUME Init PROVE DInv
  OBVIOUS
<1>1. Manifest(1) \in Cached
  BY DEF Manifest, Cached
<1>2. InstanceInv
  BY <1>1, AbsentHeld DEF Init, InstanceInv
<1>3. RequestInv
  <2>1. \A i : Gone \in ToldAs(i)
    BY DEF ToldAs
  <2>2. DOMAIN sending = {}
    BY DEF Init, EmptyBag, SetToBag
  <2>3. queue \in Seq(CleanRequests)
    BY EmptySeq DEF Init
  <2> QED BY <2>1, <2>2, <2>3 DEF Init, RequestInv
<1>4. CommandType /\ InHand
  BY RunsNonempty DEF Init, CommandType, InHand
<1> QED BY <1>2, <1>3, <1>4 DEF DInv

(* A manifest that was fetched, or could not be *)
LEMMA FoundCached ==
  ASSUME InstanceInv, NEW i \in Items, NEW bad
  PROVE  Found(i, bad) \in Cached \cup {None}
BY DEF Found, InstanceInv

LEMMA ScannedHeld ==
  ASSUME InstanceInv, NEW want, NEW s, NEW bad, NEW unsure
  PROVE  /\ DOMAIN Scanned(want, s, bad, unsure) = Items
         /\ \A i \in Items : Scanned(want, s, bad, unsure)[i] \in HeldAs(i)
<1>1. DOMAIN Scanned(want, s, bad, unsure) = Items
  BY DEF Scanned
<1>2. ASSUME NEW i \in Items
      PROVE  Scanned(want, s, bad, unsure)[i] \in HeldAs(i)
  <2>1. Found(i, bad) \in Cached \cup {None}
    BY FoundCached
  <2>2. /\ NewChildMonitoredResource(i, Found(i, bad), s) \in HeldAs(i)
        /\ NewPresentMonitoredResource(i, Found(i, bad), want[i], s) \in HeldAs(i)
        /\ NewUnknownMonitoredResource(want[i]) \in HeldAs(i)
        /\ NewMissingMonitoredResource(want[i]) \in HeldAs(i)
        /\ NotHeld \in HeldAs(i)
    BY <2>1, ChildHeld, PresentHeld, AbsentHeld
  <2> QED BY <2>2 DEF Scanned
<1> QED BY <1>1, <1>2

LEMMA ScanHeld ==
  ASSUME InstanceInv, NEW want, NEW s, Scan(want, s)
  PROVE  DOMAIN held' = Items /\ \A i \in Items : held'[i] \in HeldAs(i)
<1>1. \E bad, unsure : held' = Scanned(want, s, bad, unsure)
  BY DEF Scan
<1> QED BY <1>1, ScannedHeld

(* The cache keeps its manifests as they are *)
LEMMA CacheKept ==
  ASSUME InstanceInv, NEW read, NEW s
  PROVE  DOMAIN CacheAfter(read, s) = Items /\ \A i \in Items : CacheAfter(read, s)[i] = cached[i]
BY DEF InstanceInv, CacheAfter, LeftInCache

LEMMA InstanceStep ==
  ASSUME InstanceInv, [Next]_vars
  PROVE  InstanceInv'
<1> USE DEF InstanceInv
<1>1. ASSUME NEW i \in Items, NEW new \in Cached \cup {None}, Changed(i, new) PROVE InstanceInv'
  BY <1>1 DEF Changed, instance
<1>2. ASSUME NEW i \in Items, Modify(i) PROVE InstanceInv'
  <2>1. Manifest(1) \in Cached /\ Manifest(2) \in Cached
    BY DEF Manifest, Cached
  <2> QED BY <1>1, <1>2, <2>1 DEF Modify
<1>3. ASSUME NEW i \in Items, Delete(i) PROVE InstanceInv'
  BY <1>1, <1>3 DEF Delete
<1>4. ASSUME NEW i \in Items, TakeChange(i) PROVE InstanceInv'
  <2> DEFINE change == ChangeOf(i, pending[i].old, cached[i])
  <2>1. cached' = cached \/ cached' = CacheAfter({i}, salt)
    BY <1>4 DEF TakeChange
  <2>2. DOMAIN cached' = Items /\ \A j \in Items : cached'[j] \in Cached \cup {None}
    BY <2>1, CacheKept
  <2>3. \E m \in {cached[i], None} : held' = [held EXCEPT ![i] = HeldAfter(i, change, m)]
    BY <1>4 DEF TakeChange
  <2>4. change \in {"nothing", "found", "child", "removed", "deleted"}
    BY DEF ChangeOf
  <2>5. ASSUME NEW m \in Cached \cup {None} PROVE HeldAfter(i, change, m) \in HeldAs(i)
    <3> HIDE DEF change
    <3>1. /\ NewPresentMonitoredResource(i, m, desired[i], salt) \in HeldAs(i)
          /\ NewChildMonitoredResource(i, m, salt) \in HeldAs(i)
          /\ NewMissingMonitoredResource(desired[i]) \in HeldAs(i)
          /\ NotHeld \in HeldAs(i)
      BY PresentHeld, ChildHeld, AbsentHeld
    <3> QED BY <2>4, <3>1 DEF HeldAfter
  <2> HIDE DEF change
  <2> QED BY <2>2, <2>3, <2>5
<1>5. ASSUME NEW r \in Runs, Apply(r) \/ Sweep(r) PROVE InstanceInv'
  <2>1. \E want, s : Scan(want, s) /\ cached' = CacheAfter(Items, s)
    BY <1>5 DEF Apply, Sweep
  <2> QED BY <2>1, ScanHeld, CacheKept
<1>6. ASSUME NEW r \in Runs, ApplyFails(r) PROVE InstanceInv'
  <2>1. DOMAIN held' = Items /\ cached' = cached
    BY <1>6 DEF ApplyFails
  <2>2. ASSUME NEW i \in Items PROVE held'[i] \in HeldAs(i)
    <3>1. \/ held'[i] = NewUnknownMonitoredResource(Wanted(command[r].c)[i])
          \/ held'[i] = NotHeld
          \/ held'[i] = held[i]
      BY <1>6 DEF ApplyFails
    <3> QED BY <3>1, AbsentHeld
  <2> QED BY <2>1, <2>2
<1>7. ASSUME UNCHANGED <<cached, held>> PROVE InstanceInv'
  BY <1>7
<1>8. ASSUME NEW r \in Runs, Receive(r) \/ ApplyDelete(r) \/ QueueReply(r) \/ SendSweep(r)
      PROVE  InstanceInv'
  BY <1>7, <1>8 DEF Receive, ApplyDelete, QueueReply, SendSweep, instance
<1>9. CASE QueueChange \/ runWorker \/ NextRun \/ UNCHANGED vars
  BY <1>7, <1>9 DEF QueueChange, runWorker, NextRun, vars, instance
<1>10. ASSUME NEW request, Send(request) PROVE InstanceInv'
  BY <1>7, <1>10 DEF Send, instance
<1> HIDE DEF InstanceInv
<1> QED BY <1>2, <1>3, <1>4, <1>5, <1>6, <1>8, <1>9, <1>10 DEF Next

LEMMA HeldNext ==
  ASSUME InstanceInv'
  PROVE  DOMAIN held' = Items /\ \A i \in Items : held'[i] \in HeldAs(i)
BY DEF InstanceInv

-----------------------------------------------------------------------------
(* Requests are made of what is held, and handed on *)
LEMMA RequestStep ==
  ASSUME InstanceInv, InstanceInv', RequestInv, CommandType, [Next]_vars
  PROVE  RequestInv'
<1> USE DEF RequestInv
<1>0. DOMAIN held' = Items /\ \A i \in Items : held'[i] \in HeldAs(i)
  BY HeldNext
<1>1. ASSUME UNCHANGED <<report, reply, sweep, queue, sending, server>> PROVE RequestInv'
  BY <1>1
<1>2. ASSUME NEW i \in Items, Modify(i) \/ Delete(i) PROVE RequestInv'
  BY <1>1, <1>2 DEF Modify, Delete, Changed, handlers
<1>3. ASSUME NEW i \in Items, TakeChange(i) PROVE RequestInv'
  <2> DEFINE change == ChangeOf(i, pending[i].old, cached[i])
             f == [j \in {i} |-> held'[j]]
  <2>1. ToUpdateMonitoredResourceRequest(f) \in CleanRequests
    <3>1. DOMAIN f = {i} /\ {i} \in SUBSET Items /\ \A j \in {i} : f[j] \in HeldAs(j)
      BY <1>0
    <3> HIDE DEF f
    <3> QED BY <3>1, UpdateClean
  <2>2. toDeleteRequest({i}) \in CleanRequests
    BY DeleteClean
  <2>3. report' = ChangeReport(i, change) /\ UNCHANGED <<reply, sweep, queue, sending, server>>
    BY <1>3 DEF TakeChange, handlers
  <2>4. report' \in CleanRequests \cup {None}
    <3> HIDE DEF change
    <3> QED BY <2>1, <2>2, <2>3 DEF ChangeReport
  <2> QED BY <2>3, <2>4
<1>4. ASSUME NEW r \in Runs, Receive(r) \/ ApplyFails(r) \/ ApplyDelete(r) PROVE RequestInv'
  BY <1>1, <1>4 DEF Receive, ApplyFails, ApplyDelete
<1>5. ASSUME NEW r \in Runs, Apply(r) PROVE RequestInv'
  <2> DEFINE c == command[r].c
             S == {j \in Incoming(c) : held'[j].kind # "none"}
             f == [i \in S |-> held'[i]]
  <2>1. c \in Commands
    BY <1>5 DEF Apply, CommandType
  <2>2. S \in SUBSET Items
    BY <2>1, DeliveryAssumption DEF Incoming, Items
  <2>3. DOMAIN f = S /\ \A j \in S : f[j] \in HeldAs(j)
    BY <1>0, <2>2
  <2>4. ToUpdateMonitoredResourceRequest(f) \in CleanRequests
    <3> HIDE DEF f, S
    <3> QED BY <2>2, <2>3, UpdateClean
  <2>5. ToReplaceMonitoredResourceRequest(held') \in CleanRequests
    BY <1>0, ReplaceClean
  <2>6. CommandReport(c) \in CleanRequests
    BY <2>4, <2>5 DEF CommandReport
  <2>7. reply' = [reply EXCEPT ![r] = CommandReport(c)]
        /\ UNCHANGED <<report, sweep, queue, sending, server>>
    BY <1>5 DEF Apply
  <2> HIDE DEF c
  <2> QED BY <2>6, <2>7
<1>6. ASSUME NEW r \in Runs, Sweep(r) PROVE RequestInv'
  <2>1. ToReplaceMonitoredResourceRequest(held') \in CleanRequests
    BY <1>0, ReplaceClean
  <2>2. sweep' = [sweep EXCEPT ![r] = ToReplaceMonitoredResourceRequest(held')]
        /\ UNCHANGED <<report, reply, queue, sending, server>>
    BY <1>6 DEF Sweep, handlers
  <2> QED BY <2>1, <2>2
<1>7. ASSUME NEW q \in CleanRequests, Queued(q) PROVE queue' \in Seq(CleanRequests)
  BY <1>7, QueueGrows DEF Queued
<1>8. CASE QueueChange
  <2>1. report' = None /\ UNCHANGED <<reply, sweep, sending, server>>
    BY <1>8 DEF QueueChange, handlers
  <2>2. queue' \in Seq(CleanRequests)
    BY <1>7, <1>8 DEF QueueChange
  <2> QED BY <2>1, <2>2
<1>9. ASSUME NEW r \in Runs, QueueReply(r) PROVE RequestInv'
  <2>1. reply' = [reply EXCEPT ![r] = None] /\ UNCHANGED <<report, sweep, sending, server>>
    BY <1>9 DEF QueueReply
  <2>2. queue' \in Seq(CleanRequests)
    BY <1>7, <1>9 DEF QueueReply
  <2> QED BY <2>1, <2>2
<1>10. CASE runWorker
  <2>1. UNCHANGED <<report, reply, sweep, server>>
    BY <1>10 DEF runWorker, handlers
  <2>2. Head(queue) \in CleanRequests /\ queue' \in Seq(CleanRequests)
    BY <1>10, QueueShrinks DEF runWorker
  <2>3. /\ DOMAIN sending' = DOMAIN sending \cup {Head(queue)}
        /\ \A q \in DOMAIN sending' : sending'[q] \in Nat \ {0}
    BY <1>10, BagAdds DEF runWorker
  <2> QED BY <2>1, <2>2, <2>3
<1>11. ASSUME NEW q \in CleanRequests, Arrives(q) \/ IsLost
       PROVE  \A i \in Items : server'[i] \in ToldAs(i)
  BY <1>11, ServerOverwritten DEF Arrives, IsLost
<1>12. ASSUME NEW q, Send(q) PROVE RequestInv'
  <2>1. UNCHANGED <<report, reply, sweep, queue>> /\ q \in CleanRequests
    BY <1>12 DEF Send, handlers, BagIn, BagToSet
  <2>2. \A i \in Items : server'[i] \in ToldAs(i)
    BY <1>11, <1>12, <2>1 DEF Send
  <2>3. /\ DOMAIN sending' \subseteq DOMAIN sending
        /\ \A p \in DOMAIN sending' : sending'[p] \in Nat \ {0}
    BY <1>12, BagRemoves DEF Send
  <2> QED BY <2>1, <2>2, <2>3
<1>13. ASSUME NEW r \in Runs, SendSweep(r) PROVE RequestInv'
  <2>1. /\ UNCHANGED <<report, reply, queue, sending>> /\ sweep[r] \in CleanRequests
        /\ sweep' = [sweep EXCEPT ![r] = None]
    BY <1>13 DEF SendSweep, handlers
  <2>2. \A i \in Items : server'[i] \in ToldAs(i)
    BY <1>11, <1>13, <2>1 DEF SendSweep
  <2> QED BY <2>1, <2>2
<1>14. CASE NextRun \/ UNCHANGED vars
  BY <1>1, <1>14 DEF NextRun, vars, handlers
<1> HIDE DEF RequestInv
<1> QED BY <1>2, <1>3, <1>4, <1>5, <1>6, <1>8, <1>9, <1>10, <1>12, <1>13, <1>14 DEF Next

-----------------------------------------------------------------------------
(* One command at a time, unless a run was started too early *)
LEMMA CommandStep ==
  ASSUME CommandType, InHand, [Next]_vars
  PROVE  CommandType' /\ InHand'
<1> USE DEF CommandType, InHand
<1>0. Runs \subseteq Nat
  BY RunsNonempty
<1>1. ASSUME UNCHANGED <<run, command, applied, sent, timedOut>>, events' \in {events, events + 1}
      PROVE  CommandType' /\ InHand'
  BY <1>1
<1>2. ASSUME NEW i \in Items, Modify(i) \/ Delete(i) \/ TakeChange(i) PROVE CommandType' /\ InHand'
  BY <1>1, <1>2 DEF Modify, Delete, Changed, TakeChange, Event, handlers
<1>3. ASSUME NEW r \in Runs, Receive(r) PROVE CommandType' /\ InHand'
  <2>1. PICK c \in Commands : command' = [command EXCEPT ![r] = [n |-> sent + 1, c |-> c]]
    BY <1>3 DEF Receive
  <2>2. [n |-> sent + 1, c |-> c] \in [n : Nat, c : Commands]
    OBVIOUS
  <2>3. /\ r = run /\ command[r] = None /\ sent' = sent + 1 /\ events' = events + 1
        /\ UNCHANGED <<run, applied, timedOut>>
    BY <1>3 DEF Receive, Event
  <2>4. CommandType'
    BY <2>1, <2>2, <2>3
  <2>5. command'[run'] = [n |-> sent + 1, c |-> c] /\ command'[run'] # None
    BY <2>1, <2>2, <2>3, NoCommandAssumption
  <2>6. \A q \in Runs : q # run => command'[q] = command[q]
    BY <2>1, <2>3
  <2> QED BY <2>3, <2>4, <2>5, <2>6
<1>4. ASSUME NEW r \in Runs, command[r] # None, command' = [command EXCEPT ![r] = None],
             UNCHANGED <<run, sent, timedOut>>, events' \in {events, events + 1},
             applied' = command[r].n \/ (r < run /\ applied' = applied)
      PROVE  CommandType' /\ InHand'
  <2>1. command[r].n \in Nat
    BY <1>4
  <2>2. CommandType'
    BY <1>4, <2>1
  <2>3. ASSUME ~timedOut' PROVE /\ \A q \in Runs : q # run' => command'[q] = None
                                /\ command'[run'] = None => applied' = sent'
                                /\ command'[run'] # None =>
                                     command'[run'].n = sent' /\ applied' = sent' - 1
    <3>1. r = run /\ applied' = command[r].n /\ command[r].n = sent
      BY <1>0, <1>4, <2>3
    <3> QED BY <1>4, <2>3, <3>1
  <2> QED BY <2>2, <2>3
<1>5. ASSUME NEW r \in Runs, Apply(r) PROVE CommandType' /\ InHand'
  <2>1. events' \in {events, events + 1}
    BY <1>5 DEF Apply, Scan, Event
  <2> QED BY <1>4, <1>5, <2>1 DEF Apply
<1>6. ASSUME NEW r \in Runs, ApplyFails(r) \/ ApplyDelete(r) PROVE CommandType' /\ InHand'
  BY <1>4, <1>6 DEF ApplyFails, ApplyDelete, Event
<1>7. ASSUME NEW r \in Runs, Sweep(r) PROVE CommandType' /\ InHand'
  BY <1>1, <1>7 DEF Sweep, Scan, Event, handlers
<1>8. ASSUME NEW r \in Runs, QueueReply(r) \/ SendSweep(r) PROVE CommandType' /\ InHand'
  BY <1>1, <1>8 DEF QueueReply, SendSweep, Arrives, IsLost, Event, handlers, counters
<1>9. CASE QueueChange \/ runWorker \/ UNCHANGED vars
  BY <1>1, <1>9 DEF QueueChange, runWorker, vars, handlers, counters
<1>10. ASSUME NEW q, Send(q) PROVE CommandType' /\ InHand'
  BY <1>1, <1>10 DEF Send, Arrives, IsLost, Event, handlers
<1>11. CASE NextRun
  <2>1. /\ run' = run + 1 /\ timedOut' = (timedOut \/ Busy(run)) /\ events' = events + 1
        /\ UNCHANGED <<command, applied, sent>>
    BY <1>11 DEF NextRun, Event, handlers
  <2>2. run' \in Runs /\ run' # run
    BY <1>11, DeliveryAssumption DEF NextRun, Runs
  <2>3. timedOut' \in BOOLEAN
    BY <2>1, Zenon
  <2>4. ~timedOut' => ~timedOut /\ command[run] = None
    BY <2>1 DEF Busy
  <2> QED BY <2>1, <2>2, <2>3, <2>4
<1> HIDE DEF CommandType, InHand
<1> QED BY <1>2, <1>3, <1>5, <1>6, <1>7, <1>8, <1>9, <1>10, <1>11 DEF Next

(* The invariant, which every step keeps *)
LEMMA DInvInvariant == Spec => []DInv
<1>1. DInv /\ [Next]_vars => DInv'
  BY InstanceStep, RequestStep, CommandStep DEF DInv
<1> QED BY InitDInv, <1>1, PTL DEF Spec

-----------------------------------------------------------------------------
(* The theorems *)

LEMMA OutstandingClean == RequestInv => Outstanding \subseteq CleanRequests
<1> SUFFICES ASSUME RequestInv PROVE Outstanding \subseteq CleanRequests
  OBVIOUS
<1> USE DEF RequestInv
<1>1. Range(reply) \subseteq CleanRequests \cup {None} /\ Range(sweep) \subseteq CleanRequests \cup {None}
  BY DEF Range
<1>2. Range(queue) \subseteq CleanRequests
  BY ElementOfSeq, LenProperties DEF Range
<1>3. BagToSet(sending) \subseteq CleanRequests
  BY DEF BagToSet
<1> QED BY <1>1, <1>2, <1>3 DEF Outstanding

(* Whatever the instance holds, the server knows and is on its way to it   *)
(* (reports, replies, sweeps, the queue, the workers) has the values of    *)
(* secrets hashed exactly once and no last-applied annotation, in          *)
(* manifests and in patches: for any number of resources, commands, runs,  *)
(* failures and salts (sanitizeManifest, getSyncStatus).                   *)
THEOREM SecretsHashedOnce == Spec => []HashedOnce
<1>1. DInv => HashedOnce
  <2> SUFFICES ASSUME DInv, NEW i \in Items,
                      NEW e \in {held[i], server[i]}
                            \cup {q.about[i] : q \in {p \in Outstanding : i \in DOMAIN p.about}},
                      e.kind \in {"present", "child"},
                      NEW m \in {e.manifest} \cup (IF e.kind = "present" THEN {e.sync.patch} ELSE {}),
                      m # None
               PROVE  m.hashed = (IF i \in SecretItems THEN 1 ELSE 0) /\ ~m.note
    BY DEF HashedOnce
  <2>1. e \in HeldAs(i) \cup ToldAs(i)
    <3>1. held[i] \in HeldAs(i) /\ server[i] \in ToldAs(i)
      BY DEF DInv, InstanceInv, RequestInv
    <3>2. \A q \in Outstanding : i \in DOMAIN q.about => q.about[i] \in ToldAs(i)
      BY OutstandingClean DEF DInv, CleanRequests
    <3> QED BY <3>1, <3>2
  <2>2. CASE e.kind = "present"
    <3>1. e.manifest \in Sanitized(i) /\ e.sync.patch \in Sanitized(i)
      BY <2>1, <2>2 DEF HeldAs, ToldAs, NotHeld, Gone
    <3>2. m \in Sanitized(i)
      BY <2>2, <3>1
    <3> QED BY <3>2 DEF Sanitized, Times, isSecret
  <2>3. CASE e.kind = "child"
    <3>1. e.manifest \in Sanitized(i)
      BY <2>1, <2>3 DEF HeldAs, ToldAs, NotHeld, Gone
    <3>2. m \in Sanitized(i)
      BY <2>3, <3>1
    <3> QED BY <3>2 DEF Sanitized, Times, isSecret
  <2> QED BY <2>2, <2>3
<1> QED BY <1>1, DInvInvariant, PTL

(* Commands take effect in the order they were sent, however many there    *)
(* are and however many runs replace each other, unless a run was started  *)
(* before its predecessor had stopped (CommandHandler.receive,             *)
(* superviseSubscribers).                                                  *)
THEOREM AppliedInOrder == Spec => []CommandsInOrder
<1>1. CommandType /\ InHand => CommandsInOrder
  <2> SUFFICES ASSUME CommandType, InHand, ~timedOut
               PROVE  applied = sent - Cardinality({r \in Runs : command[r] # None})
    BY DEF CommandsInOrder
  <2>1. CASE command[run] = None
    <3>1. {r \in Runs : command[r] # None} = {}
      BY <2>1 DEF InHand
    <3>2. Cardinality({r \in Runs : command[r] # None}) = 0
      BY <3>1, FS_EmptySet
    <3> QED BY <2>1, <3>2 DEF InHand, CommandType
  <2>2. CASE command[run] # None
    <3>1. {r \in Runs : command[r] # None} = {run}
      BY <2>2 DEF InHand, CommandType
    <3>2. Cardinality({r \in Runs : command[r] # None}) = 1
      BY <3>1, FS_Singleton
    <3> QED BY <2>2, <3>2 DEF InHand, CommandType
  <2> QED BY <2>1, <2>2
<1> QED BY <1>1, DInvInvariant, PTL DEF DInv

(* What a step leaves covered: a request for the same resource is still on *)
(* its way, or what it said has arrived.                                   *)
LEMMA StaysCovered ==
  ASSUME NEW i \in Items, Covered(i), held'[i] = held[i],
         server[i] = Told(i) => server'[i] = Told(i),
         \A q \in Outstanding : i \in DOMAIN q.about /\ q.about[i] = Told(i) =>
           q \in Outstanding' \/ server'[i] = q.about[i]
  PROVE  Covered(i)'
BY DEF Covered, Told

(* A report that says what is held now *)
LEMMA Says ==
  ASSUME NEW i \in Items, NEW q \in Outstanding',
         i \in DOMAIN q.about, q.about[i] = toMonitoredResource(held'[i])
  PROVE  Covered(i)'
BY DEF Covered, Told

LEMMA UpdateSays ==
  ASSUME NEW f, NEW i \in DOMAIN f, Convertible(f[i])
  PROVE  /\ i \in DOMAIN ToUpdateMonitoredResourceRequest(f).about
         /\ ToUpdateMonitoredResourceRequest(f).about[i] = toMonitoredResource(f[i])
BY DEF ToUpdateMonitoredResourceRequest

LEMMA ReplaceSays ==
  ASSUME NEW f, NEW i \in Items
  PROVE  /\ i \in DOMAIN ToReplaceMonitoredResourceRequest(f).about
         /\ ToReplaceMonitoredResourceRequest(f).about[i] = toMonitoredResource(f[i])
BY DEF ToReplaceMonitoredResourceRequest

(* Where a request may be on its way *)
OnItsWay(q) == \/ q = report
               \/ \E r \in Runs : q = reply[r] \/ q = sweep[r]
               \/ q \in Range(queue)
               \/ q \in DOMAIN sending

OutstandingIs == RequestInv => \A q : q \in Outstanding <=> q # None /\ OnItsWay(q)

LEMMA Whereabouts == OutstandingIs
<1> SUFFICES ASSUME RequestInv, NEW q PROVE q \in Outstanding <=> q # None /\ OnItsWay(q)
  BY DEF OutstandingIs
<1>1. /\ q \in Range(reply) <=> \E r \in Runs : q = reply[r]
      /\ q \in Range(sweep) <=> \E r \in Runs : q = sweep[r]
  BY DEF Range, RequestInv
<1> QED BY <1>1, Zenon DEF Outstanding, OnItsWay, BagToSet

LEMMA WhereaboutsNext == OutstandingIs'
BY Whereabouts, PTL

LEMMA ReportsWhatItHolds ==
  ASSUME DInv, DInv', [Next]_vars, NEW i \in Items, Covered(i),
         events' = events, server'[i] = server[i], ~IsMerge
  PROVE  Covered(i)'
<1>1. \A q : q \in Outstanding <=> q # None /\ OnItsWay(q)
  BY Whereabouts DEF OutstandingIs, DInv
<1>2. \A q : q \in Outstanding' <=> q # None /\ OnItsWay(q)'
  BY WhereaboutsNext DEF OutstandingIs, DInv
<1>3. events \in Nat
  BY DEF DInv, CommandType
<1>4. ~Event
  BY <1>3 DEF Event
<1>5. ASSUME held'[i] = held[i], \A q \in Outstanding : q \in Outstanding' \/ server'[i] = q.about[i]
      PROVE  Covered(i)'
  BY <1>5, StaysCovered
<1>6. ASSUME NEW j \in Items, Modify(j) \/ Delete(j) PROVE Covered(i)'
  BY <1>4, <1>6 DEF Modify, Delete, Changed
<1>7. ASSUME NEW j \in Items, TakeChange(j) PROVE Covered(i)'
  <2> DEFINE change == ChangeOf(j, pending[j].old, cached[j])
             f == [k \in {j} |-> held'[k]]
  <2>1. /\ report = None /\ report' = ChangeReport(j, change)
        /\ UNCHANGED <<reply, sweep, queue, sending>>
        /\ held' = [held EXCEPT ![j] = HeldAfter(j, change, cached[j])]
    BY <1>4, <1>7 DEF TakeChange, TargetIdle, handlers
  <2>2. \A q \in Outstanding : q \in Outstanding'
    BY <1>1, <1>2, <2>1 DEF OnItsWay
  <2>3. DOMAIN held = Items
    BY DEF DInv, InstanceInv
  <2> HIDE DEF change
  <2>4. CASE i # j
    BY <1>5, <2>1, <2>2, <2>3, <2>4
  <2>5. CASE i = j /\ change = "nothing"
    <3>1. held'[i] = held[i]
      BY <2>1, <2>3, <2>5 DEF HeldAfter
    <3> QED BY <1>5, <2>2, <3>1
  <2>6. CASE i = j /\ change = "deleted"
    <3>1. held'[i] = NotHeld
      BY <2>1, <2>3, <2>6 DEF HeldAfter
    <3>2. toMonitoredResource(held'[i]) = Gone
      BY <3>1 DEF toMonitoredResource, NotHeld
    <3>3. report' = toDeleteRequest({i})
      BY <2>1, <2>6 DEF ChangeReport
    <3>4. i \in DOMAIN report'.about /\ report'.about[i] = Gone
      BY <3>3 DEF toDeleteRequest
    <3>5. report' \in Outstanding'
      BY <1>2, <3>3, DeleteClean, NotNil DEF OnItsWay
    <3> QED BY <3>2, <3>4, <3>5, Says
  <2>7. CASE i = j /\ change \notin {"nothing", "deleted"}
    <3>1. report' = ToUpdateMonitoredResourceRequest(f)
      BY <2>1, <2>7 DEF ChangeReport
    <3>2. DOMAIN f = {i} /\ f[i] = held'[i]
      BY <2>7
    <3> HIDE DEF f
    <3>3. CASE Convertible(held'[i])
      <4>1. i \in DOMAIN report'.about /\ report'.about[i] = toMonitoredResource(held'[i])
        BY <3>1, <3>2, <3>3, UpdateSays
      <4>2. held'[i] \in HeldAs(i)
        BY HeldNext DEF DInv
      <4>3. report' \in CleanRequests
        BY <3>1, <3>2, <4>2, UpdateClean
      <4>4. report' \in Outstanding'
        BY <1>2, <4>3, NotNil DEF OnItsWay
      <4> QED BY <4>1, <4>4, Says
    <3>4. CASE ~Convertible(held'[i])
      BY <3>4 DEF Covered, Convertible
    <3> QED BY <3>3, <3>4
  <2> QED BY <2>4, <2>5, <2>6, <2>7
<1>8. ASSUME NEW r \in Runs, Receive(r) \/ ApplyFails(r) PROVE Covered(i)'
  BY <1>4, <1>8 DEF Receive, ApplyFails
<1>9. ASSUME NEW q \in CleanRequests, OnItsWay(q)', q = ToReplaceMonitoredResourceRequest(held')
      PROVE  Covered(i)'
  <2>1. q \in Outstanding'
    BY <1>2, <1>9, NotNil
  <2> QED BY <1>9, <2>1, ReplaceSays, Says
<1>10. ToReplaceMonitoredResourceRequest(held') \in CleanRequests
  BY HeldNext, ReplaceClean DEF DInv
<1>11. ASSUME NEW r \in Runs, Apply(r) PROVE Covered(i)'
  <2>1. command \in [Runs -> [n : Nat, c : Commands] \cup {None}] /\ reply \in [Runs -> CleanRequests \cup {None}]
    BY DEF DInv, CommandType, RequestInv
  <2>2. command[r] # None /\ command'[r] = None /\ command[r].c.op # "delete"
    BY <1>11, <2>1 DEF Apply
  <2>3. command[r].c.op \in {"merge", "replace", "delete"}
    BY <2>1, <2>2, DeliveryAssumption
  <2>4. command[r].c.op = "replace"
    BY <2>2, <2>3 DEF IsMerge
  <2>5. reply'[r] = ToReplaceMonitoredResourceRequest(held')
    BY <1>11, <2>1, <2>4 DEF Apply, CommandReport
  <2> QED BY <1>9, <1>10, <2>5 DEF OnItsWay
<1>12. ASSUME NEW r \in Runs, Sweep(r) PROVE Covered(i)'
  <2>1. sweep \in [Runs -> CleanRequests \cup {None}]
    BY DEF DInv, RequestInv
  <2>2. sweep'[r] = ToReplaceMonitoredResourceRequest(held')
    BY <1>12, <2>1 DEF Sweep
  <2> QED BY <1>9, <1>10, <2>2 DEF OnItsWay
<1>13. ASSUME UNCHANGED <<held, report, reply, sweep, queue, sending>> PROVE Covered(i)'
  <2>1. \A q \in Outstanding : q \in Outstanding'
    BY <1>1, <1>2, <1>13 DEF OnItsWay
  <2> QED BY <1>5, <1>13, <2>1
<1>14. ASSUME NEW r \in Runs, ApplyDelete(r) PROVE Covered(i)'
  BY <1>13, <1>14 DEF ApplyDelete
<1>15. CASE QueueChange
  <2>1. /\ UNCHANGED <<held, reply, sweep, sending>> /\ report # None
        /\ queue' = Append(queue, report)
    BY <1>15 DEF QueueChange, Queued, instance, handlers
  <2>2. Range(queue') = Range(queue) \cup {report}
    BY <2>1, QueueGrows DEF DInv, RequestInv
  <2>3. \A q \in Outstanding : q \in Outstanding'
    BY <1>1, <1>2, <2>1, <2>2 DEF OnItsWay
  <2> QED BY <1>5, <2>1, <2>3
<1>16. ASSUME NEW r \in Runs, QueueReply(r) PROVE Covered(i)'
  <2>1. /\ UNCHANGED <<held, report, sweep, sending>> /\ reply[r] # None
        /\ queue' = Append(queue, reply[r]) /\ reply' = [reply EXCEPT ![r] = None]
    BY <1>16 DEF QueueReply, Queued, instance
  <2>2. Range(queue') = Range(queue) \cup {reply[r]}
    BY <2>1, QueueGrows DEF DInv, RequestInv
  <2>3. \A s \in Runs : s # r => reply'[s] = reply[s]
    BY <2>1 DEF DInv, RequestInv
  <2>4. \A q \in Outstanding : q \in Outstanding'
    BY <1>1, <1>2, <2>1, <2>2, <2>3 DEF OnItsWay
  <2> QED BY <1>5, <2>1, <2>4
<1>17. CASE runWorker
  <2>1. UNCHANGED <<held, report, reply, sweep>> /\ queue # << >> /\ queue' = Tail(queue)
    BY <1>17 DEF runWorker, instance, handlers
  <2>2. Range(queue) \subseteq Range(queue') \cup {Head(queue)}
    BY <2>1, QueueShrinks DEF DInv, RequestInv
  <2>3. DOMAIN sending' = DOMAIN sending \cup {Head(queue)}
    BY <1>17, BagAdds DEF runWorker, DInv, RequestInv
  <2>4. \A q \in Outstanding : q \in Outstanding'
    BY <1>1, <1>2, <2>1, <2>2, <2>3 DEF OnItsWay
  <2> QED BY <1>5, <2>1, <2>4
<1>18. ASSUME NEW request, Arrives(request), held' = held,
              \A q \in Outstanding : q # request => q \in Outstanding'
       PROVE  Covered(i)'
  <2>1. ASSUME NEW q \in Outstanding, i \in DOMAIN q.about, q.about[i] = Told(i)
        PROVE  q \in Outstanding' \/ server'[i] = q.about[i]
    BY <1>18, <2>1 DEF Arrives, Received
  <2> QED BY <1>18, <2>1, StaysCovered
<1>19. ASSUME NEW request, Send(request) PROVE Covered(i)'
  <2>1. UNCHANGED <<held, report, reply, sweep, queue>> /\ Arrives(request)
    BY <1>4, <1>19 DEF Send, IsLost, instance, handlers
  <2>2. \A q \in DOMAIN sending : q # request => q \in DOMAIN sending'
    BY <1>19, BagRemoves DEF Send, DInv, RequestInv
  <2>3. \A q \in Outstanding : q # request => q \in Outstanding'
    BY <1>1, <1>2, <2>1, <2>2 DEF OnItsWay
  <2> QED BY <1>18, <2>1, <2>3
<1>20. ASSUME NEW r \in Runs, SendSweep(r) PROVE Covered(i)'
  <2>1. /\ UNCHANGED <<held, report, reply, queue, sending>> /\ Arrives(sweep[r])
        /\ sweep' = [sweep EXCEPT ![r] = None]
    BY <1>4, <1>20 DEF SendSweep, IsLost, instance, handlers
  <2>2. \A s \in Runs : s # r => sweep'[s] = sweep[s]
    BY <2>1 DEF DInv, RequestInv
  <2>3. \A q \in Outstanding : q # sweep[r] => q \in Outstanding'
    BY <1>1, <1>2, <2>1, <2>2 DEF OnItsWay
  <2> QED BY <1>18, <2>1, <2>3
<1>21. CASE NextRun \/ UNCHANGED vars
  BY <1>4, <1>13, <1>21 DEF NextRun, vars, instance, handlers
<1> QED BY <1>6, <1>7, <1>8, <1>11, <1>12, <1>14, <1>15, <1>16, <1>17, <1>19, <1>20, <1>21 DEF Next

(* Nothing the instance comes to hold is forgotten: once the server knows  *)
(* a resource as it is held, or a request that says so is on its way, this *)
(* stays so, except for failures, an older request that arrives late and   *)
(* the rescan of a merge.  It holds for any number of requests under way   *)
(* and any capacity of the queue (DefaultMonitoredResourcesUpdater.Update, *)
(* Replace, runWorker, UpdateMonitoredResources).                          *)
THEOREM EverythingIsReported == Spec => NothingForgotten
<1>1. DInv /\ DInv' /\ [Next]_vars =>
        [\A i \in Items : Covered(i) /\ ~Covered(i)' =>
           events' # events \/ server'[i] # server[i] \/ IsMerge]_vars
  BY ReportsWhatItHolds
<1> QED BY <1>1, DInvInvariant, PTL DEF Spec, NothingForgotten
==============================================================================
