-------------------------- MODULE SharedClusterProofs --------------------------
(***************************************************************************)
(* Proofs about SharedCluster, for every set of types, desired resources,  *)
(* rights and configured scopes, and any number of events: the permission  *)
(* filter stays within what discovery saw, and a scan reports a resource   *)
(* missing that existed all through it for three reasons only: it has no   *)
(* manifest, the cache did not know its type, or the filter or the cache   *)
(* changed under the scan.  Then, for every capacity of the buffer and     *)
(* every log: what is answered of it is its end.                           *)
(***************************************************************************)
EXTENDS SharedCluster, FiniteSetTheorems, TLAPS

(* What the filter and the connection are *)
FilterInv == /\ conn = "none" => refresh = None
             /\ conn \in {"none", "unsynced"} => scan = None

Verdicts == {"unread", "unknown", "candidate", "target", "skipped"}

(* A scan that is running, as long as neither the filter nor the cache     *)
(* changed since it began: what has a manifest and a type that was known   *)
(* was not skipped, what was let through by the filter still is, and what  *)
(* was to be read has been found.                                          *)
ScanInv ==
  scan # None =>
    /\ DOMAIN scan = {"known", "verdict", "present", "there", "shifted"}
    /\ scan.verdict \in [Desired -> Verdicts]
    /\ scan.shifted \in BOOLEAN
    /\ scan.there \subseteq live
    /\ scan.present # None => \A r \in Desired : scan.verdict[r] \notin {"unread", "candidate"}
    /\ ~scan.shifted =>
         /\ \A r \in Desired : scan.verdict[r] = "candidate" => r.type \in allowed
         /\ \A r \in Desired : r.manifest /\ r.type \in scan.known => scan.verdict[r] # "skipped"
         /\ scan.present # None =>
              \A r \in scan.there : scan.verdict[r] = "target" /\ r.type \in watched => r \in scan.present

SInv == TypeOK /\ FilterInv /\ ScanInv

-----------------------------------------------------------------------------
LEMMA InitSInv == Init => SInv
<1> SUFFICES ASSUME Init PROVE SInv
  OBVIOUS
<1>1. TypeOK
  BY SharedAssumption DEF Init, TypeOK
<1>2. FilterInv /\ ScanInv
  BY DEF Init, FilterInv, ScanInv
<1> QED BY <1>1, <1>2 DEF SInv

LEMMA FilterWithin == \A known, rules : buildAllowedResourcesMap(known, rules) \subseteq known
BY DEF buildAllowedResourcesMap

(* What a scan says of a resource: the unknown may be present as well *)
LEMMA StatusValue ==
  ASSUME NEW r
  PROVE  Status(r) \cup (IF scan.verdict[r] = "unknown" THEN {"unknown"} ELSE {})
           \in {{}, {"present"}, {"missing"}, {"unknown"}, {"present", "unknown"}}
<1>1. CASE scan.verdict[r] = "unknown" /\ r \in scan.present
  <2>1. Status(r) \cup {"unknown"} = {"present", "unknown"}
    BY <1>1 DEF Status
  <2> QED BY <1>1, <2>1
<1>2. CASE scan.verdict[r] = "unknown" /\ r \notin scan.present
  <2>1. Status(r) \cup {"unknown"} = {"unknown"}
    BY <1>2 DEF Status
  <2> QED BY <1>2, <2>1
<1>3. CASE scan.verdict[r] # "unknown"
  <2>1. Status(r) \cup {} \in {{"present"}, {"missing"}, {"unknown"}}
    BY <1>3 DEF Status
  <2> QED BY <1>3, <2>1
<1> QED BY <1>1, <1>2, <1>3

LEMMA TypeStep ==
  ASSUME TypeOK, FilterInv, [Next]_vars
  PROVE  TypeOK'
<1> USE DEF TypeOK, cluster, cache, discovery, filter
<1>1. ASSUME NEW type \in Types \ BuiltIn, TypeChanges(type) PROVE TypeOK'
  BY <1>1 DEF TypeChanges
<1>2. ASSUME NEW granted \in Reviews, RightsChange(granted) PROVE TypeOK'
  BY <1>2 DEF RightsChange
<1>3. \A types : Listable(types) \subseteq Types
  BY DEF Listable
<1>4. CASE CacheLists \/ CacheFollows
  BY <1>3, <1>4 DEF CacheLists, CacheFollows
<1>5. CASE newSharedCluster
  BY <1>5, FilterWithin DEF newSharedCluster, FilterInv
<1>6. CASE ConnectFails \/ sync \/ SyncFails \/ Stop
  BY <1>3, <1>6 DEF ConnectFails, sync, SyncFails, Stop
<1>7. CASE startRefreshLoop
  BY <1>7, FilterWithin DEF startRefreshLoop
<1>8. CASE Swap
  BY <1>8 DEF Swap
<1>9. ASSUME NEW r \in Desired, ResourceChanges(r) PROVE TypeOK'
  BY <1>9 DEF ResourceChanges
<1>10. ASSUME NEW r \in Desired, ReadFilter(r) \/ ReadFilterAgain(r) PROVE TypeOK'
  BY <1>10 DEF ReadFilter, ReadFilterAgain, Judge
<1>11. CASE ReadLive \/ ReadFails
  BY <1>11 DEF ReadLive, ReadFails
<1>12. CASE FinishScan
  <2>1. /\ reported' = [r \in Desired |->
             Status(r) \cup (IF scan.verdict[r] = "unknown" THEN {"unknown"} ELSE {})]
        /\ UNCHANGED <<cluster, cache, conn, discovery, filter>>
    BY <1>12 DEF FinishScan
  <2>2. \A r \in Desired :
          reported'[r] \in {{}, {"present"}, {"missing"}, {"unknown"}, {"present", "unknown"}}
    BY <2>1, StatusValue
  <2> QED BY <2>1, <2>2
<1>13. CASE ProcessLogRequest \/ ProcessEventRequest
  BY <1>13 DEF ProcessLogRequest, ProcessEventRequest, ProcessRequest
<1>14. CASE SendMsg \/ UNCHANGED vars
  BY <1>14 DEF SendMsg, vars
<1>15. ASSUME NEW answered \in {"anew", "cached", "failed"}, StartScan(answered) PROVE TypeOK'
  <2>1. namespaceMap(answered) \subseteq Types
    BY <1>15, SharedAssumption DEF StartScan, namespaceMap
  <2> QED BY <1>15, <2>1 DEF StartScan
<1> HIDE DEF TypeOK
<1> QED BY <1>1, <1>2, <1>4, <1>5, <1>6, <1>7, <1>8, <1>9, <1>10, <1>11, <1>12, <1>13, <1>14, <1>15
        DEF Next

LEMMA FilterStep ==
  ASSUME TypeOK, FilterInv, [Next]_vars
  PROVE  FilterInv'
<1> USE DEF FilterInv, cluster, filter
<1>1. ASSUME NEW type \in Types \ BuiltIn, TypeChanges(type) PROVE FilterInv'
  BY <1>1 DEF TypeChanges, StillThere
<1>2. ASSUME NEW granted \in Reviews, RightsChange(granted) PROVE FilterInv'
  BY <1>2 DEF RightsChange
<1>3. CASE CacheLists \/ CacheFollows \/ newSharedCluster \/ ConnectFails \/ sync \/ SyncFails \/ Stop
  BY <1>3 DEF CacheLists, CacheFollows, newSharedCluster, ConnectFails, sync, SyncFails, Stop, Shifts
<1>4. CASE startRefreshLoop \/ Swap
  BY <1>4 DEF startRefreshLoop, Swap, Connected, Shifts
<1>5. ASSUME NEW r \in Desired, ResourceChanges(r) PROVE FilterInv'
  BY <1>5 DEF ResourceChanges, StillThere
<1>6. ASSUME NEW r \in Desired, ReadFilter(r) \/ ReadFilterAgain(r) PROVE FilterInv'
  BY <1>6 DEF ReadFilter, ReadFilterAgain, Judge
<1>7. CASE (\E answered : StartScan(answered)) \/ ReadLive \/ ReadFails \/ FinishScan
  BY <1>7 DEF StartScan, ReadLive, ReadFails, FinishScan, JudgedAll
<1>8. CASE ProcessLogRequest \/ ProcessEventRequest
  BY <1>8 DEF ProcessLogRequest, ProcessEventRequest, ProcessRequest
<1>9. CASE SendMsg \/ UNCHANGED vars
  BY <1>9 DEF SendMsg, vars
<1> HIDE DEF FilterInv
<1> QED BY <1>1, <1>2, <1>3, <1>4, <1>5, <1>6, <1>7, <1>8, <1>9 DEF Next

-----------------------------------------------------------------------------
(* A scan is running and what it rests on changes: a resource, the filter *)
LEMMA StillThereKeeps ==
  ASSUME ScanInv, StillThere, UNCHANGED <<watched, allowed>>
  PROVE  ScanInv'
<1>1. CASE scan = None
  BY <1>1 DEF StillThere, ScanInv
<1>2. CASE scan # None
  <2>1. scan' = [scan EXCEPT !.there = scan.there \cap live']
    BY <1>2 DEF StillThere
  <2>2. DOMAIN scan = {"known", "verdict", "present", "there", "shifted"}
    BY <1>2 DEF ScanInv
  <2>3. /\ DOMAIN scan' = DOMAIN scan
        /\ scan'.known = scan.known /\ scan'.verdict = scan.verdict
        /\ scan'.present = scan.present /\ scan'.shifted = scan.shifted
        /\ scan'.there = scan.there \cap live'
    BY <2>1, <2>2
  <2> QED BY <1>2, <2>3 DEF ScanInv
<1> QED BY <1>1, <1>2

LEMMA ShiftKeeps ==
  ASSUME ScanInv, NEW changed \in BOOLEAN, Shifts(changed), live' = live,
         ~changed => UNCHANGED <<watched, allowed>>
  PROVE  ScanInv'
<1>1. CASE scan = None
  BY <1>1 DEF Shifts, ScanInv
<1>2. CASE scan # None
  <2>1. scan' = [scan EXCEPT !.shifted = (scan.shifted \/ changed)]
    BY <1>2 DEF Shifts
  <2>2. DOMAIN scan = {"known", "verdict", "present", "there", "shifted"}
    BY <1>2 DEF ScanInv
  <2>3. /\ DOMAIN scan' = DOMAIN scan
        /\ scan'.known = scan.known /\ scan'.verdict = scan.verdict
        /\ scan'.present = scan.present /\ scan'.there = scan.there
    BY <2>1, <2>2
  <2>4. scan'.shifted = (scan.shifted \/ changed)
    BY <2>1, <2>2, Zenon
  <2>5. scan'.shifted \in BOOLEAN
    BY <2>4, Zenon
  <2>6. CASE changed \/ scan.shifted
    <3>1. scan'.shifted
      BY <2>4, <2>6, Zenon
    <3> QED BY <1>2, <2>3, <2>5, <3>1 DEF ScanInv
  <2>7. CASE ~changed /\ ~scan.shifted
    BY <1>2, <2>3, <2>5, <2>7 DEF ScanInv
  <2> QED BY <2>6, <2>7
<1> QED BY <1>1, <1>2

(* A resource is judged: while the filter stays as it is, one that was let *)
(* through is not excluded later.                                          *)
LEMMA JudgeKeeps ==
  ASSUME ScanInv, scan # None, NEW r \in Desired, NEW v \in Verdicts, Judge(r, v),
         scan.verdict[r] \in {"unread", "candidate"},
         v = "candidate" => r.type \in allowed,
         v = "skipped" => scan.verdict[r] = "candidate" /\ (~r.manifest \/ r.type \notin allowed)
  PROVE  ScanInv'
<1>1. DOMAIN scan = {"known", "verdict", "present", "there", "shifted"}
      /\ scan.verdict \in [Desired -> Verdicts]
  BY DEF ScanInv
<1>2. scan' = [scan EXCEPT !.verdict = [scan.verdict EXCEPT ![r] = v]]
      /\ UNCHANGED <<cluster, cache, filter>>
  BY DEF Judge
<1>3. /\ DOMAIN scan' = DOMAIN scan
      /\ scan'.known = scan.known /\ scan'.verdict = [scan.verdict EXCEPT ![r] = v]
      /\ scan'.present = scan.present /\ scan'.shifted = scan.shifted
      /\ scan'.there = scan.there
  BY <1>1, <1>2
<1>4. /\ scan'.verdict \in [Desired -> Verdicts] /\ scan'.verdict[r] = v
      /\ \A q \in Desired : q # r => scan'.verdict[q] = scan.verdict[q]
  BY <1>1, <1>3
<1>5. scan.present = None
  BY DEF ScanInv
<1>6. UNCHANGED <<live, watched, allowed>>
  BY <1>2 DEF cluster, cache, filter
<1>7. ~scan.shifted /\ r.manifest => v # "skipped"
  BY DEF ScanInv
<1> QED BY <1>3, <1>4, <1>5, <1>6, <1>7 DEF ScanInv

LEMMA ScanStep ==
  ASSUME TypeOK, FilterInv, ScanInv, [Next]_vars
  PROVE  ScanInv'
<1>1. ASSUME NEW type \in Types \ BuiltIn, TypeChanges(type) PROVE ScanInv'
  BY <1>1, StillThereKeeps DEF TypeChanges, cache, filter
<1>2. ASSUME NEW r \in Desired, ResourceChanges(r) PROVE ScanInv'
  BY <1>2, StillThereKeeps DEF ResourceChanges, cache, filter
<1>3. ASSUME UNCHANGED <<scan, live, watched, allowed>> PROVE ScanInv'
  BY <1>3 DEF ScanInv
<1>4. ASSUME NEW granted \in Reviews, RightsChange(granted) PROVE ScanInv'
  BY <1>3, <1>4 DEF RightsChange, cache, filter
<1>5. CASE CacheFollows \/ Stop
  BY <1>5, ShiftKeeps DEF CacheFollows, Stop, cluster
<1>6. CASE newSharedCluster \/ sync
  BY <1>6 DEF newSharedCluster, sync, FilterInv, ScanInv
<1>7. CASE CacheLists \/ ConnectFails \/ SyncFails \/ startRefreshLoop
  BY <1>3, <1>7 DEF CacheLists, ConnectFails, SyncFails, startRefreshLoop, cluster, cache, filter
<1>8. CASE Swap
  <2>1. (allowed' # allowed) \in BOOLEAN
    OBVIOUS
  <2>2. Shifts(allowed' # allowed) /\ live' = live /\ watched' = watched
    BY <1>8 DEF Swap, cluster, cache
  <2> QED BY <2>1, <2>2, ShiftKeeps
<1>9. ASSUME NEW r \in Desired, ReadFilter(r) PROVE ScanInv'
  <2>1. scan # None /\ scan.verdict[r] = "unread"
    BY <1>9 DEF ReadFilter, Pending
  <2>2. PICK v : v = IF IsExcludedResource(r.type) THEN "unknown" ELSE "candidate"
    OBVIOUS
  <2>3. Judge(r, v)
    BY <1>9, <2>2 DEF ReadFilter
  <2>4. v \in Verdicts /\ v # "skipped" /\ (v = "candidate" => r.type \in allowed)
    BY <2>2 DEF Verdicts, IsExcludedResource
  <2> QED BY <2>1, <2>3, <2>4, JudgeKeeps
<1>10. ASSUME NEW r \in Desired, ReadFilterAgain(r) PROVE ScanInv'
  <2>1. scan # None /\ scan.verdict[r] = "candidate"
    BY <1>10 DEF ReadFilterAgain, Pending
  <2>2. PICK v : v = IF ~r.manifest \/ IsExcludedResource(r.type) THEN "skipped" ELSE "target"
    OBVIOUS
  <2>3. Judge(r, v)
    BY <1>10, <2>2 DEF ReadFilterAgain
  <2>4. v \in Verdicts /\ v # "candidate" /\ (v = "skipped" => ~r.manifest \/ r.type \notin allowed)
    BY <2>2 DEF Verdicts, IsExcludedResource
  <2> QED BY <2>1, <2>3, <2>4, JudgeKeeps
<1>11. ASSUME NEW answered, StartScan(answered) PROVE ScanInv'
  <2> DEFINE judged(r) == Verdict(r, answered # "failed")
  <2>1. scan' = [known |-> listed, verdict |-> [r \in Desired |-> judged(r)],
                 present |-> None, there |-> live, shifted |-> FALSE]
    BY <1>11 DEF StartScan
  <2>2. live' = live /\ live \subseteq Desired
    BY <1>11 DEF StartScan, cluster, TypeOK
  <2>3. \A r \in Desired : judged(r) \in {"skipped", "unknown", "unread"}
    BY DEF Verdict
  <2>4. \A r \in Desired : r.type \in listed => judged(r) # "skipped"
    BY DEF Verdict
  <2> HIDE DEF judged
  <2> QED BY <2>1, <2>2, <2>3, <2>4 DEF ScanInv, Verdicts
<1>12. CASE ReadLive
  <2>1. PICK extra : scan' = [scan EXCEPT !.present = (Held \cap Pending("target")) \cup extra]
    BY <1>12 DEF ReadLive
  <2>2. /\ scan # None /\ Pending("unread") \cup Pending("candidate") = {}
        /\ UNCHANGED <<live, watched, allowed>>
    BY <1>12 DEF ReadLive, JudgedAll, cluster, cache, filter
  <2>3. DOMAIN scan = {"known", "verdict", "present", "there", "shifted"} /\ scan.there \subseteq live
    BY <2>2 DEF ScanInv
  <2>4. /\ DOMAIN scan' = DOMAIN scan
        /\ scan'.known = scan.known /\ scan'.verdict = scan.verdict
        /\ scan'.shifted = scan.shifted /\ scan'.there = scan.there
        /\ Held \cap Pending("target") \subseteq scan'.present
    BY <2>1, <2>3
  <2>5. \A r \in Desired : scan.verdict[r] \notin {"unread", "candidate"}
    BY <2>2 DEF Pending
  <2>6. \A r \in scan.there : scan.verdict[r] = "target" /\ r.type \in watched => r \in scan'.present
    BY <2>3, <2>4 DEF Held, Pending, TypeOK
  <2> QED BY <2>2, <2>4, <2>5, <2>6 DEF ScanInv
<1>13. CASE FinishScan \/ ReadFails
  BY <1>13 DEF FinishScan, ReadFails, ScanInv
<1>14. CASE ProcessLogRequest \/ ProcessEventRequest
  BY <1>3, <1>14 DEF ProcessLogRequest, ProcessEventRequest, ProcessRequest, cluster, cache, filter
<1>15. CASE SendMsg \/ UNCHANGED vars
  BY <1>3, <1>15 DEF SendMsg, vars, cluster, cache, filter
<1> QED BY <1>1, <1>2, <1>4, <1>5, <1>6, <1>7, <1>8, <1>9, <1>10, <1>11, <1>12, <1>13, <1>14, <1>15
        DEF Next

(* What is said of a resource when a scan ends *)
LEMMA MistakeStep ==
  ASSUME TypeOK, ScanInv, FinishScan, NEW r \in scan.there, "missing" \in reported'[r],
         r.manifest, r.type \in scan.known, ~scan.shifted
  PROVE  FALSE
<1>1. scan # None /\ scan.present # None /\ r \in Desired
  BY DEF FinishScan, ScanInv, TypeOK
<1>2. "missing" \in Status(r)
  BY <1>1 DEF FinishScan
<1>3. r \notin scan.present /\ scan.verdict[r] # "unknown" /\ r.type \in watched
  BY <1>2 DEF Status
<1>4. scan.verdict[r] = "target"
  BY <1>1, <1>3 DEF ScanInv, Verdicts
<1> QED BY <1>1, <1>3, <1>4 DEF ScanInv

LEMMA SInvInvariant == Spec => []SInv
<1>1. SInv /\ [Next]_vars => SInv'
  BY TypeStep, FilterStep, ScanStep DEF SInv
<1> QED BY InitSInv, <1>1, PTL DEF Spec

-----------------------------------------------------------------------------
(* The theorems *)

(* What the filter lets through, and the set its refresh loop is about to  *)
(* swap in, were seen by discovery; a scan says of a resource that it is   *)
(* present, missing or unknown, and two of these only of one that is       *)
(* present but was out of scope or excluded (newCache, startRefreshLoop,   *)
(* getMonitoredResources).                                                 *)
THEOREM SharedTypeCorrect == Spec => []TypeOK
BY SInvInvariant, PTL DEF SInv

(* A scan reports a resource missing that existed from its start to its    *)
(* end only if it came without a manifest, if the cache did not know of    *)
(* its type when the scan began, or if the filter or the set of watched    *)
(* types changed in between: for every set of types, desired resources,    *)
(* rights and scopes, and any number of events (getMonitoredResources).    *)
THEOREM ExistingNotMissing == Spec => NoFalseMissing
<1>1. SInv /\ [Next]_vars =>
        [FinishScan => \A r \in scan.there : "missing" \in reported'[r] =>
           ~r.manifest \/ r.type \notin scan.known \/ scan.shifted]_vars
  BY MistakeStep DEF SInv
<1> QED BY SInvInvariant, <1>1, PTL DEF Spec, NoFalseMissing
-----------------------------------------------------------------------------
(* Induction.  The rules of the library take the predicate as a parameter; *)
(* these take the set of the numbers it holds for.                         *)
LEMMA LeastNumber ==
  ASSUME NEW T \in SUBSET Nat, T # {}
  PROVE  \E m \in T : \A n \in T : ~(n < m)
<1> DEFINE R == OpToRel(<, Nat)
<1>1. PICK m \in T : \A n \in T : ~(<<n, m>> \in R)
  BY NatLessThanWellFounded, WFMin, Zenon
<1>2. \A n \in T : n < m => <<n, m>> \in R
  BY DEF OpToRel
<1> QED BY <1>1, <1>2

LEMMA Counting ==
  ASSUME NEW G, 0 \in G, NEW N \in Nat, \A n \in 1..N : n - 1 \in G => n \in G
  PROVE  \A n \in 0..N : n \in G
<1> SUFFICES ASSUME NEW x \in 0..N, x \notin G PROVE FALSE
  OBVIOUS
<1> DEFINE T == {n \in 0..N : n \notin G}
<1>1. T \in SUBSET Nat /\ T # {}
  OBVIOUS
<1>2. PICK m \in T : \A n \in T : ~(n < m)
  BY <1>1, LeastNumber, Zenon
<1>3. m \in 1..N /\ m - 1 \in 0..N /\ m - 1 < m
  BY <1>2
<1>4. m - 1 \in G
  BY <1>2, <1>3
<1> QED BY <1>3, <1>4

(* A function that is defined by recursion on the numbers up to N exists:  *)
(* F[n][x] is the value at n if x is the value at n - 1.                   *)
IsRecursive(g, X, F, c, N) ==
  g \in [0..N -> X] /\ g[0] = c /\ \A n \in 1..N : g[n] = F[n][g[n - 1]]

LEMMA Recursion ==
  ASSUME NEW X, NEW c \in X, NEW N \in Nat, NEW F \in [Nat -> [X -> X]]
  PROVE  \E g : IsRecursive(g, X, F, c, N)
<1> DEFINE Is(g, m) == IsRecursive(g, X, F, c, m)
           G == {m \in Nat : \E g : Is(g, m)}
<1>1. 0 \in G
  <2>1. Is([i \in 0..0 |-> c], 0)
    BY DEF IsRecursive
  <2> QED BY <2>1
<1>2. ASSUME NEW m \in 1..N, m - 1 \in G PROVE m \in G
  <2>1. PICK g : Is(g, m - 1)
    BY <1>2
  <2> DEFINE h == [i \in 0..m |-> IF i = m THEN F[m][g[m - 1]] ELSE g[i]]
  <2>2. h \in [0..m -> X]
    BY <2>1 DEF IsRecursive
  <2>3. h[0] = c /\ \A n \in 1..m : h[n] = F[n][h[n - 1]]
    BY <2>1 DEF IsRecursive
  <2>4. Is(h, m)
    BY <2>2, <2>3 DEF IsRecursive
  <2> HIDE DEF h, Is
  <2> QED BY <2>4
<1> HIDE DEF G
<1>3. \A m \in 1..N : m - 1 \in G => m \in G
  BY <1>2
<1>4. \A m \in 0..N : m \in G
  BY <1>1, <1>3, Counting, Zenon
<1> QED BY <1>4 DEF G

-----------------------------------------------------------------------------
(* Cutting bytes into lines (parseLogs) *)
Cell == {"T", "_", "x", "n", "0"}

SeveralLines == Seq(Seq(Cell)) \ {<<>>}

AddByte(b, rest) == IF b = "n" THEN << <<>> >> \o rest ELSE <<<<b>> \o rest[1]>> \o Tail(rest)

LEMMA AddByteType ==
  ASSUME NEW b \in Cell, NEW rest \in SeveralLines
  PROVE  AddByte(b, rest) \in SeveralLines
<1>1. rest[1] \in Seq(Cell) /\ Tail(rest) \in Seq(Seq(Cell)) /\ <<>> \in Seq(Cell)
  BY DEF SeveralLines
<1>2. <<b>> \o rest[1] \in Seq(Cell)
  BY <1>1
<1>3. CASE b = "n"
  <2>1. << <<>> >> \o rest \in Seq(Seq(Cell)) /\ Len(<< <<>> >> \o rest) > 0
    BY DEF SeveralLines
  <2> QED BY <1>3, <2>1 DEF AddByte, SeveralLines
<1>4. CASE b # "n"
  <2> DEFINE l == <<b>> \o rest[1]
  <2> HIDE DEF l
  <2>1. <<l>> \o Tail(rest) \in Seq(Seq(Cell)) /\ Len(<<l>> \o Tail(rest)) > 0
    BY <1>1, <1>2 DEF l
  <2> QED BY <1>4, <2>1 DEF AddByte, SeveralLines, l
<1> QED BY <1>3, <1>4

IsSplit(split, bytes) ==
  /\ split \in [0..Len(bytes) -> SeveralLines]
  /\ split[0] = << <<>> >>
  /\ \A i \in 1..Len(bytes) : split[i] = AddByte(bytes[Len(bytes) + 1 - i], split[i - 1])

LEMMA LinesIsSplit ==
  ASSUME NEW bytes \in Seq(Cell)
  PROVE  \E split : IsSplit(split, bytes) /\ Lines(bytes) = split[Len(bytes)]
<1> DEFINE N == Len(bytes)
           X == SeveralLines
           at(i) == bytes[Len(bytes) + 1 - i]
           F == [i \in Nat |-> [x \in X |-> IF i \in 1..N THEN AddByte(at(i), x) ELSE x]]
           Is(g) == g = [i \in 0..N |-> IF i = 0 THEN << <<>> >> ELSE AddByte(at(i), g[i - 1])]
           split == CHOOSE g : Is(g)
<1>1. Lines(bytes) = split[N]
  BY DEF Lines, AddByte
<1>2. N \in Nat /\ \A i \in 1..N : at(i) \in Cell
  OBVIOUS
<1>3. F \in [Nat -> [X -> X]]
  BY <1>2, AddByteType
<1>4. << <<>> >> \in X
  BY DEF SeveralLines
<1> HIDE DEF F, X, at, N
<1>5. PICK g : IsRecursive(g, X, F, << <<>> >>, N)
  BY <1>2, <1>3, <1>4, Recursion
<1>6. \A i \in 1..N : g[i] = AddByte(at(i), g[i - 1])
  <2> SUFFICES ASSUME NEW i \in 1..N PROVE g[i] = AddByte(at(i), g[i - 1])
    OBVIOUS
  <2>1. i \in Nat /\ i - 1 \in 0..N
    BY <1>2
  <2>2. g[i - 1] \in X /\ g[i] = F[i][g[i - 1]]
    BY <1>5, <2>1 DEF IsRecursive
  <2> QED BY <2>1, <2>2 DEF F
<1>7. Is(g)
  <2>1. g \in [0..N -> X] /\ g[0] = << <<>> >>
    BY <1>5 DEF IsRecursive
  <2>2. \A i \in 0..N : i = 0 \/ i \in 1..N
    BY <1>2
  <2> QED BY <1>6, <2>1, <2>2
<1>8. Is(split)
  BY <1>7, Zenon
<1>9. split \in [0..N -> X] /\ split[0] = << <<>> >>
       /\ \A i \in 1..N : split[i] = AddByte(at(i), split[i - 1])
  <2> HIDE DEF split
  <2>1. 0 \in 0..N /\ \A i \in 1..N : i \in 0..N /\ i # 0 /\ i - 1 \in 0..N
    BY <1>2
  <2>2. split[0] = << <<>> >> /\ \A i \in 1..N : split[i] = AddByte(at(i), split[i - 1])
    BY <1>8, <2>1
  <2> DEFINE G == {i \in 0..N : split[i] \in X}
  <2>3. 0 \in G
    BY <1>4, <2>1, <2>2
  <2>4. \A i \in 1..N : i - 1 \in G => i \in G
    BY <1>2, <2>1, <2>2, AddByteType DEF X
  <2> HIDE DEF G
  <2>5. \A i \in 0..N : i \in G
    BY <1>2, <2>3, <2>4, Counting, Zenon
  <2>6. \A i \in 0..N : split[i] \in X
    BY <2>5 DEF G
  <2> QED BY <1>8, <2>2, <2>6
<1>10. IsSplit(split, bytes)
  BY <1>9 DEF IsSplit, N, X, at
<1> HIDE DEF split
<1> QED BY <1>1, <1>10 DEF N

LEMMA NoBytes == Lines(<<>>) = << <<>> >>
<1>1. <<>> \in Seq(Cell) /\ Len(<<>>) = 0
  OBVIOUS
<1>2. PICK split : IsSplit(split, <<>>) /\ Lines(<<>>) = split[Len(<<>>)]
  BY <1>1, LinesIsSplit, Zenon
<1> QED BY <1>1, <1>2, Zenon DEF IsSplit

LEMMA OneMoreByte ==
  ASSUME NEW b \in Cell, NEW bytes \in Seq(Cell)
  PROVE  Lines(<<b>> \o bytes) = AddByte(b, Lines(bytes)) /\ Lines(bytes) \in SeveralLines
<1> DEFINE more == <<b>> \o bytes
           N == Len(bytes)
<1>1. PICK s : IsSplit(s, bytes) /\ Lines(bytes) = s[N]
  BY LinesIsSplit
<1>2. /\ more \in Seq(Cell) /\ Len(more) = N + 1 /\ more[1] = b /\ N \in Nat
      /\ \A i \in 1..N : more[N + 2 - i] = bytes[N + 1 - i]
  OBVIOUS
<1> HIDE DEF more
<1>3. PICK t : IsSplit(t, more) /\ Lines(more) = t[Len(more)]
  BY <1>2, LinesIsSplit
<1> DEFINE G == {i \in 0..N : s[i] = t[i]}
<1>4. 0 \in G
  <2>1. s[0] = t[0]
    BY <1>1, <1>3, Zenon DEF IsSplit
  <2> QED BY <1>2, <2>1
<1>5. ASSUME NEW i \in 1..N, i - 1 \in G PROVE i \in G
  <2>1. i \in 1..N + 1 /\ N + 1 + 1 - i = N + 2 - i
    BY <1>2
  <2>2. t[i] = AddByte(more[N + 2 - i], t[i - 1])
    BY <1>2, <1>3, <2>1 DEF IsSplit
  <2>3. s[i] = AddByte(bytes[N + 1 - i], s[i - 1])
    BY <1>1 DEF IsSplit
  <2>4. s[i - 1] = t[i - 1] /\ i \in 0..N
    BY <1>2, <1>5
  <2>5. more[N + 2 - i] = bytes[N + 1 - i]
    BY <1>2
  <2> QED BY <2>2, <2>3, <2>4, <2>5
<1> HIDE DEF G
<1>6. \A i \in 0..N : i \in G
  BY <1>2, <1>4, <1>5, Counting
<1>7. s[N] = t[N]
  BY <1>2, <1>6 DEF G
<1>8. N + 1 \in 1..N + 1 /\ N + 1 - 1 = N /\ N + 1 + 1 - (N + 1) = 1
  BY <1>2
<1>9. t[N + 1] = AddByte(more[1], t[N])
  BY <1>2, <1>3, <1>8 DEF IsSplit
<1>10. s[N] \in SeveralLines
  BY <1>1, <1>2 DEF IsSplit
<1> QED BY <1>1, <1>2, <1>3, <1>7, <1>9, <1>10 DEF more

-----------------------------------------------------------------------------
(* Keeping the lines that are well-formed (parseLogs, splitLogLine) *)
AddLine(x, rest) == (IF WellFormed(x) THEN <<x>> ELSE <<>>) \o rest

LEMMA AddLineType ==
  ASSUME NEW S, NEW x \in S, NEW rest \in Seq(S)
  PROVE  AddLine(x, rest) \in Seq(S)
BY DEF AddLine

IsSelection(those, lines, S) ==
  /\ those \in [0..Len(lines) -> Seq(S)]
  /\ those[0] = <<>>
  /\ \A i \in 1..Len(lines) : those[i] = AddLine(lines[Len(lines) + 1 - i], those[i - 1])

LEMMA SelectedIsSelection ==
  ASSUME NEW S, NEW lines \in Seq(S)
  PROVE  \E those : IsSelection(those, lines, S) /\ Selected(lines, WellFormed) = those[Len(lines)]
<1> DEFINE N == Len(lines)
           X == Seq(S)
           at(i) == lines[Len(lines) + 1 - i]
           F == [i \in Nat |-> [x \in X |-> IF i \in 1..N THEN AddLine(at(i), x) ELSE x]]
           Is(g) == g = [i \in 0..N |-> IF i = 0 THEN <<>> ELSE AddLine(at(i), g[i - 1])]
           those == CHOOSE g : Is(g)
<1>1. Selected(lines, WellFormed) = those[N]
  BY DEF Selected, AddLine
<1>2. N \in Nat /\ \A i \in 1..N : at(i) \in S
  OBVIOUS
<1>3. F \in [Nat -> [X -> X]]
  BY <1>2, AddLineType
<1>4. <<>> \in X
  OBVIOUS
<1> HIDE DEF F, X, at, N
<1>5. PICK g : IsRecursive(g, X, F, <<>>, N)
  BY <1>2, <1>3, <1>4, Recursion
<1>6. \A i \in 1..N : g[i] = AddLine(at(i), g[i - 1])
  <2> SUFFICES ASSUME NEW i \in 1..N PROVE g[i] = AddLine(at(i), g[i - 1])
    OBVIOUS
  <2>1. i \in Nat /\ i - 1 \in 0..N
    BY <1>2
  <2>2. g[i - 1] \in X /\ g[i] = F[i][g[i - 1]]
    BY <1>5, <2>1 DEF IsRecursive
  <2> QED BY <2>1, <2>2 DEF F
<1>7. Is(g)
  <2>1. g \in [0..N -> X] /\ g[0] = <<>>
    BY <1>5 DEF IsRecursive
  <2>2. \A i \in 0..N : i = 0 \/ i \in 1..N
    BY <1>2
  <2> QED BY <1>6, <2>1, <2>2
<1>8. Is(those)
  BY <1>7, Zenon
<1>9. those \in [0..N -> X] /\ those[0] = <<>>
       /\ \A i \in 1..N : those[i] = AddLine(at(i), those[i - 1])
  <2> HIDE DEF those
  <2>1. 0 \in 0..N /\ \A i \in 1..N : i \in 0..N /\ i # 0 /\ i - 1 \in 0..N
    BY <1>2
  <2>2. those[0] = <<>> /\ \A i \in 1..N : those[i] = AddLine(at(i), those[i - 1])
    BY <1>8, <2>1
  <2> DEFINE G == {i \in 0..N : those[i] \in X}
  <2>3. 0 \in G
    BY <1>4, <2>1, <2>2
  <2>4. \A i \in 1..N : i - 1 \in G => i \in G
    BY <1>2, <2>1, <2>2, AddLineType DEF X
  <2> HIDE DEF G
  <2>5. \A i \in 0..N : i \in G
    BY <1>2, <2>3, <2>4, Counting, Zenon
  <2>6. \A i \in 0..N : those[i] \in X
    BY <2>5 DEF G
  <2> QED BY <1>8, <2>2, <2>6
<1>10. IsSelection(those, lines, S)
  BY <1>9 DEF IsSelection, N, X, at
<1> HIDE DEF those
<1> QED BY <1>1, <1>10 DEF N

LEMMA NoLines == Selected(<<>>, WellFormed) = <<>>
<1>1. <<>> \in Seq({}) /\ Len(<<>>) = 0
  OBVIOUS
<1>2. PICK those : IsSelection(those, <<>>, {}) /\ Selected(<<>>, WellFormed) = those[Len(<<>>)]
  BY <1>1, SelectedIsSelection, Zenon
<1> QED BY <1>1, <1>2, Zenon DEF IsSelection

LEMMA OneMoreLine ==
  ASSUME NEW S, NEW line \in S, NEW lines \in Seq(S)
  PROVE  /\ Selected(<<line>> \o lines, WellFormed) = AddLine(line, Selected(lines, WellFormed))
         /\ Selected(lines, WellFormed) \in Seq(S)
<1> DEFINE more == <<line>> \o lines
           N == Len(lines)
<1>1. PICK s : IsSelection(s, lines, S) /\ Selected(lines, WellFormed) = s[N]
  BY SelectedIsSelection
<1>2. /\ more \in Seq(S) /\ Len(more) = N + 1 /\ more[1] = line /\ N \in Nat
      /\ \A i \in 1..N : more[N + 2 - i] = lines[N + 1 - i]
  OBVIOUS
<1> HIDE DEF more
<1>3. PICK t : IsSelection(t, more, S) /\ Selected(more, WellFormed) = t[Len(more)]
  BY <1>2, SelectedIsSelection
<1> DEFINE G == {i \in 0..N : s[i] = t[i]}
<1>4. 0 \in G
  <2>1. s[0] = t[0]
    BY <1>1, <1>3, Zenon DEF IsSelection
  <2> QED BY <1>2, <2>1
<1>5. ASSUME NEW i \in 1..N, i - 1 \in G PROVE i \in G
  <2>1. i \in 1..N + 1 /\ N + 1 + 1 - i = N + 2 - i
    BY <1>2
  <2>2. t[i] = AddLine(more[N + 2 - i], t[i - 1])
    BY <1>2, <1>3, <2>1 DEF IsSelection
  <2>3. s[i] = AddLine(lines[N + 1 - i], s[i - 1])
    BY <1>1 DEF IsSelection
  <2>4. s[i - 1] = t[i - 1] /\ i \in 0..N
    BY <1>2, <1>5
  <2>5. more[N + 2 - i] = lines[N + 1 - i]
    BY <1>2
  <2> QED BY <2>2, <2>3, <2>4, <2>5
<1> HIDE DEF G
<1>6. \A i \in 0..N : i \in G
  BY <1>2, <1>4, <1>5, Counting
<1>7. s[N] = t[N]
  BY <1>2, <1>6 DEF G
<1>8. N + 1 \in 1..N + 1 /\ N + 1 - 1 = N /\ N + 1 + 1 - (N + 1) = 1
  BY <1>2
<1>9. t[N + 1] = AddLine(more[1], t[N])
  BY <1>2, <1>3, <1>8 DEF IsSelection
<1>10. s[N] \in Seq(S)
  BY <1>1, <1>2 DEF IsSelection
<1> QED BY <1>1, <1>2, <1>3, <1>7, <1>9, <1>10 DEF more

-----------------------------------------------------------------------------
(* The text of the last lines of a log *)
LEMMA LinesOfLog ==
  ASSUME NEW log, IsLog(log)
  PROVE  /\ Len(log.lines) \in Nat /\ log.ended \in BOOLEAN
         /\ \A i \in 1..Len(log.lines) :
              /\ FromLast(log, i) \in Seq(LineByte) /\ Len(FromLast(log, i)) > 0
              /\ FromLast(log, i) \in Seq(Cell)
              /\ WellFormed(FromLast(log, i)) => Len(FromLast(log, i)) + 1 >= MinLine
              /\ EndOf(log, i) \in Seq(Cell)
<1>1. Len(log.lines) \in Nat
  BY DEF IsLog
<1>a. log.ended \in BOOLEAN
  BY Zenon DEF IsLog
<1> SUFFICES ASSUME NEW i \in 1..Len(log.lines)
             PROVE  /\ FromLast(log, i) \in Seq(LineByte) /\ Len(FromLast(log, i)) > 0
                    /\ FromLast(log, i) \in Seq(Cell)
                    /\ WellFormed(FromLast(log, i)) => Len(FromLast(log, i)) + 1 >= MinLine
                    /\ EndOf(log, i) \in Seq(Cell)
  BY <1>1, <1>a, Zenon
<1>2. Len(log.lines) + 1 - i \in DOMAIN log.lines
  BY DEF IsLog
<1>3. FromLast(log, i) \in Seq(LineByte) /\ FromLast(log, i) # <<>>
  BY <1>2 DEF IsLog, FromLast
<1>4. WellFormed(FromLast(log, i)) => Len(FromLast(log, i)) + 1 >= MinLine
  BY <1>2 DEF IsLog, FromLast
<1>b. "n" \in Cell /\ LineByte \subseteq Cell
  BY DEF Cell, LineByte
<1>5. EndOf(log, i) \in Seq(Cell)
  BY <1>b DEF EndOf
<1>6. FromLast(log, i) \in Seq(Cell)
  BY <1>3, <1>b
<1>7. Len(FromLast(log, i)) > 0
  BY <1>3
<1> QED BY <1>3, <1>4, <1>5, <1>6, <1>7

LEMMA TextGrows ==
  ASSUME NEW log, IsLog(log)
  PROVE  /\ Text(log, 0) = <<>>
         /\ \A i \in 1..Len(log.lines) :
              Text(log, i) = FromLast(log, i) \o EndOf(log, i) \o Text(log, i - 1)
         /\ \A i \in 0..Len(log.lines) : Text(log, i) \in Seq(Cell)
<1> DEFINE N == Len(log.lines)
           X == Seq(Cell)
           at(i) == FromLast(log, i) \o EndOf(log, i)
           F == [i \in Nat |-> [x \in X |-> IF i \in 1..N THEN at(i) \o x ELSE x]]
           Is(g) == g = [i \in 0..N |-> IF i = 0 THEN <<>>
                                        ELSE FromLast(log, i) \o EndOf(log, i) \o g[i - 1]]
           text == CHOOSE g : Is(g)
<1>1. \A i : Text(log, i) = text[i]
  BY DEF Text
<1>2. N \in Nat /\ \A i \in 1..N : at(i) \in Seq(Cell)
  BY LinesOfLog
<1>3. F \in [Nat -> [X -> X]]
  BY <1>2
<1>4. <<>> \in X
  OBVIOUS
<1> HIDE DEF F, X, at, N
<1>5. PICK g : IsRecursive(g, X, F, <<>>, N)
  BY <1>2, <1>3, <1>4, Recursion
<1>6. \A i \in 1..N : g[i] = at(i) \o g[i - 1]
  <2> SUFFICES ASSUME NEW i \in 1..N PROVE g[i] = at(i) \o g[i - 1]
    OBVIOUS
  <2>1. i \in Nat /\ i - 1 \in 0..N
    BY <1>2
  <2>2. g[i - 1] \in X /\ g[i] = F[i][g[i - 1]]
    BY <1>5, <2>1 DEF IsRecursive
  <2> QED BY <2>1, <2>2 DEF F
<1>7. Is(g)
  <2>1. g \in [0..N -> X] /\ g[0] = <<>>
    BY <1>5 DEF IsRecursive
  <2>2. \A i \in 0..N : i = 0 \/ i \in 1..N
    BY <1>2
  <2> QED BY <1>6, <2>1, <2>2 DEF at
<1>8. Is(text)
  BY <1>7, Zenon
<1> HIDE DEF text
<1>9. 0 \in 0..N /\ \A i \in 1..N : i \in 0..N /\ i # 0 /\ i - 1 \in 0..N
  BY <1>2
<1>10. text[0] = <<>> /\ \A i \in 1..N : text[i] = at(i) \o text[i - 1]
  BY <1>8, <1>9 DEF at
<1> DEFINE G == {i \in 0..N : text[i] \in X}
<1>11. 0 \in G
  BY <1>4, <1>9, <1>10
<1>12. ASSUME NEW i \in 1..N, i - 1 \in G PROVE i \in G
  <2>1. text[i - 1] \in Seq(Cell) /\ at(i) \in Seq(Cell)
    BY <1>2, <1>12 DEF X
  <2>2. at(i) \o text[i - 1] \in Seq(Cell)
    BY <2>1
  <2>3. text[i] \in X
    BY <1>10, <2>2 DEF X
  <2> QED BY <1>9, <2>3
<1> HIDE DEF G
<1>13. \A i \in 0..N : i \in G
  BY <1>2, <1>11, <1>12, Counting
<1>14. \A i \in 0..N : text[i] \in X
  BY <1>13 DEF G
<1> QED BY <1>1, <1>10, <1>14 DEF N, X, at

(* The text of more lines is longer. *)
LEMMA TextLonger ==
  ASSUME NEW log, IsLog(log)
  PROVE  /\ \A i \in 1..Len(log.lines) :
              Len(Text(log, i)) = Len(FromLast(log, i)) + Len(EndOf(log, i)) + Len(Text(log, i - 1))
         /\ \A i, j \in 0..Len(log.lines) : i < j => Len(Text(log, i)) < Len(Text(log, j))
<1> DEFINE N == Len(log.lines)
           size(i) == Len(Text(log, i))
<1>1. N \in Nat /\ \A i \in 0..N : Text(log, i) \in Seq(Cell)
  BY LinesOfLog, TextGrows
<1>2. ASSUME NEW i \in 1..N
      PROVE  size(i) = Len(FromLast(log, i)) + Len(EndOf(log, i)) + size(i - 1) /\ size(i) > size(i - 1)
  <2> DEFINE a == FromLast(log, i)
             b == EndOf(log, i)
             c == Text(log, i - 1)
  <2>1. a \in Seq(Cell) /\ b \in Seq(Cell) /\ Len(a) > 0
    BY LinesOfLog
  <2>2. i - 1 \in 0..N
    BY <1>1
  <2>3. c \in Seq(Cell)
    BY <1>1, <2>2
  <2>4. Text(log, i) = a \o b \o c
    BY TextGrows
  <2> HIDE DEF a, b, c
  <2>5. Len(a \o b \o c) = Len(a) + Len(b) + Len(c) /\ Len(b) \in Nat /\ Len(c) \in Nat
    BY <2>1, <2>3
  <2>6. Len(a \o b \o c) > Len(c)
    BY <2>1, <2>5
  <2> QED BY <2>4, <2>5, <2>6 DEF a, b, c
<1>3. \A i \in 0..N : size(i) \in Nat
  BY <1>1
<1> HIDE DEF size
<1> DEFINE G == {j \in 0..N : \A i \in 0..N : i < j => size(i) < size(j)}
<1>4. 0 \in G
  BY <1>1
<1>5. ASSUME NEW j \in 1..N, j - 1 \in G PROVE j \in G
  <2> SUFFICES ASSUME NEW i \in 0..N, i < j PROVE size(i) < size(j)
    BY <1>1
  <2>1. j - 1 \in 0..N /\ j \in 0..N /\ (i = j - 1 \/ i < j - 1)
    BY <1>1
  <2>2. size(i) <= size(j - 1)
    BY <1>3, <1>5, <2>1
  <2> QED BY <1>2, <1>3, <2>1, <2>2
<1> HIDE DEF G
<1>6. \A j \in 0..N : j \in G
  BY <1>1, <1>4, <1>5, Counting
<1> QED BY <1>2, <1>6 DEF G, size, N

-----------------------------------------------------------------------------
(* The lines that the end of a text is cut into *)
LastOf(s, j) == SubSeq(s, Len(s) - j + 1, Len(s))

LEMMA LastOfType ==
  ASSUME NEW S, NEW s \in Seq(S)
  PROVE  /\ LastOf(s, 0) = <<>> /\ LastOf(s, Len(s)) = s
         /\ \A j \in 0..Len(s) : LastOf(s, j) \in Seq(S) /\ Len(LastOf(s, j)) = j
         /\ \A j \in 1..Len(s) : /\ s[Len(s) + 1 - j] \in S
                                 /\ LastOf(s, j) = <<s[Len(s) + 1 - j]>> \o LastOf(s, j - 1)
<1>1. LastOf(s, 0) = <<>>
  BY DEF LastOf
<1>2. LastOf(s, Len(s)) = s
  BY DEF LastOf
<1>3. \A j \in 0..Len(s) : LastOf(s, j) \in Seq(S) /\ Len(LastOf(s, j)) = j
  BY DEF LastOf
<1>4. ASSUME NEW j \in 1..Len(s)
      PROVE  /\ s[Len(s) + 1 - j] \in S
             /\ LastOf(s, j) = <<s[Len(s) + 1 - j]>> \o LastOf(s, j - 1)
  BY DEF LastOf
<1> QED BY <1>1, <1>2, <1>3, <1>4

(* A line, or the end of one, in front of text that begins with the end of *)
(* a line                                                                  *)
Unbroken == Cell \ {"n"}

LEMMA LineInFront ==
  ASSUME NEW line \in Seq(Unbroken), NEW bytes \in Seq(Cell), NEW rest \in Seq(Seq(Cell)),
         Lines(bytes) = << <<>> >> \o rest
  PROVE  \A j \in 0..Len(line) : Lines(LastOf(line, j) \o bytes) = <<LastOf(line, j)>> \o rest
<1> DEFINE end(j) == LastOf(line, j)
           G == {j \in 0..Len(line) : Lines(end(j) \o bytes) = <<end(j)>> \o rest}
<1>1. Unbroken \subseteq Cell /\ "n" \notin Unbroken
  BY DEF Unbroken
<1>2. 0 \in G
  <2>1. end(0) = <<>>
    BY LastOfType
  <2>2. <<>> \o bytes = bytes /\ 0 \in 0..Len(line)
    OBVIOUS
  <2> HIDE DEF end
  <2> QED BY <2>1, <2>2
<1>3. ASSUME NEW j \in 1..Len(line), j - 1 \in G PROVE j \in G
  <2> DEFINE b == line[Len(line) + 1 - j]
             old == end(j - 1)
  <2>1. b \in Unbroken /\ end(j) = <<b>> \o old
    BY LastOfType
  <2>2. old \in Seq(Unbroken)
    BY LastOfType
  <2>a. old \in Seq(Cell)
    BY <1>1, <2>2
  <2>b. Lines(old \o bytes) = <<old>> \o rest
    BY <1>3
  <2> HIDE DEF b, old, end
  <2>3. (<<b>> \o old) \o bytes = <<b>> \o (old \o bytes) /\ old \o bytes \in Seq(Cell)
    BY <1>1, <2>1, <2>a
  <2>4. Lines(<<b>> \o (old \o bytes)) = AddByte(b, <<old>> \o rest)
    BY <1>1, <2>1, <2>b, <2>3, OneMoreByte
  <2>5. (<<old>> \o rest)[1] = old /\ Tail(<<old>> \o rest) = rest
    BY <2>a
  <2>6. AddByte(b, <<old>> \o rest) = <<<<b>> \o old>> \o rest
    BY <1>1, <2>1, <2>5 DEF AddByte
  <2>7. Lines(end(j) \o bytes) = <<end(j)>> \o rest
    BY <2>1, <2>3, <2>4, <2>6
  <2>8. j \in 0..Len(line)
    OBVIOUS
  <2> QED BY <2>7, <2>8
<1>a. Len(line) \in Nat
  OBVIOUS
<1> HIDE DEF G
<1>4. \A j \in 0..Len(line) : j \in G
  BY <1>2, <1>3, <1>a, Counting
<1> QED BY <1>4 DEF G

LEMMA SomeLines ==
  ASSUME NEW log, IsLog(log)
  PROVE  /\ log.lines \in Seq(Seq(Cell)) /\ Len(log.lines) \in Nat
         /\ LastOf(log.lines, 0) = <<>>
         /\ \A m \in 0..Len(log.lines) : LastOf(log.lines, m) \in Seq(Seq(Cell)) /\ Len(LastOf(log.lines, m)) = m
         /\ \A m \in 1..Len(log.lines) : /\ FromLast(log, m) \in Seq(Cell)
                                         /\ LastOf(log.lines, m) = <<FromLast(log, m)>> \o LastOf(log.lines, m - 1)
<1> DEFINE S == Seq(Cell)
<1>1. LineByte \subseteq Cell
  BY DEF LineByte, Cell
<1>2. Seq(LineByte) \subseteq S
  BY <1>1
<1>3. log.lines \in Seq(Seq(LineByte))
  BY DEF IsLog
<1>4. log.lines \in Seq(S)
  BY <1>2, <1>3
<1> HIDE DEF S
<1>5. Len(log.lines) \in Nat
  BY <1>4
<1>6. /\ LastOf(log.lines, 0) = <<>>
      /\ \A m \in 0..Len(log.lines) : LastOf(log.lines, m) \in Seq(S) /\ Len(LastOf(log.lines, m)) = m
  BY <1>4, LastOfType, Zenon
<1>7. \A m \in 1..Len(log.lines) : /\ FromLast(log, m) \in S
                                   /\ LastOf(log.lines, m) = <<FromLast(log, m)>> \o LastOf(log.lines, m - 1)
  BY <1>4, LastOfType, Zenon DEF FromLast
<1> QED BY <1>4, <1>5, <1>6, <1>7 DEF S

Ending(log) == IF log.ended THEN << <<>> >> ELSE <<>>

(* What is left of a line, its end and the lines after it *)
Part(log, m, j) == LastOf(FromLast(log, m), j) \o (EndOf(log, m) \o Text(log, m - 1))

CutPart(log, m, j) == <<LastOf(FromLast(log, m), j)>> \o (LastOf(log.lines, m - 1) \o Ending(log))

LEMMA PartType ==
  ASSUME NEW log, IsLog(log), NEW m \in 1..Len(log.lines)
  PROVE  /\ m - 1 \in 0..Len(log.lines)
         /\ EndOf(log, m) \in Seq(Cell) /\ Text(log, m - 1) \in Seq(Cell)
         /\ EndOf(log, m) \o Text(log, m - 1) \in Seq(Cell)
         /\ LastOf(log.lines, m - 1) \in Seq(Seq(Cell)) /\ Ending(log) \in Seq(Seq(Cell))
         /\ LastOf(log.lines, m - 1) \o Ending(log) \in Seq(Seq(Cell))
         /\ Text(log, m) = Part(log, m, Len(FromLast(log, m)))
<1>1. m - 1 \in 0..Len(log.lines) /\ EndOf(log, m) \in Seq(Cell)
  BY LinesOfLog
<1>2. Text(log, m - 1) \in Seq(Cell)
  BY <1>1, TextGrows
<1>3. EndOf(log, m) \o Text(log, m - 1) \in Seq(Cell)
  BY <1>1, <1>2
<1>4. LineByte \subseteq Cell
  BY DEF LineByte, Cell
<1>5. Seq(LineByte) \subseteq Seq(Cell)
  BY <1>4
<1>6. log.lines \in Seq(Seq(LineByte))
  BY DEF IsLog
<1>7. log.lines \in Seq(Seq(Cell))
  BY <1>5, <1>6
<1>8. LastOf(log.lines, m - 1) \in Seq(Seq(Cell))
  BY <1>1, <1>7, LastOfType
<1>9. <<>> \in Seq(Cell)
  OBVIOUS
<1>10. Ending(log) \in Seq(Seq(Cell))
  BY <1>9 DEF Ending
<1>11. LastOf(log.lines, m - 1) \o Ending(log) \in Seq(Seq(Cell))
  BY <1>8, <1>10
<1>12. Text(log, m) = Part(log, m, Len(FromLast(log, m)))
  <2> DEFINE a == FromLast(log, m)
             b == EndOf(log, m)
             c == Text(log, m - 1)
  <2>1. Text(log, m) = a \o b \o c /\ a \in Seq(Cell) /\ LastOf(a, Len(a)) = a
    BY TextGrows, LinesOfLog, LastOfType
  <2> HIDE DEF a, b, c
  <2>2. a \o b \o c = a \o (b \o c)
    BY <1>1, <1>2, <2>1 DEF b, c
  <2> QED BY <2>1, <2>2 DEF Part, a, b, c
<1> QED BY <1>1, <1>2, <1>3, <1>8, <1>10, <1>11, <1>12

LEMMA LinesOfPart ==
  ASSUME NEW log, IsLog(log)
  PROVE  \A m \in 1..Len(log.lines) : \A j \in 0..Len(FromLast(log, m)) :
           Lines(Part(log, m, j)) = CutPart(log, m, j)
<1> DEFINE N == Len(log.lines)
           Good(m) == \A j \in 0..Len(FromLast(log, m)) : Lines(Part(log, m, j)) = CutPart(log, m, j)
           G == {m \in 0..N : m = 0 \/ Good(m)}
<1>1. N \in Nat
  BY LinesOfLog
<1>2. 0 \in G
  BY <1>1
<1>3. ASSUME NEW m \in 1..N, m - 1 \in G PROVE m \in G
  <2> DEFINE line == FromLast(log, m)
             bytes == EndOf(log, m) \o Text(log, m - 1)
             rest == LastOf(log.lines, m - 1) \o Ending(log)
  <2>1. line \in Seq(LineByte) /\ bytes \in Seq(Cell) /\ rest \in Seq(Seq(Cell))
    BY PartType, LinesOfLog
  <2>a. log.lines \in Seq(Seq(LineByte))
    BY DEF IsLog
  <2>2. Lines(bytes) = << <<>> >> \o rest
    <3>1. CASE m = 1 /\ ~log.ended
      <4>1. EndOf(log, m) = <<>> /\ Ending(log) = <<>> /\ m - 1 = 0
        BY <3>1, <1>1 DEF EndOf, Ending
      <4>2. Text(log, m - 1) = <<>> /\ LastOf(log.lines, m - 1) = <<>>
        BY <4>1, <2>a, TextGrows, LastOfType
      <4>3. bytes = <<>> /\ rest = <<>> /\ << <<>> >> \o <<>> = << <<>> >>
        BY <4>1, <4>2
      <4> QED BY <4>3, NoBytes
    <3>2. CASE m = 1 /\ log.ended
      <4>1. EndOf(log, m) = <<"n">> /\ Ending(log) = << <<>> >> /\ m - 1 = 0
        BY <3>2, <1>1 DEF EndOf, Ending
      <4>2. Text(log, m - 1) = <<>> /\ LastOf(log.lines, m - 1) = <<>>
        BY <4>1, <2>a, TextGrows, LastOfType
      <4>3. bytes = <<"n">> \o <<>> /\ rest = << <<>> >>
        <5>1. bytes = <<"n">> \o <<>> /\ rest = <<>> \o << <<>> >>
          BY <4>1, <4>2, Zenon
        <5>2. <<>> \o << <<>> >> = << <<>> >>
          OBVIOUS
        <5> HIDE DEF bytes, rest
        <5> QED BY <5>1, <5>2, Zenon
      <4>4. Lines(<<"n">> \o <<>>) = AddByte("n", Lines(<<>>))
        <5>1. "n" \in Cell /\ <<>> \in Seq(Cell)
          BY DEF Cell
        <5> QED BY <5>1, OneMoreByte, Zenon
      <4>5. AddByte("n", << <<>> >>) = << <<>> >> \o << <<>> >>
        BY DEF AddByte
      <4> HIDE DEF bytes, rest
      <4> QED BY <4>3, <4>4, <4>5, NoBytes, Zenon
    <3>3. CASE m # 1
      <4> DEFINE text == Text(log, m - 1)
      <4>1. bytes = <<"n">> \o text /\ text \in Seq(Cell)
        BY <3>3, PartType DEF EndOf
      <4>2. m - 1 \in 1..N /\ Good(m - 1)
        BY <1>1, <1>3, <3>3
      <4>3. text = Part(log, m - 1, Len(FromLast(log, m - 1)))
        BY <4>2, PartType
      <4>4. Len(FromLast(log, m - 1)) \in 0..Len(FromLast(log, m - 1)) /\ FromLast(log, m - 1) \in Seq(Cell)
        BY <4>2, LinesOfLog
      <4>5. Lines(text) = CutPart(log, m - 1, Len(FromLast(log, m - 1)))
        BY <4>2, <4>3, <4>4
      <4>6. CutPart(log, m - 1, Len(FromLast(log, m - 1))) = rest
        <5> DEFINE a == FromLast(log, m - 1)
                   b == LastOf(log.lines, m - 2)
                   c == Ending(log)
        <5>1. LastOf(a, Len(a)) = a
          BY <4>4, LastOfType
        <5>2. m - 1 - 1 = m - 2 /\ a \in Seq(Cell) /\ b \in Seq(Seq(Cell)) /\ c \in Seq(Seq(Cell))
          BY <4>2, <4>4, PartType
        <5>3. LastOf(log.lines, m - 1) = <<a>> \o b
          <6>1. m - 1 \in 1..Len(log.lines)
            BY <4>2
          <6>2. LastOf(log.lines, m - 1) = <<FromLast(log, m - 1)>> \o LastOf(log.lines, m - 1 - 1)
            BY <6>1, SomeLines, Zenon
          <6> QED BY <5>2, <6>2
        <5> HIDE DEF a, b, c
        <5>4. <<a>> \o (b \o c) = (<<a>> \o b) \o c
          BY <5>2
        <5> QED BY <5>1, <5>2, <5>3, <5>4 DEF CutPart, a, b, c
      <4>7. Lines(<<"n">> \o text) = << <<>> >> \o Lines(text)
        BY <4>1, OneMoreByte DEF AddByte, Cell
      <4> QED BY <4>1, <4>5, <4>6, <4>7
    <3> QED BY <3>1, <3>2, <3>3
  <2> HIDE DEF line, bytes, rest
  <2>3. \A j \in 0..Len(line) : Lines(LastOf(line, j) \o bytes) = <<LastOf(line, j)>> \o rest
    <3>1. LineByte \subseteq Unbroken
      BY DEF LineByte, Unbroken, Cell
    <3>2. line \in Seq(Unbroken)
      BY <2>1, <3>1
    <3> QED BY <2>1, <2>2, <3>2, LineInFront
  <2> QED BY <1>1, <2>3 DEF Part, CutPart, line, bytes, rest
<1> HIDE DEF G
<1>4. \A m \in 0..N : m \in G
  BY <1>1, <1>2, <1>3, Counting
<1> QED BY <1>1, <1>4 DEF G

(* The end of the text of some lines begins in one of them. *)
LEMMA LastOfAt ==
  ASSUME NEW S, NEW s \in Seq(S), NEW j \in 0..Len(s), NEW x \in 1..j
  PROVE  LastOf(s, j)[x] = s[Len(s) - j + x]
BY DEF LastOf

LEMMA LastOfCat ==
  ASSUME NEW S, NEW a \in Seq(S), NEW d \in Seq(S)
  PROVE  /\ \A p \in 0..Len(d) : LastOf(a \o d, p) = LastOf(d, p)
         /\ \A p \in Len(d)..Len(a) + Len(d) : LastOf(a \o d, p) = LastOf(a, p - Len(d)) \o d
<1>1. ASSUME NEW p \in 0..Len(d) PROVE LastOf(a \o d, p) = LastOf(d, p)
  BY DEF LastOf
<1>2. ASSUME NEW p \in Len(d)..Len(a) + Len(d) PROVE LastOf(a \o d, p) = LastOf(a, p - Len(d)) \o d
  <2> DEFINE l == LastOf(a \o d, p)
             r == LastOf(a, p - Len(d)) \o d
  <2>1. a \o d \in Seq(S) /\ Len(a \o d) = Len(a) + Len(d) /\ p - Len(d) \in 0..Len(a) /\ p \in Nat
    OBVIOUS
  <2>a. p \in 0..Len(a \o d)
    BY <2>1
  <2>2. l \in Seq(S) /\ Len(l) = p
    BY <2>1, <2>a, LastOfType, Zenon
  <2>b. p - Len(d) \in 0..Len(a)
    BY <2>1
  <2>3. LastOf(a, p - Len(d)) \in Seq(S) /\ Len(LastOf(a, p - Len(d))) = p - Len(d)
    BY <2>b, LastOfType, Zenon
  <2>4. r \in Seq(S) /\ Len(r) = p
    BY <2>1, <2>3
  <2>5. ASSUME NEW x \in 1..p PROVE l[x] = r[x]
    <3>1. l[x] = (a \o d)[Len(a) + Len(d) - p + x]
      <4>1. l[x] = (a \o d)[Len(a \o d) - p + x]
        BY <2>1, <2>a, LastOfAt, Zenon
      <4> QED BY <2>1, <4>1
    <3>2. CASE x <= p - Len(d)
      <4>1. r[x] = LastOf(a, p - Len(d))[x]
        BY <2>1, <2>3, <3>2
      <4>2. LastOf(a, p - Len(d))[x] = a[Len(a) + Len(d) - p + x]
        <5>1. x \in 1..p - Len(d) /\ Len(a) - (p - Len(d)) + x = Len(a) + Len(d) - p + x
          BY <2>1, <3>2
        <5>2. LastOf(a, p - Len(d))[x] = a[Len(a) - (p - Len(d)) + x]
          BY <2>1, <5>1, LastOfAt
        <5> QED BY <5>1, <5>2
      <4>3. (a \o d)[Len(a) + Len(d) - p + x] = a[Len(a) + Len(d) - p + x]
        BY <2>1, <3>2
      <4> QED BY <3>1, <4>1, <4>2, <4>3
    <3>3. CASE x > p - Len(d)
      <4>1. r[x] = d[x - (p - Len(d))]
        BY <2>1, <2>3, <3>3
      <4>2. (a \o d)[Len(a) + Len(d) - p + x] = d[x - (p - Len(d))]
        BY <2>1, <3>3
      <4> QED BY <3>1, <4>1, <4>2
    <3>4. x <= p - Len(d) \/ x > p - Len(d)
      BY <2>1
    <3> QED BY <3>2, <3>3, <3>4
  <2> HIDE DEF l, r
  <2>6. l = r
    BY <2>2, <2>4, <2>5
  <2> QED BY <2>6 DEF l, r
<1> QED BY <1>1, <1>2

LEMMA EndIsPart ==
  ASSUME NEW log, IsLog(log)
  PROVE  \A M \in 1..Len(log.lines) : \A p \in 1..Len(Text(log, M)) :
           \E m \in 1..M : \E j \in 0..Len(FromLast(log, m)) :
             /\ LastOf(Text(log, M), p) = Part(log, m, j)
             /\ p = j + Len(EndOf(log, m)) + Len(Text(log, m - 1))
<1> DEFINE N == Len(log.lines)
           At(M, p, m, j) == /\ LastOf(Text(log, M), p) = Part(log, m, j)
                             /\ p = j + Len(EndOf(log, m)) + Len(Text(log, m - 1))
           Good(M) == \A p \in 1..Len(Text(log, M)) :
                        \E m \in 1..M : \E j \in 0..Len(FromLast(log, m)) : At(M, p, m, j)
           G == {M \in 0..N : M = 0 \/ Good(M)}
<1>1. N \in Nat
  BY LinesOfLog
<1>2. 0 \in G
  BY <1>1
<1>3. ASSUME NEW M \in 1..N, M - 1 \in G PROVE M \in G
  <2>1. SUFFICES ASSUME NEW p \in 1..Len(Text(log, M))
                 PROVE  \E m \in 1..M : \E j \in 0..Len(FromLast(log, m)) : At(M, p, m, j)
    BY <1>1
  <2> DEFINE a == FromLast(log, M)
             b == EndOf(log, M)
             c == Text(log, M - 1)
             d == b \o c
  <2>2. a \in Seq(Cell) /\ b \in Seq(Cell) /\ c \in Seq(Cell) /\ d \in Seq(Cell)
    BY LinesOfLog, PartType
  <2>a. Len(b) \in Nat /\ Len(b) <= 1
    BY DEF EndOf
  <2>3. Text(log, M) = a \o d
    <3>1. LastOf(a, Len(a)) = a
      BY <2>2, LastOfType
    <3>2. Text(log, M) = Part(log, M, Len(FromLast(log, M)))
      BY PartType
    <3> QED BY <3>1, <3>2 DEF Part
  <2>4. /\ Len(d) = Len(b) + Len(c) /\ p <= Len(a) + Len(d)
        /\ p \in Nat /\ Len(a) \in Nat /\ Len(c) \in Nat /\ Len(d) \in Nat
    BY <2>2, <2>3
  <2>5. CASE p <= Len(c)
    <3>1. M # 1
      BY <2>5, TextGrows
    <3>2. M - 1 \in 1..N /\ p \in 1..Len(c) /\ Good(M - 1)
      BY <1>1, <1>3, <2>5, <3>1
    <3>a. PICK m \in 1..M - 1 : \E j \in 0..Len(FromLast(log, m)) : At(M - 1, p, m, j)
      BY <3>2
    <3>3. PICK j \in 0..Len(FromLast(log, m)) : At(M - 1, p, m, j)
      BY <3>a
    <3>4. LastOf(a \o d, p) = LastOf(c, p)
      <4> HIDE DEF a, b, c
      <4>1. LastOf(a \o d, p) = LastOf(d, p)
        <5> HIDE DEF d
        <5>1. p \in 0..Len(d)
          BY <2>2, <2>4, <2>5
        <5> QED BY <2>2, <5>1, LastOfCat
      <4>2. LastOf(d, p) = LastOf(c, p)
        <5>1. p \in 0..Len(c)
          BY <2>4, <2>5
        <5> QED BY <2>2, <5>1, LastOfCat
      <4> QED BY <4>1, <4>2
    <3>5. At(M, p, m, j) /\ m \in 1..M
      BY <1>1, <2>3, <3>3, <3>4
    <3> HIDE DEF At
    <3> QED BY <3>5
  <2>6. CASE p > Len(c)
    <3> DEFINE j == p - Len(d)
    <3> HIDE DEF a, b, c
    <3>1. p \in Len(d)..Len(a) + Len(d) /\ j \in 0..Len(a)
      <4>1. \A la, lb, lc, ld \in Nat :
              /\ ld = lb + lc /\ lb <= 1 /\ p > lc /\ p <= la + ld
              => p \in ld..la + ld /\ p - ld \in 0..la
        BY <2>4
      <4>2. Len(a) \in Nat /\ Len(b) \in Nat /\ Len(c) \in Nat /\ Len(d) \in Nat /\ Len(b) <= 1
        BY <2>4, <2>a, Zenon DEF b
      <4>3. Len(d) = Len(b) + Len(c) /\ p <= Len(a) + Len(d)
        BY <2>4
      <4> QED BY <2>6, <4>1, <4>2, <4>3, Zenon
    <3>2. LastOf(a \o d, p) = LastOf(a, j) \o d
      <4> HIDE DEF d
      <4> QED BY <2>2, <3>1, LastOfCat
    <3>3. p = j + Len(b) + Len(c)
      BY <2>2, <2>4
    <3>4. At(M, p, M, j)
      BY <2>3, <3>2, <3>3 DEF Part, a, b, c
    <3>5. M \in 1..M /\ j \in 0..Len(FromLast(log, M))
      BY <1>1, <3>1 DEF a
    <3> HIDE DEF At, j
    <3> QED BY <3>4, <3>5
  <2> QED BY <2>4, <2>5, <2>6
<1> HIDE DEF G
<1>4. \A M \in 0..N : M \in G
  BY <1>1, <1>2, <1>3, Counting
<1> HIDE DEF Good
<1>5. \A M \in 1..N : Good(M)
  BY <1>1, <1>4 DEF G
<1> QED BY <1>5 DEF Good

-----------------------------------------------------------------------------
(* The circular buffer: what was written last is read (buffer.go) *)
Buffer == [buf : [0..LogCapacity - 1 -> Cell], start : 0..LogCapacity - 1,
           end : 0..LogCapacity - 1, full : BOOLEAN]

LEMMA BufferSize ==
  ASSUME NEW c \in Buffer
  PROVE  Cardinality(DOMAIN c.buf) = LogCapacity
<1>1. DOMAIN c.buf = 0..LogCapacity - 1
  BY DEF Buffer
<1>2. Cardinality(0..LogCapacity - 1) = LogCapacity
  BY LogAssumption, FS_Interval
<1> QED BY <1>1, <1>2

(* The position after another one, in the circle *)
LEMMA Around ==
  ASSUME NEW e \in 0..LogCapacity - 1
  PROVE  (e + 1) % LogCapacity = IF e + 1 = LogCapacity THEN 0 ELSE e + 1
BY LogAssumption

(* What the buffer holds after the first i bytes were written *)
Holds(c, bytes, i) ==
  /\ c \in Buffer
  /\ ~c.full => /\ c.start = 0 /\ c.end = i /\ i < LogCapacity
                /\ \A x \in 0..i - 1 : c.buf[x] = bytes[x + 1]
  /\ c.full => /\ c.start = c.end /\ i >= LogCapacity
               /\ \A x \in 0..LogCapacity - 1 :
                    c.buf[x] = bytes[IF x < c.end THEN i - c.end + x + 1
                                     ELSE i - LogCapacity - c.end + x + 1]

LEMMA WriteByteHolds ==
  ASSUME NEW bytes \in Seq(Cell), NEW i \in 1..Len(bytes), NEW c, Holds(c, bytes, i - 1)
  PROVE  Holds(WriteByte(c, bytes[i]), bytes, i)
<1> DEFINE C == LogCapacity
           d == WriteByte(c, bytes[i])
           e == IF c.end + 1 = C THEN 0 ELSE c.end + 1
           buf == [c.buf EXCEPT ![c.end] = bytes[i]]
<1>1. /\ c \in Buffer /\ C \in Nat \ {0} /\ bytes[i] \in Cell
      /\ c.end \in 0..C - 1 /\ c.start \in 0..C - 1 /\ c.buf \in [0..C - 1 -> Cell]
  BY LogAssumption DEF Holds, Buffer
<1>2. c.full \in BOOLEAN
  BY <1>1, Zenon DEF Buffer
<1>3. /\ (c.end + 1) % Cardinality(DOMAIN c.buf) = e
      /\ c.start = c.end => (c.start + 1) % Cardinality(DOMAIN c.buf) = e
      /\ e \in 0..C - 1
  <2>1. Cardinality(DOMAIN c.buf) = C
    BY <1>1, BufferSize
  <2>2. (c.end + 1) % C = e
    BY <1>1, Around
  <2>3. e \in 0..C - 1
    BY <1>1
  <2> QED BY <2>1, <2>2, <2>3
<1>4. /\ buf \in [0..C - 1 -> Cell] /\ buf[c.end] = bytes[i]
      /\ \A x \in 0..C - 1 : x # c.end => buf[x] = c.buf[x]
  BY <1>1
<1> HIDE DEF e, buf
<1>5. CASE c.full
  <2>1. c.start = c.end
    BY <1>5 DEF Holds
  <2>2. d = [buf |-> buf, start |-> e, end |-> e, full |-> TRUE]
    BY <1>3, <1>5, <2>1 DEF WriteByte, buf
  <2> HIDE DEF d
  <2>3. d \in Buffer
    BY <1>3, <1>4, <2>2 DEF Buffer
  <2>4. d.buf = buf /\ d.start = e /\ d.end = e /\ d.full
    BY <2>2
  <2>5. i >= C /\ i \in Nat
    BY <1>1, <1>5 DEF Holds
  <2>6. ASSUME NEW x \in 0..C - 1
        PROVE  buf[x] = bytes[IF x < e THEN i - e + x + 1 ELSE i - C - e + x + 1]
    <3>1. CASE x = c.end
      <4>1. (IF x < e THEN i - e + x + 1 ELSE i - C - e + x + 1) = i
        BY <1>1, <2>5, <3>1 DEF e
      <4> QED BY <1>4, <3>1, <4>1
    <3>2. CASE x # c.end
      <4>1. buf[x] = bytes[IF x < c.end THEN i - 1 - c.end + x + 1 ELSE i - 1 - C - c.end + x + 1]
        BY <1>4, <1>5, <3>2 DEF Holds
      <4>2. (IF x < c.end THEN i - 1 - c.end + x + 1 ELSE i - 1 - C - c.end + x + 1)
              = (IF x < e THEN i - e + x + 1 ELSE i - C - e + x + 1)
        <5>1. CASE x < c.end
          BY <1>1, <2>5, <5>1 DEF e
        <5>2. CASE x > c.end
          <6>1. e = c.end + 1 /\ ~(x < e)
            BY <1>1, <5>2 DEF e
          <6> QED BY <1>1, <2>5, <5>2, <6>1
        <5> QED BY <1>1, <3>2, <5>1, <5>2
      <4> QED BY <4>1, <4>2
    <3> QED BY <3>1, <3>2
  <2> QED BY <2>3, <2>4, <2>5, <2>6 DEF Holds, d
<1>6. CASE ~c.full
  <2>1. /\ c.start = 0 /\ c.end = i - 1 /\ i - 1 < C
        /\ \A x \in 0..i - 2 : c.buf[x] = bytes[x + 1]
    BY <1>6 DEF Holds
  <2>2. d = [buf |-> buf, start |-> 0, end |-> e, full |-> e = 0]
    BY <1>3, <1>6, <2>1 DEF WriteByte, buf
  <2> HIDE DEF d
  <2>3. /\ d.buf = buf /\ d.start = 0 /\ d.end = e
        /\ DOMAIN d = {"buf", "start", "end", "full"}
    BY <2>2
  <2>4. d.full = (e = 0)
    BY <2>2, Zenon
  <2>5. d \in Buffer
    <3>1. 0 \in 0..C - 1 /\ (e = 0) \in BOOLEAN
      BY <1>1
    <3> QED BY <1>3, <1>4, <2>2, <3>1 DEF Buffer
  <2>6. ASSUME NEW x \in 0..i - 1 PROVE buf[x] = bytes[x + 1]
    <3>1. CASE x = c.end
      BY <1>1, <1>4, <2>1, <3>1
    <3>2. CASE x # c.end
      <4>1. x \in 0..i - 2 /\ x \in 0..C - 1
        BY <1>1, <2>1, <3>2
      <4> QED BY <1>4, <2>1, <3>2, <4>1
    <3> QED BY <3>1, <3>2
  <2>7. CASE e = 0
    <3>1. i = C
      BY <1>1, <2>1, <2>7 DEF e
    <3>2. ASSUME NEW x \in 0..C - 1
          PROVE  buf[x] = bytes[IF x < e THEN i - e + x + 1 ELSE i - C - e + x + 1]
      <4>1. (IF x < e THEN i - e + x + 1 ELSE i - C - e + x + 1) = x + 1 /\ x \in 0..i - 1
        BY <1>1, <2>7, <3>1
      <4> QED BY <2>6, <4>1
    <3>3. d.full
      BY <2>4, <2>7, Zenon
    <3>4. i >= C
      BY <1>1, <3>1
    <3> QED BY <2>3, <2>5, <2>7, <3>2, <3>3, <3>4 DEF Holds, d
  <2>8. CASE e # 0
    <3>1. e = i /\ i < C
      BY <1>1, <2>1, <2>8 DEF e
    <3> QED BY <2>3, <2>4, <2>5, <2>6, <2>8, <3>1 DEF Holds, d
  <2> QED BY <2>7, <2>8
<1> QED BY <1>2, <1>5, <1>6

LEMMA WriteHolds ==
  ASSUME NEW bytes \in Seq(Cell)
  PROVE  /\ Holds(Write(NewCircularBuffer(LogCapacity), bytes), bytes, Len(bytes))
         /\ Len(bytes) = 0 => Write(NewCircularBuffer(LogCapacity), bytes) = NewCircularBuffer(LogCapacity)
<1> DEFINE N == Len(bytes)
           X == Buffer
           c0 == NewCircularBuffer(LogCapacity)
           F == [i \in Nat |-> [x \in X |-> IF i \in 1..N THEN WriteByte(x, bytes[i]) ELSE x]]
           Is(g) == g = [i \in 0..N |-> IF i = 0 THEN c0 ELSE WriteByte(g[i - 1], bytes[i])]
           after == CHOOSE g : Is(g)
           G == {i \in 0..N : Holds(after[i], bytes, i)}
<1>1. Write(c0, bytes) = after[N]
  BY DEF Write
<1>2. N \in Nat /\ \A i \in 1..N : bytes[i] \in Cell
  OBVIOUS
<1>3. ASSUME NEW c \in X, NEW b \in Cell PROVE WriteByte(c, b) \in X
  <2> DEFINE C == LogCapacity
             e == (c.end + 1) % C
             s == IF c.full THEN (c.start + 1) % C ELSE c.start
             buf == [c.buf EXCEPT ![c.end] = b]
  <2>1. c.end \in 0..C - 1 /\ c.start \in 0..C - 1 /\ c.buf \in [0..C - 1 -> Cell] /\ C \in Nat \ {0}
    BY LogAssumption DEF X, Buffer
  <2>2. e \in 0..C - 1 /\ (c.start + 1) % C \in 0..C - 1 /\ buf \in [0..C - 1 -> Cell]
    BY <2>1
  <2>3. s \in 0..C - 1
    BY <2>1, <2>2
  <2>4. Cardinality(DOMAIN c.buf) = C
    BY BufferSize DEF X
  <2>5. WriteByte(c, b) = [buf |-> buf, start |-> s, end |-> e, full |-> c.full \/ e = s]
    BY <2>4, Zenon DEF WriteByte
  <2> HIDE DEF e, s, buf
  <2>6. (c.full \/ e = s) \in BOOLEAN
    BY Zenon
  <2>7. PICK f \in BOOLEAN : f = (c.full \/ e = s)
    BY <2>6, Zenon
  <2>8. WriteByte(c, b) = [buf |-> buf, start |-> s, end |-> e, full |-> f]
    BY <2>5, <2>7, Zenon
  <2> QED BY <2>2, <2>3, <2>8 DEF X, Buffer
<1>4. c0 \in X /\ c0.full = FALSE /\ c0.start = 0 /\ c0.end = 0
  <2>1. 0 \in 0..LogCapacity - 1 /\ [i \in 0..LogCapacity - 1 |-> "0"] \in [0..LogCapacity - 1 -> Cell]
    <3>1. "0" \in Cell
      BY DEF Cell
    <3> QED BY <3>1, LogAssumption
  <2>2. c0 = [buf |-> [i \in 0..LogCapacity - 1 |-> "0"], start |-> 0, end |-> 0, full |-> FALSE]
    BY DEF NewCircularBuffer
  <2> QED BY <2>1, <2>2 DEF Buffer
<1>5. F \in [Nat -> [X -> X]]
  BY <1>2, <1>3
<1> HIDE DEF F, X, N, c0
<1>6. PICK g : IsRecursive(g, X, F, c0, N)
  BY <1>2, <1>4, <1>5, Recursion
<1>7. \A i \in 1..N : g[i] = WriteByte(g[i - 1], bytes[i])
  <2> SUFFICES ASSUME NEW i \in 1..N PROVE g[i] = WriteByte(g[i - 1], bytes[i])
    OBVIOUS
  <2>1. i \in Nat /\ i - 1 \in 0..N
    BY <1>2
  <2>2. g[i - 1] \in X /\ g[i] = F[i][g[i - 1]]
    BY <1>6, <2>1 DEF IsRecursive
  <2> QED BY <2>1, <2>2 DEF F
<1>8. Is(g)
  <2>1. g \in [0..N -> X] /\ g[0] = c0
    BY <1>6 DEF IsRecursive
  <2>2. \A i \in 0..N : i = 0 \/ i \in 1..N
    BY <1>2
  <2> QED BY <1>7, <2>1, <2>2
<1>9. Is(after)
  BY <1>8, Zenon
<1> HIDE DEF after
<1>10. 0 \in 0..N /\ \A i \in 1..N : i \in 0..N /\ i # 0 /\ i - 1 \in 0..N
  BY <1>2
<1>11. after[0] = c0 /\ \A i \in 1..N : after[i] = WriteByte(after[i - 1], bytes[i])
  BY <1>9, <1>10
<1>12. 0 \in G
  <2>1. Holds(c0, bytes, 0)
    BY <1>4, LogAssumption DEF Holds, X
  <2> QED BY <1>10, <1>11, <2>1
<1>13. ASSUME NEW i \in 1..N, i - 1 \in G PROVE i \in G
  BY <1>10, <1>11, <1>13, WriteByteHolds DEF N
<1> HIDE DEF G
<1>14. \A i \in 0..N : i \in G
  BY <1>2, <1>12, <1>13, Counting
<1>15. Holds(after[N], bytes, N)
  BY <1>2, <1>14 DEF G
<1> QED BY <1>1, <1>11, <1>15 DEF N, c0

LEMMA IsSequence ==
  ASSUME NEW S, NEW n \in Nat, NEW s \in [1..n -> S]
  PROVE  s \in Seq(S) /\ Len(s) = n
OBVIOUS

LEMMA SameSequence ==
  ASSUME NEW S, NEW s \in Seq(S), NEW t \in Seq(S), Len(s) = Len(t),
         \A x \in 1..Len(s) : s[x] = t[x]
  PROVE  s = t
OBVIOUS

LEMMA SliceIs ==
  ASSUME NEW c, c.buf \in [0..LogCapacity - 1 -> Cell],
         NEW from \in 0..LogCapacity, NEW to \in from..LogCapacity
  PROVE  /\ Slice(c, from, to) \in Seq(Cell) /\ Len(Slice(c, from, to)) = to - from
         /\ \A x \in 1..to - from : Slice(c, from, to)[x] = c.buf[from + x - 1]
<1> DEFINE s == [x \in 1..to - from |-> c.buf[from + x - 1]]
<1>1. to - from \in Nat /\ \A x \in 1..to - from : from + x - 1 \in 0..LogCapacity - 1
  BY LogAssumption
<1>2. \A x \in 1..to - from : c.buf[from + x - 1] \in Cell
  BY <1>1
<1>3. s \in [1..to - from -> Cell]
  BY <1>2
<1>4. s \in Seq(Cell) /\ Len(s) = to - from
  <2> HIDE DEF s
  <2> QED BY <1>1, <1>3, IsSequence
<1>5. \A x \in 1..to - from : s[x] = c.buf[from + x - 1]
  OBVIOUS
<1> QED BY <1>4, <1>5 DEF Slice

(* What is read: the last bytes that were written, or nothing but zeros if *)
(* none were.                                                              *)
LEMMA BytesRead ==
  ASSUME NEW bytes \in Seq(Cell), Len(bytes) > 0
  PROVE  Bytes(Write(NewCircularBuffer(LogCapacity), bytes))
           = LastOf(bytes, IF Len(bytes) < LogCapacity THEN Len(bytes) ELSE LogCapacity)
<1> DEFINE C == LogCapacity
           n == Len(bytes)
           c == Write(NewCircularBuffer(LogCapacity), bytes)
<1>1. Holds(c, bytes, n)
  BY WriteHolds
<1> HIDE DEF c
<1>2. /\ n \in Nat /\ n > 0 /\ C \in Nat \ {0}
      /\ c.end \in 0..C - 1 /\ c.start \in 0..C - 1 /\ c.buf \in [0..C - 1 -> Cell]
  BY <1>1, LogAssumption DEF Holds, Buffer
<1>3. c.full \in BOOLEAN
  BY <1>1, Zenon DEF Holds, Buffer
<1>4. Cardinality(DOMAIN c.buf) = C
  BY <1>1, BufferSize DEF Holds
<1>5. CASE ~c.full
  <2>1. c.start = 0 /\ c.end = n /\ n < C /\ \A x \in 0..n - 1 : c.buf[x] = bytes[x + 1]
    BY <1>1, <1>5 DEF Holds
  <2>2. Bytes(c) = Slice(c, 0, n)
    BY <1>2, <2>1 DEF Bytes
  <2>3. Slice(c, 0, n) = [i \in 1..n |-> bytes[i]]
    BY <1>2, <2>1 DEF Slice
  <2>4. [i \in 1..n |-> bytes[i]] = bytes
    OBVIOUS
  <2>5. LastOf(bytes, n) = bytes
    BY LastOfType
  <2> QED BY <2>1, <2>2, <2>3, <2>4, <2>5 DEF c
<1>6. CASE c.full
  <2>0. PICK e : e = c.end
    OBVIOUS
  <2>e. e \in 0..C - 1
    BY <1>2, <2>0
  <2> DEFINE a == Slice(c, e, C)
             b == Slice(c, 0, e)
             r == LastOf(bytes, C)
  <2>1. /\ c.start = e /\ n >= C
        /\ \A x \in 0..C - 1 : c.buf[x] = bytes[IF x < e THEN n - e + x + 1 ELSE n - C - e + x + 1]
    BY <1>1, <1>6, <2>0 DEF Holds
  <2>2. Bytes(c) = a \o b
    BY <1>2, <1>4, <2>0, <2>1 DEF Bytes
  <2>3. a \in Seq(Cell) /\ Len(a) = C - e /\ \A x \in 1..C - e : a[x] = c.buf[e + x - 1]
    <3>1. e \in 0..C /\ C \in e..C
      BY <1>2, <2>e
    <3> QED BY <1>2, <3>1, SliceIs
  <2>4. b \in Seq(Cell) /\ Len(b) = e /\ \A x \in 1..e : b[x] = c.buf[x - 1]
    <3>1. 0 \in 0..C /\ e \in 0..C /\ e - 0 = e
      BY <1>2, <2>e
    <3>2. b \in Seq(Cell) /\ Len(b) = e - 0 /\ \A x \in 1..e - 0 : b[x] = c.buf[0 + x - 1]
      BY <1>2, <3>1, SliceIs
    <3>3. \A x \in 1..e : 0 + x - 1 = x - 1
      BY <2>e
    <3> QED BY <3>1, <3>2, <3>3
  <2> HIDE DEF a, b
  <2>a. /\ a \o b \in Seq(Cell) /\ Len(a \o b) = Len(a) + Len(b)
        /\ \A x \in 1..Len(a) : (a \o b)[x] = a[x]
        /\ \A x \in 1..Len(b) : (a \o b)[Len(a) + x] = b[x]
    <3>1. a \in Seq(Cell) /\ b \in Seq(Cell)
      BY <2>3, <2>4
    <3>2. Len(a) \in Nat /\ Len(b) \in Nat
      BY <3>1
    <3>3. a \o b \in Seq(Cell) /\ Len(a \o b) = Len(a) + Len(b)
      BY <3>1
    <3>4. \A x \in 1..Len(a) : (a \o b)[x] = a[x]
      BY <3>1
    <3>5. \A x \in 1..Len(b) : (a \o b)[Len(a) + x] = b[x]
      BY <3>1
    <3> QED BY <3>3, <3>4, <3>5
  <2>5. a \o b \in Seq(Cell) /\ Len(a \o b) = C
    BY <1>2, <2>e, <2>3, <2>4, <2>a
  <2>6. C \in 0..n
    BY <1>2, <2>1
  <2>7. r \in Seq(Cell) /\ Len(r) = C /\ \A x \in 1..C : r[x] = bytes[n - C + x]
    BY <2>6, LastOfType, LastOfAt
  <2>8. ASSUME NEW x \in 1..C PROVE (a \o b)[x] = r[x]
    <3>1. CASE x <= C - e
      <4>1. (a \o b)[x] = c.buf[e + x - 1]
        <5>1. x \in 1..C - e
          BY <1>2, <2>e, <3>1
        <5> QED BY <2>3, <2>a, <5>1
      <4>2. e + x - 1 \in 0..C - 1 /\ ~(e + x - 1 < e) /\ n - C - e + (e + x - 1) + 1 = n - C + x
        BY <1>2, <2>e, <3>1
      <4> QED BY <2>1, <2>7, <4>1, <4>2
    <3>2. CASE x > C - e
      <4>1. (a \o b)[x] = c.buf[x - (C - e) - 1]
        <5>1. x - (C - e) \in 1..e /\ (C - e) + (x - (C - e)) = x
          BY <1>2, <2>e, <3>2
        <5> QED BY <2>3, <2>4, <2>a, <5>1
      <4>2. /\ x - (C - e) - 1 \in 0..C - 1 /\ x - (C - e) - 1 < e
            /\ n - e + (x - (C - e) - 1) + 1 = n - C + x
        BY <1>2, <2>e, <3>2
      <4> QED BY <2>1, <2>7, <4>1, <4>2
    <3>3. x <= C - e \/ x > C - e
      BY <1>2, <2>e
    <3> QED BY <3>1, <3>2, <3>3
  <2>9. a \o b = r
    <3> HIDE DEF r
    <3> QED BY <2>5, <2>7, <2>8, SameSequence
  <2> QED BY <1>2, <2>1, <2>2, <2>9 DEF c
<1> QED BY <1>3, <1>5, <1>6

(* An empty log *)
LEMMA NothingRead == parseLogs(<<>>).lines = <<>>
<1> DEFINE C == LogCapacity
           c == Write(NewCircularBuffer(C), <<>>)
           bytes == Bytes(c)
           zeros == [x \in 1..C |-> "0"]
<1>1. C \in Nat \ {0} /\ <<>> \in Seq(Cell) /\ Len(<<>>) = 0
  BY LogAssumption
<1>2. c = NewCircularBuffer(C)
  BY <1>1, WriteHolds
<1> HIDE DEF c
<1>3. c = [buf |-> [i \in 0..C - 1 |-> "0"], start |-> 0, end |-> 0, full |-> FALSE]
  BY <1>2 DEF NewCircularBuffer
<1>4. c.start = 0 /\ c.end = 0 /\ c.buf = [i \in 0..C - 1 |-> "0"] /\ "0" \in Cell
  BY <1>3 DEF Cell
<1>5. c.buf \in [0..C - 1 -> Cell] /\ Cardinality(DOMAIN c.buf) = C
  <2>1. Cardinality(0..C - 1) = C
    BY <1>1, FS_Interval
  <2> QED BY <1>4, <2>1
<1>6. bytes = Slice(c, 0, C) \o Slice(c, 0, 0)
  BY <1>4, <1>5 DEF Bytes
<1> DEFINE a == Slice(c, 0, C)
<1>7. a \in Seq(Cell) /\ Len(a) = C - 0 /\ \A x \in 1..C - 0 : a[x] = c.buf[0 + x - 1]
  <2>1. 0 \in 0..C /\ C \in 0..C
    BY <1>1
  <2>2. c.buf \in [0..C - 1 -> Cell]
    BY <1>5
  <2> QED BY <2>1, <2>2, SliceIs
<1>8. Slice(c, 0, 0) = <<>>
  BY DEF Slice
<1> HIDE DEF a
<1>9. a[1] = "0" /\ \A x \in 1..C : a[x] \in Unbroken
  <2>1. \A x \in 1..C : 0 + x - 1 \in 0..C - 1 /\ x \in 1..C - 0
    BY <1>1
  <2>2. "0" \in Unbroken /\ 1 \in 1..C
    BY <1>1 DEF Unbroken, Cell
  <2> QED BY <1>4, <1>7, <2>1, <2>2
<1>10. a \in Seq(Unbroken) /\ bytes = a
  <2>1. a \in [1..C -> Unbroken]
    BY <1>1, <1>7, <1>9
  <2>2. a \in Seq(Unbroken)
    BY <1>1, <2>1, IsSequence
  <2> QED BY <1>6, <1>7, <1>8, <2>2 DEF a
<1>11. Lines(a) = <<a>> \o <<>>
  <2>1. <<>> \in Seq(Seq(Cell)) /\ << <<>> >> \o <<>> = << <<>> >> /\ Len(a) \in 0..Len(a)
    BY <1>7, <1>1
  <2>2. LastOf(a, Len(a)) = a /\ a \o <<>> = a
    BY <1>7, LastOfType
  <2>3. Lines(LastOf(a, Len(a)) \o <<>>) = <<LastOf(a, Len(a))>> \o <<>>
    <3>1. Lines(<<>>) = << <<>> >> \o <<>>
      BY <2>1, NoBytes
    <3>2. a \in Seq(Unbroken)
      BY <1>10
    <3> QED BY <1>1, <2>1, <3>1, <3>2, LineInFront, Zenon
  <2> QED BY <2>2, <2>3
<1>12. Selected(<<a>> \o <<>>, WellFormed) = AddLine(a, <<>>)
  <2>1. <<>> \in Seq(Seq(Cell))
    OBVIOUS
  <2>2. a \in Seq(Cell)
    BY <1>7
  <2> DEFINE S == Seq(Cell)
  <2>3. a \in S /\ <<>> \in Seq(S)
    BY <2>1, <2>2
  <2> HIDE DEF S
  <2>4. Selected(<<a>> \o <<>>, WellFormed) = AddLine(a, Selected(<<>>, WellFormed))
    BY <2>3, OneMoreLine, Zenon
  <2> QED BY <2>4, NoLines
<1>13. AddLine(a, <<>>) = <<>>
  BY <1>9 DEF AddLine, WellFormed
<1>14. parseLogs(<<>>).lines = Selected(Lines(bytes), WellFormed)
  BY DEF parseLogs, bytes, c
<1> QED BY <1>10, <1>11, <1>12, <1>13, <1>14

-----------------------------------------------------------------------------
(* What is answered of a log *)
Kept(log, m) == Selected(LastOf(log.lines, m), WellFormed)

LEMMA KeptGrows ==
  ASSUME NEW log, IsLog(log)
  PROVE  /\ Kept(log, 0) = <<>>
         /\ \A m \in 0..Len(log.lines) : Kept(log, m) \in Seq(Seq(Cell))
         /\ \A m \in 1..Len(log.lines) : Kept(log, m) = AddLine(FromLast(log, m), Kept(log, m - 1))
<1> DEFINE S == Seq(Cell)
           some(m) == LastOf(log.lines, m)
<1>1. /\ Len(log.lines) \in Nat /\ some(0) = <<>>
      /\ \A m \in 0..Len(log.lines) : some(m) \in Seq(S)
      /\ \A m \in 1..Len(log.lines) : FromLast(log, m) \in S /\ some(m) = <<FromLast(log, m)>> \o some(m - 1)
  BY SomeLines
<1>2. <<>> \in S
  OBVIOUS
<1> HIDE DEF S, some
<1>3. Selected(some(0), WellFormed) = <<>>
  BY <1>1, NoLines
<1>4. \A m \in 0..Len(log.lines) : Selected(some(m), WellFormed) \in Seq(S)
  BY <1>1, <1>2, OneMoreLine
<1>5. ASSUME NEW m \in 1..Len(log.lines)
      PROVE  Selected(some(m), WellFormed) = AddLine(FromLast(log, m), Selected(some(m - 1), WellFormed))
  <2>1. m - 1 \in 0..Len(log.lines)
    BY <1>1
  <2>2. some(m - 1) \in Seq(S) /\ FromLast(log, m) \in S
    BY <1>1, <2>1
  <2>3. some(m) = <<FromLast(log, m)>> \o some(m - 1)
    BY <1>1
  <2>4. Selected(<<FromLast(log, m)>> \o some(m - 1), WellFormed)
          = AddLine(FromLast(log, m), Selected(some(m - 1), WellFormed))
    BY <2>2, OneMoreLine, Zenon
  <2> QED BY <2>3, <2>4
<1> QED BY <1>3, <1>4, <1>5 DEF Kept, S, some

(* The end of a text adds no line *)
LEMMA EndingDropped ==
  ASSUME NEW log, IsLog(log)
  PROVE  \A m \in 0..Len(log.lines) :
           Selected(LastOf(log.lines, m) \o Ending(log), WellFormed) = Kept(log, m)
<1> DEFINE S == Seq(Cell)
           N == Len(log.lines)
           E == Ending(log)
           some(m) == LastOf(log.lines, m)
           G == {m \in 0..N : Selected(some(m) \o E, WellFormed) = Kept(log, m)}
<1>1. /\ N \in Nat /\ some(0) = <<>>
      /\ \A m \in 0..N : some(m) \in Seq(S)
      /\ \A m \in 1..N : FromLast(log, m) \in S /\ some(m) = <<FromLast(log, m)>> \o some(m - 1)
  BY SomeLines
<1>2. <<>> \in S /\ <<>> \in Seq(S)
  OBVIOUS
<1>3. E \in Seq(S)
  BY <1>2 DEF Ending
<1>4. Selected(E, WellFormed) = <<>>
  <2>1. E = <<>> \/ E = << <<>> >> \o <<>>
    BY DEF Ending
  <2>2. Selected(<< <<>> >> \o <<>>, WellFormed) = AddLine(<<>>, Selected(<<>>, WellFormed))
    <3> HIDE DEF S
    <3> QED BY <1>2, OneMoreLine, Zenon
  <2>3. AddLine(<<>>, <<>>) = <<>>
    BY DEF AddLine, WellFormed
  <2> QED BY <2>1, <2>2, <2>3, NoLines, Zenon
<1> HIDE DEF S, E, some
<1>5. 0 \in G
  <2>1. <<>> \o E = E
    BY <1>3
  <2>2. Selected(some(0) \o E, WellFormed) = Kept(log, 0)
    BY <1>1, <1>4, <2>1, KeptGrows, Zenon
  <2> QED BY <1>1, <2>2
<1>6. ASSUME NEW m \in 1..N, m - 1 \in G PROVE m \in G
  <2> DEFINE l == FromLast(log, m)
             s == some(m - 1)
  <2>1. m - 1 \in 0..N /\ m \in 0..N
    BY <1>1
  <2>2. l \in S /\ s \in Seq(S) /\ some(m) = <<l>> \o s
    BY <1>1, <2>1
  <2>3. Selected(s \o E, WellFormed) = Kept(log, m - 1)
    BY <1>6
  <2>4. Kept(log, m) = AddLine(l, Kept(log, m - 1))
    BY KeptGrows
  <2> HIDE DEF l, s
  <2>5. (<<l>> \o s) \o E = <<l>> \o (s \o E) /\ s \o E \in Seq(S)
    BY <1>3, <2>2
  <2>6. Selected(<<l>> \o (s \o E), WellFormed) = AddLine(l, Selected(s \o E, WellFormed))
    BY <2>2, <2>5, OneMoreLine, Zenon
  <2>7. Selected(some(m) \o E, WellFormed) = Kept(log, m)
    BY <2>2, <2>3, <2>4, <2>5, <2>6
  <2> QED BY <2>1, <2>7
<1> HIDE DEF G
<1>7. \A m \in 0..N : m \in G
  BY <1>1, <1>5, <1>6, Counting
<1> QED BY <1>7 DEF G, N, some, E

(* The number of lines that fit *)
LEMMA FittingIsMost ==
  ASSUME NEW log, IsLog(log)
  PROVE  /\ NumberFitting(log) \in 0..Len(log.lines)
         /\ Len(Text(log, NumberFitting(log))) <= LogCapacity
         /\ \A i \in 0..Len(log.lines) : Len(Text(log, i)) <= LogCapacity => i <= NumberFitting(log)
<1> DEFINE N == Len(log.lines)
           fits == {i \in 0..N : Len(Text(log, i)) <= LogCapacity}
           T == {N - i : i \in fits}
<1>1. N \in Nat
  BY LinesOfLog
<1>2. 0 \in fits
  <2>1. Len(Text(log, 0)) = 0
    BY TextGrows
  <2> QED BY <1>1, <2>1, LogAssumption
<1>3. fits \subseteq 0..N
  OBVIOUS
<1> HIDE DEF fits
<1>4. T \in SUBSET Nat /\ T # {}
  BY <1>1, <1>2, <1>3
<1>5. PICK t \in T : \A u \in T : ~(u < t)
  BY <1>4, LeastNumber
<1>6. PICK k \in fits : t = N - k
  BY <1>5
<1>7. ASSUME NEW j \in fits PROVE j <= k
  <2>1. ~(N - j < N - k)
    BY <1>5, <1>6
  <2> QED BY <1>1, <1>3, <2>1
<1>8. NumberFitting(log) = CHOOSE i \in fits : \A j \in fits : j <= i
  BY DEF NumberFitting, fits
<1>9. NumberFitting(log) \in fits /\ \A j \in fits : j <= NumberFitting(log)
  BY <1>7, <1>8
<1> QED BY <1>9 DEF fits

LEMMA LastOfIsSuffix ==
  ASSUME NEW S, NEW s \in Seq(S), NEW j \in 0..Len(s)
  PROVE  IsSuffix(LastOf(s, j), s)
<1> DEFINE t == LastOf(s, j)
           a == Reverse(t)
           b == Reverse(s)
<1>1. t \in Seq(S) /\ Len(t) = j /\ j \in Nat /\ Len(s) \in Nat
  BY LastOfType
<1>2. \A x \in 1..j : t[x] = s[Len(s) - j + x]
  BY LastOfAt
<1> HIDE DEF t
<1>3. a \in Seq(S) /\ Len(a) = j /\ \A x \in 1..j : a[x] = t[j - x + 1]
  <2>1. a = [i \in 1..j |-> t[j - i + 1]]
    BY <1>1 DEF Reverse
  <2>2. \A x \in 1..j : t[j - x + 1] \in S
    BY <1>1
  <2>3. a \in [1..j -> S]
    BY <2>1, <2>2
  <2> HIDE DEF a
  <2> QED BY <1>1, <2>1, <2>3, IsSequence
<1>4. b \in Seq(S) /\ Len(b) = Len(s) /\ \A x \in 1..Len(s) : b[x] = s[Len(s) - x + 1]
  <2>1. b = [i \in 1..Len(s) |-> s[Len(s) - i + 1]]
    BY DEF Reverse
  <2>2. \A x \in 1..Len(s) : s[Len(s) - x + 1] \in S
    OBVIOUS
  <2>3. b \in [1..Len(s) -> S]
    BY <2>1, <2>2
  <2> HIDE DEF b
  <2> QED BY <1>1, <2>1, <2>3, IsSequence
<1> HIDE DEF a, b
<1>5. ASSUME NEW x \in 1..j PROVE a[x] = b[x]
  <2>1. j - x + 1 \in 1..j /\ x \in 1..Len(s) /\ Len(s) - j + (j - x + 1) = Len(s) - x + 1
    BY <1>1
  <2> QED BY <1>2, <1>3, <1>4, <2>1
<1>6. SubSeq(a, 1, j) = SubSeq(b, 1, j)
  BY <1>1, <1>3, <1>4, <1>5
<1> QED BY <1>1, <1>3, <1>4, <1>6 DEF IsSuffix, IsPrefix, a, b, t

(* As many lines with timestamps need that much room. *)
LEMMA RoomNeeded ==
  ASSUME NEW log, IsLog(log), NEW M \in 1..Len(log.lines),
         \A k \in 1..M - 1 : WellFormed(FromLast(log, k))
  PROVE  Len(Text(log, M)) >= (M - 1) * MinLine + 1
<1> DEFINE size(i) == Len(Text(log, i))
           G == {i \in 0..M - 1 : i = 0 \/ size(i) >= i * MinLine - 1}
<1>1. M \in Nat /\ MinLine \in Nat \ {0} /\ Len(log.lines) \in Nat /\ M <= Len(log.lines)
  BY LogAssumption, LinesOfLog
<1>2. \A i \in 0..Len(log.lines) : size(i) \in Nat
  BY TextGrows
<1>3. ASSUME NEW i \in 1..Len(log.lines)
      PROVE  /\ Len(FromLast(log, i)) \in Nat /\ Len(FromLast(log, i)) > 0
             /\ Len(EndOf(log, i)) \in Nat /\ (i # 1 => Len(EndOf(log, i)) = 1)
             /\ size(i) = Len(FromLast(log, i)) + Len(EndOf(log, i)) + size(i - 1)
             /\ WellFormed(FromLast(log, i)) => Len(FromLast(log, i)) + 1 >= MinLine
             /\ i - 1 \in 0..Len(log.lines)
  <2>1. FromLast(log, i) \in Seq(Cell) /\ EndOf(log, i) \in Seq(Cell) /\ Len(FromLast(log, i)) > 0
    BY LinesOfLog
  <2>2. Len(FromLast(log, i)) \in Nat /\ Len(EndOf(log, i)) \in Nat
    BY <2>1
  <2>3. i # 1 => Len(EndOf(log, i)) = 1
    BY DEF EndOf
  <2>4. size(i) = Len(FromLast(log, i)) + Len(EndOf(log, i)) + size(i - 1)
    BY TextLonger
  <2>5. WellFormed(FromLast(log, i)) => Len(FromLast(log, i)) + 1 >= MinLine
    BY LinesOfLog
  <2>6. i - 1 \in 0..Len(log.lines)
    BY <1>1
  <2> QED BY <2>1, <2>2, <2>3, <2>4, <2>5, <2>6
<1> HIDE DEF size
<1>4. size(0) = 0
  BY TextGrows DEF size
<1>5. 0 \in G
  BY <1>1
<1>6. ASSUME NEW i \in 1..M - 1, i - 1 \in G PROVE i \in G
  <2>1. i \in 1..Len(log.lines) /\ WellFormed(FromLast(log, i)) /\ i \in 0..M - 1
    BY <1>1
  <2>2. CASE i = 1
    <3>1. size(1) >= MinLine - 1
      BY <1>1, <1>3, <1>4, <2>1, <2>2
    <3>2. i * MinLine - 1 = MinLine - 1
      BY <1>1, <2>2
    <3> QED BY <2>1, <2>2, <3>1, <3>2
  <2>3. CASE i # 1
    <3>1. size(i - 1) >= (i - 1) * MinLine - 1
      BY <1>6, <2>1, <2>3
    <3>a. i - 1 \in 0..Len(log.lines) /\ i \in 0..Len(log.lines)
      BY <1>1, <2>1
    <3>2. size(i) >= size(i - 1) + MinLine /\ size(i) \in Nat /\ size(i - 1) \in Nat
      <4>1. size(i) \in Nat /\ size(i - 1) \in Nat
        BY <1>2, <3>a
      <4>2. /\ Len(FromLast(log, i)) \in Nat /\ Len(EndOf(log, i)) = 1
            /\ size(i) = Len(FromLast(log, i)) + Len(EndOf(log, i)) + size(i - 1)
            /\ Len(FromLast(log, i)) + 1 >= MinLine
        BY <1>3, <2>1, <2>3
      <4> QED BY <1>1, <4>1, <4>2
    <3>3. (i - 1) * MinLine + MinLine = i * MinLine
      BY <1>1
    <3>4. (i - 1) * MinLine \in Nat /\ i * MinLine \in Nat
      BY <1>1
    <3>5. size(i) >= i * MinLine - 1
      BY <1>1, <3>1, <3>2, <3>3, <3>4
    <3> QED BY <2>1, <3>5
  <2> QED BY <2>2, <2>3
<1> HIDE DEF G
<1>7. \A i \in 0..M - 1 : i \in G
  <2>1. M - 1 \in Nat
    BY <1>1
  <2> QED BY <1>5, <1>6, <2>1, Counting
<1>8. M - 1 \in G
  BY <1>1, <1>7
<1>9. CASE M = 1
  <2>1. size(1) >= 1 /\ (M - 1) * MinLine + 1 = 1
    BY <1>1, <1>3, <1>4, <1>9
  <2> QED BY <1>9, <2>1 DEF size
<1>10. CASE M # 1
  <2>1. size(M - 1) >= (M - 1) * MinLine - 1
    BY <1>1, <1>8, <1>10 DEF G
  <2>2. size(M) >= size(M - 1) + 2 /\ size(M) \in Nat /\ size(M - 1) \in Nat
    <3>1. M - 1 \in 0..Len(log.lines) /\ M \in 0..Len(log.lines)
      BY <1>1
    <3>2. size(M) \in Nat /\ size(M - 1) \in Nat
      BY <1>2, <3>1
    <3>3. /\ Len(FromLast(log, M)) \in Nat /\ Len(FromLast(log, M)) > 0 /\ Len(EndOf(log, M)) = 1
          /\ size(M) = Len(FromLast(log, M)) + Len(EndOf(log, M)) + size(M - 1)
      BY <1>3, <1>10
    <3> QED BY <3>2, <3>3
  <2>3. (M - 1) * MinLine \in Nat
    BY <1>1
  <2>4. size(M) >= (M - 1) * MinLine + 1
    BY <2>1, <2>2, <2>3
  <2> QED BY <2>4 DEF size
<1> QED BY <1>9, <1>10

(* Lines without timestamp are not kept. *)
LEMMA NoneKept ==
  ASSUME NEW log, IsLog(log), NEW M \in 0..Len(log.lines), NEW K \in M..Len(log.lines),
         \A k \in M + 1..K : ~WellFormed(FromLast(log, k))
  PROVE  Kept(log, K) = Kept(log, M)
<1> DEFINE G == {i \in 0..K - M : Kept(log, M + i) = Kept(log, M)}
<1>1. M \in Nat /\ K \in Nat /\ K - M \in Nat /\ Len(log.lines) \in Nat
  BY LinesOfLog
<1>2. 0 \in G
  BY <1>1
<1>3. ASSUME NEW i \in 1..K - M, i - 1 \in G PROVE i \in G
  <2>1. M + i \in 1..Len(log.lines) /\ M + i \in M + 1..K /\ M + i - 1 = M + (i - 1) /\ i \in 0..K - M
    BY <1>1
  <2>2. Kept(log, M + (i - 1)) = Kept(log, M)
    BY <1>3
  <2>3. Kept(log, M + i) = AddLine(FromLast(log, M + i), Kept(log, M))
    BY <2>1, <2>2, KeptGrows
  <2>4. Kept(log, M) \in Seq(Seq(Cell))
    BY KeptGrows
  <2>5. AddLine(FromLast(log, M + i), Kept(log, M)) = Kept(log, M)
    BY <2>1, <2>4 DEF AddLine
  <2> QED BY <2>1, <2>3, <2>5
<1> HIDE DEF G
<1>4. \A i \in 0..K - M : i \in G
  BY <1>1, <1>2, <1>3, Counting
<1>5. K - M \in G /\ M + (K - M) = K
  BY <1>1, <1>4
<1> QED BY <1>5 DEF G

(* The lines that parseLogs makes of a log that is not empty: what is left *)
(* of the oldest line in the buffer, and the lines after it               *)
LEMMA Parsed ==
  ASSUME NEW log, IsLog(log), NEW M \in 1..Len(log.lines)
  PROVE  \E m \in 1..M : \E j \in 0..Len(FromLast(log, m)) :
           LET read == IF Len(Text(log, M)) < LogCapacity THEN Len(Text(log, M)) ELSE LogCapacity
               parsed == parseLogs(Text(log, M))
           IN  /\ read = j + Len(EndOf(log, m)) + Len(Text(log, m - 1))
               /\ parsed.lines = AddLine(LastOf(FromLast(log, m), j), Kept(log, m - 1))
               /\ ~parsed.failed => \A k \in 1..m - 1 : WellFormed(FromLast(log, k))
<1> DEFINE C == LogCapacity
           text == Text(log, M)
           read == IF Len(text) < C THEN Len(text) ELSE C
           bytes == Bytes(Write(NewCircularBuffer(C), text))
           lines == Lines(bytes)
           bad == {i \in DOMAIN lines : i > 1 /\ lines[i] # <<>> /\ ~WellFormed(lines[i])}
<1>1. Len(log.lines) \in Nat /\ M \in 0..Len(log.lines) /\ 0 \in 0..Len(log.lines)
  BY LinesOfLog
<1>2. text \in Seq(Cell) /\ Len(text) \in Nat /\ Len(text) > 0
  <2>1. text \in Seq(Cell)
    BY <1>1, TextGrows
  <2>2. Len(Text(log, 0)) < Len(text) /\ Len(Text(log, 0)) = 0
    BY <1>1, TextLonger, TextGrows
  <2> QED BY <2>1, <2>2
<1>3. bytes = LastOf(text, read)
  BY <1>2, BytesRead
<1>4. parseLogs(text) = [lines |-> Selected(lines, WellFormed), failed |-> bad # {}]
  BY DEF parseLogs
<1>5. parseLogs(text).lines = Selected(lines, WellFormed)
  BY <1>4
<1>6. parseLogs(text).failed <=> bad # {}
  <2> HIDE DEF lines, bad
  <2>1. CASE bad # {}
    <3>1. parseLogs(text) = [lines |-> Selected(lines, WellFormed), failed |-> TRUE]
      BY <1>4, <2>1, Zenon
    <3> QED BY <2>1, <3>1
  <2>2. CASE bad = {}
    <3>1. parseLogs(text) = [lines |-> Selected(lines, WellFormed), failed |-> FALSE]
      BY <1>4, <2>2, Zenon
    <3> QED BY <2>2, <3>1
  <2> QED BY <2>1, <2>2
<1>7. read \in 1..Len(text)
  BY <1>2, LogAssumption
<1> HIDE DEF bytes, read
<1>8. PICK m \in 1..M : \E j \in 0..Len(FromLast(log, m)) :
             /\ LastOf(text, read) = Part(log, m, j)
             /\ read = j + Len(EndOf(log, m)) + Len(Text(log, m - 1))
  BY <1>7, EndIsPart
<1>9. PICK j \in 0..Len(FromLast(log, m)) :
             /\ LastOf(text, read) = Part(log, m, j)
             /\ read = j + Len(EndOf(log, m)) + Len(Text(log, m - 1))
  BY <1>8
<1>10. m \in 1..Len(log.lines) /\ m - 1 \in 0..Len(log.lines)
  BY <1>1
<1>11. lines = CutPart(log, m, j)
  BY <1>3, <1>9, <1>10, LinesOfPart
<1> HIDE DEF text, lines
<1> DEFINE h == LastOf(FromLast(log, m), j)
           s == LastOf(log.lines, m - 1)
           E == Ending(log)
<1>12. h \in Seq(Cell) /\ FromLast(log, m) \in Seq(Cell)
  BY <1>10, LinesOfLog, LastOfType
<1>13. s \in Seq(Seq(Cell)) /\ E \in Seq(Seq(Cell)) /\ s \o E \in Seq(Seq(Cell)) /\ Len(s) = m - 1
  BY <1>10, PartType, SomeLines
<1>14. lines = <<h>> \o (s \o E)
  BY <1>11 DEF CutPart
<1> HIDE DEF h, E
<1>15. Selected(lines, WellFormed) = AddLine(h, Kept(log, m - 1))
  <2> DEFINE S == Seq(Cell)
  <2>1. h \in S /\ s \o E \in Seq(S)
    BY <1>12, <1>13
  <2>2. Selected(s \o E, WellFormed) = Kept(log, m - 1)
    BY <1>10, EndingDropped DEF E
  <2> HIDE DEF S, s
  <2>3. Selected(<<h>> \o (s \o E), WellFormed) = AddLine(h, Selected(s \o E, WellFormed))
    BY <2>1, OneMoreLine, Zenon
  <2> QED BY <1>14, <2>2, <2>3
<1>16. ASSUME bad = {}, NEW k \in 1..m - 1 PROVE WellFormed(FromLast(log, k))
  <2> DEFINE i == m - k
  <2>1. i \in 1..m - 1 /\ i + 1 > 1 /\ k \in 1..Len(log.lines) /\ i \in Nat
    BY <1>1, <1>10
  <2>2. s[i] = FromLast(log, k)
    <3> DEFINE S == Seq(Cell)
    <3>1. log.lines \in Seq(S) /\ m - 1 \in 0..Len(log.lines)
      BY <1>10, SomeLines
    <3> HIDE DEF S
    <3>2. s[i] = log.lines[Len(log.lines) - (m - 1) + i]
      BY <2>1, <3>1, LastOfAt
    <3>3. Len(log.lines) - (m - 1) + i = Len(log.lines) + 1 - k
      BY <1>1, <2>1
    <3> QED BY <3>2, <3>3 DEF FromLast
  <2> HIDE DEF s, i
  <2>3. (s \o E)[i] = s[i] /\ i \in 1..Len(s \o E)
    BY <1>13, <2>1
  <2>4. lines[i + 1] = (s \o E)[i] /\ i + 1 \in DOMAIN lines
    <3> DEFINE t == s \o E
               S == Seq(Cell)
    <3>1. t \in Seq(S) /\ i \in 1..Len(t) /\ lines = <<h>> \o t /\ h \in S
      BY <1>12, <1>13, <1>14, <2>3
    <3> HIDE DEF t, S
    <3>2. lines[i + 1] = t[i] /\ i + 1 \in DOMAIN lines
      BY <3>1
    <3> QED BY <3>2 DEF t
  <2>5. FromLast(log, k) # <<>>
    BY <2>1, LinesOfLog
  <2> QED BY <1>16, <2>1, <2>2, <2>3, <2>4, <2>5
<1>17. ~parseLogs(text).failed => \A k \in 1..m - 1 : WellFormed(FromLast(log, k))
  BY <1>6, <1>16, Zenon
<1> HIDE DEF bad
<1> QED BY <1>5, <1>9, <1>15, <1>17 DEF h, text, read

(* The lines answered are the last ones of the log (containerLogs).  If    *)
(* the stream overflowed the buffer, the oldest line in it is cut, unless  *)
(* it just fits; if not, TailLines lines were streamed, and with another   *)
(* line that has a timestamp they would not have fitted.                   *)
LEMMA AnsweredIsTail ==
  ASSUME NEW log, IsLog(log), ~parseLogs(Streamed(log)).failed
  PROVE  IsTail(parseLogs(Streamed(log)).lines, log)
<1> DEFINE N == Len(log.lines)
           C == LogCapacity
           M == IF N > TailLines THEN TailLines ELSE N
           K == NumberFitting(log)
           size(i) == Len(Text(log, i))
           lines == parseLogs(Streamed(log)).lines
<1>1. N \in Nat /\ C \in Nat \ {0} /\ MinLine \in Nat \ {0} /\ TailLines \in Nat \ {0} /\ C = TailLines * MinLine
  <2>1. N \in Nat
    BY LinesOfLog
  <2>2. LogCapacity = (LogCapacity \div MinLine) * MinLine /\ LogCapacity \div MinLine \in Nat \ {0}
    BY LogAssumption
  <2> QED BY <2>1, <2>2, LogAssumption DEF TailLines
<1>2. Streamed(log) = Text(log, M)
  BY DEF Streamed
<1>3. K \in 0..N /\ size(K) <= C /\ \A i \in 0..N : size(i) <= C => i <= K
  BY FittingIsMost
<1>4. LastLines(log) = LastOf(log.lines, K)
  BY DEF LastLines, LastOf
<1>5. Len(LastLines(log)) = K
  BY <1>3, <1>4, SomeLines
<1>6. Selected(LastLines(log), WellFormed) = Kept(log, K)
  BY <1>4 DEF Kept
<1>7. SUFFICES \/ lines = Kept(log, K)
               \/ /\ N > K
                  /\ Len(lines) = Len(Kept(log, K)) + 1
                  /\ Tail(lines) = Kept(log, K)
                  /\ IsSuffix(lines[1], log.lines[N - K])
  BY <1>5, <1>6 DEF IsTail
<1>8. CASE N = 0
  <2>1. M = 0 /\ K = 0
    BY <1>1, <1>3, <1>8
  <2>2. lines = <<>>
    BY <1>2, <2>1, TextGrows, NothingRead
  <2> QED BY <2>1, <2>2, KeptGrows
<1>9. CASE N # 0
  <2>1. M \in 1..N /\ (M # N => M = TailLines)
    BY <1>1, <1>9
  <2> DEFINE read == IF size(M) < C THEN size(M) ELSE C
  <2>2. PICK m \in 1..M : \E j \in 0..Len(FromLast(log, m)) :
               /\ read = j + Len(EndOf(log, m)) + size(m - 1)
               /\ lines = AddLine(LastOf(FromLast(log, m), j), Kept(log, m - 1))
               /\ \A k \in 1..m - 1 : WellFormed(FromLast(log, k))
    BY <1>2, <2>1, Parsed
  <2>3. PICK j \in 0..Len(FromLast(log, m)) :
               /\ read = j + Len(EndOf(log, m)) + size(m - 1)
               /\ lines = AddLine(LastOf(FromLast(log, m), j), Kept(log, m - 1))
               /\ \A k \in 1..m - 1 : WellFormed(FromLast(log, k))
    BY <2>2
  <2> HIDE DEF M, K, lines
  <2> DEFINE line == FromLast(log, m)
             h == LastOf(line, j)
  <2>4. m \in 1..N /\ m - 1 \in 0..N /\ m \in 0..N /\ M \in 0..N /\ K \in 0..N
    BY <1>1, <1>3, <2>1
  <2>5. line \in Seq(Cell) /\ Len(line) \in Nat /\ Kept(log, m - 1) \in Seq(Seq(Cell))
    BY <2>4, LinesOfLog, KeptGrows
  <2>6. /\ \A i \in 0..N : size(i) \in Nat
        /\ \A i, k \in 0..N : i < k => size(i) < size(k)
    BY TextGrows, TextLonger
  <2>7. size(m) = Len(line) + Len(EndOf(log, m)) + size(m - 1) /\ Len(EndOf(log, m)) \in Nat
    BY <2>4, TextLonger DEF EndOf
  <2> HIDE DEF size, line
  <2>8. j \in Nat /\ read <= C /\ read <= size(M) /\ read \in Nat /\ (read = C \/ read = size(M))
    BY <1>1, <2>4, <2>5, <2>6 DEF line
  <2>9. /\ read = size(m) - Len(line) + j
        /\ size(m - 1) <= read
    <3>1. size(m) \in Nat /\ size(m - 1) \in Nat
      BY <2>4, <2>6
    <3>2. read = j + Len(EndOf(log, m)) + size(m - 1)
      BY <2>3
    <3> QED BY <2>5, <2>7, <2>8, <3>1, <3>2
  <2>10. size(m) <= size(M)
    BY <2>1, <2>4, <2>6
  <2> HIDE DEF read
  <2>11. CASE j = Len(line)
    <3>1. lines = Kept(log, m)
      BY <2>3, <2>4, <2>5, <2>11, KeptGrows, LastOfType DEF line
    <3>2. read = size(m) /\ m <= K
      BY <1>3, <2>4, <2>5, <2>6, <2>8, <2>9, <2>11
    <3>3. CASE K = m
      BY <3>1, <3>3
    <3>4. CASE K # m
      <4>1. size(m) < size(K)
        BY <2>4, <2>6, <3>2, <3>4
      <4>2. read # C
        BY <1>1, <1>3, <2>4, <2>6, <3>2, <4>1
      <4>3. m = M
        BY <2>1, <2>4, <2>6, <2>8, <3>2, <4>2
      <4>4. M = TailLines
        BY <2>1, <2>4, <3>2, <3>4, <4>3
      <4>5. size(M) >= (M - 1) * MinLine + 1
        BY <2>1, <2>3, <4>3, RoomNeeded DEF size
      <4>6. ASSUME NEW k \in M + 1..K, WellFormed(FromLast(log, k)) PROVE FALSE
        <5>1. k \in 1..N /\ k \in 0..N /\ k - 1 \in 0..N /\ k # 1 /\ M <= k - 1 /\ k <= K
          BY <2>1, <2>4
        <5>2. Len(FromLast(log, k)) \in Nat /\ Len(FromLast(log, k)) + 1 >= MinLine
          <6>1. FromLast(log, k) \in Seq(Cell)
            BY <5>1, LinesOfLog
          <6> QED BY <4>6, <5>1, <6>1, LinesOfLog
        <5>3. size(k) = Len(FromLast(log, k)) + 1 + size(k - 1)
          <6>1. Len(EndOf(log, k)) = 1
            BY <5>1 DEF EndOf
          <6> QED BY <5>1, <6>1, TextLonger DEF size
        <5>a. size(M) \in Nat /\ size(k - 1) \in Nat /\ size(k) \in Nat /\ size(K) \in Nat
          BY <2>4, <2>6, <5>1
        <5>4. size(M) <= size(k - 1) /\ size(k) <= size(K)
          <6>1. M = k - 1 \/ M < k - 1
            BY <2>4, <5>1
          <6>2. k = K \/ k < K
            BY <2>4, <5>1
          <6>3. M < k - 1 => size(M) < size(k - 1)
            BY <2>4, <2>6, <5>1
          <6>4. k < K => size(k) < size(K)
            BY <2>4, <2>6, <5>1
          <6> QED BY <5>a, <6>1, <6>2, <6>3, <6>4
        <5>5. size(k) >= (M - 1) * MinLine + 1 + MinLine
          <6>1. (M - 1) * MinLine \in Nat
            BY <1>1, <2>1
          <6> QED BY <1>1, <4>5, <5>2, <5>3, <5>4, <5>a, <6>1
        <5>6. (M - 1) * MinLine + 1 + MinLine = C + 1
          <6>1. (TailLines - 1) * MinLine + MinLine = TailLines * MinLine /\ (TailLines - 1) * MinLine \in Nat
            BY <1>1
          <6> QED BY <1>1, <4>4, <6>1
        <5>7. size(K) <= C
          BY <1>3
        <5> QED BY <1>1, <5>4, <5>5, <5>6, <5>7, <5>a
      <4>7. Kept(log, K) = Kept(log, M)
        <5>1. K \in M..N
          BY <2>4, <3>2, <4>3
        <5> QED BY <2>4, <4>6, <5>1, NoneKept
      <4> QED BY <3>1, <4>3, <4>7
    <3> QED BY <3>3, <3>4
  <2>12. CASE j # Len(line)
    <3>1. read < size(m)
      <4>1. j < Len(line) /\ size(m) \in Nat
        BY <2>4, <2>5, <2>6, <2>8, <2>12 DEF line
      <4> QED BY <2>5, <2>8, <2>9, <4>1
    <3>2. read = C
      BY <2>4, <2>6, <2>8, <2>10, <3>1
    <3>3. K = m - 1
      <4>1. m - 1 <= K
        BY <1>3, <2>4, <2>9, <3>2
      <4>2. ~(m <= K)
        <5>1. m <= K => size(m) <= size(K)
          BY <2>4, <2>6
        <5> QED BY <1>1, <1>3, <2>4, <2>6, <3>1, <3>2, <5>1
      <4> QED BY <2>4, <4>1, <4>2
    <3>4. N > K /\ log.lines[N - K] = line
      <4>1. N > K /\ N - K = N + 1 - m
        BY <1>1, <2>4, <3>3
      <4> QED BY <4>1 DEF line, FromLast
    <3>5. IsSuffix(h, line) /\ h \in Seq(Cell)
      BY <2>5, LastOfIsSuffix, LastOfType DEF line
    <3> DEFINE S == Seq(Cell)
               kept == Kept(log, m - 1)
    <3>6. h \in S /\ kept \in Seq(S) /\ lines = AddLine(h, kept)
      BY <2>3, <2>5, <3>5 DEF line
    <3> HIDE DEF S, h, kept
    <3>7. CASE WellFormed(h)
      <4>1. lines = <<h>> \o kept
        BY <3>6, <3>7 DEF AddLine
      <4>2. Len(lines) = Len(kept) + 1 /\ Tail(lines) = kept /\ lines[1] = h
        BY <3>6, <4>1
      <4> QED BY <3>3, <3>4, <3>5, <4>2 DEF kept
    <3>8. CASE ~WellFormed(h)
      <4>1. lines = kept
        BY <3>6, <3>8 DEF AddLine
      <4> QED BY <3>3, <4>1 DEF kept
    <3> QED BY <3>7, <3>8
  <2> QED BY <2>11, <2>12
<1> QED BY <1>8, <1>9

-----------------------------------------------------------------------------
(* The events answered (sharedCluster.events) *)
AddEvent(x, rest) == (IF x.marshals THEN <<x>> ELSE <<>>) \o rest

LEMMA SelectedEvents ==
  ASSUME NEW S, NEW items \in Seq(S)
  PROVE  Selected(items, LAMBDA item : item.marshals) \in Seq(S)
<1> DEFINE N == Len(items)
           X == Seq(S)
           at(i) == items[Len(items) + 1 - i]
           F == [i \in Nat |-> [x \in X |-> IF i \in 1..N THEN AddEvent(at(i), x) ELSE x]]
           Is(g) == g = [i \in 0..N |-> IF i = 0 THEN <<>> ELSE AddEvent(at(i), g[i - 1])]
           those == CHOOSE g : Is(g)
<1>1. Selected(items, LAMBDA item : item.marshals) = those[N]
  BY DEF Selected, AddEvent
<1>2. N \in Nat /\ \A i \in 1..N : at(i) \in S
  OBVIOUS
<1>3. ASSUME NEW x \in S, NEW rest \in X PROVE AddEvent(x, rest) \in X
  BY DEF AddEvent
<1>4. <<>> \in X
  OBVIOUS
<1>5. F \in [Nat -> [X -> X]]
  <2> HIDE DEF X
  <2> QED BY <1>2, <1>3
<1> HIDE DEF F, X, at, N
<1>6. PICK g : IsRecursive(g, X, F, <<>>, N)
  BY <1>2, <1>4, <1>5, Recursion
<1>7. \A i \in 1..N : g[i] = AddEvent(at(i), g[i - 1])
  <2> SUFFICES ASSUME NEW i \in 1..N PROVE g[i] = AddEvent(at(i), g[i - 1])
    OBVIOUS
  <2>1. i \in Nat /\ i - 1 \in 0..N
    BY <1>2
  <2>2. g[i - 1] \in X /\ g[i] = F[i][g[i - 1]]
    BY <1>6, <2>1 DEF IsRecursive
  <2> QED BY <2>1, <2>2 DEF F
<1>8. Is(g)
  <2>1. g \in [0..N -> X] /\ g[0] = <<>>
    BY <1>6 DEF IsRecursive
  <2>2. \A i \in 0..N : i = 0 \/ i \in 1..N
    BY <1>2
  <2> QED BY <1>7, <2>1, <2>2
<1>9. Is(those)
  BY <1>8, Zenon
<1> HIDE DEF those
<1>10. 0 \in 0..N /\ N \in 0..N /\ \A i \in 1..N : i \in 0..N /\ i # 0 /\ i - 1 \in 0..N
  BY <1>2
<1>11. those[0] = <<>> /\ \A i \in 1..N : those[i] = AddEvent(at(i), those[i - 1])
  BY <1>9, <1>10
<1> DEFINE G == {i \in 0..N : those[i] \in X}
<1>12. 0 \in G
  BY <1>4, <1>10, <1>11
<1>13. \A i \in 1..N : i - 1 \in G => i \in G
  BY <1>2, <1>3, <1>10, <1>11
<1> HIDE DEF G
<1>14. \A i \in 0..N : i \in G
  BY <1>2, <1>12, <1>13, Counting, Zenon
<1> QED BY <1>1, <1>10, <1>14 DEF G, X

LEMMA EventHappened ==
  ASSUME NEW item, IsEvent(item)
  PROVE  LET event == ToEvent(item)
         IN  event.count > 0 /\ event.firstObserved > 0 /\ event.firstObserved <= event.lastObserved
<1>1. item.first \in Nat /\ item.last \in Nat /\ item.time \in Nat /\ item.count \in Nat
  BY DEF IsEvent
<1>2. \/ item.first > 0 /\ item.first <= item.last
      \/ item.first = 0 /\ item.last = 0 /\ item.time > 0
  BY DEF IsEvent
<1> QED BY <1>1, <1>2 DEF ToEvent

LEMMA EventsHappened ==
  ASSUME NEW items \in EventLists, NEW i \in DOMAIN GetEvents(items).content
  PROVE  LET event == GetEvents(items).content[i]
         IN  event.count > 0 /\ event.firstObserved > 0 /\ event.firstObserved <= event.lastObserved
<1> DEFINE S == {items[x] : x \in DOMAIN items}
           kept == Selected(items, LAMBDA item : item.marshals)
<1>1. items \in Seq(S) /\ \A item \in S : IsEvent(item)
  BY AnswersAssumption
<1> HIDE DEF S
<1>2. kept \in Seq(S)
  BY <1>1, SelectedEvents
<1>3. GetEvents(items).content = [x \in DOMAIN kept |-> ToEvent(kept[x])]
  BY DEF GetEvents, Answer
<1> HIDE DEF kept
<1>4. i \in DOMAIN kept /\ GetEvents(items).content[i] = ToEvent(kept[i])
  BY <1>3
<1>5. kept[i] \in S
  BY <1>2, <1>4
<1> QED BY <1>1, <1>4, <1>5, EventHappened

(* Each answer that is about to be sent is right. *)
LEMMA LogAnswer ==
  ASSUME NEW log \in Logs
  PROVE  LET reply == containerLogs(log)
         IN  reply.kind = "logs" /\ (reply.error = None => IsTail(reply.content, reply.about))
<1> DEFINE parsed == parseLogs(Streamed(log))
<1>1. IsLog(log)
  BY AnswersAssumption
<1>2. CASE parsed.failed
  <2>1. containerLogs(log) = [kind |-> "logs", about |-> None, content |-> <<>>, error |-> "UNEXPECTED"]
    BY <1>2 DEF containerLogs, Apology, ErrorCode
  <2> QED BY <2>1, SharedAssumption
<1>3. CASE ~parsed.failed
  <2>1. containerLogs(log) = [kind |-> "logs", about |-> log, content |-> parsed.lines, error |-> None]
    BY <1>3 DEF containerLogs, Answer
  <2>2. IsTail(parsed.lines, log)
    BY <1>1, <1>3, AnsweredIsTail
  <2> HIDE DEF parsed
  <2> QED BY <2>1, <2>2
<1> QED BY <1>2, <1>3

LEMMA ApologyAnswer ==
  ASSUME NEW kind, NEW e
  PROVE  /\ Apology(kind, e).kind = kind /\ Apology(kind, e).error # None
         /\ DOMAIN Apology(kind, e).content = {}
BY SharedAssumption DEF Apology, ErrorCode

LEMMA RequestStep ==
  ASSUME RequestsAnswered, [Next]_vars
  PROVE  RequestsAnswered'
<1>1. CASE answer' = answer
  BY <1>1 DEF RequestsAnswered, LastOfTheLog, HappenedSometime
<1>2. CASE answer' = None
  BY <1>2 DEF RequestsAnswered, LastOfTheLog, HappenedSometime
<1>3. CASE answer' # None /\ ProcessLogRequest
  <2>1. answer' \in {containerLogs(log) : log \in Logs} \cup {Apology("logs", e) : e \in {"forbidden", "other"}}
    BY <1>3 DEF ProcessLogRequest, ProcessRequest
  <2>2. answer'.kind = "logs" /\ (answer'.error = None => IsTail(answer'.content, answer'.about))
    BY <2>1, LogAnswer, ApologyAnswer
  <2> QED BY <2>2 DEF RequestsAnswered, LastOfTheLog, HappenedSometime
<1>4. CASE answer' # None /\ ProcessEventRequest
  <2>1. answer' \in {GetEvents(items) : items \in EventLists} \cup {Apology("events", e) : e \in {"forbidden", "other"}}
    BY <1>4 DEF ProcessEventRequest, ProcessRequest
  <2>2. \A items : GetEvents(items).kind = "events"
    BY DEF GetEvents, Answer
  <2>3. answer'.kind = "events"
    BY <2>1, <2>2, ApologyAnswer
  <2>4. \A i \in DOMAIN answer'.content :
          LET event == answer'.content[i]
          IN  event.count > 0 /\ event.firstObserved > 0 /\ event.firstObserved <= event.lastObserved
    BY <2>1, EventsHappened, ApologyAnswer
  <2> QED BY <2>3, <2>4 DEF RequestsAnswered, LastOfTheLog, HappenedSometime
<1>5. answer' = answer \/ answer' = None \/ ProcessLogRequest \/ ProcessEventRequest
  BY DEF Next, vars, TypeChanges, RightsChange, CacheLists, CacheFollows, newSharedCluster, ConnectFails,
         sync, SyncFails, Stop, startRefreshLoop, Swap, ResourceChanges, ReadFilter, ReadFilterAgain,
         Judge, StartScan, ReadLive, ReadFails, FinishScan, SendMsg
<1> QED BY <1>1, <1>2, <1>3, <1>4, <1>5

(* An answer to a log request carries the well-formed ones among the last  *)
(* lines that fit the buffer, and possibly the rest of the line before     *)
(* them, whatever the capacity of the buffer, the log and the place where  *)
(* the circle is cut (containerLogs, parseLogs, CircularBuffer); an answer *)
(* to an event request has events that happened, whichever of its          *)
(* timestamps the cluster left out (sharedCluster.events, toEvent).        *)
THEOREM EveryRequestAnswered == Spec => []RequestsAnswered
<1>1. Init => RequestsAnswered
  BY DEF Init, RequestsAnswered, LastOfTheLog, HappenedSometime
<1> QED BY <1>1, RequestStep, PTL DEF Spec
==============================================================================
