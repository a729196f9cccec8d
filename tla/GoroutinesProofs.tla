---------------------------- MODULE GoroutinesProofs ----------------------------
(***************************************************************************)
(* Proofs about Goroutines, for every set of targets and of callers, every *)
(* assignment of jobs, any capacity of the send queue and any number of    *)
(* workers: the send queue and the workers stay within their bounds, and   *)
(* no goroutine waits twice, neither in one mailbox or at the lock of the  *)
(* cluster cache, nor in two mailboxes at a time.                          *)
(***************************************************************************)
EXTENDS Goroutines, SequenceTheorems, TLAPS

Steps == {"publish", "sync", "read", "send"}

Places == {"idle", "registry", "next", "target", "sync", "send", "rpc"}

OwnerType == owner \in [Owners -> Processes \cup {"none", "idle", "change", "stopped"}]

QueueType == /\ DOMAIN queue = Owners
             /\ \A o \in Owners : queue[o] \in Seq(Callers) /\ IsInjective(queue[o])

CallerType == caller \in [Callers -> [job : Jobs \cup {"none"}, for : SUBSET Targets, at : Places]]

TodoType == DOMAIN todo = Targets /\ \A t \in Targets : todo[t] \in Seq(Steps)

LockType == lock \in Seq(Processes) /\ IsInjective(lock)

OtherTypes == /\ known \subseteq Targets /\ pending \subseteq known
              /\ event \in {"idle", "populate", "route"}
              /\ sendQueue \in 0 .. QueueSize /\ busy \in 0 .. Workers
              /\ stopping \in BOOLEAN

(* Where a caller is in its job while it waits for, or is served by, o *)
PlaceOf(o) == IF o = "registry" THEN "registry" ELSE "target"

(* A caller is with an owner: it waits in its mailbox, or is served *)
IsWith(c, o) == c \in Range(queue[o]) \/ owner[o] = c

(* A caller is with one owner at most, in the one way or the other, and    *)
(* knows it.                                                               *)
OneOwner ==
  /\ \A c \in Callers, o \in Owners : IsWith(c, o) => caller[c].at = PlaceOf(o)
  /\ \A c \in Callers, o \in Owners, p \in Owners : IsWith(c, o) /\ IsWith(c, p) => o = p
  /\ \A c \in Callers, o \in Owners : ~(c \in Range(queue[o]) /\ owner[o] = c)

(* Who has a job, and who is at the lock *)
BusyHaveJobs == \A c \in Callers : caller[c].at # "idle" => caller[c].job \in Jobs

AtLock == /\ \A c \in Callers : c \in Range(lock) => caller[c].at = "sync"
          /\ "cache" \in Range(lock) => event # "idle"

GInv == /\ OwnerType /\ QueueType /\ CallerType /\ TodoType /\ LockType /\ OtherTypes
        /\ OneOwner /\ BusyHaveJobs /\ AtLock

-----------------------------------------------------------------------------
(* Who waits in a line: someone joins it, its head leaves, someone in it *)
LEMMA RangeOf == \A s, y : y \in Range(s) <=> \E j \in DOMAIN s : y = s[j]
BY Zenon DEF Range

LEMMA Joins ==
  ASSUME NEW S, NEW s \in Seq(S), IsInjective(s), NEW x \in S, x \notin Range(s)
  PROVE  /\ Append(s, x) \in Seq(S) /\ IsInjective(Append(s, x))
         /\ \A y : y \in Range(Append(s, x)) <=> y \in Range(s) \/ y = x
<1>1. /\ Append(s, x) \in Seq(S)
      /\ Len(Append(s, x)) = Len(s) + 1
      /\ \A j \in 1 .. Len(s) : Append(s, x)[j] = s[j]
      /\ Append(s, x)[Len(s) + 1] = x
  BY AppendProperties
<1>2. DOMAIN Append(s, x) = 1 .. (Len(s) + 1) /\ DOMAIN s = 1 .. Len(s) /\ Len(s) \in Nat
  BY <1>1, LenProperties
<1>3. 1 .. (Len(s) + 1) = (1 .. Len(s)) \cup {Len(s) + 1} /\ Len(s) + 1 \notin 1 .. Len(s)
  BY <1>2
<1>4. \A j \in 1 .. Len(s) : s[j] # x
  BY <1>2, RangeOf
<1>5. \A y : y \in Range(Append(s, x)) <=> y \in Range(s) \/ y = x
  <2>1. \A y : y \in Range(Append(s, x)) <=> \E j \in (1 .. Len(s)) \cup {Len(s) + 1} : y = Append(s, x)[j]
    BY <1>2, <1>3, RangeOf
  <2>2. \A y : y \in Range(s) <=> \E j \in 1 .. Len(s) : y = s[j]
    BY <1>2, RangeOf
  <2> QED BY <1>1, <2>1, <2>2
<1>6. \A a, b \in 1 .. Len(s) : s[a] = s[b] => a = b
  BY <1>2 DEF IsInjective
<1>7. \A a, b \in (1 .. Len(s)) \cup {Len(s) + 1} : Append(s, x)[a] = Append(s, x)[b] => a = b
  BY <1>1, <1>4, <1>6
<1> QED BY <1>1, <1>2, <1>3, <1>5, <1>7 DEF IsInjective

LEMMA HeadLeaves ==
  ASSUME NEW S, NEW s \in Seq(S), IsInjective(s), s # << >>
  PROVE  /\ Head(s) \in S /\ Head(s) \in Range(s)
         /\ Tail(s) \in Seq(S) /\ IsInjective(Tail(s))
         /\ \A y : y \in Range(Tail(s)) <=> y \in Range(s) /\ y # Head(s)
<1>1. /\ Head(s) = s[1] /\ Head(s) \in S
      /\ Tail(s) \in Seq(S) /\ Len(Tail(s)) = Len(s) - 1
      /\ \A j \in 1 .. Len(Tail(s)) : Tail(s)[j] = s[j + 1]
  BY HeadTailProperties, ElementOfSeq, EmptySeq
<1>2. DOMAIN s = 1 .. Len(s) /\ DOMAIN Tail(s) = 1 .. Len(Tail(s)) /\ Len(s) \in Nat /\ Len(s) # 0
  BY <1>1, LenProperties, EmptySeq
<1>3. \A a, b \in DOMAIN s : s[a] = s[b] => a = b
  BY DEF IsInjective
<1>4. ASSUME NEW a \in DOMAIN Tail(s), NEW b \in DOMAIN Tail(s), Tail(s)[a] = Tail(s)[b] PROVE a = b
  <2>1. a + 1 \in DOMAIN s /\ b + 1 \in DOMAIN s /\ s[a + 1] = s[b + 1] /\ a \in Nat /\ b \in Nat
    BY <1>1, <1>2, <1>4
  <2>2. a + 1 = b + 1
    BY <1>3, <2>1
  <2> QED BY <2>1, <2>2
<1>5. ASSUME NEW y PROVE y \in Range(Tail(s)) <=> y \in Range(s) /\ y # Head(s)
  <2>1. ASSUME y \in Range(Tail(s)) PROVE y \in Range(s) /\ y # Head(s)
    <3>1. PICK j \in DOMAIN Tail(s) : y = Tail(s)[j]
      BY <2>1, RangeOf, Zenon
    <3>2. j + 1 \in DOMAIN s /\ y = s[j + 1] /\ 1 \in DOMAIN s /\ j + 1 # 1
      BY <1>1, <1>2, <3>1
    <3> QED BY <1>1, <1>3, <3>2, RangeOf
  <2>2. ASSUME y \in Range(s), y # Head(s) PROVE y \in Range(Tail(s))
    <3>1. PICK j \in DOMAIN s : y = s[j]
      BY <2>2, RangeOf
    <3>2. j # 1
      BY <1>1, <2>2, <3>1
    <3>3. j - 1 \in DOMAIN Tail(s) /\ j = (j - 1) + 1
      BY <1>1, <1>2, <3>2
    <3>4. Tail(s)[j - 1] = s[j]
      BY <1>1, <1>2, <3>3
    <3> QED BY <1>1, <3>1, <3>3, <3>4, RangeOf
  <2> QED BY <2>1, <2>2
<1>6. Head(s) \in Range(s)
  BY <1>1, <1>2, RangeOf
<1> QED BY <1>1, <1>4, <1>5, <1>6 DEF IsInjective

LEMMA Removes ==
  ASSUME NEW S, NEW s \in Seq(S), NEW i \in DOMAIN s
  PROVE  /\ RemoveAt(s, i) \in Seq(S) /\ Len(RemoveAt(s, i)) = Len(s) - 1
         /\ \A j \in 1 .. Len(s) - 1 : RemoveAt(s, i)[j] = IF j < i THEN s[j] ELSE s[j + 1]
<1> DEFINE front == SubSeq(s, 1, i - 1)
           back == SubSeq(s, i + 1, Len(s))
<1>1. DOMAIN s = 1 .. Len(s) /\ Len(s) \in Nat /\ i \in Nat /\ 1 <= i /\ i <= Len(s)
  BY LenProperties
<1>2. \A j \in 1 .. Len(s) : s[j] \in S
  BY <1>1, ElementOfSeq
<1>3. i - 1 \in Int /\ i + 1 \in Int /\ Len(s) \in Int /\ 1 \in Int
      /\ (\A j \in 1 .. i - 1 : s[j] \in S) /\ (\A j \in i + 1 .. Len(s) : s[j] \in S)
  BY <1>1, <1>2
<1>4. /\ front \in Seq(S) /\ Len(front) = (IF 1 <= i - 1 THEN i - 1 - 1 + 1 ELSE 0)
      /\ \A j \in 1 .. i - 1 - 1 + 1 : front[j] = s[1 + j - 1]
  BY <1>3, SubSeqProperties
<1>5. /\ back \in Seq(S) /\ Len(back) = (IF i + 1 <= Len(s) THEN Len(s) - (i + 1) + 1 ELSE 0)
      /\ \A j \in 1 .. Len(s) - (i + 1) + 1 : back[j] = s[i + 1 + j - 1]
  BY <1>3, SubSeqProperties
<1> HIDE DEF front, back
<1>6. Len(front) = i - 1 /\ \A j \in 1 .. i - 1 : front[j] = s[j]
  BY <1>1, <1>4
<1>7. Len(back) = Len(s) - i /\ \A j \in 1 .. Len(s) - i : back[j] = s[i + j]
  <2>1. Len(back) = Len(s) - i
    BY <1>1, <1>5
  <2>2. ASSUME NEW j \in 1 .. Len(s) - i PROVE back[j] = s[i + j]
    <3>1. j \in 1 .. Len(s) - (i + 1) + 1 /\ i + 1 + j - 1 = i + j
      BY <1>1
    <3> QED BY <1>5, <3>1
  <2> QED BY <2>1, <2>2
<1>8. /\ front \o back \in Seq(S)
      /\ Len(front \o back) = Len(front) + Len(back)
      /\ \A j \in 1 .. Len(front) + Len(back) :
           (front \o back)[j] = IF j <= Len(front) THEN front[j] ELSE back[j - Len(front)]
  BY <1>4, <1>5, ConcatProperties
<1>9. RemoveAt(s, i) = front \o back
  BY DEF RemoveAt, front, back
<1>10. ASSUME NEW j \in 1 .. Len(s) - 1
       PROVE  RemoveAt(s, i)[j] = IF j < i THEN s[j] ELSE s[j + 1]
  <2>1. j \in 1 .. Len(front) + Len(back)
    BY <1>1, <1>6, <1>7
  <2>2. CASE j < i
    <3>1. j \in 1 .. i - 1 /\ j <= Len(front)
      BY <1>1, <1>6, <2>2
    <3> QED BY <1>6, <1>8, <1>9, <2>1, <2>2, <3>1
  <2>3. CASE ~(j < i)
    <3>1. ~(j <= Len(front)) /\ j - Len(front) \in 1 .. Len(s) - i /\ i + (j - Len(front)) = j + 1
      BY <1>1, <1>6, <2>3
    <3> QED BY <1>7, <1>8, <1>9, <2>1, <2>3, <3>1
  <2> QED BY <2>2, <2>3
<1>11. Len(front) + Len(back) = Len(s) - 1
  BY <1>1, <1>6, <1>7
<1> QED BY <1>8, <1>9, <1>10, <1>11

LEMMA Withdraws ==
  ASSUME NEW S, NEW s \in Seq(S), IsInjective(s), NEW i \in DOMAIN s
  PROVE  /\ RemoveAt(s, i) \in Seq(S) /\ IsInjective(RemoveAt(s, i))
         /\ \A y : y \in Range(RemoveAt(s, i)) => y \in Range(s) /\ y # s[i]
<1> DEFINE t == RemoveAt(s, i)
           Was(j) == IF j < i THEN j ELSE j + 1
<1>1. /\ t \in Seq(S) /\ Len(t) = Len(s) - 1
      /\ \A j \in 1 .. Len(s) - 1 : t[j] = IF j < i THEN s[j] ELSE s[j + 1]
  BY Removes
<1> HIDE DEF t
<1>2. DOMAIN s = 1 .. Len(s) /\ DOMAIN t = 1 .. Len(t) /\ Len(s) \in Nat
  BY <1>1, LenProperties
<1>3. ASSUME NEW j \in DOMAIN t
      PROVE  Was(j) \in DOMAIN s /\ Was(j) # i /\ t[j] = s[Was(j)]
  BY <1>1, <1>2
<1>4. \A a, b \in DOMAIN s : s[a] = s[b] => a = b
  BY DEF IsInjective
<1>5. ASSUME NEW a \in DOMAIN t, NEW b \in DOMAIN t, t[a] = t[b] PROVE a = b
  <2>1. Was(a) = Was(b)
    <3> HIDE DEF Was
    <3> QED BY <1>3, <1>4, <1>5
  <2> QED BY <1>1, <1>2, <2>1
<1>6. ASSUME NEW y \in Range(t) PROVE y \in Range(s) /\ y # s[i]
  <2>1. PICK j \in DOMAIN t : y = t[j]
    BY <1>1, RangeOf
  <2> HIDE DEF Was
  <2> QED BY <1>3, <1>4, <2>1, RangeOf
<1> QED BY <1>1, <1>5, <1>6 DEF IsInjective, t

-----------------------------------------------------------------------------
(* What a step leaves alone keeps its part of the invariant *)
LEMMA Frame ==
  ASSUME GInv
  PROVE  /\ UNCHANGED owner => OwnerType'
         /\ UNCHANGED queue => QueueType'
         /\ UNCHANGED caller => CallerType' /\ BusyHaveJobs'
         /\ UNCHANGED todo => TodoType'
         /\ UNCHANGED lock => LockType'
         /\ UNCHANGED <<known, pending, event, sendVars, stopping>> => OtherTypes'
         /\ UNCHANGED <<owner, queue, caller>> => OneOwner'
         /\ UNCHANGED <<caller, lock, event>> => AtLock'
BY DEF GInv, OwnerType, QueueType, CallerType, BusyHaveJobs, TodoType, LockType, OtherTypes,
       OneOwner, IsWith, AtLock, sendVars

(* A caller goes on to another place in its job; the others stay *)
Moves(c, place) == /\ CallerType' /\ BusyHaveJobs'
                   /\ caller'[c].at = place
                   /\ \A d \in Callers : d # c => caller'[d] = caller[d]

LEMMA AtMoves ==
  ASSUME CallerType, BusyHaveJobs, NEW c \in Callers, NEW place \in Places, At(c, place),
         place # "idle" => caller[c].at # "idle"
  PROVE  Moves(c, place)
<1>1. Idle \in [job : Jobs \cup {"none"}, for : SUBSET Targets, at : Places]
  BY DEF Idle, Places
<1>2. [caller[c] EXCEPT !.at = place] \in [job : Jobs \cup {"none"}, for : SUBSET Targets, at : Places]
  BY DEF CallerType
<1>3. CallerType' /\ \A d \in Callers : d # c => caller'[d] = caller[d]
  BY <1>1, <1>2 DEF CallerType, At
<1>4. caller'[c].at = place /\ (place # "idle" => caller'[c].job = caller[c].job)
  BY DEF CallerType, At, Idle
<1> QED BY <1>3, <1>4 DEF Moves, BusyHaveJobs

(* Callers leave owners, and c leaves all of them *)
LEMMA LeavesOwners ==
  ASSUME OneOwner, NEW c \in Callers,
         \A d \in Callers : d # c => caller'[d] = caller[d],
         \A d \in Callers, o \in Owners : d # c /\ d \in Range(queue'[o]) => d \in Range(queue[o]),
         \A d \in Callers, o \in Owners : d # c /\ owner'[o] = d => owner[o] = d,
         \A o \in Owners : c \notin Range(queue'[o]) /\ owner'[o] # c
  PROVE  OneOwner'
BY DEF OneOwner, IsWith, PlaceOf

LEMMA NobodyComes ==
  ASSUME OneOwner, UNCHANGED <<queue, caller>>,
         \A d \in Callers, o \in Owners : owner'[o] = d => owner[o] = d
  PROVE  OneOwner'
BY DEF OneOwner, IsWith, PlaceOf

(* c, which is with nobody, asks o *)
LEMMA AsksOwner ==
  ASSUME GInv, NEW c \in Callers, NEW o \in Owners, Ask(c, o), UNCHANGED owner,
         caller[c].at \notin {"registry", "target"}, Moves(c, PlaceOf(o))
  PROVE  QueueType' /\ OneOwner'
<1>1. \A p \in Owners : ~IsWith(c, p)
  BY DEF GInv, OneOwner, PlaceOf
<1>2. queue[o] \in Seq(Callers) /\ IsInjective(queue[o]) /\ c \notin Range(queue[o]) /\ DOMAIN queue = Owners
  BY <1>1 DEF GInv, QueueType, IsWith
<1>3. queue'[o] = Append(queue[o], c) /\ DOMAIN queue' = Owners
      /\ \A p \in Owners : p # o => queue'[p] = queue[p]
  BY <1>2 DEF Ask
<1>4. /\ queue'[o] \in Seq(Callers) /\ IsInjective(queue'[o])
      /\ \A y : y \in Range(queue'[o]) <=> y \in Range(queue[o]) \/ y = c
  BY <1>2, <1>3, Joins
<1>5. QueueType'
  BY <1>3, <1>4 DEF GInv, QueueType
<1>6. \A d \in Callers, p \in Owners :
        d \in Range(queue'[p]) <=> d \in Range(queue[p]) \/ (d = c /\ p = o)
  BY <1>3, <1>4
<1>7. \A d \in Callers, p \in Owners : IsWith(d, p)' <=> IsWith(d, p) \/ (d = c /\ p = o)
  BY <1>6 DEF IsWith
<1>8. \A d \in Callers : d # c => caller'[d] = caller[d]
  BY DEF Moves
<1>9. caller'[c].at = PlaceOf(o)
  BY DEF Moves
<1>10. /\ \A d \in Callers, p \in Owners : IsWith(d, p)' => caller'[d].at = PlaceOf(p)
       /\ \A d \in Callers, p, q \in Owners : IsWith(d, p)' /\ IsWith(d, q)' => p = q
       /\ \A d \in Callers, p \in Owners : ~(d \in Range(queue'[p]) /\ owner'[p] = d)
  BY <1>1, <1>6, <1>7, <1>8, <1>9 DEF GInv, OneOwner, IsWith
<1> QED BY <1>5, <1>10 DEF OneOwner

(* A caller that moves has left the lock, and comes to it only to sync *)
LEMMA AwayFromLock ==
  ASSUME AtLock, NEW c \in Callers, NEW place, Moves(c, place), UNCHANGED <<lock, event>>,
         caller[c].at # "sync"
  PROVE  AtLock'
BY DEF AtLock, Moves

-----------------------------------------------------------------------------
LEMMA InitGInv == Init => GInv
<1> SUFFICES ASSUME Init PROVE GInv
  OBVIOUS
<1>1. \A S : << >> \in Seq(S) /\ IsInjective(<< >>) /\ \A y : y \notin Range(<< >>)
  BY EmptySeq, RangeOf DEF IsInjective
<1>2. Idle \in [job : Jobs \cup {"none"}, for : SUBSET Targets, at : Places]
  BY DEF Idle, Places
<1>3. OwnerType /\ QueueType /\ TodoType /\ LockType
  BY <1>1 DEF Init, OwnerType, QueueType, TodoType, LockType
<1>4. CallerType /\ BusyHaveJobs
  BY <1>2 DEF Init, CallerType, BusyHaveJobs, Idle
<1>5. OtherTypes
  <2>1. stopping \in BOOLEAN
    BY Zenon DEF Init
  <2> QED BY <2>1, QueueAssumption DEF Init, OtherTypes
<1>6. AtLock
  BY <1>1 DEF Init, AtLock
<1>7. \A c \in Callers, o \in Owners : ~IsWith(c, o)
  BY <1>1, NamesAssumption DEF Init, IsWith
<1>8. OneOwner
  BY <1>1, <1>7 DEF OneOwner, IsWith
<1> QED BY <1>3, <1>4, <1>5, <1>6, <1>8 DEF GInv

LEMMA ProgramsAreSteps ==
  /\ << >> \in Seq(Steps) /\ <<"publish">> \in Seq(Steps)
  /\ <<"publish", "send">> \in Seq(Steps) /\ <<"read", "publish">> \in Seq(Steps)
  /\ <<"publish", "sync", "read", "publish">> \in Seq(Steps)
<1>1. << >> \in Seq(Steps)
  BY EmptySeq
<1>2. <<"publish">> \in Seq(Steps)
  BY DEF Steps
<1>3. <<"publish", "send">> \in Seq(Steps) /\ <<"read", "publish">> \in Seq(Steps)
  BY DEF Steps
<1>4. <<"publish", "sync", "read", "publish">> \in Seq(Steps)
  BY DEF Steps
<1> QED BY <1>1, <1>2, <1>3, <1>4

(* The mailboxes: an owner takes the first that waits, or stops; a caller  *)
(* is refused.                                                             *)
LEMMA TakeStep ==
  ASSUME GInv, NEW o \in Owners, Take(o) \/ OwnerStops(o)
  PROVE  GInv'
<1> USE DEF GInv
<1>1. CASE OwnerStops(o)
  <2>1. /\ UNCHANGED <<queue, caller, todo, lock, known, pending, event, sendVars, stopping>>
        /\ owner' = [owner EXCEPT ![o] = "stopped"]
    BY <1>1 DEF OwnerStops
  <2>2. OwnerType'
    BY <2>1 DEF OwnerType
  <2>3. OneOwner'
    BY <2>1, NobodyComes, NamesAssumption DEF OwnerType
  <2> QED BY <2>1, <2>2, <2>3, Frame
<1>2. CASE Take(o)
  <2> DEFINE c == Head(queue[o])
  <2>1. queue[o] \in Seq(Callers) /\ IsInjective(queue[o]) /\ queue[o] # << >> /\ DOMAIN queue = Owners
    BY <1>2 DEF Take, QueueType
  <2>2. /\ c \in Callers /\ c \in Range(queue[o])
        /\ Tail(queue[o]) \in Seq(Callers) /\ IsInjective(Tail(queue[o]))
        /\ \A y : y \in Range(Tail(queue[o])) <=> y \in Range(queue[o]) /\ y # c
    BY <2>1, HeadLeaves
  <2>3. /\ UNCHANGED <<caller, lock, known, pending, event, sendVars, stopping>>
        /\ owner' = [owner EXCEPT ![o] = c] /\ queue' = [queue EXCEPT ![o] = Tail(queue[o])]
        /\ owner[o] = "idle"
    BY <1>2 DEF Take
  <2>4. TodoType'
    <3>1. caller[c].at = PlaceOf(o)
      BY <2>2 DEF OneOwner, IsWith
    <3>2. caller[c].job \in Jobs
      BY <2>2, <3>1 DEF BusyHaveJobs, PlaceOf
    <3>3. Program(caller[c].job) \in Seq(Steps)
      BY <3>2, ProgramsAreSteps DEF Program, Jobs
    <3>4. todo' = todo \/ (o \in Targets /\ todo' = [todo EXCEPT ![o] = Program(caller[c].job)])
      BY <1>2 DEF Take
    <3> HIDE DEF c
    <3> QED BY <3>3, <3>4 DEF TodoType
  <2> HIDE DEF c
  <2>5. OwnerType'
    BY <2>2, <2>3 DEF OwnerType, Processes
  <2>6. /\ DOMAIN queue' = Owners /\ queue'[o] = Tail(queue[o])
        /\ \A p \in Owners : p # o => queue'[p] = queue[p]
    BY <2>1, <2>3
  <2>7. QueueType'
    BY <2>2, <2>6 DEF QueueType
  <2>8. owner'[o] = c /\ \A p \in Owners : p # o => owner'[p] = owner[p]
    BY <2>3 DEF OwnerType
  <2>9. \A d \in Callers, p \in Owners : IsWith(d, p)' => IsWith(d, p)
    BY <2>2, <2>6, <2>8 DEF IsWith
  <2>10. \A d \in Callers, p \in Owners : ~(d \in Range(queue'[p]) /\ owner'[p] = d)
    BY <2>2, <2>6, <2>8 DEF OneOwner
  <2>11. OneOwner'
    BY <2>3, <2>9, <2>10 DEF OneOwner
  <2> QED BY <2>3, <2>4, <2>5, <2>7, <2>11, Frame
<1> QED BY <1>1, <1>2

LEMMA RefusedStep ==
  ASSUME GInv, NEW c \in Callers, Refused(c)
  PROVE  GInv'
<1> USE DEF GInv
<1>1. PICK o \in Owners : /\ Waits(c, o) /\ Withdraw(c, o)
                          /\ At(c, IF o \in Targets /\ caller[c].job = "sweep" THEN "next" ELSE "idle")
  BY DEF Refused
<1>2. UNCHANGED <<owner, todo, known, pending, event, lock, sendVars, stopping>>
  BY DEF Refused
<1>3. PICK place \in {"next", "idle"} : At(c, place)
  BY <1>1
<1>4. caller[c].at = PlaceOf(o) /\ caller[c].at \in {"registry", "target"}
  BY <1>1 DEF Waits, OneOwner, IsWith, PlaceOf
<1>5. Moves(c, place)
  BY <1>3, <1>4, AtMoves DEF Places
<1>6. PICK i \in DOMAIN queue[o] : queue[o][i] = c /\ queue' = [queue EXCEPT ![o] = RemoveAt(queue[o], i)]
  BY <1>1 DEF Withdraw
<1>7. queue[o] \in Seq(Callers) /\ IsInjective(queue[o]) /\ DOMAIN queue = Owners
  BY DEF QueueType
<1>8. /\ RemoveAt(queue[o], i) \in Seq(Callers) /\ IsInjective(RemoveAt(queue[o], i))
      /\ \A y : y \in Range(RemoveAt(queue[o], i)) => y \in Range(queue[o]) /\ y # c
  BY <1>6, <1>7, Withdraws
<1>9. /\ DOMAIN queue' = Owners /\ queue'[o] = RemoveAt(queue[o], i)
      /\ \A p \in Owners : p # o => queue'[p] = queue[p]
  BY <1>6, <1>7
<1>10. QueueType'
  BY <1>8, <1>9 DEF QueueType
<1>11. \A p \in Owners : c \notin Range(queue'[p]) /\ owner'[p] # c
  BY <1>1, <1>2, <1>8, <1>9 DEF Waits, OneOwner, IsWith
<1>12. \A d \in Callers, p \in Owners : d \in Range(queue'[p]) => d \in Range(queue[p])
  BY <1>8, <1>9
<1>13. OneOwner'
  BY <1>2, <1>5, <1>11, <1>12, LeavesOwners DEF Moves
<1>14. AtLock'
  BY <1>2, <1>4, <1>5, AwayFromLock
<1> QED BY <1>2, <1>5, <1>10, <1>13, <1>14, Frame DEF Moves

(* The callers: a job begins, the registry answers, a target is asked. *)
LEMMA BeginStep ==
  ASSUME GInv, NEW c \in Callers, Begin(c)
  PROVE  GInv'
<1> USE DEF GInv
<1>1. PICK job \in JobsOf[c], t \in Targets :
        caller' = [caller EXCEPT ![c] = [job |-> job, at |-> "registry",
                                         for |-> IF job = "sweep" THEN {} ELSE {t}]]
  BY DEF Begin
<1>2. PICK new : new = [job |-> job, at |-> "registry", for |-> IF job = "sweep" THEN {} ELSE {t}]
  OBVIOUS
<1>3. job \in Jobs
  BY JobsAssumption
<1>4. new \in [job : Jobs \cup {"none"}, for : SUBSET Targets, at : Places]
      /\ new.at = "registry" /\ new.job \in Jobs
  BY <1>2, <1>3 DEF Places
<1>5. Moves(c, "registry")
  BY <1>1, <1>2, <1>4 DEF Moves, CallerType, BusyHaveJobs
<1>6. /\ Ask(c, "registry") /\ caller[c].at = "idle"
      /\ UNCHANGED <<owner, todo, known, pending, event, lock, sendVars, stopping>>
  BY DEF Begin
<1>7. QueueType' /\ OneOwner'
  BY <1>5, <1>6, AsksOwner DEF Owners, PlaceOf
<1>8. AtLock'
  BY <1>5, <1>6, AwayFromLock
<1> QED BY <1>5, <1>6, <1>7, <1>8, Frame DEF Moves

(* c is served by o, which is done with it *)
LEMMA Served ==
  ASSUME GInv, NEW c \in Callers, NEW o \in Owners, owner[o] = c, UNCHANGED queue, NEW place,
         Moves(c, place), owner'[o] = "idle",
         \A p \in Owners : p # o => owner'[p] = owner[p] \/ owner'[p] = "idle"
  PROVE  OneOwner'
<1>1. c \notin Range(queue[o]) /\ \A p \in Owners : p # o => c \notin Range(queue[p]) /\ owner[p] # c
  BY DEF GInv, OneOwner, IsWith
<1>2. \A d \in Callers : d # "idle"
  BY NamesAssumption
<1>3. \A p \in Owners : c \notin Range(queue'[p]) /\ owner'[p] # c
  BY <1>1, <1>2
<1> QED BY <1>2, <1>3, LeavesOwners DEF GInv, Moves

LEMMA LookupStep ==
  ASSUME GInv, NEW c \in Callers, Lookup(c)
  PROVE  GInv'
<1> USE DEF GInv
<1>1. /\ owner["registry"] = c /\ owner' = [owner EXCEPT !["registry"] = "idle"]
      /\ UNCHANGED <<queue, todo, known, pending, event, sendVars, stopping>>
  BY DEF Lookup, Finish
<1>2. "registry" \in Owners
  BY DEF Owners
<1>3. caller[c].at = "registry"
  BY <1>1, <1>2 DEF OneOwner, IsWith, PlaceOf
<1>4. caller[c].job \in Jobs
  BY <1>3 DEF BusyHaveJobs
<1>5. OwnerType' /\ owner'["registry"] = "idle" /\ \A p \in Owners : p # "registry" => owner'[p] = owner[p]
  BY <1>1, <1>2 DEF OwnerType
<1>6. ASSUME NEW place, Moves(c, place) PROVE OneOwner'
  BY <1>1, <1>2, <1>5, <1>6, Served
<1>7. CASE caller[c].job = "sweep" /\ known # {}
  <2>1. /\ caller' = [caller EXCEPT ![c].for = known, ![c].at = "sync"]
        /\ lock' = Append(lock, c)
    BY <1>7 DEF Lookup
  <2>2. caller[c] \in [job : Jobs \cup {"none"}, for : SUBSET Targets, at : Places] /\ known \in SUBSET Targets
    BY DEF CallerType, OtherTypes
  <2>3. CallerType' /\ \A d \in Callers : d # c => caller'[d] = caller[d]
    BY <2>1, <2>2 DEF CallerType, Places
  <2>4. caller'[c].at = "sync" /\ caller'[c].job = caller[c].job
    BY <2>1, <2>2 DEF CallerType
  <2>5. Moves(c, "sync")
    BY <1>4, <2>3, <2>4 DEF Moves, BusyHaveJobs
  <2>6. c \notin Range(lock) /\ c \in Processes
    BY <1>3 DEF AtLock, Processes
  <2>7. LockType' /\ \A y : y \in Range(lock') <=> y \in Range(lock) \/ y = c
    BY <2>1, <2>6, Joins DEF LockType
  <2>8. AtLock'
    BY <1>1, <2>5, <2>7, NamesAssumption DEF AtLock, Moves
  <2> QED BY <1>1, <1>5, <1>6, <2>5, <2>7, <2>8, Frame DEF Moves
<1>8. CASE ~(caller[c].job = "sweep" /\ known # {})
  <2>1. PICK place \in {"next", "idle"} : At(c, place)
    BY <1>8 DEF Lookup
  <2>2. UNCHANGED lock
    BY <1>8 DEF Lookup
  <2>3. Moves(c, place)
    BY <1>3, <2>1, AtMoves DEF Places
  <2>4. AtLock'
    BY <1>1, <1>3, <2>2, <2>3, AwayFromLock
  <2> QED BY <1>1, <1>5, <1>6, <2>2, <2>3, <2>4, Frame DEF Moves
<1> QED BY <1>7, <1>8

LEMMA EnsureStep ==
  ASSUME GInv, NEW c \in Callers, Ensure(c)
  PROVE  GInv'
<1> USE DEF GInv
<1>1. owner["registry"] = c /\ UNCHANGED <<queue, todo, pending, event, lock, sendVars, stopping>>
  BY DEF Ensure
<1>2. "registry" \in Owners
  BY DEF Owners
<1>3. caller[c].at = "registry"
  BY <1>1, <1>2 DEF OneOwner, IsWith, PlaceOf
<1>4. PICK place \in {"next", "idle"} : At(c, place)
  BY DEF Ensure
<1>5. Moves(c, place)
  BY <1>3, <1>4, AtMoves DEF Places
<1>6. known' = known \/ known' = known \cup caller[c].for
  BY DEF Ensure
<1>7. OtherTypes'
  BY <1>1, <1>6 DEF OtherTypes, CallerType, sendVars
<1>8. \/ owner' = [o \in Owners |-> IF o \in {"registry"} \cup caller[c].for THEN "idle" ELSE owner[o]]
      \/ owner' = [owner EXCEPT !["registry"] = "idle"]
  BY DEF Ensure, Finish
<1>9. /\ OwnerType' /\ owner'["registry"] = "idle"
      /\ \A p \in Owners : p # "registry" => owner'[p] = owner[p] \/ owner'[p] = "idle"
  BY <1>2, <1>8 DEF OwnerType
<1>10. OneOwner'
  BY <1>1, <1>2, <1>5, <1>9, Served
<1>11. AtLock'
  BY <1>1, <1>3, <1>5, AwayFromLock
<1> QED BY <1>1, <1>5, <1>7, <1>9, <1>10, <1>11, Frame DEF Moves

LEMMA AskTargetStep ==
  ASSUME GInv, NEW c \in Callers, AskTarget(c)
  PROVE  GInv'
<1> USE DEF GInv
<1>1. /\ caller[c].at = "next"
      /\ UNCHANGED <<owner, todo, known, pending, event, lock, sendVars, stopping>>
  BY DEF AskTarget
<1>2. CASE At(c, "idle") /\ UNCHANGED queue
  <2>1. Moves(c, "idle")
    BY <1>2, AtMoves DEF Places
  <2>2. \A o \in Owners : ~IsWith(c, o)
    BY <1>1 DEF OneOwner, PlaceOf
  <2>3. OneOwner'
    BY <1>1, <1>2, <2>1, <2>2, LeavesOwners DEF Moves, IsWith
  <2>4. AtLock'
    BY <1>1, <2>1, AwayFromLock
  <2> QED BY <1>1, <1>2, <2>1, <2>3, <2>4, Frame DEF Moves
<1>3. ASSUME NEW t \in caller[c].for, Ask(c, t),
             caller' = [caller EXCEPT ![c].at = "target", ![c].for = caller[c].for \ {t}]
      PROVE  GInv'
  <2>1. caller[c] \in [job : Jobs \cup {"none"}, for : SUBSET Targets, at : Places]
    BY DEF CallerType
  <2>2. t \in Targets /\ caller[c].for \ {t} \in SUBSET Targets
    BY <2>1
  <2>3. CallerType' /\ \A d \in Callers : d # c => caller'[d] = caller[d]
    BY <1>3, <2>1, <2>2 DEF CallerType, Places
  <2>4. caller'[c].at = "target" /\ caller'[c].job = caller[c].job
    BY <1>3, <2>1 DEF CallerType
  <2>5. Moves(c, "target")
    BY <1>1, <2>3, <2>4 DEF Moves, BusyHaveJobs
  <2>6. t \in Owners /\ PlaceOf(t) = "target"
    BY <2>2, NamesAssumption DEF Owners, PlaceOf
  <2>7. QueueType' /\ OneOwner'
    BY <1>1, <1>3, <2>5, <2>6, AsksOwner
  <2>8. AtLock'
    BY <1>1, <2>5, AwayFromLock
  <2> QED BY <1>1, <2>5, <2>7, <2>8, Frame DEF Moves
<1> QED BY <1>2, <1>3 DEF AskTarget

(* The cluster cache and its lock *)
LEMMA LockHeadLeaves ==
  ASSUME LockType, NEW p, Holds(p), lock' = Tail(lock)
  PROVE  LockType' /\ \A y : y \in Range(lock') <=> y \in Range(lock) /\ y # p
BY HeadLeaves DEF LockType, Holds

(* A caller that is in no mailbox goes on *)
LEMMA MovesAlone ==
  ASSUME GInv, NEW c \in Callers, NEW place, Moves(c, place), UNCHANGED <<owner, queue>>,
         caller[c].at \notin {"registry", "target"}
  PROVE  OneOwner'
<1>1. \A o \in Owners : ~IsWith(c, o)
  BY DEF GInv, OneOwner, PlaceOf
<1> QED BY <1>1, LeavesOwners DEF GInv, Moves, IsWith

LEMMA SweepSyncStep ==
  ASSUME GInv, NEW c \in Callers, SweepSync(c)
  PROVE  GInv'
<1> USE DEF GInv
<1>1. /\ caller[c].at = "sync" /\ Holds(c) /\ lock' = Tail(lock) /\ (At(c, "next") \/ At(c, "idle"))
      /\ UNCHANGED <<owner, queue, todo, known, pending, event, sendVars, stopping>>
  BY DEF SweepSync, Sync
<1>2. PICK place \in {"next", "idle"} : At(c, place)
  BY <1>1
<1>3. Moves(c, place)
  BY <1>1, <1>2, AtMoves DEF Places
<1>4. LockType' /\ \A y : y \in Range(lock') <=> y \in Range(lock) /\ y # c
  BY <1>1, LockHeadLeaves
<1>5. AtLock'
  BY <1>1, <1>3, <1>4 DEF AtLock, Moves
<1>6. OneOwner'
  BY <1>1, <1>3, MovesAlone
<1> QED BY <1>1, <1>3, <1>4, <1>5, <1>6, Frame DEF Moves

LEMMA CacheSteps ==
  ASSUME GInv, EventBegins \/ CacheStep
  PROVE  GInv'
<1> USE DEF GInv
<1>1. UNCHANGED <<owner, queue, caller, todo, known, sendVars, stopping>>
  BY DEF EventBegins, CacheStep, populateResourceInfo, route
<1>2. CASE EventBegins
  <2>1. event = "idle" /\ event' \in {"populate", "route"} /\ lock' = Append(lock, "cache") /\ UNCHANGED pending
    BY <1>2 DEF EventBegins
  <2>2. "cache" \in Processes /\ "cache" \notin Range(lock)
    BY <2>1 DEF Processes, AtLock
  <2>3. LockType' /\ \A y : y \in Range(lock') <=> y \in Range(lock) \/ y = "cache"
    BY <2>1, <2>2, Joins DEF LockType
  <2>4. AtLock'
    BY <1>1, <2>1, <2>3, NamesAssumption DEF AtLock
  <2>5. OtherTypes'
    BY <1>1, <2>1 DEF OtherTypes, sendVars
  <2> QED BY <1>1, <2>3, <2>4, <2>5, Frame
<1>3. CASE populateResourceInfo
  <2>1. event' = "route" /\ UNCHANGED <<lock, pending>>
    BY <1>3 DEF populateResourceInfo
  <2>2. OtherTypes' /\ AtLock'
    BY <1>1, <2>1 DEF OtherTypes, AtLock, sendVars
  <2> QED BY <1>1, <2>1, <2>2, Frame
<1>4. CASE route
  <2>1. Holds("cache") /\ lock' = Tail(lock) /\ event' = "idle"
    BY <1>4 DEF route
  <2>2. LockType' /\ \A y : y \in Range(lock') <=> y \in Range(lock) /\ y # "cache"
    BY <2>1, LockHeadLeaves
  <2>3. AtLock'
    BY <1>1, <2>1, <2>2 DEF AtLock
  <2>4. \E recipients \in SUBSET known : pending' = pending \cup recipients
    BY <1>4 DEF route
  <2>5. OtherTypes'
    BY <1>1, <2>1, <2>4 DEF OtherTypes, sendVars
  <2> QED BY <1>1, <2>2, <2>3, <2>5, Frame
<1> QED BY <1>2, <1>3, <1>4 DEF CacheStep

(* The targets *)
LEMMA StepsLeft ==
  ASSUME TodoType, NEW t \in Targets, todo[t] # << >>, StepDone(t) \/ GiveUp(t)
  PROVE  TodoType'
<1>1. todo[t] \in Seq(Steps)
  BY DEF TodoType
<1>2. Tail(todo[t]) \in Seq(Steps)
  BY <1>1, HeadTailProperties
<1>3. << >> \in Seq(Steps)
  BY ProgramsAreSteps
<1> QED BY <1>2, <1>3 DEF TodoType, StepDone, GiveUp

LEMMA TargetSteps ==
  ASSUME GInv, NEW t \in Targets,
         TakeChange(t) \/ Publish(t) \/ Lock(t) \/ RescanSync(t) \/ Read(t)
  PROVE  GInv'
<1> USE DEF GInv
<1>1. CASE TakeChange(t)
  <2>1. /\ UNCHANGED <<queue, caller, known, event, lock, sendVars, stopping>>
        /\ pending' = pending \ {t} /\ owner' = [owner EXCEPT ![t] = "change"]
    BY <1>1 DEF TakeChange
  <2>2. OtherTypes'
    BY <2>1 DEF OtherTypes, sendVars
  <2>3. OwnerType'
    BY <2>1 DEF OwnerType
  <2>4. OneOwner'
    BY <2>1, NobodyComes, NamesAssumption DEF OwnerType
  <2>5. TodoType'
    BY <1>1, ProgramsAreSteps DEF TakeChange, TodoType
  <2> QED BY <2>1, <2>2, <2>3, <2>4, <2>5, Frame
<1>2. CASE Publish(t)
  <2>1. UNCHANGED <<owner, queue, caller, known, pending, event, lock, sendVars, stopping>>
    BY <1>2 DEF Publish
  <2>2. TodoType'
    BY <1>2, StepsLeft DEF Publish, Doing
  <2> QED BY <2>1, <2>2, Frame
<1>3. CASE Lock(t)
  <2>1. /\ UNCHANGED <<owner, queue, caller, todo, known, pending, event, sendVars, stopping>>
        /\ t \notin Range(lock) /\ lock' = Append(lock, t)
    BY <1>3 DEF Lock
  <2>2. LockType' /\ \A y : y \in Range(lock') <=> y \in Range(lock) \/ y = t
    BY <2>1, Joins DEF LockType, Processes
  <2>3. AtLock'
    BY <2>1, <2>2, NamesAssumption DEF AtLock
  <2> QED BY <2>1, <2>2, <2>3, Frame
<1>4. CASE RescanSync(t) \/ Read(t)
  <2>1. /\ UNCHANGED <<owner, queue, caller, known, pending, event, sendVars, stopping>>
        /\ Holds(t) /\ lock' = Tail(lock)
        /\ todo[t] # << >> /\ (StepDone(t) \/ GiveUp(t))
    BY <1>4 DEF RescanSync, Sync, Read, Doing
  <2>2. LockType' /\ \A y : y \in Range(lock') <=> y \in Range(lock) /\ y # t
    BY <2>1, LockHeadLeaves
  <2>3. AtLock'
    BY <2>1, <2>2 DEF AtLock
  <2>4. TodoType'
    BY <2>1, StepsLeft
  <2> QED BY <2>1, <2>2, <2>3, <2>4, Frame
<1> QED BY <1>1, <1>2, <1>3, <1>4

LEMMA DoneStep ==
  ASSUME GInv, NEW t \in Targets, Done(t)
  PROVE  GInv'
<1> USE DEF GInv
<1>1. /\ owner' = [owner EXCEPT ![t] = "idle"] /\ owner[t] \in Callers \cup {"change"}
      /\ UNCHANGED <<queue, todo, known, pending, event, lock, sendVars, stopping>>
  BY DEF Done, Finish
<1>2. t \in Owners /\ t # "registry"
  BY NamesAssumption DEF Owners
<1>3. OwnerType' /\ owner'[t] = "idle" /\ \A p \in Owners : p # t => owner'[p] = owner[p]
  BY <1>1, <1>2 DEF OwnerType
<1>4. CASE owner[t] = "change"
  <2>1. UNCHANGED caller
    BY <1>4 DEF Done
  <2>2. OneOwner'
    BY <1>1, <1>3, <2>1, NobodyComes, NamesAssumption
  <2> QED BY <1>1, <1>3, <2>1, <2>2, Frame
<1>5. CASE owner[t] # "change"
  <2>1. PICK c \in Callers : owner[t] = c
    BY <1>1, <1>5
  <2>2. PICK place \in {"send", "idle", "rpc", "next"} : At(c, place)
    BY <1>5, <2>1 DEF Done
  <2>3. caller[c].at = "target"
    BY <1>2, <2>1 DEF OneOwner, IsWith, PlaceOf
  <2>4. Moves(c, place)
    BY <2>2, <2>3, AtMoves DEF Places
  <2>5. OneOwner'
    BY <1>1, <1>2, <1>3, <2>1, <2>4, Served
  <2>6. AtLock'
    BY <1>1, <2>3, <2>4, AwayFromLock
  <2> QED BY <1>1, <1>3, <2>4, <2>5, <2>6, Frame DEF Moves
<1> QED BY <1>4, <1>5

(* The send queue and its workers, and the end of the process *)
LEMMA SendSteps ==
  ASSUME GInv,
         \/ \E t \in Targets : SendChange(t)
         \/ \E c \in Callers : SendCommand(c) \/ AnswerSweep(c)
         \/ runWorker \/ Answer \/ Stop
  PROVE  GInv'
<1> USE DEF GInv
<1>1. ASSUME Enqueue, UNCHANGED <<known, pending, event, stopping>> PROVE OtherTypes'
  BY <1>1, QueueAssumption DEF Enqueue, OtherTypes
<1>2. ASSUME NEW t \in Targets, SendChange(t) PROVE GInv'
  <2>1. UNCHANGED <<owner, queue, caller, known, pending, event, lock, stopping>> /\ Enqueue
    BY <1>2 DEF SendChange
  <2>2. TodoType'
    BY <1>2, StepsLeft DEF SendChange, Doing
  <2> QED BY <1>1, <2>1, <2>2, Frame
<1>3. ASSUME NEW c \in Callers, SendCommand(c) \/ AnswerSweep(c) PROVE GInv'
  <2>1. /\ UNCHANGED <<owner, queue, todo, known, pending, event, lock, stopping>>
        /\ caller[c].at \in {"send", "rpc"} /\ (At(c, "idle") \/ At(c, "next"))
        /\ Enqueue \/ UNCHANGED sendVars
    BY <1>3 DEF SendCommand, AnswerSweep
  <2>2. PICK place \in {"idle", "next"} : At(c, place)
    BY <2>1
  <2>3. Moves(c, place)
    BY <2>1, <2>2, AtMoves DEF Places
  <2>4. OneOwner'
    BY <2>1, <2>3, MovesAlone
  <2>5. AtLock'
    BY <2>1, <2>3, AwayFromLock
  <2>6. OtherTypes'
    BY <1>1, <2>1, Frame
  <2> QED BY <2>1, <2>3, <2>4, <2>5, <2>6, Frame DEF Moves
<1>4. CASE runWorker \/ Answer
  <2>1. UNCHANGED <<owner, queue, caller, todo, known, pending, event, lock, stopping>>
    BY <1>4 DEF runWorker, Answer
  <2>2. OtherTypes'
    BY <1>4, <2>1, QueueAssumption DEF runWorker, Answer, OtherTypes
  <2> QED BY <2>1, <2>2, Frame
<1>5. CASE Stop
  <2>1. UNCHANGED <<owner, queue, caller, todo, known, pending, event, lock, sendVars>> /\ stopping' = TRUE
    BY <1>5 DEF Stop
  <2>2. stopping' \in BOOLEAN
    BY <2>1, Zenon
  <2>3. OtherTypes'
    BY <2>1, <2>2 DEF OtherTypes, sendVars
  <2> QED BY <2>1, <2>3, Frame
<1> QED BY <1>2, <1>3, <1>4, <1>5

LEMMA GInvInvariant == Spec => []GInv
<1>1. GInv /\ UNCHANGED vars => GInv'
  BY Frame DEF vars, sendVars, GInv
<1>2. GInv /\ Next => GInv'
  BY TakeStep, RefusedStep, BeginStep, LookupStep, EnsureStep, AskTargetStep, SweepSyncStep,
     CacheSteps, TargetSteps, DoneStep, SendSteps
     DEF Next, CallerStep, RegistryStep, TargetStep
<1> QED BY InitGInv, <1>1, <1>2, PTL DEF Spec

-----------------------------------------------------------------------------
(* The theorems *)

(* The send queue holds at most its capacity and at most                   *)
(* concurrentConnections requests are under way; every mailbox, and the    *)
(* lock of the cluster cache, has each goroutine in it once at most; and   *)
(* only targets the registry knows have changes waiting (mailbox.ask,      *)
(* NewDefaultMonitoredResourcesUpdater).                                   *)
THEOREM GoroutinesTypeCorrect == Spec => []GTypeOK
<1>1. GInv => GTypeOK
  <2> SUFFICES ASSUME GInv PROVE GTypeOK
    OBVIOUS
  <2>1. \A o \in Owners : queue[o] \in Seq(Processes) /\ IsInjective(queue[o])
    <3>1. Callers \subseteq Processes
      BY DEF Processes
    <3> QED BY <3>1, SeqMonotonic DEF GInv, QueueType
  <2> QED BY <2>1 DEF GInv, GTypeOK, OwnerType, CallerType, TodoType, LockType, OtherTypes, Places, Steps
<1> QED BY <1>1, GInvInvariant, PTL

(* A caller is with one owner at most: it waits in one mailbox, or is      *)
(* served there, and is not at the lock of the cluster cache meanwhile.    *)
(* So a goroutine never waits for two things at once, and a refusal (the   *)
(* context is done) leaves no operation of it behind in another mailbox    *)
(* (mailbox.ask).                                                          *)
THEOREM WaitsInOnePlace ==
  Spec => [](\A c \in Callers, o \in Owners :
               IsWith(c, o) => /\ \A p \in Owners : IsWith(c, p) => p = o
                               /\ c \notin Range(lock))
<1>1. GInv => \A c \in Callers, o \in Owners :
               IsWith(c, o) => /\ \A p \in Owners : IsWith(c, p) => p = o
                               /\ c \notin Range(lock)
  BY DEF GInv, OneOwner, AtLock, PlaceOf
<1> QED BY <1>1, GInvInvariant, PTL
==============================================================================
