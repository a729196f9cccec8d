------------------------- MODULE ChangeQueueProofs -------------------------
(***************************************************************************)
(* ChangeQueue keeps its insertion-ordered map and implements the safety   *)
(* part of NetChanges, for every set of keys, versions and every bound.    *)
(***************************************************************************)
EXTENDS QueuedChanges, TLAPS

(* The inductive invariant: the types, the map and what it holds. *)
QInv == QTypeOK /\ InsertionOrderedMap /\ QueuedIsNetChange

(* A change the cache emits for resource k is a change, and its key is k:  *)
(* resourceChange.key never dereferences nil (resource_changes.go:16-21).  *)
LEMMA KeyOfRoutedChange ==
  ASSUME NEW k \in Keys, NEW old \in StatesOf(k), NEW new \in StatesOf(k),
         old # Nil \/ new # Nil
  PROVE  /\ [oldRes |-> old, newRes |-> new] \in Change
         /\ [oldRes |-> old, newRes |-> new] \in ChangeOf(k)
         /\ key([oldRes |-> old, newRes |-> new]) = k
  BY NilAssumption DEF StatesOf, ResourceOrNil, Resource, Change, ChangeOf, key

(* The queue starts empty, with nothing owed (resource_changes.go:43-44). *)
LEMMA QInvInit == QInit => QInv
  <1> SUFFICES ASSUME QInit PROVE QInv
    OBVIOUS
  <1> USE DEF QInit, newChangeQueue, Init
  <1>1. QTypeOK
    BY DEF QTypeOK, StatesOf
  <1>2. InsertionOrderedMap
    BY DEF InsertionOrderedMap
  <1>3. QueuedIsNetChange
    BY DEF QueuedIsNetChange
  <1>4. QED
    BY <1>1, <1>2, <1>3 DEF QInv

(* Accepting a change: folding it or queueing it (resource_changes.go:60-68). *)
LEMMA QInvIn ==
  ASSUME QInv, NEW k \in Keys, NEW res \in StatesOf(k), In(k, res)
  PROVE  QInv'
  <1> DEFINE change == [oldRes |-> live[k], newRes |-> res]
  <1> USE DEF QInv
  <1>1. live[k] \in StatesOf(k) /\ (live[k] # Nil \/ res # Nil)
    BY DEF QTypeOK, In, Routed
  <1>2. change \in Change /\ change \in ChangeOf(k) /\ key(change) = k
    BY <1>1, KeyOfRoutedChange
  <1>3. /\ backlog' = [backlog EXCEPT ![k] = Append(@, change)]
        /\ live' = [live EXCEPT ![k] = res]
        /\ UNCHANGED <<handed, running>>
    BY DEF In, Routed
  <1>4. backlog[k] \in Seq(Change) /\ backlog'[k] = Append(backlog[k], change)
    BY <1>3 DEF QTypeOK
  <1>5. /\ backlog'[k] # <<>>
        /\ Len(backlog'[k]) = Len(backlog[k]) + 1
        /\ backlog'[k][Len(backlog'[k])] = change
        /\ backlog[k] # <<>> => backlog'[k][1] = backlog[k][1]
        /\ backlog[k] = <<>> => backlog'[k][1] = change
    BY <1>2, <1>4
  <1> HIDE DEF change
  <1>6. CASE Fold(change)
    <2>1. /\ k \in DOMAIN queued
          /\ queued' = [queued EXCEPT ![k].newRes = change.newRes]
          /\ order' = order
      BY <1>2, <1>6 DEF Fold
    <2>2. queued'[k] = [oldRes |-> queued[k].oldRes, newRes |-> change.newRes]
      BY <2>1, <1>2 DEF QTypeOK, Change
    <2>3. QTypeOK'
      <3>1. queued'[k] \in Change
        BY <1>2, <2>1, <2>2 DEF QTypeOK, Change
      <3>2. \A x \in DOMAIN queued : x # k => queued'[x] = queued[x]
        BY <2>1
      <3>3. DOMAIN queued' = DOMAIN queued /\ queued' \in [DOMAIN queued' -> Change]
        BY <2>1, <3>1, <3>2 DEF QTypeOK
      <3>8. \A x \in DOMAIN queued' : queued'[x] \in ChangeOf(x)
        BY <1>2, <2>1, <2>2, <3>2, <3>3 DEF QTypeOK, ChangeOf
      <3>4. \A x \in Keys : live'[x] \in StatesOf(x)
        BY <1>3 DEF QTypeOK
      <3>5. live' \in [Keys -> ResourceOrNil]
        BY <1>3 DEF QTypeOK, StatesOf
      <3>6. backlog' \in [Keys -> Seq(Change)]
        BY <1>2, <1>3 DEF QTypeOK
      <3>7. QED
        BY <1>3, <2>1, <3>3, <3>4, <3>5, <3>6, <3>8 DEF QTypeOK
    <2>4. InsertionOrderedMap'
      BY <2>1 DEF InsertionOrderedMap
    <2>5. queued'[k] = NetEffect(backlog'[k])
      BY <1>5, <2>1, <2>2 DEF QueuedIsNetChange, NetEffect
    <2>6. QueuedIsNetChange'
      BY <1>3, <1>5, <2>1, <2>5 DEF QueuedIsNetChange, QTypeOK
    <2>7. QED
      BY <2>3, <2>4, <2>6
  <1>7. CASE Enqueue(change)
    <2>1. /\ k \notin DOMAIN queued
          /\ queued' = [x \in DOMAIN queued \cup {k} |->
                          IF x = k THEN change ELSE queued[x]]
          /\ order' = Append(order, k)
      BY <1>2, <1>7 DEF Enqueue
    <2>2. QTypeOK'
      BY <1>2, <1>3, <2>1 DEF QTypeOK, StatesOf
    <2>3. order \in Seq(Keys) /\ Len(order') = Len(order) + 1
          /\ order'[Len(order')] = k
          /\ \A i \in 1..Len(order) : order'[i] = order[i] /\ order[i] # k
      BY <2>1 DEF QTypeOK, InsertionOrderedMap
    <2>4. \A i, j \in 1..Len(order') : order'[i] = order'[j] => i = j
      BY <2>3 DEF InsertionOrderedMap
    <2>5. {order'[i] : i \in 1..Len(order')} = DOMAIN queued'
      <3>1. DOMAIN queued' = {order[i] : i \in 1..Len(order)} \cup {k}
        BY <2>1 DEF InsertionOrderedMap
      <3>2. QED
        BY <2>3, <3>1
    <2>6. InsertionOrderedMap'
      BY <2>4, <2>5 DEF InsertionOrderedMap
    <2>7. queued'[k] = NetEffect(backlog'[k])
      BY <1>2, <1>5, <2>1 DEF QueuedIsNetChange, NetEffect, Change
    <2>8. QueuedIsNetChange'
      BY <1>3, <1>5, <2>1, <2>7 DEF QueuedIsNetChange, QTypeOK
    <2>9. QED
      BY <2>2, <2>6, <2>8
  <1>8. QED
    BY <1>6, <1>7 DEF In, Accept, change

(* Handing over the first change (resource_changes.go:70-75). *)
LEMMA QInvOut ==
  ASSUME QInv, Out
  PROVE  QInv'
  <1> USE DEF QInv
  <1> DEFINE k == Head(order)
  <1>1. /\ order \in Seq(Keys) /\ order # <<>>
        /\ k = order[1] /\ k \in DOMAIN queued /\ k \in Keys
    <2>1. order \in Seq(Keys) /\ order # <<>>
      BY DEF Out, HandOver, QTypeOK
    <2>2. 1 \in 1..Len(order) /\ k = order[1] /\ k \in Keys
      BY <2>1
    <2>3. k \in DOMAIN queued
      BY <2>2 DEF InsertionOrderedMap
    <2>4. QED
      BY <2>1, <2>2, <2>3
  <1>2. /\ handed' = queued[k] /\ order' = Tail(order)
        /\ queued' = [x \in DOMAIN queued \ {k} |-> queued[x]]
        /\ backlog' = [backlog EXCEPT ![k] = <<>>]
        /\ UNCHANGED <<live, running>>
    BY DEF Out, HandOver
  <1>3. /\ order' \in Seq(Keys) /\ Len(order') = Len(order) - 1
        /\ \A i \in 1..Len(order') : order'[i] = order[i + 1]
    BY <1>1, <1>2
  <1> HIDE DEF k
  <1>4. QTypeOK'
    BY <1>1, <1>2, <1>3 DEF QTypeOK, StatesOf
  <1>5. InsertionOrderedMap'
    <2>1. \A i, j \in 1..Len(order') : order'[i] = order'[j] => i = j
      BY <1>1, <1>3 DEF InsertionOrderedMap
    <2>2. \A x : x \in DOMAIN queued' <=> \E i \in 1..Len(order') : order'[i] = x
      <3> TAKE x
      <3>1. x \in DOMAIN queued' <=> \E i \in 1..Len(order) : order[i] = x /\ i # 1
        BY <1>1, <1>2 DEF InsertionOrderedMap
      <3>2. ASSUME NEW i \in 1..Len(order), order[i] = x, i # 1
            PROVE  \E j \in 1..Len(order') : order'[j] = x
        <4>1. i - 1 \in 1..Len(order') /\ order'[i - 1] = x
          BY <1>1, <1>3, <3>2
        <4>2. QED
          BY <4>1
      <3>3. ASSUME NEW j \in 1..Len(order'), order'[j] = x
            PROVE  \E i \in 1..Len(order) : order[i] = x /\ i # 1
        <4>1. j + 1 \in 1..Len(order) /\ order[j + 1] = x /\ j + 1 # 1
          BY <1>1, <1>3, <3>3
        <4>2. QED
          BY <4>1
      <3>4. QED
        BY <3>1, <3>2, <3>3
    <2>3. {order'[i] : i \in 1..Len(order')} = DOMAIN queued'
      BY <2>2, Zenon
    <2>4. QED
      BY <2>1, <2>3 DEF InsertionOrderedMap
  <1>6. QueuedIsNetChange'
    BY <1>1, <1>2 DEF QueuedIsNetChange, QTypeOK
  <1>7. QED
    BY <1>4, <1>5, <1>6

(* Every step of the queue and of the cache keeps the invariant. *)
LEMMA QInvNext == QInv /\ [QNext]_allVars => QInv'
  <1> SUFFICES ASSUME QInv, [QNext]_allVars PROVE QInv'
    OBVIOUS
  <1>1. ASSUME NEW k \in Keys, NEW res \in StatesOf(k), In(k, res)
        PROVE  QInv'
    BY <1>1, QInvIn
  <1>2. ASSUME NEW k \in Keys, NEW res \in StatesOf(k), Unrelated(k, res)
        PROVE  QInv'
    <2>1. /\ live' = [live EXCEPT ![k] = res]
          /\ UNCHANGED <<backlog, handed, running, order, queued>>
      BY <1>2 DEF Unrelated, NotRouted, queueVars
    <2>2. QTypeOK'
      BY <2>1 DEF QInv, QTypeOK, StatesOf
    <2>3. InsertionOrderedMap' /\ QueuedIsNetChange'
      BY <2>1 DEF QInv, InsertionOrderedMap, QueuedIsNetChange
    <2>4. QED
      BY <2>2, <2>3 DEF QInv
  <1>3. CASE Out
    BY <1>3, QInvOut
  <1>4. CASE Done
    <2>1. /\ UNCHANGED <<live, backlog, handed, order, queued>>
          /\ running' \in BOOLEAN
      BY <1>4 DEF Done, Stop, queueVars
    <2>2. QED
      BY <2>1 DEF QInv, QTypeOK, InsertionOrderedMap, QueuedIsNetChange
  <1>5. CASE UNCHANGED allVars
    BY <1>5 DEF allVars, QInv, QTypeOK, InsertionOrderedMap, QueuedIsNetChange
  <1>6. QED
    BY <1>1, <1>2, <1>3, <1>4, <1>5 DEF QNext

(* The inductive invariant holds in every reachable state. *)
LEMMA QInvAlways == QSpec => []QInv
  <1>1. QED
    BY QInvInit, QInvNext, PTL DEF QSpec

(* The queue's variables keep their types (resource_changes.go:40-78). *)
THEOREM QTypeCorrect == QSpec => []QTypeOK
  <1>1. QInv => QTypeOK
    BY DEF QInv
  <1>2. QED
    BY <1>1, QInvAlways, PTL

(* order and queued stay an insertion-ordered map (resource_changes.go:41-42). *)
THEOREM QueueIsAMap == QSpec => []InsertionOrderedMap
  <1>1. QInv => InsertionOrderedMap
    BY DEF QInv
  <1>2. QED
    BY <1>1, QInvAlways, PTL

(* A queued change is the net effect of the changes folded into it, and   *)
(* none is queued when none is owed (resource_changes.go:23-25).          *)
THEOREM FoldKeepsNetChange == QSpec => []QueuedIsNetChange
  <1>1. QInv => QueuedIsNetChange
    BY DEF QInv
  <1>2. QED
    BY <1>1, QInvAlways, PTL

(* No step moves a waiting key back (resource_changes.go:41-42): a fold    *)
(* leaves order alone, an arrival goes behind, a hand-over moves the rest  *)
(* forward.                                                                *)
THEOREM FirstChangedFirstServed == QSpec => NeverOvertaken
  <1>1. ASSUME QInv, [QNext]_allVars PROVE ~Overtaken
    <2> SUFFICES ASSUME NEW k \in Keys, NEW i \in 1..Len(order),
                        order[i] = k, k \in DOMAIN queued'
                 PROVE  \E j \in 1..Len(order') : j <= i /\ order'[j] = k
      BY DEF Overtaken
    <2>1. order \in Seq(Keys) /\ Len(order) \in Nat
      BY <1>1 DEF QInv, QTypeOK
    <2>2. CASE order' = order
      BY <2>1, <2>2
    <2>3. ASSUME NEW x \in Keys, order' = Append(order, x)
          PROVE  \E j \in 1..Len(order') : j <= i /\ order'[j] = k
      <3>1. i \in 1..Len(order') /\ order'[i] = k
        BY <2>1, <2>3
      <3>2. QED
        BY <3>1
    <2>4. CASE Out
      <3>1. /\ order' = Tail(order) /\ order # <<>>
            /\ queued' = [x \in DOMAIN queued \ {Head(order)} |-> queued[x]]
        BY <2>4 DEF Out, HandOver
      <3>2. i # 1
        BY <2>1, <3>1
      <3>3. i - 1 \in 1..Len(order') /\ order'[i - 1] = k /\ i - 1 <= i
        BY <2>1, <3>1, <3>2
      <3>4. QED
        BY <3>3
    <2>5. ASSUME NEW x \in Keys, NEW res \in StatesOf(x), In(x, res)
          PROVE  order' = order \/ order' = Append(order, x)
      <3> DEFINE change == [oldRes |-> live[x], newRes |-> res]
      <3>1. key(change) = x
        BY <1>1, <2>5, KeyOfRoutedChange DEF QInv, QTypeOK, In, Routed
      <3>2. QED
        BY <2>5, <3>1 DEF In, Accept, Fold, Enqueue
    <2>6. ASSUME NEW x \in Keys, NEW res \in StatesOf(x), Unrelated(x, res)
          PROVE  order' = order
      BY <2>6 DEF Unrelated, queueVars
    <2>7. CASE Done
      BY <2>2, <2>7 DEF Done, queueVars
    <2>8. CASE UNCHANGED allVars
      BY <2>2, <2>8 DEF allVars
    <2>9. QED
      BY <1>1, <2>2, <2>3, <2>4, <2>5, <2>6, <2>7, <2>8 DEF QNext
  <1>2. QED
    BY <1>1, QInvAlways, PTL DEF QSpec, NeverOvertaken

(* What the queue does is what NetChanges allows: the fold and the map are *)
(* an implementation of the unfolded backlog (resource_changes.go:23-25).  *)
THEOREM ImplementsNetChanges == QSpec => Promise!SafetySpec
  <1>1. QInit => Promise!Init
    BY DEF QInit, Init, Promise!Init, Promise!ResourceOrNil,
           Promise!Resource, Promise!StatesOf, ResourceOrNil, Resource, StatesOf
  <1>2. ASSUME QInv, [QNext]_allVars PROVE [Promise!Next]_(Promise!vars)
    <2> USE DEF Promise!ResourceOrNil, Promise!Resource, Promise!StatesOf,
                ResourceOrNil, Resource, StatesOf
    <2>1. ASSUME NEW k \in Keys, NEW res \in StatesOf(k), In(k, res)
          PROVE  Promise!Routed(k, res)
      BY <2>1 DEF In, Routed, Promise!Routed
    <2>2. ASSUME NEW k \in Keys, NEW res \in StatesOf(k), Unrelated(k, res)
          PROVE  Promise!NotRouted(k, res)
      BY <2>2 DEF Unrelated, NotRouted, Promise!NotRouted
    <2>3. CASE Out
      <3>1. order \in Seq(Keys) /\ order # <<>> /\ Head(order) = order[1]
        BY <1>2, <2>3 DEF Out, HandOver, QInv, QTypeOK
      <3>2. Head(order) \in Keys /\ Head(order) \in DOMAIN queued
        BY <1>2, <3>1 DEF QInv, InsertionOrderedMap
      <3>3. /\ backlog[Head(order)] # <<>>
            /\ queued[Head(order)] = NetEffect(backlog[Head(order)])
        BY <1>2, <3>2 DEF QInv, QueuedIsNetChange
      <3>4. Promise!Take(Head(order))
        BY <2>3, <3>3 DEF Out, HandOver, Promise!Take, Promise!NetEffect, NetEffect
      <3>5. QED
        BY <3>2, <3>4 DEF Promise!Next
    <2>4. CASE Done
      BY <2>4 DEF Done, Stop, Promise!Stop, Promise!Next
    <2>5. CASE UNCHANGED allVars
      BY <2>5 DEF allVars, Promise!vars
    <2>6. QED
      BY <1>2, <2>1, <2>2, <2>3, <2>4, <2>5 DEF QNext, Promise!Next
  <1>3. QED
    BY <1>1, <1>2, QInvAlways, PTL DEF QSpec, Promise!SafetySpec
=============================================================================
