---------------------------- MODULE ChangeQueue ----------------------------
(***************************************************************************)
(* changeQueue of internal/cluster/resource_changes.go: the goroutine that *)
(* stands between the interest index and one target.  It accepts a change  *)
(* at any time, because the cluster cache routes changes while it holds    *)
(* its lock, and folds a change of a resource it already holds into the    *)
(* change it holds.                                                        *)
(*                                                                         *)
(* The channels in and out are unbuffered, so a send is one step of both   *)
(* goroutines: Accept is the queue's part of route's "changes <- change",  *)
(* HandOver its part of the receive of Cluster.run.  QueuedChanges joins   *)
(* them with an environment, ClusterState with the target's own work.      *)
(***************************************************************************)
EXTENDS Resources, Naturals, Sequences, SequencesExt

VARIABLES order,   \* each queued resource's key once, by first change
          queued   \* the folded change of each queued resource

queueVars == <<order, queued>>

-----------------------------------------------------------------------------
newChangeQueue ==
  /\ order = <<>>
  /\ queued = [k \in {} |-> Nil]

(* Mutants of Fold: the previous state is lost; the key moves to the back; *)
(* the key is queued again for want of "continue"; the entry of order[0],  *)
(* the one that is offered to the target, is updated.                      *)
FoldForgettingOld(change) ==
  /\ key(change) \in DOMAIN queued
  /\ queued' = [queued EXCEPT ![key(change)] = change]
  /\ UNCHANGED order

FoldToTheBack(change) ==
  /\ key(change) \in DOMAIN queued
  /\ queued' = [queued EXCEPT ![key(change)].newRes = change.newRes]
  /\ order' = Append(Remove(order, key(change)), key(change))

FoldFallingThrough(change) ==
  /\ key(change) \in DOMAIN queued
  /\ queued' = [queued EXCEPT ![key(change)].newRes = change.newRes]
  /\ order' = Append(order, key(change))

FoldIntoNext(change) ==
  /\ key(change) \in DOMAIN queued
  /\ queued' = [queued EXCEPT ![Head(order)].newRes = change.newRes]
  /\ UNCHANGED order

(* A repeat change keeps the original previous state. *)
Fold(change) ==
  /\ key(change) \in DOMAIN queued
  /\ queued' = [queued EXCEPT ![key(change)].newRes = change.newRes]
  /\ UNCHANGED order

Enqueue(change) ==
  /\ key(change) \notin DOMAIN queued
  /\ queued' = [k \in DOMAIN queued \cup {key(change)} |->
                  IF k = key(change) THEN change ELSE queued[k]]
  /\ order' = Append(order, key(change))

(* case change := <-q.in *)
Accept(change) == Fold(change) \/ Enqueue(change)

(* Mutant of HandOver: the last key is served first. *)
HandOverLast(k) ==
  /\ order # <<>>
  /\ k = Last(order)
  /\ queued' = [x \in DOMAIN queued \ {k} |-> queued[x]]
  /\ order' = Front(order)

(* case out <- next: the target receives queued[k], for the first key k *)
HandOver(k) ==
  /\ order # <<>>
  /\ k = Head(order)
  /\ queued' = [x \in DOMAIN queued \ {k} |-> queued[x]]
  /\ order' = Tail(order)

-----------------------------------------------------------------------------
(* resource_changes.go:41-42, 70-75: order and queued together are an      *)
(* insertion-ordered map, so next = queued[order[0]] always finds a change *)
(* and no change is queued that order will never reach.                    *)
InsertionOrderedMap ==
  /\ \A i, j \in 1..Len(order) : order[i] = order[j] => i = j
  /\ {order[i] : i \in 1..Len(order)} = DOMAIN queued
=============================================================================
