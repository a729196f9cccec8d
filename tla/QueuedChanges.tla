--------------------------- MODULE QueuedChanges ---------------------------
(***************************************************************************)
(* A change queue between a cluster cache that changes at will and a       *)
(* target that is sometimes busy.  live is the cache; backlog is a history *)
(* variable, the unfolded changes of NetChanges, against which the folded  *)
(* queue is judged.                                                        *)
(***************************************************************************)
EXTENDS NetChanges, ChangeQueue

allVars == <<live, backlog, handed, running, order, queued>>

QInit == Init /\ newChangeQueue

In(k, res) ==
  /\ Routed(k, res)
  /\ Accept([oldRes |-> live[k], newRes |-> res])

Out ==
  /\ running
  /\ \E k \in DOMAIN queued :
       /\ HandOver(k)
       /\ handed' = queued[k]
       /\ backlog' = [backlog EXCEPT ![k] = <<>>]
  /\ UNCHANGED <<live, running>>

(* case <-ctx.Done() *)
Done == Stop /\ UNCHANGED queueVars

Unrelated(k, res) == NotRouted(k, res) /\ UNCHANGED queueVars

QNext ==
  \/ \E k \in Keys : \E res \in StatesOf(k) : In(k, res) \/ Unrelated(k, res)
  \/ Out
  \/ Done

(* Cluster.run returns to its select after each operation and each change, *)
(* and Go's select does not pass over a ready case for ever.               *)
QSpec == QInit /\ [][QNext]_allVars /\ WF_allVars(Out)

-----------------------------------------------------------------------------
(* A change is queued under the key of the resource it is a change of. *)
QTypeOK ==
  /\ live \in [Keys -> ResourceOrNil]
  /\ \A k \in Keys : live[k] \in StatesOf(k)
  /\ backlog \in [Keys -> Seq(Change)]
  /\ handed \in Change \cup {Nil}
  /\ running \in BOOLEAN
  /\ order \in Seq(Keys)
  /\ DOMAIN queued \subseteq Keys
  /\ queued \in [DOMAIN queued -> Change]
  /\ \A k \in DOMAIN queued : queued[k] \in ChangeOf(k)

(* resource_changes.go:23-25, 61-69: however many changes were folded, the *)
(* queued change leads from the state before the first of them to the      *)
(* state after the last, and nothing is queued for a resource all of whose *)
(* changes were taken.                                                     *)
QueuedIsNetChange ==
  \A k \in Keys :
     IF k \in DOMAIN queued
     THEN backlog[k] # <<>> /\ queued[k] = NetEffect(backlog[k])
     ELSE backlog[k] = <<>>

(* A waiting key whose place in order is further back after the step. *)
Overtaken ==
  \E k \in Keys : \E i \in 1..Len(order) :
     /\ order[i] = k
     /\ k \in DOMAIN queued'
     /\ \A j \in 1..Len(order') : j <= i => order'[j] # k

(* resource_changes.go:41-42: a resource waits in the order it was first   *)
(* changed: neither a fold nor a new arrival moves a waiting key back.     *)
NeverOvertaken == [][~Overtaken]_allVars

(* The queue implements NetChanges: folding loses nothing of the net       *)
(* change, and no resource is starved however often the others change.     *)
Promise == INSTANCE NetChanges

DeliversNetChanges == Promise!Spec
=============================================================================
