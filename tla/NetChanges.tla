----------------------------- MODULE NetChanges -----------------------------
(***************************************************************************)
(* What a target is promised about the resource changes routed to it: the  *)
(* contract internal/cluster/resource_changes.go states in its comments,   *)
(* without its data structure.  Every change of a resource is remembered,  *)
(* unfolded, until the target takes it; the target then receives the net   *)
(* effect of all of them in one change: from the state before the first to *)
(* the state after the last.  Every routed change is taken in the end,     *)
(* unless the queue is stopped.                                            *)
(***************************************************************************)
EXTENDS Resources, Naturals, Sequences

CONSTANT MaxBacklog  \* bound: unfolded changes remembered for one resource

ASSUME MaxBacklogAssumption == MaxBacklog \in Nat

VARIABLES live,     \* the cluster cache's content
          backlog,  \* the changes routed to the target and not yet taken
          handed,   \* the change the target took last (Nil before the first)
          running   \* the context shared by queue, index and target is live

vars == <<live, backlog, handed, running>>

NetEffect(changes) ==
  [oldRes |-> changes[1].oldRes, newRes |-> changes[Len(changes)].newRes]

Init ==
  /\ live \in {f \in [Keys -> ResourceOrNil] : \A k \in Keys : f[k] \in StatesOf(k)}
  /\ backlog = [k \in Keys |-> <<>>]
  /\ handed = Nil
  /\ running = TRUE

(* The cache changes resource k and the index routes it to the target. *)
Routed(k, res) ==
  /\ running
  /\ live[k] # Nil \/ res # Nil
  /\ Len(backlog[k]) < MaxBacklog
  /\ live' = [live EXCEPT ![k] = res]
  /\ backlog' = [backlog EXCEPT
                   ![k] = Append(@, [oldRes |-> live[k], newRes |-> res])]
  /\ UNCHANGED <<handed, running>>

(* The cache changes a resource that the target has no interest in. *)
NotRouted(k, res) ==
  /\ live[k] # Nil \/ res # Nil
  /\ live' = [live EXCEPT ![k] = res]
  /\ UNCHANGED <<backlog, handed, running>>

(* The target takes the net change of resource k. *)
Take(k) ==
  /\ running
  /\ backlog[k] # <<>>
  /\ handed' = NetEffect(backlog[k])
  /\ backlog' = [backlog EXCEPT ![k] = <<>>]
  /\ UNCHANGED <<live, running>>

Stop ==
  /\ running
  /\ running' = FALSE
  /\ UNCHANGED <<live, backlog, handed>>

Next ==
  \/ \E k \in Keys : \E res \in StatesOf(k) : Routed(k, res) \/ NotRouted(k, res)
  \/ \E k \in Keys : Take(k)
  \/ Stop

SafetySpec == Init /\ [][Next]_vars

(* Nothing is taken late for ever: each resource's change has its turn. *)
Spec == SafetySpec /\ \A k \in Keys : WF_vars(Take(k))
=============================================================================
