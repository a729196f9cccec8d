---------------------------- MODULE MCChangeQueue ----------------------------
(* Small instances of QueuedChanges, and the ways its code could be wrong. *)
EXTENDS QueuedChanges
==============================================================================
