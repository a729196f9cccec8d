------------------------------ MODULE MCWatcher ------------------------------
(***************************************************************************)
(* The instances of Watcher that TLC checks.                               *)
(***************************************************************************)
EXTENDS Watcher
==============================================================================
