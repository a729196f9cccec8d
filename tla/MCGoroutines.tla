---------------------------- MODULE MCGoroutines ----------------------------
(***************************************************************************)
(* The instance of Goroutines that TLC checks: the subscriber of commands  *)
(* and the monitor loop.                                                   *)
(***************************************************************************)
EXTENDS Goroutines

MCJobsOf == [c \in Callers |-> IF c = "loop" THEN {"sweep"} ELSE Jobs \ {"sweep"}]
==============================================================================
