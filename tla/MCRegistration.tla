---------------------------- MODULE MCRegistration ----------------------------
(* Registration for TLC: every setup and what it may start with. *)
EXTENDS Registration
==============================================================================
