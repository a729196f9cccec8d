------------------------------ MODULE MCDelivery ------------------------------
(* Delivery for TLC: a Secret d with a child k. *)
EXTENDS Delivery

CONSTANTS d, k

MCCommand(op, orphaned, s) == [op |-> op, ids |-> {d}, orphaned |-> orphaned, salt |-> s]

MCCommands == {MCCommand("merge", {}, "salt"), MCCommand("replace", {d}, "empty"),
               MCCommand("delete", {}, "salt")}
=============================================================================
