------------------------------ MODULE MCAppState ------------------------------
(***************************************************************************)
(* Instances of AppState for TLC.                                          *)
(***************************************************************************)
EXTENDS AppState, TLC

CONSTANTS u1, u2, a1, a2

Stdio(l) == [launch |-> l, http |-> FALSE]
Http(l) == [launch |-> l, http |-> TRUE]

(* is_http is a field of the file of its own: an edit may change it with   *)
(* or without the command.                                                 *)
Entries == {Stdio("a"), Http("a"), Stdio("b")}
TwoKinds == {Stdio("a"), Http("a")}

OneServer == "m1" :> Stdio("a")

(* Everything but print_status, which does not end. *)
NoStatus ==
  {"add", "disable", "reload", "view", "list", "edit", "restart", "full"}
=============================================================================
