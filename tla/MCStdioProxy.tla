----------------------------- MODULE MCStdioProxy -----------------------------
(***************************************************************************)
(* Instances of StdioProxy for TLC.  The sessions use the same id on       *)
(* purpose: only the mux keeps their requests apart.                       *)
(***************************************************************************)
EXTENDS StdioProxy

CONSTANTS s1, s2

BothSessions == {s1, s2}
OneSession == {s1}

Request(s, i, via) == [session |-> s, method |-> TRUE, id |-> i, via |-> via]
Note(s, via) == [session |-> s, method |-> TRUE, id |-> NoId, via |-> via]

(* One session waits for its answer, the other takes it on its stream. *)
MixedCalls == {Request(s1, 1, "request"), Request(s2, 1, "post")}
(* One session does both, and notifies too. *)
OneClient ==
  {Request(s1, 1, "request"), Request(s1, 2, "post"), Note(s1, "request")}
=============================================================================
