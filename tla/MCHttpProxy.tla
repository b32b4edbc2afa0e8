----------------------------- MODULE MCHttpProxy -----------------------------
(***************************************************************************)
(* An instance of HttpProxy for TLC: two sessions wait for an answer under *)
(* the same id, one of them also has a streamed request, and a response    *)
(* that a client posts carries an id the mux mints.                        *)
(***************************************************************************)
EXTENDS HttpProxy

CONSTANTS s1, s2

OwnMessage == {Notification}

Sessions == {s1, s2}

Request(s, i, via) == [session |-> s, method |-> TRUE, id |-> i, via |-> via]

Response1(s) == [session |-> s, method |-> FALSE, id |-> 1, via |-> "request"]

MixedCalls ==
  {Request(s1, 1, "request"), Request(s2, 1, "request"), Request(s2, 2, "post"),
   Response1(s1)}
=============================================================================
