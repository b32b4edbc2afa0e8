------------------------------ MODULE CallService ------------------------------
(***************************************************************************)
(* What a proxy promises its sessions, whatever sits behind it.            *)
(*                                                                         *)
(* A call that has been submitted is outstanding until it is answered or   *)
(* given up.  A session is given a reply only for a call of its own that   *)
(* is outstanding, under the id that call was made with, and once.  The    *)
(* abstract specification knows nothing of outbound ids, tables, oneshot   *)
(* channels or tasks.                                                      *)
(***************************************************************************)
EXTENDS Naturals

CONSTANTS
  Call,     \* the requests, records with at least a session and an id
  Session,  \* the sessions they are made for
  Id        \* the ids sessions give their requests

VARIABLES
  submitted,    \* the calls made so far
  outstanding,  \* those neither answered nor given up
  got           \* got[s][i], replies session s was given under its id i

absVars == <<submitted, outstanding, got>>

CallInit ==
  /\ submitted = {}
  /\ outstanding = {}
  /\ got = [s \in Session |-> [i \in Id |-> 0]]

Submit(c) ==
  /\ c \notin submitted
  /\ submitted' = submitted \cup {c}
  /\ outstanding' = outstanding \cup {c}
  /\ UNCHANGED got

Answer(c) ==
  /\ c \in outstanding
  /\ outstanding' = outstanding \ {c}
  /\ got' = [got EXCEPT ![c.session][c.id] = @ + 1]
  /\ UNCHANGED submitted

(* The caller has gone, or its session has nowhere to take the reply. *)
GiveUp(c) ==
  /\ c \in outstanding
  /\ outstanding' = outstanding \ {c}
  /\ UNCHANGED <<submitted, got>>

CallNext == \E c \in Call : Submit(c) \/ Answer(c) \/ GiveUp(c)

CallSpec == CallInit /\ [][CallNext]_absVars
=============================================================================
