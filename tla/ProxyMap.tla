------------------------------- MODULE ProxyMap -------------------------------
(***************************************************************************)
(* What the map of proxies promises those who need one, whatever           *)
(* administrators do meanwhile.                                            *)
(*                                                                         *)
(* A proxy is spawned once, is put into the map by the one who spawned it  *)
(* and may be let go at any time.  Whoever needs a proxy gets the one in   *)
(* the map, or the one it has just put there.  The abstract specification  *)
(* knows nothing of configurations, mutexes, files or sessions.            *)
(***************************************************************************)
EXTENDS Table

CONSTANTS
  Server,  \* server ids
  Proxy,   \* the proxies there may be
  Holder   \* who may have one

VARIABLES
  made,      \* made[p], the server proxy p was spawned for
  bringing,  \* proxies spawned and not yet put into the map
  mapped,    \* the proxies in the map
  having     \* pairs of a holder and a proxy it has

mapVars == <<made, bringing, mapped, having>>

MapInit ==
  /\ made = EmptyTable
  /\ bringing = {} /\ mapped = {} /\ having = {}

Make(p, i) ==
  /\ p \notin DOMAIN made
  /\ made' = Insert(made, p, i)
  /\ bringing' = bringing \cup {p}
  /\ UNCHANGED <<mapped, having>>

(* It takes the place of the server's proxy before it, if there is one,    *)
(* and who brought it goes on with it, unless it has gone.                 *)
Put(p) ==
  /\ p \in bringing
  /\ bringing' = bringing \ {p}
  /\ mapped' = {q \in mapped : made[q] # made[p]} \cup {p}
  /\ having' = having \/ \E h \in Holder : having' = having \cup {<<h, p>>}
  /\ UNCHANGED made

LetGo ==
  /\ mapped' \subseteq mapped
  /\ UNCHANGED <<made, bringing, having>>

Take(h, p) ==
  /\ p \in mapped
  /\ having' = having \cup {<<h, p>>}
  /\ UNCHANGED <<made, bringing, mapped>>

Drop(h, p) ==
  /\ having' = having \ {<<h, p>>}
  /\ UNCHANGED <<made, bringing, mapped>>

(* The process ends, and is started again. *)
Crash ==
  /\ bringing' = {} /\ mapped' = {} /\ having' = {}
  /\ UNCHANGED made

MapNext ==
  \/ \E p \in Proxy :
       \/ Put(p) \/ \E i \in Server : Make(p, i)
       \/ \E h \in Holder : Take(h, p) \/ Drop(h, p)
  \/ LetGo \/ Crash

MapSpec == MapInit /\ [][MapNext]_mapVars

-----------------------------------------------------------------------------
(* What follows.                                                           *)

(* A proxy is spawned before it is brought, and brought before it is in    *)
(* the map.                                                                *)
MapInv ==
  /\ bringing \subseteq DOMAIN made /\ mapped \subseteq DOMAIN made
  /\ bringing \cap mapped = {}

(* The map has one proxy of a server at most. *)
OnePerServer == \A p, q \in mapped : made[p] = made[q] => p = q

(* A proxy the map has let go of is never put back, and nobody gets it who *)
(* does not have it.                                                       *)
Past == DOMAIN made \ (bringing \cup mapped)
NoWayBack ==
  \A p \in Past :
    p \in Past' /\ \A h \in Holder : <<h, p>> \in having' => <<h, p>> \in having
LetGoForGood == [][NoWayBack]_mapVars
=============================================================================
