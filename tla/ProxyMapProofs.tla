---------------------------- MODULE ProxyMapProofs ----------------------------
(***************************************************************************)
(* What the promise of the proxy map amounts to, for every set of servers, *)
(* proxies and holders.                                                    *)
(***************************************************************************)
EXTENDS ProxyMap, TLAPS

(* What a step does to proxies it does not make, bring or put. *)
LEMMA MapStep ==
  ASSUME MapInv, OnePerServer, [MapNext]_mapVars
  PROVE  MapInv' /\ OnePerServer' /\ NoWayBack
<1> USE DEF MapInv, OnePerServer, Past, NoWayBack
<1> DEFINE Good == MapInv' /\ OnePerServer' /\ NoWayBack
<1>1. ASSUME NEW p \in Proxy, NEW i \in Server, Make(p, i) PROVE Good
  BY <1>1 DEF Make, Insert
<1>2. ASSUME NEW p \in Proxy, Put(p) PROVE Good
  <2>1. MapInv' /\ OnePerServer'
    BY <1>2 DEF Put
  <2>2. ASSUME NEW q \in Past
        PROVE  /\ q \in Past'
               /\ \A h \in Holder : <<h, q>> \in having' => <<h, q>> \in having
    <3>1. q # p
      BY <1>2 DEF Put
    <3> QED BY <1>2, <3>1 DEF Put
  <2> QED BY <2>1, <2>2
<1>3. ASSUME NEW p \in Proxy, NEW h \in Holder, Take(h, p) \/ Drop(h, p) PROVE Good
  BY <1>3 DEF Take, Drop
<1>4. CASE LetGo
  BY <1>4 DEF LetGo
<1>5. CASE Crash
  BY <1>5 DEF Crash
<1>6. CASE UNCHANGED mapVars
  BY <1>6 DEF mapVars
<1> QED BY <1>1, <1>2, <1>3, <1>4, <1>5, <1>6 DEF MapNext

LEMMA MapInvariant == MapSpec => [](MapInv /\ OnePerServer)
<1>1. MapInit => MapInv /\ OnePerServer
  BY DEF MapInit, MapInv, OnePerServer, EmptyTable
<1>2. MapInv /\ OnePerServer /\ [MapNext]_mapVars => MapInv' /\ OnePerServer'
  BY MapStep
<1> QED BY <1>1, <1>2, PTL DEF MapSpec

(* The map never has two proxies of one server, whatever else of theirs    *)
(* still runs in the hands of tasks.                                       *)
THEOREM MapHoldsOnePerServer == MapSpec => []OnePerServer
BY MapInvariant, PTL

(* A proxy that is out of the map, put there once and let go or replaced   *)
(* since, or lost to a restart, is out of it for good and in the hands of  *)
(* fewer and fewer: so that its child ends with the last request it had.   *)
THEOREM LetGoIsForGood == MapSpec => LetGoForGood
<1>1. MapInv /\ OnePerServer /\ [MapNext]_mapVars => [NoWayBack]_mapVars
  BY MapStep
<1> QED BY <1>1, MapInvariant, PTL DEF MapSpec, LetGoForGood
=============================================================================
