---------------------------- MODULE SessionsProofs ----------------------------
(***************************************************************************)
(* Theorems about Sessions, for every set of sessions, streams and         *)
(* requests and every number of proxies.                                   *)
(***************************************************************************)
EXTENDS Sessions, TLAPS

(* What a table has after an insertion and after a removal. *)
LEMMA TableFacts ==
  ASSUME NEW t, NEW x, NEW v
  PROVE  /\ DOMAIN Insert(t, x, v) = DOMAIN t \cup {x}
         /\ \A y \in DOMAIN Insert(t, x, v) :
              Insert(t, x, v)[y] = IF y = x THEN v ELSE t[y]
         /\ DOMAIN Remove(t, x) = DOMAIN t \ {x}
         /\ \A y \in DOMAIN Remove(t, x) : Remove(t, x)[y] = t[y]
BY DEF Insert, Remove, Restrict

LEMMA InitIInv == Init => IInv
<1> SUFFICES ASSUME Init PROVE IInv
  OBVIOUS
<1> USE NoneAssumption, MaxProxiesAssumption
<1>1. TypeOK
  BY DEF Init, TypeOK, Proxy, NoProxy, None, Phases, Stages, EmptyTable, Range
<1>2. SessionsStayHome /\ MadeInv
  <2>1. SessionsStayHome
    <3>1. \A p \in Proxy : active[p] = {} /\ DOMAIN registry[p] = {}
      BY DEF Init, EmptyTable
    <3> QED BY <3>1 DEF SessionsStayHome, HasActive
  <2>2. MadeInv
    BY DEF Init, MadeInv, NoProxy, None
  <2> QED BY <2>1, <2>2
<1>3. StreamInv /\ SenderInv /\ SingleInv /\ FedInv /\ ActiveInv
  BY DEF Init, StreamInv, SenderInv, SingleInv, FedInv, ActiveInv, EmptyTable,
         None
<1> QED BY <1>1, <1>2, <1>3 DEF IInv

(* A proxy that is spawned is one of those numbered. *)
LEMMA ProxyFacts ==
  ASSUME TypeOK
  PROVE  /\ 1 .. spawns \subseteq Proxy
         /\ current # NoProxy => current \in Proxy
         /\ \A s \in Session :
              /\ home[s] # NoProxy => home[s] \in Proxy
              /\ deleting[s] # NoProxy => deleting[s] \in Proxy
BY MaxProxiesAssumption DEF TypeOK, Proxy, NoProxy

-----------------------------------------------------------------------------
(* Types.                                                                  *)

(* What an insertion and a removal leave in the registries. *)
LEMMA RegistryType ==
  ASSUME TypeOK, NEW p \in Proxy, NEW s \in Session, NEW r,
         \/ \E k \in Stream : r = [registry EXCEPT ![p] = Insert(@, s, k)]
         \/ r = [registry EXCEPT ![p] = Remove(@, s)]
  PROVE  /\ DOMAIN r = Proxy
         /\ \A q \in Proxy : /\ DOMAIN r[q] \subseteq Session
                             /\ Range(r[q]) \subseteq Stream
<1>1. DOMAIN r = Proxy /\ \A q \in Proxy \ {p} : r[q] = registry[q]
  BY DEF TypeOK
<1>2. \/ \E k \in Stream : r[p] = Insert(registry[p], s, k)
      \/ r[p] = Remove(registry[p], s)
  BY DEF TypeOK
<1>3. /\ DOMAIN registry[p] \subseteq Session
      /\ \A x \in DOMAIN registry[p] : registry[p][x] \in Stream
  BY DEF TypeOK, Range
<1> DEFINE Good == /\ DOMAIN r[p] \subseteq Session
                   /\ \A x \in DOMAIN r[p] : r[p][x] \in Stream
<1>4. Good
  <2>1. ASSUME NEW k \in Stream, r[p] = Insert(registry[p], s, k) PROVE Good
    BY <1>3, <2>1 DEF Insert
  <2>2. CASE r[p] = Remove(registry[p], s)
    BY <1>3, <2>2 DEF Remove, Restrict
  <2> QED BY <1>2, <2>1, <2>2
<1> QED BY <1>1, <1>4 DEF TypeOK, Range

LEMMA TypeStep == IInv /\ [Next]_vars => TypeOK'
<1> SUFFICES ASSUME IInv, [Next]_vars PROVE TypeOK'
  OBVIOUS
<1>t. /\ TypeOK /\ StreamInv
      /\ MaxProxies \in Nat /\ spawns \in Nat
  BY MaxProxiesAssumption DEF IInv, TypeOK
<1>p. \A k \in Stream : stage[k] # "unused" =>
        owner[k] \in Session /\ at[k] \in 0 .. spawns
  BY <1>t DEF StreamInv, TypeOK
<1>1. CASE SpawnProxy
  <2>1. /\ spawns' \in 0 .. MaxProxies
        /\ 0 .. spawns \subseteq 0 .. spawns'
        /\ 1 .. spawns \subseteq 1 .. spawns' /\ spawns + 1 \in 1 .. spawns'
    BY <1>1, <1>t DEF SpawnProxy
  <2>2. current' \in 0 .. spawns' /\ spawning' \subseteq 1 .. spawns'
    BY <1>1, <1>t, <2>1 DEF SpawnProxy, TypeOK
  <2> QED BY <1>1, <1>t, <2>1, <2>2 DEF SpawnProxy, TypeOK, tables, sessionVars,
                                        streamVars, openedVars, requestVars
<1>2. ASSUME NEW p \in Proxy, InsertProxy(p) PROVE TypeOK'
  BY <1>2, <1>t DEF InsertProxy, TypeOK, tables, sessionVars, streamVars, openedVars,
                    requestVars
<1>3. CASE TakeOut \/ Signal \/ Exit
  <2>1. /\ UNCHANGED <<spawns, spawning, tables, sessionVars, streamVars, lent,
                       requestVars, latest>>
        /\ current' \in 0 .. spawns /\ server' \in {"serving", "draining", "down"}
    BY <1>3, <1>t DEF TakeOut, Signal, Exit, TypeOK, NoProxy, proxyVars
  <2> QED BY <1>t, <2>1
             DEF TypeOK, tables, sessionVars, streamVars, openedVars, requestVars
<1>4. ASSUME NEW p \in Proxy, Borrow(p) PROVE TypeOK'
  <2>1. lent' \subseteq Stream
    BY <1>4, <1>t DEF Borrow, TypeOK, Range
  <2> QED BY <1>4, <1>t, <2>1 DEF Borrow, TypeOK, tables, proxyVars, sessionVars,
                                  streamVars, openedVars, requestVars
<1>5. CASE GiveBack
  BY <1>5, <1>t DEF GiveBack, TypeOK, tables, proxyVars, sessionVars,
                    streamVars, openedVars, requestVars
<1>6. ASSUME NEW s \in Session, Initialize(s) PROVE TypeOK'
  <2>1. active' \in [Proxy -> SUBSET Session]
    BY <1>6, <1>t, ProxyFacts DEF Initialize, Begins, TypeOK
  <2> QED BY <1>6, <1>t, <2>1 DEF Initialize, TypeOK, Phases, proxyVars,
                                  streamVars, openedVars, requestVars
<1>7. ASSUME NEW s \in Session,
             Initialized(s) \/ InitializeFails(s) \/ InitializeAbandoned(s)
      PROVE  TypeOK'
  <2>1. active' \in [Proxy -> SUBSET Session]
    BY <1>7, <1>t DEF Initialized, InitializeFails, InitializeAbandoned, TypeOK
  <2>2. phase' \in [Session -> Phases]
    BY <1>7, <1>t DEF Initialized, InitializeFails, InitializeAbandoned,
                      Answered, TypeOK, Phases
  <2> QED BY <1>7, <1>t, <2>1, <2>2
          DEF Initialized, InitializeFails, InitializeAbandoned, Answered,
              TypeOK, proxyVars, streamVars, openedVars, requestVars
<1>8. ASSUME NEW s \in Session, NEW k \in Stream, Get(s, k) \/ OpenSse(s, k)
      PROVE  TypeOK'
  <2>1. phase' \in [Session -> Phases] /\ home' \in [Session -> 0 .. spawns]
    BY <1>8, <1>t DEF Get, OpenSse, TypeOK, Phases, sessionVars
  <2>2. /\ stage' \in [Stream -> Stages]
        /\ owner' \in [Stream -> Session \cup {None}]
        /\ at' \in [Stream -> 0 .. spawns]
    BY <1>8, <1>t DEF Get, OpenSse, OpenAt, Unused, Begins, TypeOK, Stages
  <2>3. overlapped' \subseteq Session
    BY <1>8, <1>t DEF Get, OpenSse, OpenAt, TypeOK
  <2> QED BY <1>8, <1>t, <2>1, <2>2, <2>3 DEF Get, OpenSse, OpenAt, TypeOK, proxyVars,
                                              tables, requestVars
<1>9. ASSUME NEW k \in Stream, Activate(k) \/ CloseActive(k) PROVE TypeOK'
  <2>1. owner[k] \in Session
    BY <1>9, <1>p DEF Activate, CloseActive
  <2>2. active' \in [Proxy -> SUBSET Session]
    BY <1>9, <1>t, <2>1 DEF Activate, CloseActive, TypeOK
  <2> QED BY <1>9, <1>t, <2>2 DEF Activate, CloseActive, TypeOK, Stages,
                                  proxyVars, sessionVars, openedVars, requestVars
<1>10. ASSUME NEW k \in Stream, Register(k) PROVE TypeOK'
  <2>1. owner[k] \in Session /\ at[k] = home[owner[k]]
        /\ phase[owner[k]] \in {"mcp", "sse"}
    BY <1>10, <1>t DEF Register, StreamInv
  <2>2. at[k] \in Proxy
    BY <1>t, <2>1, ProxyFacts DEF IInv, MadeInv
  <2>3. DOMAIN registry' = Proxy /\ \A q \in Proxy :
          DOMAIN registry'[q] \subseteq Session /\ Range(registry'[q]) \subseteq Stream
    BY <1>10, <1>t, <2>1, <2>2, RegistryType DEF Register
  <2> QED BY <1>10, <1>t, <2>1, <2>3 DEF Register, TypeOK, Stages, proxyVars,
                                         sessionVars, openedVars, requestVars
<1>11. ASSUME NEW k \in Stream, StreamEnds(k) PROVE TypeOK'
  <2>1. owner[k] \in Session /\ at[k] = home[owner[k]]
        /\ phase[owner[k]] \in {"mcp", "sse"}
    BY <1>11, <1>t DEF StreamEnds, StreamInv
  <2>2. at[k] \in Proxy
    BY <1>t, <2>1, ProxyFacts DEF IInv, MadeInv
  <2>3. DOMAIN registry' = Proxy /\ \A q \in Proxy :
          DOMAIN registry'[q] \subseteq Session /\ Range(registry'[q]) \subseteq Stream
    BY <1>11, <1>t, <2>1, <2>2, RegistryType DEF StreamEnds
  <2> QED BY <1>11, <1>t, <2>3 DEF StreamEnds, Finish, TypeOK, Stages, proxyVars,
                                   sessionVars, openedVars, requestVars
<1>12. ASSUME NEW k \in Stream, Disconnect(k) \/ Close(k) PROVE TypeOK'
  BY <1>12, <1>t DEF Disconnect, Close, TypeOK, Stages, proxyVars, tables, sessionVars,
                     openedVars, requestVars
<1>13. ASSUME NEW s \in Session, Delete(s) PROVE TypeOK'
  <2>1. current \in Proxy
    BY <1>13, <1>t, ProxyFacts DEF Delete, Begins
  <2>2. DOMAIN registry' = Proxy /\ \A q \in Proxy :
          DOMAIN registry'[q] \subseteq Session /\ Range(registry'[q]) \subseteq Stream
    BY <1>13, <1>t, <2>1, RegistryType DEF Delete
  <2> QED BY <1>13, <1>t, <2>2 DEF Delete, TypeOK, proxyVars, sessionVars,
                                   streamVars, openedVars
<1>14. ASSUME NEW s \in Session, DeleteActive(s) PROVE TypeOK'
  <2>1. active' \in [Proxy -> SUBSET Session]
    BY <1>14, <1>t DEF DeleteActive, TypeOK
  <2>2. deleting' \in [Session -> 0 .. spawns]
    BY <1>14, <1>t DEF DeleteActive, TypeOK, NoProxy
  <2> QED BY <1>14, <1>t, <2>1, <2>2 DEF DeleteActive, TypeOK, proxyVars,
                                         sessionVars, streamVars, openedVars
<1>16. ASSUME NEW r \in Request, Post(r) \/ PostEnds(r) PROVE TypeOK'
  <2>1. posting' \in [Request -> 0 .. spawns]
    BY <1>16, <1>t DEF Post, PostEnds, TypeOK, NoProxy
  <2> QED BY <1>16, <1>t, <2>1 DEF Post, PostEnds, TypeOK, tables, proxyVars, sessionVars,
                                   streamVars, openedVars
<1>15. CASE UNCHANGED vars
  BY <1>15, <1>t DEF vars, TypeOK, tables, proxyVars, sessionVars, streamVars, openedVars,
                     requestVars
<1> QED BY <1>1, <1>2, <1>3, <1>4, <1>5, <1>6, <1>7, <1>8, <1>9, <1>10, <1>11,
           <1>12, <1>13, <1>14, <1>15, <1>16 DEF Next, Served

-----------------------------------------------------------------------------
(* Sessions, their streams and their senders.                              *)

(* The parts of the invariant that relate tables, sessions and streams.    *)
TablesInv ==
  /\ SessionsStayHome
  /\ MadeInv
  /\ StreamInv
  /\ SenderInv
  /\ SingleInv
  /\ FedInv
  /\ ActiveInv

(* They say nothing of the map, of what is lent or closed, of ordinary     *)
(* requests or of the server.                                              *)
LEMMA TablesFrame ==
  ASSUME TablesInv,
         UNCHANGED <<tables, sessionVars, stage, openedVars, deleting, deleted,
                     latest>>
  PROVE  TablesInv'
BY DEF TablesInv, tables, sessionVars, openedVars, SessionsStayHome, HasActive,
       MadeInv, StreamInv, SenderInv, SingleInv, FedInv, ActiveInv

(* A stream in use is at its session's proxy, which is one of those there. *)
LEMMA StreamFacts ==
  ASSUME IInv, NEW k \in Stream, stage[k] # "unused"
  PROVE  /\ owner[k] \in Session /\ owner[k] # None
         /\ at[k] = home[owner[k]] /\ at[k] \in Proxy
         /\ phase[owner[k]] \in {"mcp", "sse"}
<1>1. /\ owner[k] \in Session /\ at[k] = home[owner[k]]
      /\ phase[owner[k]] \in {"mcp", "sse"}
  BY DEF IInv, StreamInv
<1>2. at[k] \in Proxy
  BY <1>1, ProxyFacts DEF IInv, MadeInv
<1> QED BY <1>1, <1>2, NoneAssumption

(* initialize: a session nobody has heard of becomes active. *)
LEMMA InitializeStep ==
  ASSUME IInv, NEW s \in Session, Initialize(s)
  PROVE  TablesInv'
<1>t. TypeOK /\ current \in Proxy
  BY ProxyFacts DEF IInv, Initialize, Begins
<1>1. /\ phase[s] = "new" /\ phase' = [phase EXCEPT ![s] = "starting"]
      /\ home' = [home EXCEPT ![s] = current]
      /\ active' = [active EXCEPT ![current] = @ \cup {s}]
      /\ UNCHANGED <<registry, stage, owner, at, overlapped, deleting, deleted, latest>>
      /\ current # NoProxy
  BY DEF Initialize, Begins, streamVars, openedVars, requestVars
<1>2. \A k \in Stream : owner[k] # s
  BY <1>1 DEF IInv, MadeInv
<1>3. home[s] = NoProxy /\ NoProxy \notin Proxy
  BY <1>1 DEF IInv, MadeInv, NoProxy, Proxy
<1>4. SessionsStayHome'
  BY <1>t, <1>1, <1>3 DEF IInv, TypeOK, SessionsStayHome, HasActive
<1>5. MadeInv'
  BY <1>t, <1>1 DEF IInv, TypeOK, MadeInv
<1>6. StreamInv' /\ SenderInv' /\ SingleInv' /\ FedInv'
  BY <1>t, <1>1, <1>2
     DEF IInv, TypeOK, StreamInv, SenderInv, SingleInv, FedInv
<1>7. ActiveInv'
  BY <1>t, <1>1 DEF IInv, TypeOK, ActiveInv, MadeInv
<1> QED BY <1>4, <1>5, <1>6, <1>7 DEF TablesInv

(* The answer to initialize, its failure, or the end of its client. *)
LEMMA AnsweredStep ==
  ASSUME IInv, NEW s \in Session,
         Initialized(s) \/ InitializeFails(s) \/ InitializeAbandoned(s)
  PROVE  TablesInv'
<1>t. TypeOK
  BY DEF IInv
<1>1. /\ phase[s] = "starting"
      /\ phase' = [phase EXCEPT ![s] = phase'[s]]
      /\ phase'[s] \in {"mcp", "failed", "orphan"}
      /\ UNCHANGED <<registry, home, stage, owner, at, overlapped, deleting,
                     deleted, latest>>
  BY <1>t DEF TypeOK, Initialized, InitializeFails, InitializeAbandoned,
              Answered, streamVars, openedVars, requestVars
<1>2. /\ \A p \in Proxy : active'[p] \subseteq active[p]
      /\ \A p \in Proxy, x \in Session \ {s} : x \in active[p] => x \in active'[p]
      /\ phase'[s] = "mcp" => active' = active
  BY <1>t, <1>1 DEF TypeOK, Initialized, InitializeFails, InitializeAbandoned,
                    Answered
<1>3. \A k \in Stream : owner[k] # s
  <2>1. \A k \in Stream : stage[k] = "unused" => owner[k] # s
    BY NoneAssumption DEF IInv, StreamInv
  <2> QED BY <2>1, <1>1, StreamFacts
<1>4. s \notin deleted
  BY <1>1 DEF IInv, MadeInv
<1>5. SessionsStayHome'
  BY <1>1, <1>2 DEF IInv, SessionsStayHome, HasActive
<1>6. MadeInv'
  BY <1>t, <1>1, <1>4 DEF IInv, TypeOK, MadeInv
<1>7. StreamInv' /\ SenderInv' /\ SingleInv' /\ FedInv'
  BY <1>t, <1>1, <1>3
     DEF IInv, TypeOK, StreamInv, SenderInv, SingleInv, FedInv
<1>8. ActiveInv'
  <2> SUFFICES ASSUME NEW x \in Session \ overlapped,
                      phase'[x] \in {"starting", "mcp"}, x \notin deleted'
               PROVE  x \in active'[home'[x]]
    BY <1>1 DEF ActiveInv
  <2>1. phase[x] \in {"starting", "mcp"} /\ x \notin deleted
    BY <1>t, <1>1 DEF TypeOK
  <2>2. x \in active[home[x]] /\ home[x] \in Proxy
    BY <1>t, <2>1, ProxyFacts DEF IInv, ActiveInv, MadeInv
  <2> QED BY <1>1, <1>2, <2>2
<1> QED BY <1>5, <1>6, <1>7, <1>8 DEF TablesInv

(* A GET of a session known where it is asked for, or the stream of a new  *)
(* /sse session.                                                           *)
LEMMA OpenStep ==
  ASSUME IInv, NEW s \in Session, NEW k \in Stream, Get(s, k) \/ OpenSse(s, k)
  PROVE  TablesInv'
<1>t. TypeOK /\ current \in Proxy
  BY ProxyFacts DEF IInv, Get, OpenSse, Begins
<1>1. /\ stage[k] = "unused" /\ stage' = [stage EXCEPT ![k] = "checked"]
      /\ owner' = [owner EXCEPT ![k] = s] /\ at' = [at EXCEPT ![k] = current]
      /\ overlapped' = IF StreamAt(s) THEN overlapped \cup {s} ELSE overlapped
      /\ UNCHANGED <<active, registry, deleting, deleted, latest>>
      /\ current # NoProxy
  BY DEF Get, OpenSse, OpenAt, Unused, Begins, tables, requestVars
<1>2. /\ \A x \in Session \ {s} : phase'[x] = phase[x] /\ home'[x] = home[x]
      /\ home'[s] = current
      /\ phase[s] = "mcp" => phase'[s] = "mcp" /\ home[s] = current
      /\ phase[s] = "new" => phase'[s] = "sse"
      /\ phase[s] \in {"new", "mcp"}
  BY <1>t DEF IInv, TypeOK, SessionsStayHome, Get, OpenSse, sessionVars
<1>3. \A l \in Stream \ {k} : owner[l] = s =>
        phase[s] = "mcp" /\ (s \notin overlapped' => stage[l] \notin InHand)
  <2>1. \A l \in Stream : owner[l] = s => phase[s] = "mcp"
    BY DEF Get, OpenSse, IInv, MadeInv
  <2> QED BY <1>1, <2>1 DEF StreamAt
<1>4. owner[k] = None /\ s # None
  BY <1>1, NoneAssumption DEF IInv, StreamInv
<1>5. \A p \in Proxy : \A x \in DOMAIN registry[p] :
        registry[p][x] \in Stream \ {k} /\ x \in Session
  BY <1>t, <1>1 DEF IInv, TypeOK, SenderInv, Range
<1>6. SessionsStayHome'
  <2>1. NoProxy \notin Proxy
    BY DEF NoProxy, Proxy
  <2> QED BY <1>1, <1>2, <2>1 DEF IInv, SessionsStayHome, HasActive, MadeInv
<1>7. MadeInv'
  BY <1>t, <1>1, <1>2, <1>4 DEF IInv, TypeOK, MadeInv
<1>8. StreamInv'
  <2>u. \A l \in Stream : stage'[l] = "unused" => owner'[l] = None
    BY <1>t, <1>1 DEF IInv, TypeOK, StreamInv
  <2> SUFFICES ASSUME NEW l \in Stream, stage'[l] # "unused"
               PROVE  /\ owner'[l] \in Session /\ at'[l] = home'[owner'[l]]
                      /\ phase'[owner'[l]] \in {"mcp", "sse"}
    BY <2>u DEF StreamInv
  <2>1. CASE l = k
    BY <1>t, <1>1, <1>2, <2>1 DEF TypeOK
  <2>2. CASE l # k
    <3>1. /\ owner[l] \in Session /\ at[l] = home[owner[l]]
          /\ phase[owner[l]] \in {"mcp", "sse"}
      BY <1>t, <1>1, <2>2 DEF IInv, TypeOK, StreamInv
    <3> QED BY <1>t, <1>1, <1>2, <2>2, <3>1 DEF TypeOK
  <2> QED BY <2>1, <2>2
<1>9. SenderInv'
  <2>1. \A x \in Session : latest[x] # None => latest[x] \in Stream \ {k}
    BY <1>t, <1>4, NoneAssumption DEF IInv, TypeOK, SenderInv
  <2> QED BY <1>t, <1>1, <1>5, <2>1 DEF IInv, TypeOK, SenderInv
<1>10. SingleInv'
  <2> SUFFICES ASSUME NEW l \in Stream, NEW j \in Stream, l # j,
                      owner'[l] = owner'[j], owner'[l] # None
               PROVE  /\ phase'[owner'[l]] = "mcp"
                      /\ owner'[l] \notin overlapped' =>
                           stage'[l] \notin InHand \/ stage'[j] \notin InHand
    BY DEF SingleInv
  <2>1. CASE l = k \/ j = k
    BY <1>t, <1>1, <1>2, <1>3, <2>1 DEF TypeOK, InHand
  <2>2. CASE l # k /\ j # k
    <3>1. /\ owner[l] = owner[j] /\ owner[l] # None /\ owner'[l] = owner[l]
          /\ stage'[l] = stage[l] /\ stage'[j] = stage[j]
      BY <1>t, <1>1, <2>2 DEF TypeOK
    <3>2. /\ phase[owner[l]] = "mcp"
          /\ owner[l] \notin overlapped =>
               stage[l] \notin InHand \/ stage[j] \notin InHand
      BY <3>1 DEF IInv, SingleInv
    <3>3. phase'[owner[l]] = "mcp"
      BY <1>t, <1>2, <3>1, <3>2 DEF TypeOK
    <3> QED BY <1>1, <3>1, <3>2, <3>3
  <2> QED BY <2>1, <2>2
<1>11. FedInv'
  BY <1>t, <1>1 DEF IInv, TypeOK, FedInv
<1>12. ActiveInv'
  BY <1>t, <1>1, <1>2 DEF IInv, TypeOK, ActiveInv
<1> QED BY <1>6, <1>7, <1>8, <1>9, <1>10, <1>11, <1>12 DEF TablesInv

(* A stream is registered: its session is known there already. *)
LEMMA ActivateStep ==
  ASSUME IInv, NEW k \in Stream, Activate(k)
  PROVE  TablesInv'
<1>t. TypeOK
  BY DEF IInv
<1>1. /\ stage[k] = "checked" /\ stage' = [stage EXCEPT ![k] = "activated"]
      /\ active' = [active EXCEPT ![at[k]] = @ \cup {owner[k]}]
      /\ UNCHANGED <<registry, phase, home, owner, at, overlapped, deleting,
                     deleted, latest>>
  BY DEF Activate, sessionVars, openedVars, requestVars
<1>2. owner[k] \in Session /\ at[k] = home[owner[k]] /\ at[k] \in Proxy
  BY <1>1, StreamFacts
<1>3. SessionsStayHome'
  BY <1>t, <1>1, <1>2 DEF IInv, TypeOK, SessionsStayHome, HasActive
<1>4. MadeInv' /\ ActiveInv'
  BY <1>t, <1>1 DEF IInv, TypeOK, MadeInv, ActiveInv
<1>5. StreamInv' /\ SenderInv' /\ SingleInv' /\ FedInv'
  BY <1>t, <1>1
     DEF IInv, TypeOK, StreamInv, SenderInv, SingleInv, FedInv, InHand
<1> QED BY <1>3, <1>4, <1>5 DEF TablesInv

LEMMA RegisterStep ==
  ASSUME IInv, NEW k \in Stream, Register(k)
  PROVE  TablesInv'
<1>t. TypeOK
  BY DEF IInv
<1>1. /\ stage[k] = "activated" /\ stage' = [stage EXCEPT ![k] = "open"]
      /\ registry' = [registry EXCEPT ![at[k]] = Insert(@, owner[k], k)]
      /\ latest' = [latest EXCEPT ![owner[k]] = k]
      /\ UNCHANGED <<active, phase, home, owner, at, overlapped, deleting, deleted>>
  BY DEF Register, sessionVars, openedVars, requestVars
<1>2. /\ owner[k] \in Session /\ at[k] = home[owner[k]] /\ at[k] \in Proxy
      /\ owner[k] # None /\ phase[owner[k]] # "new"
  BY <1>1, StreamFacts
<1>3. /\ DOMAIN registry'[at[k]] = DOMAIN registry[at[k]] \cup {owner[k]}
      /\ registry'[at[k]][owner[k]] = k
      /\ \A x \in DOMAIN registry[at[k]] \ {owner[k]} :
           registry'[at[k]][x] = registry[at[k]][x]
      /\ \A p \in Proxy \ {at[k]} : registry'[p] = registry[p]
  BY <1>t, <1>1, <1>2 DEF TypeOK, Insert
<1>4. SessionsStayHome'
  BY <1>1, <1>2, <1>3 DEF IInv, SessionsStayHome, HasActive
<1>5. MadeInv' /\ ActiveInv'
  BY <1>t, <1>1, <1>2 DEF IInv, TypeOK, MadeInv, ActiveInv
<1>6. StreamInv' /\ SingleInv'
  BY <1>t, <1>1 DEF IInv, TypeOK, StreamInv, SingleInv, InHand
<1>7. SenderInv'
  <2>1. \A p \in Proxy : \A x \in DOMAIN registry'[p] :
          LET l == registry'[p][x] IN owner[l] = x /\ stage'[l] \in {"open", "gone"}
    <3> SUFFICES ASSUME NEW p \in Proxy, NEW x \in DOMAIN registry'[p],
                        ~(p = at[k] /\ x = owner[k])
                 PROVE  /\ owner[registry'[p][x]] = x
                        /\ stage'[registry'[p][x]] \in {"open", "gone"}
      BY <1>t, <1>1, <1>3 DEF TypeOK
    <3>1. x \in DOMAIN registry[p] /\ registry'[p][x] = registry[p][x]
      BY <1>3
    <3>2. /\ owner[registry[p][x]] = x
          /\ stage[registry[p][x]] \in {"open", "gone"}
          /\ registry[p][x] \in Stream
      BY <1>t, <3>1 DEF IInv, TypeOK, SenderInv, Range
    <3> QED BY <1>t, <1>1, <3>1, <3>2 DEF TypeOK
  <2>2. \A x \in Session : latest'[x] # None => owner[latest'[x]] = x
    BY <1>t, <1>1, <1>2 DEF IInv, TypeOK, SenderInv
  <2> QED BY <1>1, <2>1, <2>2 DEF SenderInv
<1>8. FedInv'
  <2> SUFFICES ASSUME NEW l \in Stream, owner[l] # None, owner[l] \notin overlapped,
                      owner[l] \notin deleted
               PROVE  /\ stage'[l] \notin {"closing", "ended"}
                      /\ stage'[l] = "open" =>
                           /\ owner[l] \in DOMAIN registry'[at[l]]
                           /\ registry'[at[l]][owner[l]] = l
    BY <1>1 DEF FedInv
  <2>1. CASE l = k
    BY <1>t, <1>1, <1>3, <2>1 DEF TypeOK
  <2>2. CASE l # k
    <3>1. /\ stage'[l] = stage[l] /\ stage[l] \notin {"closing", "ended"}
          /\ stage[l] = "open" => /\ owner[l] \in DOMAIN registry[at[l]]
                                  /\ registry[at[l]][owner[l]] = l
      BY <1>t, <1>1, <2>2 DEF IInv, TypeOK, FedInv
    <3>2. stage[l] = "open" => owner[l] # owner[k]
      BY <1>1, <1>2, <2>2 DEF IInv, SingleInv, InHand
    <3>3. stage[l] = "open" => at[l] \in Proxy
      BY StreamFacts
    <3> QED BY <1>3, <3>1, <3>2, <3>3
  <2> QED BY <2>1, <2>2
<1> QED BY <1>4, <1>5, <1>6, <1>7, <1>8 DEF TablesInv

(* A stream without a sender is, where streams do not overlap, that of a   *)
(* session its client has ended.                                           *)
LEMMA StreamEndsStep ==
  ASSUME IInv, NEW k \in Stream, StreamEnds(k)
  PROVE  TablesInv'
<1>t. TypeOK
  BY DEF IInv
<1>1. /\ stage[k] = "open" /\ ~HasSender(k)
      /\ stage' = [stage EXCEPT ![k] = stage'[k]]
      /\ stage'[k] \in {"ended", "closing"}
      /\ registry' = [registry EXCEPT ![at[k]] = Remove(@, owner[k])]
      /\ UNCHANGED <<active, phase, home, owner, at, overlapped, deleting,
                     deleted, latest>>
  BY <1>t DEF TypeOK, StreamEnds, Finish, sessionVars, openedVars,
                          requestVars
<1>2. /\ owner[k] \in Session /\ at[k] \in Proxy /\ owner[k] # None
  BY <1>1, StreamFacts
<1>3. /\ DOMAIN registry'[at[k]] = DOMAIN registry[at[k]] \ {owner[k]}
      /\ \A x \in DOMAIN registry'[at[k]] :
           registry'[at[k]][x] = registry[at[k]][x]
      /\ \A p \in Proxy \ {at[k]} : registry'[p] = registry[p]
  BY <1>t, <1>1, <1>2 DEF TypeOK, Remove, Restrict
<1>4. \A p \in Proxy : \A x \in DOMAIN registry[p] : registry[p][x] # k
  BY <1>1 DEF HasSender, Range
<1>5. owner[k] \in overlapped \/ owner[k] \in deleted
  BY <1>1, <1>2, <1>4 DEF IInv, FedInv
<1>6. SessionsStayHome'
  BY <1>1, <1>3 DEF IInv, SessionsStayHome, HasActive
<1>7. MadeInv' /\ ActiveInv' /\ StreamInv'
  BY <1>t, <1>1 DEF IInv, TypeOK, MadeInv, ActiveInv, StreamInv
<1>8. SingleInv'
  BY <1>t, <1>1 DEF IInv, TypeOK, SingleInv, InHand
<1>9. SenderInv'
  <2> SUFFICES ASSUME NEW p \in Proxy, NEW x \in DOMAIN registry'[p]
               PROVE  /\ owner[registry'[p][x]] = x
                      /\ stage'[registry'[p][x]] \in {"open", "gone"}
    BY <1>1 DEF IInv, SenderInv
  <2>1. x \in DOMAIN registry[p] /\ registry'[p][x] = registry[p][x]
    BY <1>3
  <2>2. /\ owner[registry[p][x]] = x /\ registry[p][x] \in Stream \ {k}
        /\ stage[registry[p][x]] \in {"open", "gone"}
    BY <1>t, <1>4, <2>1 DEF IInv, TypeOK, SenderInv, Range
  <2> QED BY <1>t, <1>1, <2>1, <2>2 DEF TypeOK
<1>10. FedInv'
  <2> SUFFICES ASSUME NEW l \in Stream, owner[l] # None, owner[l] \notin overlapped,
                      owner[l] \notin deleted
               PROVE  /\ stage'[l] \notin {"closing", "ended"}
                      /\ stage'[l] = "open" =>
                           /\ owner[l] \in DOMAIN registry'[at[l]]
                           /\ registry'[at[l]][owner[l]] = l
    BY <1>1 DEF FedInv
  <2>1. owner[l] # owner[k] /\ l # k
    BY <1>5
  <2>2. /\ stage'[l] = stage[l] /\ stage[l] \notin {"closing", "ended"}
        /\ stage[l] = "open" => /\ owner[l] \in DOMAIN registry[at[l]]
                                /\ registry[at[l]][owner[l]] = l
    BY <1>t, <1>1, <2>1 DEF IInv, TypeOK, FedInv
  <2>3. stage[l] = "open" => at[l] \in Proxy
    BY StreamFacts
  <2> QED BY <1>3, <2>1, <2>2, <2>3
<1> QED BY <1>6, <1>7, <1>8, <1>9, <1>10 DEF TablesInv

(* So is one that closes. *)
LEMMA CloseActiveStep ==
  ASSUME IInv, NEW k \in Stream, CloseActive(k)
  PROVE  TablesInv'
<1>t. TypeOK
  BY DEF IInv
<1>1. /\ stage[k] = "closing" /\ stage' = [stage EXCEPT ![k] = "ended"]
      /\ active' = [active EXCEPT ![at[k]] = @ \ {owner[k]}]
      /\ UNCHANGED <<registry, phase, home, owner, at, overlapped, deleting,
                     deleted, latest>>
  BY DEF CloseActive, sessionVars, openedVars, requestVars
<1>2. owner[k] \in Session /\ at[k] \in Proxy /\ owner[k] # None
  BY <1>1, StreamFacts
<1>3. owner[k] \in overlapped \/ owner[k] \in deleted
  BY <1>1, <1>2 DEF IInv, FedInv
<1>4. SessionsStayHome'
  BY <1>t, <1>1, <1>2 DEF IInv, TypeOK, SessionsStayHome, HasActive
<1>5. MadeInv' /\ StreamInv' /\ SenderInv'
  <2>1. \A p \in Proxy : \A x \in DOMAIN registry[p] :
          registry[p][x] \in Stream \ {k}
    BY <1>t, <1>1 DEF IInv, TypeOK, SenderInv, Range
  <2> QED BY <1>t, <1>1, <2>1 DEF IInv, TypeOK, MadeInv, StreamInv, SenderInv
<1>6. SingleInv' /\ FedInv'
  BY <1>t, <1>1, <1>3 DEF IInv, TypeOK, SingleInv, FedInv, InHand
<1>7. ActiveInv'
  <2> SUFFICES ASSUME NEW x \in Session \ overlapped,
                      phase[x] \in {"starting", "mcp"}, x \notin deleted
               PROVE  x \in active'[home[x]]
    BY <1>1 DEF ActiveInv
  <2>1. x \in active[home[x]] /\ home[x] \in Proxy
    BY <1>t, ProxyFacts DEF IInv, ActiveInv, MadeInv
  <2> QED BY <1>t, <1>1, <1>3, <2>1 DEF TypeOK
<1> QED BY <1>4, <1>5, <1>6, <1>7 DEF TablesInv

LEMMA DisconnectStep ==
  ASSUME IInv, NEW k \in Stream, Disconnect(k)
  PROVE  TablesInv'
<1>t. TypeOK
  BY DEF IInv
<1>1. /\ stage[k] = "open" /\ stage' = [stage EXCEPT ![k] = "gone"]
      /\ UNCHANGED <<active, registry, phase, home, owner, at, overlapped,
                     deleting, deleted, latest>>
  BY DEF Disconnect, tables, sessionVars, openedVars, requestVars
<1>2. SessionsStayHome' /\ MadeInv' /\ ActiveInv' /\ StreamInv'
  BY <1>t, <1>1 DEF IInv, TypeOK, SessionsStayHome, HasActive, MadeInv, ActiveInv,
                    StreamInv
<1>3. SenderInv'
  <2>1. \A p \in Proxy : \A x \in DOMAIN registry[p] : registry[p][x] \in Stream
    BY <1>t DEF TypeOK, Range
  <2> QED BY <1>t, <1>1, <2>1 DEF IInv, TypeOK, SenderInv
<1>4. SingleInv' /\ FedInv'
  BY <1>t, <1>1 DEF IInv, TypeOK, SingleInv, FedInv, InHand
<1> QED BY <1>2, <1>3, <1>4 DEF TablesInv

(* DELETE: from now on nothing is promised to the session. *)
LEMMA DeleteStep ==
  ASSUME IInv, NEW s \in Session, Delete(s)
  PROVE  TablesInv'
<1>t. TypeOK /\ current \in Proxy
  BY ProxyFacts DEF IInv, Delete, Begins
<1>1. /\ phase[s] = "mcp"
      /\ registry' = [registry EXCEPT ![current] = Remove(@, s)]
      /\ deleting' = [deleting EXCEPT ![s] = current]
      /\ deleted' = deleted \cup {s}
      /\ UNCHANGED <<active, phase, home, stage, owner, at, overlapped, latest>>
  BY DEF Delete, sessionVars, streamVars, openedVars
<1>2. /\ DOMAIN registry'[current] = DOMAIN registry[current] \ {s}
      /\ \A x \in DOMAIN registry'[current] :
           registry'[current][x] = registry[current][x]
      /\ \A p \in Proxy \ {current} : registry'[p] = registry[p]
  BY <1>t, <1>1 DEF TypeOK, Remove, Restrict
<1>3. SessionsStayHome'
  BY <1>1, <1>2 DEF IInv, SessionsStayHome, HasActive
<1>4. MadeInv' /\ ActiveInv' /\ StreamInv' /\ SingleInv'
  BY <1>t, <1>1 DEF IInv, TypeOK, MadeInv, ActiveInv, StreamInv, SingleInv
<1>5. SenderInv'
  BY <1>1, <1>2 DEF IInv, SenderInv
<1>6. FedInv'
  <2> SUFFICES ASSUME NEW l \in Stream, owner[l] # None, owner[l] \notin overlapped,
                      owner[l] \notin deleted, owner[l] # s
               PROVE  /\ stage[l] \notin {"closing", "ended"}
                      /\ stage[l] = "open" =>
                           /\ owner[l] \in DOMAIN registry'[at[l]]
                           /\ registry'[at[l]][owner[l]] = l
    BY <1>1 DEF FedInv
  <2>1. stage[l] = "open" => at[l] \in Proxy
    BY StreamFacts
  <2> QED BY <1>2, <2>1 DEF IInv, FedInv
<1> QED BY <1>3, <1>4, <1>5, <1>6 DEF TablesInv

LEMMA DeleteActiveStep ==
  ASSUME IInv, NEW s \in Session, DeleteActive(s)
  PROVE  TablesInv'
<1>t. TypeOK /\ deleting[s] \in Proxy /\ s \in deleted
  BY ProxyFacts DEF IInv, DeleteActive, MadeInv
<1>1. /\ active' = [active EXCEPT ![deleting[s]] = @ \ {s}]
      /\ deleting' = [deleting EXCEPT ![s] = NoProxy]
      /\ UNCHANGED <<registry, phase, home, stage, owner, at, overlapped,
                     deleted, latest>>
  BY DEF DeleteActive, sessionVars, streamVars, openedVars
<1>2. SessionsStayHome' /\ MadeInv'
  BY <1>t, <1>1 DEF IInv, TypeOK, SessionsStayHome, HasActive, MadeInv
<1>3. StreamInv' /\ SenderInv' /\ SingleInv' /\ FedInv'
  BY <1>1 DEF IInv, StreamInv, SenderInv, SingleInv, FedInv
<1>4. ActiveInv'
  <2> SUFFICES ASSUME NEW x \in Session \ overlapped,
                      phase[x] \in {"starting", "mcp"}, x \notin deleted
               PROVE  x \in active'[home[x]]
    BY <1>1 DEF ActiveInv
  <2>1. x \in active[home[x]] /\ home[x] \in Proxy /\ x # s
    BY <1>t, ProxyFacts DEF IInv, ActiveInv, MadeInv
  <2> QED BY <1>t, <1>1, <2>1 DEF TypeOK
<1> QED BY <1>2, <1>3, <1>4 DEF TablesInv

-----------------------------------------------------------------------------
LEMMA Inductive == IInv /\ [Next]_vars => IInv'
<1> SUFFICES ASSUME IInv, [Next]_vars PROVE IInv'
  OBVIOUS
<1>1. TypeOK'
  BY TypeStep
<1>2. TablesInv'
  <2>t. TablesInv
    BY DEF IInv, TablesInv
  <2>1. CASE \/ SpawnProxy \/ TakeOut \/ GiveBack \/ Signal \/ Exit
             \/ \E p \in Proxy : InsertProxy(p) \/ Borrow(p)
             \/ \E k \in Stream : Close(k)
             \/ \E r \in Request : Post(r) \/ PostEnds(r)
             \/ UNCHANGED vars
    <3>1. UNCHANGED <<tables, sessionVars, stage, openedVars, deleting, deleted,
                      latest>>
      BY <2>1 DEF SpawnProxy, TakeOut, GiveBack, Signal, Exit, InsertProxy,
                  Borrow, Close, Post, PostEnds, streamVars, requestVars, vars
    <3> QED BY <2>t, <3>1, TablesFrame
  <2>2. ASSUME NEW s \in Session, Initialize(s) PROVE TablesInv'
    BY <2>2, InitializeStep
  <2>3. ASSUME NEW s \in Session,
               Initialized(s) \/ InitializeFails(s) \/ InitializeAbandoned(s)
        PROVE  TablesInv'
    BY <2>3, AnsweredStep
  <2>4. ASSUME NEW s \in Session, NEW k \in Stream, Get(s, k) \/ OpenSse(s, k)
        PROVE  TablesInv'
    BY <2>4, OpenStep
  <2>5. ASSUME NEW k \in Stream, Served(k) PROVE TablesInv'
    BY <2>5, ActivateStep, RegisterStep, StreamEndsStep, CloseActiveStep,
       DisconnectStep DEF Served
  <2>7. ASSUME NEW s \in Session, Delete(s) PROVE TablesInv'
    BY <2>7, DeleteStep
  <2>8. ASSUME NEW s \in Session, DeleteActive(s) PROVE TablesInv'
    BY <2>8, DeleteActiveStep
  <2> QED BY <2>1, <2>2, <2>3, <2>4, <2>5, <2>7, <2>8 DEF Next
<1> QED BY <1>1, <1>2 DEF IInv, TablesInv

(* The inductive invariant holds throughout. *)
THEOREM InvariantHolds == Spec => []IInv
BY InitIInv, Inductive, PTL DEF Spec

(* A session is never known to another proxy than the one it was made at,  *)
(* however spawns race and proxies are replaced, and whichever handler is  *)
(* still at work for an old one.                                           *)
THEOREM SessionsStay == Spec => []SessionsStayHome
<1>1. IInv => SessionsStayHome
  BY DEF IInv
<1> QED BY <1>1, InvariantHolds, PTL

(* The newest stream of a session is fed as long as the server has never   *)
(* had two of the session's streams at once.                               *)
THEOREM OneStreamFed == Spec => []OneStreamIsFed
<1>1. IInv => OneStreamIsFed
  <2> SUFFICES ASSUME IInv, NEW s \in Session \ overlapped, latest[s] # None,
                      stage[latest[s]] = "open", s \notin deleted
               PROVE  /\ s \in DOMAIN registry[home[s]]
                      /\ registry[home[s]][s] = latest[s]
    BY DEF OneStreamIsFed, Fed
  <2>1. latest[s] \in Stream /\ owner[latest[s]] = s
    BY DEF IInv, TypeOK, SenderInv
  <2>2. at[latest[s]] = home[s] /\ s # None
    BY <2>1, StreamFacts
  <2> QED BY <2>1, <2>2 DEF IInv, FedInv
<1> QED BY <1>1, InvariantHolds, PTL

(* And such a session stays known until its client ends it.                *)
THEOREM KnownUntilTheEnd == Spec => []KnownUntilDeleted
<1>1. IInv => KnownUntilDeleted
  BY DEF IInv, ActiveInv, KnownUntilDeleted, HasActive
<1> QED BY <1>1, InvariantHolds, PTL

-----------------------------------------------------------------------------
(* The server's entry in the map implements ProxyMap.                      *)

LEMMA MapRefinesInit == Init => Map!MapInit
<1> SUFFICES ASSUME Init PROVE Map!MapInit
  OBVIOUS
<1>1. MadeFor = [p \in {} |-> p] /\ Mapped = {}
  BY DEF Init, MadeFor, Mapped
<1>2. Initializing = {} /\ Deleting = {} /\ Streaming = {} /\ Posting = {}
  BY DEF Init, Initializing, Deleting, Streaming, Posting, InHand
<1> QED BY <1>1, <1>2 DEF Init, Having, Map!MapInit, Map!EmptyTable

(* One that has got a proxy, or has dropped it.                            *)
Holding ==
  ({"initialize", "delete"} \X Session) \cup ({"stream"} \X Stream)
    \cup ({"post"} \X Request)

LEMMA TakeProxy ==
  ASSUME NEW h \in Holding, current \in Proxy, UNCHANGED proxyVars,
         Having' = Having \cup {<<h, current>>}
  PROVE  Map!MapNext
<1>1. current \in Mapped
  BY DEF Mapped, Proxy, NoProxy
<1>2. Map!Take(h, current)
  BY <1>1 DEF Map!Take, MadeFor, Mapped, proxyVars
<1> QED BY <1>2 DEF Map!MapNext, Holding

LEMMA DropProxy ==
  ASSUME NEW h \in Holding, NEW p \in Proxy, UNCHANGED proxyVars,
         Having' = Having \ {<<h, p>>}
  PROVE  Map!MapNext
<1>1. Map!Drop(h, p)
  BY DEF Map!Drop, MadeFor, Mapped, proxyVars
<1> QED BY <1>1 DEF Map!MapNext, Holding

LEMMA KeepProxy ==
  ASSUME UNCHANGED <<proxyVars, sessionVars, deleting, posting, at>>,
         \A k \in Stream : stage'[k] \in InHand <=> stage[k] \in InHand
  PROVE  UNCHANGED Map!mapVars
<1>1. Initializing' = Initializing /\ Deleting' = Deleting /\ Posting' = Posting
  BY DEF Initializing, Deleting, Posting, sessionVars
<1>2. Streaming' = Streaming
  BY DEF Streaming
<1> QED BY <1>1, <1>2 DEF Map!mapVars, Having, MadeFor, Mapped, proxyVars

LEMMA MapRefinesStep == IInv /\ [Next]_vars => [Map!MapNext]_(Map!mapVars)
<1> SUFFICES ASSUME IInv, [Next]_vars PROVE Map!MapNext \/ UNCHANGED Map!mapVars
  OBVIOUS
<1> DEFINE Goal == Map!MapNext \/ UNCHANGED Map!mapVars
<1> USE DEF sessionVars, streamVars, openedVars, requestVars
<1>t. /\ TypeOK /\ MaxProxies \in Nat /\ spawns \in Nat
      /\ phase \in [Session -> Phases] /\ home \in [Session -> 0 .. spawns]
      /\ stage \in [Stream -> Stages] /\ at \in [Stream -> 0 .. spawns]
      /\ deleting \in [Session -> 0 .. spawns]
      /\ posting \in [Request -> 0 .. spawns]
  BY MaxProxiesAssumption DEF IInv, TypeOK
<1>h. /\ \A s \in Session : /\ <<"initialize", s>> \in Holding
                             /\ <<"delete", s>> \in Holding
      /\ \A k \in Stream : <<"stream", k>> \in Holding
      /\ \A r \in Request : <<"post", r>> \in Holding
  BY DEF Holding
<1>0. ASSUME UNCHANGED <<spawns, sessionVars, streamVars, deleting, posting>>
      PROVE  UNCHANGED <<MadeFor, Having>>
  BY <1>0 DEF Having, Initializing, Deleting, Streaming, Posting, MadeFor
<1>1. CASE SpawnProxy
  <2>1. /\ UNCHANGED <<current, sessionVars, streamVars, deleting, posting>>
        /\ spawns' = spawns + 1 /\ spawns < MaxProxies
        /\ spawning' = spawning \cup {spawns + 1}
    BY <1>1 DEF SpawnProxy
  <2>2. spawns + 1 \in Proxy
    BY <1>t, <2>1 DEF Proxy
  <2>3. /\ spawns + 1 \notin DOMAIN MadeFor
        /\ DOMAIN MadeFor' = DOMAIN MadeFor \cup {spawns + 1}
    BY <1>t, <2>1 DEF MadeFor
  <2>4. MadeFor' = Map!Insert(MadeFor, spawns + 1, None)
    BY <2>3 DEF MadeFor, Map!Insert
  <2>5. Having' = Having /\ Mapped' = Mapped
    BY <2>1 DEF Having, Initializing, Deleting, Streaming, Posting, Mapped
  <2>6. Map!Make(spawns + 1, None)
    BY <2>1, <2>3, <2>4, <2>5 DEF Map!Make
  <2> QED BY <2>2, <2>6 DEF Map!MapNext
<1>2. ASSUME NEW p \in Proxy, InsertProxy(p) PROVE Goal
  <2>1. /\ p \in spawning /\ spawning' = spawning \ {p} /\ current' = p
        /\ UNCHANGED <<spawns, sessionVars, streamVars, deleting, posting>>
    BY <1>2 DEF InsertProxy
  <2>2. p \in 1 .. spawns /\ current \in 0 .. spawns
    BY <1>t, <2>1 DEF TypeOK
  <2>3. Mapped' = {q \in Mapped : MadeFor[q] # MadeFor[p]} \cup {p}
    <3>1. Mapped \subseteq 1 .. spawns
      BY <1>t, <2>2 DEF Mapped, NoProxy
    <3>2. \A q \in 1 .. spawns : MadeFor[q] = None
      BY DEF MadeFor
    <3>3. Mapped' = {p}
      BY <1>t, <2>1, <2>2 DEF Mapped, NoProxy
    <3> QED BY <2>2, <3>1, <3>2, <3>3
  <2>4. Map!Put(p)
    BY <1>0, <2>1, <2>3 DEF Map!Put
  <2> QED BY <2>4 DEF Map!MapNext
<1>3. CASE TakeOut
  <2>1. Mapped' \subseteq Mapped /\ UNCHANGED <<MadeFor, spawning, Having>>
    BY <1>0, <1>3 DEF TakeOut, Mapped
  <2> QED BY <2>1 DEF Map!MapNext, Map!LetGo
<1>4. ASSUME UNCHANGED <<proxyVars, sessionVars, streamVars, deleting, posting>>
      PROVE  Goal
  BY <1>4, KeepProxy
<1>5. ASSUME NEW s \in Session, Initialize(s) PROVE Goal
  <2>1. /\ phase[s] = "new" /\ phase' = [phase EXCEPT ![s] = "starting"]
        /\ home' = [home EXCEPT ![s] = current]
        /\ UNCHANGED <<proxyVars, streamVars, deleting, posting>> /\ current \in Proxy
    BY <1>5, <1>t, ProxyFacts DEF Initialize, Begins
  <2>2. Initializing' = Initializing \cup {<<<<"initialize", s>>, current>>}
    BY <1>t, <2>1 DEF Initializing
  <2>3. Deleting' = Deleting /\ Streaming' = Streaming /\ Posting' = Posting
    BY <2>1 DEF Deleting, Streaming, Posting
  <2>4. Having' = Having \cup {<<<<"initialize", s>>, current>>}
    BY <2>2, <2>3 DEF Having
  <2> QED BY <1>h, <2>1, <2>4, TakeProxy
<1>6. ASSUME NEW s \in Session,
             Initialized(s) \/ InitializeFails(s) \/ InitializeAbandoned(s)
      PROVE  Goal
  <2>1. /\ phase[s] = "starting" /\ phase'[s] # "starting"
        /\ \A x \in Session \ {s} : phase'[x] = phase[x]
        /\ UNCHANGED <<proxyVars, home, streamVars, deleting, posting>>
    BY <1>6, <1>t DEF Initialized, InitializeFails, InitializeAbandoned, Answered
  <2>2. Initializing' = Initializing \ {<<<<"initialize", s>>, home[s]>>}
    BY <1>t, <2>1 DEF Initializing
  <2>3. Deleting' = Deleting /\ Streaming' = Streaming /\ Posting' = Posting
    BY <2>1 DEF Deleting, Streaming, Posting
  <2>4. Having' = Having \ {<<<<"initialize", s>>, home[s]>>}
    BY <2>2, <2>3 DEF Having, Deleting, Streaming, Posting
  <2>5. home[s] \in Proxy
    BY <1>t, <2>1, ProxyFacts DEF IInv, MadeInv
  <2> QED BY <1>h, <2>1, <2>4, <2>5, DropProxy
<1>7. ASSUME NEW s \in Session, NEW k \in Stream, Get(s, k) \/ OpenSse(s, k)
      PROVE  Goal
  <2>1. /\ stage[k] = "unused" /\ stage' = [stage EXCEPT ![k] = "checked"]
        /\ at' = [at EXCEPT ![k] = current]
        /\ UNCHANGED <<proxyVars, deleting, posting>> /\ current \in Proxy
    BY <1>7, <1>t, ProxyFacts DEF Get, OpenSse, OpenAt, Unused, Begins
  <2>2. Streaming' = Streaming \cup {<<<<"stream", k>>, current>>}
    BY <1>t, <2>1 DEF Streaming, InHand
  <2>3. Initializing' = Initializing
    BY <1>7, <1>t DEF Get, OpenSse, Initializing
  <2>4. Deleting' = Deleting /\ Posting' = Posting
    BY <2>1 DEF Deleting, Posting
  <2>5. Having' = Having \cup {<<<<"stream", k>>, current>>}
    BY <2>2, <2>3, <2>4 DEF Having
  <2> QED BY <1>h, <2>1, <2>5, TakeProxy
<1>8. ASSUME NEW k \in Stream, stage[k] \in InHand, stage'[k] \notin InHand,
             \A l \in Stream \ {k} : stage'[l] = stage[l],
             UNCHANGED <<proxyVars, sessionVars, deleting, posting, at>>
      PROVE  Goal
  <2>1. Streaming' = Streaming \ {<<<<"stream", k>>, at[k]>>}
    BY <1>t, <1>8 DEF Streaming
  <2>2. Initializing' = Initializing /\ Deleting' = Deleting /\ Posting' = Posting
    BY <1>8 DEF Initializing, Deleting, Posting
  <2>3. Having' = Having \ {<<<<"stream", k>>, at[k]>>}
    BY <2>1, <2>2 DEF Having, Initializing, Deleting, Posting
  <2>4. at[k] \in Proxy
    BY <1>8, StreamFacts DEF InHand
  <2> QED BY <1>h, <1>8, <2>3, <2>4, DropProxy
<1>9. ASSUME NEW k \in Stream, Served(k) PROVE Goal
  <2>1. UNCHANGED <<proxyVars, sessionVars, deleting, posting, at>>
    BY <1>9 DEF Served, Activate, Register, StreamEnds, CloseActive, Disconnect
  <2>2. /\ stage[k] \in InHand
        /\ \A l \in Stream \ {k} : stage'[l] = stage[l]
    BY <1>9, <1>t DEF Served, Activate, Register, StreamEnds, CloseActive,
                      Disconnect, Finish, InHand
  <2>3. CASE stage'[k] \in InHand
    BY <2>1, <2>2, <2>3, KeepProxy
  <2> QED BY <1>8, <2>1, <2>2, <2>3
<1>10. ASSUME NEW s \in Session, Delete(s) PROVE Goal
  <2>1. /\ deleting' = [deleting EXCEPT ![s] = current]
        /\ UNCHANGED <<proxyVars, sessionVars, streamVars, posting>>
        /\ current \in Proxy /\ s \notin deleted /\ current # NoProxy
    BY <1>10, <1>t, ProxyFacts DEF Delete, Begins
  <2>2. deleting[s] = NoProxy
    BY <2>1 DEF IInv, MadeInv
  <2>3. Deleting' = Deleting \cup {<<<<"delete", s>>, current>>}
    BY <1>t, <2>1, <2>2 DEF Deleting
  <2>4. Initializing' = Initializing /\ Streaming' = Streaming /\ Posting' = Posting
    BY <2>1 DEF Initializing, Streaming, Posting
  <2>5. Having' = Having \cup {<<<<"delete", s>>, current>>}
    BY <2>3, <2>4 DEF Having
  <2> QED BY <1>h, <2>1, <2>5, TakeProxy
<1>11. ASSUME NEW s \in Session, DeleteActive(s) PROVE Goal
  <2>1. /\ deleting[s] # NoProxy /\ deleting' = [deleting EXCEPT ![s] = NoProxy]
        /\ UNCHANGED <<proxyVars, sessionVars, streamVars, posting>>
    BY <1>11 DEF DeleteActive
  <2>2. Deleting' = Deleting \ {<<<<"delete", s>>, deleting[s]>>}
    BY <1>t, <2>1 DEF Deleting
  <2>3. Initializing' = Initializing /\ Streaming' = Streaming /\ Posting' = Posting
    BY <2>1 DEF Initializing, Streaming, Posting
  <2>4. Having' = Having \ {<<<<"delete", s>>, deleting[s]>>}
    BY <2>2, <2>3 DEF Having, Initializing, Streaming, Posting
  <2>5. deleting[s] \in Proxy
    BY <1>t, <2>1, ProxyFacts
  <2> QED BY <1>h, <2>1, <2>4, <2>5, DropProxy
<1>12. ASSUME NEW r \in Request, Post(r) PROVE Goal
  <2>1. /\ posting[r] = NoProxy /\ posting' = [posting EXCEPT ![r] = current]
        /\ UNCHANGED <<proxyVars, sessionVars, streamVars, deleting>>
        /\ current \in Proxy /\ current # NoProxy
    BY <1>12, <1>t, ProxyFacts DEF Post, Begins
  <2>2. Posting' = Posting \cup {<<<<"post", r>>, current>>}
    BY <1>t, <2>1 DEF Posting
  <2>3. /\ Initializing' = Initializing /\ Streaming' = Streaming
        /\ Deleting' = Deleting
    BY <2>1 DEF Initializing, Streaming, Deleting
  <2>4. Having' = Having \cup {<<<<"post", r>>, current>>}
    BY <2>2, <2>3 DEF Having
  <2> QED BY <1>h, <2>1, <2>4, TakeProxy
<1>13. ASSUME NEW r \in Request, PostEnds(r) PROVE Goal
  <2>1. /\ posting[r] # NoProxy /\ posting' = [posting EXCEPT ![r] = NoProxy]
        /\ UNCHANGED <<proxyVars, sessionVars, streamVars, deleting>>
    BY <1>13 DEF PostEnds
  <2>2. Posting' = Posting \ {<<<<"post", r>>, posting[r]>>}
    BY <1>t, <2>1 DEF Posting
  <2>3. /\ Initializing' = Initializing /\ Streaming' = Streaming
        /\ Deleting' = Deleting
    BY <2>1 DEF Initializing, Streaming, Deleting
  <2>4. Having' = Having \ {<<<<"post", r>>, posting[r]>>}
    BY <2>2, <2>3 DEF Having, Initializing, Streaming, Deleting
  <2>5. posting[r] \in Proxy
    BY <1>t, <2>1, MaxProxiesAssumption DEF TypeOK, Proxy, NoProxy
  <2> QED BY <1>h, <2>1, <2>4, <2>5, DropProxy
<1>14. ASSUME NEW k \in Stream, Close(k) PROVE Goal
  BY <1>14, KeepProxy DEF Close
<1>15. CASE GiveBack \/ Signal \/ Exit \/ UNCHANGED vars
  BY <1>4, <1>15 DEF GiveBack, Signal, Exit, vars
<1>16. ASSUME NEW p \in Proxy, Borrow(p) PROVE Goal
  BY <1>4, <1>16 DEF Borrow
<1>17. Goal
  BY <1>1, <1>2, <1>3, <1>5, <1>6, <1>7, <1>9, <1>10, <1>11, <1>12, <1>13,
     <1>14, <1>15, <1>16 DEF Next
<1> QED BY <1>17

(* Whatever is done to the map, and whoever keeps a proxy it has let go    *)
(* of, every new handler begins at the proxy in the map: the proxies of    *)
(* the past gain no session and no stream, and end with those they have.   *)
THEOREM SessionsKeepTheMap == Spec => MapIsKept
BY MapRefinesInit, MapRefinesStep, InvariantHolds, PTL
   DEF Spec, MapIsKept, Map!MapSpec
=============================================================================
