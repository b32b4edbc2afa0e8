------------------------------- MODULE Sessions -------------------------------
(***************************************************************************)
(* routes.rs, session.rs, the session tables of proxy.rs, and what         *)
(* state.rs and main.rs do to them: how the sessions of one configured     *)
(* server come and go, while its proxy is replaced under them and until    *)
(* the gateway shuts down.                                                 *)
(*                                                                         *)
(* A session is known to one proxy, by two tables behind a mutex each:     *)
(* active_sessions and the registry of senders.  A session of /mcp is made *)
(* by an initialize request, may open event streams with GET, at any time  *)
(* and more than once, and is ended by DELETE; a session of /sse is made   *)
(* with its one stream.  A stream ends when its channel has no sender      *)
(* left, and then cleans up after its session; a stream whose client has   *)
(* closed it goes on until the server notices, and is then dropped where   *)
(* it stands, without cleaning up.  Every handler takes the proxy the map  *)
(* has when it begins and keeps it.  StdioProxy has what goes through the  *)
(* channels, AppState what is done to the map.                             *)
(***************************************************************************)
EXTENDS Integers, Table

CONSTANTS
  Session,    \* session ids the gateway may mint
  Sse,        \* those of them that it mints for /sse
  Stream,     \* event streams, each opened by a GET of its own
  Request,    \* ordinary requests, each made any number of times
  MaxProxies  \* bound on the proxies spawned for the server

ASSUME MaxProxiesAssumption == MaxProxies \in Nat

VARIABLES
  current,   \* AppState::proxies, the server's proxy in it or NoProxy
  spawns,    \* proxies spawned so far, numbered from 1
  spawning,  \* those among them not yet put into the map
  active,    \* active[p], ChildProxy::active_sessions
  registry,  \* registry[p], SessionRegistry::inner, session -> stream it feeds
  phase,     \* phase[s], how far the making of session s is
  home,      \* home[s], the proxy it was made at
  stage,     \* stage[k], how far the handler of GET k and its stream are
  owner,     \* owner[k], the session of stream k
  at,        \* at[k], the proxy it holds
  closed,    \* streams still open that their client has closed
  lent,      \* senders a drain task has cloned out of its registry
  deleting,  \* deleting[s], the proxy a DELETE of s is in the middle of
  posting,   \* posting[r], the proxy the handler of POST r holds
  server,    \* "serving", "draining" after a signal, "down"
  deleted,   \* history: sessions whose client has sent a DELETE
  latest,    \* history: latest[s], the stream registered last for s
  overlapped \* history: sessions a stream of which was opened while the
             \* server still had another

proxyVars == <<current, spawns, spawning>>
tables == <<active, registry>>
sessionVars == <<phase, home>>
openedVars == <<owner, at, overlapped>>
streamVars == <<stage, closed, openedVars>>
requestVars == <<deleting, deleted, posting>>
vars == <<proxyVars, tables, sessionVars, streamVars, lent, requestVars, server,
          latest>>

None == "none"
ASSUME NoneAssumption == None \notin Session \cup Stream

NoProxy == 0
Proxy == 1 .. MaxProxies

Phases == {"new", "starting", "mcp", "sse", "failed", "orphan"}
Stages ==
  {"unused", "checked", "activated", "open", "closing", "ended", "gone"}

(* Stages in which a handler or a stream has its proxy in its hands. *)
InHand == {"checked", "activated", "open", "closing"}

TypeOK ==
  /\ spawns \in 0 .. MaxProxies
  /\ current \in 0 .. spawns /\ spawning \subseteq 1 .. spawns
  /\ active \in [Proxy -> SUBSET Session]
  /\ DOMAIN registry = Proxy
  /\ \A p \in Proxy :
       DOMAIN registry[p] \subseteq Session /\ Range(registry[p]) \subseteq Stream
  /\ phase \in [Session -> Phases]
  /\ home \in [Session -> 0 .. spawns]
  /\ stage \in [Stream -> Stages]
  /\ owner \in [Stream -> Session \cup {None}]
  /\ at \in [Stream -> 0 .. spawns]
  /\ closed \subseteq Stream
  /\ lent \subseteq Stream
  /\ deleting \in [Session -> 0 .. spawns]
  /\ deleted \subseteq Session
  /\ posting \in [Request -> 0 .. spawns]
  /\ server \in {"serving", "draining", "down"}
  /\ latest \in [Session -> Stream \cup {None}]
  /\ overlapped \subseteq Session

Init ==
  /\ current = NoProxy /\ spawns = 0 /\ spawning = {}
  /\ active = [p \in Proxy |-> {}]
  /\ registry = [p \in Proxy |-> EmptyTable]
  /\ phase = [s \in Session |-> "new"]
  /\ home = [s \in Session |-> NoProxy]
  /\ stage = [k \in Stream |-> "unused"]
  /\ owner = [k \in Stream |-> None]
  /\ at = [k \in Stream |-> NoProxy]
  /\ closed = {} /\ overlapped = {}
  /\ lent = {}
  /\ deleting = [s \in Session |-> NoProxy] /\ deleted = {}
  /\ posting = [r \in Request |-> NoProxy]
  /\ server = "serving"
  /\ latest = [s \in Session |-> None]

(* One stream is like another: they are taken in some order that is always *)
(* the same.                                                               *)
Unused(k) == stage[k] = "unused" /\ k = CHOOSE l \in Stream : stage[l] = "unused"

(* Mutant: only the registry is asked. *)
HasStream(p, s) == s \in DOMAIN registry[p]

(* has_active_session *)
HasActive(p, s) == s \in active[p] \/ s \in DOMAIN registry[p]

-----------------------------------------------------------------------------
(* The proxy in the map.                                                   *)

(* get_or_spawn by a handler that found none: other handlers may do the    *)
(* same before it has put its own into the map.  From there on it is like  *)
(* one that found it there.                                                *)
SpawnProxy ==
  /\ current = NoProxy /\ spawns < MaxProxies
  /\ spawns' = spawns + 1
  /\ spawning' = spawning \cup {spawns + 1}
  /\ UNCHANGED <<current, tables, sessionVars, streamVars, lent, requestVars,
                 server, latest>>

InsertProxy(p) ==
  /\ p \in spawning
  /\ current' = p
  /\ spawning' = spawning \ {p}
  /\ UNCHANGED <<spawns, tables, sessionVars, streamVars, lent, requestVars,
                 server, latest>>

(* disable_server, or reload_from_disk for an entry that has changed: the  *)
(* map lets go of the proxy, and those who hold it go on.                  *)
TakeOut ==
  /\ current # NoProxy
  /\ current' = NoProxy
  /\ UNCHANGED <<spawns, spawning, tables, sessionVars, streamVars, lent,
                 requestVars, server, latest>>

(* get_or_spawn finds a proxy.  After a signal too: for a request that was *)
(* taken before it and comes to its handler late.                          *)
Begins == current # NoProxy

-----------------------------------------------------------------------------
(* post_mcp_message without a session id: initialize.                      *)

Initialize(s) ==
  /\ phase[s] = "new" /\ s \notin Sse /\ Begins
  /\ phase' = [phase EXCEPT ![s] = "starting"]
  /\ home' = [home EXCEPT ![s] = current]
  /\ active' = [active EXCEPT ![current] = @ \cup {s}]
  /\ UNCHANGED <<proxyVars, registry, streamVars, lent, requestVars, server,
                 latest>>

Answered(s, outcome) ==
  /\ phase[s] = "starting"
  /\ phase' = [phase EXCEPT ![s] = outcome]
  /\ UNCHANGED <<proxyVars, registry, home, streamVars, lent, requestVars,
                 server, latest>>

(* The child answers, and the client is told the session's id. *)
Initialized(s) == Answered(s, "mcp") /\ UNCHANGED active

InitializeFails(s) ==
  /\ Answered(s, "failed")
  /\ active' = [active EXCEPT ![home[s]] = @ \ {s}]

(* The client goes before it has its answer: the handler is dropped and    *)
(* the session nobody knows stays active.                                  *)
InitializeAbandoned(s) == Answered(s, "orphan") /\ UNCHANGED active

-----------------------------------------------------------------------------
(* get_mcp_sse and open_sse, and the streams they return.                  *)

(* Another of the session's streams is still at the server. *)
StreamAt(s) == \E l \in Stream : owner[l] = s /\ stage[l] \in InHand

OpenAt(p, s, k) ==
  /\ Unused(k)
  /\ stage' = [stage EXCEPT ![k] = "checked"]
  /\ owner' = [owner EXCEPT ![k] = s]
  /\ at' = [at EXCEPT ![k] = p]
  /\ overlapped' = IF StreamAt(s) THEN overlapped \cup {s} ELSE overlapped
  /\ UNCHANGED <<proxyVars, tables, closed, lent, requestVars, server, latest>>

(* Mutant: a session is taken for known as long as its client has one. *)
GetUnchecked(s, k) ==
  /\ phase[s] = "mcp" /\ Begins
  /\ OpenAt(current, s, k)
  /\ UNCHANGED sessionVars

(* Mutant: a session's stream is opened where the session was made. *)
GetAtHome(s, k) ==
  /\ phase[s] = "mcp"
  /\ HasActive(home[s], s)
  /\ OpenAt(home[s], s, k)
  /\ UNCHANGED sessionVars

(* get_mcp_sse's check; a session that the proxy of the moment does not    *)
(* know is turned away.  Nothing keeps a client from opening a second      *)
(* stream, and one that has closed its stream cannot know whether the      *)
(* server has noticed.                                                     *)
Get(s, k) ==
  /\ phase[s] = "mcp"
  /\ Begins /\ HasActive(current, s)
  /\ OpenAt(current, s, k)
  /\ UNCHANGED sessionVars

(* open_sse mints the session and checks nothing. *)
OpenSse(s, k) ==
  /\ phase[s] = "new" /\ s \in Sse /\ Begins
  /\ phase' = [phase EXCEPT ![s] = "sse"]
  /\ home' = [home EXCEPT ![s] = current]
  /\ OpenAt(current, s, k)

(* register_session: add_active_session ... *)
Activate(k) ==
  /\ stage[k] = "checked"
  /\ stage' = [stage EXCEPT ![k] = "activated"]
  /\ active' = [active EXCEPT ![at[k]] = @ \cup {owner[k]}]
  /\ UNCHANGED <<proxyVars, registry, sessionVars, closed, openedVars, lent, requestVars,
                 server, latest>>

(* Mutant: a sender that is there already stays. *)
RegisterOnce(k) ==
  /\ stage[k] = "activated"
  /\ stage' = [stage EXCEPT ![k] = "open"]
  /\ registry' = [registry EXCEPT ![at[k]] =
                    IF owner[k] \in DOMAIN @ THEN @ ELSE Insert(@, owner[k], k)]
  /\ latest' = [latest EXCEPT ![owner[k]] = k]
  /\ UNCHANGED <<proxyVars, active, sessionVars, closed, openedVars, lent, requestVars,
                 server>>

(* ... and sessions.register, which drops the sender it replaces. *)
Register(k) ==
  /\ stage[k] = "activated"
  /\ stage' = [stage EXCEPT ![k] = "open"]
  /\ registry' = [registry EXCEPT ![at[k]] = Insert(@, owner[k], k)]
  /\ latest' = [latest EXCEPT ![owner[k]] = k]
  /\ UNCHANGED <<proxyVars, active, sessionVars, closed, openedVars, lent, requestVars,
                 server>>

(* Some sender of k's channel is left, in its proxy's registry or with its *)
(* drain task.                                                             *)
HasSender(k) == k \in lent \/ \E p \in Proxy : k \in Range(registry[p])

Finish(k) ==
  /\ stage' = [stage EXCEPT ![k] =
                 IF phase[owner[k]] = "sse" THEN "ended" ELSE "closing"]
  /\ closed' = closed \ {k}

(* Mutant: a stream ends when its session is not registered, rather than   *)
(* when its own sender has gone.                                           *)
StreamEndsLate(k) ==
  /\ stage[k] = "open"
  /\ owner[k] \notin DOMAIN registry[at[k]] /\ k \notin lent
  /\ Finish(k)
  /\ UNCHANGED <<proxyVars, tables, sessionVars, openedVars, lent, requestVars,
                 server, latest>>

(* rx.next() finds no sender left, and the session is dropped from the     *)
(* registry, whichever sender it has there ...                             *)
StreamEnds(k) ==
  /\ stage[k] = "open" /\ ~HasSender(k)
  /\ registry' = [registry EXCEPT ![at[k]] = Remove(@, owner[k])]
  /\ Finish(k)
  /\ UNCHANGED <<proxyVars, active, sessionVars, openedVars, lent, requestVars,
                 server, latest>>

(* ... and, from get_mcp_sse's stream, from active_sessions. *)
CloseActive(k) ==
  /\ stage[k] = "closing"
  /\ stage' = [stage EXCEPT ![k] = "ended"]
  /\ active' = [active EXCEPT ![at[k]] = @ \ {owner[k]}]
  /\ UNCHANGED <<proxyVars, registry, sessionVars, closed, openedVars, lent, requestVars,
                 server, latest>>

(* The client closes the connection, and loses interest at once ...        *)
Close(k) ==
  /\ stage[k] = "open" /\ k \notin closed
  /\ closed' = closed \cup {k}
  /\ UNCHANGED <<proxyVars, tables, sessionVars, stage, openedVars, lent,
                 requestVars, server, latest>>

(* ... but the server drops the stream when it notices, by a read or by a  *)
(* keep-alive it cannot write.  Until then the stream is as before.        *)
Disconnect(k) ==
  /\ stage[k] = "open" /\ k \in closed
  /\ stage' = [stage EXCEPT ![k] = "gone"]
  /\ closed' = closed \ {k}
  /\ UNCHANGED <<proxyVars, tables, sessionVars, openedVars, lent, requestVars,
                 server, latest>>

-----------------------------------------------------------------------------
(* delete_mcp_session, which takes the session out of one table of the     *)
(* proxy of the moment and then out of the other, known there or not.      *)

Delete(s) ==
  /\ phase[s] = "mcp" /\ s \notin deleted /\ Begins
  /\ registry' = [registry EXCEPT ![current] = Remove(@, s)]
  /\ deleting' = [deleting EXCEPT ![s] = current]
  /\ deleted' = deleted \cup {s}
  /\ UNCHANGED <<proxyVars, active, sessionVars, streamVars, lent, posting,
                 server, latest>>

DeleteActive(s) ==
  /\ deleting[s] # NoProxy
  /\ active' = [active EXCEPT ![deleting[s]] = @ \ {s}]
  /\ deleting' = [deleting EXCEPT ![s] = NoProxy]
  /\ UNCHANGED <<proxyVars, registry, sessionVars, streamVars, lent, deleted,
                 posting, server, latest>>

(* post_message, and post_mcp_message with a session id: a request, a      *)
(* response or a notification on its way to the child.  Its handler keeps  *)
(* the proxy while it waits, for room in the queue or for the answer.      *)
Post(r) ==
  /\ posting[r] = NoProxy /\ Begins
  /\ posting' = [posting EXCEPT ![r] = current]
  /\ UNCHANGED <<proxyVars, tables, sessionVars, streamVars, lent, deleting,
                 deleted, server, latest>>

(* It is answered, turned away or given up by its client. *)
PostEnds(r) ==
  /\ posting[r] # NoProxy
  /\ posting' = [posting EXCEPT ![r] = NoProxy]
  /\ UNCHANGED <<proxyVars, tables, sessionVars, streamVars, lent, deleting,
                 deleted, server, latest>>

(* A drain task clones the senders of one session or of all, and drops its *)
(* clones when it has sent to them.                                        *)
Borrow(p) ==
  /\ lent = {}
  /\ lent' \in {Range(registry[p])} \cup
               {{registry[p][s]} : s \in DOMAIN registry[p]}
  /\ UNCHANGED <<proxyVars, tables, sessionVars, streamVars, requestVars, server,
                 latest>>

GiveBack ==
  /\ lent # {}
  /\ lent' = {}
  /\ UNCHANGED <<proxyVars, tables, sessionVars, streamVars, requestVars, server,
                 latest>>

-----------------------------------------------------------------------------
(* Shutdown.                                                               *)

(* The first Ctrl+C or SIGTERM: no request is taken from now on, and those *)
(* taken before are served to their end.                                   *)
Signal ==
  /\ server = "serving"
  /\ server' = "draining"
  /\ UNCHANGED <<proxyVars, tables, sessionVars, streamVars, lent, requestVars,
                 latest>>

(* Requests under way, open streams among them. *)
UnderWay ==
  \/ spawning # {}
  \/ \E s \in Session : phase[s] = "starting" \/ deleting[s] # NoProxy
  \/ \E r \in Request : posting[r] # NoProxy
  \/ \E k \in Stream : stage[k] \in InHand

(* Mutant: sessions still registered are waited for too. *)
ExitWhenForgotten ==
  /\ server = "draining" /\ ~UnderWay
  /\ \A p \in Proxy : DOMAIN registry[p] = {}
  /\ server' = "down"
  /\ UNCHANGED <<proxyVars, tables, sessionVars, streamVars, lent, requestVars,
                 latest>>

(* serve has waited for them, and main returns. *)
Exit ==
  /\ server = "draining" /\ ~UnderWay
  /\ server' = "down"
  /\ UNCHANGED <<proxyVars, tables, sessionVars, streamVars, lent, requestVars,
                 latest>>

-----------------------------------------------------------------------------
Served(k) ==
  Activate(k) \/ Register(k) \/ StreamEnds(k) \/ CloseActive(k) \/ Disconnect(k)

Next ==
  /\ server # "down"
  /\ \/ SpawnProxy \/ TakeOut \/ GiveBack \/ Signal \/ Exit
     \/ \E p \in Proxy : InsertProxy(p) \/ Borrow(p)
     \/ \E s \in Session :
          \/ Initialize(s) \/ Initialized(s) \/ InitializeFails(s)
          \/ InitializeAbandoned(s) \/ Delete(s) \/ DeleteActive(s)
          \/ \E k \in Stream : Get(s, k) \/ OpenSse(s, k)
     \/ \E k \in Stream : Served(k) \/ Close(k)
     \/ \E r \in Request : Post(r) \/ PostEnds(r)

Spec == Init /\ [][Next]_vars

(* The runtime polls some task that can go on: handlers and streams take a *)
(* bounded number of steps, so none need be favoured, a stream that was    *)
(* closed is noticed by its keep-alive at the latest, and a drain task     *)
(* gets rid of what it has to send (StdioProxy has when).  That a request  *)
(* is ever answered, an initialize or another, is not assumed.             *)
Progress ==
  \/ \E k \in Stream : Served(k)
  \/ \E s \in Session : DeleteActive(s)
  \/ \E p \in Proxy : InsertProxy(p)
  \/ Exit

FairSpec == Spec /\ WF_vars(Progress) /\ WF_vars(GiveBack)

-----------------------------------------------------------------------------
(* What a session is promised.                                             *)

(* A session is known to the proxy it was made at and to no other, so that *)
(* a server's child never hears of the sessions of the one before it.      *)
SessionsStayHome ==
  \A p \in Proxy, s \in Session : HasActive(p, s) => home[s] = p

(* Messages for a session that has not been ended go to the stream it      *)
(* opened last, as long as that is open, and as long as it is open from    *)
(* its own proxy: also when the map has let go of that.                    *)
Fed(s) ==
  LET k == latest[s] IN
  k # None /\ stage[k] = "open" /\ s \notin deleted =>
    s \in DOMAIN registry[home[s]] /\ registry[home[s]][s] = k

(* "Each connected SSE client gets one of these. The tx end is held by the *)
(* session registry", session.rs:6-8.                                      *)
ConnectedIsRegistered == \A s \in Session : Fed(s)

(* It is so as long as the server never has two streams of a session,      *)
(* whatever the clients of other sessions do.  A client can be sure of     *)
(* that only if it waits until the server has ended its stream before it   *)
(* opens another: one that closes its stream itself and reconnects may be  *)
(* faster than the server notices.                                         *)
OneStreamIsFed == \A s \in Session \ overlapped : Fed(s)

(* And such a session stays known at its proxy, and is not turned away     *)
(* with "Session expired or invalid" while that is in the map, until its   *)
(* client ends it.                                                         *)
KnownUntilDeleted ==
  \A s \in Session \ overlapped :
    phase[s] = "mcp" /\ s \notin deleted => HasActive(home[s], s)

(* Handlers begin at the proxy in the map, and keep it; one the map has    *)
(* let go of is not put back and gains no session, stream or handler.      *)
Initializing ==
  {<<<<"initialize", s>>, home[s]>> : s \in {x \in Session : phase[x] = "starting"}}
Deleting ==
  {<<<<"delete", s>>, deleting[s]>> : s \in {x \in Session : deleting[x] # NoProxy}}
Streaming ==
  {<<<<"stream", k>>, at[k]>> : k \in {l \in Stream : stage[l] \in InHand}}
Posting ==
  {<<<<"post", r>>, posting[r]>> : r \in {q \in Request : posting[q] # NoProxy}}
Having == Initializing \cup Deleting \cup Streaming \cup Posting

MadeFor == [p \in 1 .. spawns |-> None]
Mapped == {current} \ {NoProxy}

Map == INSTANCE ProxyMap WITH
  Server <- {None},
  Holder <- ({"initialize", "delete"} \X Session) \cup ({"stream"} \X Stream)
              \cup ({"post"} \X Request),
  made <- MadeFor,
  bringing <- spawning,
  mapped <- Mapped,
  having <- Having
MapIsKept == Map!MapSpec

(* No stream stays open for good once its sender was replaced or dropped.  *)
FedFrom(p, k) == k \in Range(registry[p])
UnfedStreamsEnd ==
  \A k \in Stream : []<>(stage[k] = "open" => \E p \in Proxy : FedFrom(p, k))

(* Who holds proxy p besides the map, and keeps its child alive. *)
Held(p) ==
  \/ p \in spawning
  \/ \E s \in Session : \/ phase[s] = "starting" /\ home[s] = p
                        \/ deleting[s] = p
  \/ \E r \in Request : posting[r] = p
  \/ \E k \in Stream : at[k] = p /\ stage[k] \in InHand

(* Who of them may do so for good: a request that waits for the child, as  *)
(* one does for ever whose child has exited, and a stream that is fed and  *)
(* that its client has not closed.                                         *)
Kept(p) ==
  \/ \E s \in Session : phase[s] = "starting" /\ home[s] = p
  \/ \E r \in Request : posting[r] = p
  \/ \E k \in Stream : /\ at[k] = p /\ stage[k] = "open" /\ k \notin closed
                       /\ FedFrom(p, k)

(* A proxy the map has let go of, and its child, are not held for good but *)
(* by one of these: not by a DELETE, nor by a stream that has been closed  *)
(* or whose sender was replaced or dropped.                                *)
ReplacedProxiesEnd ==
  \A p \in Proxy : []<>(p = current \/ ~Held(p) \/ Kept(p))

(* And a graceful shutdown waits for nothing but these: not for sessions   *)
(* that were left registered.                                              *)
ShutdownEnds == []<>(server = "draining" => \E p \in Proxy : Kept(p))

-----------------------------------------------------------------------------
(* Why they hold: the inductive invariant.                                 *)

(* A session that is not made has left no trace, and only an /mcp session  *)
(* is ever deleted.                                                        *)
MadeInv ==
  \A s \in Session :
    /\ home[s] = NoProxy <=> phase[s] = "new"
    /\ phase[s] = "new" => latest[s] = None /\ \A k \in Stream : owner[k] # s
    /\ s \in deleted => phase[s] = "mcp"
    /\ deleting[s] # NoProxy => s \in deleted

(* A stream is at its session's proxy. *)
StreamInv ==
  \A k \in Stream :
    IF stage[k] = "unused"
    THEN owner[k] = None
    ELSE /\ owner[k] \in Session /\ at[k] = home[owner[k]]
         /\ phase[owner[k]] \in {"mcp", "sse"}

(* A sender feeds a stream of its own session, which has not ended. *)
SenderInv ==
  /\ \A p \in Proxy : \A s \in DOMAIN registry[p] :
       owner[registry[p][s]] = s /\ stage[registry[p][s]] \in {"open", "gone"}
  /\ \A s \in Session : latest[s] # None => owner[latest[s]] = s

(* An /sse session has one stream, and one that is not overlapped has one  *)
(* at a time.                                                              *)
SingleInv ==
  \A k, l \in Stream :
    k # l /\ owner[k] = owner[l] /\ owner[k] # None =>
      /\ phase[owner[k]] = "mcp"
      /\ owner[k] \notin overlapped => stage[k] \notin InHand \/ stage[l] \notin InHand

(* Such a session's stream is fed, and does not end before the session.    *)
FedInv ==
  \A k \in Stream :
    owner[k] # None /\ owner[k] \notin overlapped /\ owner[k] \notin deleted =>
      /\ stage[k] \notin {"closing", "ended"}
      /\ stage[k] = "open" =>
           /\ owner[k] \in DOMAIN registry[at[k]]
           /\ registry[at[k]][owner[k]] = k

(* And the session is active from the moment it is made. *)
ActiveInv ==
  \A s \in Session \ overlapped :
    phase[s] \in {"starting", "mcp"} /\ s \notin deleted => s \in active[home[s]]

IInv ==
  /\ TypeOK
  /\ SessionsStayHome
  /\ MadeInv
  /\ StreamInv
  /\ SenderInv
  /\ SingleInv
  /\ FedInv
  /\ ActiveInv
=============================================================================
