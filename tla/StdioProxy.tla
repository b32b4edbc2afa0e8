------------------------------ MODULE StdioProxy ------------------------------
(***************************************************************************)
(* proxy.rs, child.rs, session.rs: one ChildProxy in front of one stdio    *)
(* MCP server shared by many HTTP sessions.                                *)
(*                                                                         *)
(*   handler tasks --inQ--> forward task --stdinQ--> writer task --> child *)
(*   streams <-- outbox -- drain task <--stdoutQ-- reader task <---- child *)
(*                                                                         *)
(* The handler tasks are those of Callers.  A request sent through         *)
(* send_request_from_session is answered on its oneshot channel, one sent  *)
(* through send_from_session on its session's SSE stream.  A step here is  *)
(* what one task does between two points where another can intervene: a    *)
(* lock held, a channel operation, an await.                               *)
(***************************************************************************)
EXTENDS Callers

CONSTANTS
  ServerIds,  \* ids the MCP server puts on the requests it makes itself
  Forged,     \* ids it may answer without having been sent them
  MaxLines    \* bound: lines the child writes beyond one answer per request

ASSUME ServerIdsAssumption == ServerIds \subseteq Nat
ASSUME ForgedAssumption == Forged \subseteq Nat
ASSUME BoundsAssumption == MaxLines \in Nat

VARIABLES
  \* the way in, behind the forward task
  stdinQ,      \* channel from the forward task to the writer task
  writerUp,    \* the writer task is running
  \* the child process
  childUp,     \* it is running
  seen,        \* the outbound ids it has been sent
  answered,    \* those it has answered at least once
  written,     \* the other lines it has written
  stdoutQ,     \* its output, from its pipe to the drain task
  \* the drain task
  dpc,         \* where it is
  dmsg,        \* the message in hand
  dwaiter,     \* the caller whose sender it took out of waiters
  dreply,      \* the mapping it took out of pending for a routed response
  dtargets,    \* the sessions whose sender it has still to send to
  dto,         \* the one of them it is sending to
  \* sessions
  registered,  \* SessionRegistry::inner, sessions with a sender
  stream,      \* stream[s], the receiving half: "none", "open" or "gone"
  outbox,      \* outbox[s], messages in the channel of s's stream
  \* history
  got,         \* got[s][i], replies given to session s under its id i
  owed         \* sessions still to be sent the server's message in hand

inVars == <<inQ, forwardUp, stdinQ, writerUp>>
childVars == <<childUp, seen, answered, written>>
drainVars == <<dpc, dmsg, dwaiter, dreply, dtargets, dto>>
sessionVars == <<registered, stream, outbox>>
behindVars == <<stdinQ, writerUp, childVars, stdoutQ, drainVars, sessionVars,
                got, owed>>
vars == <<muxVars, handlerVars, waiters, inVars, childVars, stdoutQ,
          drainVars, sessionVars, got, owed>>

-----------------------------------------------------------------------------
(* The line a call puts on the wire: only its outbound id matters, and 0   *)
(* stands for a payload passed through.                                    *)
Line(c) == outId[c]

ServerRequest(k) == [method |-> TRUE, id |-> k]

NoSession == "none"
NoCall == [session |-> NoSession, id |-> NoId, method |-> FALSE, via |-> "none"]
NoReply == [session |-> NoSession, id |-> NoId]

TypeOK ==
  /\ next \in Nat \ {0}
  /\ DOMAIN pending \subseteq Nat \ {0}
  /\ pc \in [Call -> HandlerState]
  /\ outId \in [Call -> Nat]
  /\ slot \in [Call -> {"empty", "filled", "dropped"}]
  /\ DOMAIN waiters \subseteq Nat \ {0}
  /\ \A n \in DOMAIN waiters : waiters[n] \in Call
  /\ inQ \in Seq(Nat) /\ stdinQ \in Seq(Nat)
  /\ forwardUp \in BOOLEAN /\ writerUp \in BOOLEAN /\ childUp \in BOOLEAN
  /\ seen \subseteq Nat \ {0} /\ answered \subseteq seen
  /\ written \in 0 .. MaxLines
  /\ stdoutQ \in Seq(Message)
  /\ dpc \in {"recv", "settle", "classify", "send"}
  /\ dmsg \in Message
  /\ dwaiter \in Call \cup {NoCall}
  /\ dreply \in [session : Session, id : Id] \cup {NoReply}
  /\ dtargets \subseteq Session
  /\ dto \in dtargets \cup {NoSession}
  /\ registered \subseteq Session
  /\ stream \in [Session -> {"none", "open", "gone"}]
  /\ outbox \in [Session -> Nat]
  /\ got \in [Session -> [Id -> Nat]]
  /\ owed \subseteq Session

Init ==
  /\ CallersInit
  /\ stdinQ = <<>> /\ stdoutQ = <<>>
  /\ writerUp = TRUE /\ childUp = TRUE
  /\ seen = {} /\ answered = {} /\ written = 0
  /\ dpc = "recv" /\ dmsg = Noise /\ dwaiter = NoCall
  /\ dreply = NoReply /\ dtargets = {} /\ dto = NoSession
  /\ registered = {}
  /\ stream = [s \in Session |-> "none"]
  /\ outbox = [s \in Session |-> 0]
  /\ got = [s \in Session |-> [i \in Id |-> 0]]
  /\ owed = {}

-----------------------------------------------------------------------------
(* Handler tasks: send_request_from_session and send_from_session.         *)

Start(c) == StartCall(c) /\ UNCHANGED behindVars
Map(c) == MapCall(c) /\ UNCHANGED behindVars
Expect(c) == ExpectCall(c) /\ UNCHANGED behindVars
Send(c) == SendCall(c, Line(c)) /\ UNCHANGED behindVars
Receive(c) == ReceiveCall(c) /\ UNCHANGED behindVars
Abandon(c) == AbandonCall(c) /\ UNCHANGED behindVars

Handler(c) == Start(c) \/ Map(c) \/ Expect(c) \/ Send(c) \/ Receive(c)

-----------------------------------------------------------------------------
(* The tasks between the handlers and the child.                           *)

(* ChildProxy::spawn's forward task: its send fails once the writer has    *)
(* dropped its receiver; it then ends, and the lines behind are lost.      *)
Forward ==
  /\ forwardUp /\ inQ # <<>>
  /\ \/ /\ writerUp
        /\ Len(stdinQ) < Cap
        /\ stdinQ' = Append(stdinQ, Head(inQ))
        /\ inQ' = Tail(inQ)
        /\ UNCHANGED forwardUp
     \/ /\ ~writerUp
        /\ forwardUp' = FALSE
        /\ inQ' = <<>>
        /\ UNCHANGED stdinQ
  /\ UNCHANGED <<muxVars, handlerVars, waiters, writerUp, childVars, stdoutQ,
                 drainVars, sessionVars, got, owed>>

(* spawn_writer: the child gets the line; a write to a dead child's pipe   *)
(* fails and ends the task.                                                *)
WriteStdin ==
  /\ writerUp /\ stdinQ # <<>>
  /\ \/ /\ childUp
        /\ seen' = seen \cup ({Head(stdinQ)} \ {0})
        /\ stdinQ' = Tail(stdinQ)
        /\ UNCHANGED writerUp
     \/ /\ ~childUp
        /\ writerUp' = FALSE
        /\ stdinQ' = <<>>
        /\ UNCHANGED seen
  /\ UNCHANGED <<muxVars, handlerVars, waiters, inQ, forwardUp, childUp,
                 answered, written, stdoutQ, drainVars, sessionVars, got, owed>>

-----------------------------------------------------------------------------
(* The child, of which the code assumes only that it writes lines.         *)

ChildAnswer(n) ==
  /\ childUp
  /\ n \in seen \ answered
  /\ Len(stdoutQ) < Cap
  /\ stdoutQ' = Append(stdoutQ, Response(n))
  /\ answered' = answered \cup {n}
  /\ UNCHANGED <<muxVars, handlerVars, waiters, inVars, childUp, seen, written,
                 drainVars, sessionVars, got, owed>>

(* Anything else it may write: an answer given again or to nothing it was  *)
(* asked, a notification, a request of its own, noise.                     *)
ChildWrite(v) ==
  /\ childUp
  /\ written < MaxLines
  /\ Len(stdoutQ) < Cap
  /\ stdoutQ' = Append(stdoutQ, v)
  /\ written' = written + 1
  /\ UNCHANGED <<muxVars, handlerVars, waiters, inVars, childUp, seen, answered,
                 drainVars, sessionVars, got, owed>>

OtherLines ==
  {Response(n) : n \in answered \cup Forged}
    \cup {ServerRequest(k) : k \in ServerIds} \cup {Notification, Noise}

ChildExit ==
  /\ childUp
  /\ childUp' = FALSE
  /\ UNCHANGED <<muxVars, handlerVars, waiters, inVars, seen, answered, written,
                 stdoutQ, drainVars, sessionVars, got, owed>>

-----------------------------------------------------------------------------
(* The drain task.                                                         *)

(* A session the child's messages can reach: its sender is registered and  *)
(* the stream behind it is still read.                                     *)
Attached == {s \in registered : stream[s] = "open"}

(* stdout_rx.recv and pending_requests.lock().remove(&outbound_id): the    *)
(* sender found under the message's id, whatever kind of message it is.    *)
DrainRecv ==
  /\ dpc = "recv" /\ stdoutQ # <<>>
  /\ LET v == Head(stdoutQ) IN
     /\ dmsg' = v
     /\ owed' = IF v.method THEN Attached ELSE {}
     /\ IF v.id \in DOMAIN waiters
        THEN /\ dwaiter' = waiters[v.id]
             /\ waiters' = Remove(waiters, v.id)
             /\ dpc' = "settle"
        ELSE /\ dpc' = "classify"
             /\ UNCHANGED <<dwaiter, waiters>>
  /\ stdoutQ' = Tail(stdoutQ)
  /\ UNCHANGED <<muxVars, handlerVars, inVars, childVars, dreply, dtargets,
                 dto, sessionVars, got>>

(* Back to recv, with nothing in hand. *)
DrainNext ==
  /\ dpc' = "recv" /\ dmsg' = Noise /\ dwaiter' = NoCall
  /\ dreply' = NoReply /\ dtargets' = {} /\ dto' = NoSession

Reply(m) == [got EXCEPT ![m.session][m.id] = @ + 1]

(* A sender was found: an answer the mux knows is sent through it, to the  *)
(* caller whose sender it is, and is ignored when that caller has gone;    *)
(* anything else drops the sender.                                         *)
DrainSettle ==
  /\ dpc = "settle"
  /\ Classify(dmsg)
  /\ LET live == pc[dwaiter] \in {"ready", "waiting"}
         routed == Class(dmsg) = "RoutedResponse" IN
     /\ slot' = [slot EXCEPT ![dwaiter] =
                   IF routed THEN "filled" ELSE "dropped"]
     /\ got' = IF routed /\ live THEN Reply(dwaiter) ELSE got
  /\ DrainNext
  /\ UNCHANGED <<pc, outId, waiters, inVars, childVars, stdoutQ, sessionVars,
                 owed>>

(* No sender: the message is for the streams, or for nobody. *)
DrainClassify ==
  /\ dpc = "classify"
  /\ Classify(dmsg)
  /\ LET m == pending[dmsg.id]
         targets == CASE Class(dmsg) = "Broadcast" -> registered
                      [] Class(dmsg) = "RoutedResponse" ->
                           {m.session} \cap registered
                      [] OTHER -> {} IN
     IF targets = {}
     THEN DrainNext
     ELSE /\ dpc' = "send"
          /\ dtargets' = targets
          /\ dto' \in targets
          /\ dreply' = IF dmsg.method THEN NoReply ELSE m
          /\ UNCHANGED <<dmsg, dwaiter>>
  /\ UNCHANGED <<handlerVars, waiters, inVars, childVars, stdoutQ, sessionVars,
                 got, owed>>

(* Mutant: try_send, which does not wait for room. *)
DrainTrySend ==
  /\ dpc = "send"
  /\ IF stream[dto] = "open" /\ outbox[dto] < Cap
     THEN /\ outbox' = [outbox EXCEPT ![dto] = @ + 1]
          /\ got' = IF dmsg.method THEN got ELSE Reply(dreply)
          /\ owed' = owed \ {dto}
     ELSE UNCHANGED <<outbox, got, owed>>
  /\ LET rest == dtargets \ {dto} IN
     IF rest = {}
     THEN DrainNext
     ELSE /\ dtargets' = rest
          /\ dto' \in rest
          /\ UNCHANGED <<dpc, dmsg, dwaiter, dreply>>
  /\ UNCHANGED <<muxVars, handlerVars, waiters, inVars, childVars, stdoutQ,
                 registered, stream>>

(* tx.send(..).await to one sender after another, in no particular order:  *)
(* waits for room in an open stream's channel, and fails at once, which is *)
(* ignored, when the stream has gone.                                      *)
DrainSend ==
  /\ dpc = "send"
  /\ IF stream[dto] = "open"
     THEN /\ outbox[dto] < Cap
          /\ outbox' = [outbox EXCEPT ![dto] = @ + 1]
          /\ got' = IF dmsg.method THEN got ELSE Reply(dreply)
     ELSE UNCHANGED <<outbox, got>>
  /\ owed' = owed \ {dto}
  /\ LET rest == dtargets \ {dto} IN
     IF rest = {}
     THEN DrainNext
     ELSE /\ dtargets' = rest
          /\ dto' \in rest
          /\ UNCHANGED <<dpc, dmsg, dwaiter, dreply>>
  /\ UNCHANGED <<muxVars, handlerVars, waiters, inVars, childVars, stdoutQ,
                 registered, stream>>

Drain == DrainRecv \/ DrainSettle \/ DrainClassify \/ DrainSend

-----------------------------------------------------------------------------
(* Sessions: a stream opened once, read, and closed by either side.        *)

(* register_session, called as the stream is set up. *)
OpenStream(s) ==
  /\ stream[s] = "none"
  /\ stream' = [stream EXCEPT ![s] = "open"]
  /\ registered' = registered \cup {s}
  /\ UNCHANGED <<muxVars, handlerVars, waiters, inVars, childVars, stdoutQ,
                 drainVars, outbox, got, owed>>

(* The stream takes a message, or ends when no sender is left. *)
ReadStream(s) ==
  /\ stream[s] = "open"
  /\ \/ /\ outbox[s] > 0
        /\ outbox' = [outbox EXCEPT ![s] = @ - 1]
        /\ UNCHANGED stream
     \/ /\ outbox[s] = 0 /\ s \notin registered /\ s \notin dtargets
        /\ stream' = [stream EXCEPT ![s] = "gone"]
        /\ UNCHANGED outbox
  /\ UNCHANGED <<muxVars, handlerVars, waiters, inVars, childVars, stdoutQ,
                 drainVars, registered, got, owed>>

(* The client closes its connection and the stream is dropped: the code    *)
(* behind its loop does not run and the sender stays registered.           *)
Disconnect(s) ==
  /\ stream[s] = "open"
  /\ stream' = [stream EXCEPT ![s] = "gone"]
  /\ outbox' = [outbox EXCEPT ![s] = 0]
  /\ owed' = owed \ {s}
  /\ UNCHANGED <<muxVars, handlerVars, waiters, inVars, childVars, stdoutQ,
                 drainVars, registered, got>>

(* drop_session, on the client's DELETE. *)
Detach(s) ==
  /\ s \in registered
  /\ registered' = registered \ {s}
  /\ owed' = owed \ {s}
  /\ UNCHANGED <<muxVars, handlerVars, waiters, inVars, childVars, stdoutQ,
                 drainVars, stream, outbox, got>>

-----------------------------------------------------------------------------
Step ==
  \/ \E c \in Call : Handler(c) \/ Abandon(c)
  \/ Forward \/ WriteStdin
  \/ \E n \in seen : ChildAnswer(n)
  \/ \E v \in OtherLines : ChildWrite(v)
  \/ Drain
  \/ \E s \in Session :
       OpenStream(s) \/ ReadStream(s) \/ Disconnect(s) \/ Detach(s)

Next == Step \/ ChildExit

Spec == Init /\ [][Next]_vars

(* The runtime polls every task that can go on; a handler's task starts    *)
(* when its client sends, which no one has to do.                          *)
TaskFairness ==
  /\ \A c \in Call : WF_vars(Map(c) \/ Expect(c) \/ Send(c) \/ Receive(c))
  /\ WF_vars(Forward) /\ WF_vars(WriteStdin) /\ WF_vars(Drain)

(* The child answers what it is asked as long as it runs.  Of the clients  *)
(* nothing is assumed, not even that they read their streams.              *)
ChildFairness == WF_vars(\E n \in seen : ChildAnswer(n))

(* The child never exits ... *)
SteadySpec == Init /\ [][Step]_vars /\ TaskFairness /\ ChildFairness
(* ... or may exit at any time. *)
FairSpec == Spec /\ TaskFairness /\ ChildFairness

-----------------------------------------------------------------------------
(* What the proxy promises.                                                *)

(* The drain task holds the answer to c, on its way to a stream. *)
Held(c) == dpc = "send" /\ ~dmsg.method /\ dmsg.id = outId[c]

Outstanding ==
  {c \in Requests : outId[c] \in DOMAIN pending \/ Held(c)}

Calls == INSTANCE CallService WITH
  Call <- Requests,
  submitted <- {c \in Requests : pc[c] \notin {"idle", "minted"}},
  outstanding <- Outstanding

(* Replies: each to the session that asked, under the id it asked with, at *)
(* most one per request, and none that was not asked for.                  *)
RepliesMatchCalls == Calls!CallSpec

(* A request waiting for its answer can always be given it: its sender is  *)
(* in pending_requests under the id the child will answer with, or in the  *)
(* drain task's hands.                                                     *)
NoCallerForgotten ==
  \A c \in Call :
    Waits(c) /\ pc[c] \in {"ready", "waiting"} /\ slot[c] = "empty" =>
      \/ outId[c] \in DOMAIN waiters /\ waiters[outId[c]] = c
      \/ dpc = "settle" /\ dwaiter = c

(* No waiting request is told that the child exited when it has not: its   *)
(* sender is never dropped unused.                                         *)
NoSpuriousHangUp == \A c \in Call : slot[c] # "dropped"

(* A message with a method goes to every session that was attached when it *)
(* was taken from the child and stays so: nobody is owed it once the drain *)
(* task is back for the next.                                              *)
BroadcastReachesAttached == dpc = "recv" => owed = {}

(* A request that was sent and is not routed yet is on its way to the      *)
(* child, or before it, or its answer on the way back: only the end of the *)
(* child can strand it, and not once it is answered.                       *)
NoRequestStranded ==
  \A c \in Requests :
    pc[c] \in {"waiting", "done"} /\ outId[c] \in DOMAIN pending =>
      \/ outId[c] \in Range(inQ) \cup Range(stdinQ) \cup (seen \ answered)
      \/ Response(outId[c]) \in Range(stdoutQ) \cup {dmsg}
      \/ ~childUp /\ outId[c] \notin answered

(* An answer that came is lost only when there is nobody to take it: a     *)
(* caller that waits for it has gone, or its sender was dropped for        *)
(* another message and its session has no stream; and where no caller      *)
(* waits, the session has no stream.                                       *)
NoReplyLost ==
  [][\A c \in Outstanding \ Outstanding' :
       \/ got'[c.session][c.id] = got[c.session][c.id] + 1
       \/ Waits(c) /\ pc[c] = "gone"
       \/ (Waits(c) => slot[c] = "dropped") /\ c.session \notin Attached]_vars

(* The drain task waits for room in the channel of a stream that is open   *)
(* and whose client does not read it.                                      *)
Stalled == dpc = "send" /\ stream[dto] = "open" /\ outbox[dto] = Cap

(* As long as the child runs and answers, every request that was accepted  *)
(* is over sooner or later, however many sessions share the child: its     *)
(* caller is answered, or told that it will not be.  One client can        *)
(* prevent it for all the others: one that keeps its stream open and never *)
(* reads it again (proxy.rs:134, proxy.rs:140).                            *)
EveryCallAnswered ==
  \/ <>[]Stalled
  \/ \A c \in Requests :
       /\ pc[c] = "waiting" ~> pc[c] \in {"done", "failed", "gone"}
       /\ pc[c] = "done" ~> c \notin Outstanding

(* A request whose child has exited is told so: "oneshot receiver hung up  *)
(* (child exited?)", proxy.rs:206.                                         *)
ExitReachesCallers ==
  \A c \in Call : pc[c] = "waiting" /\ ~childUp ~> pc[c] # "waiting"

-----------------------------------------------------------------------------
(* Why it does: the inductive invariant, in named parts, those of Callers  *)
(* among them.                                                             *)

(* The outbound ids of the lines that may be on their way to the child or  *)
(* beyond.                                                                 *)
SentIds == {outId[c] : c \in {d \in Call : pc[d] \in Past}}

(* What the queues and the child hold was sent by someone, and an answer   *)
(* on its way back is to an id the child has seen or forged.               *)
SentInv ==
  /\ Range(inQ) \subseteq SentIds \cup {0}
  /\ Range(stdinQ) \subseteq SentIds \cup {0}
  /\ seen \subseteq SentIds
  /\ \A v \in Range(stdoutQ) \cup {dmsg} :
       v.method \/ v.id \in seen \cup Forged \cup {NoId}

(* A sender is that of a call that was told nothing yet, and is in one     *)
(* place only: the table or the drain task's hands.                        *)
WaitersInv ==
  /\ \A n \in DOMAIN waiters : waiters[n] \in Call /\ Awaiting(waiters[n], n)
  /\ dpc = "settle" =>
       /\ dwaiter \in Call /\ Awaiting(dwaiter, dmsg.id)
       /\ dmsg.id \notin DOMAIN waiters

(* The drain task's hands are empty between two messages, and the answer   *)
(* it is delivering is out of the mux and goes to the one who asked.       *)
DrainInv ==
  /\ dpc = "recv" => dmsg = Noise
  /\ dpc = "send" => dto \in dtargets
  /\ dpc = "send" /\ ~dmsg.method =>
       /\ dmsg.id \notin DOMAIN pending
       /\ \E c \in Requests : /\ outId[c] = dmsg.id
                              /\ pc[c] \notin {"idle", "minted"}
                              /\ dreply = [session |-> c.session, id |-> c.id]
                              /\ dtargets = {c.session}

(* This holds whatever the child writes. *)
IInv ==
  /\ TypeOK
  /\ IdsInv
  /\ SentInv
  /\ MappingsInv
  /\ WaitersInv
  /\ DrainInv
  /\ NoCallerForgotten
  /\ FinishedLeaveNoSender

(* When the child answers only what it was sent, the mux still knows every *)
(* call that has left its sender or is about to, and an answer in hand     *)
(* without a sender is to a call that left none.                           *)
HonestInv ==
  /\ PendingInv
  /\ DOMAIN waiters \subseteq DOMAIN pending
  /\ dpc = "settle" => dmsg.id \in DOMAIN pending
  /\ dpc = "classify" /\ ~dmsg.method => dmsg.id \notin DOMAIN waiters

(* When the child's own ids stay clear of the ids the mux mints, a message *)
(* with a method never finds a sender: it is fanned out, and what is owed  *)
(* of it is in the drain task's hands.                                     *)
ServerInv ==
  /\ \A v \in Range(stdoutQ) \cup {dmsg} :
       v.method => v.id \in ServerIds \cup {NoId}
  /\ dpc = "settle" => ~dmsg.method
  /\ ~dmsg.method => owed = {}
  /\ dpc = "classify" => owed \subseteq registered
  /\ dpc = "send" => owed \subseteq dtargets

(* A caller that is over without a verdict failed to send its line, and no *)
(* answer to it can come.                                                  *)
OverInv ==
  \A c \in Call : Waits(c) /\ slot[c] = "empty" =>
    /\ pc[c] # "done"
    /\ pc[c] = "failed" =>
         outId[c] \notin Range(inQ) \cup Range(stdinQ) \cup seen

(* When the child answers only what it was sent: a caller that was given   *)
(* its answer is out of the mux, and an answer to one that waits goes to a *)
(* stream only when the caller has gone or was turned away.                *)
RoutedInv ==
  \A c \in Call : Waits(c) =>
    /\ slot[c] = "filled" => outId[c] \notin DOMAIN pending
    /\ Held(c) => pc[c] = "gone" \/ slot[c] = "dropped"

(* The tasks end in order, from the child up; until the writer does, what  *)
(* was sent is kept, and until it is routed, so is an answer.              *)
UnderWayInv ==
  /\ childUp => writerUp
  /\ writerUp => forwardUp
  /\ \A c \in Requests : pc[c] \in {"waiting", "done"} /\ writerUp =>
       outId[c] \in Range(inQ) \cup Range(stdinQ) \cup seen
  /\ \A n \in answered \cap DOMAIN pending :
       Response(n) \in Range(stdoutQ) \cup {dmsg}
=============================================================================
