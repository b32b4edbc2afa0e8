------------------------------- MODULE HttpProxy -------------------------------
(***************************************************************************)
(* proxy.rs: one ChildProxy in front of an MCP server reached over HTTP.   *)
(*                                                                         *)
(*   handler tasks --inQ--> inbound task --> a POST task per payload       *)
(*   handler tasks <-- oneshot ------------- POST task <--> server         *)
(*                                                                         *)
(* The handler tasks are those of Callers.  The inbound task starts a task *)
(* for every payload and waits for none of them, so POSTs overtake each    *)
(* other.  A POST task takes a sender from pending_requests by the id of   *)
(* what it posted, and asks the mux by the id of what it got back.  There  *)
(* is no child, nobody writes to streams, and the inbound task never ends. *)
(***************************************************************************)
EXTENDS Callers

CONSTANT
  Chatter   \* what the server may answer that is not under an id

ASSUME ChatterAssumption ==
  Chatter # {} /\ Chatter \subseteq {Notification, Noise}

VARIABLES
  post,     \* post[c], how far the POST task of payload c is
  reply,    \* reply[c], what its POST was answered
  holder,   \* holder[c], the caller whose sender it took
  got       \* history: got[s][i], replies given to session s under its id i

postVars == <<post, reply, holder>>
vars == <<muxVars, handlerVars, waiters, inQ, forwardUp, postVars, got>>

-----------------------------------------------------------------------------
NoCall == [session |-> "none", id |-> NoId, method |-> FALSE, via |-> "none"]
PostState == {"none", "posting", "lost", "settle", "over"}

(* The id on the wire: a request's outbound id, a passed payload's own.    *)
WireId(c) == IF IsRequest(c) THEN outId[c] ELSE c.id

TypeOK ==
  /\ next \in Nat \ {0}
  /\ DOMAIN pending \subseteq Nat \ {0}
  /\ pc \in [Call -> HandlerState]
  /\ outId \in [Call -> Nat]
  /\ slot \in [Call -> {"empty", "filled", "dropped"}]
  /\ \A n \in DOMAIN waiters : waiters[n] \in Call
  /\ inQ \in Seq(Call)
  /\ forwardUp
  /\ post \in [Call -> PostState]
  /\ reply \in [Call -> Message]
  /\ holder \in [Call -> Call \cup {NoCall}]
  /\ got \in [Session -> [Id -> Nat]]

Init ==
  /\ CallersInit
  /\ post = [c \in Call |-> "none"]
  /\ reply = [c \in Call |-> Noise]
  /\ holder = [c \in Call |-> NoCall]
  /\ got = [s \in Session |-> [i \in Id |-> 0]]

-----------------------------------------------------------------------------
Start(c) == StartCall(c) /\ UNCHANGED <<postVars, got>>
Map(c) == MapCall(c) /\ UNCHANGED <<postVars, got>>
Expect(c) == ExpectCall(c) /\ UNCHANGED <<postVars, got>>
Send(c) == SendCall(c, c) /\ UNCHANGED <<postVars, got>>
Receive(c) == ReceiveCall(c) /\ UNCHANGED <<postVars, got>>
Abandon(c) == AbandonCall(c) /\ UNCHANGED <<postVars, got>>

Handler(c) == Start(c) \/ Map(c) \/ Expect(c) \/ Send(c) \/ Receive(c)

(* The inbound task: a POST is started for the payload, and not awaited.   *)
Dispatch ==
  /\ inQ # <<>>
  /\ post' = [post EXCEPT ![Head(inQ)] = "posting"]
  /\ inQ' = Tail(inQ)
  /\ UNCHANGED <<muxVars, handlerVars, waiters, forwardUp, reply, holder, got>>

-----------------------------------------------------------------------------
(* The POST task of c.                                                     *)

(* What a server may answer: a request under the id it came with, or       *)
(* something else (an error without an id, a message of its own), and      *)
(* anything but a request not under an id.                                 *)
Replies(c) ==
  Chatter \cup (IF IsRequest(c) THEN {Response(outId[c])} ELSE {})

(* No connection, a status that is not a success or a body that is not     *)
(* JSON: the task ends, and what the call left in the tables stays.        *)
PostFails(c) ==
  /\ post[c] = "posting"
  /\ post' = [post EXCEPT ![c] = "lost"]
  /\ UNCHANGED <<muxVars, handlerVars, waiters, inQ, forwardUp, reply, holder, got>>

(* Mutant: the sender is looked for under the id of the answer. *)
PostAnsweredById(c, v) ==
  /\ post[c] = "posting"
  /\ reply' = [reply EXCEPT ![c] = v]
  /\ IF v.id \in DOMAIN waiters
     THEN /\ holder' = [holder EXCEPT ![c] = waiters[v.id]]
          /\ waiters' = Remove(waiters, v.id)
          /\ post' = [post EXCEPT ![c] = "settle"]
     ELSE /\ post' = [post EXCEPT ![c] = "over"]
          /\ UNCHANGED <<holder, waiters>>
  /\ UNCHANGED <<muxVars, handlerVars, inQ, forwardUp, got>>

(* v comes back, and pending_requests.lock().remove(&outbound_id) by the   *)
(* id that was posted.  Without a sender, or an id, v is dropped and the   *)
(* mux is not asked: an answer for a stream ends here, and its mapping     *)
(* stays.                                                                  *)
PostAnswered(c, v) ==
  /\ post[c] = "posting"
  /\ reply' = [reply EXCEPT ![c] = v]
  /\ IF WireId(c) \in DOMAIN waiters
     THEN /\ holder' = [holder EXCEPT ![c] = waiters[WireId(c)]]
          /\ waiters' = Remove(waiters, WireId(c))
          /\ post' = [post EXCEPT ![c] = "settle"]
     ELSE /\ post' = [post EXCEPT ![c] = "over"]
          /\ UNCHANGED <<holder, waiters>>
  /\ UNCHANGED <<muxVars, handlerVars, inQ, forwardUp, got>>

(* classify_outbound, and tx.send if that is an answer: to a caller that   *)
(* has gone it is lost.  Otherwise the sender is dropped unused.           *)
Settle(c) ==
  /\ post[c] = "settle"
  /\ Classify(reply[c])
  /\ LET d == holder[c]
         m == pending[reply[c].id]
         routed == Class(reply[c]) = "RoutedResponse" IN
     /\ slot' = [slot EXCEPT ![d] = IF routed THEN "filled" ELSE "dropped"]
     /\ got' = IF routed /\ pc[d] \in {"ready", "waiting"}
               THEN [got EXCEPT ![d.session][m.id] = @ + 1] ELSE got
  /\ post' = [post EXCEPT ![c] = "over"]
  /\ holder' = [holder EXCEPT ![c] = NoCall]
  /\ UNCHANGED <<pc, outId, waiters, inQ, forwardUp, reply>>

Post(c) == (\E v \in Replies(c) : PostAnswered(c, v)) \/ Settle(c)

-----------------------------------------------------------------------------
Next ==
  \/ \E c \in Call : Handler(c) \/ Abandon(c) \/ Post(c) \/ PostFails(c)
  \/ Dispatch

Spec == Init /\ [][Next]_vars

(* The runtime polls some task that can go on, as long as there is one:    *)
(* every task takes a bounded number of steps, so none need be favoured.   *)
(* A POST that does not fail is answered, which is the server's promise:   *)
(* the client library is given no timeout.                                 *)
Progress(c) ==
  Map(c) \/ Expect(c) \/ Send(c) \/ Receive(c) \/ Post(c)

FairSpec == Spec /\ WF_vars(Dispatch \/ \E c \in Call : Progress(c))

-----------------------------------------------------------------------------
(* What the proxy promises.                                                *)

Outstanding == {c \in Requests : outId[c] \in DOMAIN pending}

Calls == INSTANCE CallService WITH
  Call <- Requests,
  submitted <- {c \in Requests : pc[c] \notin {"idle", "minted"}},
  outstanding <- Outstanding

(* Replies: each to the session that asked, under the id it asked with, at *)
(* most one per request, however the POSTs overtake each other and         *)
(* whatever payloads are passed through.                                   *)
RepliesMatchCalls == Calls!CallSpec

(* A payload passed through under c's outbound id was answered, and may    *)
(* have taken c's sender: a client's response to a request of the server   *)
(* keeps its id, which only the server's own numbering keeps clear.        *)
Robbed(c) ==
  \E d \in Call : /\ ~IsRequest(d) /\ WireId(d) = outId[c]
                  /\ post[d] \in {"settle", "over"}

(* Unless robbed, a caller is told what its own POST was answered: the     *)
(* answer when there was one, that it hung up when not, and nothing while  *)
(* it is under way.                                                        *)
Verdict(c) ==
  IF post[c] # "over" THEN "empty"
  ELSE IF reply[c] = Response(outId[c]) THEN "filled" ELSE "dropped"

CallerHearsItsPost ==
  \A c \in Call :
    Waits(c) /\ pc[c] \in Past /\ ~Robbed(c) => slot[c] = Verdict(c)

(* A request waits only while its payload is in the channel, or with the   *)
(* POST task that will tell it; or its POST has failed.                    *)
NoCallerIdles ==
  \A c \in Call : pc[c] = "waiting" /\ slot[c] = "empty" =>
    \/ c \in Range(inQ)
    \/ post[c] \in {"posting", "lost"}
    \/ \E d \in Call : post[d] = "settle" /\ holder[d] = c

(* A waiting request is over sooner or later unless its POST failed: one   *)
(* whose POST did is never told, proxy.rs:64.                              *)
AnsweredUnlessLost ==
  \A c \in Call : pc[c] = "waiting" ~> pc[c] # "waiting" \/ post[c] = "lost"

-----------------------------------------------------------------------------
(* Why it does: the inductive invariant, with IdsInv and PendingInv of     *)
(* Callers.                                                                *)

(* A payload is posted once, and after it was sent. *)
PostInv ==
  /\ \A i \in DOMAIN inQ : pc[inQ[i]] \in Past /\ post[inQ[i]] = "none"
  /\ \A i, j \in DOMAIN inQ : inQ[i] = inQ[j] => i = j
  /\ \A c \in Call :
       /\ post[c] # "none" => pc[c] \in Past
       /\ post[c] \in {"settle", "over"} => reply[c] \in Replies(c)

(* A sender in the table or in a POST task's hands is that of a call still *)
(* to be answered, and in one place only; one in a task's hands that is    *)
(* not its own call's came with a payload passed through.                  *)
WaitersInv ==
  /\ \A n \in DOMAIN waiters : waiters[n] \in Call /\ Expecting(waiters[n], n)
  /\ \A c \in Call : post[c] = "settle" =>
       /\ holder[c] \in Call /\ Expecting(holder[c], WireId(c))
       /\ WireId(c) \notin DOMAIN waiters
       /\ \A d \in Call : post[d] = "settle" /\ holder[d] = holder[c] => d = c

(* A call that was not robbed has its sender in the table until its own    *)
(* POST is answered, and then in that task's hands.                        *)
SenderKept ==
  \A c \in Call :
    Waits(c) /\ pc[c] \in Past \cup {"ready"} /\ ~Robbed(c) =>
      /\ post[c] \in {"none", "posting", "lost"} =>
           outId[c] \in DOMAIN waiters /\ waiters[outId[c]] = c
      /\ post[c] = "settle" => holder[c] = c

(* Robbed or not, a call still to be answered has its sender somewhere,    *)
(* but not in the table once its own POST was answered; and a payload sent *)
(* is posted.                                                              *)
SomeoneAnswers ==
  /\ \A c \in Call :
       Waits(c) /\ pc[c] \in Past \cup {"ready"} /\ slot[c] = "empty" =>
         \/ outId[c] \in DOMAIN waiters /\ waiters[outId[c]] = c
         \/ \E d \in Call : post[d] = "settle" /\ holder[d] = c
  /\ \A c \in Requests :
       post[c] \in {"settle", "over"} => outId[c] \notin DOMAIN waiters
  /\ \A c \in Call :
       pc[c] \in {"waiting", "done"} => c \in Range(inQ) \/ post[c] # "none"

IInv ==
  /\ TypeOK
  /\ IdsInv
  /\ PendingInv
  /\ PostInv
  /\ WaitersInv
  /\ SenderKept
  /\ CallerHearsItsPost
=============================================================================
