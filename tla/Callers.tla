-------------------------------- MODULE Callers --------------------------------
(***************************************************************************)
(* proxy.rs: the handler tasks of one ChildProxy, whatever stands behind   *)
(* its inbound channel.                                                    *)
(*                                                                         *)
(* A handler task carries one client payload (a Call).  A request sent     *)
(* through send_request_from_session waits for its answer on a oneshot     *)
(* channel whose sender sits in `waiters`; send_from_session waits for     *)
(* nothing.  StdioProxy and HttpProxy extend this module with the tasks    *)
(* that take the payloads from the channel and bring the answers.          *)
(***************************************************************************)
EXTENDS IdMux, Sequences

CONSTANTS
  Call,       \* client payloads, each posted once by a task of its own
  Session,    \* session ids
  Cap         \* capacity of every mpsc channel (64 in the code)

(* A call names the session it is posted for, whether it has a method, its *)
(* id (NoId when absent) and the function that takes it: "request" is      *)
(* send_request_from_session, "post" is send_from_session.                 *)
ASSUME CallAssumption ==
  \A c \in Call : /\ c.session \in Session
                  /\ c.method \in BOOLEAN
                  /\ c.via \in {"request", "post"}
ASSUME CapAssumption == Cap \in Nat \ {0}

VARIABLES
  pc,          \* pc[c], where the task carrying c is
  outId,       \* outId[c], the outbound id minted for c, 0 for none
  slot,        \* slot[c], the oneshot channel c waits on
  waiters,     \* ChildProxy::pending_requests, outbound id -> its caller
  inQ,         \* channel from the handlers to the proxy's inbound task
  forwardUp    \* that task is running

handlerVars == <<pc, outId, slot>>

-----------------------------------------------------------------------------
Id == {c.id : c \in Call}
Requests == {c \in Call : IsRequest(c)}

(* send_request_from_session waits for an answer; any other path does not. *)
Waits(c) == c.via = "request" /\ IsRequest(c)

Response(n) == [method |-> FALSE, id |-> n]
Notification == [method |-> TRUE, id |-> NoId]
(* What is not JSON, or a response without a u64 id. *)
Noise == [method |-> FALSE, id |-> NoId]

HandlerState ==
  {"idle", "minted", "mapped", "ready", "waiting", "done", "failed", "gone"}

CallersInit ==
  /\ MuxInit
  /\ pc = [c \in Call |-> "idle"]
  /\ outId = [c \in Call |-> 0]
  /\ slot = [c \in Call |-> "empty"]
  /\ waiters = EmptyTable
  /\ inQ = <<>> /\ forwardUp = TRUE

-----------------------------------------------------------------------------
(* rewrite_inbound, first half: a request is given an outbound id, a       *)
(* payload passed through goes straight to the channel.                    *)
StartCall(c) ==
  /\ pc[c] = "idle"
  /\ IF IsRequest(c)
     THEN /\ \E n \in {next} : Mint(n) /\ outId' = [outId EXCEPT ![c] = n]
          /\ pc' = [pc EXCEPT ![c] = "minted"]
     ELSE /\ pc' = [pc EXCEPT ![c] = "ready"]
          /\ UNCHANGED <<muxVars, outId>>
  /\ UNCHANGED <<slot, waiters, inQ, forwardUp>>

(* Mutant: the mapping is not remembered. *)
MapNothing(c) ==
  /\ pc[c] = "minted"
  /\ pc' = [pc EXCEPT ![c] = IF Waits(c) THEN "mapped" ELSE "ready"]
  /\ UNCHANGED <<muxVars, outId, slot, waiters, inQ, forwardUp>>

(* rewrite_inbound, second half: the mapping is remembered. *)
MapCall(c) ==
  /\ pc[c] = "minted"
  /\ Remember(outId[c], c.session, c.id)
  /\ pc' = [pc EXCEPT ![c] = IF Waits(c) THEN "mapped" ELSE "ready"]
  /\ UNCHANGED <<outId, slot, waiters, inQ, forwardUp>>

(* Mutant: the counter is read again where the minted id should be used. *)
ExpectNewest(c) ==
  /\ pc[c] = "mapped"
  /\ waiters' = Insert(waiters, next - 1, c)
  /\ pc' = [pc EXCEPT ![c] = "ready"]
  /\ UNCHANGED <<muxVars, outId, slot, inQ, forwardUp>>

(* pending_requests.lock().insert(outbound_id, tx) *)
ExpectCall(c) ==
  /\ pc[c] = "mapped"
  /\ waiters' = Insert(waiters, outId[c], c)
  /\ pc' = [pc EXCEPT ![c] = "ready"]
  /\ UNCHANGED <<muxVars, outId, slot, inQ, forwardUp>>

(* Mutant: a failed send returns without taking its sender back. *)
SendLeaving(c, line) ==
  /\ pc[c] = "ready"
  /\ \/ /\ forwardUp
        /\ Len(inQ) < Cap
        /\ inQ' = Append(inQ, line)
        /\ pc' = [pc EXCEPT ![c] = IF Waits(c) THEN "waiting" ELSE "done"]
     \/ /\ ~forwardUp
        /\ pc' = [pc EXCEPT ![c] = IF Waits(c) THEN "failed" ELSE "done"]
        /\ UNCHANGED inQ
  /\ UNCHANGED <<muxVars, outId, slot, waiters, forwardUp>>

(* Mutant: try_send, whose error on a full channel is ignored.             *)
TrySend(c, line) ==
  /\ pc[c] = "ready"
  /\ inQ' = IF forwardUp /\ Len(inQ) < Cap THEN Append(inQ, line) ELSE inQ
  /\ waiters' = IF ~forwardUp /\ Waits(c) THEN Remove(waiters, outId[c]) ELSE waiters
  /\ pc' = [pc EXCEPT ![c] = IF ~Waits(c) THEN "done"
                             ELSE IF forwardUp THEN "waiting" ELSE "failed"]
  /\ UNCHANGED <<muxVars, outId, slot, forwardUp>>

(* stdin_tx.send(line).await: waits for room; fails once the inbound task  *)
(* has dropped the receiver, and then only a waiting caller hears of it.   *)
SendCall(c, line) ==
  /\ pc[c] = "ready"
  /\ \/ /\ forwardUp
        /\ Len(inQ) < Cap
        /\ inQ' = Append(inQ, line)
        /\ pc' = [pc EXCEPT ![c] = IF Waits(c) THEN "waiting" ELSE "done"]
        /\ UNCHANGED waiters
     \/ /\ ~forwardUp
        /\ waiters' = IF Waits(c) THEN Remove(waiters, outId[c]) ELSE waiters
        /\ pc' = [pc EXCEPT ![c] = IF Waits(c) THEN "failed" ELSE "done"]
        /\ UNCHANGED inQ
  /\ UNCHANGED <<muxVars, outId, slot, forwardUp>>

(* rx.await: the answer, or the error of a sender dropped unused. *)
ReceiveCall(c) ==
  /\ pc[c] = "waiting"
  /\ slot[c] # "empty"
  /\ pc' = [pc EXCEPT ![c] = IF slot[c] = "filled" THEN "done" ELSE "failed"]
  /\ UNCHANGED <<muxVars, outId, slot, waiters, inQ, forwardUp>>

(* The client goes away and its handler is dropped at an await: what it    *)
(* put in the two tables stays there.                                      *)
AbandonCall(c) ==
  /\ pc[c] \in {"ready", "waiting"}
  /\ pc' = [pc EXCEPT ![c] = "gone"]
  /\ UNCHANGED <<muxVars, outId, slot, waiters, inQ, forwardUp>>

-----------------------------------------------------------------------------
(* What the handlers and the tables keep to, behind any proxy.             *)

(* The calls whose line may be on its way or beyond. *)
Past == {"waiting", "done", "failed", "gone"}

(* Outbound ids are never shared, and a task is where its call's kind can  *)
(* take it.                                                                *)
IdsInv ==
  \A c \in Call :
    /\ outId[c] < next
    /\ outId[c] = 0 <=> (pc[c] = "idle" \/ ~IsRequest(c))
    /\ \A d \in Call : c # d /\ outId[c] = outId[d] => outId[c] = 0
    /\ pc[c] = "minted" => IsRequest(c)
    /\ pc[c] \in {"mapped", "waiting", "failed"} => Waits(c)
    /\ pc[c] \in {"idle", "minted", "mapped"} => slot[c] = "empty"

(* A mapping is that of the call its id was minted for. *)
MappingsInv ==
  \A n \in DOMAIN pending : \E c \in Requests :
    /\ outId[c] = n /\ pc[c] \notin {"idle", "minted"}
    /\ pending[n] = [session |-> c.session, id |-> c.id]

(* No answer comes before its request: a call about to leave its sender    *)
(* still has its mapping.                                                  *)
PendingInv ==
  /\ MappingsInv
  /\ \A c \in Call : pc[c] = "mapped" => outId[c] \in DOMAIN pending

(* A sender in the table, or in a task's hands, is that of a call that has *)
(* not been told anything ...                                              *)
Awaiting(c, n) ==
  /\ Waits(c) /\ outId[c] = n /\ slot[c] = "empty"
  /\ pc[c] \notin {"idle", "minted", "mapped"}

(* ... and that can still be routed its answer. *)
Expecting(c, n) == Awaiting(c, n) /\ n \in DOMAIN pending

(* The two tables agree: a caller waits only under an id the mux can still *)
(* route, so the message that takes its sender out is its answer.          *)
TablesAgree ==
  /\ DOMAIN waiters \subseteq DOMAIN pending
  /\ \A n \in DOMAIN waiters :
       pending[n] = [session |-> waiters[n].session, id |-> waiters[n].id]

(* A call that is over has left no sender behind. *)
FinishedLeaveNoSender ==
  \A n \in DOMAIN waiters : pc[waiters[n]] \in {"ready", "waiting", "gone"}
=============================================================================
