-------------------------------- MODULE IdMux --------------------------------
(***************************************************************************)
(* jsonrpc.rs: the JSON-RPC id multiplexer of one ChildProxy.              *)
(*                                                                         *)
(* Every request a session sends gets an outbound id that is unique in the *)
(* proxy; the table `pending` remembers which session asked and under      *)
(* which id, and an answer is routed back with the caller's id restored.   *)
(*                                                                         *)
(* IdMux::next is an atomic counter and IdMux::pending a mutex-protected   *)
(* map: rewrite_inbound touches them one after the other, so its two       *)
(* effects, Mint and Remember, are separate steps of the calling task.     *)
(* The proxies extend this module and conjoin these steps with their own.  *)
(***************************************************************************)
EXTENDS Integers, Table

VARIABLES
  next,     \* IdMux::next, the next outbound id
  pending   \* IdMux::pending, outbound id -> [session, id]

muxVars == <<next, pending>>

(***************************************************************************)
(* What routing looks at in a JSON-RPC message: whether it has a method,   *)
(* and its id.  NoId stands for an id that is absent, null or, coming from *)
(* the child, one that serde_json's as_u64 refuses.                        *)
(***************************************************************************)
NoId == -1
Message == [method : BOOLEAN, id : Nat \cup {NoId}]

-----------------------------------------------------------------------------
(* Mutant: the counter starts at zero. *)
MuxInitZero ==
  /\ next = 0
  /\ pending = EmptyTable

MuxInit ==
  /\ next = 1
  /\ pending = EmptyTable

(* rewrite_inbound remaps a payload with a method and a non-null id, and   *)
(* passes everything else through.                                         *)
IsRequest(payload) == payload.method /\ payload.id # NoId

(* Mutant: a load in place of fetch_add. *)
MintStale(n) ==
  /\ n = next
  /\ UNCHANGED <<next, pending>>

(* self.next.fetch_add(1): the caller is given n. *)
Mint(n) ==
  /\ n = next
  /\ next' = next + 1
  /\ UNCHANGED pending

(* Mutant: the outbound id is remembered where the caller's should be. *)
RememberOutbound(n, s, i) ==
  /\ pending' = Insert(pending, n, [session |-> s, id |-> n])
  /\ UNCHANGED next

(* self.pending.lock().insert(outbound_id, (session_id, original_id)) *)
Remember(n, s, i) ==
  /\ pending' = Insert(pending, n, [session |-> s, id |-> i])
  /\ UNCHANGED next

(* classify_outbound: the verdict on a message from the child ...          *)
Class(v) ==
  CASE v.method -> "Broadcast"
    [] ~v.method /\ v.id \in DOMAIN pending -> "RoutedResponse"
    [] OTHER -> "UnknownResponse"

(* Mutant: the mapping is read and not removed. *)
ClassifyKeeping(v) == UNCHANGED <<next, pending>>

(* ... and its effect: an answer takes its mapping out of the table. *)
Classify(v) ==
  /\ pending' = IF v.method THEN pending ELSE Remove(pending, v.id)
  /\ UNCHANGED next
=============================================================================
