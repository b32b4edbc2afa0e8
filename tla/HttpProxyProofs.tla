---------------------------- MODULE HttpProxyProofs ----------------------------
(***************************************************************************)
(* Theorems about HttpProxy, for every set of calls and sessions, every    *)
(* capacity and whatever the server answers besides.  IInv is inductive,   *)
(* and with it the proxy implements CallService.                           *)
(***************************************************************************)
EXTENDS HttpProxy, QueueFacts, TLAPS

(* The inductive invariant holds when the proxy has just been made. *)
LEMMA InitIInv == Init => IInv
<1> SUFFICES ASSUME Init PROVE IInv
  OBVIOUS
<1> USE CallAssumption, CapAssumption DEF Init, CallersInit, MuxInit
<1>1. TypeOK
  BY DEF TypeOK, EmptyTable, Noise, Message, NoId, HandlerState, PostState
<1>2. IdsInv /\ PendingInv
  BY DEF IdsInv, PendingInv, MappingsInv, EmptyTable
<1>3. PostInv /\ WaitersInv
  BY DEF PostInv, WaitersInv, EmptyTable
<1>4. SenderKept /\ CallerHearsItsPost
  BY DEF SenderKept, CallerHearsItsPost, Past
<1> QED BY <1>1, <1>2, <1>3, <1>4 DEF IInv

-----------------------------------------------------------------------------
(* Outbound ids stay unique. *)
LEMMA IdsStep == IInv /\ [Next]_vars => IdsInv'
<1> SUFFICES ASSUME IInv, [Next]_vars PROVE IdsInv'
  OBVIOUS
<1>t. TypeOK /\ IdsInv /\ WaitersInv
  BY DEF IInv
<1>1. ASSUME NEW c \in Call, Start(c) PROVE IdsInv'
  BY <1>1, <1>t DEF Start, StartCall, Mint, IdsInv, TypeOK, muxVars, Waits,
                    IsRequest
<1>2. ASSUME NEW c \in Call, Map(c) \/ Expect(c) \/ Send(c) PROVE IdsInv'
  <2>1. /\ UNCHANGED <<next, outId, slot>>
        /\ \A d \in Call \ {c} : pc'[d] = pc[d]
    BY <1>2, <1>t DEF Map, MapCall, Expect, ExpectCall, Send, SendCall, Remember,
                      TypeOK, muxVars
  <2>2. /\ pc'[c] \in {"mapped", "waiting", "failed"} => Waits(c)
        /\ pc[c] # "idle" /\ pc'[c] \notin {"idle", "minted"}
        /\ pc'[c] = "mapped" => slot[c] = "empty"
    BY <1>2, <1>t DEF Map, MapCall, Expect, ExpectCall, Send, SendCall, TypeOK,
                      IdsInv
  <2>3. \A d \in Call : pc'[d] = "idle" <=> pc[d] = "idle"
    BY <2>1, <2>2
  <2>4. \A d \in Call : pc'[d] = "minted" => pc[d] = "minted"
    BY <2>1, <2>2
  <2>5. \A d \in Call : pc'[d] \in {"mapped", "waiting", "failed"} => Waits(d)
    BY <1>t, <2>1, <2>2 DEF IdsInv
  <2>6. \A d \in Call :
          pc'[d] \in {"idle", "minted", "mapped"} => slot[d] = "empty"
    BY <1>t, <2>1, <2>2 DEF IdsInv
  <2>7. UNCHANGED <<next, outId, slot>>
    BY <2>1
  <2> QED BY <1>t, <2>7, <2>3, <2>4, <2>5, <2>6 DEF IdsInv
<1>3. ASSUME NEW c \in Call, Receive(c) \/ Abandon(c) PROVE IdsInv'
  <2>1. /\ UNCHANGED <<next, outId, slot>>
        /\ \A d \in Call \ {c} : pc'[d] = pc[d]
        /\ pc[c] \in {"ready", "waiting"}
        /\ pc'[c] \in {"done", "failed", "gone"}
        /\ pc'[c] = "failed" => pc[c] = "waiting"
    BY <1>3, <1>t DEF Receive, ReceiveCall, Abandon, AbandonCall, TypeOK, muxVars
  <2> QED BY <1>t, <2>1 DEF IdsInv
<1>4. ASSUME NEW c \in Call, Settle(c) PROVE IdsInv'
  <2>1. /\ UNCHANGED <<next, pc, outId>>
        /\ \A d \in Call \ {holder[c]} : slot'[d] = slot[d]
    BY <1>4, <1>t DEF Settle, Classify, TypeOK
  <2>2. pc[holder[c]] \notin {"idle", "minted", "mapped"}
    BY <1>4, <1>t DEF Settle, WaitersInv, Expecting, Awaiting
  <2> QED BY <1>t, <2>1, <2>2 DEF IdsInv
<1>5. ASSUME NEW c \in Call, NEW v \in Replies(c), PostAnswered(c, v)
      PROVE  IdsInv'
  BY <1>5, <1>t DEF PostAnswered, IdsInv, muxVars, handlerVars
<1>6. CASE Dispatch
  BY <1>6, <1>t DEF Dispatch, IdsInv, muxVars, handlerVars
<1>7. CASE UNCHANGED vars
  BY <1>7, <1>t DEF vars, IdsInv, muxVars, handlerVars
<1>8. ASSUME NEW c \in Call, PostFails(c) PROVE IdsInv'
  BY <1>8, <1>t DEF PostFails, IdsInv, muxVars, handlerVars
<1> QED
  BY <1>1, <1>2, <1>3, <1>4, <1>5, <1>6, <1>7, <1>8 DEF Next, Handler, Post

(* Every mapping stays that of the call its id was minted for. *)
LEMMA PendingStep == IInv /\ [Next]_vars => PendingInv'
<1> SUFFICES ASSUME IInv, [Next]_vars PROVE PendingInv'
  OBVIOUS
<1>t. TypeOK /\ IdsInv /\ PendingInv /\ WaitersInv /\ PostInv
  BY DEF IInv
<1>1. ASSUME UNCHANGED <<outId, pending>>,
             \A d \in Call : pc[d] \notin {"idle", "minted"} =>
                               pc'[d] \notin {"idle", "minted"},
             \A d \in Call : pc'[d] = "mapped" => pc[d] = "mapped"
      PROVE  PendingInv'
  BY <1>1, <1>t DEF PendingInv, MappingsInv, Requests
<1>2. ASSUME NEW c \in Call, Start(c) PROVE PendingInv'
  <2>1. UNCHANGED pending /\ pc[c] = "idle" /\ pc'[c] \in {"minted", "ready"}
        /\ \A d \in Call \ {c} : pc'[d] = pc[d] /\ outId'[d] = outId[d]
    BY <1>2, <1>t DEF Start, StartCall, Mint, muxVars, TypeOK
  <2>2. ASSUME NEW n \in DOMAIN pending'
        PROVE  \E d \in Requests :
                 /\ outId'[d] = n /\ pc'[d] \notin {"idle", "minted"}
                 /\ pending'[n] = [session |-> d.session, id |-> d.id]
    <3>1. PICK d \in Requests :
                 /\ outId[d] = n /\ pc[d] \notin {"idle", "minted"}
                 /\ pending[n] = [session |-> d.session, id |-> d.id]
      BY <1>t, <2>1 DEF PendingInv, MappingsInv
    <3> QED BY <2>1, <3>1 DEF Requests
  <2>3. \A d \in Call : pc'[d] = "mapped" => outId'[d] \in DOMAIN pending'
    BY <2>1, <1>t DEF PendingInv, MappingsInv
  <2>4. Requests' = Requests
    BY DEF Requests
  <2> QED BY <2>2, <2>3, <2>4 DEF PendingInv, MappingsInv
<1>3. ASSUME NEW c \in Call, Map(c) PROVE PendingInv'
  <2>1. /\ UNCHANGED outId /\ c \in Requests
        /\ pc' = [pc EXCEPT ![c] = IF Waits(c) THEN "mapped" ELSE "ready"]
        /\ DOMAIN pending' = DOMAIN pending \cup {outId[c]}
        /\ \A n \in DOMAIN pending' :
             pending'[n] = IF n = outId[c]
                           THEN [session |-> c.session, id |-> c.id]
                           ELSE pending[n]
    BY <1>3, <1>t DEF Map, MapCall, Remember, Insert, IdsInv, Requests
  <2>2. ASSUME NEW n \in DOMAIN pending'
        PROVE  \E d \in Requests :
                 /\ outId'[d] = n /\ pc'[d] \notin {"idle", "minted"}
                 /\ pending'[n] = [session |-> d.session, id |-> d.id]
    <3>1. \A d \in Call : pc[d] \notin {"idle", "minted"} =>
                            pc'[d] \notin {"idle", "minted"}
      BY <2>1, <1>t DEF TypeOK
    <3>2. CASE n = outId[c]
      BY <2>1, <3>2, <1>t DEF TypeOK, Requests
    <3>3. CASE n # outId[c]
      <4>1. PICK d \in Requests :
                   /\ outId[d] = n /\ pc[d] \notin {"idle", "minted"}
                   /\ pending[n] = [session |-> d.session, id |-> d.id]
        BY <1>t, <2>1, <3>3 DEF PendingInv, MappingsInv
      <4> QED BY <2>1, <3>1, <3>3, <4>1 DEF Requests
    <3> QED BY <3>2, <3>3
  <2>3. \A d \in Call : pc'[d] = "mapped" => outId'[d] \in DOMAIN pending'
    BY <2>1, <1>t DEF PendingInv, MappingsInv, TypeOK
  <2>4. Requests' = Requests
    BY DEF Requests
  <2> QED BY <2>2, <2>3, <2>4 DEF PendingInv, MappingsInv
<1>4. ASSUME NEW c \in Call,
             Expect(c) \/ Send(c) \/ Receive(c) \/ Abandon(c)
      PROVE  PendingInv'
  <2> SUFFICES /\ UNCHANGED <<outId, pending>>
               /\ \A d \in Call : pc[d] \notin {"idle", "minted"} =>
                                    pc'[d] \notin {"idle", "minted"}
               /\ \A d \in Call : pc'[d] = "mapped" => pc[d] = "mapped"
    BY <1>1
  <2> QED BY <1>4, <1>t DEF Expect, ExpectCall, Send, SendCall, Receive,
               ReceiveCall, Abandon, AbandonCall, muxVars, TypeOK
<1>5. ASSUME NEW c \in Call, Settle(c) PROVE PendingInv'
  <2>1. /\ UNCHANGED <<pc, outId>>
        /\ pending' = pending \/ pending' = Remove(pending, reply[c].id)
    BY <1>5 DEF Settle, Classify
  <2>2. ASSUME NEW d \in Call, pc[d] = "mapped", pending' # pending
        PROVE  reply[c].id # outId[d]
    <3>1. reply[c] = Response(outId[c]) \/ reply[c].id = NoId
      BY <1>5, <1>t, ChatterAssumption
         DEF PostInv, Settle, Replies, Notification, Noise
    <3>2. c # d
      BY <1>5, <1>t, <2>2 DEF PostInv, Settle, Past
    <3>3. outId[d] \in Nat \ {0}
      BY <1>t, <2>2 DEF IdsInv, TypeOK, Waits
    <3>4. outId[c] # outId[d]
      BY <1>t, <3>2, <3>3 DEF IdsInv
    <3> QED BY <3>1, <3>3, <3>4 DEF Response, NoId
  <2> QED BY <1>t, <2>1, <2>2 DEF PendingInv, MappingsInv, Requests, Remove, Restrict
<1>6. ASSUME NEW c \in Call, NEW v \in Replies(c), PostAnswered(c, v)
      PROVE  PendingInv'
  BY <1>1, <1>6 DEF PostAnswered, muxVars, handlerVars
<1>7. ASSUME NEW c \in Call, PostFails(c) PROVE PendingInv'
  BY <1>1, <1>7 DEF PostFails, muxVars, handlerVars
<1>8. CASE Dispatch \/ UNCHANGED vars
  BY <1>1, <1>8 DEF Dispatch, vars, muxVars, handlerVars
<1> QED
  BY <1>2, <1>3, <1>4, <1>5, <1>6, <1>7, <1>8 DEF Next, Handler, Post

-----------------------------------------------------------------------------
(* POST tasks.                                                             *)

(* What a step never takes back: an outbound id, a line sent, an answer.   *)
LEMMA StepFacts ==
  ASSUME IInv, [Next]_vars, NEW x \in Call
  PROVE  /\ pc[x] # "idle" => outId'[x] = outId[x] /\ pc'[x] # "idle"
         /\ pc[x] \in Past => pc'[x] \in Past
         /\ post[x] \in {"settle", "over"} =>
              post'[x] \in {"settle", "over"} /\ reply'[x] = reply[x]
<1>t. TypeOK /\ PostInv
  BY DEF IInv
<1>1. ASSUME NEW c \in Call, Handler(c) \/ Abandon(c)
      PROVE  /\ pc[x] # "idle" => outId'[x] = outId[x] /\ pc'[x] # "idle"
             /\ pc[x] \in Past => pc'[x] \in Past
             /\ UNCHANGED <<post, reply>>
  BY <1>1, <1>t DEF Handler, Start, StartCall, Map, MapCall, Expect, ExpectCall,
       Send, SendCall, Receive, ReceiveCall, Abandon, AbandonCall, TypeOK,
       Past, postVars
<1>2. ASSUME NEW c \in Call, NEW v \in Replies(c), PostAnswered(c, v)
      PROVE  /\ UNCHANGED <<pc, outId>>
             /\ post[x] \in {"settle", "over"} =>
                  post'[x] = post[x] /\ reply'[x] = reply[x]
  BY <1>2, <1>t DEF PostAnswered, TypeOK, handlerVars
<1>3. ASSUME NEW c \in Call, Settle(c) \/ PostFails(c)
      PROVE  /\ UNCHANGED <<pc, outId, reply>>
             /\ post[x] \in {"settle", "over"} => post'[x] \in {"settle", "over"}
  BY <1>3, <1>t DEF Settle, PostFails, TypeOK, handlerVars
<1>4. ASSUME Dispatch
      PROVE  /\ UNCHANGED <<pc, outId, reply>>
             /\ post[x] \in {"settle", "over"} => post'[x] = post[x]
  <2>1. 1 \in DOMAIN inQ /\ Head(inQ) = inQ[1]
    BY <1>4, <1>t DEF Dispatch, TypeOK
  <2>2. post[Head(inQ)] = "none"
    BY <2>1, <1>t DEF PostInv
  <2> QED BY <1>4, <1>t, <2>2 DEF Dispatch, TypeOK, handlerVars
<1>5. ASSUME UNCHANGED vars
      PROVE  UNCHANGED <<pc, outId, post, reply>>
  BY <1>5 DEF vars, handlerVars, postVars
<1> QED BY <1>1, <1>2, <1>3, <1>4, <1>5 DEF Next, Post

(* A payload is posted once, and after it was sent. *)
LEMMA PostStep == IInv /\ [Next]_vars => PostInv'
<1> SUFFICES ASSUME IInv, [Next]_vars PROVE PostInv'
  OBVIOUS
<1>t. TypeOK /\ PostInv
  BY DEF IInv
<1>f. \A x \in Call : /\ pc[x] # "idle" => outId'[x] = outId[x]
                      /\ pc[x] \in Past => pc'[x] \in Past
  BY StepFacts
<1>r. ASSUME NEW x \in Call, pc[x] # "idle" PROVE Replies(x)' = Replies(x)
  BY <1>f, <1>r DEF Replies, Response
<1>p. \A x \in Call : pc[x] \in Past => pc[x] # "idle"
  BY DEF Past
<1>1. ASSUME UNCHANGED <<inQ, post, reply>> PROVE PostInv'
  <2>1. \A x \in Call : post[x] \in {"settle", "over"} => pc[x] # "idle"
    BY <1>t, <1>p DEF PostInv
  <2>2. \A i \in DOMAIN inQ : inQ[i] \in Call
    BY <1>t DEF TypeOK
  <2> QED BY <1>1, <1>t, <1>f, <1>r, <2>1, <2>2 DEF PostInv
<1>2. ASSUME NEW c \in Call, Send(c) PROVE PostInv'
  <2>1. /\ inQ' = Append(inQ, c) /\ UNCHANGED <<post, reply>>
        /\ pc[c] = "ready" /\ pc'[c] \in Past
    BY <1>2, <1>t DEF Send, SendCall, TypeOK, postVars, Past
  <2>2. post[c] = "none" /\ \A i \in DOMAIN inQ : inQ[i] # c
    BY <2>1, <1>t DEF PostInv, Past
  <2>3. /\ DOMAIN inQ' = DOMAIN inQ \cup {Len(inQ) + 1}
        /\ inQ'[Len(inQ) + 1] = c /\ Len(inQ) + 1 \notin DOMAIN inQ
        /\ \A i \in DOMAIN inQ : inQ'[i] = inQ[i] /\ inQ[i] \in Call
    BY <2>1, <1>t DEF TypeOK
  <2>4. /\ \A i \in DOMAIN inQ' : pc'[inQ'[i]] \in Past /\ post[inQ'[i]] = "none"
        /\ \A i, j \in DOMAIN inQ' : inQ'[i] = inQ'[j] => i = j
    BY <1>t, <1>f, <2>1, <2>2, <2>3 DEF PostInv
  <2>5. \A x \in Call : post[x] \in {"settle", "over"} => pc[x] # "idle"
    BY <1>t, <1>p DEF PostInv
  <2> QED BY <1>t, <1>f, <1>r, <2>1, <2>4, <2>5 DEF PostInv
<1>3. ASSUME NEW c \in Call,
             Start(c) \/ Map(c) \/ Expect(c) \/ Receive(c) \/ Abandon(c)
      PROVE  PostInv'
  <2>1. UNCHANGED <<inQ, post, reply>>
    BY <1>3 DEF Start, StartCall, Map, MapCall, Expect, ExpectCall, Receive,
                ReceiveCall, Abandon, AbandonCall, postVars
  <2> QED BY <1>1, <2>1
<1>4. CASE Dispatch
  <2>1. /\ 1 \in DOMAIN inQ /\ Head(inQ) = inQ[1] /\ inQ[1] \in Call
        /\ \A i \in DOMAIN inQ' : /\ i + 1 \in DOMAIN inQ /\ i + 1 # 1
                                 /\ inQ'[i] = inQ[i + 1] /\ inQ[i + 1] \in Call
                                 /\ i \in Nat
    BY <1>4, <1>t DEF Dispatch, TypeOK
  <2>2. /\ post' = [post EXCEPT ![inQ[1]] = "posting"]
        /\ UNCHANGED <<pc, outId, reply>>
    BY <1>4, <2>1 DEF Dispatch, handlerVars
  <2>3. \A i \in DOMAIN inQ' : inQ'[i] # inQ[1]
    BY <1>t, <2>1 DEF PostInv
  <2>4. /\ \A i \in DOMAIN inQ' : pc[inQ'[i]] \in Past /\ post'[inQ'[i]] = "none"
        /\ \A i, j \in DOMAIN inQ' : inQ'[i] = inQ'[j] => i = j
    BY <1>t, <2>1, <2>2, <2>3 DEF PostInv, TypeOK
  <2>5. \A x \in Call : post'[x] # "none" => pc[x] \in Past
    BY <1>t, <2>1, <2>2 DEF PostInv, TypeOK
  <2>6. \A x \in Call : post'[x] \in {"settle", "over"} =>
          reply[x] \in Replies(x)
    BY <1>t, <2>1, <2>2 DEF PostInv, TypeOK
  <2>7. \A x \in Call : Replies(x)' = Replies(x)
    BY <2>2 DEF Replies, Response
  <2> QED BY <2>2, <2>4, <2>5, <2>6, <2>7 DEF PostInv
<1>5. ASSUME NEW c \in Call, post[c] \in {"posting", "settle"},
             \A x \in Call \ {c} : post'[x] = post[x] /\ reply'[x] = reply[x],
             reply'[c] \in Replies(c),
             UNCHANGED <<pc, outId, inQ>>
      PROVE  PostInv'
  <2>1. \A i \in DOMAIN inQ : inQ[i] # c /\ inQ[i] \in Call
    BY <1>5, <1>t DEF PostInv, TypeOK
  <2>2. \A x \in Call : Replies(x)' = Replies(x)
    BY <1>5 DEF Replies, Response
  <2> QED BY <1>5, <1>t, <2>1, <2>2 DEF PostInv
<1>6. ASSUME NEW c \in Call, NEW v \in Replies(c), PostAnswered(c, v)
      PROVE  PostInv'
  BY <1>5, <1>6, <1>t DEF PostAnswered, TypeOK, handlerVars
<1>7. ASSUME NEW c \in Call, Settle(c) PROVE PostInv'
  BY <1>5, <1>7, <1>t DEF Settle, TypeOK, PostInv
<1>8. ASSUME NEW c \in Call, PostFails(c) PROVE PostInv'
  <2>1. /\ UNCHANGED <<pc, outId, inQ, reply>>
        /\ post' = [post EXCEPT ![c] = "lost"] /\ post[c] = "posting"
    BY <1>8 DEF PostFails, handlerVars
  <2>2. \A i \in DOMAIN inQ : inQ[i] # c /\ inQ[i] \in Call
    BY <2>1, <1>t DEF PostInv, TypeOK
  <2>3. \A x \in Call : Replies(x)' = Replies(x)
    BY <2>1 DEF Replies, Response
  <2> QED BY <1>t, <2>1, <2>2, <2>3 DEF PostInv, TypeOK
<1>9. CASE UNCHANGED vars
  BY <1>1, <1>9 DEF vars, postVars
<1> QED
  BY <1>2, <1>3, <1>4, <1>6, <1>7, <1>8, <1>9 DEF Next, Handler, Post

-----------------------------------------------------------------------------
(* Senders.                                                                *)

(* The id of a sender in the table is the mapping's, and never zero. *)
LEMMA SenderIds ==
  ASSUME IInv
  PROVE  /\ \A n \in DOMAIN waiters : n \in DOMAIN pending /\ n \in Nat \ {0}
         /\ \A c \in Call : Waits(c) /\ pc[c] # "idle" => outId[c] \in Nat \ {0}
         /\ \A c, d \in Call :
              Waits(c) /\ pc[c] # "idle" /\ outId[c] = outId[d] => c = d
<1>t. TypeOK /\ IdsInv /\ WaitersInv
  BY DEF IInv
<1>1. \A n \in DOMAIN waiters : n \in DOMAIN pending
  BY <1>t DEF WaitersInv, Expecting, Awaiting
<1>2. \A c \in Call : Waits(c) /\ pc[c] # "idle" => outId[c] \in Nat \ {0}
  BY <1>t DEF IdsInv, TypeOK, Waits
<1> QED BY <1>t, <1>1, <1>2 DEF IdsInv, TypeOK

(* A sender is in one place, and its call still to be answered. *)
LEMMA WaitersStep == IInv /\ [Next]_vars => WaitersInv'
<1> SUFFICES ASSUME IInv, [Next]_vars PROVE WaitersInv'
  OBVIOUS
<1>t. TypeOK /\ IdsInv /\ PendingInv /\ PostInv /\ WaitersInv
  BY DEF IInv
<1>f. \A x \in Call : pc[x] # "idle" => outId'[x] = outId[x]
  BY StepFacts
<1>s. \A c \in Call : post[c] # "none" => pc[c] # "idle"
  BY <1>t DEF PostInv, Past
<1>w. \A c \in Call : pc[c] # "idle" => WireId(c)' = WireId(c)
  BY <1>f DEF WireId
<1>1. ASSUME UNCHANGED <<waiters, slot, post, holder>>,
             DOMAIN pending \subseteq DOMAIN pending',
             \A x \in Call : pc[x] \notin {"idle", "minted", "mapped"} =>
                              pc'[x] \notin {"idle", "minted", "mapped"}
      PROVE  WaitersInv'
  <2>1. ASSUME NEW x \in Call, NEW n, Expecting(x, n) PROVE Expecting(x, n)'
    BY <1>1, <1>f, <2>1 DEF Expecting, Awaiting
  <2>2. \A n \in DOMAIN waiters : waiters[n] \in Call
    BY <1>t DEF WaitersInv
  <2>3. \A c \in Call : post[c] = "settle" => WireId(c)' = WireId(c)
    BY <1>s, <1>w
  <2> QED BY <1>1, <1>t, <2>1, <2>2, <2>3 DEF WaitersInv
<1>2. ASSUME NEW c \in Call,
             Start(c) \/ Map(c) \/ Send(c) \/ Receive(c) \/ Abandon(c)
      PROVE  WaitersInv'
  <2>1. UNCHANGED <<waiters, slot, post, holder>>
    BY <1>2, <1>t DEF Start, StartCall, Map, MapCall, Send, SendCall, Receive,
         ReceiveCall, Abandon, AbandonCall, postVars, TypeOK
  <2>2. DOMAIN pending \subseteq DOMAIN pending'
    BY <1>2 DEF Start, StartCall, Mint, Map, MapCall, Remember, Insert, Send,
         SendCall, Receive, ReceiveCall, Abandon, AbandonCall, muxVars
  <2>3. \A x \in Call : pc[x] \notin {"idle", "minted", "mapped"} =>
                         pc'[x] \notin {"idle", "minted", "mapped"}
    BY <1>2, <1>t DEF Start, StartCall, Map, MapCall, Send, SendCall, Receive,
         ReceiveCall, Abandon, AbandonCall, TypeOK
  <2> QED BY <1>1, <2>1, <2>2, <2>3
<1>3. ASSUME NEW c \in Call, Expect(c) PROVE WaitersInv'
  <2>1. /\ UNCHANGED <<outId, pending, slot, post, holder>>
        /\ pc[c] = "mapped" /\ pc' = [pc EXCEPT ![c] = "ready"]
        /\ DOMAIN waiters' = DOMAIN waiters \cup {outId[c]}
        /\ \A n \in DOMAIN waiters' :
             waiters'[n] = IF n = outId[c] THEN c ELSE waiters[n]
    BY <1>3 DEF Expect, ExpectCall, Insert, muxVars, postVars
  <2>2. ASSUME NEW x \in Call, NEW n, Expecting(x, n) PROVE Expecting(x, n)'
    BY <1>t, <2>1, <2>2 DEF Expecting, Awaiting, TypeOK
  <2>3. Expecting(c, outId[c])'
    BY <1>t, <2>1 DEF Expecting, Awaiting, IdsInv, PendingInv, MappingsInv, TypeOK
  <2>4. ASSUME NEW d \in Call, post[d] = "settle" PROVE WireId(d) # outId[c]
    <3>1. holder[d] \in Call /\ outId[holder[d]] = WireId(d) /\ holder[d] # c
      BY <1>t, <2>1, <2>4 DEF WaitersInv, Expecting, Awaiting
    <3>2. Waits(c)
      BY <1>t, <2>1 DEF IdsInv
    <3> QED BY <2>1, <3>1, <3>2, SenderIds
  <2>5. \A d \in Call : WireId(d)' = WireId(d)
    BY <2>1 DEF WireId
  <2>6. ASSUME NEW n \in DOMAIN waiters'
        PROVE  (waiters[n] \in Call /\ Expecting(waiters[n], n))'
    <3>1. CASE n = outId[c]
      BY <2>1, <2>3, <3>1
    <3>2. CASE n # outId[c]
      <4>1. waiters'[n] = waiters[n] /\ n \in DOMAIN waiters
        BY <2>1, <3>2
      <4>2. waiters[n] \in Call /\ Expecting(waiters[n], n)
        BY <1>t, <4>1 DEF WaitersInv
      <4>3. \A x \in Call : Expecting(x, n) => Expecting(x, n)'
        BY <2>2
      <4> QED BY <4>1, <4>2, <4>3 DEF Expecting, Awaiting
    <3> QED BY <3>1, <3>2
  <2>7. ASSUME NEW d \in Call, post[d] = "settle"
        PROVE  /\ holder[d] \in Call /\ Expecting(holder[d], WireId(d))'
               /\ WireId(d) \notin DOMAIN waiters'
               /\ \A e \in Call : post[e] = "settle" /\ holder[e] = holder[d] => e = d
    <3>1. holder[d] \in Call /\ Expecting(holder[d], WireId(d))
      BY <1>t, <2>7 DEF WaitersInv
    <3>2. Expecting(holder[d], WireId(d))'
      BY <1>t, <2>1, <2>5, <3>1 DEF Expecting, Awaiting, TypeOK
    <3> QED BY <1>t, <2>1, <2>4, <2>7, <3>1, <3>2 DEF WaitersInv
  <2>8. \A d \in Call : post[d] = "settle" => (WireId(d) \notin DOMAIN waiters)'
    BY <2>5, <2>7
  <2> QED BY <2>1, <2>6, <2>7, <2>8 DEF WaitersInv
<1>4. ASSUME NEW c \in Call, NEW v \in Replies(c), PostAnswered(c, v)
      PROVE  WaitersInv'
  <2>1. /\ UNCHANGED <<pc, outId, slot, pending>> /\ post[c] = "posting"
        /\ \A x \in Call : \A n : Expecting(x, n)' = Expecting(x, n)
        /\ \A d \in Call : WireId(d)' = WireId(d)
    BY <1>4 DEF PostAnswered, handlerVars, muxVars, Expecting, Awaiting, WireId
  <2>2. CASE WireId(c) \in DOMAIN waiters
    <3>1. /\ holder' = [holder EXCEPT ![c] = waiters[WireId(c)]]
          /\ post' = [post EXCEPT ![c] = "settle"]
          /\ DOMAIN waiters' = DOMAIN waiters \ {WireId(c)}
          /\ \A n \in DOMAIN waiters' : waiters'[n] = waiters[n]
      BY <1>4, <2>2 DEF PostAnswered, Remove, Restrict
    <3>2. waiters[WireId(c)] \in Call /\ Expecting(waiters[WireId(c)], WireId(c))
      BY <1>t, <2>2 DEF WaitersInv
    <3>3. \A d \in Call : post[d] = "settle" => holder[d] # waiters[WireId(c)]
      BY <1>t, <2>2, <3>2 DEF WaitersInv, Expecting, Awaiting
    <3>4. ASSUME NEW n \in DOMAIN waiters'
          PROVE  (waiters[n] \in Call /\ Expecting(waiters[n], n))'
      <4>1. waiters'[n] = waiters[n] /\ n \in DOMAIN waiters
        BY <3>1
      <4>2. waiters[n] \in Call /\ Expecting(waiters[n], n)
        BY <1>t, <4>1 DEF WaitersInv
      <4> QED BY <2>1, <4>1, <4>2 DEF Expecting, Awaiting
    <3>5. ASSUME NEW d \in Call, post'[d] = "settle"
          PROVE  /\ holder'[d] \in Call /\ Expecting(holder'[d], WireId(d))
                 /\ WireId(d) \notin DOMAIN waiters'
                 /\ \A e \in Call : post'[e] = "settle" /\ holder'[e] = holder'[d]
                                      => e = d
      <4>1. CASE d = c
        BY <1>t, <3>1, <3>2, <3>3, <4>1 DEF TypeOK
      <4>2. CASE d # c
        BY <1>t, <3>1, <3>3, <3>5, <4>2 DEF TypeOK, WaitersInv
      <4> QED BY <4>1, <4>2
    <3>6. \A d \in Call : post'[d] = "settle" => Expecting(holder[d], WireId(d))'
      BY <2>1, <3>5 DEF Expecting, Awaiting
    <3>7. \A d \in Call : post'[d] = "settle" => (WireId(d) \notin DOMAIN waiters)'
      BY <2>1, <3>5
    <3> QED BY <3>4, <3>5, <3>6, <3>7 DEF WaitersInv
  <2>3. CASE WireId(c) \notin DOMAIN waiters
    <3>1. UNCHANGED <<holder, waiters>> /\ post' = [post EXCEPT ![c] = "over"]
      BY <1>4, <2>3 DEF PostAnswered
    <3> QED BY <1>t, <2>1, <3>1 DEF WaitersInv, TypeOK
  <2> QED BY <2>2, <2>3
<1>5. ASSUME NEW c \in Call, Settle(c) PROVE WaitersInv'
  <2>0. holder[c] \in Call /\ Expecting(holder[c], WireId(c)) /\ post[c] = "settle"
    BY <1>5, <1>t DEF Settle, WaitersInv
  <2>1. /\ UNCHANGED <<pc, outId, waiters>>
        /\ \A x \in Call \ {holder[c]} : slot'[x] = slot[x]
        /\ \A d \in Call \ {c} : post'[d] = post[d] /\ holder'[d] = holder[d]
        /\ post'[c] = "over"
        /\ DOMAIN pending \ {reply[c].id} \subseteq DOMAIN pending'
    BY <1>5, <1>t DEF Settle, Classify, Remove, Restrict, TypeOK
  <2>2. \A n \in Nat \ {0} : n # WireId(c) => n # reply[c].id
    <3>1. reply[c] \in Replies(c)
      BY <2>0, <1>t DEF PostInv
    <3> QED BY <3>1, ChatterAssumption
         DEF Replies, Response, Notification, Noise, NoId, WireId
  <2>3. ASSUME NEW x \in Call, NEW n \in Nat \ {0}, Expecting(x, n), n # WireId(c)
        PROVE  Expecting(x, n)'
    BY <2>0, <2>1, <2>2, <2>3 DEF Expecting, Awaiting
  <2>4. ASSUME NEW n \in DOMAIN waiters
        PROVE  (waiters[n] \in Call /\ Expecting(waiters[n], n))'
    <3>1. n # WireId(c) /\ n \in Nat \ {0}
      BY <1>t, <2>0, SenderIds DEF WaitersInv
    <3>2. waiters[n] \in Call /\ Expecting(waiters[n], n)
      BY <1>t DEF WaitersInv
    <3>3. \A x \in Call : Expecting(x, n) => Expecting(x, n)'
      BY <2>3, <3>1
    <3> QED BY <2>1, <3>1, <3>2, <3>3 DEF Expecting, Awaiting
  <2>5. \A d \in Call : WireId(d)' = WireId(d)
    BY <2>1 DEF WireId
  <2>6. ASSUME NEW d \in Call, post'[d] = "settle"
        PROVE  /\ (holder[d] \in Call /\ Expecting(holder[d], WireId(d)))'
               /\ WireId(d) \notin DOMAIN waiters
               /\ \A e \in Call : post'[e] = "settle" /\ holder'[e] = holder'[d]
                                    => e = d
    <3>1. d # c /\ post[d] = "settle" /\ holder'[d] = holder[d]
      BY <2>1, <2>6
    <3>2. /\ holder[d] \in Call /\ Expecting(holder[d], WireId(d))
          /\ WireId(d) \notin DOMAIN waiters /\ holder[d] # holder[c]
          /\ \A e \in Call : post[e] = "settle" /\ holder[e] = holder[d] => e = d
      BY <1>t, <2>0, <3>1 DEF WaitersInv
    <3>3. WireId(d) # WireId(c) /\ WireId(d) \in Nat \ {0}
      BY <2>0, <3>2, SenderIds DEF Expecting, Awaiting
    <3>4. \A x \in Call : Expecting(x, WireId(d)) =>
            /\ slot'[x] = "empty" /\ WireId(d) \in DOMAIN pending'
            /\ Waits(x) /\ outId[x] = WireId(d)
            /\ pc[x] \notin {"idle", "minted", "mapped"}
      BY <2>0, <2>1, <2>2, <3>3 DEF Expecting, Awaiting
    <3>5. Expecting(holder[d], WireId(d))'
      BY <2>1, <2>5, <3>1, <3>2, <3>4 DEF Expecting, Awaiting
    <3>6. \A e \in Call : post'[e] = "settle" /\ holder'[e] = holder'[d] => e = d
      BY <2>1, <3>1, <3>2
    <3> QED BY <2>1, <3>1, <3>2, <3>5, <3>6
  <2>7. \A d \in Call : post'[d] = "settle" => (WireId(d) \notin DOMAIN waiters)'
    BY <2>1, <2>6, <2>5
  <2> QED BY <2>1, <2>4, <2>6, <2>7 DEF WaitersInv
<1>6. ASSUME UNCHANGED <<pc, outId, slot, pending, waiters, holder>>,
             \A d \in Call : post'[d] = "settle" => post[d] = "settle"
      PROVE  WaitersInv'
  <2>1. /\ \A x \in Call : \A n : Expecting(x, n)' = Expecting(x, n)
        /\ \A d \in Call : WireId(d)' = WireId(d)
    BY <1>6 DEF Expecting, Awaiting, WireId
  <2> QED BY <1>6, <1>t, <2>1 DEF WaitersInv
<1>7. ASSUME NEW c \in Call, PostFails(c) PROVE WaitersInv'
  BY <1>6, <1>7, <1>t DEF PostFails, handlerVars, muxVars, TypeOK
<1>8. CASE Dispatch
  BY <1>6, <1>8, <1>t DEF Dispatch, handlerVars, muxVars, TypeOK
<1>9. CASE UNCHANGED vars
  BY <1>6, <1>9 DEF vars, handlerVars, muxVars, postVars
<1> QED
  BY <1>2, <1>3, <1>4, <1>5, <1>7, <1>8, <1>9 DEF Next, Handler, Post

(* A call that was robbed stays so, and what robs it is an answered        *)
(* payload without an answer's id.                                         *)
LEMMA RobbedStays ==
  ASSUME IInv, [Next]_vars, NEW x \in Call, pc[x] # "idle", Robbed(x)
  PROVE  Robbed(x)'
<1>1. PICK d \in Call : /\ ~IsRequest(d) /\ WireId(d) = outId[x]
                        /\ post[d] \in {"settle", "over"}
  BY DEF Robbed
<1>2. outId'[x] = outId[x] /\ post'[d] \in {"settle", "over"}
  BY <1>1, StepFacts
<1>3. WireId(d)' = WireId(d)
  BY <1>1 DEF WireId
<1> QED BY <1>1, <1>2, <1>3 DEF Robbed

(* A waiting call was not robbed if it is not now, and was on its way      *)
(* already unless it has just put its sender in the table.                 *)
LEMMA BeforeStep ==
  ASSUME IInv, [Next]_vars, NEW x \in Call,
         Waits(x), pc'[x] \in Past \cup {"ready"}, ~Robbed(x)'
  PROVE  \/ Expect(x)
         \/ pc[x] \in Past \cup {"ready"} /\ ~Robbed(x)
<1>t. TypeOK /\ IdsInv
  BY DEF IInv
<1>1. pc[x] \in Past \cup {"ready"} => ~Robbed(x)
  BY RobbedStays DEF Past
<1>2. ASSUME NEW c \in Call, Handler(c) \/ Abandon(c)
      PROVE  Expect(x) \/ pc[x] \in Past \cup {"ready"}
  BY <1>2, <1>t DEF Handler, Start, StartCall, Map, MapCall, Expect, Send,
       SendCall, Receive, ReceiveCall, Abandon, AbandonCall, ExpectCall, TypeOK,
       Past, Waits
<1>3. ASSUME NEW c \in Call, Post(c) \/ PostFails(c)
      PROVE  UNCHANGED pc
  BY <1>3 DEF Post, PostAnswered, Settle, PostFails, handlerVars
<1>4. ASSUME Dispatch \/ UNCHANGED vars PROVE UNCHANGED pc
  BY <1>4 DEF Dispatch, vars, handlerVars
<1> QED BY <1>1, <1>2, <1>3, <1>4 DEF Next

(* Senders are kept for the calls they are of. *)
LEMMA KeptStep == IInv /\ [Next]_vars => SenderKept'
<1> SUFFICES ASSUME IInv, [Next]_vars, NEW x \in Call,
                    Waits(x), pc'[x] \in Past \cup {"ready"}, ~Robbed(x)'
             PROVE  /\ post'[x] \in {"none", "posting", "lost"} =>
                         /\ outId'[x] \in DOMAIN waiters'
                         /\ waiters'[outId'[x]] = x
                    /\ post'[x] = "settle" => holder'[x] = x
  BY DEF SenderKept
<1>t. TypeOK /\ IdsInv /\ PostInv /\ SenderKept
  BY DEF IInv
<1>u. \A c \in Call : pc[x] # "idle" /\ outId[c] = outId[x] => c = x
  BY SenderIds
<1>1. CASE Expect(x)
  <2>1. post[x] = "none" /\ post' = post
    BY <1>1, <1>t DEF Expect, ExpectCall, PostInv, Past, postVars
  <2>2. /\ outId' = outId /\ waiters' = Insert(waiters, outId[x], x)
    BY <1>1 DEF Expect, ExpectCall
  <2> QED BY <2>1, <2>2 DEF Insert
<1>2. ASSUME pc[x] \in Past \cup {"ready"}, ~Robbed(x),
             ~Expect(x)
      PROVE  /\ post'[x] \in {"none", "posting", "lost"} =>
                  /\ outId'[x] \in DOMAIN waiters'
                  /\ waiters'[outId'[x]] = x
             /\ post'[x] = "settle" => holder'[x] = x
  <2>1. pc[x] # "idle" /\ outId'[x] = outId[x]
    BY <1>2, StepFacts DEF Past
  <2>2. /\ post[x] \in {"none", "posting", "lost"} =>
             outId[x] \in DOMAIN waiters /\ waiters[outId[x]] = x
        /\ post[x] = "settle" => holder[x] = x
    BY <1>2, <1>t DEF SenderKept
  <2>3. ASSUME UNCHANGED <<waiters, holder>>,
               post'[x] \in {"none", "posting", "lost"} =>
                 post[x] \in {"none", "posting", "lost"},
               post'[x] = "settle" => post[x] = "settle"
        PROVE  /\ post'[x] \in {"none", "posting", "lost"} =>
                    /\ outId'[x] \in DOMAIN waiters'
                    /\ waiters'[outId'[x]] = x
               /\ post'[x] = "settle" => holder'[x] = x
    BY <2>1, <2>2, <2>3
  <2>4. ASSUME NEW c \in Call,
               Start(c) \/ Map(c) \/ Send(c) \/ Receive(c) \/ Abandon(c)
        PROVE  UNCHANGED <<waiters, holder, post>>
    BY <2>4, <1>t DEF Start, StartCall, Map, MapCall, Send, SendCall, Receive,
         ReceiveCall, Abandon, AbandonCall, postVars, TypeOK
  <2>5. ASSUME NEW c \in Call, Expect(c)
        PROVE  /\ post'[x] \in {"none", "posting", "lost"} =>
                    /\ outId'[x] \in DOMAIN waiters'
                    /\ waiters'[outId'[x]] = x
               /\ post'[x] = "settle" => holder'[x] = x
    <3>1. outId[c] # outId[x] /\ UNCHANGED <<holder, post>>
      BY <1>2, <1>u, <2>1, <2>5 DEF Expect, ExpectCall, postVars
    <3> QED BY <2>1, <2>2, <2>5, <3>1 DEF Expect, ExpectCall, Insert
  <2>6. ASSUME NEW c \in Call, NEW v \in Replies(c), PostAnswered(c, v)
        PROVE  /\ post'[x] \in {"none", "posting", "lost"} =>
                    /\ outId'[x] \in DOMAIN waiters'
                    /\ waiters'[outId'[x]] = x
               /\ post'[x] = "settle" => holder'[x] = x
    <3>1. CASE c = x
      <4>1. WireId(x) = outId[x]
        BY DEF WireId, Waits
      <4> QED BY <2>1, <2>2, <2>6, <3>1, <4>1, <1>t DEF PostAnswered, TypeOK
    <3>2. CASE c # x
      <4>1. WireId(c) # outId[x]
        <5>1. CASE IsRequest(c)
          BY <1>u, <2>1, <3>2, <5>1 DEF WireId
        <5>2. CASE ~IsRequest(c)
          <6>1. post'[c] \in {"settle", "over"}
            BY <2>6, <1>t DEF PostAnswered, TypeOK
          <6>2. WireId(c)' = WireId(c)
            BY <5>2 DEF WireId
          <6> QED BY <2>1, <5>2, <6>1, <6>2 DEF Robbed
        <5> QED BY <5>1, <5>2
      <4> QED BY <2>1, <2>2, <2>6, <3>2, <4>1, <1>t
              DEF PostAnswered, TypeOK, Remove, Restrict
    <3> QED BY <3>1, <3>2
  <2>7. ASSUME NEW c \in Call, Settle(c) \/ PostFails(c)
        PROVE  /\ post'[x] \in {"none", "posting", "lost"} =>
                    /\ outId'[x] \in DOMAIN waiters'
                    /\ waiters'[outId'[x]] = x
               /\ post'[x] = "settle" => holder'[x] = x
    <3>1. /\ waiters' = waiters
          /\ post'[x] = "settle" => post[x] = "settle" /\ holder'[x] = holder[x]
          /\ post'[x] \in {"none", "posting", "lost"} =>
               post[x] \in {"none", "posting", "lost"}
      BY <2>7, <1>t DEF Settle, PostFails, TypeOK
    <3> QED BY <2>1, <2>2, <3>1
  <2>8. CASE Dispatch
    BY <2>3, <2>8, <1>t DEF Dispatch, TypeOK, PostInv
  <2>9. CASE UNCHANGED vars
    BY <2>3, <2>9 DEF vars, postVars
  <2> QED
    BY <2>3, <2>4, <2>5, <2>6, <2>7, <2>8, <2>9 DEF Next, Handler, Post
<1> QED BY <1>1, <1>2, BeforeStep

(* Callers are told what their POST was answered. *)
LEMMA HearsStep ==
  ASSUME IInv, [Next]_vars, WaitersInv', SenderKept'
  PROVE  CallerHearsItsPost'
<1> SUFFICES ASSUME NEW x \in Call,
                    Waits(x), pc'[x] \in Past, ~Robbed(x)'
             PROVE  slot'[x] = Verdict(x)'
  BY DEF CallerHearsItsPost
<1>t. /\ TypeOK /\ IdsInv /\ PostInv /\ WaitersInv /\ SenderKept
      /\ CallerHearsItsPost
  BY DEF IInv
<1>u. \A c \in Call : pc[x] # "idle" /\ outId[c] = outId[x] => c = x
  BY SenderIds
<1>p. post'[x] \in PostState
  <2>1. ASSUME NEW c \in Call, NEW v \in Replies(c), PostAnswered(c, v)
        PROVE  post'[x] \in PostState
    BY <2>1, <1>t DEF PostAnswered, TypeOK, PostState
  <2>2. ASSUME NEW c \in Call, Settle(c) \/ PostFails(c)
        PROVE  post'[x] \in PostState
    BY <2>2, <1>t DEF Settle, PostFails, TypeOK, PostState
  <2>3. ASSUME NEW c \in Call, Handler(c) \/ Abandon(c)
        PROVE  post'[x] \in PostState
    BY <2>3, <1>t DEF Handler, Start, Map, Expect, Send, Receive, Abandon, postVars,
         TypeOK
  <2>4. CASE Dispatch \/ UNCHANGED vars
    BY <2>4, <1>t DEF Dispatch, vars, postVars, TypeOK, PostState
  <2> QED BY <2>1, <2>2, <2>3, <2>4 DEF Next, Post
(* While its POST is under way, its sender says that nothing was sent.     *)
<1>1. CASE post'[x] \in {"none", "posting", "lost"}
  <2>1. outId'[x] \in DOMAIN waiters' /\ waiters'[outId'[x]] = x
    BY <1>1 DEF SenderKept
  <2>2. slot'[x] = "empty"
    BY <2>1 DEF WaitersInv, Expecting, Awaiting
  <2> QED BY <1>1, <2>2 DEF Verdict
<1>2. CASE post'[x] = "settle"
  <2>1. holder'[x] = x
    BY <1>2 DEF SenderKept
  <2>2. slot'[x] = "empty"
    BY <1>2, <2>1 DEF WaitersInv, Expecting, Awaiting
  <2> QED BY <1>2, <2>2 DEF Verdict
<1>3. CASE post'[x] = "over" /\ post[x] = "over"
  <2>1. pc[x] \in Past /\ ~Robbed(x) /\ pc[x] # "idle"
    BY <1>3, <1>t, RobbedStays DEF PostInv, Past
  <2>2. slot[x] = Verdict(x)
    BY <1>t, <2>1 DEF CallerHearsItsPost
  <2>3. Verdict(x)' = Verdict(x)
    BY <1>3, <2>1, StepFacts DEF Verdict, Response
  <2>4. ASSUME NEW c \in Call, Settle(c) PROVE slot'[x] = slot[x]
    <3>1. c # x /\ post[c] = "settle"
      BY <1>3, <2>4 DEF Settle
    <3>2. holder[c] # x
      <4>1. CASE IsRequest(c)
        BY <1>t, <1>u, <2>1, <3>1, <4>1 DEF WireId, WaitersInv, Expecting, Awaiting
      <4>2. CASE ~IsRequest(c)
        BY <1>t, <2>1, <3>1, <4>2 DEF Robbed, WaitersInv, Expecting, Awaiting
      <4> QED BY <4>1, <4>2
    <3> QED BY <1>t, <2>4, <3>2 DEF Settle, TypeOK
  <2>5. ASSUME NEW c \in Call, Handler(c) \/ Abandon(c) PROVE slot'[x] = slot[x]
    BY <2>5 DEF Handler, Start, StartCall, Map, MapCall, Expect, ExpectCall,
         Send, SendCall, Receive, ReceiveCall, Abandon, AbandonCall
  <2>6. ASSUME NEW c \in Call, NEW v \in Replies(c),
               PostAnswered(c, v)
        PROVE  slot'[x] = slot[x]
    BY <2>6 DEF PostAnswered, handlerVars
  <2>7. ASSUME NEW c \in Call, PostFails(c) PROVE slot'[x] = slot[x]
    BY <2>7 DEF PostFails, handlerVars
  <2>8. ASSUME Dispatch \/ UNCHANGED vars PROVE slot'[x] = slot[x]
    BY <2>8 DEF Dispatch, vars, handlerVars
  <2> QED BY <2>2, <2>3, <2>4, <2>5, <2>6, <2>7, <2>8 DEF Next, Post
<1>4. CASE post'[x] = "over" /\ post[x] # "over"
  <2>1. post[x] \in {"posting", "settle"}
    <3>1. ASSUME NEW c \in Call, Handler(c) \/ Abandon(c) PROVE post' = post
      BY <3>1 DEF Handler, Start, Map, Expect, Send, Receive, Abandon, postVars
    <3>2. ASSUME NEW c \in Call, NEW v \in Replies(c), PostAnswered(c, v)
          PROVE  post[x] = "posting"
      BY <1>4, <1>t, <3>2 DEF PostAnswered, TypeOK
    <3>3. ASSUME NEW c \in Call, Settle(c) \/ PostFails(c)
          PROVE  post[x] = "settle"
      BY <1>4, <1>t, <3>3 DEF Settle, PostFails, TypeOK
    <3>4. ~Dispatch
      BY <1>4, <1>t DEF Dispatch, TypeOK
    <3>5. ASSUME UNCHANGED vars PROVE post' = post
      BY <3>5 DEF vars, postVars
    <3> QED BY <1>4, <3>1, <3>2, <3>3, <3>4, <3>5 DEF Next, Post
  <2>2. pc[x] \in Past /\ ~Robbed(x) /\ pc[x] # "idle"
    BY <2>1, <1>t, RobbedStays DEF PostInv, Past
  <2>3. CASE post[x] = "posting"
    <3>1. WireId(x) \in DOMAIN waiters
      BY <1>t, <2>2, <2>3 DEF SenderKept, WireId, Waits
    <3>2. ASSUME NEW c \in Call, NEW v \in Replies(c), PostAnswered(c, v)
          PROVE  FALSE
      BY <1>4, <1>t, <2>3, <3>1, <3>2 DEF PostAnswered, TypeOK
    <3>3. ASSUME NEW c \in Call, Settle(c) \/ PostFails(c) PROVE FALSE
      BY <1>4, <1>t, <2>3, <3>3 DEF Settle, PostFails, TypeOK
    <3>4. ASSUME NEW c \in Call, Handler(c) \/ Abandon(c) PROVE FALSE
      BY <1>4, <3>4 DEF Handler, Start, Map, Expect, Send, Receive, Abandon,
           postVars
    <3>5. ASSUME Dispatch \/ UNCHANGED vars PROVE FALSE
      BY <1>4, <1>t, <3>5 DEF Dispatch, vars, postVars, TypeOK
    <3> QED BY <3>2, <3>3, <3>4, <3>5 DEF Next, Post
  <2>4. CASE post[x] = "settle"
    <3>1. Settle(x)
      <4>1. ASSUME NEW c \in Call, NEW v \in Replies(c), PostAnswered(c, v)
            PROVE  FALSE
        BY <1>4, <1>t, <2>4, <4>1 DEF PostAnswered, TypeOK
      <4>2. ASSUME NEW c \in Call, PostFails(c) PROVE FALSE
        BY <1>4, <1>t, <2>4, <4>2 DEF PostFails, TypeOK
      <4>3. ASSUME NEW c \in Call, Settle(c) PROVE c = x
        BY <1>4, <1>t, <4>3 DEF Settle, TypeOK
      <4>4. ASSUME NEW c \in Call, Handler(c) \/ Abandon(c) PROVE FALSE
        BY <1>4, <4>4 DEF Handler, Start, Map, Expect, Send, Receive, Abandon,
             postVars
      <4>5. ASSUME Dispatch \/ UNCHANGED vars PROVE FALSE
        BY <1>4, <1>t, <4>5 DEF Dispatch, vars, postVars, TypeOK
      <4> QED BY <4>1, <4>2, <4>3, <4>4, <4>5 DEF Next, Post
    <3>2. holder[x] = x /\ outId[x] \in DOMAIN pending /\ outId[x] # NoId
      BY <1>t, <2>2, <2>4 DEF SenderKept, WaitersInv, Expecting, Awaiting, TypeOK, NoId
    <3>3. slot'[x] = IF Class(reply[x]) = "RoutedResponse"
                     THEN "filled" ELSE "dropped"
      BY <1>t, <3>1, <3>2 DEF Settle, TypeOK
    <3>4. reply[x] \in Replies(x) /\ outId'[x] = outId[x] /\ reply' = reply
      BY <1>t, <2>4, <3>1 DEF PostInv, Settle
    <3>5. Class(reply[x]) = "RoutedResponse" <=> reply[x] = Response(outId[x])
      <4>1. NoId \notin DOMAIN pending
        BY <1>t DEF TypeOK, NoId
      <4>2. \/ reply[x] = Response(outId[x])
            \/ reply[x] = Notification
            \/ reply[x] = Noise
        BY <3>4, ChatterAssumption DEF Replies
      <4>3. CASE reply[x] = Response(outId[x])
        BY <3>2, <4>3 DEF Class, Response
      <4>4. CASE reply[x] = Notification
        <5>1. reply[x].method /\ ~Response(outId[x]).method
          BY <4>4 DEF Notification, Response
        <5> QED BY <5>1 DEF Class
      <4>5. CASE reply[x] = Noise
        <5>1. reply[x].id = NoId /\ Response(outId[x]).id # NoId
              /\ ~reply[x].method
          BY <3>2, <4>5 DEF Noise, Response
        <5> QED BY <4>1, <5>1 DEF Class
      <4> QED BY <4>2, <4>3, <4>4, <4>5
    <3> QED BY <1>4, <3>3, <3>4, <3>5 DEF Verdict, Response
  <2> QED BY <2>1, <2>3, <2>4
<1> QED BY <1>p, <1>1, <1>2, <1>3, <1>4 DEF PostState

-----------------------------------------------------------------------------
(* Types.                                                                  *)
LEMMA TypeStep == IInv /\ [Next]_vars => TypeOK'
<1> SUFFICES ASSUME IInv, [Next]_vars PROVE TypeOK'
  OBVIOUS
<1>t. TypeOK /\ IdsInv /\ WaitersInv /\ PostInv
  BY DEF IInv
<1>1. ASSUME NEW c \in Call, Start(c) PROVE TypeOK'
  <2>1. /\ next' \in Nat \ {0} /\ outId' \in [Call -> Nat] /\ UNCHANGED pending
    <3>1. CASE IsRequest(c)
      <4>1. next' = next + 1 /\ outId' = [outId EXCEPT ![c] = next]
            /\ pending' = pending
        BY <1>1, <3>1 DEF Start, StartCall, Mint
      <4> QED BY <1>t, <4>1 DEF TypeOK
    <3>2. CASE ~IsRequest(c)
      BY <1>1, <1>t, <3>2 DEF Start, StartCall, muxVars, TypeOK
    <3> QED BY <3>1, <3>2
  <2>2. pc' \in [Call -> HandlerState]
    BY <1>1, <1>t DEF Start, StartCall, TypeOK, HandlerState
  <2> QED BY <1>1, <1>t, <2>1, <2>2 DEF Start, StartCall, TypeOK, postVars
<1>2. ASSUME NEW c \in Call, Map(c) PROVE TypeOK'
  <2>1. outId[c] \in Nat \ {0}
    BY <1>2, <1>t DEF Map, MapCall, IdsInv, TypeOK
  <2>2. DOMAIN pending' \subseteq Nat \ {0}
    BY <1>2, <1>t, <2>1 DEF Map, MapCall, Remember, Insert, TypeOK
  <2>3. pc' \in [Call -> HandlerState]
    BY <1>2, <1>t DEF Map, MapCall, TypeOK, HandlerState
  <2> QED BY <1>2, <1>t, <2>2, <2>3 DEF Map, MapCall, Remember, TypeOK, postVars
<1>3. ASSUME NEW c \in Call, Expect(c) PROVE TypeOK'
  <2>1. \A n \in DOMAIN waiters' : waiters'[n] \in Call
    BY <1>3, <1>t DEF Expect, ExpectCall, Insert, TypeOK
  <2>2. pc' \in [Call -> HandlerState]
    BY <1>3, <1>t DEF Expect, ExpectCall, TypeOK, HandlerState
  <2> QED BY <1>3, <1>t, <2>1, <2>2 DEF Expect, ExpectCall, TypeOK, postVars, muxVars
<1>4. ASSUME NEW c \in Call, Send(c) PROVE TypeOK'
  <2>1. inQ' \in Seq(Call) /\ waiters' = waiters
    <3>1. inQ \in Seq(Call) /\ inQ' = Append(inQ, c) /\ waiters' = waiters
      BY <1>4, <1>t DEF Send, SendCall, TypeOK
    <3> QED BY <3>1
  <2>2. pc' \in [Call -> HandlerState]
    BY <1>4, <1>t DEF Send, SendCall, TypeOK, HandlerState
  <2> QED BY <1>4, <1>t, <2>1, <2>2 DEF Send, SendCall, TypeOK, postVars, muxVars
<1>5. ASSUME NEW c \in Call, Receive(c) \/ Abandon(c) PROVE TypeOK'
  <2>1. pc' \in [Call -> HandlerState]
    BY <1>5, <1>t DEF Receive, ReceiveCall, Abandon, AbandonCall, TypeOK,
                      HandlerState
  <2> QED BY <1>5, <1>t, <2>1 DEF Receive, ReceiveCall, Abandon, AbandonCall,
                                  TypeOK, postVars, muxVars
<1>6. ASSUME NEW c \in Call, NEW v \in Replies(c), PostAnswered(c, v)
      PROVE  TypeOK'
  <2>1. v \in Message
    <3>1. Notification \in Message /\ Noise \in Message
      BY DEF Notification, Noise, Message
    <3>2. Response(outId[c]) \in Message
      BY <1>t DEF Response, Message, TypeOK
    <3> QED BY <3>1, <3>2, ChatterAssumption DEF Replies
  <2>2. /\ \A n \in DOMAIN waiters' : waiters'[n] \in Call
        /\ post' \in [Call -> PostState]
        /\ holder' \in [Call -> Call \cup {NoCall}]
    <3>1. CASE WireId(c) \in DOMAIN waiters
      <4>1. /\ waiters' = Remove(waiters, WireId(c))
            /\ post' = [post EXCEPT ![c] = "settle"]
            /\ holder' = [holder EXCEPT ![c] = waiters[WireId(c)]]
        BY <1>6, <3>1 DEF PostAnswered
      <4>2. \A n \in DOMAIN waiters' : waiters'[n] \in Call
        BY <1>t, <4>1 DEF Remove, Restrict, TypeOK
      <4>3. post' \in [Call -> PostState]
        BY <1>t, <4>1 DEF TypeOK, PostState
      <4>4. waiters[WireId(c)] \in Call
        BY <1>t, <3>1 DEF TypeOK
      <4>5. holder' \in [Call -> Call \cup {NoCall}]
        BY <1>t, <4>1, <4>4 DEF TypeOK
      <4> QED BY <4>2, <4>3, <4>5
    <3>2. CASE WireId(c) \notin DOMAIN waiters
      BY <1>6, <1>t, <3>2 DEF PostAnswered, TypeOK, PostState
    <3> QED BY <3>1, <3>2
  <2>3. reply' \in [Call -> Message]
    BY <1>6, <1>t, <2>1 DEF PostAnswered, TypeOK
  <2> QED BY <1>6, <1>t, <2>2, <2>3 DEF PostAnswered, TypeOK, handlerVars, muxVars
<1>7. ASSUME NEW c \in Call, Settle(c) PROVE TypeOK'
  <2>1. /\ DOMAIN pending' \subseteq Nat \ {0} /\ next' = next
        /\ post' \in [Call -> PostState]
        /\ holder' \in [Call -> Call \cup {NoCall}]
        /\ slot' \in [Call -> {"empty", "filled", "dropped"}]
    BY <1>7, <1>t DEF Settle, Classify, Remove, Restrict, TypeOK, PostState
  <2>2. got' \in [Session -> [Id -> Nat]]
    <3>1. got' # got => \E s \in Session, i \in Id :
                          got' = [got EXCEPT ![s][i] = @ + 1]
      <4>1. holder[c] \in Call /\ holder[c].session \in Session
        BY <1>7, <1>t, CallAssumption DEF Settle, WaitersInv
      <4>2. Class(reply[c]) = "RoutedResponse" => pending[reply[c].id].id \in Id
        <5>1. SUFFICES ASSUME reply[c].id \in DOMAIN pending
                       PROVE  pending[reply[c].id].id \in Id
          BY DEF Class
        <5>2. PICK d \in Requests :
                pending[reply[c].id] = [session |-> d.session, id |-> d.id]
          BY <5>1 DEF IInv, PendingInv, MappingsInv
        <5> QED BY <5>2 DEF Id, Requests
      <4> QED BY <1>7, <4>1, <4>2, Zenon DEF Settle
    <3>2. ASSUME NEW s \in Session, NEW i \in Id,
                 got' = [got EXCEPT ![s][i] = @ + 1]
          PROVE  got' \in [Session -> [Id -> Nat]]
      <4>1. got \in [Session -> [Id -> Nat]]
        BY <1>t DEF TypeOK
      <4>2. [got[s] EXCEPT ![i] = @ + 1] \in [Id -> Nat]
        BY <4>1
      <4> QED BY <3>2, <4>1, <4>2
    <3> QED BY <1>t, <3>1, <3>2 DEF TypeOK
  <2> QED BY <1>7, <1>t, <2>1, <2>2 DEF Settle, TypeOK
<1>8. ASSUME NEW c \in Call, PostFails(c) PROVE TypeOK'
  BY <1>8, <1>t DEF PostFails, TypeOK, handlerVars, muxVars, PostState
<1>9. CASE Dispatch
  BY <1>9, <1>t DEF Dispatch, TypeOK, handlerVars, muxVars, PostState
<1>10. CASE UNCHANGED vars
  BY <1>10, <1>t DEF vars, TypeOK, handlerVars, muxVars, postVars
<1> QED
  BY <1>1, <1>2, <1>3, <1>4, <1>5, <1>6, <1>7, <1>8, <1>9, <1>10
     DEF Next, Handler, Post

(* The HTTP proxy's invariant: outbound ids are unique, mappings and       *)
(* senders are those of the calls they were made for, and a sender is in   *)
(* the table or in one POST task's hands until its call is told.           *)
THEOREM InvariantHolds == Spec => []IInv
<1>1. IInv /\ [Next]_vars => IInv'
  BY TypeStep, IdsStep, PendingStep, PostStep, WaitersStep, KeptStep, HearsStep
     DEF IInv
<1> QED BY <1>1, InitIInv, PTL DEF Spec

(* A caller is told what its own POST was answered, and nothing before,    *)
(* whatever overtakes what, unless a passed payload took its sender.       *)
THEOREM CallersHearTheirPost == Spec => []CallerHearsItsPost
<1>1. IInv => CallerHearsItsPost
  BY DEF IInv
<1> QED BY <1>1, InvariantHolds, PTL

-----------------------------------------------------------------------------
(* Nobody waits for a POST that nobody makes.                              *)

(* A handler's step: a sender is stored before its task waits, and a       *)
(* payload is in the channel once its task is past it.                     *)
LEMMA SomeoneAnswersHandler ==
  ASSUME IInv, SomeoneAnswers, NEW c \in Call, Handler(c) \/ Abandon(c)
  PROVE  SomeoneAnswers'
<1>t. TypeOK /\ IdsInv /\ PostInv /\ inQ \in Seq(Call) /\ forwardUp
  BY DEF IInv, TypeOK
<1>f. UNCHANGED <<slot, post, holder>>
  BY DEF Handler, Start, StartCall, Map, MapCall, Expect, ExpectCall, Send,
         SendCall, Receive, ReceiveCall, Abandon, AbandonCall, postVars
<1>o. \A d \in Call : pc[d] # "idle" => outId'[d] = outId[d]
  BY <1>t DEF Handler, Start, StartCall, Map, MapCall, Expect, ExpectCall, Send,
     SendCall, Receive, ReceiveCall, Abandon, AbandonCall, TypeOK
<1>p. \A d \in Call \ {c} : pc'[d] = pc[d]
  BY <1>t DEF Handler, Start, StartCall, Map, MapCall, Expect, ExpectCall, Send,
     SendCall, Receive, ReceiveCall, Abandon, AbandonCall, TypeOK
<1>i. Range(inQ) \subseteq Range(inQ')
  <2>1. CASE Send(c)
    <3>1. inQ' = Append(inQ, c)
      BY <1>t, <2>1 DEF Send, SendCall
    <3> QED BY <1>t, <3>1, PutFacts
  <2>2. CASE ~Send(c)
    BY <2>2 DEF Handler, Start, StartCall, Map, MapCall, Expect, ExpectCall,
       Receive, ReceiveCall, Abandon, AbandonCall
  <2> QED BY <2>1, <2>2
<1>1. ASSUME NEW d \in Call, pc'[d] \in {"waiting", "done"}
      PROVE  d \in Range(inQ') \/ post'[d] # "none"
  <2>1. CASE pc[d] \in {"waiting", "done"}
    BY <1>f, <1>i, <2>1 DEF SomeoneAnswers
  <2>2. CASE pc[d] \notin {"waiting", "done"}
    <3>1. d = c /\ Send(c)
      BY <1>1, <1>p, <1>t, <2>2 DEF Handler, Start, StartCall, Map, MapCall,
         Expect, ExpectCall, Receive, ReceiveCall, Abandon, AbandonCall, TypeOK
    <3>2. inQ' = Append(inQ, c)
      BY <1>t, <3>1 DEF Send, SendCall
    <3> QED BY <1>t, <3>1, <3>2, PutFacts
  <2> QED BY <2>1, <2>2
<1>2. CASE Expect(c)
  <2>1. /\ pc[c] = "mapped" /\ Waits(c)
        /\ waiters' = Insert(waiters, outId[c], c)
        /\ outId' = outId
    BY <1>2, <1>t DEF Expect, ExpectCall, IdsInv
  <2>2. \A d \in Call \ {c} : outId[d] # outId[c]
    BY <2>1, SenderIds
  <2>3. ASSUME NEW d \in Requests, post[d] \in {"settle", "over"}
        PROVE  outId[d] \notin DOMAIN waiters'
    <3>1. d # c /\ d \in Call
      BY <1>t, <2>1, <2>3 DEF PostInv, Past, Requests
    <3> QED BY <2>1, <2>2, <2>3, <3>1 DEF SomeoneAnswers, Insert
  <2>4. ASSUME NEW d \in Call, Waits(d), pc'[d] \in Past \cup {"ready"},
               slot[d] = "empty"
        PROVE  \/ outId[d] \in DOMAIN waiters' /\ waiters'[outId[d]] = d
               \/ \E e \in Call : post[e] = "settle" /\ holder[e] = d
    <3>1. CASE d = c
      BY <2>1, <3>1 DEF Insert
    <3>2. CASE d # c
      <4>1. \/ outId[d] \in DOMAIN waiters /\ waiters[outId[d]] = d
            \/ \E e \in Call : post[e] = "settle" /\ holder[e] = d
        BY <1>p, <2>4, <3>2 DEF SomeoneAnswers
      <4> QED BY <2>1, <2>2, <3>2, <4>1 DEF Insert
    <3> QED BY <3>1, <3>2
  <2> QED BY <1>1, <1>f, <2>1, <2>3, <2>4 DEF SomeoneAnswers
<1>3. CASE ~Expect(c)
  <2>1. waiters' = waiters
    BY <1>3, <1>t DEF Handler, Start, StartCall, Map, MapCall, Send, SendCall,
       Receive, ReceiveCall, Abandon, AbandonCall
  <2>2. ASSUME NEW d \in Call, Waits(d), pc'[d] \in Past \cup {"ready"}
        PROVE  pc[d] \in Past \cup {"ready"}
    BY <1>3, <1>p, <1>t, <2>2 DEF Handler, Start, StartCall, Map, MapCall, Send,
       SendCall, Receive, ReceiveCall, Abandon, AbandonCall, TypeOK, Past, Waits
  <2>3. \A d \in Call : pc[d] \in Past \cup {"ready"} => pc[d] # "idle"
    BY DEF Past
  <2>4. \A d \in Call : post[d] \in {"settle", "over"} => pc[d] # "idle"
    BY <1>t DEF PostInv, Past
  <2> QED BY <1>1, <1>f, <1>o, <2>1, <2>2, <2>3, <2>4
          DEF SomeoneAnswers, Requests
<1> QED BY <1>2, <1>3

(* A step of the inbound task or of a POST task: a payload taken is        *)
(* posted, and a sender taken is used.                                     *)
LEMMA SomeoneAnswersPost ==
  ASSUME IInv, SomeoneAnswers, NEW c \in Call,
         Dispatch \/ Post(c) \/ PostFails(c)
  PROVE  SomeoneAnswers'
<1>t. TypeOK /\ IdsInv /\ PostInv /\ WaitersInv /\ inQ \in Seq(Call)
  BY DEF IInv, TypeOK
<1>f. UNCHANGED <<pc, outId>>
  BY DEF Dispatch, Post, PostAnswered, Settle, PostFails, handlerVars
<1>1. ASSUME UNCHANGED <<slot, waiters, holder>>,
             \A d \in Call : post'[d] \in {"settle", "over"} <=>
                               post[d] \in {"settle", "over"},
             \A d \in Call : post[d] = "settle" => post'[d] = "settle",
             \A d \in Call : d \in Range(inQ) \/ post[d] # "none" =>
                               d \in Range(inQ') \/ post'[d] # "none"
      PROVE  SomeoneAnswers'
  BY <1>1, <1>f DEF SomeoneAnswers, Requests
<1>2. CASE Dispatch
  <2>1. /\ inQ # <<>> /\ inQ' = Tail(inQ) /\ UNCHANGED <<slot, waiters, holder>>
        /\ post' = [post EXCEPT ![Head(inQ)] = "posting"]
    BY <1>2 DEF Dispatch, handlerVars
  <2>2. /\ Range(inQ) = {Head(inQ)} \cup Range(inQ')
        /\ Head(inQ) \in Call
    BY <1>t, <2>1, HeadOrTail, TakeFacts
  <2>3. post[Head(inQ)] = "none"
    BY <1>t, <2>1 DEF PostInv
  <2>4. \A d \in Call : post'[d] = IF d = Head(inQ) THEN "posting" ELSE post[d]
    BY <1>t, <2>1 DEF TypeOK
  <2> QED BY <1>1, <2>1, <2>2, <2>3, <2>4
<1>3. CASE PostFails(c)
  <2>1. /\ post[c] = "posting" /\ UNCHANGED <<slot, waiters, holder, inQ>>
        /\ \A d \in Call : post'[d] = IF d = c THEN "lost" ELSE post[d]
    BY <1>3, <1>t DEF PostFails, TypeOK, handlerVars
  <2> QED BY <1>1, <2>1
<1>4. ASSUME NEW v \in Replies(c), PostAnswered(c, v) PROVE SomeoneAnswers'
  <2>1. /\ UNCHANGED <<slot, inQ>> /\ post[c] = "posting"
        /\ \A d \in Call \ {c} : post'[d] = post[d] /\ holder'[d] = holder[d]
        /\ IF WireId(c) \in DOMAIN waiters
           THEN /\ post'[c] = "settle" /\ holder'[c] = waiters[WireId(c)]
                /\ waiters' = Remove(waiters, WireId(c))
           ELSE post'[c] = "over" /\ waiters' = waiters
    BY <1>4, <1>t DEF PostAnswered, TypeOK, handlerVars
  <2>2. ASSUME NEW d \in Call, Waits(d), pc[d] \in Past \cup {"ready"},
               slot[d] = "empty"
        PROVE  \/ outId[d] \in DOMAIN waiters' /\ waiters'[outId[d]] = d
               \/ \E e \in Call : post'[e] = "settle" /\ holder'[e] = d
    <3>1. CASE outId[d] \in DOMAIN waiters /\ waiters[outId[d]] = d
      BY <2>1, <3>1 DEF Remove, Restrict
    <3>2. ASSUME NEW e \in Call, post[e] = "settle", holder[e] = d
          PROVE  post'[e] = "settle" /\ holder'[e] = d
      BY <2>1, <3>2
    <3> QED BY <2>2, <3>1, <3>2 DEF SomeoneAnswers
  <2>3. ASSUME NEW d \in Requests, post'[d] \in {"settle", "over"}
        PROVE  outId[d] \notin DOMAIN waiters'
    BY <2>1, <2>3 DEF SomeoneAnswers, Remove, Restrict, WireId, Requests
  <2> QED BY <1>f, <2>1, <2>2, <2>3 DEF SomeoneAnswers
<1>5. CASE Settle(c)
  <2>1. /\ UNCHANGED <<inQ, waiters>> /\ post[c] = "settle" /\ post'[c] = "over"
        /\ \A d \in Call \ {c} : post'[d] = post[d] /\ holder'[d] = holder[d]
        /\ \A d \in Call \ {holder[c]} : slot'[d] = slot[d]
        /\ holder[c] \in Call => slot'[holder[c]] # "empty"
    BY <1>5, <1>t DEF Settle, TypeOK
  <2>2. holder[c] \in Call
    BY <1>t, <2>1 DEF WaitersInv
  <2> QED BY <1>f, <2>1, <2>2 DEF SomeoneAnswers, Requests
<1> QED BY <1>2, <1>3, <1>4, <1>5 DEF Post

(* While a request waits, its payload is in the channel or with a POST     *)
(* task that has its answer to come or its sender in hand, whoever         *)
(* overtakes whom and whatever is passed through.                          *)
THEOREM WaitingCallersAreServed == Spec => []NoCallerIdles
<1>1. Init => SomeoneAnswers
  BY DEF Init, CallersInit, SomeoneAnswers, Requests, Past
<1>2. IInv /\ SomeoneAnswers /\ [Next]_vars => SomeoneAnswers'
  <2> SUFFICES ASSUME IInv, SomeoneAnswers, [Next]_vars PROVE SomeoneAnswers'
    OBVIOUS
  <2>1. ASSUME UNCHANGED vars PROVE SomeoneAnswers'
    BY <2>1 DEF vars, handlerVars, postVars, SomeoneAnswers
  <2>2. CASE Dispatch
    <3>1. Head(inQ) \in Call
      BY <2>2, TakeFacts DEF IInv, TypeOK, Dispatch
    <3> QED BY <2>2, <3>1, SomeoneAnswersPost
  <2> QED BY <2>1, <2>2, SomeoneAnswersHandler, SomeoneAnswersPost DEF Next
<1>3. IInv /\ SomeoneAnswers => NoCallerIdles
  <2> SUFFICES ASSUME IInv, SomeoneAnswers, NEW c \in Call, pc[c] = "waiting",
                      slot[c] = "empty", c \notin Range(inQ),
                      post[c] \notin {"posting", "lost"}
               PROVE  \E d \in Call : post[d] = "settle" /\ holder[d] = c
    BY DEF NoCallerIdles
  <2>1. Waits(c) /\ c \in Requests
    BY DEF IInv, IdsInv, Waits, Requests
  <2>2. post[c] \in {"settle", "over"}
    BY DEF SomeoneAnswers, IInv, TypeOK, PostState
  <2> QED BY <2>1, <2>2 DEF SomeoneAnswers, Past
<1> QED BY <1>1, <1>2, <1>3, InvariantHolds, PTL DEF Spec

-----------------------------------------------------------------------------
(* HttpProxy implements CallService.                                       *)

Submitted == {c \in Requests : pc[c] \notin {"idle", "minted"}}

(* The initial state maps to an initial state. *)
LEMMA RefinesInit == Init => Calls!CallInit
<1> SUFFICES ASSUME Init PROVE Calls!CallInit
  OBVIOUS
<1>1. {c \in Requests : pc[c] \notin {"idle", "minted"}} = {}
  BY DEF Init, CallersInit, Requests
<1>2. Outstanding = {}
  BY DEF Init, CallersInit, MuxInit, EmptyTable, Outstanding
<1> QED BY <1>1, <1>2 DEF Init, Calls!CallInit

(* A step maps to a submission, an answer, a call given up, or nothing.    *)
LEMMA RefinesStep ==
  IInv /\ [Next]_vars => [Calls!CallNext]_(Calls!absVars)
<1> SUFFICES ASSUME IInv, [Next]_vars
             PROVE  \/ \E c \in Requests :
                         \/ Calls!Submit(c) \/ Calls!Answer(c)
                         \/ Calls!GiveUp(c)
                    \/ UNCHANGED <<Submitted, Outstanding, got>>
  BY DEF Calls!CallNext, Calls!absVars, Submitted
<1> DEFINE Goal == \/ \E c \in Requests :
                        \/ Calls!Submit(c) \/ Calls!Answer(c)
                        \/ Calls!GiveUp(c)
                   \/ UNCHANGED <<Submitted, Outstanding, got>>
<1>t. TypeOK /\ IdsInv /\ PendingInv /\ WaitersInv /\ PostInv
  BY DEF IInv
<1>r. Requests' = Requests
  BY DEF Requests
<1>1. ASSUME UNCHANGED <<pc, outId, pending, got>> PROVE Goal
  BY <1>1, <1>r DEF Outstanding, Submitted
<1>2. ASSUME NEW c \in Call, Start(c) PROVE Goal
  <2>1. /\ UNCHANGED <<pending, got>>
        /\ \A d \in Call \ {c} : outId'[d] = outId[d] /\ pc'[d] = pc[d]
        /\ pc[c] = "idle" /\ outId[c] = 0
        /\ c \in Requests => pc'[c] = "minted" /\ outId'[c] = next
    BY <1>2, <1>t DEF Start, StartCall, Mint, muxVars, Requests, IdsInv, TypeOK
  <2>2. next \notin DOMAIN pending /\ 0 \notin DOMAIN pending
    BY <1>t DEF TypeOK, PendingInv, MappingsInv, IdsInv, Requests
  <2>3. Outstanding' = Outstanding
    BY <1>r, <2>1, <2>2 DEF Outstanding, Requests
  <2>4. Submitted' = Submitted
    BY <1>r, <2>1 DEF Submitted, Requests
  <2> QED BY <2>1, <2>3, <2>4
<1>3. ASSUME NEW c \in Call, Map(c) PROVE Goal
  <2>1. /\ UNCHANGED <<outId, got>>
        /\ DOMAIN pending' = DOMAIN pending \cup {outId[c]}
        /\ \A d \in Call \ {c} : pc'[d] = pc[d]
        /\ pc[c] = "minted" /\ pc'[c] \in {"mapped", "ready"}
        /\ c \in Requests
    BY <1>3, <1>t DEF Map, MapCall, Remember, Insert, IdsInv, Requests, TypeOK
  <2>2. \A d \in Requests \ {c} : outId[d] # outId[c]
    BY <1>t, <2>1 DEF IdsInv, Requests
  <2>3. Outstanding' = Outstanding \cup {c}
    BY <1>r, <2>1, <2>2 DEF Outstanding
  <2>4. Submitted' = Submitted \cup {c} /\ c \notin Submitted
    BY <1>r, <2>1 DEF Submitted, Requests
  <2> QED BY <2>1, <2>3, <2>4 DEF Calls!Submit, Submitted
<1>4. ASSUME NEW c \in Call,
             Expect(c) \/ Send(c) \/ Receive(c) \/ Abandon(c)
      PROVE  Goal
  <2>1. /\ UNCHANGED <<outId, pending, got>>
        /\ \A d \in Call \ {c} : pc'[d] = pc[d]
        /\ pc[c] \notin {"idle", "minted"} /\ pc'[c] \notin {"idle", "minted"}
    BY <1>4, <1>t DEF Expect, ExpectCall, Send, SendCall, Receive, ReceiveCall,
                      Abandon, AbandonCall, muxVars, TypeOK
  <2>2. Submitted' = Submitted
    BY <1>r, <2>1 DEF Submitted, Requests
  <2> QED BY <1>r, <2>1, <2>2 DEF Outstanding
<1>5. ASSUME NEW c \in Call, Settle(c) PROVE Goal
  <2>1. UNCHANGED <<pc, outId>> /\ Classify(reply[c]) /\ reply[c] \in Replies(c)
    BY <1>5, <1>t DEF Settle, PostInv
  <2>2. CASE Class(reply[c]) = "RoutedResponse"
    <3>1. /\ reply[c].id \in DOMAIN pending
          /\ DOMAIN pending' = DOMAIN pending \ {reply[c].id}
      BY <2>1, <2>2 DEF Classify, Class, Remove, Restrict
    (* The answer is to the call that was posted, and its own sender took it. *)
    <3>2. /\ IsRequest(c) /\ reply[c].id = outId[c]
      BY <1>t, <2>1, <3>1, ChatterAssumption
         DEF Replies, Response, Notification, Noise, TypeOK, NoId
    <3>3. holder[c] = c
      BY <1>5, <1>t, <3>1, <3>2
         DEF Settle, WaitersInv, Expecting, Awaiting, WireId, IdsInv, TypeOK
    <3>4. pending[outId[c]].id = c.id
      BY <1>t, <3>1, <3>2 DEF PendingInv, MappingsInv, IdsInv, Requests, TypeOK
    <3>5. c \in Outstanding /\ Outstanding' = Outstanding \ {c}
      BY <1>r, <1>t, <2>1, <3>1, <3>2 DEF Outstanding, Requests, IdsInv, TypeOK
    <3>6. got' \in {got, [got EXCEPT ![c.session][c.id] = @ + 1]}
      BY <1>5, <3>2, <3>3, <3>4 DEF Settle
    <3>7. Submitted' = Submitted /\ c \in Requests
      BY <1>r, <2>1, <3>2 DEF Submitted, Requests
    <3> QED BY <3>5, <3>6, <3>7 DEF Calls!Answer, Calls!GiveUp, Submitted
  <2>3. CASE Class(reply[c]) # "RoutedResponse"
    <3>1. DOMAIN pending' = DOMAIN pending
      BY <2>1, <2>3 DEF Classify, Class, Remove, Restrict
    <3>2. got' = got
      BY <1>5, <2>3 DEF Settle
    <3>3. Submitted' = Submitted /\ Outstanding' = Outstanding
      BY <1>r, <2>1, <3>1 DEF Submitted, Outstanding
    <3> QED BY <3>2, <3>3
  <2> QED BY <2>2, <2>3
<1>6. ASSUME NEW c \in Call, NEW v \in Replies(c), PostAnswered(c, v) PROVE Goal
  BY <1>1, <1>6 DEF PostAnswered, handlerVars, muxVars
<1>7. ASSUME NEW c \in Call, PostFails(c) PROVE Goal
  BY <1>1, <1>7 DEF PostFails, handlerVars, muxVars
<1>8. CASE Dispatch \/ UNCHANGED vars
  BY <1>1, <1>8 DEF Dispatch, vars, handlerVars, muxVars
<1> QED
  BY <1>2, <1>3, <1>4, <1>5, <1>6, <1>7, <1>8 DEF Next, Handler, Post

(* Whatever POSTs overtake each other or fail and whatever is passed       *)
(* through: a request has its reply at most once, in the session that      *)
(* asked and under the id it asked with.                                   *)
THEOREM ProxyImplementsCallService == Spec => RepliesMatchCalls
BY RefinesInit, RefinesStep, InvariantHolds, PTL
   DEF Spec, RepliesMatchCalls, Calls!CallSpec
=============================================================================
