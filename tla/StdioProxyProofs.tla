--------------------------- MODULE StdioProxyProofs ---------------------------
(***************************************************************************)
(* Theorems about StdioProxy, for every set of calls and sessions, every   *)
(* capacity and every bound.  IInv is inductive whatever the child writes; *)
(* each theorem below is one of its parts, or follows from it for a child  *)
(* that keeps to what the theorem names: ids of its own that stay clear of *)
(* those the mux mints (ServerIds), answers only to what it was sent (no   *)
(* Forged).                                                                *)
(***************************************************************************)
EXTENDS StdioProxy, QueueFacts, TLAPS

(* The inductive invariant holds when the proxy has just been spawned. *)
LEMMA InitIInv == Init => IInv
<1> SUFFICES ASSUME Init PROVE IInv
  OBVIOUS
<1> USE CallAssumption, ServerIdsAssumption, ForgedAssumption, CapAssumption,
        BoundsAssumption
<1>1. TypeOK
  BY DEF Init, CallersInit, MuxInit, TypeOK, EmptyTable, Noise, Message, NoId,
         HandlerState
<1>2. IdsInv
  BY DEF Init, CallersInit, MuxInit, IdsInv
<1>3. SentInv /\ MappingsInv
  BY EmptyQueue DEF Init, CallersInit, MuxInit, SentInv, MappingsInv, Noise,
                    EmptyTable
<1>4. WaitersInv /\ DrainInv
  BY DEF Init, CallersInit, WaitersInv, DrainInv, EmptyTable
<1>5. NoCallerForgotten /\ FinishedLeaveNoSender
  BY DEF Init, CallersInit, NoCallerForgotten, FinishedLeaveNoSender, EmptyTable
<1> QED BY <1>1, <1>2, <1>3, <1>4, <1>5 DEF IInv

-----------------------------------------------------------------------------
(* Ids.                                                                    *)

(* Only a handler's step or the drain task's settling touches a handler.   *)
LEMMA HandlerFrame ==
  ASSUME [Next]_vars
  PROVE  \/ \E c \in Call : Handler(c) \/ Abandon(c)
         \/ DrainSettle
         \/ UNCHANGED <<next, handlerVars>>
<1>1. CASE Forward \/ WriteStdin
  BY <1>1 DEF Forward, WriteStdin, muxVars
<1>2. CASE ChildExit \/ \E n \in seen : ChildAnswer(n)
  BY <1>2 DEF ChildAnswer, ChildExit, muxVars
<1>3. CASE \E v \in OtherLines : ChildWrite(v)
  BY <1>3 DEF ChildWrite, muxVars
<1>4. CASE DrainRecv \/ DrainClassify \/ DrainSend
  BY <1>4 DEF DrainRecv, DrainClassify, Classify, DrainSend, muxVars
<1>5. CASE \E s \in Session :
             OpenStream(s) \/ ReadStream(s) \/ Disconnect(s) \/ Detach(s)
  BY <1>5 DEF OpenStream, ReadStream, Disconnect, Detach, muxVars
<1>6. CASE UNCHANGED vars
  BY <1>6 DEF vars, muxVars
<1> QED BY <1>1, <1>2, <1>3, <1>4, <1>5, <1>6 DEF Next, Step, Drain

(* Outbound ids stay unique. *)
LEMMA IdsStep == IInv /\ [Next]_vars => IdsInv'
<1> SUFFICES ASSUME IInv, [Next]_vars PROVE IdsInv'
  OBVIOUS
<1> USE DEF IInv
<1>1. ASSUME NEW c \in Call, Start(c) PROVE IdsInv'
  BY <1>1 DEF behindVars, Start, StartCall, Mint, IdsInv, TypeOK, muxVars,
              Waits, IsRequest
<1>2. ASSUME NEW c \in Call, Map(c) PROVE IdsInv'
  BY <1>2 DEF behindVars, Map, MapCall, Remember, IdsInv, TypeOK, Waits,
              IsRequest
<1>3. ASSUME NEW c \in Call, Expect(c) \/ Send(c) PROVE IdsInv'
  BY <1>3 DEF behindVars, Expect, ExpectCall, Send, SendCall, IdsInv, TypeOK,
              muxVars
<1>4. ASSUME NEW c \in Call, Receive(c) \/ Abandon(c) PROVE IdsInv'
  BY <1>4 DEF behindVars, Receive, ReceiveCall, Abandon, AbandonCall, IdsInv,
              TypeOK, muxVars
<1>5. CASE DrainSettle
  BY <1>5 DEF DrainSettle, Classify, IdsInv, TypeOK, WaitersInv, Awaiting
<1>6. CASE UNCHANGED <<next, handlerVars>>
  BY <1>6 DEF IdsInv, handlerVars
<1> QED BY <1>1, <1>2, <1>3, <1>4, <1>5, <1>6, HandlerFrame DEF Handler

(* What was sent stays sent. *)
LEMMA SentStable == IInv /\ [Next]_vars => SentIds \subseteq SentIds'
<1> SUFFICES ASSUME IInv, [Next]_vars,
                    NEW d \in Call, pc[d] \in Past
             PROVE  outId'[d] = outId[d] /\ pc'[d] \in Past
  BY DEF SentIds
<1> USE DEF IInv, TypeOK, Past
<1>1. ASSUME NEW c \in Call, Handler(c) \/ Abandon(c)
      PROVE  outId'[d] = outId[d] /\ pc'[d] \in Past
  BY <1>1 DEF behindVars, Handler, Start, StartCall, Map, MapCall, Expect,
              ExpectCall, Send, SendCall, Receive, ReceiveCall, Abandon,
              AbandonCall
<1>2. CASE DrainSettle
  BY <1>2 DEF DrainSettle
<1>3. CASE UNCHANGED <<next, handlerVars>>
  BY <1>3 DEF handlerVars
<1> QED BY <1>1, <1>2, <1>3, HandlerFrame

(* Whatever the child writes is a message, and an answer only to what it   *)
(* has seen or forges.                                                     *)
LEMMA OtherLinesFacts ==
  ASSUME answered \subseteq seen, seen \subseteq Nat, NEW v \in OtherLines
  PROVE  v \in Message /\ (v.method \/ v.id \in seen \cup Forged \cup {NoId})
<1> USE ForgedAssumption DEF Message
<1>1. ASSUME NEW n \in answered \cup Forged, v = Response(n)
      PROVE  v \in Message /\ v.id \in seen \cup Forged
  BY <1>1 DEF Response
<1>2. ASSUME NEW k \in ServerIds, v = ServerRequest(k)
      PROVE  v \in Message /\ v.method
  BY <1>2, ServerIdsAssumption DEF ServerRequest
<1>3. ASSUME v = Notification
      PROVE  v \in Message /\ v.method
  BY <1>3 DEF Notification
<1>4. ASSUME v = Noise
      PROVE  v \in Message /\ v.id \in seen \cup {NoId}
  BY <1>4 DEF Noise
<1> QED BY <1>1, <1>2, <1>3, <1>4 DEF OtherLines

(* What is under way was sent, and answers are to what was seen. *)
LEMMA SentStep == IInv /\ [Next]_vars => SentInv'
<1> SUFFICES ASSUME IInv, [Next]_vars PROVE SentInv'
  OBVIOUS
<1>t. TypeOK /\ SentInv
  BY DEF IInv
<1>0. SentIds \subseteq SentIds'
  BY SentStable
<1>1. ASSUME NEW c \in Call, Send(c) PROVE SentInv'
  <2>1. CASE forwardUp
    <3>1. outId[c] \in SentIds'
      BY <1>1, <1>t, <2>1 DEF behindVars, Send, SendCall, SentIds, Past, TypeOK
    <3>2. inQ \in Seq(Nat) /\ outId[c] \in Nat /\ inQ' = Append(inQ, outId[c])
      BY <1>1, <1>t, <2>1 DEF behindVars, Send, SendCall, Line, TypeOK
    <3>3. Range(inQ') = Range(inQ) \cup {outId[c]}
      BY <3>2, PutFacts
    <3> QED BY <1>0, <1>1, <1>t, <3>1, <3>3
            DEF behindVars, Send, SendCall, SentInv, childVars, drainVars
  <2>2. CASE ~forwardUp
    BY <1>0, <1>1, <1>t, <2>2 DEF behindVars, Send, SendCall, SentInv,
                                  childVars, drainVars
  <2> QED BY <2>1, <2>2
<1>2. ASSUME NEW c \in Call,
             Start(c) \/ Map(c) \/ Expect(c) \/ Receive(c) \/ Abandon(c)
      PROVE  SentInv'
  <2>1. UNCHANGED <<inVars, childVars, stdoutQ, drainVars>>
    BY <1>2 DEF behindVars, Start, StartCall, Map, MapCall, Expect, ExpectCall,
                Receive, ReceiveCall, Abandon, AbandonCall, inVars
  <2> QED BY <1>0, <1>t, <2>1 DEF SentInv, inVars, childVars, drainVars
<1>3. CASE Forward
  <2>1. /\ Range(inQ') \subseteq Range(inQ)
        /\ Range(stdinQ') \subseteq Range(stdinQ) \cup Range(inQ)
    <3>1. CASE writerUp
      <4>1. /\ inQ \in Seq(Nat) /\ inQ # <<>> /\ inQ' = Tail(inQ)
            /\ stdinQ \in Seq(Nat) /\ stdinQ' = Append(stdinQ, Head(inQ))
        BY <1>3, <1>t, <3>1 DEF Forward, TypeOK
      <4>2. Head(inQ) \in Nat /\ Head(inQ) \in Range(inQ)
        BY <4>1, TakeFacts
      <4> QED BY <4>1, <4>2, TakeFacts, PutFacts
    <3>2. CASE ~writerUp
      BY <1>3, <3>2, EmptyQueue DEF Forward
    <3> QED BY <3>1, <3>2
  <2> QED BY <1>0, <1>3, <1>t, <2>1
          DEF Forward, SentInv, childVars, drainVars
<1>4. CASE WriteStdin
  <2>1. /\ Range(stdinQ') \subseteq Range(stdinQ)
        /\ seen \subseteq seen'
        /\ seen' \subseteq seen \cup (Range(stdinQ) \ {0})
    <3>1. CASE childUp
      <4>1. /\ stdinQ \in Seq(Nat) /\ stdinQ # <<>>
            /\ stdinQ' = Tail(stdinQ)
            /\ seen' = seen \cup ({Head(stdinQ)} \ {0})
        BY <1>4, <1>t, <3>1 DEF WriteStdin, TypeOK
      <4> QED BY <4>1, TakeFacts
    <3>2. CASE ~childUp
      BY <1>4, <3>2, EmptyQueue DEF WriteStdin
    <3> QED BY <3>1, <3>2
  <2> QED BY <1>0, <1>4, <1>t, <2>1 DEF WriteStdin, SentInv, drainVars
<1>5. ASSUME NEW v \in Message, v.method \/ v.id \in seen \cup Forged \cup {NoId},
             stdoutQ' = Append(stdoutQ, v),
             UNCHANGED <<inVars, seen, drainVars>>
      PROVE  SentInv'
  <2>1. Range(stdoutQ') = Range(stdoutQ) \cup {v}
    BY <1>5, <1>t, PutFacts DEF TypeOK
  <2> QED BY <1>0, <1>5, <1>t, <2>1 DEF SentInv, inVars, drainVars
<1>6. ASSUME NEW n \in seen, ChildAnswer(n) PROVE SentInv'
  <2>1. /\ Response(n) \in Message /\ Response(n).id = n
        /\ UNCHANGED <<inVars, seen, drainVars>>
    BY <1>6, <1>t DEF ChildAnswer, Response, Message, TypeOK
  <2> QED BY <1>5, <1>6, <2>1 DEF ChildAnswer
<1>7. ASSUME NEW v \in OtherLines, ChildWrite(v) PROVE SentInv'
  <2>1. v \in Message /\ (v.method \/ v.id \in seen \cup Forged \cup {NoId})
    BY OtherLinesFacts, <1>t DEF TypeOK
  <2> QED BY <1>5, <1>7, <2>1 DEF ChildWrite
<1>8. CASE DrainRecv
  <2>1. /\ Range(stdoutQ') \subseteq Range(stdoutQ)
        /\ dmsg' \in Range(stdoutQ)
    BY <1>8, <1>t, TakeFacts DEF DrainRecv, TypeOK
  <2> QED BY <1>0, <1>8, <1>t, <2>1 DEF DrainRecv, SentInv, inVars, childVars
<1>9. CASE DrainSettle \/ DrainClassify \/ DrainSend
  <2>1. UNCHANGED <<inVars, childVars, stdoutQ>>
    BY <1>9 DEF DrainSettle, DrainClassify, DrainSend, inVars, childVars
  <2>2. dmsg' \in {dmsg, Noise}
    BY <1>9 DEF DrainSettle, DrainClassify, DrainSend, DrainNext
  <2> QED BY <1>0, <1>t, <2>1, <2>2 DEF SentInv, inVars, childVars, Noise
<1>10. ASSUME NEW s \in Session,
              OpenStream(s) \/ ReadStream(s) \/ Disconnect(s) \/ Detach(s)
       PROVE  SentInv'
  <2>1. UNCHANGED <<inVars, childVars, stdoutQ, drainVars>>
    BY <1>10 DEF OpenStream, ReadStream, Disconnect, Detach
  <2> QED BY <1>0, <1>t, <2>1 DEF SentInv, inVars, childVars, drainVars
<1>11. CASE ChildExit \/ UNCHANGED vars
  BY <1>0, <1>11, <1>t
     DEF ChildExit, vars, SentInv, inVars, childVars, drainVars
<1> QED BY <1>1, <1>2, <1>3, <1>4, <1>6, <1>7, <1>8, <1>9, <1>10, <1>11
        DEF Next, Step, Handler, Drain

-----------------------------------------------------------------------------
(* The two tables.                                                         *)

(* The steps that leave the tables, the handlers and the message in hand   *)
(* alone.                                                                  *)
LEMMA TableFrame ==
  ASSUME [Next]_vars
  PROVE  \/ \E c \in Call : Handler(c) \/ Abandon(c)
         \/ Drain
         \/ UNCHANGED <<muxVars, handlerVars, waiters, drainVars>>
<1>1. CASE Forward \/ WriteStdin
  BY <1>1 DEF Forward, WriteStdin
<1>2. CASE ChildExit \/ \E n \in seen : ChildAnswer(n)
  BY <1>2 DEF ChildAnswer, ChildExit
<1>3. CASE \E v \in OtherLines : ChildWrite(v)
  BY <1>3 DEF ChildWrite
<1>4. CASE \E s \in Session :
             OpenStream(s) \/ ReadStream(s) \/ Disconnect(s) \/ Detach(s)
  BY <1>4 DEF OpenStream, ReadStream, Disconnect, Detach
<1>5. CASE UNCHANGED vars
  BY <1>5 DEF vars
<1> QED BY <1>1, <1>2, <1>3, <1>4, <1>5 DEF Next, Step

(* Mappings stay those of the calls they were made for. *)
LEMMA MappingsStep == IInv /\ [Next]_vars => MappingsInv'
<1> SUFFICES ASSUME IInv, [Next]_vars PROVE MappingsInv'
  OBVIOUS
<1>t. /\ pc \in [Call -> HandlerState] /\ outId \in [Call -> Nat]
      /\ IdsInv /\ MappingsInv
  BY DEF IInv, TypeOK
<1>1. ASSUME DOMAIN pending' \subseteq DOMAIN pending,
             \A n \in DOMAIN pending' : pending'[n] = pending[n],
             \A d \in Call : pc[d] \notin {"idle", "minted"} =>
               outId'[d] = outId[d] /\ pc'[d] \notin {"idle", "minted"}
      PROVE  MappingsInv'
  <2>1. ASSUME NEW n \in DOMAIN pending'
        PROVE  \E d \in Requests :
                 /\ outId'[d] = n /\ pc'[d] \notin {"idle", "minted"}
                 /\ pending'[n] = [session |-> d.session, id |-> d.id]
    <3>1. PICK d \in Requests :
            /\ outId[d] = n /\ pc[d] \notin {"idle", "minted"}
            /\ pending[n] = [session |-> d.session, id |-> d.id]
      BY <1>1, <1>t DEF MappingsInv
    <3> QED BY <1>1, <3>1 DEF Requests
  <2> QED BY <2>1 DEF MappingsInv
<1>2. ASSUME NEW c \in Call, Map(c) PROVE MappingsInv'
  <2>1. /\ DOMAIN pending' = DOMAIN pending \cup {outId[c]}
        /\ pending'[outId[c]] = [session |-> c.session, id |-> c.id]
        /\ \A n \in DOMAIN pending : n # outId[c] => pending'[n] = pending[n]
    BY <1>2 DEF behindVars, Map, MapCall, Remember, Insert
  <2>2. /\ outId' = outId /\ c \in Requests
        /\ \A d \in Call \ {c} : pc'[d] = pc[d]
        /\ pc'[c] \in {"mapped", "ready"}
    BY <1>2, <1>t DEF behindVars, Map, MapCall, IdsInv, Requests
  <2>3. ASSUME NEW n \in DOMAIN pending'
        PROVE  \E d \in Requests :
                 /\ outId'[d] = n /\ pc'[d] \notin {"idle", "minted"}
                 /\ pending'[n] = [session |-> d.session, id |-> d.id]
    <3>1. CASE n = outId[c]
      BY <2>1, <2>2, <3>1
    <3>2. CASE n # outId[c]
      <4>1. PICK d \in Requests :
              /\ outId[d] = n /\ pc[d] \notin {"idle", "minted"}
              /\ pending[n] = [session |-> d.session, id |-> d.id]
        BY <1>t, <2>1, <3>2 DEF MappingsInv
      <4> QED BY <2>1, <2>2, <3>2, <4>1 DEF Requests
    <3> QED BY <3>1, <3>2
  <2> QED BY <2>3 DEF MappingsInv
<1>3. ASSUME NEW c \in Call,
             Start(c) \/ Expect(c) \/ Send(c) \/ Receive(c) \/ Abandon(c)
      PROVE  MappingsInv'
  <2>1. /\ pending' = pending
        /\ \A d \in Call \ {c} : pc'[d] = pc[d] /\ outId'[d] = outId[d]
        /\ pc[c] # "idle" => outId'[c] = outId[c]
        /\ \/ pc[c] # "minted" /\ pc'[c] \notin {"idle", "minted"}
           \/ pc[c] = "idle"
    BY <1>3, <1>t DEF behindVars, Start, StartCall, Mint, Expect, ExpectCall,
                      Send, SendCall, Receive, ReceiveCall, Abandon,
                      AbandonCall, muxVars
  <2> QED BY <1>1, <1>t, <2>1
<1>4. CASE DrainSettle \/ DrainClassify
  <2>1. Classify(dmsg) /\ UNCHANGED <<pc, outId>>
    BY <1>4 DEF DrainSettle, DrainClassify, handlerVars
  <2>2. /\ DOMAIN pending' \subseteq DOMAIN pending
        /\ \A n \in DOMAIN pending' : pending'[n] = pending[n]
    BY <2>1 DEF Classify, Remove, Restrict
  <2> QED BY <1>1, <2>1, <2>2
<1>5. CASE DrainRecv \/ DrainSend
  BY <1>1, <1>5 DEF DrainRecv, DrainSend, muxVars, handlerVars
<1>6. CASE UNCHANGED <<muxVars, handlerVars, waiters, drainVars>>
  BY <1>1, <1>6 DEF muxVars, handlerVars
<1> QED BY <1>2, <1>3, <1>4, <1>5, <1>6, TableFrame DEF Handler, Drain

(* A sender is under the id of its own call until a message takes it out.  *)
LEMMA WaitersStep == IInv /\ [Next]_vars => WaitersInv'
<1> SUFFICES ASSUME IInv, [Next]_vars PROVE WaitersInv'
  OBVIOUS
<1>t. /\ pc \in [Call -> HandlerState] /\ outId \in [Call -> Nat]
      /\ slot \in [Call -> {"empty", "filled", "dropped"}]
      /\ IdsInv /\ WaitersInv
  BY DEF IInv, TypeOK
(* What a step must not disturb in a call that awaits an answer. *)
<1> DEFINE Kept(d) == /\ outId'[d] = outId[d] /\ slot'[d] = slot[d]
                      /\ pc'[d] \notin {"idle", "minted", "mapped"}
<1>1. ASSUME DOMAIN waiters' \subseteq DOMAIN waiters,
             \A n \in DOMAIN waiters' : waiters'[n] = waiters[n],
             UNCHANGED <<dpc, dmsg, dwaiter>>,
             \A d \in Call : pc[d] \notin {"idle", "minted", "mapped"} =>
             Kept(d)
      PROVE  WaitersInv'
  BY <1>1, <1>t DEF WaitersInv, Awaiting
<1>2. ASSUME NEW c \in Call, Start(c) \/ Map(c) PROVE WaitersInv'
  <2>1. /\ waiters' = waiters /\ slot' = slot
        /\ pc[c] \in {"idle", "minted"}
        /\ \A d \in Call \ {c} : pc'[d] = pc[d] /\ outId'[d] = outId[d]
    BY <1>2, <1>t DEF behindVars, Start, StartCall, Map, MapCall, muxVars
  <2>2. UNCHANGED <<dpc, dmsg, dwaiter>>
    BY <1>2 DEF behindVars, Start, StartCall, Map, MapCall, drainVars
  <2> QED BY <1>1, <2>1, <2>2
<1>3. ASSUME NEW c \in Call, Expect(c) PROVE WaitersInv'
  <2>1. /\ DOMAIN waiters' = DOMAIN waiters \cup {outId[c]}
        /\ waiters'[outId[c]] = c
        /\ \A n \in DOMAIN waiters : n # outId[c] => waiters'[n] = waiters[n]
    BY <1>3 DEF behindVars, Expect, ExpectCall, Insert
  <2>2. /\ pc[c] = "mapped" /\ pc'[c] = "ready"
        /\ \A d \in Call \ {c} : pc'[d] = pc[d]
        /\ UNCHANGED <<outId, slot, dpc, dmsg, dwaiter>>
    BY <1>3, <1>t DEF behindVars, Expect, ExpectCall, drainVars
  <2>3. Waits(c) /\ slot[c] = "empty"
    BY <1>t, <2>2 DEF IdsInv
  <2>4. dpc = "settle" => dmsg.id # outId[c]
    BY <1>t, <2>2, <2>3 DEF WaitersInv, Awaiting, IdsInv, Waits
  <2>5. ASSUME NEW n \in DOMAIN waiters'
        PROVE  (waiters[n] \in Call /\ Awaiting(waiters[n], n))'
    <3>1. CASE n = outId[c]
      BY <2>1, <2>2, <2>3, <3>1 DEF Awaiting
    <3>2. CASE n # outId[c]
      BY <1>t, <2>1, <2>2, <3>2 DEF WaitersInv, Awaiting
    <3> QED BY <3>1, <3>2
  <2>6. ASSUME dpc' = "settle"
        PROVE  (/\ dwaiter \in Call /\ Awaiting(dwaiter, dmsg.id)
                /\ dmsg.id \notin DOMAIN waiters)'
    BY <1>t, <2>1, <2>2, <2>4, <2>6 DEF WaitersInv, Awaiting
  <2> QED BY <2>5, <2>6 DEF WaitersInv
<1>4. ASSUME NEW c \in Call, Send(c) \/ Receive(c) \/ Abandon(c)
      PROVE  WaitersInv'
  <2>1. /\ DOMAIN waiters' \subseteq DOMAIN waiters
        /\ \A n \in DOMAIN waiters' : waiters'[n] = waiters[n]
    BY <1>4 DEF behindVars, Send, SendCall, Receive, ReceiveCall, Abandon,
                AbandonCall, Remove, Restrict
  <2>2. /\ pc'[c] \notin {"idle", "minted", "mapped"}
        /\ \A d \in Call \ {c} : pc'[d] = pc[d]
        /\ UNCHANGED <<outId, slot, dpc, dmsg, dwaiter>>
    BY <1>4, <1>t DEF behindVars, Send, SendCall, Receive, ReceiveCall,
                      Abandon, AbandonCall, drainVars
  <2> QED BY <1>1, <2>1, <2>2
<1>5. CASE DrainRecv
  <2>1. UNCHANGED <<pc, outId, slot>>
    BY <1>5 DEF DrainRecv, handlerVars
  <2>2. CASE Head(stdoutQ).id \in DOMAIN waiters
    <3>1. /\ dmsg' = Head(stdoutQ) /\ dpc' = "settle"
          /\ dwaiter' = waiters[dmsg'.id]
          /\ DOMAIN waiters' = DOMAIN waiters \ {dmsg'.id}
          /\ \A n \in DOMAIN waiters' : waiters'[n] = waiters[n]
      BY <1>5, <2>2 DEF DrainRecv, Remove, Restrict
    <3> QED BY <1>t, <2>1, <2>2, <3>1 DEF WaitersInv, Awaiting
  <2>3. CASE Head(stdoutQ).id \notin DOMAIN waiters
    <3>1. dpc' = "classify" /\ waiters' = waiters
      BY <1>5, <2>3 DEF DrainRecv
    <3> QED BY <1>t, <2>1, <3>1 DEF WaitersInv, Awaiting
  <2> QED BY <2>2, <2>3
<1>6. CASE DrainSettle \/ DrainClassify \/ DrainSend
  <2>1. UNCHANGED <<pc, outId, waiters>> /\ dpc' \in {"recv", "send"}
    BY <1>6 DEF DrainSettle, DrainClassify, DrainSend, DrainNext, handlerVars
  <2>2. \A n \in DOMAIN waiters : slot'[waiters[n]] = slot[waiters[n]]
    BY <1>6, <1>t DEF DrainSettle, DrainClassify, DrainSend, WaitersInv,
       Awaiting, handlerVars
  <2> QED BY <1>t, <2>1, <2>2 DEF WaitersInv, Awaiting
<1>7. CASE UNCHANGED <<muxVars, handlerVars, waiters, drainVars>>
  BY <1>7, <1>t DEF WaitersInv, Awaiting, handlerVars, drainVars
<1> QED BY <1>2, <1>3, <1>4, <1>5, <1>6, <1>7, TableFrame
        DEF Handler, Drain

-----------------------------------------------------------------------------
(* The drain task, the callers, and types.                                 *)

(* The answer on its way to a stream is out of the mux for good.           *)
LEMMA DrainStep == IInv /\ [Next]_vars => DrainInv'
<1> SUFFICES ASSUME IInv, [Next]_vars PROVE DrainInv'
  OBVIOUS
<1>t. /\ pc \in [Call -> HandlerState] /\ outId \in [Call -> Nat]
      /\ IdsInv /\ MappingsInv /\ DrainInv
  BY DEF IInv, TypeOK
<1>1. ASSUME NEW c \in Call, Start(c) PROVE DrainInv'
  <2>1. /\ UNCHANGED <<pending, dpc, dmsg, dreply, dtargets, dto>>
        /\ \A d \in Call : pc[d] \notin {"idle", "minted"} =>
             outId'[d] = outId[d] /\ pc'[d] = pc[d]
    BY <1>1, <1>t DEF behindVars, Start, StartCall, Mint, muxVars, drainVars
  <2> QED BY <1>t, <2>1 DEF DrainInv, Requests
<1>2. ASSUME NEW c \in Call, Map(c) PROVE DrainInv'
  <2>1. /\ UNCHANGED <<outId, dpc, dmsg, dreply, dtargets, dto>>
        /\ DOMAIN pending' = DOMAIN pending \cup {outId[c]}
        /\ pc[c] = "minted" /\ outId[c] # 0
        /\ \A d \in Call \ {c} : pc'[d] = pc[d]
    BY <1>2, <1>t DEF behindVars, Map, MapCall, Remember, Insert, drainVars,
                      IdsInv
  <2>2. \A d \in Requests : pc[d] \notin {"idle", "minted"} =>
          outId[d] # outId[c] /\ pc'[d] \notin {"idle", "minted"}
    BY <1>t, <2>1 DEF IdsInv, Requests
  <2> QED BY <1>t, <2>1, <2>2 DEF DrainInv
<1>3. ASSUME NEW c \in Call,
             Expect(c) \/ Send(c) \/ Receive(c) \/ Abandon(c)
      PROVE  DrainInv'
  <2>1. /\ UNCHANGED <<outId, pending, dpc, dmsg, dreply, dtargets, dto>>
        /\ \A d \in Call : pc[d] \notin {"idle", "minted"} =>
             pc'[d] \notin {"idle", "minted"}
    BY <1>3, <1>t DEF behindVars, Expect, ExpectCall, Send, SendCall, Receive,
                      ReceiveCall, Abandon, AbandonCall, muxVars, drainVars
  <2> QED BY <1>t, <2>1 DEF DrainInv, Requests
<1>4. CASE DrainRecv
  BY <1>4 DEF DrainRecv, DrainInv
<1>5. CASE DrainSettle
  BY <1>5 DEF DrainSettle, DrainNext, DrainInv
<1>6. CASE DrainClassify
  <2>1. CASE dpc' = "recv"
    BY <1>6, <2>1 DEF DrainClassify, DrainNext, DrainInv
  <2>2. CASE dpc' # "recv"
    <3>1. /\ Classify(dmsg) /\ UNCHANGED <<dmsg, outId, pc>>
          /\ dto' \in dtargets'
      BY <1>6, <2>2 DEF DrainClassify, DrainNext, handlerVars
    <3>2. ASSUME ~dmsg.method
          PROVE  /\ Class(dmsg) = "RoutedResponse"
                 /\ dreply' = pending[dmsg.id]
                 /\ dtargets' = {pending[dmsg.id].session} \cap registered
                 /\ dtargets' # {}
      BY <1>6, <2>2, <3>2 DEF DrainClassify, DrainNext, Class
    <3>3. ASSUME ~dmsg.method
          PROVE  /\ dmsg.id \in DOMAIN pending
                 /\ dmsg.id \notin DOMAIN pending'
      BY <3>1, <3>2, <3>3 DEF Class, Classify, Remove, Restrict
    <3>4. ASSUME ~dmsg.method
          PROVE  \E c \in Requests :
                   /\ outId'[c] = dmsg'.id
                   /\ pc'[c] \notin {"idle", "minted"}
                   /\ dreply' = [session |-> c.session, id |-> c.id]
                   /\ dtargets' = {c.session}
      <4>1. PICK c \in Requests :
              /\ outId[c] = dmsg.id /\ pc[c] \notin {"idle", "minted"}
              /\ pending[dmsg.id] = [session |-> c.session, id |-> c.id]
        BY <1>t, <3>3, <3>4, ZenonT(60) DEF MappingsInv
      <4>2. dtargets' = {c.session}
        BY <3>2, <3>4, <4>1
      <4> QED BY <3>1, <3>2, <3>4, <4>1, <4>2
    <3> QED BY <2>2, <3>1, <3>3, <3>4 DEF DrainInv
  <2> QED BY <2>1, <2>2
<1>7. CASE DrainSend
  <2>1. CASE dtargets \ {dto} = {}
    BY <1>7, <2>1 DEF DrainSend, DrainNext, DrainInv
  <2>2. CASE dtargets \ {dto} # {}
    <3>1. /\ UNCHANGED <<dpc, dmsg, pending, outId>>
          /\ dto' \in dtargets' /\ dpc = "send"
      BY <1>7, <2>2 DEF DrainSend, muxVars, handlerVars
    <3>2. dmsg.method
      BY <1>t, <2>2, <3>1 DEF DrainInv
    <3> QED BY <3>1, <3>2 DEF DrainInv
  <2> QED BY <2>1, <2>2
<1>8. CASE UNCHANGED <<muxVars, handlerVars, waiters, drainVars>>
  BY <1>8, <1>t DEF DrainInv, muxVars, handlerVars, drainVars
<1> QED BY <1>1, <1>2, <1>3, <1>4, <1>5, <1>6, <1>7, <1>8, TableFrame
        DEF Handler, Drain

(* A sender stays reachable until its answer comes, and goes when its call *)
(* is over.                                                                *)
LEMMA CallersStep ==
  IInv /\ [Next]_vars => NoCallerForgotten' /\ FinishedLeaveNoSender'
<1> SUFFICES ASSUME IInv, [Next]_vars
             PROVE  NoCallerForgotten' /\ FinishedLeaveNoSender'
  OBVIOUS
<1>t. /\ pc \in [Call -> HandlerState] /\ outId \in [Call -> Nat]
      /\ slot \in [Call -> {"empty", "filled", "dropped"}]
      /\ IdsInv /\ WaitersInv /\ NoCallerForgotten /\ FinishedLeaveNoSender
  BY DEF IInv, TypeOK
<1> USE DEF NoCallerForgotten, FinishedLeaveNoSender
<1>1. ASSUME NEW c \in Call, Start(c) \/ Map(c)
      PROVE  NoCallerForgotten' /\ FinishedLeaveNoSender'
  <2>1. /\ UNCHANGED <<waiters, slot, dpc, dwaiter>>
        /\ \A d \in Call \ {c} : pc'[d] = pc[d] /\ outId'[d] = outId[d]
        /\ pc[c] \in {"idle", "minted"}
        /\ Waits(c) => pc'[c] \in {"minted", "mapped"}
    BY <1>1, <1>t DEF behindVars, Start, StartCall, Map, MapCall, drainVars,
                      Waits
  <2>2. \A n \in DOMAIN waiters : waiters[n] \in Call /\ waiters[n] # c
    BY <1>t, <2>1 DEF WaitersInv, Awaiting
  <2> QED BY <1>t, <2>1, <2>2
<1>2. ASSUME NEW c \in Call, Expect(c)
      PROVE  NoCallerForgotten' /\ FinishedLeaveNoSender'
  <2>1. /\ DOMAIN waiters' = DOMAIN waiters \cup {outId[c]}
        /\ waiters'[outId[c]] = c
        /\ \A n \in DOMAIN waiters : n # outId[c] => waiters'[n] = waiters[n]
    BY <1>2 DEF behindVars, Expect, ExpectCall, Insert
  <2>2. /\ pc[c] = "mapped" /\ pc'[c] = "ready"
        /\ \A d \in Call \ {c} : pc'[d] = pc[d]
        /\ UNCHANGED <<outId, slot, dpc, dwaiter>>
    BY <1>2, <1>t DEF behindVars, Expect, ExpectCall, drainVars
  <2>3. \A d \in Call \ {c} : outId[d] # outId[c] \/ ~Waits(d)
    BY <1>t, <2>2 DEF IdsInv, Waits
  <2>4. \A n \in DOMAIN waiters : waiters[n] \in Call
    BY <1>t DEF WaitersInv
  <2> QED BY <1>t, <2>1, <2>2, <2>3, <2>4
<1>3. ASSUME NEW c \in Call, Send(c) \/ Receive(c) \/ Abandon(c)
      PROVE  NoCallerForgotten' /\ FinishedLeaveNoSender'
  <2>1. /\ UNCHANGED <<outId, slot, dpc, dwaiter>>
        /\ \A d \in Call \ {c} : pc'[d] = pc[d]
    BY <1>3, <1>t DEF behindVars, Send, SendCall, Receive, ReceiveCall,
                      Abandon, AbandonCall, drainVars
  <2>2. CASE waiters' = waiters /\ pc'[c] \in {"waiting", "gone"}
    BY <1>3, <1>t, <2>1, <2>2 DEF behindVars, Send, SendCall, Receive,
                                  ReceiveCall, Abandon, AbandonCall,
                                  WaitersInv, Awaiting
  <2>3. CASE pc'[c] \in {"done", "failed"}
    <3>1. /\ DOMAIN waiters' \subseteq DOMAIN waiters
          /\ \A n \in DOMAIN waiters' : waiters'[n] = waiters[n]
          /\ DOMAIN waiters \ DOMAIN waiters' \subseteq {outId[c]}
      BY <1>3 DEF behindVars, Send, SendCall, Receive, ReceiveCall, Abandon,
                  AbandonCall, Remove, Restrict
    <3>2. \A n \in DOMAIN waiters' : waiters'[n] # c
      BY <1>3, <1>t, <2>3
         DEF behindVars, Send, SendCall, Receive, ReceiveCall, Abandon,
             AbandonCall, WaitersInv, Awaiting, Remove, Restrict
    <3>3. \A d \in Call \ {c} :
            outId[d] = outId[c] /\ Waits(d)
            => pc[d] \notin {"ready", "waiting"}
      BY <1>t DEF IdsInv, Waits
    <3>4. \A n \in DOMAIN waiters : waiters[n] \in Call
      BY <1>t DEF WaitersInv
    <3> QED BY <1>t, <2>1, <2>3, <3>1, <3>2, <3>3, <3>4
  <2> QED BY <1>3, <1>t, <2>2, <2>3 DEF behindVars, Send, SendCall, Receive,
                                        ReceiveCall, Abandon, AbandonCall
<1>4. CASE DrainRecv
  <2>1. UNCHANGED <<pc, outId, slot>> /\ dpc = "recv"
    BY <1>4 DEF DrainRecv, handlerVars
  <2>2. CASE Head(stdoutQ).id \in DOMAIN waiters
    <3>1. /\ dpc' = "settle" /\ dwaiter' = waiters[Head(stdoutQ).id]
          /\ DOMAIN waiters' = DOMAIN waiters \ {Head(stdoutQ).id}
          /\ \A n \in DOMAIN waiters' : waiters'[n] = waiters[n]
      BY <1>4, <2>2 DEF DrainRecv, Remove, Restrict
    <3> QED BY <1>t, <2>1, <3>1
  <2>3. CASE Head(stdoutQ).id \notin DOMAIN waiters
    BY <1>4, <1>t, <2>1, <2>3 DEF DrainRecv
  <2> QED BY <2>2, <2>3
<1>5. CASE DrainSettle
  <2>1. /\ UNCHANGED <<pc, outId, waiters>> /\ dwaiter \in Call
        /\ slot'[dwaiter] # "empty"
        /\ \A d \in Call \ {dwaiter} : slot'[d] = slot[d]
    BY <1>5, <1>t DEF DrainSettle, WaitersInv
  <2> QED BY <1>t, <2>1
<1>6. CASE DrainClassify \/ DrainSend
  BY <1>6, <1>t DEF DrainClassify, DrainSend, handlerVars
<1>7. CASE UNCHANGED <<muxVars, handlerVars, waiters, drainVars>>
  BY <1>7, <1>t DEF handlerVars, drainVars
<1> QED BY <1>1, <1>2, <1>3, <1>4, <1>5, <1>6, <1>7, TableFrame
        DEF Handler, Drain

(* A mapping names a session and an id that some call has. *)
LEMMA MappingType ==
  ASSUME MappingsInv, NEW n \in DOMAIN pending
  PROVE  pending[n] \in [session : Session, id : Id]
<1>1. PICK c \in Requests :
        pending[n] = [session |-> c.session, id |-> c.id]
  BY DEF MappingsInv
<1>2. c.session \in Session /\ c.id \in Id
  BY CallAssumption DEF Requests, Id
<1> QED BY <1>1, <1>2

(* Every variable keeps its type. *)
LEMMA TypeStep == IInv /\ [Next]_vars => TypeOK'
<1> SUFFICES ASSUME IInv, [Next]_vars PROVE TypeOK'
  OBVIOUS
<1>t. TypeOK /\ IdsInv /\ MappingsInv /\ WaitersInv /\ DrainInv
  BY DEF IInv
<1> USE <1>t DEF TypeOK
<1>1. ASSUME NEW c \in Call, Start(c) PROVE TypeOK'
  <2>1. /\ next' \in Nat \ {0} /\ pending' = pending
        /\ outId' \in [Call -> Nat]
    <3>1. CASE IsRequest(c)
      <4>1. /\ next' = next + 1 /\ pending' = pending
            /\ outId' = [outId EXCEPT ![c] = next]
        BY <1>1, <3>1 DEF behindVars, Start, StartCall, Mint
      <4> QED BY <4>1
    <3>2. CASE ~IsRequest(c)
      BY <1>1, <3>2 DEF behindVars, Start, StartCall, muxVars
    <3> QED BY <3>1, <3>2
  <2>2. pc' \in [Call -> HandlerState]
    BY <1>1 DEF behindVars, Start, StartCall, HandlerState
  <2> QED BY <1>1, <2>1, <2>2
          DEF behindVars, Start, StartCall, inVars, childVars, drainVars,
              sessionVars
<1>2. ASSUME NEW c \in Call, Map(c) PROVE TypeOK'
  <2>1. outId[c] \in Nat \ {0}
    BY <1>2 DEF behindVars, Map, MapCall, IdsInv
  <2>2. DOMAIN pending' = DOMAIN pending \cup {outId[c]}
    BY <1>2 DEF behindVars, Map, MapCall, Remember, Insert
  <2> QED BY <1>2, <2>1, <2>2
          DEF behindVars, Map, MapCall, Remember, HandlerState, inVars,
              childVars, drainVars,
              sessionVars
<1>3. ASSUME NEW c \in Call, Expect(c) PROVE TypeOK'
  <2>1. outId[c] \in Nat \ {0}
    BY <1>3 DEF behindVars, Expect, ExpectCall, IdsInv, Waits
  <2>2. /\ DOMAIN waiters' = DOMAIN waiters \cup {outId[c]}
        /\ \A n \in DOMAIN waiters' : waiters'[n] \in Call
    BY <1>3 DEF behindVars, Expect, ExpectCall, Insert
  <2> QED BY <1>3, <2>1, <2>2
          DEF behindVars, Expect, ExpectCall, HandlerState, muxVars, inVars,
              childVars, drainVars,
              sessionVars
<1>4. ASSUME NEW c \in Call, Send(c) PROVE TypeOK'
  <2>1. inQ' \in Seq(Nat)
    <3>1. Append(inQ, outId[c]) \in Seq(Nat)
      BY PutFacts
    <3> QED BY <1>4, <3>1 DEF behindVars, Send, SendCall, Line
  <2>2. /\ DOMAIN waiters' \subseteq DOMAIN waiters
        /\ \A n \in DOMAIN waiters' : waiters'[n] = waiters[n]
    BY <1>4 DEF behindVars, Send, SendCall, Remove, Restrict
  <2>3. pc' \in [Call -> HandlerState]
    BY <1>4 DEF behindVars, Send, SendCall, HandlerState
  <2> QED BY <1>4, <2>1, <2>2, <2>3
          DEF behindVars, Send, SendCall, muxVars, inVars, childVars,
              drainVars, sessionVars
<1>5. ASSUME NEW c \in Call, Receive(c) \/ Abandon(c) PROVE TypeOK'
  BY <1>5 DEF behindVars, Receive, ReceiveCall, Abandon, AbandonCall,
              HandlerState, muxVars, inVars, childVars,
     drainVars, sessionVars
<1>6. CASE Forward
  <2>1. inQ' \in Seq(Nat) /\ stdinQ' \in Seq(Nat) /\ forwardUp' \in BOOLEAN
    <3>1. inQ \in Seq(Nat) /\ inQ # <<>> /\ stdinQ \in Seq(Nat)
      BY <1>6 DEF Forward
    <3>2. Head(inQ) \in Nat /\ Tail(inQ) \in Seq(Nat)
      BY <3>1, TakeFacts
    <3>3. Append(stdinQ, Head(inQ)) \in Seq(Nat)
      BY <3>1, <3>2, PutFacts
    <3>4. <<>> \in Seq(Nat)
      OBVIOUS
    <3>5. CASE writerUp
      BY <1>6, <3>2, <3>3, <3>5 DEF Forward
    <3>6. CASE ~writerUp
      BY <1>6, <3>4, <3>6 DEF Forward
    <3> QED BY <3>5, <3>6
  <2> QED BY <1>6, <2>1
          DEF Forward, muxVars, handlerVars, childVars, drainVars, sessionVars
<1>7. CASE WriteStdin
  <2>1. stdinQ' \in Seq(Nat) /\ seen' \subseteq Nat \ {0} /\ seen \subseteq
  seen'
    <3>1. stdinQ \in Seq(Nat) /\ stdinQ # <<>>
      BY <1>7 DEF WriteStdin
    <3>2. Head(stdinQ) \in Nat /\ Tail(stdinQ) \in Seq(Nat)
      BY <3>1, TakeFacts
    <3>3. <<>> \in Seq(Nat)
      OBVIOUS
    <3>4. CASE childUp
      BY <1>7, <3>2, <3>4 DEF WriteStdin
    <3>5. CASE ~childUp
      BY <1>7, <3>3, <3>5 DEF WriteStdin
    <3> QED BY <3>4, <3>5
  <2> QED BY <1>7, <2>1
          DEF WriteStdin, muxVars, handlerVars, drainVars, sessionVars
<1>8. ASSUME NEW n \in seen, ChildAnswer(n) PROVE TypeOK'
  <2>1. Response(n) \in Message
    BY DEF Response, Message
  <2>2. stdoutQ' \in Seq(Message)
    BY <1>8, <2>1, PutFacts DEF ChildAnswer
  <2> QED BY <1>8, <2>2
          DEF ChildAnswer, muxVars, handlerVars, inVars, drainVars, sessionVars
<1>9. ASSUME NEW v \in OtherLines, ChildWrite(v) PROVE TypeOK'
  <2>1. v \in Message
    BY OtherLinesFacts
  <2>2. stdoutQ' \in Seq(Message)
    BY <1>9, <2>1, PutFacts DEF ChildWrite
  <2>3. written' \in 0 .. MaxLines
    BY <1>9, CapAssumption, BoundsAssumption DEF ChildWrite
  <2> QED BY <1>9, <2>2, <2>3
          DEF ChildWrite, muxVars, handlerVars, inVars, drainVars, sessionVars
<1>10. CASE ChildExit
  BY <1>10
     DEF ChildExit, muxVars, handlerVars, inVars, drainVars, sessionVars
<1>11. CASE DrainRecv
  <2>1. stdoutQ' \in Seq(Message) /\ dmsg' \in Message
    <3>1. stdoutQ \in Seq(Message) /\ stdoutQ # <<>>
      BY <1>11 DEF DrainRecv
    <3> QED BY <1>11, <3>1, TakeFacts DEF DrainRecv
  <2>2. /\ DOMAIN waiters' \subseteq DOMAIN waiters
        /\ \A n \in DOMAIN waiters' : waiters'[n] = waiters[n]
        /\ dwaiter' \in Call \cup {NoCall}
        /\ dpc' \in {"settle", "classify"}
    BY <1>11 DEF DrainRecv, Remove, Restrict
  <2>3. owed' \subseteq Session
    BY <1>11 DEF DrainRecv, Attached
  <2> QED BY <1>11, <2>1, <2>2, <2>3
          DEF DrainRecv, muxVars, handlerVars, inVars, childVars, sessionVars
<1>12. ASSUME DrainNext
       PROVE  /\ dpc' \in {"recv", "settle", "classify", "send"}
              /\ dmsg' \in Message /\ dwaiter' \in Call \cup {NoCall}
              /\ dreply' \in [session : Session, id : Id] \cup {NoReply}
              /\ dtargets' \subseteq Session
              /\ dto' \in dtargets' \cup {NoSession}
  BY <1>12 DEF DrainNext, Noise, Message
<1>13. ASSUME NEW m, m.session \in Session, m.id \in Id
       PROVE  Reply(m) \in [Session -> [Id -> Nat]]
  BY <1>13 DEF Reply
<1>14. CASE DrainSettle
  <2>1. DOMAIN pending' \subseteq DOMAIN pending /\ next' = next
    BY <1>14 DEF DrainSettle, Classify, Remove, Restrict
  <2>2. got' \in [Session -> [Id -> Nat]]
    <3>1. CASE Class(dmsg) = "RoutedResponse"
      <4>1. dwaiter.session \in Session /\ dwaiter.id \in Id
        BY <1>14, CallAssumption DEF DrainSettle, WaitersInv, Id
      <4>2. Reply(dwaiter) \in [Session -> [Id -> Nat]]
        BY <4>1, <1>13
      <4> QED BY <1>14, <4>2 DEF DrainSettle
    <3>2. CASE Class(dmsg) # "RoutedResponse"
      BY <1>14, <3>2 DEF DrainSettle
    <3> QED BY <3>1, <3>2
  <2>3. slot' \in [Call -> {"empty", "filled", "dropped"}]
    BY <1>14 DEF DrainSettle
  <2>4. DrainNext
    BY <1>14 DEF DrainSettle
  <2> QED BY <1>12, <1>14, <2>1, <2>2, <2>3, <2>4
          DEF DrainSettle, inVars, childVars, sessionVars
<1>15. CASE DrainClassify
  <2>1. DOMAIN pending' \subseteq DOMAIN pending /\ next' = next
    BY <1>15 DEF DrainClassify, Classify, Remove, Restrict
  <2>2. CASE DrainNext
    BY <1>12, <1>15, <2>1, <2>2
       DEF DrainClassify, handlerVars, inVars, childVars, sessionVars
  <2>3. CASE ~DrainNext
    <3>1. /\ dpc' = "send" /\ UNCHANGED <<dmsg, dwaiter>>
          /\ dto' \in dtargets' /\ dtargets' \subseteq registered
      BY <1>15, <2>3 DEF DrainClassify, Class
    <3>2. dreply' \in [session : Session, id : Id] \cup {NoReply}
      <4>1. CASE dmsg.method
        BY <1>15, <2>3, <4>1 DEF DrainClassify
      <4>2. CASE ~dmsg.method
        <5>1. dmsg.id \in DOMAIN pending /\ dreply' = pending[dmsg.id]
          BY <1>15, <2>3, <4>2 DEF DrainClassify, Class
        <5> QED BY <5>1, MappingType
      <4> QED BY <4>1, <4>2
    <3> QED BY <1>15, <2>1, <3>1, <3>2
            DEF DrainClassify, handlerVars, inVars, childVars, sessionVars
  <2> QED BY <2>2, <2>3
<1>16. CASE DrainSend
  <2>1. dto \in Session
    BY <1>16 DEF DrainSend, DrainInv
  <2>2. outbox' \in [Session -> Nat]
    <3>1. [outbox EXCEPT ![dto] = @ + 1] \in [Session -> Nat]
      BY <2>1
    <3> QED BY <1>16, <3>1 DEF DrainSend
  <2>3. got' \in [Session -> [Id -> Nat]]
    <3>1. CASE dmsg.method \/ stream[dto] # "open"
      BY <1>16, <3>1 DEF DrainSend
    <3>2. CASE ~dmsg.method /\ stream[dto] = "open"
      <4>1. PICK c \in Requests : dreply = [session |-> c.session, id |-> c.id]
        BY <1>16, <3>2 DEF DrainSend, DrainInv
      <4>2. c.session \in Session /\ c.id \in Id
        BY CallAssumption DEF Requests, Id
      <4>3. Reply(dreply) \in [Session -> [Id -> Nat]]
        BY <4>1, <4>2, <1>13
      <4> QED BY <1>16, <3>2, <4>3 DEF DrainSend
    <3> QED BY <3>1, <3>2
  <2>4. CASE DrainNext
    BY <1>12, <1>16, <2>2, <2>3, <2>4
       DEF DrainSend, muxVars, handlerVars, inVars, childVars
  <2>5. CASE ~DrainNext
    <3>1. /\ UNCHANGED <<dpc, dmsg, dwaiter, dreply>>
          /\ dtargets' \subseteq dtargets /\ dto' \in dtargets'
      BY <1>16, <2>5 DEF DrainSend
    <3> QED BY <1>16, <2>2, <2>3, <3>1
            DEF DrainSend, muxVars, handlerVars, inVars, childVars
  <2> QED BY <2>4, <2>5
<1>17. ASSUME NEW s \in Session,
              OpenStream(s) \/ ReadStream(s) \/ Disconnect(s) \/ Detach(s)
       PROVE  TypeOK'
  <2>1. /\ registered' \subseteq Session
        /\ stream' \in [Session -> {"none", "open", "gone"}]
        /\ owed' \subseteq Session
    BY <1>17 DEF OpenStream, ReadStream, Disconnect, Detach
  <2>2. outbox' \in [Session -> Nat]
    <3>1. outbox[s] > 0 => [outbox EXCEPT ![s] = @ - 1] \in [Session -> Nat]
      OBVIOUS
    <3>2. [outbox EXCEPT ![s] = 0] \in [Session -> Nat]
      OBVIOUS
    <3> QED BY <1>17, <3>1, <3>2
            DEF OpenStream, ReadStream, Disconnect, Detach
  <2>3. /\ UNCHANGED <<muxVars, handlerVars, waiters, inVars, childVars>>
        /\ UNCHANGED <<stdoutQ, drainVars, got>>
    BY <1>17 DEF OpenStream, ReadStream, Disconnect, Detach
  <2> QED BY <2>1, <2>2, <2>3
          DEF muxVars, handlerVars, inVars, childVars, drainVars
<1>18. CASE UNCHANGED vars
  BY <1>18 DEF vars, muxVars, handlerVars, inVars, childVars, drainVars,
     sessionVars
<1> QED BY <1>1, <1>2, <1>3, <1>4, <1>5, <1>6, <1>7, <1>8, <1>9, <1>10, <1>11,
           <1>14, <1>15, <1>16, <1>17, <1>18
        DEF Next, Step, Handler, Drain

-----------------------------------------------------------------------------
(* The theorems.                                                           *)

(* The parts together: the invariant is inductive. *)
LEMMA Inductive == IInv /\ [Next]_vars => IInv'
BY TypeStep, IdsStep, SentStep, MappingsStep, WaitersStep, DrainStep, CallersStep
   DEF IInv

(* The inductive invariant holds in every reachable state, for every set   *)
(* of calls and sessions and every capacity.                               *)
THEOREM InvariantHolds == Spec => []IInv
BY InitIInv, Inductive, PTL DEF Spec

(* Type correctness of the stdio proxy's state.                            *)
THEOREM TypeCorrect == Spec => []TypeOK
<1>1. IInv => TypeOK
  BY DEF IInv
<1> QED BY <1>1, InvariantHolds, PTL

(* A handler waiting in rx.await can always be woken by its answer: nobody *)
(* but the drain task ever takes its sender out of pending_requests.       *)
THEOREM CallersAreNotForgotten == Spec => []NoCallerForgotten
<1>1. IInv => NoCallerForgotten
  BY DEF IInv
<1> QED BY <1>1, InvariantHolds, PTL

(* No sender in pending_requests outlives its call: a handler that is told *)
(* its request failed has taken its sender back.                           *)
THEOREM FinishedCallsLeaveNothing == Spec => []FinishedLeaveNoSender
<1>1. IInv => FinishedLeaveNoSender
  BY DEF IInv
<1> QED BY <1>1, InvariantHolds, PTL

-----------------------------------------------------------------------------
(* A child that answers only what it was sent.                             *)

(* An answer in hand is to a call whose line was sent, so it belongs to no *)
(* call that is still on its way through the tables.                       *)
LEMMA InHandIsSent ==
  ASSUME Forged = {}, IInv, ~dmsg.method, NEW c \in Call, pc[c] \notin Past
  PROVE  dmsg.id # outId[c]
<1> SUFFICES ASSUME dmsg.id = outId[c] PROVE FALSE
  OBVIOUS
<1>t. outId \in [Call -> Nat] /\ seen \subseteq Nat \ {0}
  BY DEF IInv, TypeOK
<1>1. outId[c] \in seen
  BY <1>t DEF IInv, SentInv, NoId
<1>2. PICK d \in Call : outId[d] = outId[c] /\ pc[d] \in Past
  BY <1>1 DEF IInv, SentInv, SentIds
<1> QED BY <1>t, <1>1, <1>2 DEF IInv, IdsInv

(* A mapping leaves the mux after its call's sender, or with it.           *)
LEMMA HonestStep ==
  ASSUME Forged = {}
  PROVE  IInv /\ HonestInv /\ [Next]_vars => HonestInv'
<1> SUFFICES ASSUME IInv, HonestInv, [Next]_vars PROVE HonestInv'
  OBVIOUS
<1>t. /\ pc \in [Call -> HandlerState] /\ outId \in [Call -> Nat]
      /\ DOMAIN waiters \subseteq Nat \ {0}
      /\ IdsInv /\ WaitersInv /\ DrainInv
  BY DEF IInv, TypeOK
<1>m. MappingsInv'
  BY MappingsStep
<1>1. ASSUME DOMAIN waiters' \subseteq DOMAIN waiters,
             DOMAIN pending \subseteq DOMAIN pending',
             UNCHANGED <<dpc, dmsg>>,
             \A d \in Call : pc'[d] = "mapped" => outId'[d] \in DOMAIN pending'
      PROVE  HonestInv'
  BY <1>1, <1>m DEF HonestInv, PendingInv
<1>2. ASSUME NEW c \in Call, Start(c) \/ Map(c) PROVE HonestInv'
  <2>1. /\ DOMAIN pending \subseteq DOMAIN pending'
        /\ UNCHANGED <<waiters, dpc, dmsg>>
        /\ \A d \in Call \ {c} : pc'[d] = pc[d] /\ outId'[d] = outId[d]
        /\ pc'[c] = "mapped" => outId'[c] \in DOMAIN pending'
    BY <1>2, <1>t DEF behindVars, Start, StartCall, Mint, Map, MapCall, Remember,
       Insert, muxVars, drainVars
  <2> QED BY <1>1, <2>1 DEF HonestInv, PendingInv
<1>3. ASSUME NEW c \in Call, Expect(c) PROVE HonestInv'
  <2>1. /\ DOMAIN waiters' = DOMAIN waiters \cup {outId[c]}
        /\ UNCHANGED <<outId, pending, dpc, dmsg>>
        /\ pc[c] = "mapped" /\ pc'[c] = "ready"
        /\ \A d \in Call \ {c} : pc'[d] = pc[d]
    BY <1>3, <1>t DEF behindVars, Expect, ExpectCall, Insert, muxVars, drainVars
  <2>2. outId[c] \in DOMAIN pending
    BY <2>1 DEF HonestInv, PendingInv
  <2>3. ~dmsg.method => dmsg.id # outId[c]
    BY <2>1, InHandIsSent DEF Past
  <2>4. \A d \in Call : pc'[d] = "mapped" => outId'[d] \in DOMAIN pending'
    BY <2>1 DEF HonestInv, PendingInv
  <2> QED BY <1>m, <2>1, <2>2, <2>3, <2>4 DEF HonestInv, PendingInv
<1>4. ASSUME NEW c \in Call, Send(c) \/ Receive(c) \/ Abandon(c)
      PROVE  HonestInv'
  <2>1. /\ DOMAIN waiters' \subseteq DOMAIN waiters
        /\ UNCHANGED <<outId, pending, dpc, dmsg>>
        /\ \A d \in Call : pc'[d] = "mapped" => pc[d] = "mapped"
    BY <1>4, <1>t DEF behindVars, Send, SendCall, Receive, ReceiveCall, Abandon,
       AbandonCall, Remove, Restrict, muxVars, drainVars
  <2> QED BY <1>1, <2>1 DEF HonestInv, PendingInv
<1>5. CASE DrainRecv
  <2>1. UNCHANGED <<pending, pc, outId>>
    BY <1>5 DEF DrainRecv, muxVars, handlerVars
  <2>2. /\ DOMAIN waiters' \subseteq DOMAIN waiters
        /\ dpc' = "settle" => dmsg'.id \in DOMAIN waiters
        /\ dpc' = "classify" => dmsg'.id \notin DOMAIN waiters'
    BY <1>5 DEF DrainRecv, Remove, Restrict
  <2> QED BY <1>m, <2>1, <2>2 DEF HonestInv, PendingInv
<1>6. CASE DrainSettle \/ DrainClassify
  <2>1. Classify(dmsg) /\ UNCHANGED <<pc, outId, waiters>>
    BY <1>6 DEF DrainSettle, DrainClassify, handlerVars
  <2>2. \A n \in DOMAIN pending \ DOMAIN pending' :
          ~dmsg.method /\ n = dmsg.id
    BY <2>1 DEF Classify, Remove, Restrict
  <2>3. dpc' \in {"recv", "send"}
    BY <1>6 DEF DrainSettle, DrainClassify, DrainNext
  <2>4. ~dmsg.method => dmsg.id \notin DOMAIN waiters
    BY <1>6, <1>t DEF DrainSettle, DrainClassify, WaitersInv, HonestInv
  <2>5. ASSUME NEW d \in Call, pc'[d] = "mapped"
        PROVE  outId'[d] \in DOMAIN pending'
    BY <2>1, <2>2, <2>5, InHandIsSent DEF HonestInv, PendingInv, Past
  <2> QED BY <1>m, <2>1, <2>2, <2>3, <2>4, <2>5 DEF HonestInv, PendingInv
<1>7. CASE DrainSend
  <2>1. dpc' \in {"recv", "send"} /\ UNCHANGED <<pc, outId, pending, waiters>>
    BY <1>7 DEF DrainSend, DrainNext, muxVars, handlerVars
  <2> QED BY <1>m, <2>1 DEF HonestInv, PendingInv
<1>8. CASE UNCHANGED <<muxVars, handlerVars, waiters, drainVars>>
  BY <1>1, <1>8 DEF muxVars, handlerVars, drainVars, HonestInv, PendingInv
<1> QED BY <1>2, <1>3, <1>4, <1>5, <1>6, <1>7, <1>8, TableFrame
        DEF Handler, Drain

(* What follows holds of a child that answers only what it was sent. *)
LEMMA HonestHolds ==
  ASSUME Forged = {}
  PROVE  Spec => [](IInv /\ HonestInv)
<1>1. Init => HonestInv
  <2>1. Init => MappingsInv
    BY InitIInv DEF IInv
  <2> QED BY <2>1 DEF Init, CallersInit, HonestInv, PendingInv, EmptyTable
<1> QED BY <1>1, InvariantHolds, HonestStep, PTL DEF Spec

(* With such a child the two tables stay together: every sender in         *)
(* pending_requests has its mapping in the mux, and it is its own call's.  *)
THEOREM TablesStayTogether ==
  ASSUME Forged = {}
  PROVE  Spec => []TablesAgree
<1>1. IInv /\ HonestInv => TablesAgree
  <2> SUFFICES ASSUME IInv, HonestInv, NEW n \in DOMAIN waiters
               PROVE  /\ n \in DOMAIN pending
                      /\ pending[n] = [session |-> waiters[n].session,
                                       id |-> waiters[n].id]
    BY DEF TablesAgree
  <2>1. n \in DOMAIN pending /\ waiters[n] \in Call /\ outId[waiters[n]] = n
    BY DEF IInv, HonestInv, WaitersInv, Awaiting
  <2>2. PICK c \in Requests :
          /\ outId[c] = n
          /\ pending[n] = [session |-> c.session, id |-> c.id]
    BY <2>1 DEF IInv, MappingsInv
  <2>3. n # 0
    BY <2>1 DEF IInv, TypeOK
  <2>4. c = waiters[n]
    BY <2>1, <2>2, <2>3 DEF IInv, IdsInv, Requests
  <2> QED BY <2>1, <2>2, <2>4
<1> QED BY <1>1, HonestHolds, PTL

-----------------------------------------------------------------------------
(* The child's own messages.                                               *)

(* A method's id is one of the child's, so it is not one the mux minted.   *)
LEMMA ServerStep ==
  ASSUME ServerIds \subseteq {0}
  PROVE  IInv /\ ServerInv /\ [Next]_vars => ServerInv'
<1> SUFFICES ASSUME IInv, ServerInv, [Next]_vars PROVE ServerInv'
  OBVIOUS
<1>t. /\ stdoutQ \in Seq(Message) /\ DOMAIN waiters \subseteq Nat \ {0}
      /\ seen \subseteq Nat \ {0} /\ answered \subseteq seen
      /\ WaitersInv /\ DrainInv
  BY DEF IInv, TypeOK
<1> USE DEF ServerInv
<1>1. ASSUME UNCHANGED <<stdoutQ, dpc, dmsg, dtargets, registered, owed>>
      PROVE  ServerInv'
  BY <1>1
<1>2. ASSUME NEW c \in Call, Handler(c) \/ Abandon(c) PROVE ServerInv'
  BY <1>1, <1>2 DEF behindVars, Handler, Start, StartCall, Map, MapCall,
                    Expect, ExpectCall, Send, SendCall, Receive, ReceiveCall,
                    Abandon, AbandonCall,
     drainVars, sessionVars
<1>3. CASE Forward \/ WriteStdin \/ ChildExit \/ UNCHANGED vars
  BY <1>1, <1>3 DEF Forward, WriteStdin, ChildExit, vars, handlerVars,
     drainVars, sessionVars
<1>4. ASSUME NEW v \in Message, v.method => v.id \in ServerIds \cup {NoId},
             stdoutQ' = Append(stdoutQ, v),
             UNCHANGED <<dpc, dmsg, dtargets, registered, owed>>
      PROVE  ServerInv'
  <2>1. Range(stdoutQ') = Range(stdoutQ) \cup {v}
    BY <1>4, <1>t, PutFacts
  <2> QED BY <1>4, <2>1
<1>5. ASSUME NEW n \in seen, ChildAnswer(n) PROVE ServerInv'
  <2>1. /\ Response(n) \in Message /\ ~Response(n).method
        /\ UNCHANGED <<dpc, dmsg, dtargets, registered, owed>>
    BY <1>5, <1>t DEF ChildAnswer, Response, Message, handlerVars, drainVars,
       sessionVars
  <2> QED BY <1>4, <1>5, <2>1 DEF ChildAnswer
<1>6. ASSUME NEW v \in OtherLines, ChildWrite(v) PROVE ServerInv'
  <2>1. v \in Message
    BY <1>t, OtherLinesFacts
  <2>2. v.method => v.id \in ServerIds \cup {NoId}
    BY DEF OtherLines, Response, ServerRequest, Notification, Noise
  <2>3. UNCHANGED <<dpc, dmsg, dtargets, registered, owed>>
    BY <1>6 DEF ChildWrite, handlerVars, drainVars, sessionVars
  <2> QED BY <1>4, <1>6, <2>1, <2>2, <2>3 DEF ChildWrite
<1>7. CASE DrainRecv
  <2>1. Range(stdoutQ') \subseteq Range(stdoutQ) /\ dmsg' \in Range(stdoutQ)
    BY <1>7, <1>t, TakeFacts DEF DrainRecv
  <2>2. dpc' = "settle" => ~dmsg'.method
    BY <1>7, <1>t, <2>1 DEF DrainRecv, NoId
  <2>3. /\ dpc' \in {"settle", "classify"}
        /\ ~dmsg'.method => owed' = {}
        /\ owed' \subseteq registered'
    BY <1>7 DEF DrainRecv, sessionVars, Attached
  <2> QED BY <2>1, <2>2, <2>3
<1>8. CASE DrainSettle
  <2>1. /\ dpc' = "recv" /\ dmsg' = Noise /\ owed' = {}
        /\ stdoutQ' = stdoutQ
    BY <1>8 DEF DrainSettle, DrainNext
  <2> QED BY <2>1 DEF Noise
<1>9. CASE DrainClassify
  <2>1. UNCHANGED <<stdoutQ, registered, owed>>
    BY <1>9 DEF DrainClassify, handlerVars, sessionVars
  <2>2. CASE DrainNext
    <3>1. owed = {}
      BY <1>9, <2>2 DEF DrainClassify, DrainNext, Class
    <3> QED BY <2>1, <2>2, <3>1 DEF DrainNext, Noise
  <2>3. CASE ~DrainNext
    <3>1. dpc' = "send" /\ dmsg' = dmsg /\ owed \subseteq dtargets'
      BY <1>9, <2>3 DEF DrainClassify, Class
    <3> QED BY <2>1, <3>1
  <2> QED BY <2>2, <2>3
<1>10. CASE DrainSend
  <2>1. UNCHANGED <<stdoutQ, registered>> /\ owed' = owed \ {dto}
    BY <1>10 DEF DrainSend, handlerVars
  <2>2. CASE DrainNext
    <3>1. owed' = {}
      BY <1>10, <2>1, <2>2 DEF DrainSend, DrainNext
    <3> QED BY <2>1, <2>2, <3>1 DEF DrainNext, Noise
  <2>3. CASE ~DrainNext
    <3>1. dpc' = "send" /\ dmsg' = dmsg /\ owed' \subseteq dtargets'
      BY <1>10, <2>1, <2>3 DEF DrainSend
    <3> QED BY <2>1, <3>1
  <2> QED BY <2>2, <2>3
<1>11. ASSUME NEW s \in Session,
              OpenStream(s) \/ ReadStream(s) \/ Disconnect(s) \/ Detach(s)
       PROVE  ServerInv'
  BY <1>11 DEF OpenStream, ReadStream, Disconnect, Detach, handlerVars,
     drainVars
<1> QED BY <1>2, <1>3, <1>5, <1>6, <1>7, <1>8, <1>9, <1>10, <1>11
        DEF Next, Step, Drain

(* What follows holds of a child that numbers its own requests clear of    *)
(* the mux, which never mints 0.                                           *)
LEMMA ServerHolds ==
  ASSUME ServerIds \subseteq {0}
  PROVE  Spec => [](IInv /\ ServerInv)
<1>1. Init => ServerInv
  BY EmptyQueue DEF Init, CallersInit, ServerInv, Noise
<1> QED BY <1>1, InvariantHolds, ServerStep, PTL DEF Spec

(* A message with a method reaches every session attached throughout,      *)
(* provided the child numbers its own requests clear of the mux.           *)
THEOREM BroadcastsAreComplete ==
  ASSUME ServerIds \subseteq {0}
  PROVE  Spec => []BroadcastReachesAttached
<1>1. IInv /\ ServerInv => BroadcastReachesAttached
  BY DEF IInv, DrainInv, ServerInv, BroadcastReachesAttached, Noise
<1> QED BY <1>1, ServerHolds, PTL

(* Nor is a caller told that its child exited when what took its sender    *)
(* was something else than its answer, if the child moreover answers only  *)
(* what it was sent.                                                       *)
THEOREM NobodyHangsUpEarly ==
  ASSUME ServerIds \subseteq {0}, Forged = {}
  PROVE  Spec => []NoSpuriousHangUp
<1>1. Init => NoSpuriousHangUp
  BY DEF Init, CallersInit, NoSpuriousHangUp
<1>2. IInv /\ HonestInv /\ ServerInv /\ NoSpuriousHangUp /\ [Next]_vars =>
        NoSpuriousHangUp'
  <2> SUFFICES ASSUME IInv, HonestInv, ServerInv, NoSpuriousHangUp, [Next]_vars
               PROVE  NoSpuriousHangUp'
    OBVIOUS
  <2>t. slot \in [Call -> {"empty", "filled", "dropped"}]
    BY DEF IInv, TypeOK
  <2>1. ASSUME NEW c \in Call, Handler(c) \/ Abandon(c) PROVE slot' = slot
    BY <2>1 DEF behindVars, Handler, Start, StartCall, Map, MapCall,
                Expect, ExpectCall, Send, SendCall, Receive, ReceiveCall,
                Abandon, AbandonCall
  <2>2. CASE DrainSettle
    <3>1. Class(dmsg) = "RoutedResponse"
      BY <2>2 DEF DrainSettle, Class, HonestInv, ServerInv
    <3>2. slot' = [slot EXCEPT ![dwaiter] = "filled"]
      BY <2>2, <3>1 DEF DrainSettle
    <3> QED BY <2>t, <3>2 DEF NoSpuriousHangUp
  <2>3. CASE UNCHANGED <<next, handlerVars>>
    BY <2>3 DEF handlerVars, NoSpuriousHangUp
  <2> QED BY <2>1, <2>2, <2>3, HandlerFrame DEF NoSpuriousHangUp
<1> QED BY <1>1, <1>2, HonestHolds, ServerHolds, PTL DEF Spec

-----------------------------------------------------------------------------
(* Answers that are lost.                                                  *)

(* Only a caller whose send fails is over without a verdict.               *)
LEMMA OverStep == IInv /\ OverInv /\ [Next]_vars => OverInv'
<1> SUFFICES ASSUME IInv, OverInv, [Next]_vars PROVE OverInv'
  OBVIOUS
<1> DEFINE Under == Range(inQ) \cup Range(stdinQ) \cup seen
<1>t. TypeOK /\ IdsInv /\ SentInv /\ WaitersInv
  BY DEF IInv
<1>1. ASSUME Under' \subseteq Under, UNCHANGED handlerVars PROVE OverInv'
  BY <1>1 DEF OverInv, handlerVars
<1>2. ASSUME NEW c \in Call, Send(c) PROVE OverInv'
  <2>0. pc[c] = "ready" /\ UNCHANGED <<outId, slot, stdinQ, seen>>
    BY <1>2 DEF Send, SendCall, behindVars, childVars
  <2>1. /\ \A d \in Call \ {c} : pc'[d] = pc[d]
        /\ Waits(c) => pc'[c] = IF forwardUp THEN "waiting" ELSE "failed"
    <3>1. pc' = [pc EXCEPT ![c] =
                   IF Waits(c) THEN IF forwardUp THEN "waiting" ELSE "failed"
                   ELSE "done"]
      BY <1>2, ZenonT(30) DEF Send, SendCall
    <3> QED BY <1>t, <3>1 DEF TypeOK
  <2>2. Range(inQ') \subseteq Range(inQ) \cup {outId[c]}
    <3>1. inQ' = inQ \/ inQ' = Append(inQ, outId[c])
      BY <1>2 DEF Send, SendCall, Line
    <3>2. inQ \in Seq(Nat) /\ outId[c] \in Nat
      BY <1>t DEF TypeOK
    <3> QED BY <3>1, <3>2, PutFacts
  <2>3. \A d \in Call \ {c} : Waits(d) /\ pc[d] = "failed" => outId[d] # outId[c]
    BY <1>t DEF IdsInv, Waits
  <2>4. Waits(c) => outId[c] \notin SentIds \cup {0}
    BY <1>t, <2>0 DEF IdsInv, SentIds, Past, Waits
  <2>5. Waits(c) => outId[c] \notin Under
    BY <1>t, <2>4 DEF SentInv
  <2>6. ~forwardUp => UNCHANGED inQ
    BY <1>2 DEF Send, SendCall
  <2> QED BY <2>0, <2>1, <2>2, <2>3, <2>5, <2>6 DEF OverInv
<1>3. ASSUME NEW c \in Call,
             Start(c) \/ Map(c) \/ Expect(c) \/ Receive(c) \/ Abandon(c)
      PROVE  OverInv'
  <2>1. /\ UNCHANGED <<slot, inQ, stdinQ, seen>>
        /\ \A d \in Call \ {c} : pc'[d] = pc[d] /\ outId'[d] = outId[d]
        /\ Waits(c) /\ slot[c] = "empty" => pc'[c] \notin {"done", "failed"}
    BY <1>3, <1>t DEF Start, StartCall, Map, MapCall, Expect, ExpectCall, Receive,
       ReceiveCall, Abandon, AbandonCall, behindVars, childVars, TypeOK, Waits
  <2> QED BY <2>1 DEF OverInv
<1>4. CASE Forward
  <2>1. CASE writerUp
    <3>1. /\ inQ \in Seq(Nat) /\ inQ # <<>> /\ inQ' = Tail(inQ)
          /\ stdinQ \in Seq(Nat) /\ stdinQ' = Append(stdinQ, Head(inQ))
      BY <1>4, <1>t, <2>1 DEF Forward, TypeOK
    <3>2. Head(inQ) \in Nat /\ Head(inQ) \in Range(inQ)
      BY <3>1, TakeFacts
    <3>3. /\ Range(inQ') \subseteq Range(inQ)
          /\ Range(stdinQ') \subseteq Range(stdinQ) \cup Range(inQ)
      BY <3>1, <3>2, TakeFacts, PutFacts
    <3> QED BY <1>1, <1>4, <3>3 DEF Forward, childVars
  <2>2. CASE ~writerUp
    BY <1>1, <1>4, <2>2, EmptyQueue DEF Forward, childVars
  <2> QED BY <2>1, <2>2
<1>5. CASE WriteStdin
  <2>1. CASE childUp
    <3>1. /\ stdinQ \in Seq(Nat) /\ stdinQ # <<>>
          /\ stdinQ' = Tail(stdinQ)
          /\ seen' = seen \cup ({Head(stdinQ)} \ {0})
      BY <1>5, <1>t, <2>1 DEF WriteStdin, TypeOK
    <3>2. /\ Range(stdinQ') \subseteq Range(stdinQ)
          /\ seen' \subseteq seen \cup Range(stdinQ)
      BY <3>1, TakeFacts
    <3> QED BY <1>1, <1>5, <3>2 DEF WriteStdin
  <2>2. CASE ~childUp
    BY <1>1, <1>5, <2>2, EmptyQueue DEF WriteStdin
  <2> QED BY <2>1, <2>2
<1>6. CASE DrainSettle
  <2>1. UNCHANGED <<pc, outId, inQ, stdinQ, seen>>
    BY <1>6 DEF DrainSettle, inVars, childVars
  <2>2. \A d \in Call : slot'[d] = "empty" => slot[d] = "empty"
    BY <1>6, <1>t DEF DrainSettle, TypeOK, WaitersInv
  <2> QED BY <2>1, <2>2 DEF OverInv
<1>7. CASE DrainRecv \/ DrainClassify \/ DrainSend
  BY <1>1, <1>7 DEF DrainRecv, DrainClassify, DrainSend, inVars, childVars
<1>8. CASE \/ \E n \in seen : ChildAnswer(n)
           \/ \E v \in OtherLines : ChildWrite(v)
  BY <1>1, <1>8 DEF ChildAnswer, ChildWrite, inVars
<1>9. CASE \E s \in Session :
             OpenStream(s) \/ ReadStream(s) \/ Disconnect(s) \/ Detach(s)
  BY <1>1, <1>9 DEF OpenStream, ReadStream, Disconnect, Detach, inVars, childVars
<1>10. CASE ChildExit \/ UNCHANGED vars
  BY <1>1, <1>10 DEF ChildExit, vars, inVars, childVars
<1> QED BY <1>2, <1>3, <1>4, <1>5, <1>6, <1>7, <1>8, <1>9, <1>10
        DEF Next, Step, Handler, Drain

(* An answer in the drain task's hands for which there is no sender is for *)
(* a stream, or for a caller that no longer waits.                         *)
LEMMA AnswerInHand ==
  ASSUME Forged = {}, IInv, HonestInv, OverInv, RoutedInv,
         dpc = "classify", Class(dmsg) = "RoutedResponse",
         NEW c \in Call, Waits(c), outId[c] = dmsg.id
  PROVE  pc[c] = "gone" \/ slot[c] = "dropped"
<1>t. /\ pc \in [Call -> HandlerState] /\ outId \in [Call -> Nat]
      /\ slot \in [Call -> {"empty", "filled", "dropped"}]
      /\ DOMAIN pending \subseteq Nat \ {0}
      /\ IdsInv /\ SentInv /\ NoCallerForgotten
  BY DEF IInv, TypeOK
<1>1. dmsg.id \in DOMAIN pending /\ ~dmsg.method
  BY DEF Class
<1>2. slot[c] # "filled" /\ dmsg.id \notin DOMAIN waiters
  BY <1>1 DEF RoutedInv, HonestInv
<1>3. outId[c] \in seen /\ outId[c] # 0
  BY <1>t, <1>1 DEF SentInv, NoId
<1>4. PICK d \in Call : outId[d] = outId[c] /\ pc[d] \in Past
  BY <1>t, <1>3 DEF SentInv, SentIds
<1>5. pc[c] \in Past
  BY <1>t, <1>3, <1>4 DEF IdsInv
<1>6. slot[c] = "empty" => pc[c] \notin {"done", "failed"}
  BY <1>3 DEF OverInv
<1>7. slot[c] = "empty" => pc[c] # "waiting"
  BY <1>t, <1>2 DEF NoCallerForgotten
<1> QED BY <1>t, <1>2, <1>5, <1>6, <1>7 DEF Past

(* A mapping goes when its caller is answered, and an answer goes to a     *)
(* stream only past a caller that no longer waits.                         *)
LEMMA RoutedStep ==
  ASSUME Forged = {}
  PROVE  IInv /\ HonestInv /\ OverInv /\ RoutedInv /\ [Next]_vars => RoutedInv'
<1> SUFFICES ASSUME IInv, HonestInv, OverInv, RoutedInv, [Next]_vars
             PROVE  RoutedInv'
  OBVIOUS
<1>t. /\ pc \in [Call -> HandlerState] /\ outId \in [Call -> Nat]
      /\ slot \in [Call -> {"empty", "filled", "dropped"}]
      /\ next \in Nat \ {0}
      /\ IdsInv /\ WaitersInv /\ DrainInv
  BY DEF IInv, TypeOK
<1>1. ASSUME UNCHANGED <<outId, slot>>, DOMAIN pending' \subseteq DOMAIN pending,
             \A d \in Call : pc[d] = "gone" => pc'[d] = "gone",
             dpc' # "send" \/ UNCHANGED <<dpc, dmsg>>
      PROVE  RoutedInv'
  BY <1>1 DEF RoutedInv, Held
<1>2. ASSUME NEW c \in Call, Start(c) PROVE RoutedInv'
  <2>1. /\ UNCHANGED <<pending, slot, dpc, dmsg>>
        /\ \A d \in Call \ {c} : pc'[d] = pc[d] /\ outId'[d] = outId[d]
        /\ pc[c] = "idle" /\ slot[c] = "empty"
        /\ Waits(c) => outId'[c] = next
    BY <1>2, <1>t DEF behindVars, Start, StartCall, Mint, muxVars, drainVars,
                      Waits, IdsInv
  <2>2. dpc = "send" /\ ~dmsg.method => dmsg.id # next
    <3>1. \A d \in Call : outId[d] # next
      BY <1>t DEF IdsInv
    <3> QED BY <3>1 DEF IInv, DrainInv, Requests
  <2> QED BY <2>1, <2>2 DEF RoutedInv, Held
<1>3. ASSUME NEW c \in Call, Map(c) PROVE RoutedInv'
  <2>1. /\ UNCHANGED <<outId, slot, dpc, dmsg>>
        /\ DOMAIN pending' = DOMAIN pending \cup {outId[c]}
        /\ \A d \in Call \ {c} : pc'[d] = pc[d]
        /\ pc[c] = "minted" /\ slot[c] = "empty" /\ outId[c] # 0
    BY <1>3, <1>t DEF behindVars, Map, MapCall, Remember, Insert, drainVars,
                      IdsInv
  <2>2. \A d \in Call \ {c} : outId[d] # outId[c]
    BY <1>t, <2>1 DEF IdsInv
  <2> QED BY <2>1, <2>2 DEF RoutedInv, Held
<1>4. ASSUME NEW c \in Call,
             Expect(c) \/ Send(c) \/ Receive(c) \/ Abandon(c)
      PROVE  RoutedInv'
  <2>1. /\ UNCHANGED <<outId, slot, pending, dpc, dmsg>>
        /\ \A d \in Call \ {c} : pc'[d] = pc[d]
        /\ pc[c] # "gone"
    BY <1>4, <1>t DEF behindVars, Expect, ExpectCall, Send, SendCall, Receive,
                      ReceiveCall, Abandon, AbandonCall, muxVars, drainVars
  <2> QED BY <1>1, <2>1
<1>5. CASE DrainRecv
  <2>1. UNCHANGED <<pc, outId, slot, pending>> /\ dpc' # "send"
    BY <1>5 DEF DrainRecv, muxVars, handlerVars
  <2> QED BY <1>1, <2>1
<1>6. CASE DrainSettle
  <2>1. /\ UNCHANGED <<pc, outId>> /\ dpc' = "recv"
        /\ DOMAIN pending' \subseteq DOMAIN pending
        /\ \A d \in Call \ {dwaiter} : slot'[d] = slot[d]
        /\ dwaiter \in Call /\ outId[dwaiter] = dmsg.id
    BY <1>6, <1>t DEF DrainSettle, DrainNext, Classify, Remove, Restrict,
       WaitersInv, Awaiting
  <2>2. slot'[dwaiter] = "filled" => dmsg.id \notin DOMAIN pending'
    <3>1. CASE Class(dmsg) = "RoutedResponse"
      BY <1>6, <3>1 DEF DrainSettle, Class, Classify, Remove, Restrict
    <3>2. CASE Class(dmsg) # "RoutedResponse"
      BY <1>6, <1>t, <2>1, <3>2 DEF DrainSettle
    <3> QED BY <3>1, <3>2
  <2> QED BY <2>1, <2>2 DEF RoutedInv, Held
<1>7. CASE DrainClassify
  <2>1. /\ UNCHANGED <<pc, outId, slot>> /\ dpc = "classify"
        /\ DOMAIN pending' \subseteq DOMAIN pending
        /\ dpc' = "send" => dmsg' = dmsg
        /\ dpc' = "send" /\ ~dmsg.method => Class(dmsg) = "RoutedResponse"
    BY <1>7 DEF DrainClassify, DrainNext, Classify, Class, Remove, Restrict,
       handlerVars
  <2>2. ASSUME NEW c \in Call, Waits(c), Held(c)'
        PROVE  pc[c] = "gone" \/ slot[c] = "dropped"
    BY <2>1, <2>2, AnswerInHand DEF Held
  <2> QED BY <2>1, <2>2 DEF RoutedInv
<1>8. CASE DrainSend
  <2>1. UNCHANGED <<pc, outId, slot, pending>>
    BY <1>8 DEF DrainSend, muxVars, handlerVars
  <2>2. dpc' # "send" \/ UNCHANGED <<dpc, dmsg>>
    BY <1>8 DEF DrainSend, DrainNext
  <2> QED BY <1>1, <2>1, <2>2
<1>9. CASE UNCHANGED <<muxVars, handlerVars, waiters, drainVars>>
  BY <1>1, <1>9 DEF muxVars, handlerVars, drainVars
<1> QED BY <1>2, <1>3, <1>4, <1>5, <1>6, <1>7, <1>8, <1>9, TableFrame
        DEF Handler, Drain

(* A request leaves the mux only in the drain task's hands, and the mux    *)
(* and the hands together only for a caller or a stream.                   *)
LEMMA ReplyStep ==
  ASSUME Forged = {}, IInv, HonestInv, OverInv, RoutedInv, [Next]_vars,
         NEW c \in Outstanding \ Outstanding'
  PROVE  \/ got'[c.session][c.id] = got[c.session][c.id] + 1
         \/ Waits(c) /\ pc[c] = "gone"
         \/ (Waits(c) => slot[c] = "dropped") /\ c.session \notin Attached
<1>t. /\ pc \in [Call -> HandlerState] /\ outId \in [Call -> Nat]
      /\ DOMAIN pending \subseteq Nat \ {0} /\ seen \subseteq Nat \ {0}
      /\ got \in [Session -> [Id -> Nat]]
      /\ IdsInv /\ MappingsInv /\ WaitersInv /\ DrainInv /\ SentInv
      /\ dmsg.method \/ dmsg.id \in seen \cup {NoId}
  BY DEF IInv, TypeOK, SentInv
<1>c. /\ c \in Call /\ c \in Requests /\ outId[c] # 0
      /\ c.session \in Session /\ c.id \in Id
      /\ outId[c] \in DOMAIN pending \/ Held(c)
  <2>1. c \in Call /\ c \in Requests /\ c.id \in Id
    BY DEF Outstanding, Requests, Id
  <2>2. outId[c] \in DOMAIN pending \/ Held(c)
    BY DEF Outstanding
  <2> QED BY <1>t, <2>1, <2>2, CallAssumption DEF Held, NoId
<1>u. \A d \in Requests : outId[d] = outId[c] => d = c
  BY <1>t, <1>c DEF IdsInv, Requests
<1>1. ASSUME outId'[c] = outId[c], DOMAIN pending \subseteq DOMAIN pending',
             UNCHANGED <<dpc, dmsg>>
      PROVE  FALSE
  BY <1>1, <1>c DEF Outstanding, Held
<1>2. ASSUME NEW d \in Call, Handler(d) \/ Abandon(d) PROVE FALSE
  <2>1. outId'[c] = outId[c]
    BY <1>2, <1>c, <1>t DEF Handler, Start, StartCall, Map, MapCall, Expect,
       ExpectCall, Send, SendCall, Receive, ReceiveCall, Abandon, AbandonCall,
       behindVars, IdsInv
  <2>2. /\ DOMAIN pending \subseteq DOMAIN pending'
        /\ UNCHANGED <<dpc, dmsg>>
    BY <1>2 DEF Handler, Start, StartCall, Map, MapCall, Expect, ExpectCall, Send,
       SendCall, Receive, ReceiveCall, Abandon, AbandonCall, behindVars,
       drainVars, muxVars, Mint, Remember, Insert
  <2> QED BY <1>1, <2>1, <2>2
<1>3. CASE DrainRecv
  <2>1. /\ UNCHANGED <<outId, pending>> /\ dpc = "recv"
    BY <1>3 DEF DrainRecv, muxVars, handlerVars
  <2> QED BY <1>c, <2>1 DEF Outstanding, Held
(* The answer to c is the one in hand. *)
<1>4. ASSUME dpc \in {"settle", "classify"}, Classify(dmsg), UNCHANGED outId
      PROVE  /\ Class(dmsg) = "RoutedResponse" /\ dmsg.id = outId[c]
             /\ pending[dmsg.id] = [session |-> c.session, id |-> c.id]
  <2>1. outId[c] \in DOMAIN pending
    BY <1>4, <1>c DEF Held
  <2>2. outId[c] \notin DOMAIN pending'
    BY <1>4, <1>c DEF Outstanding
  <2>3. Class(dmsg) = "RoutedResponse" /\ dmsg.id = outId[c]
    BY <1>4, <2>1, <2>2 DEF Classify, Class, Remove, Restrict
  <2> QED BY <1>t, <1>u, <2>1, <2>3 DEF MappingsInv
<1>5. CASE DrainSettle
  <2>1. /\ Class(dmsg) = "RoutedResponse" /\ dmsg.id = outId[c]
        /\ pending[dmsg.id] = [session |-> c.session, id |-> c.id]
    BY <1>4, <1>5 DEF DrainSettle
  <2>2. dwaiter = c /\ Waits(c) /\ slot[c] = "empty"
        /\ pc[c] \notin {"idle", "minted", "mapped"}
    BY <1>5, <1>t, <1>u, <2>1
       DEF DrainSettle, WaitersInv, Awaiting, Waits, Requests
  <2>3. outId[c] \in seen
    BY <1>t, <2>1, <1>c DEF Class, NoId
  <2>4. pc[c] \in {"ready", "waiting", "gone"}
    BY <1>t, <1>c, <2>2, <2>3 DEF OverInv, HandlerState
  <2>5. pc[c] # "gone" => got' = Reply(c)
    BY <1>5, <2>1, <2>2, <2>4 DEF DrainSettle
  <2> QED BY <1>c, <1>t, <2>2, <2>4, <2>5 DEF Reply
<1>6. CASE DrainClassify
  <2>1. /\ Class(dmsg) = "RoutedResponse" /\ dmsg.id = outId[c]
        /\ pending[dmsg.id].session = c.session
    BY <1>4, <1>6 DEF DrainClassify, handlerVars
  <2>2. ~dmsg.method
    BY <2>1 DEF Class
  <2>3. ~Held(c)'
    BY <1>c DEF Outstanding
  <2>4. dpc' # "send"
    BY <1>6, <2>1, <2>2, <2>3 DEF DrainClassify, DrainNext, Held, handlerVars
  <2>5. {c.session} \cap registered = {}
    BY <1>6, <2>1, <2>4 DEF DrainClassify
  <2>6. Waits(c) => pc[c] = "gone" \/ slot[c] = "dropped"
    BY <1>6, <1>c, <2>1, AnswerInHand DEF DrainClassify
  <2> QED BY <2>5, <2>6 DEF Attached
<1>7. CASE DrainSend
  <2>1. UNCHANGED <<outId, pending>> /\ dpc = "send"
    BY <1>7 DEF DrainSend, muxVars, handlerVars
  <2>2. Held(c)
    BY <1>c, <2>1 DEF Outstanding
  <2>3. /\ dreply = [session |-> c.session, id |-> c.id]
        /\ dto = c.session /\ ~dmsg.method
    BY <1>t, <1>u, <2>1, <2>2 DEF DrainInv, Held
  <2>4. CASE stream[dto] = "open"
    <3>1. got' = [got EXCEPT ![c.session][c.id] = @ + 1]
      BY <1>7, <2>3, <2>4 DEF DrainSend, Reply
    <3> QED BY <1>c, <1>t, <3>1
  <2>5. CASE stream[dto] # "open"
    <3>1. Waits(c) => pc[c] = "gone" \/ slot[c] = "dropped"
      BY <1>c, <2>2 DEF RoutedInv
    <3> QED BY <2>3, <2>5, <3>1 DEF Attached
  <2> QED BY <2>4, <2>5
<1>8. CASE UNCHANGED <<muxVars, handlerVars, waiters, drainVars>>
  BY <1>1, <1>8 DEF muxVars, handlerVars, drainVars
<1> QED BY <1>2, <1>3, <1>5, <1>6, <1>7, <1>8, TableFrame DEF Drain

(* When the child answers only what it was sent, such an answer is lost    *)
(* only when its caller has gone, or when it is for a stream and there is  *)
(* none; whatever else the child writes and whenever it exits.             *)
THEOREM AnswersReachTheirOwners ==
  ASSUME Forged = {}
  PROVE  Spec => NoReplyLost
<1>1. Init => OverInv /\ RoutedInv
  BY DEF Init, CallersInit, OverInv, RoutedInv, Held
<1>2. IInv /\ HonestInv /\ OverInv /\ RoutedInv /\ [Next]_vars =>
        [\A c \in Outstanding \ Outstanding' :
           \/ got'[c.session][c.id] = got[c.session][c.id] + 1
           \/ Waits(c) /\ pc[c] = "gone"
           \/ (Waits(c) => slot[c] = "dropped") /\ c.session \notin Attached]_vars
  BY ReplyStep
<1> QED BY <1>1, <1>2, InvariantHolds, HonestHolds, OverStep, RoutedStep, PTL
        DEF Spec, NoReplyLost

-----------------------------------------------------------------------------
(* Requests that are under way.                                            *)

(* A step that takes nothing out of the pipes, off the tables or off the   *)
(* handlers strands nobody.                                                *)
LEMMA UnderWayFrame ==
  ASSUME UnderWayInv, UNCHANGED <<childUp, writerUp, forwardUp>>,
         \A c \in Requests : pc'[c] \in {"waiting", "done"} =>
           outId'[c] = outId[c] /\ pc[c] \in {"waiting", "done"},
         Range(inQ) \cup Range(stdinQ) \cup seen \subseteq
           Range(inQ') \cup Range(stdinQ') \cup seen',
         answered' = answered,
         \A n \in answered : n \in DOMAIN pending' =>
           /\ n \in DOMAIN pending
           /\ Response(n) \in Range(stdoutQ) \cup {dmsg} =>
                Response(n) \in Range(stdoutQ') \cup {dmsg'}
  PROVE  UnderWayInv'
BY DEF UnderWayInv, Response

(* A handler's step: a line is sent before its task is past, and an id     *)
(* that enters the mux has not been answered.                              *)
LEMMA UnderWayHandler ==
  ASSUME IInv, UnderWayInv, NEW c \in Call, Handler(c) \/ Abandon(c)
  PROVE  UnderWayInv'
<1>t. /\ pc \in [Call -> HandlerState] /\ outId \in [Call -> Nat]
      /\ inQ \in Seq(Nat) /\ answered \subseteq seen
      /\ IdsInv /\ SentInv
  BY DEF IInv, TypeOK
<1>f. UNCHANGED <<childUp, writerUp, forwardUp, stdinQ, seen, answered, stdoutQ,
                  dmsg>>
  BY DEF Handler, Start, StartCall, Map, MapCall, Expect, ExpectCall, Send,
         SendCall, Receive, ReceiveCall, Abandon, AbandonCall, behindVars,
         childVars, drainVars
<1>1. CASE Start(c) \/ Expect(c) \/ Receive(c) \/ Abandon(c)
  <2>1. UNCHANGED <<pending, inQ>>
    BY <1>1 DEF Start, StartCall, Mint, Expect, ExpectCall, Receive, ReceiveCall,
                Abandon, AbandonCall, muxVars
  <2>2. ASSUME NEW d \in Requests, pc'[d] \in {"waiting", "done"}
        PROVE  outId'[d] = outId[d] /\ pc[d] \in {"waiting", "done"}
    BY <1>1, <1>t, <2>2 DEF Start, StartCall, Expect, ExpectCall, Receive,
       ReceiveCall, Abandon, AbandonCall, Requests
  <2> QED BY <1>f, <2>1, <2>2, UnderWayFrame
<1>2. CASE Map(c)
  <2>1. /\ UNCHANGED <<outId, inQ>> /\ pc[c] = "minted"
        /\ DOMAIN pending' = DOMAIN pending \cup {outId[c]}
    BY <1>2 DEF Map, MapCall, Remember, Insert
  <2>2. outId[c] \notin answered
    BY <1>t, <2>1 DEF IdsInv, SentInv, SentIds, Past
  <2>3. ASSUME NEW d \in Requests, pc'[d] \in {"waiting", "done"}
        PROVE  pc[d] \in {"waiting", "done"}
    BY <1>2, <1>t, <2>3 DEF Map, MapCall, Requests
  <2> QED BY <1>f, <2>1, <2>2, <2>3, UnderWayFrame
<1>3. CASE Send(c)
  <2>1. UNCHANGED <<outId, pending>> /\ \A d \in Call \ {c} : pc'[d] = pc[d]
    BY <1>3, <1>t DEF Send, SendCall, muxVars
  <2>2. CASE forwardUp
    <3>1. inQ' = Append(inQ, outId[c])
      BY <1>3, <2>2 DEF Send, SendCall, Line
    <3>2. Range(inQ') = Range(inQ) \cup {outId[c]}
      BY <1>t, <3>1, PutFacts
    <3> QED BY <1>f, <2>1, <3>2 DEF UnderWayInv, Requests
  <2>3. CASE ~forwardUp
    <3>1. inQ' = inQ
      BY <1>3, <2>3 DEF Send, SendCall
    <3> QED BY <1>f, <2>1, <2>3, <3>1 DEF UnderWayInv, Requests
  <2> QED BY <2>2, <2>3
<1> QED BY <1>1, <1>2, <1>3 DEF Handler

(* Only the child's end lets the tasks before it drop what they hold, and  *)
(* only the drain task, routing it, lets go of an answer.                  *)
LEMMA UnderWayStep == IInv /\ UnderWayInv /\ [Next]_vars => UnderWayInv'
<1> SUFFICES ASSUME IInv, UnderWayInv, [Next]_vars PROVE UnderWayInv'
  OBVIOUS
<1>t. /\ inQ \in Seq(Nat) /\ stdinQ \in Seq(Nat) /\ stdoutQ \in Seq(Message)
      /\ seen \subseteq Nat \ {0} /\ answered \subseteq seen
      /\ IdsInv /\ DrainInv
  BY DEF IInv, TypeOK
<1>z. \A c \in Requests : pc[c] \in {"waiting", "done"} => outId[c] # 0
  BY <1>t DEF IdsInv, Requests
<1>1. CASE Forward
  <2>0. UNCHANGED <<pc, outId, pending, childUp, writerUp, seen, answered,
                    stdoutQ, dmsg>>
    BY <1>1 DEF Forward, handlerVars, muxVars, childVars, drainVars
  <2>1. CASE writerUp
    <3>1. /\ inQ # <<>> /\ inQ' = Tail(inQ) /\ forwardUp' = forwardUp
          /\ stdinQ' = Append(stdinQ, Head(inQ))
      BY <1>1, <2>1 DEF Forward
    <3>2. Range(inQ) = {Head(inQ)} \cup Range(inQ') /\ Head(inQ) \in Nat
      BY <1>t, <3>1, HeadOrTail, TakeFacts
    <3>3. Range(stdinQ') = Range(stdinQ) \cup {Head(inQ)}
      BY <1>t, <3>1, <3>2, PutFacts
    <3> QED BY <2>0, <3>1, <3>2, <3>3, UnderWayFrame
  <2>2. CASE ~writerUp
    BY <2>0, <2>2 DEF UnderWayInv
  <2> QED BY <2>1, <2>2
<1>2. CASE WriteStdin
  <2>0. UNCHANGED <<pc, outId, pending, childUp, forwardUp, answered, inQ,
                    stdoutQ, dmsg>>
    BY <1>2 DEF WriteStdin, handlerVars, muxVars, drainVars
  <2>1. CASE childUp
    <3>1. /\ stdinQ # <<>> /\ stdinQ' = Tail(stdinQ) /\ writerUp' = writerUp
          /\ seen' = seen \cup ({Head(stdinQ)} \ {0})
      BY <1>2, <2>1 DEF WriteStdin
    <3>2. Range(stdinQ) = {Head(stdinQ)} \cup Range(stdinQ')
      BY <1>t, <3>1, HeadOrTail
    <3> QED BY <1>z, <2>0, <3>1, <3>2 DEF UnderWayInv
  <2>2. CASE ~childUp
    <3>1. ~writerUp'
      BY <1>2, <2>2 DEF WriteStdin
    <3> QED BY <2>0, <2>2, <3>1 DEF UnderWayInv
  <2> QED BY <2>1, <2>2
<1>3. ASSUME NEW n \in seen, ChildAnswer(n) PROVE UnderWayInv'
  <2>1. /\ UNCHANGED <<pc, outId, pending, childUp, writerUp, forwardUp, inQ,
                       stdinQ, seen, dmsg>>
        /\ stdoutQ' = Append(stdoutQ, Response(n))
        /\ answered' = answered \cup {n}
    BY <1>3 DEF ChildAnswer, handlerVars, muxVars, inVars, drainVars
  <2>2. Range(stdoutQ') = Range(stdoutQ) \cup {Response(n)}
    <3>1. Response(n) \in Message
      BY <1>t DEF Response, Message
    <3> QED BY <1>t, <2>1, <3>1, PutFacts
  <2> QED BY <2>1, <2>2 DEF UnderWayInv, Response
<1>4. ASSUME NEW v \in OtherLines, ChildWrite(v) PROVE UnderWayInv'
  <2>1. /\ UNCHANGED <<pc, outId, pending, childUp, writerUp, forwardUp, inQ,
                       stdinQ, seen, answered, dmsg>>
        /\ stdoutQ' = Append(stdoutQ, v)
    BY <1>4 DEF ChildWrite, handlerVars, muxVars, inVars, drainVars
  <2>2. v \in Message
    BY <1>t, OtherLinesFacts
  <2>3. Range(stdoutQ') = Range(stdoutQ) \cup {v}
    BY <1>t, <2>1, <2>2, PutFacts
  <2> QED BY <2>1, <2>3, UnderWayFrame
<1>5. CASE Drain
  <2>0. UNCHANGED <<pc, outId, childUp, writerUp, forwardUp, inQ, stdinQ, seen,
                    answered>>
    BY <1>5 DEF Drain, DrainRecv, DrainSettle, DrainClassify, DrainSend,
       handlerVars, inVars, childVars
  <2>1. CASE DrainRecv
    <3>1. /\ dmsg = Noise /\ pending' = pending
          /\ stdoutQ # <<>> /\ stdoutQ' = Tail(stdoutQ) /\ dmsg' = Head(stdoutQ)
      BY <1>t, <2>1 DEF DrainRecv, DrainInv, muxVars
    <3>2. Range(stdoutQ) = {dmsg'} \cup Range(stdoutQ')
      BY <1>t, <3>1, HeadOrTail
    <3>3. \A n \in answered : Response(n) # Noise
      BY <1>t DEF Response, Noise, NoId
    <3> QED BY <2>0, <3>1, <3>2, <3>3, UnderWayFrame
  <2>2. CASE DrainSettle \/ DrainClassify
    <3>1. /\ DOMAIN pending' \subseteq DOMAIN pending
          /\ ~dmsg.method => dmsg.id \notin DOMAIN pending'
          /\ stdoutQ' = stdoutQ
      BY <2>2 DEF DrainSettle, DrainClassify, Classify, Remove, Restrict
    <3>2. \A n \in answered \cap DOMAIN pending' : Response(n) # dmsg
      BY <3>1 DEF Response
    <3> QED BY <2>0, <3>1, <3>2, UnderWayFrame
  <2>3. CASE DrainSend
    <3>1. dpc = "send" /\ pending' = pending /\ stdoutQ' = stdoutQ
      BY <2>3 DEF DrainSend, muxVars
    <3>2. \A n \in answered \cap DOMAIN pending : Response(n) # dmsg
      BY <1>t, <3>1 DEF DrainInv, Response
    <3> QED BY <2>0, <3>1, <3>2, UnderWayFrame
  <2> QED BY <1>5, <2>1, <2>2, <2>3 DEF Drain
<1>6. CASE ChildExit
  BY <1>6 DEF ChildExit, handlerVars, muxVars, inVars, drainVars, UnderWayInv
<1>7. ASSUME NEW s \in Session,
             OpenStream(s) \/ ReadStream(s) \/ Disconnect(s) \/ Detach(s)
      PROVE  UnderWayInv'
  <2>1. UNCHANGED <<muxVars, handlerVars, inVars, childVars, stdoutQ, drainVars>>
    BY <1>7 DEF OpenStream, ReadStream, Disconnect, Detach
  <2> QED BY <2>1 DEF handlerVars, muxVars, inVars, childVars, drainVars,
                      UnderWayInv
<1>8. CASE UNCHANGED vars
  BY <1>8 DEF vars, handlerVars, muxVars, inVars, childVars, drainVars,
              UnderWayInv
<1> QED BY <1>1, <1>2, <1>3, <1>4, <1>5, <1>6, <1>7, <1>8, UnderWayHandler
        DEF Next, Step

(* A request that was sent is never stranded between two tasks, whatever   *)
(* else is on the wire: if no answer can come, the child has exited.       *)
THEOREM RequestsAreNotStranded == Spec => []NoRequestStranded
<1>1. Init => UnderWayInv
  BY DEF Init, CallersInit, UnderWayInv, Requests
<1>2. UnderWayInv => NoRequestStranded
  BY DEF UnderWayInv, NoRequestStranded
<1> QED BY <1>1, <1>2, InvariantHolds, UnderWayStep, PTL DEF Spec

-----------------------------------------------------------------------------
(* StdioProxy implements CallService.                                      *)

Submitted == {c \in Requests : pc[c] \notin {"idle", "minted"}}

(* The initial state maps to the abstract one. *)
LEMMA RefinesInit == Init => Calls!CallInit
<1> SUFFICES ASSUME Init PROVE Calls!CallInit
  OBVIOUS
<1>1. {c \in Requests : pc[c] \notin {"idle", "minted"}} = {}
  BY DEF Init, CallersInit, Requests
<1>2. Outstanding = {}
  BY DEF Init, CallersInit, MuxInit, EmptyTable, Outstanding, Held
<1>3. got = [s \in Session |-> [i \in Id |-> 0]]
  BY DEF Init, CallersInit
<1> QED BY <1>1, <1>2, <1>3 DEF Calls!CallInit

(* A step maps to a submission, an answer, a call given up, or nothing.    *)
LEMMA RefinesStep ==
  IInv /\ [Next]_vars => [Calls!CallNext]_(Calls!absVars)
<1> SUFFICES ASSUME IInv, [Next]_vars
             PROVE  \/ \E c \in Requests :
                         \/ Calls!Submit(c) \/ Calls!Answer(c)
                         \/ Calls!GiveUp(c)
                    \/ UNCHANGED <<Submitted, Outstanding, got>>
  BY DEF Calls!CallNext, Calls!absVars, Submitted
<1> DEFINE Goal == \/ \E c \in Requests :
                        \/ Calls!Submit(c) \/ Calls!Answer(c)
                        \/ Calls!GiveUp(c)
                   \/ UNCHANGED <<Submitted, Outstanding, got>>
<1>t. /\ pc \in [Call -> HandlerState] /\ outId \in [Call -> Nat]
      /\ DOMAIN pending \subseteq Nat \ {0} /\ next \in Nat \ {0}
      /\ IdsInv /\ MappingsInv /\ WaitersInv /\ DrainInv
  BY DEF IInv, TypeOK
<1>1. ASSUME UNCHANGED <<outId, pending, dpc, dmsg>>
      PROVE  UNCHANGED Outstanding
  BY <1>1 DEF Outstanding, Held
<1>2. ASSUME UNCHANGED pc PROVE UNCHANGED Submitted
  BY <1>2 DEF Submitted
<1>3. ASSUME NEW c \in Call, Start(c) PROVE Goal
  <2>1. /\ UNCHANGED <<pending, dpc, dmsg, got>>
        /\ \A d \in Call \ {c} : outId'[d] = outId[d] /\ pc'[d] = pc[d]
        /\ pc[c] = "idle" /\ outId[c] = 0
        /\ c \in Requests => pc'[c] = "minted" /\ outId'[c] = next
    BY <1>3, <1>t DEF behindVars, Start, StartCall, Mint, muxVars, drainVars,
                      Requests, IdsInv
  <2>2. c \in Requests => c \notin Outstanding /\ c \notin Outstanding'
    <3>1. next \notin DOMAIN pending /\ next # 0
      BY <1>t DEF IInv, TypeOK, MappingsInv, IdsInv, Requests
    <3>2. \A d \in Requests : outId[d] # next
      BY <1>t DEF IdsInv, Requests
    <3>3. dpc = "send" /\ ~dmsg.method => dmsg.id # next /\ dmsg.id # 0
      BY <1>t, <3>2 DEF DrainInv, IdsInv, Requests
    <3> QED BY <1>t, <2>1, <3>1, <3>3 DEF Outstanding, Held
  <2>3. Outstanding' = Outstanding
    BY <2>1, <2>2 DEF Outstanding, Held, Requests
  <2>4. Submitted' = Submitted
    BY <2>1 DEF Submitted, Requests
  <2> QED BY <2>1, <2>3, <2>4
<1>4. ASSUME NEW c \in Call, Map(c) PROVE Goal
  <2>1. /\ UNCHANGED <<outId, dpc, dmsg, got>>
        /\ DOMAIN pending' = DOMAIN pending \cup {outId[c]}
        /\ \A d \in Call \ {c} : pc'[d] = pc[d]
        /\ pc[c] = "minted" /\ pc'[c] \in {"mapped", "ready"}
        /\ c \in Requests
    BY <1>4, <1>t DEF behindVars, Map, MapCall, Remember, Insert, drainVars,
                      IdsInv, Requests
  <2>2. \A d \in Requests \ {c} : outId[d] # outId[c]
    BY <1>t, <2>1 DEF IdsInv, Requests
  <2>3. Outstanding' = Outstanding \cup {c}
    BY <2>1, <2>2 DEF Outstanding, Held
  <2>4. Submitted' = Submitted \cup {c} /\ c \notin Submitted
    BY <2>1 DEF Submitted, Requests
  <2> QED BY <2>1, <2>3, <2>4 DEF Calls!Submit, Submitted
<1>5. ASSUME NEW c \in Call,
             Expect(c) \/ Send(c) \/ Receive(c) \/ Abandon(c)
      PROVE  Goal
  <2>1. /\ UNCHANGED <<outId, pending, dpc, dmsg, got>>
        /\ \A d \in Call \ {c} : pc'[d] = pc[d]
        /\ pc[c] \notin {"idle", "minted"} /\ pc'[c] \notin {"idle", "minted"}
    BY <1>5, <1>t DEF behindVars, Expect, ExpectCall, Send, SendCall, Receive,
                      ReceiveCall, Abandon, AbandonCall, muxVars, drainVars
  <2> QED BY <1>1, <2>1 DEF Submitted, Requests
<1>6. CASE DrainRecv
  <2>1. /\ UNCHANGED <<pc, outId, pending, got>>
        /\ dpc = "recv" /\ dpc' \in {"settle", "classify"}
    BY <1>6 DEF DrainRecv, muxVars, handlerVars
  <2> QED BY <1>2, <2>1 DEF Outstanding, Held
(* A mapping that leaves the table takes its call with it. *)
<1>7. ASSUME dpc \in {"settle", "classify"}, Class(dmsg) = "RoutedResponse",
             DOMAIN pending' = DOMAIN pending \ {dmsg.id},
             UNCHANGED <<pc, outId>>
      PROVE  \E c \in Requests :
               /\ outId[c] = dmsg.id
               /\ pending[dmsg.id] = [session |-> c.session, id |-> c.id]
               /\ c \in Outstanding
               /\ dpc' = "recv" => Outstanding' = Outstanding \ {c}
               /\ dpc' = "send" /\ dmsg' = dmsg => Outstanding' = Outstanding
  <2>1. dmsg.id \in DOMAIN pending /\ ~dmsg.method
    BY <1>7 DEF Class
  <2>2. PICK c \in Requests :
          /\ outId[c] = dmsg.id
          /\ pending[dmsg.id] = [session |-> c.session, id |-> c.id]
    BY <1>t, <2>1, ZenonT(60) DEF MappingsInv
  <2>3. \A d \in Requests \ {c} : outId[d] # dmsg.id
    BY <1>t, <2>1, <2>2 DEF IdsInv, Requests
  <2>4. c \in Outstanding
    BY <2>1, <2>2 DEF Outstanding
  <2>5. dpc' = "send" /\ dmsg' = dmsg => Outstanding' = Outstanding
    BY <1>7, <2>1, <2>2, <2>3 DEF Outstanding, Held
  <2>6. dpc' = "recv" => Outstanding' = Outstanding \ {c}
    BY <1>7, <2>1, <2>2, <2>3 DEF Outstanding, Held
  <2> QED BY <2>2, <2>4, <2>5, <2>6
<1>8. CASE DrainSettle
  <2>1. /\ UNCHANGED <<pc, outId>> /\ dpc = "settle" /\ dpc' = "recv"
        /\ Classify(dmsg)
    BY <1>8 DEF DrainSettle, DrainNext
  <2>2. CASE Class(dmsg) = "RoutedResponse"
    <3>1. DOMAIN pending' = DOMAIN pending \ {dmsg.id}
      BY <2>1, <2>2 DEF Classify, Class, Remove, Restrict
    <3>2. PICK c \in Requests :
            /\ outId[c] = dmsg.id
            /\ pending[dmsg.id] = [session |-> c.session, id |-> c.id]
            /\ c \in Outstanding
            /\ Outstanding' = Outstanding \ {c}
      BY <1>7, <2>1, <2>2, <3>1
    <3>3. dwaiter = c
      <4>1. dwaiter \in Call /\ outId[dwaiter] = dmsg.id /\ Waits(dwaiter)
        BY <1>8, <1>t DEF DrainSettle, WaitersInv, Awaiting
      <4>2. dmsg.id # 0
        BY <1>t, <2>2 DEF Class
      <4> QED BY <1>t, <3>2, <4>1, <4>2 DEF IdsInv, Requests
    <3>4. got' \in {got, [got EXCEPT ![c.session][c.id] = @ + 1]}
      BY <1>8, <3>3 DEF DrainSettle, Reply
    <3> QED BY <1>2, <2>1, <3>2, <3>4
            DEF Calls!Answer, Calls!GiveUp, Submitted
  <2>3. CASE Class(dmsg) # "RoutedResponse"
    <3>1. DOMAIN pending' = DOMAIN pending /\ got' = got
      BY <1>8, <2>1, <2>3 DEF DrainSettle, Classify, Class, Remove, Restrict
    <3> QED BY <1>2, <2>1, <3>1 DEF Outstanding, Held
  <2> QED BY <2>2, <2>3
<1>9. CASE DrainClassify
  <2>1. /\ UNCHANGED <<pc, outId, got>> /\ dpc = "classify"
        /\ Classify(dmsg)
        /\ \/ dpc' = "recv"
           \/ dpc' = "send" /\ dmsg' = dmsg
    BY <1>9 DEF DrainClassify, DrainNext, handlerVars
  <2>2. CASE Class(dmsg) = "RoutedResponse"
    <3>1. DOMAIN pending' = DOMAIN pending \ {dmsg.id}
      BY <2>1, <2>2 DEF Classify, Class, Remove, Restrict
    <3> QED BY <1>2, <1>7, <2>1, <2>2, <3>1 DEF Calls!GiveUp, Submitted
  <2>3. CASE Class(dmsg) # "RoutedResponse"
    <3>1. DOMAIN pending' = DOMAIN pending
      BY <2>1, <2>3 DEF Classify, Class, Remove, Restrict
    <3>2. dpc' = "send" => dmsg.method
      BY <1>9, <2>3 DEF DrainClassify, DrainNext, Class
    <3> QED BY <1>2, <2>1, <3>1, <3>2 DEF Outstanding, Held
  <2> QED BY <2>2, <2>3
<1>10. CASE DrainSend
  <2>1. UNCHANGED <<pc, outId, pending>> /\ dpc = "send"
    BY <1>10 DEF DrainSend, muxVars, handlerVars
  <2>2. CASE dmsg.method
    <3>1. /\ got' = got
          /\ \/ dpc' = "recv"
             \/ dpc' = "send" /\ dmsg' = dmsg
      BY <1>10, <2>2 DEF DrainSend, DrainNext
    <3> QED BY <1>2, <2>1, <2>2, <3>1 DEF Outstanding, Held
  <2>3. CASE ~dmsg.method
    <3>1. PICK c \in Requests :
            /\ outId[c] = dmsg.id /\ pc[c] \notin {"idle", "minted"}
            /\ dreply = [session |-> c.session, id |-> c.id]
            /\ dtargets = {c.session}
      BY <1>t, <2>1, <2>3 DEF DrainInv
    <3>2. dmsg.id \notin DOMAIN pending
      BY <1>t, <2>1, <2>3 DEF DrainInv
    <3>3. dpc' = "recv"
      BY <1>10, <1>t, <2>1, <3>1 DEF DrainSend, DrainNext, DrainInv
    <3>4. \A d \in Requests \ {c} : outId[d] # dmsg.id
      <4>1. dmsg.id # 0
        BY <1>t, <3>1 DEF IdsInv, Requests
      <4> QED BY <1>t, <3>1, <4>1 DEF IdsInv, Requests
    <3>5. c \in Outstanding /\ Outstanding' = Outstanding \ {c}
      BY <2>1, <2>3, <3>1, <3>2, <3>3, <3>4 DEF Outstanding, Held
    <3>6. got' \in {got, [got EXCEPT ![c.session][c.id] = @ + 1]}
      BY <1>10, <2>3, <3>1 DEF DrainSend, Reply
    <3> QED BY <1>2, <2>1, <3>5, <3>6 DEF Calls!Answer, Calls!GiveUp, Submitted
  <2> QED BY <2>2, <2>3
<1>11. CASE UNCHANGED <<muxVars, handlerVars, drainVars, got>>
  BY <1>1, <1>2, <1>11 DEF muxVars, handlerVars, drainVars
<1>12. CASE Forward \/ WriteStdin \/ ChildExit \/ UNCHANGED vars
  BY <1>11, <1>12 DEF Forward, WriteStdin, ChildExit, vars
<1>13. ASSUME NEW n \in seen, ChildAnswer(n) PROVE Goal
  BY <1>11, <1>13 DEF ChildAnswer
<1>14. ASSUME NEW v \in OtherLines, ChildWrite(v) PROVE Goal
  BY <1>11, <1>14 DEF ChildWrite
<1>15. ASSUME NEW s \in Session,
              OpenStream(s) \/ ReadStream(s) \/ Disconnect(s) \/ Detach(s)
       PROVE  Goal
  BY <1>11, <1>15 DEF OpenStream, ReadStream, Disconnect, Detach
<1> QED BY <1>3, <1>4, <1>5, <1>6, <1>8, <1>9, <1>10, <1>12, <1>13, <1>14,
           <1>15
        DEF Next, Step, Handler, Drain

(* Whatever the child writes, answers to what it was not asked included,   *)
(* and whenever it exits, clients are given each reply at most once, in    *)
(* the session that asked and under the id it asked with, and none that    *)
(* was not asked for.                                                      *)
THEOREM ProxyImplementsCallService == Spec => RepliesMatchCalls
BY RefinesInit, RefinesStep, InvariantHolds, PTL
   DEF Spec, RepliesMatchCalls, Calls!CallSpec
=============================================================================
