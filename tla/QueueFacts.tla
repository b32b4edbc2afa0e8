------------------------------- MODULE QueueFacts -------------------------------
(***************************************************************************)
(* What the channels of the proxies hold: Range of a sequence that is put  *)
(* to at its end and taken from at its head.                               *)
(***************************************************************************)
EXTENDS Integers, Sequences, Table, TLAPS

(* What a queue holds after a message is put in ... *)
LEMMA PutFacts ==
  ASSUME NEW S, NEW q \in Seq(S), NEW x \in S
  PROVE  /\ Append(q, x) \in Seq(S)
         /\ Range(Append(q, x)) = Range(q) \cup {x}
<1>1. /\ DOMAIN Append(q, x) = DOMAIN q \cup {Len(q) + 1}
      /\ Append(q, x)[Len(q) + 1] = x
      /\ \A i \in DOMAIN q : Append(q, x)[i] = q[i]
  OBVIOUS
<1> QED BY <1>1 DEF Range

(* ... and after one is taken out. *)
LEMMA TakeFacts ==
  ASSUME NEW S, NEW q \in Seq(S), q # <<>>
  PROVE  /\ Head(q) \in S /\ Tail(q) \in Seq(S)
         /\ Head(q) \in Range(q)
         /\ Range(Tail(q)) \subseteq Range(q)
<1>1. /\ \A i \in DOMAIN Tail(q) : i + 1 \in DOMAIN q /\ Tail(q)[i] = q[i + 1]
      /\ 1 \in DOMAIN q /\ Head(q) = q[1]
  OBVIOUS
<1> QED BY <1>1 DEF Range

(* What a queue holds is at its head or behind it. *)
LEMMA HeadOrTail ==
  ASSUME NEW S, NEW q \in Seq(S), q # <<>>
  PROVE  Range(q) = {Head(q)} \cup Range(Tail(q))
<1>1. ASSUME NEW i \in DOMAIN q PROVE q[i] \in {Head(q)} \cup Range(Tail(q))
  <2>1. i # 1 => i - 1 \in DOMAIN Tail(q) /\ Tail(q)[i - 1] = q[i]
    BY <1>1
  <2> QED BY <1>1, <2>1 DEF Range
<1> QED BY <1>1, TakeFacts DEF Range

(* An empty queue holds nothing. *)
LEMMA EmptyQueue == Range(<<>>) = {}
BY DEF Range
=============================================================================
