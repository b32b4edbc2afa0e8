------------------------------- MODULE TextFacts -------------------------------
(***************************************************************************)
(* Facts about the operators on texts that Entries is built from: finding, *)
(* trimming, splitting and joining, for texts of any length.               *)
(***************************************************************************)
EXTENDS Entries, FiniteSetTheorems, SequenceTheorems, TLAPS

(* A set of numbers has a least one, and one in an interval a greatest.    *)
LEMMA LeastNumber ==
  ASSUME NEW S \in SUBSET Nat, S # {}
  PROVE  \E x \in S : \A y \in S : x <= y
<1> DEFINE F == {0 .. k : k \in S}
           O == StrictSubsetOrdering(Nat)
<1>1. F \subseteq FiniteSubsetsOf(Nat) /\ F # {}
  <2>1. ASSUME NEW k \in S PROVE 0 .. k \in FiniteSubsetsOf(Nat)
    BY FS_Interval DEF FiniteSubsetsOf
  <2> QED BY <2>1
<1>2. PICK I \in F : \A J \in F : <<J, I>> \notin O
  <2>1. IsWellFoundedOn(O, FiniteSubsetsOf(Nat))
    BY FS_StrictSubsetOrderingWellFounded
  <2> HIDE DEF F, O
  <2> QED BY <1>1, <2>1, WFMin
<1>3. PICK x \in S : I = 0 .. x
  OBVIOUS
<1>4. ASSUME NEW y \in S, y < x PROVE FALSE
  <2>1. 0 .. y \in F /\ 0 .. y \subseteq 0 .. x /\ x \in 0 .. x /\ x \notin 0 .. y
    BY <1>4
  <2>2. <<0 .. y, 0 .. x>> \in O
    BY <1>4, <2>1 DEF StrictSubsetOrdering
  <2> QED BY <1>2, <1>3, <2>1, <2>2
<1>5. \A y \in S : x <= y
  BY <1>4
<1> QED BY <1>5

LEMMA GreatestNumber ==
  ASSUME NEW n \in Nat, NEW S \in SUBSET (1 .. n), S # {}
  PROVE  \E x \in S : \A y \in S : x >= y
<1> DEFINE D == {n - x : x \in S}
<1>1. D \in SUBSET Nat /\ D # {}
  <2>1. ASSUME NEW x \in S PROVE n - x \in Nat
    OBVIOUS
  <2>2. PICK x \in S : TRUE
    OBVIOUS
  <2>3. n - x \in D
    BY <2>2
  <2> QED BY <2>1, <2>3
<1>2. PICK d \in D : \A e \in D : d <= e
  <2> HIDE DEF D
  <2> QED BY <1>1, LeastNumber
<1>3. PICK x \in S : d = n - x
  OBVIOUS
<1>4. ASSUME NEW y \in S PROVE x >= y
  <2>1. n - y \in D
    OBVIOUS
  <2>2. n - x <= n - y
    BY <1>2, <1>3, <2>1
  <2> QED BY <2>2
<1> QED BY <1>4

(* Find gives the first symbol looked for. *)
LEMMA FindFacts ==
  ASSUME NEW t \in Chars, NEW S
  PROVE  \/ Find(t, S) = 0 /\ \A i \in 1 .. Len(t) : t[i] \notin S
         \/ /\ Find(t, S) \in 1 .. Len(t) /\ t[Find(t, S)] \in S
            /\ \A i \in 1 .. Find(t, S) - 1 : t[i] \notin S
<1> DEFINE I == {i \in 1 .. Len(t) : t[i] \in S}
<1>1. Find(t, S) = IF I # {} THEN CHOOSE x \in I : \A y \in I : x =< y ELSE 0
  BY DEF Find, Seqs!SelectInSeq, Seqs!Min
<1>2. CASE I = {}
  BY <1>1, <1>2
<1>3. CASE I # {}
  <2>1. \E x \in I : \A y \in I : x <= y
    <3>1. I \in SUBSET Nat
      OBVIOUS
    <3> HIDE DEF I
    <3> QED BY <1>3, <3>1, LeastNumber
  <2>2. Find(t, S) \in I /\ \A y \in I : Find(t, S) <= y
    <3> HIDE DEF I
    <3> QED BY <1>1, <1>3, <2>1
  <2>3. Len(t) \in Nat
    BY DEF Chars
  <2>4. ASSUME NEW i \in 1 .. Find(t, S) - 1 PROVE t[i] \notin S
    BY <2>2, <2>3
  <2> QED BY <2>2, <2>4
<1> QED BY <1>2, <1>3

(* A text looked through for the first place, which is known.              *)
LEMMA FindAt ==
  ASSUME NEW t \in Chars, NEW S, NEW n \in 1 .. Len(t), t[n] \in S,
         \A i \in 1 .. n - 1 : t[i] \notin S
  PROVE  Find(t, S) = n
<1>1. Len(t) \in Nat
  BY DEF Chars
<1>2. Find(t, S) \in 1 .. Len(t) /\ t[Find(t, S)] \in S
      /\ \A i \in 1 .. Find(t, S) - 1 : t[i] \notin S
  BY FindFacts
<1>3. ~(Find(t, S) < n) /\ ~(n < Find(t, S))
  BY <1>1, <1>2
<1> QED BY <1>1, <1>2, <1>3

(* A text with a symbol that stays loses, at either end, what lies outside *)
(* the outermost such symbols.                                             *)
LEMMA TrimStartFacts ==
  ASSUME NEW t \in Chars, NEW S, NEW k \in 1 .. Len(t), t[k] \notin S
  PROVE  \E i \in 1 .. k :
           /\ t[i] \notin S
           /\ \A m \in 1 .. i - 1 : t[m] \in S
           /\ TrimStart(t, S) = SubSeq(t, i, Len(t))
<1> DEFINE I == {m \in 1 .. Len(t) : t[m] \notin S}
           f == CHOOSE x \in I : \A y \in I : x =< y
<1>1. Len(t) \in Nat
  BY DEF Chars
<1>2. k \in I /\ I \in SUBSET Nat
  OBVIOUS
<1>3. f \in I /\ \A y \in I : f <= y
  <2> HIDE DEF I
  <2>1. \E x \in I : \A y \in I : x <= y
    BY <1>2, LeastNumber
  <2> QED BY <2>1
<1>4. TrimStart(t, S) = LET i == IF I # {} THEN f ELSE 0 IN
                        IF i = 0 THEN <<>> ELSE SubSeq(t, i, Len(t))
  BY DEF TrimStart, Seqs!SelectInSeq, Seqs!Min
<1>5. I # {} /\ f # 0
  BY <1>2, <1>3
<1>6. TrimStart(t, S) = SubSeq(t, f, Len(t))
  <2> HIDE DEF I, f
  <2> QED BY <1>4, <1>5
<1>7. f \in 1 .. k /\ t[f] \notin S /\ \A m \in 1 .. f - 1 : t[m] \in S
  <2> HIDE DEF f
  <2>1. f \in 1 .. k
    BY <1>1, <1>2, <1>3
  <2>2. ASSUME NEW m \in 1 .. f - 1 PROVE t[m] \in S
    BY <1>1, <1>3
  <2> QED BY <1>3, <2>1, <2>2
<1> QED BY <1>6, <1>7

LEMMA TrimEndFacts ==
  ASSUME NEW t \in Chars, NEW S, NEW k \in 1 .. Len(t), t[k] \notin S
  PROVE  \E j \in k .. Len(t) :
           /\ t[j] \notin S
           /\ \A m \in j + 1 .. Len(t) : t[m] \in S
           /\ TrimEnd(t, S) = SubSeq(t, 1, j)
<1> DEFINE I == {m \in 1 .. Len(t) : t[m] \notin S}
           g == CHOOSE x \in I : \A y \in I : x >= y
<1>1. Len(t) \in Nat
  BY DEF Chars
<1>2. k \in I /\ I \in SUBSET (1 .. Len(t))
  OBVIOUS
<1>3. g \in I /\ \A y \in I : g >= y
  <2> HIDE DEF I
  <2>1. \E x \in I : \A y \in I : x >= y
    BY <1>1, <1>2, GreatestNumber
  <2> QED BY <2>1
<1>4. TrimEnd(t, S) = SubSeq(t, 1, IF I # {} THEN g ELSE 0)
  BY DEF TrimEnd, Seqs!SelectLastInSeq, Seqs!Max
<1>5. I # {}
  BY <1>2
<1>6. TrimEnd(t, S) = SubSeq(t, 1, g)
  <2> HIDE DEF I, g
  <2> QED BY <1>4, <1>5
<1>7. g \in k .. Len(t) /\ t[g] \notin S /\ \A m \in g + 1 .. Len(t) : t[m] \in S
  <2> HIDE DEF g
  <2>1. g \in k .. Len(t)
    BY <1>1, <1>2, <1>3
  <2>2. ASSUME NEW m \in g + 1 .. Len(t) PROVE t[m] \in S
    BY <1>1, <1>3
  <2> QED BY <1>3, <2>1, <2>2
<1> QED BY <1>6, <1>7

(* A part of a text is a text. *)
LEMMA PartFacts ==
  ASSUME NEW t \in Chars, NEW i \in 1 .. Len(t), NEW j \in i .. Len(t)
  PROVE  /\ SubSeq(t, i, j) \in Chars /\ Len(SubSeq(t, i, j)) = j - i + 1
         /\ \A m \in 1 .. j - i + 1 : SubSeq(t, i, j)[m] = t[i + m - 1]
<1>1. Len(t) \in Nat
  BY DEF Chars
<1>2. \A m \in i .. j : t[m] \in Symbols
  BY <1>1 DEF Chars
<1>3. i \in Int /\ j \in Int /\ i <= j
  BY <1>1
<1>4. /\ SubSeq(t, i, j) \in Seq(Symbols)
      /\ Len(SubSeq(t, i, j)) = IF i <= j THEN j - i + 1 ELSE 0
      /\ \A m \in 1 .. j - i + 1 : SubSeq(t, i, j)[m] = t[i + m - 1]
  BY <1>2, <1>3, SubSeqProperties
<1> QED BY <1>3, <1>4 DEF Chars

(* A text that is not all blank is trimmed to what lies between its first  *)
(* and its last symbol that is no blank.                                   *)
LEMMA TrimFacts ==
  ASSUME NEW t \in Chars, NEW k \in 1 .. Len(t), t[k] \notin White
  PROVE  \E i \in 1 .. k, j \in k .. Len(t) :
           /\ t[i] \notin White /\ \A m \in 1 .. i - 1 : t[m] \in White
           /\ t[j] \notin White /\ \A m \in j + 1 .. Len(t) : t[m] \in White
           /\ Trim(t) \in Chars /\ Len(Trim(t)) = j - i + 1
           /\ \A m \in 1 .. j - i + 1 : Trim(t)[m] = t[i + m - 1]
<1> DEFINE n == Len(t)
<1>1. n \in Nat
  BY DEF Chars
<1>2. PICK i \in 1 .. k :
         /\ t[i] \notin White
         /\ \A m \in 1 .. i - 1 : t[m] \in White
         /\ TrimStart(t, White) = SubSeq(t, i, n)
  BY TrimStartFacts
<1> DEFINE u == SubSeq(t, i, n)
<1>3. u \in Chars /\ Len(u) = n - i + 1
      /\ \A m \in 1 .. n - i + 1 : u[m] = t[i + m - 1]
  BY <1>1, PartFacts
<1>4. k - i + 1 \in 1 .. Len(u) /\ u[k - i + 1] \notin White
  <2>1. k - i + 1 \in 1 .. n - i + 1
    BY <1>1
  <2>2. u[k - i + 1] = t[i + (k - i + 1) - 1]
    BY <1>3, <2>1
  <2>3. i + (k - i + 1) - 1 = k
    BY <1>1
  <2> QED BY <1>3, <2>1, <2>2, <2>3
<1> HIDE DEF u
<1>5. PICK g \in k - i + 1 .. Len(u) :
         /\ u[g] \notin White
         /\ \A m \in g + 1 .. Len(u) : u[m] \in White
         /\ TrimEnd(u, White) = SubSeq(u, 1, g)
  BY <1>3, <1>4, TrimEndFacts
<1> DEFINE j == i + g - 1
<1>6. g \in 1 .. n - i + 1 /\ j \in k .. n /\ j - i + 1 = g
  BY <1>1, <1>3
<1>7. t[j] \notin White
  BY <1>3, <1>5, <1>6
<1>8. ASSUME NEW m \in j + 1 .. n PROVE t[m] \in White
  <2>1. m - i + 1 \in g + 1 .. Len(u) /\ i + (m - i + 1) - 1 = m
    BY <1>1, <1>3, <1>6
  <2>2. u[m - i + 1] = t[m]
    BY <1>1, <1>3, <1>6, <2>1
  <2> QED BY <1>5, <2>1, <2>2
<1>9. Trim(t) = SubSeq(u, 1, g)
  BY <1>2, <1>5 DEF Trim, u
<1>10. 1 \in 1 .. Len(u) /\ g \in 1 .. Len(u) /\ g - 1 + 1 = g
  BY <1>1, <1>3, <1>6
<1>11. Trim(t) \in Chars /\ Len(Trim(t)) = g
       /\ \A m \in 1 .. g : Trim(t)[m] = u[1 + m - 1]
  BY <1>3, <1>9, <1>10, PartFacts
<1>12. ASSUME NEW m \in 1 .. g PROVE Trim(t)[m] = t[i + m - 1]
  <2>1. 1 + m - 1 = m /\ m \in 1 .. n - i + 1
    BY <1>1, <1>6
  <2> QED BY <1>3, <1>11, <2>1
<1>13. /\ t[i] \notin White /\ \A m \in 1 .. i - 1 : t[m] \in White
       /\ t[j] \notin White /\ \A m \in j + 1 .. Len(t) : t[m] \in White
       /\ Trim(t) \in Chars /\ Len(Trim(t)) = j - i + 1
       /\ \A m \in 1 .. j - i + 1 : Trim(t)[m] = t[i + m - 1]
  <2> HIDE DEF j
  <2>1. t[i] \notin White /\ \A m \in 1 .. i - 1 : t[m] \in White
    BY <1>2
  <2>2. \A m \in 1 .. j - i + 1 : Trim(t)[m] = t[i + m - 1]
    BY <1>6, <1>12
  <2>3. Len(Trim(t)) = j - i + 1
    BY <1>6, <1>11
  <2> QED BY <1>7, <1>8, <1>11, <2>1, <2>2, <2>3
<1> HIDE DEF j
<1> QED BY <1>6, <1>13, Zenon

(* A text that is all blank is trimmed to nothing. *)
LEMMA TrimBlank ==
  ASSUME NEW t \in Chars, \A m \in 1 .. Len(t) : t[m] \in White
  PROVE  Trim(t) = <<>>
<1>1. {m \in 1 .. Len(t) : t[m] \notin White} = {}
  OBVIOUS
<1>2. TrimStart(t, White) = <<>>
  BY <1>1 DEF TrimStart, Seqs!SelectInSeq
<1>3. {m \in 1 .. Len(<<>>) : <<>>[m] \notin White} = {}
  OBVIOUS
<1>4. TrimEnd(<<>>, White) = SubSeq(<<>>, 1, 0)
  BY <1>3 DEF TrimEnd, Seqs!SelectLastInSeq
<1>5. SubSeq(<<>>, 1, 0) = <<>>
  BY SubSeqEmpty
<1> QED BY <1>2, <1>4, <1>5 DEF Trim

(* Two texts are the same when their symbols are. *)
LEMMA SameText ==
  ASSUME NEW t \in Chars, NEW u \in Chars, Len(t) = Len(u),
         \A m \in 1 .. Len(t) : t[m] = u[m]
  PROVE  t = u
BY SeqEqual DEF Chars

LEMMA TrimNone ==
  ASSUME NEW t \in Chars, \A m \in 1 .. Len(t) : t[m] \notin White
  PROVE  Trim(t) = t
<1>1. Len(t) \in Nat
  BY DEF Chars
<1>2. CASE Len(t) = 0
  <2>1. t = <<>>
    BY <1>2, EmptySeq DEF Chars
  <2> QED BY <1>2, <2>1, TrimBlank
<1>3. CASE Len(t) # 0
  <2>1. 1 \in 1 .. Len(t)
    BY <1>1, <1>3
  <2>2. PICK i \in 1 .. 1, j \in 1 .. Len(t) :
           /\ t[i] \notin White /\ \A m \in 1 .. i - 1 : t[m] \in White
           /\ t[j] \notin White /\ \A m \in j + 1 .. Len(t) : t[m] \in White
           /\ Trim(t) \in Chars /\ Len(Trim(t)) = j - i + 1
           /\ \A m \in 1 .. j - i + 1 : Trim(t)[m] = t[i + m - 1]
    BY <2>1, TrimFacts, Zenon
  <2>3. i = 1 /\ j = Len(t)
    <3>1. i = 1
      OBVIOUS
    <3>2. j < Len(t) => Len(t) \in j + 1 .. Len(t)
      BY <1>1
    <3>3. j = Len(t)
      BY <1>1, <2>1, <2>2, <3>2
    <3> QED BY <3>1, <3>3
  <2>4. Len(Trim(t)) = Len(t) /\ \A m \in 1 .. Len(t) : Trim(t)[m] = t[m]
    <3>1. j - i + 1 = Len(t) /\ \A m \in 1 .. Len(t) : i + m - 1 = m
      BY <1>1, <2>3
    <3> QED BY <2>2, <3>1
  <2> QED BY <2>2, <2>4, SameText
<1> QED BY <1>2, <1>3

(* What texts put together hold. *)
LEMMA Joined ==
  ASSUME NEW t \in Chars, NEW u \in Chars
  PROVE  /\ t \o u \in Chars /\ Len(t \o u) = Len(t) + Len(u)
         /\ \A m \in 1 .. Len(t) : (t \o u)[m] = t[m]
         /\ \A m \in 1 .. Len(u) : (t \o u)[Len(t) + m] = u[m]
<1>1. Len(t) \in Nat /\ Len(u) \in Nat
  BY DEF Chars
<1>2. /\ t \o u \in Chars /\ Len(t \o u) = Len(t) + Len(u)
      /\ \A m \in 1 .. Len(t) + Len(u) :
           (t \o u)[m] = IF m <= Len(t) THEN t[m] ELSE u[m - Len(t)]
  BY ConcatProperties DEF Chars
<1>3. ASSUME NEW m \in 1 .. Len(t) PROVE (t \o u)[m] = t[m]
  <2>1. m \in 1 .. Len(t) + Len(u) /\ m <= Len(t)
    BY <1>1
  <2> QED BY <1>2, <2>1
<1>4. ASSUME NEW m \in 1 .. Len(u) PROVE (t \o u)[Len(t) + m] = u[m]
  <2>1. /\ Len(t) + m \in 1 .. Len(t) + Len(u) /\ ~(Len(t) + m <= Len(t))
        /\ (Len(t) + m) - Len(t) = m
    BY <1>1
  <2> QED BY <1>2, <2>1
<1> QED BY <1>2, <1>3, <1>4

(* What is trimmed is a text, and so is what lies before a symbol. *)
LEMMA TrimText ==
  ASSUME NEW t \in Chars
  PROVE  Trim(t) \in Chars
<1>1. CASE \A m \in 1 .. Len(t) : t[m] \in White
  <2>1. <<>> \in Chars
    BY DEF Chars
  <2> QED BY <1>1, <2>1, TrimBlank
<1>2. CASE ~ \A m \in 1 .. Len(t) : t[m] \in White
  <2>1. PICK k \in 1 .. Len(t) : t[k] \notin White
    BY <1>2
  <2> QED BY <2>1, TrimFacts, Zenon
<1> QED BY <1>1, <1>2

LEMMA UpToText ==
  ASSUME NEW t \in Chars, NEW S
  PROVE  UpTo(t, S) \in Chars
<1>1. Len(t) \in Nat
  BY DEF Chars
<1>2. CASE Find(t, S) \in {0, 1}
  <2>1. CASE Find(t, S) = 0
    BY <2>1 DEF UpTo
  <2>2. CASE Find(t, S) = 1
    <3>1. UpTo(t, S) = SubSeq(t, 1, 0)
      BY <2>2 DEF UpTo
    <3> QED BY <3>1, SubSeqEmpty DEF Chars
  <2> QED BY <1>2, <2>1, <2>2
<1>3. CASE Find(t, S) \notin {0, 1}
  <2>1. Find(t, S) \in 1 .. Len(t)
    BY <1>3, FindFacts
  <2>2. 1 \in 1 .. Len(t) /\ Find(t, S) - 1 \in 1 .. Len(t)
    BY <1>1, <1>3, <2>1
  <2>3. SubSeq(t, 1, Find(t, S) - 1) \in Chars
    BY <2>2, PartFacts
  <2> QED BY <1>3, <2>3 DEF UpTo
<1> QED BY <1>2, <1>3

-----------------------------------------------------------------------------
(* What the recursive functions of Entries compute, symbol by symbol.      *)

LEMMA Induct ==
  ASSUME NEW N \in Nat, NEW P, 0 \in P, \A n \in 1 .. N : n - 1 \in P => n \in P
  PROVE  N \in P /\ \A n \in 0 .. N : n \in P
<1> DEFINE S == {n \in 0 .. N : n \notin P}
<1>1. CASE S = {}
  BY <1>1
<1>2. CASE S # {}
  <2>1. S \in SUBSET Nat
    OBVIOUS
  <2>2. PICK x \in S : \A y \in S : x <= y
    <3> HIDE DEF S
    <3> QED BY <1>2, <2>1, LeastNumber
  <2>3. x \in 1 .. N /\ x - 1 \in 0 .. N /\ x - 1 < x /\ x \notin P
    OBVIOUS
  <2>4. x - 1 \in P
    BY <2>2, <2>3
  <2> QED BY <2>3, <2>4
<1> QED BY <1>1, <1>2

LEMMA SplitRun ==
  ASSUME NEW t, Len(t) \in Nat, NEW S
  PROVE  \E f : /\ f = [n \in 0 .. Len(t) |->
                          IF n = 0 THEN <<<<>>>> ELSE Cut(f[n - 1], t[n], S)]
                /\ Split(t, S) = f[Len(t)]
<1> DEFINE Is(f, k) == f = [n \in 0 .. k |->
                              IF n = 0 THEN <<<<>>>> ELSE Cut(f[n - 1], t[n], S)]
           P == {k \in 0 .. Len(t) : \E f : Is(f, k)}
<1>1. 0 \in P
  <2>1. Is([n \in 0 .. 0 |-> <<<<>>>>], 0)
    OBVIOUS
  <2> HIDE DEF Is
  <2> QED BY <2>1
<1>2. ASSUME NEW k \in 1 .. Len(t), k - 1 \in P PROVE k \in P
  <2>1. PICK f : Is(f, k - 1)
    BY <1>2
  <2> DEFINE g == [n \in 0 .. k |->
                     IF n = 0 THEN <<<<>>>> ELSE Cut(f[n - 1], t[n], S)]
  <2>2. ASSUME NEW n \in 1 .. k PROVE g[n - 1] = f[n - 1]
    BY <2>1
  <2>3. \A n \in 0 .. k :
           (IF n = 0 THEN <<<<>>>> ELSE Cut(f[n - 1], t[n], S))
             = (IF n = 0 THEN <<<<>>>> ELSE Cut(g[n - 1], t[n], S))
    <3>1. ASSUME NEW n \in 0 .. k, n # 0 PROVE n \in 1 .. k
      BY <3>1
    <3> HIDE DEF g
    <3> QED BY <2>2, <3>1, Zenon
  <2>4. Is(g, k)
    BY <2>3, Zenon
  <2> HIDE DEF Is, g
  <2> QED BY <2>4
<1>3. \E f : Is(f, Len(t))
  <2> HIDE DEF P
  <2>1. Len(t) \in P
    <3>1. \A n \in 1 .. Len(t) : n - 1 \in P => n \in P
      BY <1>2
    <3> QED BY <1>1, <3>1, Induct
  <2> QED BY <2>1 DEF P
<1>4. Split(t, S) = (CHOOSE f : Is(f, Len(t)))[Len(t)]
  BY DEF Split
<1> DEFINE c == CHOOSE f : Is(f, Len(t))
<1>5. Is(c, Len(t))
  <2> HIDE DEF Is
  <2> QED BY <1>3
<1>6. Split(t, S) = c[Len(t)]
  BY <1>4
<1> HIDE DEF c
<1> QED BY <1>5, <1>6

LEMMA SplitLaw ==
  ASSUME NEW A, NEW t \in Seq(A), NEW c \in A, NEW S
  PROVE  /\ Split(<<>>, S) = <<<<>>>>
         /\ Split(Append(t, c), S) = Cut(Split(t, S), c, S)
<1> DEFINE u == Append(t, c)
           k == Len(t)
<1>1. k \in Nat /\ Len(u) = k + 1 /\ u[k + 1] = c /\ \A n \in 1 .. k : u[n] = t[n]
  OBVIOUS
<1>2. PICK f : /\ f = [n \in 0 .. k |->
                         IF n = 0 THEN <<<<>>>> ELSE Cut(f[n - 1], t[n], S)]
               /\ Split(t, S) = f[k]
  BY <1>1, SplitRun
<1>3. PICK g : /\ g = [n \in 0 .. Len(u) |->
                         IF n = 0 THEN <<<<>>>> ELSE Cut(g[n - 1], u[n], S)]
               /\ Split(u, S) = g[Len(u)]
  <2>1. Len(u) \in Nat
    BY <1>1
  <2> HIDE DEF u
  <2> QED BY <2>1, SplitRun
<1>4. PICK h : /\ h = [n \in 0 .. Len(<<>>) |->
                         IF n = 0 THEN <<<<>>>> ELSE Cut(h[n - 1], <<>>[n], S)]
               /\ Split(<<>>, S) = h[Len(<<>>)]
  <2>1. Len(<<>>) \in Nat
    OBVIOUS
  <2> QED BY <2>1, SplitRun
<1>5. Split(<<>>, S) = <<<<>>>>
  BY <1>4
<1> DEFINE P == {n \in 0 .. k : f[n] = g[n]}
<1> HIDE DEF u
<1>6. 0 \in P
  BY <1>1, <1>2, <1>3
<1>7. ASSUME NEW n \in 1 .. k, n - 1 \in P PROVE n \in P
  <2>0. n \in 0 .. k /\ n \in 0 .. Len(u) /\ n # 0
    BY <1>1
  <2>1. f[n] = Cut(f[n - 1], t[n], S)
    BY <1>2, <2>0
  <2>2. g[n] = Cut(g[n - 1], u[n], S)
    BY <1>3, <2>0
  <2> QED BY <1>1, <1>7, <2>1, <2>2
<1>8. f[k] = g[k]
  <2> HIDE DEF P
  <2>1. k \in P
    <3>1. \A n \in 1 .. k : n - 1 \in P => n \in P
      BY <1>7
    <3> QED BY <1>1, <1>6, <3>1, Induct
  <2> QED BY <2>1 DEF P
<1>9. g[k + 1] = Cut(g[k], u[k + 1], S)
  BY <1>1, <1>3
<1>10. Split(u, S) = Cut(Split(t, S), c, S)
  BY <1>1, <1>2, <1>3, <1>8, <1>9
<1> QED BY <1>5, <1>10 DEF u

LEMMA NonEmptyRun ==
  ASSUME NEW t, Len(t) \in Nat
  PROVE  \E f : /\ f = [n \in 0 .. Len(t) |->
                          IF n = 0 THEN <<>> ELSE Keep(f[n - 1], t[n])]
                /\ NonEmpty(t) = f[Len(t)]
<1> DEFINE Is(f, k) == f = [n \in 0 .. k |->
                              IF n = 0 THEN <<>> ELSE Keep(f[n - 1], t[n])]
           P == {k \in 0 .. Len(t) : \E f : Is(f, k)}
<1>1. 0 \in P
  <2>1. Is([n \in 0 .. 0 |-> <<>>], 0)
    OBVIOUS
  <2> HIDE DEF Is
  <2> QED BY <2>1
<1>2. ASSUME NEW k \in 1 .. Len(t), k - 1 \in P PROVE k \in P
  <2>1. PICK f : Is(f, k - 1)
    BY <1>2
  <2> DEFINE g == [n \in 0 .. k |->
                     IF n = 0 THEN <<>> ELSE Keep(f[n - 1], t[n])]
  <2>2. ASSUME NEW n \in 1 .. k PROVE g[n - 1] = f[n - 1]
    BY <2>1
  <2>3. \A n \in 0 .. k :
           (IF n = 0 THEN <<>> ELSE Keep(f[n - 1], t[n]))
             = (IF n = 0 THEN <<>> ELSE Keep(g[n - 1], t[n]))
    <3>1. ASSUME NEW n \in 0 .. k, n # 0 PROVE n \in 1 .. k
      BY <3>1
    <3> HIDE DEF g
    <3> QED BY <2>2, <3>1, Zenon
  <2>4. Is(g, k)
    BY <2>3, Zenon
  <2> HIDE DEF Is, g
  <2> QED BY <2>4
<1>3. \E f : Is(f, Len(t))
  <2> HIDE DEF P
  <2>1. Len(t) \in P
    <3>1. \A n \in 1 .. Len(t) : n - 1 \in P => n \in P
      BY <1>2
    <3> QED BY <1>1, <3>1, Induct
  <2> QED BY <2>1 DEF P
<1>4. NonEmpty(t) = (CHOOSE f : Is(f, Len(t)))[Len(t)]
  BY DEF NonEmpty
<1> DEFINE c == CHOOSE f : Is(f, Len(t))
<1>5. Is(c, Len(t))
  <2> HIDE DEF Is
  <2> QED BY <1>3
<1>6. NonEmpty(t) = c[Len(t)]
  BY <1>4
<1> HIDE DEF c
<1> QED BY <1>5, <1>6

LEMMA NonEmptyLaw ==
  ASSUME NEW A, NEW t \in Seq(A), NEW c \in A
  PROVE  /\ NonEmpty(<<>>) = <<>>
         /\ NonEmpty(Append(t, c)) = Keep(NonEmpty(t), c)
<1> DEFINE u == Append(t, c)
           k == Len(t)
<1>1. k \in Nat /\ Len(u) = k + 1 /\ u[k + 1] = c /\ \A n \in 1 .. k : u[n] = t[n]
  OBVIOUS
<1>2. PICK f : /\ f = [n \in 0 .. k |->
                         IF n = 0 THEN <<>> ELSE Keep(f[n - 1], t[n])]
               /\ NonEmpty(t) = f[k]
  BY <1>1, NonEmptyRun
<1>3. PICK g : /\ g = [n \in 0 .. Len(u) |->
                         IF n = 0 THEN <<>> ELSE Keep(g[n - 1], u[n])]
               /\ NonEmpty(u) = g[Len(u)]
  <2>1. Len(u) \in Nat
    BY <1>1
  <2> HIDE DEF u
  <2> QED BY <2>1, NonEmptyRun
<1>4. PICK h : /\ h = [n \in 0 .. Len(<<>>) |->
                         IF n = 0 THEN <<>> ELSE Keep(h[n - 1], <<>>[n])]
               /\ NonEmpty(<<>>) = h[Len(<<>>)]
  <2>1. Len(<<>>) \in Nat
    OBVIOUS
  <2> QED BY <2>1, NonEmptyRun
<1>5. NonEmpty(<<>>) = <<>>
  BY <1>4
<1> DEFINE P == {n \in 0 .. k : f[n] = g[n]}
<1> HIDE DEF u
<1>6. 0 \in P
  BY <1>1, <1>2, <1>3
<1>7. ASSUME NEW n \in 1 .. k, n - 1 \in P PROVE n \in P
  <2>0. n \in 0 .. k /\ n \in 0 .. Len(u) /\ n # 0
    BY <1>1
  <2>1. f[n] = Keep(f[n - 1], t[n])
    BY <1>2, <2>0
  <2>2. g[n] = Keep(g[n - 1], u[n])
    BY <1>3, <2>0
  <2> QED BY <1>1, <1>7, <2>1, <2>2
<1>8. f[k] = g[k]
  <2> HIDE DEF P
  <2>1. k \in P
    <3>1. \A n \in 1 .. k : n - 1 \in P => n \in P
      BY <1>7
    <3> QED BY <1>1, <1>6, <3>1, Induct
  <2> QED BY <2>1 DEF P
<1>9. g[k + 1] = Keep(g[k], u[k + 1])
  BY <1>1, <1>3
<1>10. NonEmpty(u) = Keep(NonEmpty(t), c)
  BY <1>1, <1>2, <1>3, <1>8, <1>9
<1> QED BY <1>5, <1>10 DEF u

LEMMA FlatRun ==
  ASSUME NEW t, Len(t) \in Nat
  PROVE  \E f : /\ f = [n \in 0 .. Len(t) |->
                          IF n = 0 THEN <<>> ELSE f[n - 1] \o t[n]]
                /\ Flat(t) = f[Len(t)]
<1> DEFINE Is(f, k) == f = [n \in 0 .. k |->
                              IF n = 0 THEN <<>> ELSE f[n - 1] \o t[n]]
           P == {k \in 0 .. Len(t) : \E f : Is(f, k)}
<1>1. 0 \in P
  <2>1. Is([n \in 0 .. 0 |-> <<>>], 0)
    OBVIOUS
  <2> HIDE DEF Is
  <2> QED BY <2>1
<1>2. ASSUME NEW k \in 1 .. Len(t), k - 1 \in P PROVE k \in P
  <2>1. PICK f : Is(f, k - 1)
    BY <1>2
  <2> DEFINE g == [n \in 0 .. k |->
                     IF n = 0 THEN <<>> ELSE f[n - 1] \o t[n]]
  <2>2. ASSUME NEW n \in 1 .. k PROVE g[n - 1] = f[n - 1]
    BY <2>1
  <2>3. \A n \in 0 .. k :
           (IF n = 0 THEN <<>> ELSE f[n - 1] \o t[n])
             = (IF n = 0 THEN <<>> ELSE g[n - 1] \o t[n])
    <3>1. ASSUME NEW n \in 0 .. k, n # 0 PROVE n \in 1 .. k
      BY <3>1
    <3> HIDE DEF g
    <3> QED BY <2>2, <3>1, Zenon
  <2>4. Is(g, k)
    BY <2>3, Zenon
  <2> HIDE DEF Is, g
  <2> QED BY <2>4
<1>3. \E f : Is(f, Len(t))
  <2> HIDE DEF P
  <2>1. Len(t) \in P
    <3>1. \A n \in 1 .. Len(t) : n - 1 \in P => n \in P
      BY <1>2
    <3> QED BY <1>1, <3>1, Induct
  <2> QED BY <2>1 DEF P
<1>4. Flat(t) = (CHOOSE f : Is(f, Len(t)))[Len(t)]
  BY DEF Flat
<1> DEFINE c == CHOOSE f : Is(f, Len(t))
<1>5. Is(c, Len(t))
  <2> HIDE DEF Is
  <2> QED BY <1>3
<1>6. Flat(t) = c[Len(t)]
  BY <1>4
<1> HIDE DEF c
<1> QED BY <1>5, <1>6

LEMMA FlatLaw ==
  ASSUME NEW A, NEW t \in Seq(A), NEW c \in A
  PROVE  /\ Flat(<<>>) = <<>>
         /\ Flat(Append(t, c)) = Flat(t) \o c
<1> DEFINE u == Append(t, c)
           k == Len(t)
<1>1. k \in Nat /\ Len(u) = k + 1 /\ u[k + 1] = c /\ \A n \in 1 .. k : u[n] = t[n]
  OBVIOUS
<1>2. PICK f : /\ f = [n \in 0 .. k |->
                         IF n = 0 THEN <<>> ELSE f[n - 1] \o t[n]]
               /\ Flat(t) = f[k]
  BY <1>1, FlatRun
<1>3. PICK g : /\ g = [n \in 0 .. Len(u) |->
                         IF n = 0 THEN <<>> ELSE g[n - 1] \o u[n]]
               /\ Flat(u) = g[Len(u)]
  <2>1. Len(u) \in Nat
    BY <1>1
  <2> HIDE DEF u
  <2> QED BY <2>1, FlatRun
<1>4. PICK h : /\ h = [n \in 0 .. Len(<<>>) |->
                         IF n = 0 THEN <<>> ELSE h[n - 1] \o <<>>[n]]
               /\ Flat(<<>>) = h[Len(<<>>)]
  <2>1. Len(<<>>) \in Nat
    OBVIOUS
  <2> QED BY <2>1, FlatRun
<1>5. Flat(<<>>) = <<>>
  BY <1>4
<1> DEFINE P == {n \in 0 .. k : f[n] = g[n]}
<1> HIDE DEF u
<1>6. 0 \in P
  BY <1>1, <1>2, <1>3
<1>7. ASSUME NEW n \in 1 .. k, n - 1 \in P PROVE n \in P
  <2>0. n \in 0 .. k /\ n \in 0 .. Len(u) /\ n # 0
    BY <1>1
  <2>1. f[n] = f[n - 1] \o t[n]
    BY <1>2, <2>0
  <2>2. g[n] = g[n - 1] \o u[n]
    BY <1>3, <2>0
  <2>3. f[n - 1] = g[n - 1] /\ u[n] = t[n] /\ n \in 0 .. k
    BY <1>1, <1>7
  <2>4. f[n] = g[n]
    BY <2>1, <2>2, <2>3, Zenon
  <2> QED BY <2>3, <2>4
<1>8. f[k] = g[k]
  <2> HIDE DEF P
  <2>1. k \in P
    <3>1. \A n \in 1 .. k : n - 1 \in P => n \in P
      BY <1>7
    <3> QED BY <1>1, <1>6, <3>1, Induct
  <2> QED BY <2>1 DEF P
<1>9. g[k + 1] = g[k] \o u[k + 1]
  <2>1. k + 1 \in 0 .. Len(u) /\ k + 1 # 0 /\ (k + 1) - 1 = k
    BY <1>1
  <2>2. g[k + 1] = g[(k + 1) - 1] \o u[k + 1]
    BY <1>3, <2>1, Zenon
  <2> QED BY <2>1, <2>2
<1>10. Flat(u) = Flat(t) \o c
  BY <1>1, <1>2, <1>3, <1>8, <1>9
<1> QED BY <1>5, <1>10 DEF u

LEMMA ScanRun ==
  ASSUME NEW t, Len(t) \in Nat
  PROVE  \E f : /\ f = [n \in 0 .. Len(t) |->
                          IF n = 0 THEN [words |-> <<>>, in |-> "between"]
                          ELSE Step(f[n - 1], t[n])]
                /\ Scan(t) = f[Len(t)]
<1> DEFINE Is(f, k) == f = [n \in 0 .. k |->
                              IF n = 0 THEN [words |-> <<>>, in |-> "between"]
                              ELSE Step(f[n - 1], t[n])]
           P == {k \in 0 .. Len(t) : \E f : Is(f, k)}
<1>1. 0 \in P
  <2>1. Is([n \in 0 .. 0 |-> [words |-> <<>>, in |-> "between"]], 0)
    OBVIOUS
  <2> HIDE DEF Is
  <2> QED BY <2>1
<1>2. ASSUME NEW k \in 1 .. Len(t), k - 1 \in P PROVE k \in P
  <2>1. PICK f : Is(f, k - 1)
    BY <1>2
  <2> DEFINE g == [n \in 0 .. k |->
                     IF n = 0 THEN [words |-> <<>>, in |-> "between"]
                     ELSE Step(f[n - 1], t[n])]
  <2>2. ASSUME NEW n \in 1 .. k PROVE g[n - 1] = f[n - 1]
    BY <2>1
  <2>3. \A n \in 0 .. k :
           (IF n = 0 THEN [words |-> <<>>, in |-> "between"] ELSE Step(f[n - 1], t[n]))
             = (IF n = 0 THEN [words |-> <<>>, in |-> "between"]
                ELSE Step(g[n - 1], t[n]))
    <3>1. ASSUME NEW n \in 0 .. k, n # 0 PROVE n \in 1 .. k
      BY <3>1
    <3> HIDE DEF g
    <3> QED BY <2>2, <3>1, Zenon
  <2>4. Is(g, k)
    BY <2>3, Zenon
  <2> HIDE DEF Is, g
  <2> QED BY <2>4
<1>3. \E f : Is(f, Len(t))
  <2> HIDE DEF P
  <2>1. Len(t) \in P
    <3>1. \A n \in 1 .. Len(t) : n - 1 \in P => n \in P
      BY <1>2
    <3> QED BY <1>1, <3>1, Induct
  <2> QED BY <2>1 DEF P
<1>4. Scan(t) = (CHOOSE f : Is(f, Len(t)))[Len(t)]
  BY DEF Scan
<1> DEFINE c == CHOOSE f : Is(f, Len(t))
<1>5. Is(c, Len(t))
  <2> HIDE DEF Is
  <2> QED BY <1>3
<1>6. Scan(t) = c[Len(t)]
  BY <1>4
<1> HIDE DEF c
<1> QED BY <1>5, <1>6

LEMMA ScanLaw ==
  ASSUME NEW A, NEW t \in Seq(A), NEW c \in A
  PROVE  /\ Scan(<<>>) = [words |-> <<>>, in |-> "between"]
         /\ Scan(Append(t, c)) = Step(Scan(t), c)
<1> DEFINE u == Append(t, c)
           k == Len(t)
<1>1. k \in Nat /\ Len(u) = k + 1 /\ u[k + 1] = c /\ \A n \in 1 .. k : u[n] = t[n]
  OBVIOUS
<1>2. PICK f : /\ f = [n \in 0 .. k |->
                         IF n = 0 THEN [words |-> <<>>, in |-> "between"]
                         ELSE Step(f[n - 1], t[n])]
               /\ Scan(t) = f[k]
  BY <1>1, ScanRun
<1>3. PICK g : /\ g = [n \in 0 .. Len(u) |->
                         IF n = 0 THEN [words |-> <<>>, in |-> "between"]
                         ELSE Step(g[n - 1], u[n])]
               /\ Scan(u) = g[Len(u)]
  <2>1. Len(u) \in Nat
    BY <1>1
  <2> HIDE DEF u
  <2> QED BY <2>1, ScanRun
<1>4. PICK h : /\ h = [n \in 0 .. Len(<<>>) |->
                         IF n = 0 THEN [words |-> <<>>, in |-> "between"]
                         ELSE Step(h[n - 1], <<>>[n])]
               /\ Scan(<<>>) = h[Len(<<>>)]
  <2>1. Len(<<>>) \in Nat
    OBVIOUS
  <2> QED BY <2>1, ScanRun
<1>5. Scan(<<>>) = [words |-> <<>>, in |-> "between"]
  BY <1>4
<1> DEFINE P == {n \in 0 .. k : f[n] = g[n]}
<1> HIDE DEF u
<1>6. 0 \in P
  BY <1>1, <1>2, <1>3
<1>7. ASSUME NEW n \in 1 .. k, n - 1 \in P PROVE n \in P
  <2>0. n \in 0 .. k /\ n \in 0 .. Len(u) /\ n # 0
    BY <1>1
  <2>1. f[n] = Step(f[n - 1], t[n])
    BY <1>2, <2>0
  <2>2. g[n] = Step(g[n - 1], u[n])
    BY <1>3, <2>0
  <2> QED BY <1>1, <1>7, <2>1, <2>2
<1>8. f[k] = g[k]
  <2> HIDE DEF P
  <2>1. k \in P
    <3>1. \A n \in 1 .. k : n - 1 \in P => n \in P
      BY <1>7
    <3> QED BY <1>1, <1>6, <3>1, Induct
  <2> QED BY <2>1 DEF P
<1>9. g[k + 1] = Step(g[k], u[k + 1])
  BY <1>1, <1>3
<1>10. Scan(u) = Step(Scan(t), c)
  BY <1>1, <1>2, <1>3, <1>8, <1>9
<1> QED BY <1>5, <1>10 DEF u

-----------------------------------------------------------------------------
(* Induction over texts, and over sequences of texts.                      *)

LEMMA SeqInduct ==
  ASSUME NEW A, NEW P, <<>> \in P,
         \A t \in Seq(A) : \A c \in A : t \in P => Append(t, c) \in P
  PROVE  \A t \in Seq(A) : t \in P
<1> TAKE t \in Seq(A)
<1> DEFINE Q == {n \in 0 .. Len(t) : SubSeq(t, 1, n) \in P}
<1>1. Len(t) \in Nat
  OBVIOUS
<1>2. 0 \in Q
  <2>1. SubSeq(t, 1, 0) = <<>>
    BY SubSeqEmpty
  <2>2. 0 \in 0 .. Len(t)
    BY <1>1
  <2> QED BY <2>1, <2>2, Zenon
<1>3. ASSUME NEW n \in 1 .. Len(t), n - 1 \in Q PROVE n \in Q
  <2>1. SubSeq(t, 1, n) = Append(SubSeq(t, 1, n - 1), t[n])
    <3>1. /\ \A m \in 1 .. n : t[m] \in A
          /\ \A m \in 1 .. n - 1 : t[m] \in A
      BY <1>1
    <3>2. /\ SubSeq(t, 1, n) \in Seq(A) /\ Len(SubSeq(t, 1, n)) = n
          /\ \A m \in 1 .. n : SubSeq(t, 1, n)[m] = t[m]
          /\ SubSeq(t, 1, n - 1) \in Seq(A) /\ Len(SubSeq(t, 1, n - 1)) = n - 1
          /\ \A m \in 1 .. n - 1 : SubSeq(t, 1, n - 1)[m] = t[m]
      BY <1>1, <3>1
    <3> DEFINE u == SubSeq(t, 1, n)
               v == SubSeq(t, 1, n - 1)
    <3>3. t[n] \in A /\ u \in Seq(A) /\ v \in Seq(A) /\ Len(u) = n /\ Len(v) = n - 1
      BY <1>1, <3>2
    <3>4. \A m \in 1 .. n : u[m] = IF m = n THEN t[n] ELSE v[m]
      BY <3>2
    <3> HIDE DEF u, v
    <3>5. /\ Append(v, t[n]) \in Seq(A) /\ Len(Append(v, t[n])) = n
          /\ \A m \in 1 .. n : Append(v, t[n])[m] = IF m = n THEN t[n] ELSE v[m]
      BY <3>3
    <3>6. u = Append(v, t[n])
      BY <3>3, <3>4, <3>5, SeqEqual
    <3> QED BY <3>6 DEF u, v
  <2>2. SubSeq(t, 1, n - 1) \in Seq(A) /\ t[n] \in A
    BY <1>1
  <2>3. SubSeq(t, 1, n) \in P
    BY <1>3, <2>1, <2>2
  <2> QED BY <1>1, <2>3
<1>4. Len(t) \in Q
  <2> HIDE DEF Q
  <2>1. \A n \in 1 .. Len(t) : n - 1 \in Q => n \in Q
    BY <1>3
  <2> QED BY <1>1, <1>2, <2>1, Induct
<1>5. SubSeq(t, 1, Len(t)) = t
  BY SubSeqFull
<1> QED BY <1>4, <1>5

(* A split has a last piece, and its pieces hold no separator.             *)
LEMMA CutFacts ==
  ASSUME NEW ws \in Seq(Chars), ws # <<>>, NEW c \in Symbols, NEW S
  PROVE  /\ Cut(ws, c, S) \in Seq(Chars) /\ Cut(ws, c, S) # <<>>
         /\ c \in S => Cut(ws, c, S) = Append(ws, <<>>)
         /\ c \notin S =>
              /\ Len(Cut(ws, c, S)) = Len(ws)
              /\ Cut(ws, c, S)[Len(ws)] = Append(ws[Len(ws)], c)
              /\ \A i \in 1 .. Len(ws) - 1 : Cut(ws, c, S)[i] = ws[i]
<1>1. Len(ws) \in Nat \ {0} /\ \A i \in 1 .. Len(ws) : ws[i] \in Chars
  OBVIOUS
<1>2. <<>> \in Chars /\ Append(ws[Len(ws)], c) \in Chars
  BY <1>1 DEF Chars
<1>3. CASE c \in S
  BY <1>1, <1>2, <1>3 DEF Cut
<1>4. CASE c \notin S
  <2> DEFINE a == Append(ws[Len(ws)], c)
  <2>1. Cut(ws, c, S) = [ws EXCEPT ![Len(ws)] = a]
    BY <1>4 DEF Cut, Extend
  <2> HIDE DEF a
  <2>2. a \in Chars
    BY <1>2 DEF a
  <2>3. [ws EXCEPT ![Len(ws)] = a] \in Seq(Chars)
    BY <1>1, <2>2
  <2>4. Len([ws EXCEPT ![Len(ws)] = a]) = Len(ws)
    BY <1>1, <2>2
  <2>5. /\ [ws EXCEPT ![Len(ws)] = a][Len(ws)] = a
        /\ \A i \in 1 .. Len(ws) - 1 : [ws EXCEPT ![Len(ws)] = a][i] = ws[i]
    BY <1>1
  <2>6. Cut(ws, c, S) # <<>>
    BY <1>1, <2>1, <2>4
  <2>7. /\ Cut(ws, c, S) \in Seq(Chars) /\ Len(Cut(ws, c, S)) = Len(ws)
        /\ Cut(ws, c, S)[Len(ws)] = a
        /\ \A i \in 1 .. Len(ws) - 1 : Cut(ws, c, S)[i] = ws[i]
    BY <2>1, <2>3, <2>4, <2>5, Zenon
  <2> QED BY <1>4, <2>6, <2>7, Zenon DEF a
<1> QED BY <1>3, <1>4

LEMMA SplitPieces ==
  ASSUME NEW t \in Chars, NEW S
  PROVE  /\ Split(t, S) \in Seq(Chars) /\ Split(t, S) # <<>>
         /\ \A i \in 1 .. Len(Split(t, S)) :
              \A j \in 1 .. Len(Split(t, S)[i]) : Split(t, S)[i][j] \notin S
<1> DEFINE Clean(ws) == /\ ws \in Seq(Chars) /\ ws # <<>>
                        /\ \A i \in 1 .. Len(ws) :
                             \A j \in 1 .. Len(ws[i]) : ws[i][j] \notin S
           P == {u \in Chars : Clean(Split(u, S))}
<1>1. <<>> \in P
  <2>1. <<>> \in Chars
    BY DEF Chars
  <2>2. Split(<<>>, S) = <<<<>>>>
    BY <2>1, SplitLaw DEF Chars, Symbols
  <2>3. Clean(<<<<>>>>)
    BY <2>1
  <2> HIDE DEF Clean
  <2> QED BY <2>1, <2>2, <2>3
<1>2. ASSUME NEW u \in Chars, NEW c \in Symbols, u \in P
      PROVE  Append(u, c) \in P
  <2> DEFINE ws == Split(u, S)
             vs == Cut(ws, c, S)
  <2>1. Clean(ws)
    BY <1>2
  <2>2. Split(Append(u, c), S) = vs /\ Append(u, c) \in Chars
    BY SplitLaw DEF Chars
  <2> HIDE DEF ws
  <2>3. /\ vs \in Seq(Chars) /\ vs # <<>>
        /\ c \in S => vs = Append(ws, <<>>)
        /\ c \notin S =>
             /\ Len(vs) = Len(ws)
             /\ vs[Len(ws)] = Append(ws[Len(ws)], c)
             /\ \A i \in 1 .. Len(ws) - 1 : vs[i] = ws[i]
    BY <2>1, CutFacts
  <2> HIDE DEF vs
  <2>4. Len(ws) \in Nat \ {0}
    BY <2>1
  <2>5. ASSUME NEW i \in 1 .. Len(vs), NEW j \in 1 .. Len(vs[i])
        PROVE  vs[i][j] \notin S
    <3>1. CASE c \in S
      <4>1. Len(vs) = Len(ws) + 1 /\ vs[Len(ws) + 1] = <<>>
            /\ \A k \in 1 .. Len(ws) : vs[k] = ws[k]
        <5>1. ws \in Seq(Chars) /\ <<>> \in Chars /\ vs = Append(ws, <<>>)
          BY <2>1, <2>3, <3>1 DEF Chars
        <5> QED BY <5>1, AppendProperties
      <4>2. CASE i = Len(ws) + 1
        BY <2>5, <4>1, <4>2
      <4>3. CASE i \in 1 .. Len(ws)
        BY <2>1, <2>5, <4>1, <4>3
      <4> QED BY <2>4, <4>1, <4>2, <4>3
    <3>2. CASE c \notin S
      <4>1. CASE i = Len(ws)
        <5>1. ws[i] \in Chars /\ vs[i] = Append(ws[i], c)
          BY <2>1, <2>3, <2>4, <3>2, <4>1
        <5>2. Len(ws[i]) \in Nat /\ Len(vs[i]) = Len(ws[i]) + 1
              /\ vs[i][Len(ws[i]) + 1] = c
              /\ \A k \in 1 .. Len(ws[i]) : vs[i][k] = ws[i][k]
          BY <5>1, AppendProperties DEF Chars
        <5> QED BY <2>1, <2>4, <3>2, <4>1, <5>2
      <4>2. CASE i \in 1 .. Len(ws) - 1
        <5>1. vs[i] = ws[i] /\ i \in 1 .. Len(ws)
          BY <2>3, <2>4, <3>2, <4>2
        <5> QED BY <2>1, <5>1
      <4> QED BY <2>3, <2>4, <3>2, <4>1, <4>2
    <3> QED BY <3>1, <3>2
  <2> QED BY <2>2, <2>3, <2>5
<1>3. t \in P
  <2> HIDE DEF P
  <2> QED BY <1>1, <1>2, SeqInduct DEF Chars
<1> QED BY <1>3

(* NonEmpty keeps what is not empty, and nothing else. *)
LEMMA NonEmptyFacts ==
  ASSUME NEW ws \in Seq(Chars)
  PROVE  /\ NonEmpty(ws) \in Seq(Chars)
         /\ \A i \in 1 .. Len(NonEmpty(ws)) :
              /\ NonEmpty(ws)[i] # <<>>
              /\ \E j \in 1 .. Len(ws) : NonEmpty(ws)[i] = ws[j]
<1> DEFINE Kept(us, vs) == /\ us \in Seq(Chars)
                           /\ \A i \in 1 .. Len(us) :
                                us[i] # <<>> /\ \E j \in 1 .. Len(vs) : us[i] = vs[j]
           P == {vs \in Seq(Chars) : Kept(NonEmpty(vs), vs)}
<1>1. <<>> \in P
  <2>1. <<>> \in Seq(Chars) /\ <<>> \in Chars
    BY DEF Chars
  <2>2. NonEmpty(<<>>) = <<>>
    BY <2>1, NonEmptyLaw
  <2>3. Kept(<<>>, <<>>)
    BY <2>1
  <2> HIDE DEF Kept
  <2> QED BY <2>1, <2>2, <2>3
<1>2. ASSUME NEW vs \in Seq(Chars), NEW w \in Chars, vs \in P
      PROVE  Append(vs, w) \in P
  <2> DEFINE us == NonEmpty(vs)
             xs == Append(vs, w)
  <2>1. Kept(us, vs)
    BY <1>2
  <2>2. NonEmpty(xs) = Keep(us, w)
    BY NonEmptyLaw
  <2>3. /\ xs \in Seq(Chars) /\ Len(xs) = Len(vs) + 1 /\ xs[Len(vs) + 1] = w
        /\ \A j \in 1 .. Len(vs) : xs[j] = vs[j]
        /\ Len(vs) \in Nat
    BY AppendProperties
  <2> HIDE DEF us, xs
  <2>4. Kept(us, xs)
    <3>1. ASSUME NEW i \in 1 .. Len(us) PROVE \E j \in 1 .. Len(xs) : us[i] = xs[j]
      <4>1. PICK j \in 1 .. Len(vs) : us[i] = vs[j]
        BY <2>1
      <4>2. j \in 1 .. Len(xs) /\ xs[j] = vs[j]
        BY <2>3
      <4> QED BY <4>1, <4>2
    <3> QED BY <2>1, <3>1
  <2>5. CASE w = <<>>
    <3>1. NonEmpty(xs) = us
      BY <2>2, <2>5 DEF Keep
    <3> HIDE DEF Kept
    <3> QED BY <2>3, <2>4, <3>1 DEF xs
  <2>6. CASE w # <<>>
    <3> DEFINE ys == Append(us, w)
    <3>1. NonEmpty(xs) = ys
      BY <2>2, <2>6 DEF Keep
    <3>2. /\ ys \in Seq(Chars) /\ Len(ys) = Len(us) + 1 /\ ys[Len(us) + 1] = w
          /\ \A j \in 1 .. Len(us) : ys[j] = us[j]
          /\ Len(us) \in Nat
      BY <2>1, AppendProperties
    <3> HIDE DEF ys
    <3>3. ASSUME NEW i \in 1 .. Len(ys)
          PROVE  ys[i] # <<>> /\ \E j \in 1 .. Len(xs) : ys[i] = xs[j]
      <4>1. CASE i = Len(us) + 1
        <5>1. Len(vs) + 1 \in 1 .. Len(xs)
          BY <2>3
        <5> QED BY <2>3, <2>6, <3>2, <4>1, <5>1
      <4>2. CASE i # Len(us) + 1
        <5>1. i \in 1 .. Len(us) /\ ys[i] = us[i]
          BY <3>2, <4>2
        <5> QED BY <2>4, <5>1
      <4> QED BY <4>1, <4>2
    <3>4. Kept(ys, xs)
      BY <3>2, <3>3
    <3> HIDE DEF Kept
    <3> QED BY <2>3, <3>1, <3>4 DEF xs
  <2> QED BY <2>5, <2>6
<1>3. ws \in P
  <2> HIDE DEF P
  <2> QED BY <1>1, <1>2, SeqInduct
<1> QED BY <1>3

LEMMA NonEmptyAll ==
  ASSUME NEW ws \in Seq(Chars), \A i \in 1 .. Len(ws) : ws[i] # <<>>
  PROVE  NonEmpty(ws) = ws
<1> DEFINE Full(vs) == \A i \in 1 .. Len(vs) : vs[i] # <<>>
           P == {vs \in Seq(Chars) : Full(vs) => NonEmpty(vs) = vs}
<1>1. <<>> \in P
  <2>1. <<>> \in Seq(Chars) /\ <<>> \in Chars
    BY DEF Chars
  <2>2. NonEmpty(<<>>) = <<>>
    BY <2>1, NonEmptyLaw
  <2> QED BY <2>1, <2>2
<1>2. ASSUME NEW vs \in Seq(Chars), NEW w \in Chars, vs \in P
      PROVE  Append(vs, w) \in P
  <2> DEFINE xs == Append(vs, w)
  <2>1. /\ xs \in Seq(Chars) /\ Len(xs) = Len(vs) + 1 /\ xs[Len(vs) + 1] = w
        /\ \A j \in 1 .. Len(vs) : xs[j] = vs[j]
        /\ Len(vs) \in Nat
    BY AppendProperties
  <2>2. NonEmpty(xs) = Keep(NonEmpty(vs), w)
    BY NonEmptyLaw
  <2>3. ASSUME Full(xs) PROVE NonEmpty(xs) = xs
    <3> HIDE DEF xs
    <3>1. Full(vs)
      <4>1. ASSUME NEW i \in 1 .. Len(vs) PROVE vs[i] # <<>>
        <5>1. i \in 1 .. Len(xs) /\ xs[i] = vs[i]
          BY <2>1
        <5> QED BY <2>3, <5>1
      <4> QED BY <4>1
    <3>2. NonEmpty(vs) = vs
      BY <1>2, <3>1
    <3>3. Len(vs) + 1 \in 1 .. Len(xs)
      BY <2>1
    <3>4. w # <<>>
      BY <2>1, <2>3, <3>3
    <3> QED BY <2>2, <3>2, <3>4 DEF Keep, xs
  <2> HIDE DEF Full
  <2> QED BY <2>1, <2>3
<1>3. ws \in P
  <2> HIDE DEF P
  <2> QED BY <1>1, <1>2, SeqInduct
<1> QED BY <1>3

LEMMA ConcatAppend ==
  ASSUME NEW A, NEW t \in Seq(A), NEW u \in Seq(A), NEW c \in A
  PROVE  t \o Append(u, c) = Append(t \o u, c) /\ t \o u \in Seq(A)
<1>1. <<c>> \in Seq(A)
  OBVIOUS
<1>2. /\ Append(u, c) = u \o <<c>>
      /\ t \o u \in Seq(A) /\ Append(t \o u, c) = (t \o u) \o <<c>>
  BY AppendIsConcat, ConcatProperties
<1>3. t \o (u \o <<c>>) = (t \o u) \o <<c>>
  BY <1>1, ConcatAssociative
<1> QED BY <1>2, <1>3

(* A text without separators goes on the last piece.                       *)
Free(t, S) == \A i \in 1 .. Len(t) : t[i] \notin S
GoesOn(vs, ws, w) ==
  /\ vs \in Seq(Chars) /\ Len(vs) = Len(ws)
  /\ vs[Len(ws)] = ws[Len(ws)] \o w
  /\ \A i \in 1 .. Len(ws) - 1 : vs[i] = ws[i]

LEMMA SplitWord ==
  ASSUME NEW t \in Chars, NEW w \in Chars, NEW S, Free(w, S)
  PROVE  GoesOn(Split(t \o w, S), Split(t, S), w)
<1> DEFINE ws == Split(t, S)
           n == Len(ws)
           Goes(vs, x) == /\ vs \in Seq(Chars) /\ Len(vs) = n /\ vs[n] = ws[n] \o x
                          /\ \A i \in 1 .. n - 1 : vs[i] = ws[i]
           P == {x \in Chars : (\A i \in 1 .. Len(x) : x[i] \notin S) =>
                                  Goes(Split(t \o x, S), x)}
<1>1. ws \in Seq(Chars) /\ n \in Nat \ {0} /\ ws[n] \in Chars
  <2>1. ws \in Seq(Chars) /\ ws # <<>>
    BY SplitPieces
  <2> HIDE DEF ws
  <2> QED BY <2>1
<1> HIDE DEF ws
<1>2. <<>> \in P
  <2>1. <<>> \in Chars /\ t \o <<>> = t /\ ws[n] \o <<>> = ws[n]
    BY <1>1 DEF Chars
  <2>2. Goes(ws, <<>>)
    BY <1>1, <2>1
  <2> HIDE DEF Goes
  <2> QED BY <2>1, <2>2 DEF ws
<1>3. ASSUME NEW x \in Chars, NEW c \in Symbols, x \in P
      PROVE  Append(x, c) \in P
  <2> DEFINE y == Append(x, c)
  <2>1. /\ y \in Chars /\ Len(y) = Len(x) + 1 /\ y[Len(x) + 1] = c
        /\ \A j \in 1 .. Len(x) : y[j] = x[j]
        /\ Len(x) \in Nat
    BY AppendProperties DEF Chars
  <2>2. ASSUME \A i \in 1 .. Len(y) : y[i] \notin S PROVE Goes(Split(t \o y, S), y)
    <3>1. t \o y = Append(t \o x, c) /\ ws[n] \o y = Append(ws[n] \o x, c)
          /\ t \o x \in Chars
      <4>1. t \in Seq(Symbols) /\ ws[n] \in Seq(Symbols) /\ x \in Seq(Symbols)
        BY <1>1 DEF Chars
      <4>2. t \o y = Append(t \o x, c) /\ t \o x \in Seq(Symbols)
        BY <4>1, ConcatAppend
      <4>3. ws[n] \o y = Append(ws[n] \o x, c)
        <5> DEFINE z == ws[n]
        <5>1. z \in Seq(Symbols)
          BY <4>1
        <5> HIDE DEF z
        <5>2. z \o y = Append(z \o x, c)
          BY <4>1, <5>1, ConcatAppend
        <5> QED BY <5>2 DEF z
      <4> QED BY <4>2, <4>3 DEF Chars
    <3> HIDE DEF y
    <3>2. c \notin S /\ \A i \in 1 .. Len(x) : x[i] \notin S
      <4>1. Len(x) + 1 \in 1 .. Len(y)
        BY <2>1
      <4>2. \A i \in 1 .. Len(x) : i \in 1 .. Len(y)
        BY <2>1
      <4> QED BY <2>1, <2>2, <4>1, <4>2
    <3> DEFINE vs == Split(t \o x, S)
               us == Cut(vs, c, S)
    <3>3. Goes(vs, x)
      BY <1>3, <3>2
    <3>4. Split(t \o y, S) = us
      BY <3>1, SplitLaw DEF Chars
    <3> HIDE DEF vs
    <3>5. vs \in Seq(Chars) /\ vs # <<>> /\ Len(vs) = n
      BY <1>1, <3>3
    <3>6. us \in Seq(Chars) /\ Len(us) = n /\ us[n] = Append(vs[n], c)
          /\ \A i \in 1 .. n - 1 : us[i] = vs[i]
      BY <3>2, <3>5, CutFacts
    <3> HIDE DEF us
    <3>7. us[n] = ws[n] \o y
      BY <3>1, <3>3, <3>6
    <3>8. Goes(us, y)
      BY <3>3, <3>6, <3>7
    <3> HIDE DEF Goes
    <3> QED BY <3>4, <3>8
  <2> HIDE DEF Goes
  <2> QED BY <2>1, <2>2
<1>4. w \in P
  <2> HIDE DEF P
  <2> QED BY <1>2, <1>3, SeqInduct DEF Chars
<1> QED BY <1>4 DEF ws, Free, GoesOn

(* Join writes ", " before every text but the first. *)
LEMMA JoinLaw ==
  ASSUME NEW ws \in Seq(Chars), NEW w \in Chars
  PROVE  /\ Join(<<>>) = <<>>
         /\ ws = <<>> => Join(Append(ws, w)) = w
         /\ ws # <<>> => Join(Append(ws, w)) = Join(ws) \o (<<Comma, Blank>> \o w)
<1> DEFINE With(i, v) == IF i = 1 THEN v ELSE <<Comma, Blank>> \o v
           xs == Append(ws, w)
           n == Len(ws)
           a == [i \in 1 .. n |-> With(i, ws[i])]
           b == [i \in 1 .. Len(xs) |-> With(i, xs[i])]
           c == With(n + 1, w)
<1>1. /\ n \in Nat /\ Len(xs) = n + 1 /\ xs[n + 1] = w
      /\ \A i \in 1 .. n : xs[i] = ws[i]
  BY AppendProperties
<1>2. ASSUME NEW i, NEW v \in Chars PROVE With(i, v) \in Chars
  <2>1. <<Comma, Blank>> \in Chars
    BY DEF Chars, Symbols, White
  <2> QED BY <2>1, Joined
<1>3. Join(ws) = Flat(a) /\ Join(xs) = Flat(b)
  BY DEF Join
<1>4. \A i \in 1 .. n : ws[i] \in Chars
  BY ElementOfSeq
<1>5. a \in Seq(Chars) /\ c \in Chars
  <2> HIDE DEF With
  <2>1. a \in [1 .. n -> Chars]
    BY <1>2, <1>4
  <2>2. a \in Seq(Chars)
    BY <1>1, <2>1, SeqDef
  <2> QED BY <1>2, <2>2
<1>6. Len(a) = n
  BY <1>1
<1>7. b = Append(a, c)
  <2> HIDE DEF xs
  <2>1. b = [i \in 1 .. n + 1 |-> IF i = n + 1 THEN c ELSE With(i, ws[i])]
    <3> HIDE DEF With
    <3>1. ASSUME NEW i \in 1 .. n + 1
          PROVE  With(i, xs[i]) = IF i = n + 1 THEN c ELSE With(i, ws[i])
      <4>1. CASE i = n + 1
        BY <1>1, <4>1
      <4>2. CASE i # n + 1
        <5>1. i \in 1 .. n
          BY <1>1, <4>2
        <5> QED BY <1>1, <4>2, <5>1
      <4> QED BY <4>1, <4>2
    <3> QED BY <1>1, <3>1
  <2> DEFINE d == [i \in 1 .. n + 1 |-> IF i = n + 1 THEN c ELSE With(i, ws[i])]
  <2>2. \A i \in 1 .. n : a[i] = With(i, ws[i])
    OBVIOUS
  <2>3. /\ Append(a, c) \in Seq(Chars) /\ Len(Append(a, c)) = n + 1
        /\ Append(a, c)[n + 1] = c /\ \A i \in 1 .. n : Append(a, c)[i] = a[i]
    <3> HIDE DEF a, c
    <3> QED BY <1>5, <1>6, AppendProperties
  <2>4. d \in Seq(Chars) /\ Len(d) = n + 1
    <3> HIDE DEF With, c
    <3>1. \A i \in 1 .. n + 1 : (IF i = n + 1 THEN c ELSE With(i, ws[i])) \in Chars
      <4>1. ASSUME NEW i \in 1 .. n + 1, i # n + 1 PROVE With(i, ws[i]) \in Chars
        <5>1. i \in 1 .. n
          BY <1>1, <4>1
        <5> QED BY <1>2, <1>4, <5>1
      <4> QED BY <1>5, <4>1
    <3>2. d \in [1 .. n + 1 -> Chars]
      BY <3>1
    <3>3. n + 1 \in Nat
      BY <1>1
    <3>4. d \in Seq(Chars)
      BY <3>2, <3>3, SeqDef
    <3> QED BY <3>3, <3>4
  <2>5. \A i \in 1 .. n + 1 : d[i] = Append(a, c)[i]
    <3>1. ASSUME NEW i \in 1 .. n + 1 PROVE d[i] = Append(a, c)[i]
      <4>0. d[i] = IF i = n + 1 THEN c ELSE With(i, ws[i])
        OBVIOUS
      <4> HIDE DEF d, a, c, With
      <4>1. CASE i = n + 1
        BY <2>3, <4>0, <4>1
      <4>2. CASE i # n + 1
        <5>1. i \in 1 .. n
          BY <1>1, <4>2
        <5> QED BY <2>2, <2>3, <4>0, <4>2, <5>1
      <4> QED BY <4>1, <4>2
    <3> QED BY <3>1
  <2>6. d = Append(a, c)
    <3> HIDE DEF d, a, c
    <3> QED BY <2>3, <2>4, <2>5, SeqEqual
  <2> HIDE DEF a, c
  <2> QED BY <2>1, <2>6
<1>8. Join(xs) = Flat(a) \o c
  <2> HIDE DEF a, b, c
  <2>1. Flat(Append(a, c)) = Flat(a) \o c
    BY <1>5, FlatLaw
  <2> QED BY <1>3, <1>7, <2>1
<1>9. Flat(<<>>) = <<>>
  <2>1. <<>> \in Seq(Chars) /\ <<>> \in Chars
    BY DEF Chars
  <2> QED BY <2>1, FlatLaw
<1>10. Join(<<>>) = <<>>
  <2>1. [i \in 1 .. Len(<<>>) |-> With(i, <<>>[i])] = <<>>
    OBVIOUS
  <2> HIDE DEF With
  <2>2. Join(<<>>) = Flat([i \in 1 .. Len(<<>>) |-> With(i, <<>>[i])])
    BY DEF Join, With
  <2> QED BY <1>9, <2>1, <2>2
<1>11. ASSUME ws = <<>> PROVE Join(xs) = w
  <2>1. a = <<>> /\ c = w
    BY <1>11
  <2>2. <<>> \o w = w
    BY DEF Chars
  <2> HIDE DEF a, c, xs
  <2> QED BY <1>8, <1>9, <2>1, <2>2
<1>12. ASSUME ws # <<>> PROVE Join(xs) = Join(ws) \o (<<Comma, Blank>> \o w)
  <2>1. n + 1 # 1
    BY <1>12
  <2>2. c = <<Comma, Blank>> \o w
    BY <2>1
  <2> HIDE DEF a, c, xs
  <2> QED BY <1>3, <1>8, <2>2
<1> QED BY <1>10, <1>11, <1>12

LEMMA JoinText ==
  ASSUME NEW ws \in Seq(Chars)
  PROVE  Join(ws) \in Chars
<1> DEFINE P == {vs \in Seq(Chars) : Join(vs) \in Chars}
<1>1. <<>> \in P
  <2>1. <<>> \in Seq(Chars) /\ <<>> \in Chars
    BY DEF Chars
  <2> QED BY <2>1, JoinLaw
<1>2. ASSUME NEW vs \in Seq(Chars), NEW w \in Chars, vs \in P
      PROVE  Append(vs, w) \in P
  <2>1. <<Comma, Blank>> \in Chars
    BY DEF Chars, Symbols, White
  <2>2. Join(vs) \o (<<Comma, Blank>> \o w) \in Chars
    BY <1>2, <2>1, Joined
  <2>3. Join(Append(vs, w)) \in Chars
    BY <2>2, JoinLaw, Zenon
  <2> QED BY <2>3
<1>3. ws \in P
  <2> HIDE DEF P
  <2> QED BY <1>1, <1>2, SeqInduct
<1> QED BY <1>3

(* Splitting what was joined gives the texts back, with a blank before     *)
(* every one but the first.                                                *)
LEMMA SplitJoin ==
  ASSUME NEW ws \in Seq(Chars), ws # <<>>,
         \A i \in 1 .. Len(ws) : \A j \in 1 .. Len(ws[i]) : ws[i][j] \notin {Comma}
  PROVE  /\ Split(Join(ws), {Comma}) \in Seq(Chars)
         /\ Len(Split(Join(ws), {Comma})) = Len(ws)
         /\ \A i \in 1 .. Len(ws) :
              Split(Join(ws), {Comma})[i] = IF i = 1 THEN ws[i] ELSE <<Blank>> \o ws[i]
<1> DEFINE S == {Comma}
           Clean(vs) == \A i \in 1 .. Len(vs) : \A j \in 1 .. Len(vs[i]) : vs[i][j] \notin S
           Back(us, vs) == /\ us \in Seq(Chars) /\ Len(us) = Len(vs)
                           /\ \A i \in 1 .. Len(vs) :
                                us[i] = IF i = 1 THEN vs[i] ELSE <<Blank>> \o vs[i]
           P == {vs \in Seq(Chars) : vs # <<>> /\ Clean(vs) => Back(Split(Join(vs), S), vs)}
<1>1. <<>> \in P
  BY DEF Chars
<1>2. ASSUME NEW vs \in Seq(Chars), NEW w \in Chars, vs \in P
      PROVE  Append(vs, w) \in P
  <2> DEFINE xs == Append(vs, w)
             n == Len(vs)
  <2>1. /\ xs \in Seq(Chars) /\ Len(xs) = n + 1 /\ xs[n + 1] = w
        /\ \A i \in 1 .. n : xs[i] = vs[i]
        /\ n \in Nat
    BY AppendProperties
  <2>2. ASSUME Clean(xs) PROVE Back(Split(Join(xs), S), xs)
    <3> HIDE DEF xs
    <3>1. \A j \in 1 .. Len(w) : w[j] \notin S
      <4>1. n + 1 \in 1 .. Len(xs)
        BY <2>1
      <4> QED BY <2>1, <2>2, <4>1
    <3>2. Clean(vs)
      <4>1. ASSUME NEW i \in 1 .. n, NEW j \in 1 .. Len(vs[i]) PROVE vs[i][j] \notin S
        <5>1. i \in 1 .. Len(xs) /\ xs[i] = vs[i]
          BY <2>1
        <5> QED BY <2>2, <4>1, <5>1
      <4> QED BY <4>1
    <3>3. CASE vs = <<>>
      <4>1. <<>> \in Chars /\ <<>> \o w = w
        BY DEF Chars
      <4>2. Join(xs) = w /\ n = 0
        BY <3>3, JoinLaw DEF xs
      <4> DEFINE us == Split(<<>> \o w, S)
                 zs == Split(<<>>, S)
      <4>3. zs = <<<<>>>> /\ Len(zs) = 1 /\ zs[1] = <<>>
        BY SplitLaw DEF Chars, Symbols
      <4> HIDE DEF S
      <4>4. us \in Seq(Chars) /\ Len(us) = Len(zs) /\ us[Len(zs)] = zs[Len(zs)] \o w
        <5>1. Free(w, S)
          BY <3>1 DEF Free
        <5>2. GoesOn(us, zs, w)
          BY <4>1, <5>1, SplitWord, Zenon
        <5> HIDE DEF us, zs
        <5> QED BY <5>2 DEF GoesOn
      <4>5. us[1] = w /\ Len(us) = 1 /\ us \in Seq(Chars)
        BY <4>1, <4>3, <4>4
      <4>6. Split(Join(xs), S) = us
        BY <4>1, <4>2
      <4> HIDE DEF us, zs
      <4>7. Back(us, xs)
        BY <2>1, <4>2, <4>5
      <4> HIDE DEF Back
      <4> QED BY <4>6, <4>7
    <3>4. CASE vs # <<>>
      <4> DEFINE t == Append(Join(vs), Comma)
                 v == <<Blank>> \o w
                 zs == Split(Join(vs), S)
                 ys == Split(t, S)
                 us == Split(t \o v, S)
      <4>0. Comma \in Symbols /\ Blank \in Symbols /\ Join(vs) \in Chars
        BY JoinText DEF Symbols, White
      <4>1. Join(xs) = t \o v /\ t \in Chars /\ v \in Chars
        <5>1. Join(xs) = Join(vs) \o (<<Comma, Blank>> \o w)
          BY <3>4, JoinLaw DEF xs
        <5>2. <<Comma, Blank>> = <<Comma>> \o <<Blank>> /\ <<Comma>> \in Seq(Symbols)
              /\ <<Blank>> \in Seq(Symbols) /\ w \in Seq(Symbols)
              /\ Join(vs) \in Seq(Symbols)
          BY <4>0 DEF Chars
        <5>3. t = Join(vs) \o <<Comma>> /\ t \in Seq(Symbols) /\ v \in Seq(Symbols)
          BY <4>0, <5>2, AppendIsConcat, AppendProperties, ConcatProperties
        <5>4. (<<Comma>> \o <<Blank>>) \o w = <<Comma>> \o v
          BY <5>2, ConcatAssociative
        <5>5. (Join(vs) \o <<Comma>>) \o v = Join(vs) \o (<<Comma>> \o v)
          <6> DEFINE j == Join(vs)
                     o == <<Comma>>
          <6>1. j \in Seq(Symbols) /\ o \in Seq(Symbols) /\ v \in Seq(Symbols)
            BY <5>2, <5>3
          <6> HIDE DEF j, o, v
          <6>2. (j \o o) \o v = j \o (o \o v)
            BY <6>1, ConcatAssociative
          <6> QED BY <6>2 DEF j, o
        <5> HIDE DEF t, v
        <5> QED BY <5>1, <5>2, <5>3, <5>4, <5>5 DEF Chars
      <4>2. Back(zs, vs)
        BY <1>2, <3>2, <3>4
      <4>3. ys = Cut(zs, Comma, S)
        BY <4>0, SplitLaw DEF Chars
      <4>4. \A j \in 1 .. Len(v) : v[j] \notin S
        <5>1. <<Blank>> \in Chars /\ Len(<<Blank>>) = 1 /\ <<Blank>>[1] = Blank
              /\ Len(w) \in Nat
          BY <4>0 DEF Chars
        <5>2. /\ Len(v) = 1 + Len(w) /\ v[1] = Blank
              /\ \A m \in 1 .. Len(w) : v[1 + m] = w[m]
          BY <5>1, Joined
        <5>3. Blank # Comma
          BY Zenon DEF Blank, Comma
        <5> HIDE DEF v
        <5>4. ASSUME NEW j \in 1 .. Len(v) PROVE v[j] \notin S
          <6>1. CASE j = 1
            BY <5>2, <5>3, <6>1
          <6>2. CASE j # 1
            <7>1. j - 1 \in 1 .. Len(w) /\ 1 + (j - 1) = j
              BY <5>1, <5>2, <6>2
            <7>2. v[j] = w[j - 1]
              BY <5>2, <7>1
            <7> QED BY <3>1, <7>1, <7>2
          <6> QED BY <6>1, <6>2
        <5> QED BY <5>4
      <4>5. ys = Append(zs, <<>>)
        BY <4>3 DEF Cut
      <4>6. /\ us \in Seq(Chars) /\ Len(us) = Len(ys) /\ us[Len(ys)] = ys[Len(ys)] \o v
            /\ \A i \in 1 .. Len(ys) - 1 : us[i] = ys[i]
        <5>1. Free(v, S)
          BY <4>4 DEF Free
        <5> HIDE DEF t, v, S
        <5>2. GoesOn(us, ys, v)
          BY <4>1, <5>1, SplitWord, Zenon
        <5> HIDE DEF us, ys
        <5> QED BY <5>2 DEF GoesOn
      <4> HIDE DEF zs, ys, us, t, v
      <4>7. /\ Len(ys) = n + 1 /\ ys[n + 1] = <<>>
            /\ \A i \in 1 .. n : ys[i] = zs[i]
        <5>1. <<>> \in Chars
          BY DEF Chars
        <5>2. zs \in Seq(Chars) /\ Len(zs) = n
          BY <4>2
        <5> QED BY <4>5, <5>1, <5>2, AppendProperties
      <4>8. us[n + 1] = v
        BY <4>1, <4>6, <4>7 DEF Chars
      <4>9. n + 1 # 1
        BY <2>1, <3>4
      <4>10. ASSUME NEW i \in 1 .. n + 1
             PROVE  us[i] = IF i = 1 THEN xs[i] ELSE <<Blank>> \o xs[i]
        <5>1. CASE i = n + 1
          BY <2>1, <4>8, <4>9, <5>1 DEF v
        <5>2. CASE i # n + 1
          <6>1. i \in 1 .. n /\ i \in 1 .. Len(ys) - 1
            BY <2>1, <4>7, <5>2
          <6>2. us[i] = zs[i] /\ xs[i] = vs[i]
            BY <2>1, <4>6, <4>7, <6>1
          <6>3. zs[i] = IF i = 1 THEN vs[i] ELSE <<Blank>> \o vs[i]
            BY <4>2, <6>1
          <6> QED BY <6>2, <6>3, Zenon
        <5> QED BY <5>1, <5>2
      <4>11. Back(us, xs)
        BY <2>1, <4>6, <4>7, <4>10
      <4> HIDE DEF Back
      <4> QED BY <4>1, <4>11 DEF us
    <3> QED BY <3>3, <3>4
  <2> HIDE DEF Clean, Back
  <2> QED BY <2>1, <2>2
<1>3. ws \in P
  <2> HIDE DEF P
  <2> QED BY <1>1, <1>2, SeqInduct
<1> QED BY <1>3

(* A text between blanks that neither begins nor ends with one is what     *)
(* trimming leaves.                                                        *)
LEMMA TrimIs ==
  ASSUME NEW t \in Chars, NEW i \in 1 .. Len(t), NEW j \in i .. Len(t),
         t[i] \notin White, \A m \in 1 .. i - 1 : t[m] \in White,
         t[j] \notin White, \A m \in j + 1 .. Len(t) : t[m] \in White,
         NEW w \in Chars, Len(w) = j - i + 1,
         \A m \in 1 .. j - i + 1 : w[m] = t[i + m - 1]
  PROVE  Trim(t) = w
<1>1. Len(t) \in Nat
  BY DEF Chars
<1>2. PICK a \in 1 .. i, b \in i .. Len(t) :
         /\ t[a] \notin White /\ \A m \in 1 .. a - 1 : t[m] \in White
         /\ t[b] \notin White /\ \A m \in b + 1 .. Len(t) : t[m] \in White
         /\ Trim(t) \in Chars /\ Len(Trim(t)) = b - a + 1
         /\ \A m \in 1 .. b - a + 1 : Trim(t)[m] = t[a + m - 1]
  BY TrimFacts, Zenon
<1>3. a = i
  <2>1. a < i => a \in 1 .. i - 1
    BY <1>1
  <2> QED BY <1>1, <1>2, <2>1
<1>4. b = j
  <2>1. b < j => j \in b + 1 .. Len(t)
    BY <1>1
  <2>2. j < b => b \in j + 1 .. Len(t)
    BY <1>1
  <2> QED BY <1>1, <1>2, <2>1, <2>2
<1> QED BY <1>2, <1>3, <1>4, SameText

(* A trimmed text neither begins nor ends with a blank, and what does not  *)
(* is trimmed.                                                             *)
LEMMA TrimmedEnds ==
  ASSUME NEW w \in Chars, w # <<>>
  PROVE  /\ Len(w) \in Nat \ {0}
         /\ Trim(w) = w <=> w[1] \notin White /\ w[Len(w)] \notin White
<1>1. Len(w) \in Nat \ {0}
  BY DEF Chars
<1>2. ASSUME w[1] \notin White, w[Len(w)] \notin White PROVE Trim(w) = w
  <2>1. 1 \in 1 .. Len(w) /\ Len(w) \in 1 .. Len(w) /\ Len(w) - 1 + 1 = Len(w)
    BY <1>1
  <2>2. /\ \A m \in 1 .. 1 - 1 : w[m] \in White
        /\ \A m \in Len(w) + 1 .. Len(w) : w[m] \in White
        /\ \A m \in 1 .. Len(w) - 1 + 1 : w[m] = w[1 + m - 1]
    BY <1>1
  <2> QED BY <1>2, <2>1, <2>2, TrimIs
<1>3. ASSUME Trim(w) = w PROVE w[1] \notin White /\ w[Len(w)] \notin White
  <2>1. PICK k \in 1 .. Len(w) : w[k] \notin White
    BY <1>3, TrimBlank
  <2>2. PICK i \in 1 .. k, j \in k .. Len(w) :
           /\ w[i] \notin White /\ \A m \in 1 .. i - 1 : w[m] \in White
           /\ w[j] \notin White /\ \A m \in j + 1 .. Len(w) : w[m] \in White
           /\ Trim(w) \in Chars /\ Len(Trim(w)) = j - i + 1
           /\ \A m \in 1 .. j - i + 1 : Trim(w)[m] = w[i + m - 1]
    BY <2>1, TrimFacts, Zenon
  <2>3. i = 1 /\ j = Len(w)
    BY <1>1, <1>3, <2>2
  <2> QED BY <2>2, <2>3
<1> QED BY <1>1, <1>2, <1>3

(* Blanks around a text do not matter once it is trimmed.                  *)
Spaces(t) == \A m \in 1 .. Len(t) : t[m] \in White

LEMMA Glued ==
  ASSUME NEW t \in Chars, NEW u \in Chars
  PROVE  t \o u \in Chars
BY ConcatProperties DEF Chars

LEMMA Regroup ==
  ASSUME NEW t \in Chars, NEW u \in Chars, NEW v \in Chars
  PROVE  (t \o u) \o v = t \o (u \o v)
BY ConcatAssociative DEF Chars

LEMMA GlueNothing ==
  ASSUME NEW t \in Chars
  PROVE  t \o <<>> = t /\ <<>> \o t = t /\ <<>> \in Chars
BY ConcatEmptySeq, EmptySeq DEF Chars

LEMMA SpacesJoined ==
  ASSUME NEW x \in Chars, NEW y \in Chars, Spaces(x), Spaces(y)
  PROVE  x \o y \in Chars /\ Spaces(x \o y)
<1>1. /\ x \o y \in Chars /\ Len(x \o y) = Len(x) + Len(y)
      /\ \A m \in 1 .. Len(x) : (x \o y)[m] = x[m]
      /\ \A m \in 1 .. Len(y) : (x \o y)[Len(x) + m] = y[m]
      /\ Len(x) \in Nat /\ Len(y) \in Nat
  BY Joined DEF Chars
<1> DEFINE z == x \o y
<1> HIDE DEF z
<1>2. ASSUME NEW m \in 1 .. Len(z) PROVE z[m] \in White
  <2>1. CASE m \in 1 .. Len(x)
    BY <1>1, <2>1 DEF z, Spaces
  <2>2. CASE m \notin 1 .. Len(x)
    <3>1. m - Len(x) \in 1 .. Len(y) /\ Len(x) + (m - Len(x)) = m
      BY <1>1, <2>2 DEF z
    <3>2. (x \o y)[Len(x) + (m - Len(x))] = y[m - Len(x)]
      BY <1>1, <3>1
    <3> QED BY <3>1, <3>2 DEF z, Spaces
  <2> QED BY <2>1, <2>2
<1> QED BY <1>1, <1>2 DEF z, Spaces

LEMMA TrimPadded ==
  ASSUME NEW x \in Chars, NEW w \in Chars, NEW y \in Chars, Spaces(x), Spaces(y),
         w # <<>>, w[1] \notin White, w[Len(w)] \notin White
  PROVE  Trim(x \o (w \o y)) = w
<1> DEFINE v == w \o y
           t == x \o v
           i == Len(x) + 1
           j == Len(x) + Len(w)
<1>1. Len(x) \in Nat /\ Len(w) \in Nat \ {0} /\ Len(y) \in Nat
  BY DEF Chars
<1>2. /\ v \in Chars /\ Len(v) = Len(w) + Len(y)
      /\ \A m \in 1 .. Len(w) : v[m] = w[m]
      /\ \A m \in 1 .. Len(y) : v[Len(w) + m] = y[m]
  BY Joined
<1> HIDE DEF v
<1>3. /\ t \in Chars /\ Len(t) = Len(x) + Len(v)
      /\ \A m \in 1 .. Len(x) : t[m] = x[m]
      /\ \A m \in 1 .. Len(v) : t[Len(x) + m] = v[m]
  BY <1>2, Joined
<1> HIDE DEF t
<1>4. i \in 1 .. Len(t) /\ j \in i .. Len(t) /\ Len(w) = j - i + 1
  BY <1>1, <1>2, <1>3
<1>5. ASSUME NEW m \in 1 .. j - i + 1 PROVE w[m] = t[i + m - 1]
  <2>1. m \in 1 .. Len(w) /\ m \in 1 .. Len(v) /\ i + m - 1 = Len(x) + m
    BY <1>1, <1>2, <1>4
  <2> QED BY <1>2, <1>3, <2>1
<1>6. t[i] \notin White /\ t[j] \notin White
  <2>1. 1 \in 1 .. j - i + 1 /\ Len(w) \in 1 .. j - i + 1 /\ i + 1 - 1 = i
        /\ i + Len(w) - 1 = j
    BY <1>1
  <2>2. w[1] = t[i + 1 - 1] /\ w[Len(w)] = t[i + Len(w) - 1]
    BY <1>5, <2>1
  <2> HIDE DEF i, j
  <2> QED BY <2>1, <2>2
<1>7. ASSUME NEW m \in 1 .. i - 1 PROVE t[m] \in White
  <2>1. m \in 1 .. Len(x)
    BY <1>1
  <2> QED BY <1>3, <2>1 DEF Spaces
<1>8. ASSUME NEW m \in j + 1 .. Len(t) PROVE t[m] \in White
  <2>1. m - Len(x) \in 1 .. Len(v) /\ Len(x) + (m - Len(x)) = m
        /\ (m - Len(x)) - Len(w) \in 1 .. Len(y)
        /\ Len(w) + ((m - Len(x)) - Len(w)) = m - Len(x)
    BY <1>1, <1>2, <1>3
  <2>2. t[Len(x) + (m - Len(x))] = v[m - Len(x)]
        /\ v[Len(w) + ((m - Len(x)) - Len(w))] = y[(m - Len(x)) - Len(w)]
    BY <1>2, <1>3, <2>1
  <2>3. y[(m - Len(x)) - Len(w)] \in White
    BY <2>1 DEF Spaces
  <2> QED BY <2>1, <2>2, <2>3
<1> HIDE DEF i, j
<1>9. Trim(t) = w
  BY <1>3, <1>4, <1>5, <1>6, <1>7, <1>8, TrimIs
<1> QED BY <1>9 DEF t, v

LEMMA TrimParts ==
  ASSUME NEW t \in Chars
  PROVE  \/ Trim(t) = <<>> /\ Spaces(t)
         \/ /\ Trim(t) # <<>> /\ Trim(t)[1] \notin White /\ Trim(t)[Len(Trim(t))] \notin White
            /\ \E x \in Chars, y \in Chars :
                 Spaces(x) /\ Spaces(y) /\ t = x \o (Trim(t) \o y)
<1>1. CASE Spaces(t)
  BY <1>1, TrimBlank DEF Spaces
<1>2. ASSUME NEW k \in 1 .. Len(t), t[k] \notin White
      PROVE  /\ Trim(t) # <<>> /\ Trim(t)[1] \notin White /\ Trim(t)[Len(Trim(t))] \notin White
             /\ \E x \in Chars, y \in Chars :
                  Spaces(x) /\ Spaces(y) /\ t = x \o (Trim(t) \o y)
  <2>1. PICK i \in 1 .. k, j \in k .. Len(t) :
           /\ t[i] \notin White /\ \A m \in 1 .. i - 1 : t[m] \in White
           /\ t[j] \notin White /\ \A m \in j + 1 .. Len(t) : t[m] \in White
           /\ Trim(t) \in Chars /\ Len(Trim(t)) = j - i + 1
           /\ \A m \in 1 .. j - i + 1 : Trim(t)[m] = t[i + m - 1]
    BY <1>2, TrimFacts, Zenon
  <2> DEFINE w == Trim(t)
             x == SubSeq(t, 1, i - 1)
             y == SubSeq(t, j + 1, Len(t))
             u == SubSeq(t, i, j)
  <2> HIDE DEF w
  <2>2. Len(t) \in Nat /\ i \in 1 .. Len(t) /\ j \in i .. Len(t)
        /\ \A m \in 1 .. Len(t) : t[m] \in Symbols
    BY DEF Chars
  <2>3. /\ u \in Chars /\ Len(u) = j - i + 1
        /\ \A m \in 1 .. j - i + 1 : u[m] = t[i + m - 1]
    BY <2>2, PartFacts
  <2>4. x \in Chars /\ y \in Chars /\ Spaces(x) /\ Spaces(y)
    <3>1. \A m \in 1 .. i - 1 : t[m] \in Symbols
      BY <2>2
    <3>2. x \in Seq(Symbols) /\ Len(x) = (IF 1 <= i - 1 THEN i - 1 - 1 + 1 ELSE 0)
          /\ \A m \in 1 .. i - 1 - 1 + 1 : x[m] = t[1 + m - 1]
      BY <2>2, <3>1, SubSeqProperties
    <3>3. \A m \in j + 1 .. Len(t) : t[m] \in Symbols
      BY <2>2
    <3>4. y \in Seq(Symbols)
          /\ Len(y) = (IF j + 1 <= Len(t) THEN Len(t) - (j + 1) + 1 ELSE 0)
          /\ \A m \in 1 .. Len(t) - (j + 1) + 1 : y[m] = t[j + 1 + m - 1]
      BY <2>2, <3>3, SubSeqProperties
    <3> HIDE DEF x, y
    <3>5. ASSUME NEW m \in 1 .. Len(x) PROVE x[m] \in White
      <4>1. m \in 1 .. i - 1 - 1 + 1 /\ 1 + m - 1 \in 1 .. i - 1
        BY <2>2, <3>2
      <4> QED BY <2>1, <3>2, <4>1
    <3>6. ASSUME NEW m \in 1 .. Len(y) PROVE y[m] \in White
      <4>0. j \in Nat /\ j <= Len(t)
        BY <2>2
      <4>1. m \in 1 .. Len(t) - (j + 1) + 1 /\ j + 1 + m - 1 \in j + 1 .. Len(t)
        BY <2>2, <3>4, <4>0
      <4> QED BY <2>1, <3>4, <4>1
    <3> QED BY <3>2, <3>4, <3>5, <3>6 DEF Chars, Spaces
  <2>5. w = u
    <3> HIDE DEF u
    <3> QED BY <2>1, <2>3, SameText DEF w
  <2>6. t = x \o (u \o y)
    <3>1. u \o y = SubSeq(t, i, Len(t))
      <4>1. i \in 1 .. Len(t) + 1 /\ j \in i - 1 .. Len(t) /\ Len(t) \in j .. Len(t)
        BY <2>2
      <4> QED BY <4>1, ConcatAdjacentSubSeq DEF Chars
    <3>2. x \o SubSeq(t, i, Len(t)) = SubSeq(t, 1, Len(t))
      <4>1. 1 \in 1 .. Len(t) + 1 /\ i - 1 \in 1 - 1 .. Len(t)
            /\ Len(t) \in i - 1 .. Len(t) /\ (i - 1) + 1 = i
        BY <2>2
      <4>2. x \o SubSeq(t, (i - 1) + 1, Len(t)) = SubSeq(t, 1, Len(t))
        BY <4>1, ConcatAdjacentSubSeq DEF Chars
      <4> QED BY <4>1, <4>2
    <3>3. SubSeq(t, 1, Len(t)) = t
      BY SubSeqFull DEF Chars
    <3> HIDE DEF x, y, u
    <3> QED BY <3>1, <3>2, <3>3
  <2>7. w # <<>> /\ w[1] \notin White /\ w[Len(w)] \notin White
    <3>1. Len(w) \in Nat \ {0} /\ 1 \in 1 .. j - i + 1 /\ Len(w) \in 1 .. j - i + 1
          /\ i + 1 - 1 = i /\ i + Len(w) - 1 = j
      BY <2>1, <2>2 DEF w
    <3>2. w[1] = t[i + 1 - 1] /\ w[Len(w)] = t[i + Len(w) - 1]
      BY <2>1, <3>1 DEF w
    <3> QED BY <2>1, <3>1, <3>2
  <2> HIDE DEF x, y, u
  <2> QED BY <2>4, <2>5, <2>6, <2>7 DEF w
<1> QED BY <1>1, <1>2 DEF Spaces

LEMMA TrimTrim ==
  ASSUME NEW t \in Chars
  PROVE  Trim(t) \in Chars /\ Trim(Trim(t)) = Trim(t)
<1> DEFINE w == Trim(t)
<1>1. w \in Chars
  BY TrimText
<1>2. w = <<>> \/ (w # <<>> /\ w[1] \notin White /\ w[Len(w)] \notin White)
  BY TrimParts
<1> HIDE DEF w
<1>3. CASE w = <<>>
  <2>1. \A m \in 1 .. Len(w) : w[m] \in White
    BY <1>3
  <2> QED BY <1>1, <1>3, <2>1, TrimBlank DEF w
<1>4. CASE w # <<>> /\ w[1] \notin White /\ w[Len(w)] \notin White
  BY <1>1, <1>4, TrimmedEnds DEF w
<1> QED BY <1>2, <1>3, <1>4

LEMMA TrimAround ==
  ASSUME NEW x \in Chars, NEW t \in Chars, NEW y \in Chars, Spaces(x), Spaces(y)
  PROVE  Trim(x \o (t \o y)) = Trim(t)
<1>1. CASE Trim(t) = <<>> /\ Spaces(t)
  <2> DEFINE u == x \o (t \o y)
  <2>1. u \in Chars /\ Spaces(u)
    BY <1>1, SpacesJoined
  <2> HIDE DEF u
  <2>2. Trim(u) = <<>>
    BY <2>1, TrimBlank DEF Spaces
  <2> QED BY <1>1, <2>2 DEF u
<1>2. CASE /\ Trim(t) # <<>> /\ Trim(t)[1] \notin White /\ Trim(t)[Len(Trim(t))] \notin White
           /\ \E a \in Chars, b \in Chars :
                Spaces(a) /\ Spaces(b) /\ t = a \o (Trim(t) \o b)
  <2> DEFINE w == Trim(t)
  <2>1. PICK a \in Chars, b \in Chars : Spaces(a) /\ Spaces(b) /\ t = a \o (w \o b)
    BY <1>2
  <2>2. w \in Chars /\ w # <<>> /\ w[1] \notin White /\ w[Len(w)] \notin White
    BY <1>2, TrimText
  <2> HIDE DEF w
  <2>3. /\ x \o a \in Chars /\ Spaces(x \o a)
        /\ b \o y \in Chars /\ Spaces(b \o y)
    BY <2>1, SpacesJoined
  <2>4. x \o (t \o y) = (x \o a) \o (w \o (b \o y))
    <3> DEFINE c == w \o b
               d == w \o (b \o y)
    <3>1. /\ a \in Seq(Symbols) /\ b \in Seq(Symbols) /\ w \in Seq(Symbols)
          /\ x \in Seq(Symbols) /\ y \in Seq(Symbols)
      BY <2>1, <2>2 DEF Chars
    <3>2. c \in Seq(Symbols) /\ d \in Seq(Symbols) /\ c \o y = d
      <4>1. b \o y \in Seq(Symbols) /\ c \in Seq(Symbols)
        BY <3>1, ConcatProperties
      <4>2. d \in Seq(Symbols)
        BY <3>1, <4>1, ConcatProperties
      <4>3. c \o y = d
        BY <3>1, ConcatAssociative, SMTT(30)
      <4> QED BY <4>1, <4>2, <4>3
    <3>3. t = a \o c
      BY <2>1
    <3> HIDE DEF c, d
    <3>4. (a \o c) \o y = a \o (c \o y)
      <4>1. a \in Seq(Symbols) /\ c \in Seq(Symbols) /\ y \in Seq(Symbols)
        BY <3>1, <3>2
      <4> QED BY <4>1, ConcatAssociative
    <3>5. (x \o a) \o d = x \o (a \o d)
      <4>1. x \in Seq(Symbols) /\ a \in Seq(Symbols) /\ d \in Seq(Symbols)
        BY <3>1, <3>2
      <4> QED BY <4>1, ConcatAssociative
    <3>6. x \o (t \o y) = (x \o a) \o d
      BY <3>2, <3>3, <3>4, <3>5
    <3> QED BY <3>6 DEF d
  <2>5. Trim((x \o a) \o (w \o (b \o y))) = w
    BY <2>2, <2>3, TrimPadded
  <2> QED BY <2>4, <2>5 DEF w
<1> QED BY <1>1, <1>2, TrimParts

LEMMA TrimFree ==
  ASSUME NEW t \in Chars, NEW S, Free(t, S)
  PROVE  Free(Trim(t), S)
<1>1. CASE \A m \in 1 .. Len(t) : t[m] \in White
  <2>1. Trim(t) = <<>>
    BY <1>1, TrimBlank
  <2> QED BY <2>1 DEF Free
<1>2. ASSUME NEW k \in 1 .. Len(t), t[k] \notin White PROVE Free(Trim(t), S)
  <2>1. PICK i \in 1 .. k, j \in k .. Len(t) :
           /\ t[i] \notin White /\ \A m \in 1 .. i - 1 : t[m] \in White
           /\ t[j] \notin White /\ \A m \in j + 1 .. Len(t) : t[m] \in White
           /\ Trim(t) \in Chars /\ Len(Trim(t)) = j - i + 1
           /\ \A m \in 1 .. j - i + 1 : Trim(t)[m] = t[i + m - 1]
    BY <1>2, TrimFacts, Zenon
  <2>2. Len(t) \in Nat
    BY DEF Chars
  <2>3. ASSUME NEW m \in 1 .. Len(Trim(t)) PROVE Trim(t)[m] \notin S
    <3>1. m \in 1 .. j - i + 1 /\ i + m - 1 \in 1 .. Len(t)
      BY <2>1, <2>2
    <3>2. Trim(t)[m] = t[i + m - 1]
      BY <2>1, <3>1
    <3> QED BY <3>1, <3>2 DEF Free
  <2> QED BY <2>3 DEF Free
<1> QED BY <1>1, <1>2

LEMMA FindNone ==
  ASSUME NEW t \in Chars, NEW S
  PROVE  Find(t, S) = 0 <=> Free(t, S)
<1>1. ASSUME Find(t, S) \in 1 .. Len(t) PROVE Find(t, S) # 0
  BY <1>1
<1> DEFINE n == Find(t, S)
<1>2. \/ n = 0 /\ \A i \in 1 .. Len(t) : t[i] \notin S
      \/ n \in 1 .. Len(t) /\ t[n] \in S
  BY FindFacts
<1> HIDE DEF n
<1>3. n = 0 <=> \A i \in 1 .. Len(t) : t[i] \notin S
  BY <1>1, <1>2 DEF n
<1> QED BY <1>3 DEF n, Free

(* A blank before a trimmed text is trimmed off.                           *)
LEMMA TrimOneBlank ==
  ASSUME NEW w \in Chars, Trim(w) = w
  PROVE  Trim(<<Blank>> \o w) = w
<1>1. <<Blank>> \in Chars /\ Spaces(<<Blank>>) /\ <<>> \in Chars /\ Spaces(<<>>)
  BY DEF Chars, Symbols, White, Spaces
<1>2. w \o <<>> = w
  BY GlueNothing
<1>3. Trim(<<Blank>> \o (w \o <<>>)) = Trim(w)
  BY <1>1, TrimAround
<1> QED BY <1>2, <1>3

(* A symbol that goes on the last word.                                    *)
LEMMA LastWord ==
  ASSUME NEW ws \in Seq(Chars), NEW w \in Chars, NEW c \in Symbols
  PROVE  Extend(Append(ws, w), c) = Append(ws, Append(w, c))
<1> DEFINE xs == Append(ws, w)
           v == Append(w, c)
           ys == [xs EXCEPT ![Len(xs)] = v]
           zs == Append(ws, v)
<1>1. v \in Chars
  BY AppendProperties DEF Chars
<1>2. /\ xs \in Seq(Chars) /\ Len(xs) = Len(ws) + 1 /\ xs[Len(ws) + 1] = w
      /\ \A i \in 1 .. Len(ws) : xs[i] = ws[i]
      /\ Len(ws) \in Nat
  BY AppendProperties
<1>3. Extend(xs, c) = [xs EXCEPT ![Len(xs)] = Append(xs[Len(xs)], c)]
  BY DEF Extend
<1>4. Append(xs[Len(xs)], c) = v
  <2> HIDE DEF xs
  <2> QED BY <1>2
<1>5. Extend(xs, c) = ys
  <2> HIDE DEF xs, v
  <2> QED BY <1>3, <1>4
<1> HIDE DEF v
<1>6. /\ zs \in Seq(Chars) /\ Len(zs) = Len(ws) + 1 /\ zs[Len(ws) + 1] = v
      /\ \A i \in 1 .. Len(ws) : zs[i] = ws[i]
  BY <1>1, AppendProperties
<1>7. /\ ys \in Seq(Chars) /\ Len(ys) = Len(xs)
      /\ \A j \in 1 .. Len(xs) : ys[j] = IF j = Len(xs) THEN v ELSE xs[j]
  <2> HIDE DEF xs
  <2>1. Len(xs) \in 1 .. Len(xs)
    BY <1>2
  <2> QED BY <1>1, <1>2, <2>1, ExceptSeq
<1> HIDE DEF xs, ys, zs
<1>8. ASSUME NEW i \in 1 .. Len(ys) PROVE ys[i] = zs[i]
  <2>1. CASE i = Len(ws) + 1
    BY <1>2, <1>6, <1>7, <2>1
  <2>2. CASE i # Len(ws) + 1
    <3>1. i \in 1 .. Len(ws) /\ i \in 1 .. Len(xs) /\ i # Len(xs)
      BY <1>2, <1>7, <2>2
    <3> QED BY <1>2, <1>6, <1>7, <3>1
  <2> QED BY <2>1, <2>2
<1>9. ys = zs
  BY <1>2, <1>6, <1>7, <1>8, SeqEqual
<1> QED BY <1>5, <1>9 DEF xs, zs, v

(* The tokenizer's steps.                                                  *)
At(ws, in) == [words |-> ws, in |-> in]

LEMMA SymbolsDiffer ==
  /\ Quote \notin Separators /\ Backslash \notin Separators /\ Backslash # Quote
  /\ White \subseteq Separators /\ Comma \in Separators /\ Comma \notin White
  /\ Blank \in White /\ White \subseteq Symbols
<1>1. Quote \notin Separators /\ Backslash \notin Separators /\ Backslash # Quote
  BY Zenon DEF Separators, White, Blank, Tab, Newline, Comma, Quote, Backslash
<1>2. Comma \notin White
  BY Zenon DEF White, Blank, Tab, Newline, Comma
<1> QED BY <1>1, <1>2 DEF Separators, White, Symbols

LEMMA Outside ==
  ASSUME NEW ws \in Seq(Chars), NEW c \in Symbols, NEW in \in {"between", "bare"}
  PROVE  /\ c \in Separators => Step(At(ws, in), c) = At(ws, "between")
         /\ c = Quote => Step(At(ws, in), c) = At(Append(ws, <<>>), "quoted")
BY SymbolsDiffer DEF Step, At, Pass, Begin

LEMMA InBare ==
  ASSUME NEW ws \in Seq(Chars), NEW w \in Chars, NEW c \in Symbols,
         c \notin Separators \cup {Quote}
  PROVE  /\ Step(At(ws, "between"), c) = At(Append(ws, <<c>>), "bare")
         /\ Step(At(Append(ws, w), "bare"), c) = At(Append(ws, Append(w, c)), "bare")
<1>1. Step(At(ws, "between"), c) = At(Append(ws, <<c>>), "bare")
  BY DEF Step, At, Begin
<1> DEFINE xs == Append(ws, w)
<1>2. Step(At(xs, "bare"), c) = At(Extend(xs, c), "bare")
  <2> HIDE DEF xs
  <2> QED BY DEF Step, At, Put, Extend
<1>3. Extend(xs, c) = Append(ws, Append(w, c))
  BY LastWord
<1> QED BY <1>1, <1>2, <1>3

LEMMA InQuoted ==
  ASSUME NEW ws \in Seq(Chars), NEW w \in Chars, NEW c \in Symbols
  PROVE  /\ c = Backslash => Step(At(ws, "quoted"), c) = At(ws, "escaped")
         /\ c = Quote => Step(At(ws, "quoted"), c) = At(ws, "between")
         /\ c \notin {Quote, Backslash} =>
              Step(At(Append(ws, w), "quoted"), c) = At(Append(ws, Append(w, c)), "quoted")
         /\ Step(At(Append(ws, w), "escaped"), c) = At(Append(ws, Append(w, c)), "quoted")
<1>1. /\ c = Backslash => Step(At(ws, "quoted"), c) = At(ws, "escaped")
      /\ c = Quote => Step(At(ws, "quoted"), c) = At(ws, "between")
  BY SymbolsDiffer DEF Step, At, Pass
<1> DEFINE xs == Append(ws, w)
<1>2. /\ c \notin {Quote, Backslash} =>
           Step(At(xs, "quoted"), c) = At(Extend(xs, c), "quoted")
      /\ Step(At(xs, "escaped"), c) = At(Extend(xs, c), "quoted")
  <2> HIDE DEF xs
  <2> QED BY DEF Step, At, Put, Extend
<1>3. Extend(xs, c) = Append(ws, Append(w, c))
  BY LastWord
<1> QED BY <1>1, <1>2, <1>3

(* Wherever the tokenizer is but between words, it has one to add to.      *)
Reached(m) ==
  \E ws \in Seq(Chars), in \in {"between", "bare", "quoted", "escaped"} :
    m = At(ws, in) /\ (in = "between" \/ ws # <<>>)

LEMMA StepReached ==
  ASSUME NEW m, Reached(m), NEW c \in Symbols
  PROVE  Reached(Step(m, c))
<1>1. PICK ws \in Seq(Chars), in \in {"between", "bare", "quoted", "escaped"} :
         m = At(ws, in) /\ (in = "between" \/ ws # <<>>)
  BY DEF Reached
<1>2. <<>> \in Chars /\ <<c>> \in Chars
  BY DEF Chars
<1>3. ASSUME NEW w \in Chars PROVE Append(ws, w) \in Seq(Chars) /\ Append(ws, w) # <<>>
  BY AppendProperties
<1>4. CASE in \in {"between", "bare"} /\ c \in Separators
  <2>1. Step(m, c) = At(ws, "between")
    BY <1>1, <1>4, Outside
  <2> QED BY <2>1 DEF Reached
<1>5. CASE in \in {"between", "bare"} /\ c = Quote
  <2>1. Step(m, c) = At(Append(ws, <<>>), "quoted")
    BY <1>1, <1>5, Outside
  <2> QED BY <1>2, <1>3, <2>1 DEF Reached
<1>6. CASE in = "between" /\ c \notin Separators \cup {Quote}
  <2>1. Step(m, c) = At(Append(ws, <<c>>), "bare")
    BY <1>1, <1>2, <1>6, InBare
  <2> QED BY <1>2, <1>3, <2>1 DEF Reached
<1>7. CASE in = "quoted" /\ c = Backslash
  <2>1. Step(m, c) = At(ws, "escaped") /\ ws # <<>>
    BY <1>1, <1>2, <1>7, InQuoted
  <2> QED BY <2>1 DEF Reached
<1>8. CASE in = "quoted" /\ c = Quote
  <2>1. Step(m, c) = At(ws, "between")
    BY <1>1, <1>2, <1>8, InQuoted
  <2> QED BY <2>1 DEF Reached
<1>9. ASSUME ws # <<>>,
             \/ in = "bare" /\ c \notin Separators \cup {Quote}
             \/ in = "quoted" /\ c \notin {Quote, Backslash}
             \/ in = "escaped"
      PROVE  Reached(Step(m, c))
  <2>1. PICK f \in Seq(Chars), w \in Chars : ws = Append(f, w)
    BY <1>9, SequenceEmptyOrAppend, Zenon
  <2>2. Append(w, c) \in Chars
    BY AppendProperties DEF Chars
  <2> DEFINE xs == Append(f, Append(w, c))
  <2>3. xs \in Seq(Chars) /\ xs # <<>>
    BY <2>2, AppendProperties
  <2>4. Step(m, c) = At(xs, "bare") \/ Step(m, c) = At(xs, "quoted")
    <3>1. CASE in = "bare" /\ c \notin Separators \cup {Quote}
      <4>1. Step(At(Append(f, w), "bare"), c) = At(xs, "bare")
        BY <3>1, InBare
      <4> QED BY <1>1, <2>1, <3>1, <4>1
    <3>2. CASE in = "quoted" /\ c \notin {Quote, Backslash}
      <4>1. Step(At(Append(f, w), "quoted"), c) = At(xs, "quoted")
        BY <3>2, InQuoted
      <4> QED BY <1>1, <2>1, <3>2, <4>1
    <3>3. CASE in = "escaped"
      <4>1. Step(At(Append(f, w), "escaped"), c) = At(xs, "quoted")
        BY InQuoted
      <4> QED BY <1>1, <2>1, <3>3, <4>1
    <3> QED BY <1>9, <3>1, <3>2, <3>3
  <2> HIDE DEF xs
  <2> QED BY <2>3, <2>4 DEF Reached
<1> QED BY <1>1, <1>4, <1>5, <1>6, <1>7, <1>8, <1>9

LEMMA ScanText ==
  ASSUME NEW t \in Chars
  PROVE  Reached(Scan(t)) /\ Tokens(t) \in Seq(Chars)
<1> DEFINE P == {u \in Chars : Reached(Scan(u))}
<1>1. <<>> \in P
  <2>1. <<>> \in Chars /\ <<>> \in Seq(Symbols) /\ Blank \in Symbols /\ <<>> \in Seq(Chars)
    BY DEF Chars, Symbols, White
  <2>2. Scan(<<>>) = At(<<>>, "between")
    BY <2>1, ScanLaw DEF At
  <2> QED BY <2>1, <2>2 DEF Reached
<1>2. ASSUME NEW u \in Chars, NEW c \in Symbols, u \in P
      PROVE  Append(u, c) \in P
  <2>1. Append(u, c) \in Chars /\ Scan(Append(u, c)) = Step(Scan(u), c)
    BY ScanLaw, AppendProperties DEF Chars
  <2> QED BY <1>2, <2>1, StepReached
<1>3. t \in P
  <2> HIDE DEF P
  <2> QED BY <1>1, <1>2, SeqInduct DEF Chars
<1>4. Reached(Scan(t))
  BY <1>3
<1> QED BY <1>4 DEF Reached, Tokens, At

(* Without quotes, the words are what lies between blanks and commas.      *)
LEMMA BareTokens ==
  ASSUME NEW t \in Chars, Free(t, {Quote})
  PROVE  /\ Tokens(t) = NonEmpty(Split(t, Separators))
         /\ \E ws \in Seq(Chars), in \in {"between", "bare"} : Scan(t) = At(ws, in)
<1> DEFINE S == Separators
           Place(l) == IF l = <<>> THEN "between" ELSE "bare"
           Alike(u) == \E f \in Seq(Chars), l \in Chars :
                         /\ Split(u, S) = Append(f, l)
                         /\ Scan(u) = At(Keep(NonEmpty(f), l), Place(l))
           P == {u \in Chars : Free(u, {Quote}) => Alike(u)}
<1>0. <<>> \in Chars /\ <<>> \in Seq(Symbols) /\ Blank \in Symbols /\ <<>> \in Seq(Chars)
  BY DEF Chars, Symbols, White
<1>1. <<>> \in P
  <2>1. Scan(<<>>) = At(<<>>, "between") /\ Split(<<>>, S) = <<<<>>>>
    BY <1>0, ScanLaw, SplitLaw DEF At
  <2>2. NonEmpty(<<>>) = <<>>
    BY <1>0, NonEmptyLaw
  <2>3. <<<<>>>> = Append(<<>>, <<>>) /\ Keep(NonEmpty(<<>>), <<>>) = <<>>
    BY <2>2 DEF Keep
  <2>4. Alike(<<>>)
    BY <1>0, <2>1, <2>3
  <2> HIDE DEF Alike
  <2> QED BY <1>0, <2>4
<1>2. ASSUME NEW u \in Chars, NEW c \in Symbols, u \in P
      PROVE  Append(u, c) \in P
  <2> DEFINE v == Append(u, c)
  <2>1. /\ v \in Chars /\ Len(v) = Len(u) + 1 /\ v[Len(u) + 1] = c
        /\ \A i \in 1 .. Len(u) : v[i] = u[i]
        /\ Len(u) \in Nat
    BY AppendProperties DEF Chars
  <2>2. Scan(v) = Step(Scan(u), c) /\ Split(v, S) = Cut(Split(u, S), c, S)
    BY ScanLaw, SplitLaw DEF Chars
  <2>3. ASSUME Free(v, {Quote}) PROVE Alike(v)
    <3> HIDE DEF v
    <3>1. c # Quote /\ Free(u, {Quote})
      <4>1. Len(u) + 1 \in 1 .. Len(v) /\ \A i \in 1 .. Len(u) : i \in 1 .. Len(v)
        BY <2>1
      <4> QED BY <2>1, <2>3, <4>1 DEF Free
    <3>2. PICK f \in Seq(Chars), l \in Chars :
            Split(u, S) = Append(f, l) /\ Scan(u) = At(Keep(NonEmpty(f), l), Place(l))
      BY <1>2, <3>1
    <3> DEFINE ks == NonEmpty(f)
               g == Append(f, l)
    <3>3. ks \in Seq(Chars) /\ g \in Seq(Chars) /\ NonEmpty(g) = Keep(ks, l)
      BY NonEmptyFacts, NonEmptyLaw, AppendProperties
    <3>4. Keep(ks, l) \in Seq(Chars)
      <4> HIDE DEF ks
      <4> QED BY <3>3, AppendProperties DEF Keep
    <3>5. CASE c \in S
      <4>1. Split(v, S) = Append(g, <<>>)
        BY <2>2, <3>2, <3>5 DEF Cut
      <4>2. Place(l) \in {"between", "bare"}
        OBVIOUS
      <4>3. Scan(v) = At(Keep(ks, l), "between")
        <5> HIDE DEF ks, Place
        <5> QED BY <2>2, <3>2, <3>4, <3>5, <4>2, Outside DEF ks
      <4>4. Keep(NonEmpty(g), <<>>) = Keep(ks, l)
        BY <3>3 DEF Keep
      <4> HIDE DEF g, ks
      <4>5. Scan(v) = At(Keep(NonEmpty(g), <<>>), Place(<<>>))
        BY <4>3, <4>4
      <4> HIDE DEF Place
      <4> QED BY <1>0, <3>3, <4>1, <4>5
    <3>6. CASE c \notin S
      <4> DEFINE k == Append(l, c)
      <4>1. k \in Chars /\ k # <<>>
        BY AppendProperties DEF Chars
      <4>2. Split(v, S) = Append(f, k)
        <5>1. Split(v, S) = Extend(g, c)
          BY <2>2, <3>2, <3>6 DEF Cut
        <5> HIDE DEF g, k
        <5>2. Extend(g, c) = Append(f, k)
          BY LastWord DEF g, k
        <5> QED BY <5>1, <5>2
      <4>3. c \notin Separators \cup {Quote}
        BY <3>1, <3>6
      <4>4. Scan(v) = At(Append(ks, k), "bare")
        <5>1. CASE l = <<>>
          <6>1. Scan(u) = At(ks, "between") /\ k = <<c>>
            BY <3>2, <5>1 DEF Keep
          <6> HIDE DEF ks, k
          <6>2. Step(At(ks, "between"), c) = At(Append(ks, <<c>>), "bare")
            BY <1>0, <3>3, <4>3, InBare
          <6> QED BY <2>2, <6>1, <6>2
        <5>2. CASE l # <<>>
          <6>1. Scan(u) = At(Append(ks, l), "bare")
            BY <3>2, <5>2 DEF Keep
          <6> HIDE DEF ks
          <6>2. Step(At(Append(ks, l), "bare"), c) = At(Append(ks, Append(l, c)), "bare")
            BY <3>3, <4>3, InBare
          <6> QED BY <2>2, <6>1, <6>2
        <5> QED BY <5>1, <5>2
      <4>5. Keep(ks, k) = Append(ks, k)
        BY <4>1 DEF Keep
      <4> HIDE DEF ks, k
      <4>6. Place(k) = "bare"
        BY <4>1
      <4> HIDE DEF Place
      <4> QED BY <4>1, <4>2, <4>4, <4>5, <4>6 DEF ks
    <3> QED BY <3>5, <3>6
  <2> HIDE DEF Alike
  <2> QED BY <2>1, <2>3
<1>3. t \in P
  <2> HIDE DEF P
  <2> QED BY <1>1, <1>2, SeqInduct DEF Chars
<1>4. PICK f \in Seq(Chars), l \in Chars :
        Split(t, S) = Append(f, l) /\ Scan(t) = At(Keep(NonEmpty(f), l), Place(l))
  BY <1>3
<1>5. NonEmpty(Append(f, l)) = Keep(NonEmpty(f), l)
  BY NonEmptyLaw
<1>6. Keep(NonEmpty(f), l) \in Seq(Chars)
  <2>1. NonEmpty(f) \in Seq(Chars)
    BY NonEmptyFacts
  <2> QED BY <2>1, AppendProperties DEF Keep
<1>7. Tokens(t) = Keep(NonEmpty(f), l)
  BY <1>4 DEF Tokens, At
<1> QED BY <1>4, <1>5, <1>6, <1>7

(* Blanks around a text without quotes do not change its words.            *)
LEMMA ScanSame ==
  ASSUME NEW t \in Chars, NEW u \in Chars, Scan(t) = Scan(u), NEW v \in Chars
  PROVE  Scan(t \o v) = Scan(u \o v)
<1> DEFINE P == {x \in Chars : Scan(t \o x) = Scan(u \o x)}
<1>1. <<>> \in P
  <2>1. <<>> \in Chars /\ t \o <<>> = t /\ u \o <<>> = u
    BY GlueNothing
  <2> QED BY <2>1
<1>2. ASSUME NEW x \in Chars, NEW c \in Symbols, x \in P
      PROVE  Append(x, c) \in P
  <2>1. t \in Seq(Symbols) /\ x \in Seq(Symbols)
    BY DEF Chars
  <2>2. u \in Seq(Symbols)
    BY DEF Chars
  <2>3. t \o Append(x, c) = Append(t \o x, c) /\ t \o x \in Seq(Symbols)
    BY <2>1, ConcatAppend
  <2>4. u \o Append(x, c) = Append(u \o x, c) /\ u \o x \in Seq(Symbols)
    BY <2>1, <2>2, ConcatAppend
  <2> DEFINE y == t \o x
             z == u \o x
  <2>5. Scan(y) = Scan(z)
    BY <1>2
  <2> HIDE DEF y, z
  <2>6. Scan(Append(y, c)) = Step(Scan(y), c)
    BY <2>3, ScanLaw DEF y
  <2>7. Scan(Append(z, c)) = Step(Scan(z), c)
    BY <2>4, ScanLaw DEF z
  <2>8. Append(x, c) \in Chars
    BY <2>1, AppendProperties DEF Chars
  <2> QED BY <2>3, <2>4, <2>5, <2>6, <2>7, <2>8 DEF y, z
<1>3. v \in P
  <2> HIDE DEF P
  <2> QED BY <1>1, <1>2, SeqInduct DEF Chars
<1> QED BY <1>3

Stays(m, ws, in) == \E out \in {"between", in} : m = At(ws, out)

LEMMA ScanSpaces ==
  ASSUME NEW t \in Chars, NEW ws \in Seq(Chars), NEW in \in {"between", "bare"},
         Scan(t) = At(ws, in), NEW x \in Chars, Spaces(x)
  PROVE  Stays(Scan(t \o x), ws, in)
<1> DEFINE StaysAfter(y) == Stays(Scan(t \o y), ws, in)
           P == {y \in Chars : Spaces(y) => StaysAfter(y)}
<1>1. <<>> \in P
  <2>1. <<>> \in Chars /\ t \o <<>> = t
    BY GlueNothing
  <2> QED BY <2>1 DEF Stays
<1>2. ASSUME NEW y \in Chars, NEW c \in Symbols, y \in P
      PROVE  Append(y, c) \in P
  <2> DEFINE z == Append(y, c)
  <2>1. /\ z \in Chars /\ Len(z) = Len(y) + 1 /\ z[Len(y) + 1] = c
        /\ \A i \in 1 .. Len(y) : z[i] = y[i]
        /\ Len(y) \in Nat
    BY AppendProperties DEF Chars
  <2>2. t \in Seq(Symbols) /\ y \in Seq(Symbols)
    BY DEF Chars
  <2>3. t \o z = Append(t \o y, c) /\ t \o y \in Seq(Symbols)
    BY <2>2, ConcatAppend
  <2>4. Scan(t \o z) = Step(Scan(t \o y), c)
    <3> DEFINE u == t \o y
    <3> HIDE DEF u
    <3>1. Scan(Append(u, c)) = Step(Scan(u), c)
      BY <2>3, ScanLaw DEF u
    <3> QED BY <2>3, <3>1 DEF u
  <2>5. ASSUME Spaces(z) PROVE StaysAfter(z)
    <3> HIDE DEF z
    <3>1. c \in White /\ Spaces(y)
      <4>1. Len(y) + 1 \in 1 .. Len(z) /\ \A i \in 1 .. Len(y) : i \in 1 .. Len(z)
        BY <2>1
      <4> QED BY <2>1, <2>5, <4>1 DEF Spaces
    <3>2. PICK out \in {"between", in} : Scan(t \o y) = At(ws, out)
      BY <1>2, <3>1 DEF Stays
    <3>3. Step(At(ws, out), c) = At(ws, "between")
      BY <3>1, Outside, SymbolsDiffer
    <3> QED BY <2>4, <3>2, <3>3 DEF Stays
  <2> HIDE DEF StaysAfter
  <2> QED BY <2>1, <2>5
<1>3. x \in P
  <2> HIDE DEF P
  <2> QED BY <1>1, <1>2, SeqInduct DEF Chars
<1> QED BY <1>3

LEMMA TokensTrim ==
  ASSUME NEW t \in Chars, Free(t, {Quote})
  PROVE  Tokens(Trim(t)) = Tokens(t)
<1> DEFINE w == Trim(t)
<1>1. w \in Chars /\ Free(w, {Quote})
  BY TrimText, TrimFree
<1>2. <<>> \in Chars /\ <<>> \in Seq(Symbols) /\ Blank \in Symbols /\ <<>> \in Seq(Chars)
  BY DEF Chars, Symbols, White
<1>3. Scan(<<>>) = At(<<>>, "between")
  BY <1>2, ScanLaw DEF At
<1>4. ASSUME NEW x \in Chars, Spaces(x), NEW u \in Chars, Free(u, {Quote}),
             NEW y \in Chars, Spaces(y)
      PROVE  Tokens(x \o (u \o y)) = Tokens(u)
  <2>1. <<>> \o x = x /\ <<>> \o u = u
    BY <1>4, GlueNothing
  <2>2. Scan(x) = Scan(<<>>)
    <3> DEFINE z == <<>> \o x
    <3>1. Stays(Scan(z), <<>>, "between")
      BY <1>2, <1>3, <1>4, ScanSpaces
    <3> HIDE DEF z
    <3> QED BY <1>3, <2>1, <3>1 DEF z, Stays
  <2>3. Scan(x \o u) = Scan(u)
    <3>1. Scan(x \o u) = Scan(<<>> \o u)
      BY <1>2, <1>4, <2>2, ScanSame, Zenon
    <3> QED BY <2>1, <3>1
  <2>4. PICK ws \in Seq(Chars), in \in {"between", "bare"} : Scan(u) = At(ws, in)
    BY <1>4, BareTokens, Zenon
  <2> DEFINE v == x \o u
  <2>5. v \in Chars /\ x \o (u \o y) = v \o y
    <3>1. v \in Chars
      BY <1>4, Glued
    <3>2. (x \o u) \o y = x \o (u \o y)
      BY <1>4, Regroup
    <3> QED BY <3>1, <3>2
  <2>6. Scan(v) = At(ws, in)
    BY <2>3, <2>4
  <2> HIDE DEF v
  <2>7. Stays(Scan(v \o y), ws, in)
    BY <1>4, <2>5, <2>6, ScanSpaces, Zenon
  <2>8. Tokens(v \o y) = ws /\ Tokens(u) = ws
    BY <2>4, <2>7 DEF Tokens, At, Stays
  <2> QED BY <2>5, <2>8
<1>5. CASE w = <<>> /\ Spaces(t)
  <2>1. Free(<<>>, {Quote}) /\ Spaces(<<>>)
    BY DEF Free, Spaces
  <2>2. t \o (<<>> \o <<>>) = t
    BY <1>2, GlueNothing
  <2>3. Tokens(t \o (<<>> \o <<>>)) = Tokens(<<>>)
    BY <1>2, <1>4, <1>5, <2>1
  <2> QED BY <1>5, <2>2, <2>3
<1>6. ASSUME NEW x \in Chars, NEW y \in Chars, Spaces(x), Spaces(y), t = x \o (w \o y)
      PROVE  Tokens(w) = Tokens(t)
  <2> HIDE DEF w
  <2> QED BY <1>1, <1>4, <1>6
<1> QED BY <1>5, <1>6, TrimParts

(* Applying a function to every element, and to one more.                  *)
LEMMA MapAppend ==
  ASSUME NEW A, NEW B, NEW f \in [A -> B], NEW s \in Seq(A), NEW c \in A
  PROVE  /\ [i \in 1 .. Len(s) |-> f[s[i]]] \in Seq(B)
         /\ [i \in 1 .. Len(Append(s, c)) |-> f[Append(s, c)[i]]] =
              Append([i \in 1 .. Len(s) |-> f[s[i]]], f[c])
<1> DEFINE n == Len(s)
           xs == Append(s, c)
           a == [i \in 1 .. n |-> f[s[i]]]
           b == [i \in 1 .. Len(xs) |-> f[xs[i]]]
           d == Append(a, f[c])
<1>1. /\ xs \in Seq(A) /\ Len(xs) = n + 1 /\ xs[n + 1] = c
      /\ \A i \in 1 .. n : xs[i] = s[i]
      /\ n \in Nat
  BY AppendProperties
<1>2. /\ \A i \in 1 .. n : f[s[i]] \in B
      /\ \A i \in 1 .. n + 1 : f[xs[i]] \in B
      /\ f[c] \in B
  <2> HIDE DEF xs
  <2>1. \A i \in 1 .. n : s[i] \in A
    BY ElementOfSeq
  <2>2. \A i \in 1 .. n + 1 : xs[i] \in A
    BY <1>1, ElementOfSeq
  <2> QED BY <2>1, <2>2
<1>3. a \in Seq(B) /\ Len(a) = n
  <2>1. a \in [1 .. n -> B]
    BY <1>2
  <2> QED BY <1>1, <2>1, SeqDef
<1>4. b \in Seq(B) /\ Len(b) = n + 1
  <2> HIDE DEF xs
  <2>1. b \in [1 .. n + 1 -> B] /\ n + 1 \in Nat
    BY <1>1, <1>2
  <2> QED BY <2>1, SeqDef
<1>5. /\ d \in Seq(B) /\ Len(d) = n + 1 /\ d[n + 1] = f[c]
      /\ \A i \in 1 .. n : d[i] = a[i]
  <2> DEFINE e == f[c]
  <2>1. e \in B
    BY <1>2
  <2> HIDE DEF a, e
  <2>2. /\ Append(a, e) \in Seq(B) /\ Len(Append(a, e)) = n + 1
        /\ Append(a, e)[n + 1] = e
        /\ \A i \in 1 .. n : Append(a, e)[i] = a[i]
    BY <1>3, <2>1, AppendProperties
  <2> QED BY <2>2 DEF e
<1>6. ASSUME NEW i \in 1 .. n + 1 PROVE b[i] = d[i]
  <2>1. b[i] = f[xs[i]]
    BY <1>1
  <2>2. CASE i = n + 1
    <3> HIDE DEF b, d, xs
    <3> QED BY <1>1, <1>5, <2>1, <2>2
  <2>3. CASE i # n + 1
    <3>1. i \in 1 .. n
      BY <1>1, <2>3
    <3>2. a[i] = f[s[i]]
      BY <3>1
    <3> HIDE DEF a, b, d, xs
    <3> QED BY <1>1, <1>5, <2>1, <3>1, <3>2
  <2> QED BY <2>2, <2>3
<1>7. b = d
  <2> HIDE DEF b, d
  <2> QED BY <1>4, <1>5, <1>6, SeqEqual
<1> HIDE DEF b, d
<1>8. b = [i \in 1 .. Len(xs) |-> f[xs[i]]]
  BY DEF b
<1> QED BY <1>3, <1>7, <1>8 DEF d

(* A word printed for debugging is read as that word, but for the symbols  *)
(* printed as codes: what is read is the code.                             *)
Escaped(w) == Flat([i \in 1 .. Len(w) |-> Escape(w[i])])

Decode(c) == IF c \in Coded THEN Code ELSE c
Decoded(w) == [i \in 1 .. Len(w) |-> Decode(w[i])]

LEMMA EscapeFacts ==
  ASSUME NEW c \in Symbols
  PROVE  /\ Decode(c) \in Symbols /\ (c \notin Coded => Decode(c) = c)
         /\ \/ Escape(c) = <<Backslash, Decode(c)>>
            \/ Escape(c) = <<c>> /\ Decode(c) = c /\ c \notin {Quote, Backslash}
<1>1. Code \in Symbols
  BY DEF Symbols
<1>2. Quote \notin Coded /\ Backslash \notin Coded
  BY Zenon DEF Coded, Tab, Newline, Control, Quote, Backslash
<1>3. CASE c \in Coded
  BY <1>1, <1>2, <1>3 DEF Escape, Decode
<1>4. CASE c \notin Coded
  <2>1. Decode(c) = c
    BY <1>4 DEF Decode
  <2>2. Escape(c) = IF c \in {Quote, Backslash} THEN <<Backslash, c>> ELSE <<c>>
    BY <1>4 DEF Escape
  <2> QED BY <1>4, <2>1, <2>2
<1> QED BY <1>3, <1>4

LEMMA EscapeText ==
  ASSUME NEW c \in Symbols
  PROVE  Escape(c) \in Chars
<1>1. Backslash \in Symbols /\ Decode(c) \in Symbols
  BY EscapeFacts DEF Symbols
<1>2. <<Backslash, Decode(c)>> \in Seq(Symbols) /\ <<c>> \in Seq(Symbols)
  BY <1>1
<1> QED BY <1>2, EscapeFacts DEF Chars

LEMMA DecodedLaw ==
  ASSUME NEW w \in Chars, NEW c \in Symbols
  PROVE  /\ Decoded(w) \in Chars /\ Decoded(<<>>) = <<>>
         /\ Decoded(Append(w, c)) = Append(Decoded(w), Decode(c))
         /\ Free(w, Coded) => Decoded(w) = w
<1> DEFINE f == [x \in Symbols |-> Decode(x)]
           xs == Append(w, c)
<1>1. f \in [Symbols -> Symbols] /\ w \in Seq(Symbols) /\ xs \in Seq(Symbols)
  BY EscapeFacts, AppendProperties DEF Chars
<1>2. /\ [i \in 1 .. Len(w) |-> f[w[i]]] \in Seq(Symbols)
      /\ [i \in 1 .. Len(xs) |-> f[xs[i]]]
           = Append([i \in 1 .. Len(w) |-> f[w[i]]], f[c])
  <2> HIDE DEF f, xs
  <2> QED BY <1>1, MapAppend DEF xs
<1>3. Decoded(w) = [i \in 1 .. Len(w) |-> f[w[i]]]
  BY <1>1 DEF Decoded
<1>4. Decoded(xs) = [i \in 1 .. Len(xs) |-> f[xs[i]]]
  <2> HIDE DEF xs
  <2> QED BY <1>1 DEF Decoded
<1>5. Decoded(w) \in Chars /\ Decoded(xs) = Append(Decoded(w), Decode(c))
  BY <1>2, <1>3, <1>4 DEF Chars
<1>6. Decoded(<<>>) = <<>>
  BY DEF Decoded
<1>7. ASSUME Free(w, Coded) PROVE Decoded(w) = w
  <2>1. \A m \in 1 .. Len(w) : Decode(w[m]) = w[m]
    BY <1>1, <1>7, EscapeFacts DEF Free
  <2>2. \A m \in 1 .. Len(w) : Decoded(w)[m] = w[m]
    BY <2>1 DEF Decoded
  <2>3. Len(Decoded(w)) = Len(w)
    BY <1>1 DEF Decoded
  <2> QED BY <1>5, <2>2, <2>3, SameText
<1> QED BY <1>5, <1>6, <1>7

LEMMA EscapedLaw ==
  ASSUME NEW w \in Chars, NEW c \in Symbols
  PROVE  /\ Escaped(<<>>) = <<>>
         /\ Escaped(Append(w, c)) = Escaped(w) \o Escape(c)
<1> DEFINE f == [x \in Symbols |-> Escape(x)]
           a == [i \in 1 .. Len(w) |-> f[w[i]]]
           xs == Append(w, c)
<1>1. f \in [Symbols -> Chars] /\ w \in Seq(Symbols)
  BY EscapeText DEF Chars
<1>2. f[c] = Escape(c)
  OBVIOUS
<1>3. a = [i \in 1 .. Len(w) |-> Escape(w[i])]
  <2>1. \A i \in 1 .. Len(w) : w[i] \in Symbols
    BY <1>1, ElementOfSeq
  <2>2. \A i \in 1 .. Len(w) : f[w[i]] = Escape(w[i])
    BY <2>1
  <2> HIDE DEF f
  <2> QED BY <2>2
<1>4. [i \in 1 .. Len(xs) |-> f[xs[i]]] = [i \in 1 .. Len(xs) |-> Escape(xs[i])]
  <2>1. xs \in Seq(Symbols)
    BY <1>1, AppendProperties
  <2> HIDE DEF xs
  <2>2. \A i \in 1 .. Len(xs) : xs[i] \in Symbols
    BY <2>1, ElementOfSeq
  <2>3. \A i \in 1 .. Len(xs) : f[xs[i]] = Escape(xs[i])
    BY <2>2
  <2> HIDE DEF f
  <2> QED BY <2>3
<1>5. a \in Seq(Chars) /\ [i \in 1 .. Len(xs) |-> f[xs[i]]] = Append(a, f[c])
  <2> HIDE DEF f
  <2> QED BY <1>1, MapAppend
<1> HIDE DEF f, a, xs
<1>6. Escaped(xs) = Flat(Append(a, Escape(c))) /\ Escaped(w) = Flat(a)
  BY <1>2, <1>3, <1>4, <1>5 DEF Escaped
<1>7. Flat(Append(a, Escape(c))) = Flat(a) \o Escape(c)
  BY <1>5, EscapeText, FlatLaw
<1>8. Escaped(<<>>) = <<>>
  <2>1. Flat(<<>>) = <<>>
    BY <1>5, EscapeText, FlatLaw
  <2>2. [i \in 1 .. Len(<<>>) |-> Escape(<<>>[i])] = <<>>
    OBVIOUS
  <2> QED BY <2>1, <2>2 DEF Escaped
<1> QED BY <1>6, <1>7, <1>8 DEF xs

LEMMA Pair ==
  ASSUME NEW b \in Symbols, NEW c \in Symbols
  PROVE  <<b>> \in Chars /\ Append(<<b>>, c) = <<b, c>>
<1> DEFINE t == <<b>>
           u == <<b, c>>
           v == Append(t, c)
<1>1. t \in Seq(Symbols) /\ Len(t) = 1 /\ t[1] = b
  OBVIOUS
<1>2. u \in Seq(Symbols) /\ Len(u) = 2 /\ u[1] = b /\ u[2] = c
  OBVIOUS
<1> HIDE DEF t, u
<1>3. ASSUME NEW x \in Seq(Symbols)
      PROVE  /\ Append(x, c) \in Seq(Symbols) /\ Len(Append(x, c)) = Len(x) + 1
             /\ Append(x, c)[Len(x) + 1] = c
             /\ \A i \in 1 .. Len(x) : Append(x, c)[i] = x[i]
  BY AppendProperties
<1>4. /\ v \in Seq(Symbols) /\ Len(v) = Len(t) + 1 /\ v[Len(t) + 1] = c
      /\ \A i \in 1 .. Len(t) : v[i] = t[i]
  BY <1>1, <1>3, Zenon
<1> HIDE DEF v
<1>5. Len(v) = 2 /\ v[1] = b /\ v[2] = c
  BY <1>1, <1>4
<1>6. ASSUME NEW i \in 1 .. Len(u) PROVE u[i] = v[i]
  BY <1>2, <1>5
<1>7. u = v
  BY <1>2, <1>4, <1>5, <1>6, SeqEqual
<1> QED BY <1>1, <1>7 DEF t, u, v, Chars

LEMMA EscapedScan ==
  ASSUME NEW q \in Chars, NEW ws \in Seq(Chars), Scan(q) = At(Append(ws, <<>>), "quoted"),
         NEW w \in Chars
  PROVE  /\ Escaped(w) \in Chars
         /\ Scan(q \o Escaped(w)) = At(Append(ws, Decoded(w)), "quoted")
<1> DEFINE P == {x \in Chars : Escaped(x) \in Chars /\
                                Scan(q \o Escaped(x)) = At(Append(ws, Decoded(x)), "quoted")}
<1>0. <<>> \in Chars /\ Blank \in Symbols /\ Backslash \in Symbols
  BY DEF Chars, Symbols, White
<1>1. <<>> \in P
  <2>1. q \o <<>> = q
    BY GlueNothing
  <2>2. Escaped(<<>>) = <<>>
    BY <1>0, EscapedLaw
  <2> QED BY <1>0, <2>1, <2>2, DecodedLaw
<1>2. ASSUME NEW x \in Chars, NEW c \in Symbols, x \in P
      PROVE  Append(x, c) \in P
  <2> DEFINE E == Escaped(x)
             u == q \o E
             y == Append(x, c)
             d == Decode(c)
             g == Decoded(x)
             h == Decoded(y)
  <2>1. E \in Chars /\ Scan(u) = At(Append(ws, g), "quoted")
    BY <1>2
  <2>g. g \in Chars /\ d \in Symbols /\ h = Append(g, d)
    BY DecodedLaw, EscapeFacts
  <2>2. Escaped(y) = E \o Escape(c) /\ y \in Chars
    BY EscapedLaw, AppendProperties DEF Chars
  <2>3. Escape(c) \in Chars
    BY EscapeText
  <2> DEFINE e == Escape(c)
  <2>h. e = <<Backslash, d>> \/ (e = <<c>> /\ d = c /\ c \notin {Quote, Backslash})
    BY EscapeFacts
  <2> HIDE DEF E, e, d, g, h
  <2>4. u \in Chars /\ E \o e \in Chars /\ q \o (E \o e) = u \o e
    <3>1. q \in Seq(Symbols) /\ E \in Seq(Symbols) /\ e \in Seq(Symbols)
      BY <2>1, <2>3 DEF Chars, e
    <3>2. q \o (E \o e) = (q \o E) \o e
      BY <3>1, ConcatAssociative
    <3>3. q \o E \in Seq(Symbols) /\ E \o e \in Seq(Symbols)
      BY <3>1, ConcatProperties
    <3> QED BY <3>2, <3>3 DEF Chars
  <2> HIDE DEF u
  <2>5. Scan(u \o e) = At(Append(ws, h), "quoted")
    <3>1. CASE e = <<Backslash, d>>
      <4> DEFINE v == Append(u, Backslash)
      <4>1. v \in Chars /\ u \o <<Backslash, d>> = Append(v, d)
        <5>1. u \in Seq(Symbols) /\ <<Backslash>> \in Seq(Symbols)
          BY <1>0, <2>4 DEF Chars
        <5>2. u \o Append(<<Backslash>>, d) = Append(u \o <<Backslash>>, d)
          BY <2>g, <5>1, ConcatAppend
        <5>3. v = u \o <<Backslash>> /\ v \in Chars
          BY <1>0, <5>1, AppendIsConcat, AppendProperties DEF Chars
        <5>4. Append(<<Backslash>>, d) = <<Backslash, d>>
          BY <1>0, <2>g, Pair
        <5> QED BY <5>2, <5>3, <5>4
      <4>3. Scan(v) = Step(Scan(u), Backslash)
        BY <1>0, <2>4, ScanLaw DEF Chars
      <4>4. Step(At(Append(ws, g), "quoted"), Backslash) = At(Append(ws, g), "escaped")
        <5> DEFINE xs == Append(ws, g)
        <5>1. xs \in Seq(Chars)
          BY <2>g, AppendProperties
        <5> HIDE DEF xs
        <5>2. Step(At(xs, "quoted"), Backslash) = At(xs, "escaped")
          BY <1>0, <5>1, InQuoted
        <5> QED BY <5>2 DEF xs
      <4> HIDE DEF v
      <4>5. Scan(Append(v, d)) = Step(Scan(v), d)
        BY <2>g, <4>1, ScanLaw DEF Chars
      <4>6. Step(At(Append(ws, g), "escaped"), d) = At(Append(ws, Append(g, d)), "quoted")
        BY <2>g, InQuoted
      <4> QED BY <2>1, <2>g, <3>1, <4>1, <4>3, <4>4, <4>5, <4>6
    <3>2. CASE e = <<c>> /\ d = c /\ c \notin {Quote, Backslash}
      <4>1. e = <<c>> /\ u \o <<c>> = Append(u, c)
        <5>1. u \in Seq(Symbols)
          BY <2>4 DEF Chars
        <5> QED BY <3>2, <5>1, AppendIsConcat
      <4>2. Scan(Append(u, c)) = Step(Scan(u), c)
        BY <2>4, ScanLaw DEF Chars
      <4>3. Step(At(Append(ws, g), "quoted"), c) = At(Append(ws, Append(g, c)), "quoted")
        BY <2>g, <3>2, InQuoted
      <4> QED BY <2>1, <2>g, <3>2, <4>1, <4>2, <4>3
    <3> QED BY <2>h, <3>1, <3>2
  <2>6. Escaped(y) \in Chars /\ Scan(q \o Escaped(y)) = At(Append(ws, h), "quoted")
    BY <2>2, <2>4, <2>5 DEF e
  <2> QED BY <2>2, <2>6 DEF h
<1>3. w \in P
  <2> HIDE DEF P
  <2> QED BY <1>1, <1>2, SeqInduct DEF Chars
<1> QED BY <1>3

Enclosed(t) == t # <<>> /\ t[1] = Quote /\ t[Len(t)] = Quote

LEMMA EnclosedAround ==
  ASSUME NEW t \in Chars, NEW u \in Chars, NEW v \in Chars, Enclosed(t), Enclosed(v)
  PROVE  (t \o u) \o v \in Chars /\ Enclosed((t \o u) \o v)
<1> DEFINE x == t \o u
           y == x \o v
<1>1. Len(t) \in Nat \ {0} /\ Len(u) \in Nat /\ Len(v) \in Nat \ {0}
  BY DEF Chars, Enclosed
<1>2. /\ x \in Chars /\ Len(x) = Len(t) + Len(u)
      /\ \A m \in 1 .. Len(t) : x[m] = t[m]
  BY Joined
<1> HIDE DEF x
<1>3. /\ y \in Chars /\ Len(y) = Len(x) + Len(v)
      /\ \A m \in 1 .. Len(x) : y[m] = x[m]
      /\ \A m \in 1 .. Len(v) : y[Len(x) + m] = v[m]
  BY <1>2, Joined
<1> HIDE DEF y
<1>4. 1 \in 1 .. Len(t) /\ 1 \in 1 .. Len(x) /\ Len(v) \in 1 .. Len(v) /\ Len(y) # 0
  BY <1>1, <1>2, <1>3
<1>5. y[1] = Quote /\ y[Len(y)] = Quote
  BY <1>2, <1>3, <1>4 DEF Enclosed
<1>6. y # <<>>
  BY <1>4
<1> QED BY <1>3, <1>5, <1>6 DEF Enclosed, x, y

LEMMA DebugScan ==
  ASSUME NEW t \in Chars, NEW ws \in Seq(Chars), NEW in \in {"between", "bare"},
         Scan(t) = At(ws, in), NEW w \in Chars
  PROVE  /\ Debug(w) \in Chars /\ Enclosed(Debug(w))
         /\ Scan(t \o Debug(w)) = At(Append(ws, Decoded(w)), "between")
<1> DEFINE q == Append(t, Quote)
           E == Escaped(w)
           D == Decoded(w)
           o == <<Quote>>
           x == q \o E
<1>1. Quote \in Symbols /\ o \in Chars /\ <<>> \in Chars /\ Enclosed(o)
  BY DEF Chars, Symbols, Enclosed
<1>2. q \in Chars /\ q = t \o o
  BY <1>1, AppendProperties, AppendIsConcat DEF Chars
<1>3. Scan(q) = At(Append(ws, <<>>), "quoted")
  <2>1. Scan(q) = Step(Scan(t), Quote)
    BY <1>1, ScanLaw DEF Chars
  <2> HIDE DEF q
  <2>2. Step(At(ws, in), Quote) = At(Append(ws, <<>>), "quoted")
    BY <1>1, Outside
  <2> QED BY <2>1, <2>2
<1> HIDE DEF q
<1>4. E \in Chars /\ Scan(x) = At(Append(ws, D), "quoted")
  BY <1>2, <1>3, EscapedScan
<1>d. D \in Chars
  BY <1>1, DecodedLaw
<1>5. Debug(w) = (o \o E) \o o
  BY DEF Debug, Escaped
<1> HIDE DEF E, D, o
<1>6. Debug(w) \in Chars /\ Enclosed(Debug(w))
  BY <1>1, <1>4, <1>5, EnclosedAround
<1>7. x \in Chars
  BY <1>2, <1>4, Glued
<1>8. t \o ((o \o E) \o o) = x \o o
  <2>1. o \in Seq(Symbols) /\ E \in Seq(Symbols)
    BY <1>1, <1>4 DEF Chars
  <2>2. t \in Seq(Symbols)
    BY DEF Chars
  <2> DEFINE y == o \o E
  <2>3. y \in Seq(Symbols) /\ q \o E = t \o y
    <3>1. y \in Seq(Symbols)
      BY <2>1, ConcatProperties
    <3>2. (t \o o) \o E = t \o (o \o E)
      BY <2>1, <2>2, ConcatAssociative
    <3> QED BY <1>2, <3>1, <3>2
  <2> HIDE DEF y
  <2>4. t \o (y \o o) = (t \o y) \o o
    BY <2>1, <2>2, <2>3, ConcatAssociative, SMTT(30)
  <2> QED BY <2>3, <2>4 DEF y
<1> HIDE DEF x
<1>9. x \o o = Append(x, Quote)
  <2>1. x \in Seq(Symbols) /\ Quote \in Symbols
    BY <1>1, <1>7 DEF Chars
  <2> QED BY <2>1, AppendIsConcat DEF o
<1>10. Scan(Append(x, Quote)) = Step(Scan(x), Quote)
  BY <1>1, <1>7, ScanLaw DEF Chars
<1>11. Step(At(Append(ws, D), "quoted"), Quote) = At(Append(ws, D), "between")
  <2> DEFINE xs == Append(ws, D)
  <2>1. xs \in Seq(Chars)
    BY <1>d, AppendProperties
  <2> HIDE DEF xs
  <2>2. Step(At(xs, "quoted"), Quote) = At(xs, "between")
    BY <1>1, <2>1, InQuoted
  <2> QED BY <2>2 DEF xs
<1> QED BY <1>4, <1>5, <1>6, <1>8, <1>9, <1>10, <1>11 DEF D

(* What is printed of arguments is read as those arguments, each decoded.  *)
Debugs(args) == [i \in 1 .. Len(args) |-> Debug(args[i])]

LEMMA DebugsLaw ==
  ASSUME NEW args \in Seq(Chars), NEW w \in Chars
  PROVE  /\ Debugs(args) \in Seq(Chars) /\ Debug(w) \in Chars
         /\ Debugs(<<>>) = <<>>
         /\ Debugs(Append(args, w)) = Append(Debugs(args), Debug(w))
<1> DEFINE f == [x \in Chars |-> Debug(x)]
           a == [i \in 1 .. Len(args) |-> f[args[i]]]
           xs == Append(args, w)
<1>1. ASSUME NEW x \in Chars PROVE Debug(x) \in Chars
  <2>1. <<>> \in Chars /\ <<>> \in Seq(Symbols) /\ Blank \in Symbols /\ <<>> \in Seq(Chars)
    BY DEF Chars, Symbols, White
  <2>2. Scan(<<>>) = At(<<>>, "between")
    BY <2>1, ScanLaw DEF At
  <2> QED BY <2>1, <2>2, DebugScan
<1>2. f \in [Chars -> Chars] /\ f[w] = Debug(w)
  BY <1>1
<1>3. a = Debugs(args)
  <2>1. \A i \in 1 .. Len(args) : args[i] \in Chars
    BY ElementOfSeq
  <2>2. \A i \in 1 .. Len(args) : f[args[i]] = Debug(args[i])
    BY <2>1
  <2> HIDE DEF f
  <2> QED BY <2>2 DEF Debugs
<1>4. [i \in 1 .. Len(xs) |-> f[xs[i]]] = Debugs(xs)
  <2>1. xs \in Seq(Chars)
    BY AppendProperties
  <2> HIDE DEF xs
  <2>2. \A i \in 1 .. Len(xs) : xs[i] \in Chars
    BY <2>1, ElementOfSeq
  <2>3. \A i \in 1 .. Len(xs) : f[xs[i]] = Debug(xs[i])
    BY <2>2
  <2> HIDE DEF f
  <2> QED BY <2>3 DEF Debugs
<1>5. a \in Seq(Chars) /\ [i \in 1 .. Len(xs) |-> f[xs[i]]] = Append(a, f[w])
  <2> HIDE DEF f
  <2> QED BY <1>2, MapAppend
<1> HIDE DEF f, a, xs
<1>6. Debugs(<<>>) = <<>>
  BY DEF Debugs
<1> QED BY <1>1, <1>2, <1>3, <1>4, <1>5, <1>6 DEF xs

DecodedAll(args) == [i \in 1 .. Len(args) |-> Decoded(args[i])]

LEMMA DecodedAllLaw ==
  ASSUME NEW args \in Seq(Chars), NEW w \in Chars
  PROVE  /\ DecodedAll(args) \in Seq(Chars) /\ Decoded(w) \in Chars
         /\ DecodedAll(<<>>) = <<>>
         /\ DecodedAll(Append(args, w)) = Append(DecodedAll(args), Decoded(w))
<1> DEFINE f == [x \in Chars |-> Decoded(x)]
           a == [i \in 1 .. Len(args) |-> f[args[i]]]
           xs == Append(args, w)
<1>1. ASSUME NEW x \in Chars PROVE Decoded(x) \in Chars
  BY DecodedLaw DEF Symbols
<1>2. f \in [Chars -> Chars] /\ f[w] = Decoded(w)
  BY <1>1
<1>3. a = DecodedAll(args)
  <2>1. \A i \in 1 .. Len(args) : args[i] \in Chars
    BY ElementOfSeq
  <2>2. \A i \in 1 .. Len(args) : f[args[i]] = Decoded(args[i])
    BY <2>1
  <2> HIDE DEF f
  <2> QED BY <2>2 DEF DecodedAll
<1>4. [i \in 1 .. Len(xs) |-> f[xs[i]]] = DecodedAll(xs)
  <2>1. xs \in Seq(Chars)
    BY AppendProperties
  <2> HIDE DEF xs
  <2>2. \A i \in 1 .. Len(xs) : xs[i] \in Chars
    BY <2>1, ElementOfSeq
  <2>3. \A i \in 1 .. Len(xs) : f[xs[i]] = Decoded(xs[i])
    BY <2>2
  <2> HIDE DEF f
  <2> QED BY <2>3 DEF DecodedAll
<1>5. a \in Seq(Chars) /\ [i \in 1 .. Len(xs) |-> f[xs[i]]] = Append(a, f[w])
  <2> HIDE DEF f
  <2> QED BY <1>2, MapAppend
<1> HIDE DEF f, a, xs
<1>6. DecodedAll(<<>>) = <<>>
  BY DEF DecodedAll
<1> QED BY <1>1, <1>2, <1>3, <1>4, <1>5, <1>6 DEF xs

LEMMA ListedScan ==
  ASSUME NEW args \in Seq(Chars)
  PROVE  LET J == Join(Debugs(args)) IN
         /\ J \in Chars /\ Scan(J) = At(DecodedAll(args), "between")
         /\ IF args = <<>> THEN J = <<>> ELSE Enclosed(J)
<1> DEFINE Read(as, J) == /\ J \in Chars /\ Scan(J) = At(DecodedAll(as), "between")
                          /\ IF as = <<>> THEN J = <<>> ELSE Enclosed(J)
           P == {as \in Seq(Chars) : Read(as, Join(Debugs(as)))}
<1>0. /\ <<>> \in Chars /\ <<>> \in Seq(Symbols) /\ <<>> \in Seq(Chars)
      /\ Blank \in Symbols /\ Comma \in Symbols
  BY DEF Chars, Symbols, White
<1>1. Scan(<<>>) = At(<<>>, "between")
  BY <1>0, ScanLaw DEF At
<1>2. <<>> \in P
  <2>1. Debugs(<<>>) = <<>> /\ Join(<<>>) = <<>>
    BY <1>0, DebugsLaw, JoinLaw
  <2>2. DecodedAll(<<>>) = <<>>
    BY <1>0, DecodedAllLaw
  <2> QED BY <1>0, <1>1, <2>1, <2>2
<1>3. ASSUME NEW as \in Seq(Chars), NEW w \in Chars, as \in P
      PROVE  Append(as, w) \in P
  <2> DEFINE ds == Debugs(as)
             J == Join(ds)
             d == Debug(w)
             xs == Append(as, w)
             rs == DecodedAll(as)
             r == Decoded(w)
  <2>1. ds \in Seq(Chars) /\ d \in Chars /\ Debugs(xs) = Append(ds, d)
    BY DebugsLaw
  <2>2. Read(as, J)
    BY <1>3
  <2>r. /\ rs \in Seq(Chars) /\ r \in Chars /\ DecodedAll(xs) = Append(rs, r)
        /\ as = <<>> => rs = <<>>
    BY DecodedAllLaw
  <2>3. as = <<>> <=> ds = <<>>
    <3>1. ASSUME as = <<>> PROVE ds = <<>>
      BY <1>0, <3>1, DebugsLaw
    <3>2. ASSUME as # <<>> PROVE ds # <<>>
      <4>1. PICK f \in Seq(Chars), e \in Chars : as = Append(f, e)
        BY <3>2, SequenceEmptyOrAppend, Zenon
      <4>2. /\ Debugs(f) \in Seq(Chars) /\ Debug(e) \in Chars
            /\ Debugs(Append(f, e)) = Append(Debugs(f), Debug(e))
        BY DebugsLaw
      <4>3. Append(Debugs(f), Debug(e)) # <<>>
        BY <4>2, AppendProperties
      <4> QED BY <4>1, <4>2, <4>3
    <3> QED BY <3>1, <3>2
  <2>4. xs \in Seq(Chars) /\ xs # <<>>
    BY AppendProperties
  <2> HIDE DEF ds, d, J, rs, r
  <2>5. CASE as = <<>>
    <3>1. Join(Append(ds, d)) = d
      BY <2>1, <2>3, <2>5, JoinLaw
    <3>2. <<>> \o d = d
      BY <2>1, GlueNothing
    <3>3. Enclosed(d) /\ Scan(<<>> \o d) = At(Append(<<>>, r), "between")
      BY <1>0, <1>1, DebugScan DEF d, r
    <3>4. Append(<<>>, r) = DecodedAll(xs)
      BY <2>r, <2>5
    <3> HIDE DEF xs
    <3>5. Read(xs, Join(Debugs(xs)))
      BY <2>1, <2>4, <3>1, <3>2, <3>3, <3>4
    <3> QED BY <2>4, <3>5 DEF xs
  <2>6. CASE as # <<>>
    <3> DEFINE y == Append(J, Comma)
               z == Append(y, Blank)
    <3>1. J \in Chars /\ Scan(J) = At(rs, "between") /\ Enclosed(J)
      BY <2>2, <2>6 DEF rs
    <3>2. y \in Chars /\ Scan(y) = At(rs, "between")
      <4>1. y \in Chars /\ Scan(y) = Step(Scan(J), Comma)
        BY <1>0, <3>1, ScanLaw, AppendProperties DEF Chars
      <4>2. Step(At(rs, "between"), Comma) = At(rs, "between")
        BY <1>0, <2>r, Outside, SymbolsDiffer
      <4> QED BY <3>1, <4>1, <4>2
    <3> HIDE DEF y
    <3>3. z \in Chars /\ Scan(z) = At(rs, "between")
      <4>1. z \in Chars /\ Scan(z) = Step(Scan(y), Blank)
        BY <1>0, <3>2, ScanLaw, AppendProperties DEF Chars
      <4>2. Step(At(rs, "between"), Blank) = At(rs, "between")
        BY <1>0, <2>r, Outside, SymbolsDiffer
      <4> QED BY <3>2, <4>1, <4>2
    <3> DEFINE cb == <<Comma, Blank>>
    <3>4. cb \in Chars /\ z = J \o cb
      <4>1. <<Comma>> \in Chars /\ Append(<<Comma>>, Blank) = cb
        BY <1>0, Pair
      <4>2. J \in Seq(Symbols) /\ <<Comma>> \in Seq(Symbols)
        BY <3>1, <4>1 DEF Chars
      <4>3. J \o Append(<<Comma>>, Blank) = Append(J \o <<Comma>>, Blank)
        BY <1>0, <4>2, ConcatAppend
      <4>4. y = J \o <<Comma>>
        BY <1>0, <4>2, AppendIsConcat DEF y
      <4>5. cb \in Chars
        BY <1>0 DEF Chars
      <4> HIDE DEF cb
      <4> QED BY <4>1, <4>3, <4>4, <4>5
    <3>5. Join(Append(ds, d)) = J \o (cb \o d)
      <4>1. Join(Append(ds, d)) = Join(ds) \o (<<Comma, Blank>> \o d)
        BY <2>1, <2>3, <2>6, JoinLaw
      <4> QED BY <4>1 DEF J
    <3> HIDE DEF z, cb
    <3>6. J \o (cb \o d) = z \o d
      <4>1. J \in Seq(Symbols) /\ cb \in Seq(Symbols) /\ d \in Seq(Symbols)
        BY <2>1, <3>1, <3>4 DEF Chars
      <4> QED BY <3>4, <4>1, ConcatAssociative
    <3>7. Enclosed(d) /\ Scan(z \o d) = At(Append(rs, r), "between")
      BY <2>r, <3>3, DebugScan DEF d, r
    <3>8. z \o d \in Chars /\ Enclosed(z \o d)
      BY <2>1, <3>1, <3>4, <3>7, EnclosedAround
    <3> DEFINE K == z \o d
    <3>9. Join(Debugs(xs)) = K
      BY <2>1, <3>5, <3>6
    <3> HIDE DEF K
    <3>10. K \in Chars /\ Enclosed(K) /\ Scan(K) = At(DecodedAll(xs), "between")
      BY <2>r, <3>7, <3>8 DEF K
    <3> HIDE DEF xs
    <3>11. Read(xs, Join(Debugs(xs)))
      BY <2>4, <3>9, <3>10
    <3> QED BY <2>4, <3>11 DEF xs
  <2> QED BY <2>5, <2>6
<1>4. args \in P
  <2> HIDE DEF P
  <2> QED BY <1>2, <1>3, SeqInduct
<1> QED BY <1>4

(* The parts of two texts put together.                                    *)
LEMMA Parted ==
  ASSUME NEW t \in Chars, NEW u \in Chars
  PROVE  /\ SubSeq(t \o u, 1, Len(t)) = t
         /\ SubSeq(t \o u, Len(t) + 1, Len(t \o u)) = u
<1> DEFINE x == t \o u
           n == Len(t)
           a == SubSeq(x, 1, n)
           b == SubSeq(x, n + 1, Len(x))
<1>1. /\ x \in Chars /\ Len(x) = n + Len(u)
      /\ \A m \in 1 .. n : x[m] = t[m]
      /\ \A m \in 1 .. Len(u) : x[n + m] = u[m]
  BY Joined
<1>2. n \in Nat /\ Len(u) \in Nat
  BY DEF Chars
<1> HIDE DEF x, n
<1>3. \A m \in 1 .. Len(x) : x[m] \in Symbols
  BY <1>1, ElementOfSeq DEF Chars
<1>4. a \in Seq(Symbols) /\ Len(a) = (IF 1 <= n THEN n - 1 + 1 ELSE 0)
      /\ \A m \in 1 .. n - 1 + 1 : a[m] = x[1 + m - 1]
  <2>1. \A m \in 1 .. n : x[m] \in Symbols
    BY <1>1, <1>2, <1>3
  <2> QED BY <1>2, <2>1, SubSeqProperties
<1>5. b \in Seq(Symbols)
      /\ Len(b) = (IF n + 1 <= Len(x) THEN Len(x) - (n + 1) + 1 ELSE 0)
      /\ \A m \in 1 .. Len(x) - (n + 1) + 1 : b[m] = x[n + 1 + m - 1]
  <2>1. \A m \in n + 1 .. Len(x) : x[m] \in Symbols
    BY <1>1, <1>2, <1>3
  <2>2. n + 1 \in Int /\ Len(x) \in Int
    BY <1>1, <1>2
  <2> QED BY <2>1, <2>2, SubSeqProperties
<1> HIDE DEF a, b
<1>6. a = t
  <2>1. a \in Chars /\ Len(a) = n
    BY <1>2, <1>4 DEF Chars
  <2>2. ASSUME NEW m \in 1 .. Len(a) PROVE a[m] = t[m]
    <3>1. m \in 1 .. n - 1 + 1 /\ 1 + m - 1 = m /\ m \in 1 .. n
      BY <1>2, <2>1
    <3> QED BY <1>1, <1>4, <3>1
  <2> QED BY <2>1, <2>2, SameText DEF n
<1>7. b = u
  <2>1. b \in Chars /\ Len(b) = Len(u)
    BY <1>1, <1>2, <1>5 DEF Chars
  <2>2. ASSUME NEW m \in 1 .. Len(b) PROVE b[m] = u[m]
    <3>1. m \in 1 .. Len(x) - (n + 1) + 1 /\ n + 1 + m - 1 = n + m /\ m \in 1 .. Len(u)
      BY <1>1, <1>2, <2>1
    <3> QED BY <1>1, <1>5, <3>1
  <2> QED BY <2>1, <2>2, SameText
<1> QED BY <1>6, <1>7 DEF a, b, n, x

(* Trimming one side of a text.                                            *)
All(t, S) == \A m \in 1 .. Len(t) : t[m] \in S

LEMMA TrimStartIs ==
  ASSUME NEW h \in Chars, NEW u \in Chars, NEW S, All(h, S), u # <<>> => u[1] \notin S
  PROVE  TrimStart(h \o u, S) = u
<1> DEFINE t == h \o u
           k == Len(h) + 1
<1>1. /\ t \in Chars /\ Len(t) = Len(h) + Len(u)
      /\ \A m \in 1 .. Len(h) : t[m] = h[m]
      /\ \A m \in 1 .. Len(u) : t[Len(h) + m] = u[m]
      /\ Len(h) \in Nat /\ Len(u) \in Nat
  BY Joined DEF Chars
<1>2. CASE u = <<>>
  <2>1. t = h
    BY <1>2, GlueNothing
  <2> HIDE DEF t
  <2>2. {m \in 1 .. Len(t) : t[m] \notin S} = {}
    BY <2>1 DEF All
  <2>3. TrimStart(t, S) = <<>>
    BY <2>2 DEF TrimStart, Seqs!SelectInSeq
  <2> QED BY <1>2, <2>3 DEF t
<1>3. CASE u # <<>>
  <2>1. Len(u) # 0
    BY <1>3, EmptySeq DEF Chars
  <2> HIDE DEF t
  <2>2. k \in 1 .. Len(t) /\ t[k] \notin S
    <3>1. 1 \in 1 .. Len(u)
      BY <1>1, <2>1
    <3> QED BY <1>1, <1>3, <3>1
  <2>3. PICK i \in 1 .. k :
          /\ t[i] \notin S
          /\ \A m \in 1 .. i - 1 : t[m] \in S
          /\ TrimStart(t, S) = SubSeq(t, i, Len(t))
    <3> HIDE DEF k
    <3> QED BY <1>1, <2>2, TrimStartFacts, Zenon
  <2>4. i = k
    <3>1. i # k => i \in 1 .. Len(h)
      BY <1>1
    <3> QED BY <1>1, <2>3, <3>1 DEF All
  <2>5. SubSeq(t, Len(h) + 1, Len(t)) = u
    BY Parted DEF t
  <2>6. TrimStart(t, S) = u
    BY <2>3, <2>4, <2>5
  <2> QED BY <2>6 DEF t
<1> QED BY <1>2, <1>3

LEMMA TrimEndIs ==
  ASSUME NEW h \in Chars, NEW u \in Chars, NEW S, All(h, S), u # <<>> => u[Len(u)] \notin S
  PROVE  TrimEnd(u \o h, S) = u
<1> DEFINE t == u \o h
           k == Len(u)
<1>1. /\ t \in Chars /\ Len(t) = k + Len(h)
      /\ \A m \in 1 .. k : t[m] = u[m]
      /\ \A m \in 1 .. Len(h) : t[k + m] = h[m]
      /\ Len(h) \in Nat /\ k \in Nat
  BY Joined DEF Chars
<1>2. CASE u = <<>>
  <2>1. t = h
    BY <1>2, GlueNothing
  <2> HIDE DEF t
  <2>2. {m \in 1 .. Len(t) : t[m] \notin S} = {}
    BY <2>1 DEF All
  <2>3. TrimEnd(t, S) = SubSeq(t, 1, 0)
    BY <2>2 DEF TrimEnd, Seqs!SelectLastInSeq
  <2>4. SubSeq(t, 1, 0) = <<>>
    BY SubSeqEmpty
  <2> QED BY <1>2, <2>3, <2>4 DEF t
<1>3. CASE u # <<>>
  <2>1. k # 0
    BY <1>3, EmptySeq DEF Chars
  <2> HIDE DEF t
  <2>2. k \in 1 .. Len(t) /\ t[k] \notin S
    <3>1. k \in 1 .. k
      BY <1>1, <2>1
    <3> QED BY <1>1, <1>3, <3>1
  <2>3. PICK j \in k .. Len(t) :
          /\ t[j] \notin S
          /\ \A m \in j + 1 .. Len(t) : t[m] \in S
          /\ TrimEnd(t, S) = SubSeq(t, 1, j)
    BY <1>1, <2>2, TrimEndFacts, Zenon
  <2>4. j = k
    <3>1. j # k => j - k \in 1 .. Len(h) /\ k + (j - k) = j
      BY <1>1
    <3>2. j # k => t[k + (j - k)] = h[j - k] /\ h[j - k] \in S
      BY <1>1, <3>1 DEF All
    <3> QED BY <2>3, <3>1, <3>2
  <2>5. SubSeq(t, 1, k) = u
    BY Parted DEF t
  <2>6. TrimEnd(t, S) = u
    BY <2>3, <2>4, <2>5
  <2> QED BY <2>6 DEF t
<1> QED BY <1>2, <1>3

(* A text with nothing looked for before the symbol that is.               *)
LEMMA FoundAfter ==
  ASSUME NEW h \in Chars, NEW S, Free(h, S), NEW c \in Symbols, c \in S, NEW u \in Chars
  PROVE  /\ (h \o <<c>>) \o u \in Chars
         /\ Find((h \o <<c>>) \o u, S) # 0
         /\ UpTo((h \o <<c>>) \o u, S) = h
         /\ After((h \o <<c>>) \o u, S) = u
<1> DEFINE x == h \o <<c>>
           y == <<c>> \o u
           t == x \o u
           n == Len(h) + 1
<1>1. <<c>> \in Chars /\ Len(<<c>>) = 1 /\ <<c>>[1] = c
  BY DEF Chars
<1>2. /\ x \in Chars /\ Len(x) = n /\ Len(h) \in Nat /\ Len(u) \in Nat
      /\ \A m \in 1 .. Len(h) : x[m] = h[m]
      /\ x[n] = c
  <2>1. /\ x \in Chars /\ Len(x) = Len(h) + Len(<<c>>)
        /\ \A m \in 1 .. Len(h) : x[m] = h[m]
        /\ \A m \in 1 .. Len(<<c>>) : x[Len(h) + m] = <<c>>[m]
        /\ Len(h) \in Nat /\ Len(u) \in Nat
    BY <1>1, Joined DEF Chars
  <2> HIDE DEF x
  <2>2. 1 \in 1 .. Len(<<c>>)
    BY <1>1
  <2> QED BY <1>1, <2>1, <2>2
<1>3. y \in Chars /\ t = h \o y
  <2>1. h \in Seq(Symbols) /\ <<c>> \in Seq(Symbols) /\ u \in Seq(Symbols)
    BY <1>1 DEF Chars
  <2> QED BY <2>1, ConcatAssociative, ConcatProperties DEF Chars
<1> HIDE DEF x, y
<1>4. /\ t \in Chars /\ Len(t) = Len(x) + Len(u)
      /\ \A m \in 1 .. Len(x) : t[m] = x[m]
  BY <1>2, Joined
<1>5. SubSeq(t, 1, Len(h)) = h
  BY <1>3, Parted
<1>6. SubSeq(t, n + 1, Len(t)) = u
  BY <1>2, Parted
<1> HIDE DEF t
<1>7. Find(t, S) = n
  <2>1. n \in 1 .. Len(t) /\ t[n] \in S
    <3>1. n \in 1 .. Len(x)
      BY <1>2
    <3> QED BY <1>2, <1>4, <3>1
  <2>2. ASSUME NEW m \in 1 .. n - 1 PROVE t[m] \notin S
    <3>1. m \in 1 .. Len(h) /\ m \in 1 .. Len(x)
      BY <1>2
    <3>2. t[m] = h[m]
      BY <1>2, <1>4, <3>1
    <3> QED BY <3>1, <3>2 DEF Free
  <2> HIDE DEF n
  <2> QED BY <1>4, <2>1, <2>2, FindAt
<1>8. n # 0 /\ n - 1 = Len(h)
  BY <1>2
<1>9. UpTo(t, S) = h /\ After(t, S) = u
  <2> HIDE DEF n
  <2> QED BY <1>5, <1>6, <1>7, <1>8 DEF UpTo, After
<1> QED BY <1>4, <1>7, <1>8, <1>9 DEF t, x

LEMMA FoundNot ==
  ASSUME NEW t \in Chars, NEW S, Free(t, S)
  PROVE  UpTo(t, S) = t /\ After(t, S) = <<>>
BY FindNone DEF UpTo, After

(* Trimming a text that begins with what has no blanks around it leaves    *)
(* that, and what follows it without the blanks at its end.                *)
LEMMA TrimTail ==
  ASSUME NEW h \in Chars, h # <<>>, h[1] \notin White, h[Len(h)] \notin White, NEW t \in Chars
  PROVE  \E a \in Chars, y \in Chars :
           Spaces(y) /\ t = a \o y /\ Trim(h \o t) = h \o a
<1>0. <<>> \in Chars /\ Spaces(<<>>) /\ Len(h) \in Nat \ {0} /\ Len(t) \in Nat
  BY DEF Chars, Spaces
<1>1. CASE Spaces(t)
  <2>1. h \o t \in Chars /\ <<>> \o (h \o t) = h \o t
    BY Glued, GlueNothing
  <2>2. Trim(<<>> \o (h \o t)) = h
    BY <1>0, <1>1, TrimPadded
  <2>3. h \o <<>> = h /\ <<>> \o t = t
    BY GlueNothing
  <2> QED BY <1>0, <1>1, <2>1, <2>2, <2>3
<1>2. CASE ~Spaces(t)
  <2> DEFINE w == Trim(t)
  <2>1. PICK x \in Chars, y \in Chars : Spaces(x) /\ Spaces(y) /\ t = x \o (w \o y)
    BY <1>2, TrimParts
  <2>2. w \in Chars /\ w # <<>> /\ w[1] \notin White /\ w[Len(w)] \notin White
    BY <1>2, TrimParts, TrimText
  <2> HIDE DEF w
  <2> DEFINE a == x \o w
             b == h \o a
  <2>3. a \in Chars /\ t = a \o y
    <3>1. x \in Seq(Symbols) /\ w \in Seq(Symbols) /\ y \in Seq(Symbols)
      BY <2>2 DEF Chars
    <3>2. a \in Seq(Symbols) /\ (x \o w) \o y = x \o (w \o y)
      BY <3>1, ConcatAssociative, ConcatProperties
    <3> QED BY <2>1, <3>2 DEF Chars
  <2>4. a # <<>> /\ a[Len(a)] \notin White
    <3>1. /\ Len(a) = Len(x) + Len(w) /\ Len(x) \in Nat /\ Len(w) \in Nat \ {0}
          /\ \A m \in 1 .. Len(w) : a[Len(x) + m] = w[m]
      BY <2>2, Joined DEF Chars
    <3> HIDE DEF a
    <3>2. Len(w) \in 1 .. Len(w) /\ Len(a) # 0
      BY <3>1
    <3> QED BY <2>2, <3>1, <3>2
  <2> HIDE DEF a
  <2>5. b \in Chars /\ b # <<>> /\ b[1] \notin White /\ b[Len(b)] \notin White
    <3>1. /\ b \in Chars /\ Len(b) = Len(h) + Len(a) /\ Len(a) \in Nat \ {0}
          /\ \A m \in 1 .. Len(h) : b[m] = h[m]
          /\ \A m \in 1 .. Len(a) : b[Len(h) + m] = a[m]
      BY <2>3, <2>4, Joined DEF Chars
    <3> HIDE DEF b
    <3>2. 1 \in 1 .. Len(h) /\ Len(a) \in 1 .. Len(a) /\ Len(b) # 0
      BY <1>0, <3>1
    <3> QED BY <2>4, <3>1, <3>2
  <2>6. h \o t = b \o y
    <3>1. h \in Seq(Symbols) /\ a \in Seq(Symbols) /\ y \in Seq(Symbols)
      BY <2>3 DEF Chars
    <3>2. (h \o a) \o y = h \o (a \o y)
      BY <3>1, ConcatAssociative
    <3> QED BY <2>3, <3>2
  <2> HIDE DEF b
  <2>7. b \o y \in Chars /\ <<>> \o (b \o y) = b \o y
    BY <2>5, Glued, GlueNothing
  <2>8. Trim(<<>> \o (b \o y)) = b
    BY <1>0, <2>1, <2>5, TrimPadded
  <2>9. Trim(h \o t) = h \o a
    BY <2>6, <2>7, <2>8 DEF b
  <2> QED BY <2>1, <2>3, <2>9
<1> QED BY <1>1, <1>2
-----------------------------------------------------------------------------
(* What a text does not have, no text made of its symbols has.             *)
LEMMA FreeAppend ==
  ASSUME NEW t \in Chars, NEW c \in Symbols, NEW T
  PROVE  /\ Append(t, c) \in Chars
         /\ Free(Append(t, c), T) <=> Free(t, T) /\ c \notin T
<1> DEFINE u == Append(t, c)
<1>1. /\ u \in Chars /\ Len(u) = Len(t) + 1 /\ u[Len(t) + 1] = c
      /\ \A i \in 1 .. Len(t) : u[i] = t[i]
      /\ Len(t) \in Nat
  BY AppendProperties DEF Chars
<1> HIDE DEF u
<1>2. ASSUME Free(u, T) PROVE Free(t, T) /\ c \notin T
  <2>1. Len(t) + 1 \in 1 .. Len(u) /\ \A i \in 1 .. Len(t) : i \in 1 .. Len(u)
    BY <1>1
  <2> QED BY <1>1, <1>2, <2>1 DEF Free
<1>3. ASSUME Free(t, T), c \notin T PROVE Free(u, T)
  <2>1. \A i \in 1 .. Len(u) : i \in 1 .. Len(t) \/ i = Len(t) + 1
    BY <1>1
  <2> QED BY <1>1, <1>3, <2>1 DEF Free
<1> QED BY <1>1, <1>2, <1>3 DEF u

LEMMA FreeJoined ==
  ASSUME NEW t \in Chars, NEW u \in Chars, NEW T, Free(t, T), Free(u, T)
  PROVE  t \o u \in Chars /\ Free(t \o u, T)
<1> DEFINE x == t \o u
<1>1. /\ x \in Chars /\ Len(x) = Len(t) + Len(u)
      /\ \A m \in 1 .. Len(t) : x[m] = t[m]
      /\ \A m \in 1 .. Len(u) : x[Len(t) + m] = u[m]
      /\ Len(t) \in Nat /\ Len(u) \in Nat
  BY Joined DEF Chars
<1> HIDE DEF x
<1>2. ASSUME NEW m \in 1 .. Len(x) PROVE x[m] \notin T
  <2>1. CASE m \in 1 .. Len(t)
    BY <1>1, <2>1 DEF Free
  <2>2. CASE m \notin 1 .. Len(t)
    <3>1. m - Len(t) \in 1 .. Len(u) /\ Len(t) + (m - Len(t)) = m
      BY <1>1, <2>2
    <3>2. x[Len(t) + (m - Len(t))] = u[m - Len(t)]
      BY <1>1, <3>1
    <3> QED BY <3>1, <3>2 DEF Free
  <2> QED BY <2>1, <2>2
<1> QED BY <1>1, <1>2 DEF Free, x

LEMMA FreePieces ==
  ASSUME NEW t \in Chars, NEW S, NEW T, Free(t, T)
  PROVE  \A i \in 1 .. Len(Split(t, S)) : Free(Split(t, S)[i], T)
<1> DEFINE Clean(ws) == \A i \in 1 .. Len(ws) : Free(ws[i], T)
           P == {u \in Chars : Free(u, T) => Clean(Split(u, S))}
<1>0. <<>> \in Chars /\ Free(<<>>, T)
  BY DEF Chars, Free
<1>1. <<>> \in P
  <2>1. Split(<<>>, S) = <<<<>>>>
    BY SplitLaw DEF Chars, Symbols
  <2>2. Clean(<<<<>>>>)
    BY <1>0
  <2> HIDE DEF Clean
  <2> QED BY <1>0, <2>1, <2>2
<1>2. ASSUME NEW u \in Chars, NEW c \in Symbols, u \in P
      PROVE  Append(u, c) \in P
  <2> DEFINE ws == Split(u, S)
             vs == Cut(ws, c, S)
  <2>0. Append(u, c) \in Chars /\ (Free(Append(u, c), T) <=> Free(u, T) /\ c \notin T)
    BY FreeAppend
  <2>1. SUFFICES ASSUME Free(u, T), c \notin T PROVE Clean(Split(Append(u, c), S))
    BY <2>0
  <2>2. Clean(ws)
    BY <1>2, <2>1
  <2>3. Split(Append(u, c), S) = vs /\ ws \in Seq(Chars) /\ ws # <<>>
    BY SplitLaw, SplitPieces DEF Chars
  <2> HIDE DEF ws
  <2>4. /\ vs \in Seq(Chars) /\ vs # <<>>
        /\ c \in S => vs = Append(ws, <<>>)
        /\ c \notin S =>
             /\ Len(vs) = Len(ws)
             /\ vs[Len(ws)] = Append(ws[Len(ws)], c)
             /\ \A i \in 1 .. Len(ws) - 1 : vs[i] = ws[i]
    BY <2>3, CutFacts
  <2> HIDE DEF vs
  <2>5. Len(ws) \in Nat \ {0}
    BY <2>3
  <2>6. ASSUME NEW i \in 1 .. Len(vs) PROVE Free(vs[i], T)
    <3>1. CASE c \in S
      <4>1. Len(vs) = Len(ws) + 1 /\ vs[Len(ws) + 1] = <<>>
            /\ \A k \in 1 .. Len(ws) : vs[k] = ws[k]
        <5>1. vs = Append(ws, <<>>)
          BY <2>4, <3>1
        <5> QED BY <1>0, <2>3, <5>1, AppendProperties
      <4>2. CASE i = Len(ws) + 1
        BY <1>0, <4>1, <4>2
      <4>3. CASE i \in 1 .. Len(ws)
        BY <2>2, <4>1, <4>3
      <4> QED BY <2>5, <4>1, <4>2, <4>3
    <3>2. CASE c \notin S
      <4>1. CASE i = Len(ws)
        <5>1. ws[i] \in Chars /\ Free(ws[i], T) /\ vs[i] = Append(ws[i], c)
          BY <2>2, <2>3, <2>4, <2>5, <3>2, <4>1
        <5> QED BY <2>1, <5>1, FreeAppend
      <4>2. CASE i \in 1 .. Len(ws) - 1
        <5>1. vs[i] = ws[i] /\ i \in 1 .. Len(ws)
          BY <2>4, <2>5, <3>2, <4>2
        <5> QED BY <2>2, <5>1
      <4> QED BY <2>4, <2>5, <3>2, <4>1, <4>2
    <3> QED BY <3>1, <3>2
  <2> QED BY <2>3, <2>6
<1>3. t \in P
  <2> HIDE DEF P
  <2> QED BY <1>1, <1>2, SeqInduct DEF Chars
<1> QED BY <1>3

LEMMA FreeJoin ==
  ASSUME NEW ws \in Seq(Chars), NEW T, Comma \notin T, Blank \notin T,
         \A i \in 1 .. Len(ws) : Free(ws[i], T)
  PROVE  Free(Join(ws), T)
<1> DEFINE Clean(vs) == \A i \in 1 .. Len(vs) : Free(vs[i], T)
           P == {vs \in Seq(Chars) : Clean(vs) => Free(Join(vs), T)}
<1>1. <<>> \in P
  <2>1. <<>> \in Seq(Chars) /\ <<>> \in Chars /\ Free(<<>>, T)
    BY DEF Chars, Free
  <2> QED BY <2>1, JoinLaw
<1>2. ASSUME NEW vs \in Seq(Chars), NEW w \in Chars, vs \in P
      PROVE  Append(vs, w) \in P
  <2> DEFINE us == Append(vs, w)
             o == <<Comma, Blank>>
  <2>1. /\ us \in Seq(Chars) /\ Len(us) = Len(vs) + 1 /\ us[Len(vs) + 1] = w
        /\ \A i \in 1 .. Len(vs) : us[i] = vs[i]
        /\ Len(vs) \in Nat
    BY AppendProperties
  <2>2. o \in Chars /\ Free(o, T)
    BY DEF Chars, Symbols, White, Free
  <2>3. us \in Seq(Chars) /\ Join(vs) \in Chars
        /\ (vs = <<>> => Join(us) = w)
        /\ (vs # <<>> => Join(us) = Join(vs) \o (o \o w))
    BY <2>1, JoinLaw, JoinText
  <2> HIDE DEF us, o
  <2>4. SUFFICES ASSUME Clean(us) PROVE Free(Join(us), T)
    BY <2>3 DEF us
  <2>5. Clean(vs) /\ Free(w, T)
    <3>1. Len(vs) + 1 \in 1 .. Len(us) /\ \A i \in 1 .. Len(vs) : i \in 1 .. Len(us)
      BY <2>1
    <3> QED BY <2>1, <2>4, <3>1
  <2>6. Free(Join(vs), T)
    BY <1>2, <2>5
  <2>7. o \o w \in Chars /\ Free(o \o w, T)
    BY <2>2, <2>5, FreeJoined
  <2>8. Free(Join(vs) \o (o \o w), T)
    <3> DEFINE x == o \o w
    <3> HIDE DEF x
    <3>1. Free(Join(vs) \o x, T)
      BY <2>3, <2>6, <2>7, FreeJoined DEF x
    <3> QED BY <3>1 DEF x
  <2> QED BY <2>3, <2>5, <2>8
<1>3. ws \in P
  <2> HIDE DEF P
  <2> QED BY <1>1, <1>2, SeqInduct
<1> QED BY <1>3

(* A field drops ends of line, one symbol after the other.                 *)
Dropped(c) == IF c = Newline THEN <<>> ELSE <<c>>

LEMMA FieldLaw ==
  ASSUME NEW t \in Chars, NEW c \in Symbols
  PROVE  /\ Field(<<>>) = <<>>
         /\ Field(Append(t, c)) = Field(t) \o Dropped(c)
<1> DEFINE f == [x \in Symbols |-> Dropped(x)]
           a == [i \in 1 .. Len(t) |-> f[t[i]]]
           xs == Append(t, c)
<1>1. f \in [Symbols -> Chars] /\ t \in Seq(Symbols) /\ Dropped(c) \in Chars
  BY DEF Chars, Dropped
<1>2. f[c] = Dropped(c)
  OBVIOUS
<1>3. a = [i \in 1 .. Len(t) |-> Dropped(t[i])]
  <2>1. \A i \in 1 .. Len(t) : t[i] \in Symbols
    BY <1>1, ElementOfSeq
  <2>2. \A i \in 1 .. Len(t) : f[t[i]] = Dropped(t[i])
    BY <2>1
  <2> HIDE DEF f
  <2> QED BY <2>2
<1>4. [i \in 1 .. Len(xs) |-> f[xs[i]]] = [i \in 1 .. Len(xs) |-> Dropped(xs[i])]
  <2>1. xs \in Seq(Symbols)
    BY <1>1, AppendProperties
  <2> HIDE DEF xs
  <2>2. \A i \in 1 .. Len(xs) : xs[i] \in Symbols
    BY <2>1, ElementOfSeq
  <2>3. \A i \in 1 .. Len(xs) : f[xs[i]] = Dropped(xs[i])
    BY <2>2
  <2> HIDE DEF f
  <2> QED BY <2>3
<1>5. a \in Seq(Chars) /\ [i \in 1 .. Len(xs) |-> f[xs[i]]] = Append(a, f[c])
  <2> HIDE DEF f
  <2> QED BY <1>1, MapAppend
<1> HIDE DEF f, a, xs
<1>6. Field(xs) = Flat(Append(a, Dropped(c))) /\ Field(t) = Flat(a)
  BY <1>2, <1>3, <1>4, <1>5 DEF Field, Dropped
<1>7. Flat(Append(a, Dropped(c))) = Flat(a) \o Dropped(c) /\ Flat(<<>>) = <<>>
  BY <1>1, <1>5, FlatLaw
<1>8. Field(<<>>) = <<>>
  <2>1. [i \in 1 .. Len(<<>>) |-> IF <<>>[i] = Newline THEN <<>> ELSE <<<<>>[i]>>] = <<>>
    OBVIOUS
  <2> QED BY <1>7, <2>1 DEF Field
<1> QED BY <1>6, <1>7, <1>8 DEF xs

LEMMA FieldFacts ==
  ASSUME NEW t \in Chars, NEW T
  PROVE  /\ Field(t) \in Chars /\ Free(Field(t), {Newline})
         /\ Free(t, T) => Free(Field(t), T)
         /\ Free(t, {Newline}) => Field(t) = t
<1> DEFINE Shown(u) == /\ Field(u) \in Chars /\ Free(Field(u), {Newline})
                       /\ Free(u, T) => Free(Field(u), T)
                       /\ Free(u, {Newline}) => Field(u) = u
           P == {u \in Chars : Shown(u)}
<1>0. <<>> \in Chars /\ \A S : Free(<<>>, S)
  BY DEF Chars, Free
<1>1. <<>> \in P
  <2>1. Field(<<>>) = <<>>
    BY <1>0, FieldLaw DEF Symbols
  <2> QED BY <1>0, <2>1
<1>2. ASSUME NEW u \in Chars, NEW c \in Symbols, u \in P
      PROVE  Append(u, c) \in P
  <2> DEFINE v == Append(u, c)
             d == Field(u)
  <2>1. d \in Chars /\ Free(d, {Newline}) /\ (Free(u, T) => Free(d, T))
        /\ (Free(u, {Newline}) => d = u)
    BY <1>2
  <2>2. /\ v \in Chars /\ (Free(v, T) <=> Free(u, T) /\ c \notin T)
        /\ (Free(v, {Newline}) <=> Free(u, {Newline}) /\ c # Newline)
    BY FreeAppend
  <2>3. Field(v) = d \o Dropped(c)
    BY FieldLaw
  <2> HIDE DEF d, v
  <2>4. CASE c = Newline
    <3>1. Field(v) = d
      BY <2>1, <2>3, <2>4, GlueNothing DEF Dropped
    <3> QED BY <2>1, <2>2, <2>4, <3>1 DEF v
  <2>5. CASE c # Newline
    <3>1. Field(v) = Append(d, c)
      <4>1. Append(d, c) = d \o <<c>>
        BY <2>1, AppendIsConcat DEF Chars
      <4> QED BY <2>3, <2>5, <4>1 DEF Dropped
    <3>2. /\ Append(d, c) \in Chars
          /\ Free(Append(d, c), T) <=> Free(d, T) /\ c \notin T
          /\ Free(Append(d, c), {Newline}) <=> Free(d, {Newline}) /\ c # Newline
      BY <2>1, FreeAppend
    <3>3. Free(v, {Newline}) => Field(v) = v
      BY <2>1, <2>2, <3>1 DEF v
    <3> QED BY <2>1, <2>2, <2>5, <3>1, <3>2, <3>3 DEF v
  <2> QED BY <2>4, <2>5
<1>3. t \in P
  <2> HIDE DEF P
  <2> QED BY <1>1, <1>2, SeqInduct DEF Chars
<1> QED BY <1>3
=============================================================================
