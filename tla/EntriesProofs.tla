---------------------------- MODULE EntriesProofs ----------------------------
(***************************************************************************)
(* Theorems about Entries, for every set of names, commands and arguments  *)
(* that may be typed.  Every invariant of the model is proved; what is     *)
(* proved of texts alone is in TextFacts.                                  *)
(***************************************************************************)
EXTENDS TextFacts

(* Whatever is typed is a text. *)
LEMMA TypedText == Word \cup Command \cup Text \cup Dir \subseteq Chars
<1>1. \A t \in Seq(Symbols \ {Newline}) : t \in Seq(Symbols)
  OBVIOUS
<1> QED BY <1>1, TextsAssumption DEF Chars

(* What follows the first n symbols of a text is white space up to the     *)
(* first symbol c that is looked for, or to the end.                       *)
Pads(t, n, c) ==
  \E d \in Nat :
    /\ \A m \in n + 1 .. n + d : m <= Len(t) => t[m] \in White
    /\ n + d < Len(t) => t[n + d + 1] = c

(* What is typed before a blank, and is not all white space, begins the    *)
(* trimmed line, trimmed itself.                                           *)
LEMMA Beginning ==
  ASSUME NEW word \in Chars, NEW k \in 1 .. Len(word), word[k] \notin White,
         NEW big \in Chars, Len(word) < Len(big),
         \A m \in 1 .. Len(word) : big[m] = word[m], big[Len(word) + 1] = Blank
  PROVE  /\ Trim(big) \in Chars /\ Trim(word) \in Chars
         /\ Len(Trim(word)) \in 1 .. Len(Trim(big))
         /\ \A m \in 1 .. Len(Trim(word)) : Trim(big)[m] = Trim(word)[m]
         /\ Pads(Trim(big), Len(Trim(word)), Blank)
<1> DEFINE n == Len(word)
           line == Trim(big)
           w == Trim(word)
<1>1. n \in Nat /\ Len(big) \in Nat /\ k \in 1 .. Len(big) /\ big[k] \notin White
  BY DEF Chars
<1>2. PICK i \in 1 .. k, j \in k .. n :
         /\ word[i] \notin White /\ \A m \in 1 .. i - 1 : word[m] \in White
         /\ word[j] \notin White /\ \A m \in j + 1 .. n : word[m] \in White
         /\ w \in Chars /\ Len(w) = j - i + 1
         /\ \A m \in 1 .. j - i + 1 : w[m] = word[i + m - 1]
  BY TrimFacts, Zenon
<1>3. PICK a \in 1 .. k, b \in k .. Len(big) :
         /\ big[a] \notin White /\ \A m \in 1 .. a - 1 : big[m] \in White
         /\ big[b] \notin White /\ \A m \in b + 1 .. Len(big) : big[m] \in White
         /\ line \in Chars /\ Len(line) = b - a + 1
         /\ \A m \in 1 .. b - a + 1 : line[m] = big[a + m - 1]
  BY <1>1, TrimFacts, Zenon
<1> HIDE DEF line, w
<1>4. a = i
  <2>1. a < i => a \in 1 .. i - 1 /\ a \in 1 .. n
    BY <1>1
  <2>2. i < a => i \in 1 .. a - 1 /\ i \in 1 .. n
    BY <1>1
  <2>3. ~(a < i) /\ ~(i < a)
    BY <1>2, <1>3, <2>1, <2>2
  <2> QED BY <1>1, <2>3
<1>5. j <= b
  <2>1. b < j => j \in b + 1 .. Len(big) /\ j \in 1 .. n
    BY <1>1
  <2>2. ~(b < j)
    BY <1>2, <1>3, <2>1
  <2> QED BY <1>1, <2>2
<1>6. Len(w) \in 1 .. Len(line)
  BY <1>1, <1>2, <1>3, <1>4, <1>5
<1>7. ASSUME NEW m \in 1 .. Len(w) PROVE line[m] = w[m]
  <2>1. m \in 1 .. j - i + 1 /\ m \in 1 .. b - a + 1 /\ i + m - 1 \in 1 .. n
    BY <1>1, <1>2, <1>4, <1>5
  <2>2. line[m] = big[i + m - 1] /\ w[m] = word[i + m - 1]
    BY <1>2, <1>3, <1>4, <2>1
  <2> QED BY <2>1, <2>2
<1>8. Pads(line, Len(w), Blank)
  <2> DEFINE d == n - j
  <2>1. d \in Nat /\ Len(w) \in Nat /\ Len(line) \in Nat
    BY <1>1, <1>2, <1>3
  <2>2. ASSUME NEW m \in Len(w) + 1 .. Len(w) + d, m <= Len(line)
        PROVE  line[m] \in White
    <3>1. m \in 1 .. b - a + 1 /\ a + m - 1 \in j + 1 .. n /\ a + m - 1 \in 1 .. n
      BY <1>1, <1>2, <1>3, <1>4, <2>1, <2>2
    <3> QED BY <1>2, <1>3, <3>1
  <2>3. ASSUME Len(w) + d < Len(line) PROVE line[Len(w) + d + 1] = Blank
    <3>1. /\ Len(w) + d + 1 \in 1 .. b - a + 1
          /\ a + (Len(w) + d + 1) - 1 = n + 1
      BY <1>1, <1>2, <1>3, <1>4, <2>1, <2>3
    <3> QED BY <1>3, <3>1
  <2> QED BY <2>1, <2>2, <2>3 DEF Pads
<1> QED BY <1>2, <1>3, <1>6, <1>7, <1>8 DEF line, w

(* Nothing in a slug ends a word or a quotation.                           *)
LEMMA SlugFacts ==
  ASSUME NEW s \in Chars, ValidSlug(s)
  PROVE  /\ Len(s) \in Nat \ {0} /\ s # <<>>
         /\ \A m \in 1 .. Len(s) : s[m] \notin White /\ s[m] # Quote
<1>1. s \in Seq(Symbols) /\ s # <<>> /\ Head(s) \in Alnum
      /\ \A i \in 2 .. Len(s) : s[i] \in Alnum \cup {"-", Underscore}
  BY DEF Chars, ValidSlug
<1>2. Len(s) \in Nat \ {0} /\ Head(s) = s[1]
  BY <1>1
<1>3. {"-", Underscore} \cap (White \cup {Quote}) = {}
  BY Zenon DEF White, Blank, Tab, Newline, Quote, Underscore
<1>4. ASSUME NEW c \in Alnum \cup {"-", Underscore} PROVE c \notin White /\ c # Quote
  <2>1. CASE c \in Alnum
    BY <2>1, AlnumAssumption DEF White
  <2>2. CASE c \in {"-", Underscore}
    BY <1>3, <2>2
  <2> QED BY <2>1, <2>2
<1>5. ASSUME NEW m \in 1 .. Len(s) PROVE s[m] \in Alnum \cup {"-", Underscore}
  <2>1. CASE m = 1
    BY <1>1, <1>2, <2>1
  <2>2. CASE m # 1
    <3>1. m \in 2 .. Len(s)
      BY <1>2, <2>2
    <3> QED BY <1>1, <3>1
  <2> QED BY <2>1, <2>2
<1> QED BY <1>1, <1>2, <1>4, <1>5

LEMMA NameText ==
  ASSUME NEW line \in Chars
  PROVE  Name(line) \in Chars
<1>1. CASE Quoted(line)
  <2>1. Tail(line) \in Chars
    BY <1>1 DEF Quoted, Chars
  <2> QED BY <1>1, <2>1, UpToText, TrimText DEF Name
<1>2. CASE ~Quoted(line)
  BY <1>2, UpToText, TrimText DEF Name
<1> QED BY <1>1, <1>2

(* A text that begins with a slug, up to the first symbol looked for.      *)
LEMMA UpToSlug ==
  ASSUME NEW t \in Chars, NEW s \in Chars, ValidSlug(s), NEW c \in {Blank, Quote},
         Len(s) <= Len(t), \A m \in 1 .. Len(s) : t[m] = s[m],
         Pads(t, Len(s), c)
  PROVE  Trim(UpTo(t, {c})) = s
<1> DEFINE n == Len(s)
<1>1. /\ n \in Nat \ {0} /\ Len(t) \in Nat
      /\ \A m \in 1 .. n : s[m] \notin White /\ s[m] # Quote
  BY SlugFacts DEF Chars
<1>2. \A m \in 1 .. n : t[m] # c /\ t[m] \notin White
  BY <1>1 DEF White
<1>3. PICK d \in Nat :
        /\ \A m \in n + 1 .. n + d : m <= Len(t) => t[m] \in White
        /\ n + d < Len(t) => t[n + d + 1] = c
  BY DEF Pads
<1>4. ASSUME NEW u \in Chars, n <= Len(u), Len(u) <= Len(t),
             \A m \in 1 .. Len(u) : u[m] = t[m] /\ t[m] # c
      PROVE  Trim(u) = s
  <2>1. Len(u) \in Nat /\ 1 \in 1 .. Len(u) /\ n \in 1 .. Len(u) /\ n - 1 + 1 = n
    BY <1>1, <1>4 DEF Chars
  <2>2. ASSUME NEW m \in n + 1 .. Len(u) PROVE u[m] \in White
    <3>1. m \in 1 .. Len(u) /\ m <= Len(t)
      BY <1>1, <1>4, <2>1
    <3>2. CASE n + d < m
      <4>1. n + d < Len(t) /\ n + d + 1 \in 1 .. Len(u)
        BY <1>1, <1>4, <2>1, <3>1, <3>2
      <4> QED BY <1>3, <1>4, <4>1
    <3>3. CASE ~(n + d < m)
      <4>1. m \in n + 1 .. n + d
        BY <1>1, <2>1, <3>3
      <4> QED BY <1>3, <1>4, <3>1, <4>1
    <3> QED BY <3>2, <3>3
  <2>3. u[1] \notin White /\ u[n] \notin White
    BY <1>1, <1>2, <1>4, <2>1
  <2>4. ASSUME NEW m \in 1 .. n - 1 + 1 PROVE s[m] = u[1 + m - 1]
    <3>1. m \in 1 .. n /\ m \in 1 .. Len(u) /\ 1 + m - 1 = m
      BY <1>1, <1>4, <2>1
    <3> QED BY <1>4, <3>1
  <2>5. \A m \in 1 .. 1 - 1 : u[m] \in White
    OBVIOUS
  <2>6. n \in 1 .. Len(u) /\ Len(s) = n - 1 + 1
    BY <2>1
  <2> HIDE DEF n
  <2> QED BY <2>1, <2>2, <2>3, <2>4, <2>5, <2>6, TrimIs
<1>5. CASE Find(t, {c}) = 0
  <2>1. \A m \in 1 .. Len(t) : t[m] # c
    BY <1>5, FindFacts
  <2> QED BY <1>1, <1>4, <1>5, <2>1 DEF UpTo
<1>6. CASE Find(t, {c}) # 0
  <2> DEFINE k == Find(t, {c})
  <2>1. k \in 1 .. Len(t) /\ t[k] = c /\ \A m \in 1 .. k - 1 : t[m] # c
    BY <1>6, FindFacts
  <2>2. UpTo(t, {c}) = SubSeq(t, 1, k - 1)
    BY <1>6 DEF UpTo
  <2> HIDE DEF k
  <2>3. k \notin 1 .. n
    BY <1>2, <2>1
  <2>4. 1 \in 1 .. Len(t) /\ k - 1 \in 1 .. Len(t) /\ n <= k - 1
        /\ (k - 1) - 1 + 1 = k - 1
    BY <1>1, <2>1, <2>3
  <2> DEFINE u == SubSeq(t, 1, k - 1)
  <2>5. u \in Chars /\ Len(u) = k - 1 /\ \A m \in 1 .. k - 1 : u[m] = t[1 + m - 1]
    BY <2>4, PartFacts
  <2> HIDE DEF u
  <2>6. ASSUME NEW m \in 1 .. Len(u) PROVE u[m] = t[m] /\ t[m] # c
    <3>1. m \in 1 .. k - 1 /\ 1 + m - 1 = m
      BY <2>1, <2>5
    <3> QED BY <2>1, <2>5, <3>1
  <2>7. Trim(u) = s
    <3>1. n <= Len(u) /\ Len(u) <= Len(t)
      BY <1>1, <2>4, <2>5
    <3> HIDE DEF n
    <3> QED BY <1>4, <2>5, <2>6, <3>1
  <2> QED BY <2>2, <2>7 DEF u
<1> QED BY <1>5, <1>6

(* A line that begins with a slug, bare or in quotes, is for that server.  *)
LEMMA NameOfBare ==
  ASSUME NEW line \in Chars, NEW s \in Chars, ValidSlug(s),
         Len(s) <= Len(line), \A m \in 1 .. Len(s) : line[m] = s[m],
         Pads(line, Len(s), Blank)
  PROVE  Name(line) = s
<1>1. Len(s) \in Nat \ {0} /\ Len(line) \in Nat /\ s[1] # Quote
  BY SlugFacts DEF Chars
<1>2. line # <<>> /\ Head(line) = s[1]
  BY <1>1 DEF Chars
<1>3. ~Quoted(line)
  BY <1>1, <1>2 DEF Quoted
<1> QED BY <1>3, UpToSlug DEF Name

LEMMA NameOfQuoted ==
  ASSUME NEW line \in Chars, NEW s \in Chars, ValidSlug(s),
         Len(s) + 2 <= Len(line), line[1] = Quote,
         \A m \in 1 .. Len(s) : line[m + 1] = s[m], line[Len(s) + 2] = Quote
  PROVE  Name(line) = s
<1>1. Len(s) \in Nat \ {0} /\ Len(line) \in Nat
  BY SlugFacts DEF Chars
<1>2. line # <<>> /\ Head(line) = Quote
  BY <1>1 DEF Chars
<1>3. Quoted(line)
  BY <1>2 DEF Quoted
<1>4. Tail(line) \in Chars /\ Len(Tail(line)) = Len(line) - 1
      /\ \A m \in 1 .. Len(Tail(line)) : Tail(line)[m] = line[m + 1]
  BY <1>2, HeadTailProperties DEF Chars
<1>5. Len(s) < Len(Tail(line))
  BY <1>1, <1>4
<1>6. \A m \in 1 .. Len(s) : Tail(line)[m] = s[m]
  BY <1>1, <1>4
<1>7. Tail(line)[Len(s) + 1] = Quote
  BY <1>1, <1>4
<1>8. Trim(UpTo(Tail(line), {Quote})) = s
  <2> DEFINE t == Tail(line)
  <2>1. t \in Chars /\ Len(s) <= Len(t) /\ Quote \in {Blank, Quote}
    BY <1>1, <1>4, <1>5
  <2>2. \A m \in 1 .. Len(s) : t[m] = s[m]
    BY <1>6
  <2>3. Pads(t, Len(s), Quote)
    <3>1. 0 \in Nat /\ Len(s) + 0 = Len(s) /\ Len(s) + 1 .. Len(s) = {}
      BY <1>1
    <3> HIDE DEF t
    <3>2. t[Len(s) + 1] = Quote
      BY <1>7 DEF t
    <3> QED BY <3>1, <3>2 DEF Pads
  <2> HIDE DEF t
  <2>4. Trim(UpTo(t, {Quote})) = s
    BY <2>1, <2>2, <2>3, UpToSlug
  <2> QED BY <2>4 DEF t
<1> QED BY <1>3, <1>8 DEF Name

(* What a word is taken for by `/mcp disable`, if it may be a name.        *)
LEMMA ToDisableFacts ==
  ASSUME NEW w \in Chars, ToDisable(w) # <<>>
  PROVE  /\ ToDisable(w) \in Chars
         /\ \/ w = ToDisable(w)
            \/ /\ Len(w) = Len(ToDisable(w)) + 2
               /\ w[1] = Quote /\ w[Len(w)] = Quote
               /\ \A m \in 1 .. Len(ToDisable(w)) : w[m + 1] = ToDisable(w)[m]
<1> DEFINE d == ToDisable(w)
<1>1. Len(w) \in Nat
  BY DEF Chars
<1>2. CASE Len(w) >= 2 /\ Head(w) = Quote /\ w[Len(w)] = Quote
  <2>1. d = SubSeq(w, 2, Len(w) - 1)
    BY <1>2 DEF ToDisable
  <2>2. Len(w) - 1 \in 2 .. Len(w) /\ 2 \in 1 .. Len(w)
    <3>1. ASSUME Len(w) = 2 PROVE FALSE
      <4>1. d = SubSeq(w, 2, 1)
        BY <2>1, <3>1
      <4>2. SubSeq(w, 2, 1) = <<>>
        BY SubSeqEmpty
      <4> QED BY <4>1, <4>2
    <3>2. Len(w) >= 2 /\ Len(w) # 2
      BY <1>2, <3>1
    <3>3. \A n \in Nat : n >= 2 /\ n # 2 => n - 1 \in 2 .. n /\ 2 \in 1 .. n
      OBVIOUS
    <3> QED BY <1>1, <3>2, <3>3
  <2>3. d \in Chars /\ Len(d) = (Len(w) - 1) - 2 + 1
        /\ \A m \in 1 .. (Len(w) - 1) - 2 + 1 : d[m] = w[2 + m - 1]
    <3> HIDE DEF d
    <3> QED BY <2>1, <2>2, PartFacts
  <2>4. Len(w) = Len(d) + 2
    BY <1>1, <2>3
  <2>5. ASSUME NEW m \in 1 .. Len(d) PROVE w[m + 1] = d[m]
    <3>1. m \in 1 .. (Len(w) - 1) - 2 + 1 /\ 2 + m - 1 = m + 1
      BY <2>3
    <3> QED BY <2>3, <3>1
  <2>6. w[1] = Quote
    BY <1>1, <1>2 DEF Chars
  <2> QED BY <1>2, <2>3, <2>4, <2>5, <2>6
<1>3. CASE ~(Len(w) >= 2 /\ Head(w) = Quote /\ w[Len(w)] = Quote)
  BY <1>3 DEF ToDisable
<1> QED BY <1>2, <1>3

(* The words a name is taken from: bare, or in quotes.                     *)
LEMMA WordsOfName ==
  ASSUME NEW w \in Chars, NEW s \in Chars, ValidSlug(s)
  PROVE  ToDisable(w) = s <=> w \in {s, <<Quote>> \o s \o <<Quote>>}
<1> DEFINE q == <<Quote>> \o s \o <<Quote>>
<1>1. Len(s) \in Nat \ {0} /\ s # <<>> /\ s[1] # Quote /\ Len(w) \in Nat
  BY SlugFacts DEF Chars
<1>2. q \in Chars /\ Len(q) = Len(s) + 2 /\ q[1] = Quote /\ q[Len(s) + 2] = Quote
      /\ \A m \in 1 .. Len(s) : q[m + 1] = s[m]
  <2>1. Quote \in Symbols
    BY DEF Symbols, White
  <2>2. <<Quote>> \in Chars /\ Len(<<Quote>>) = 1 /\ <<Quote>>[1] = Quote
    BY <2>1 DEF Chars
  <2> DEFINE p == <<Quote>> \o s
  <2>3. /\ p \in Chars /\ Len(p) = 1 + Len(s) /\ p[1] = Quote
        /\ \A m \in 1 .. Len(s) : p[1 + m] = s[m]
    BY <2>2, Joined
  <2> HIDE DEF p
  <2>4. /\ q \in Chars /\ Len(q) = Len(p) + 1 /\ q[Len(p) + 1] = Quote
        /\ \A m \in 1 .. Len(p) : q[m] = p[m]
    <3>1. p \o <<Quote>> = q
      BY DEF p
    <3> HIDE DEF q
    <3>2. /\ p \o <<Quote>> \in Chars /\ Len(p \o <<Quote>>) = Len(p) + Len(<<Quote>>)
          /\ \A m \in 1 .. Len(p) : (p \o <<Quote>>)[m] = p[m]
          /\ \A m \in 1 .. Len(<<Quote>>) :
               (p \o <<Quote>>)[Len(p) + m] = <<Quote>>[m]
      BY <2>2, <2>3, Joined, Zenon
    <3>3. 1 \in 1 .. Len(<<Quote>>)
      BY <2>2
    <3> QED BY <2>2, <3>1, <3>2, <3>3
  <2>5. ASSUME NEW m \in 1 .. Len(s) PROVE q[m + 1] = s[m]
    <3>1. 1 + m \in 1 .. Len(p) /\ 1 + m = m + 1
      BY <1>1, <2>3
    <3> QED BY <2>3, <2>4, <3>1
  <2>6. Len(p) + 1 = Len(s) + 2 /\ 1 \in 1 .. Len(p)
    BY <1>1, <2>3
  <2> HIDE DEF q
  <2> QED BY <2>3, <2>4, <2>5, <2>6
<1>3. ASSUME ToDisable(w) = s PROVE w \in {s, q}
  <2> HIDE DEF q
  <2>1. \/ w = s
        \/ /\ Len(w) = Len(s) + 2
           /\ w[1] = Quote /\ w[Len(w)] = Quote
           /\ \A m \in 1 .. Len(s) : w[m + 1] = s[m]
    BY <1>1, <1>3, ToDisableFacts
  <2>2. ASSUME Len(w) = Len(s) + 2, w[1] = Quote, w[Len(w)] = Quote,
               \A m \in 1 .. Len(s) : w[m + 1] = s[m]
        PROVE  w = q
    <3>1. ASSUME NEW m \in 1 .. Len(w) PROVE w[m] = q[m]
      <4>1. m = 1 \/ m = Len(s) + 2 \/ (m - 1 \in 1 .. Len(s) /\ (m - 1) + 1 = m)
        BY <1>1, <2>2
      <4>2. CASE m - 1 \in 1 .. Len(s) /\ (m - 1) + 1 = m
        <5>1. w[(m - 1) + 1] = s[m - 1] /\ q[(m - 1) + 1] = s[m - 1]
          BY <1>2, <2>2, <4>2
        <5> QED BY <4>2, <5>1
      <4> QED BY <1>2, <2>2, <4>1, <4>2
    <3> QED BY <1>2, <2>2, <3>1, SameText
  <2> QED BY <2>1, <2>2
<1>4. ASSUME w = s PROVE ToDisable(w) = s
  <2>1. Head(w) # Quote
    BY <1>1, <1>4 DEF Chars
  <2> QED BY <1>4, <2>1 DEF ToDisable
<1>5. ASSUME w = q PROVE ToDisable(w) = s
  <2>1. Head(q) = Quote
    BY <1>1, <1>2 DEF Chars
  <2> HIDE DEF q
  <2>2. Len(w) = Len(s) + 2 /\ Len(w) >= 2 /\ Head(w) = Quote /\ w[Len(w)] = Quote
    BY <1>1, <1>2, <1>5, <2>1
  <2>3. ToDisable(w) = SubSeq(w, 2, Len(w) - 1)
    BY <2>2 DEF ToDisable
  <2>4. 2 \in 1 .. Len(w) /\ Len(w) - 1 \in 2 .. Len(w) /\ (Len(w) - 1) - 2 + 1 = Len(s)
    BY <1>1, <2>2
  <2>5. ToDisable(w) \in Chars /\ Len(ToDisable(w)) = Len(s)
        /\ \A m \in 1 .. Len(s) : ToDisable(w)[m] = w[2 + m - 1]
    <3>1. SubSeq(w, 2, Len(w) - 1) \in Chars
          /\ Len(SubSeq(w, 2, Len(w) - 1)) = (Len(w) - 1) - 2 + 1
          /\ \A m \in 1 .. (Len(w) - 1) - 2 + 1 : SubSeq(w, 2, Len(w) - 1)[m] = w[2 + m - 1]
      BY <2>4, PartFacts, Zenon
    <3> QED BY <2>3, <2>4, <3>1, Zenon
  <2>6. ASSUME NEW m \in 1 .. Len(s) PROVE ToDisable(w)[m] = s[m]
    <3>1. 2 + m - 1 = m + 1
      OBVIOUS
    <3> QED BY <1>2, <1>5, <2>5, <3>1
  <2> QED BY <2>5, <2>6, SameText
<1> QED BY <1>3, <1>4, <1>5

(* The word a line begins with is the name it is for, when it may be one.  *)
LEMMA NameOfWord ==
  ASSUME NEW word \in Chars, NEW big \in Chars, Len(word) < Len(big),
         \A m \in 1 .. Len(word) : big[m] = word[m], big[Len(word) + 1] = Blank,
         ValidSlug(ToDisable(Trim(word)))
  PROVE  Name(Trim(big)) = ToDisable(Trim(word))
<1> DEFINE w == Trim(word)
           line == Trim(big)
           s == ToDisable(w)
<1>1. w \in Chars /\ s # <<>>
  BY TrimText DEF ValidSlug
<1>2. s \in Chars
      /\ \/ w = s
         \/ /\ Len(w) = Len(s) + 2
            /\ w[1] = Quote /\ w[Len(w)] = Quote
            /\ \A m \in 1 .. Len(s) : w[m + 1] = s[m]
  <2> HIDE DEF w
  <2> QED BY <1>1, ToDisableFacts
<1>3. w # <<>>
  <2>1. <<>> \in Chars /\ Len(<<>>) = 0
    BY DEF Chars
  <2>2. w = <<>> => s = <<>>
    BY <2>1 DEF ToDisable
  <2> QED BY <1>1, <2>2
<1>4. PICK k \in 1 .. Len(word) : word[k] \notin White
  BY <1>3, TrimBlank
<1>5. /\ line \in Chars /\ Len(w) \in 1 .. Len(line)
      /\ \A m \in 1 .. Len(w) : line[m] = w[m]
      /\ Pads(line, Len(w), Blank)
  BY <1>4, Beginning
<1>6. ValidSlug(s) /\ Len(s) \in Nat \ {0} /\ Len(line) \in Nat
  BY <1>2, <1>5, SlugFacts DEF Chars
<1> HIDE DEF line, w, s
<1>7. CASE w = s
  <2>1. Len(s) <= Len(line) /\ \A m \in 1 .. Len(s) : line[m] = s[m]
    BY <1>5, <1>6, <1>7
  <2>2. Name(line) = s
    BY <1>2, <1>5, <1>6, <1>7, <2>1, NameOfBare
  <2> QED BY <2>2 DEF line, s, w
<1>8. CASE /\ Len(w) = Len(s) + 2
           /\ w[1] = Quote /\ w[Len(w)] = Quote
           /\ \A m \in 1 .. Len(s) : w[m + 1] = s[m]
  <2>1. Len(s) + 2 <= Len(line) /\ 1 \in 1 .. Len(w) /\ Len(s) + 2 \in 1 .. Len(w)
    BY <1>5, <1>6, <1>8
  <2>2. line[1] = Quote /\ line[Len(s) + 2] = Quote
    BY <1>5, <1>8, <2>1
  <2>3. ASSUME NEW m \in 1 .. Len(s) PROVE line[m + 1] = s[m]
    <3>1. m + 1 \in 1 .. Len(w)
      BY <1>6, <1>8
    <3> QED BY <1>5, <1>8, <3>1
  <2>4. Name(line) = s
    BY <1>2, <1>5, <1>6, <2>1, <2>2, <2>3, NameOfQuoted
  <2> QED BY <2>4 DEF line, s, w
<1> QED BY <1>2, <1>7, <1>8 DEF s

-----------------------------------------------------------------------------
(* `/mcp add` and `/mcp disable` take the same words for the same name,    *)
(* main.rs:124 and 103: whatever is typed after a word that may be a       *)
(* server's name for `/mcp disable`, that server is added, and the word a  *)
(* server was added by disables it just when it is the name, bare or in    *)
(* quotes.  What was typed last is all there is to it, so the property is  *)
(* inductive.                                                              *)
LEMMA AddingTakesTheWord ==
  ASSUME NEW word \in Word, NEW command \in Command, NEW text \in Text,
         TypeAdd(word, command, text)
  PROVE  AddedCanBeDisabled'
<1> DEFINE big == word \o <<Blank>> \o command \o <<Blank>> \o text
           line == Trim(big)
           w == Trim(word)
<1>1. word \in Chars /\ command \in Chars /\ text \in Chars
  BY TypedText
<1>2. /\ big \in Chars /\ Len(word) < Len(big)
      /\ \A m \in 1 .. Len(word) : big[m] = word[m]
      /\ big[Len(word) + 1] = Blank
  <2> DEFINE p == word \o <<Blank>>
             r == p \o command
             x == r \o <<Blank>>
  <2>1. /\ <<Blank>> \in Chars /\ Len(<<Blank>>) = 1 /\ <<Blank>>[1] = Blank
        /\ Len(word) \in Nat /\ Len(command) \in Nat /\ Len(text) \in Nat
    <3>1. Blank \in Symbols
      BY DEF Symbols, White
    <3> QED BY <1>1, <3>1 DEF Chars
  <2>2. /\ p \in Chars /\ Len(p) = Len(word) + 1 /\ p[Len(word) + 1] = Blank
        /\ \A m \in 1 .. Len(word) : p[m] = word[m]
    BY <1>1, <2>1, Joined
  <2> HIDE DEF p
  <2>3. r \in Chars /\ Len(r) = Len(p) + Len(command)
        /\ \A m \in 1 .. Len(p) : r[m] = p[m]
    BY <1>1, <2>2, Joined
  <2> HIDE DEF r
  <2>4. x \in Chars /\ Len(x) = Len(r) + 1 /\ \A m \in 1 .. Len(r) : x[m] = r[m]
    BY <2>1, <2>3, Joined
  <2> HIDE DEF x
  <2>5. big \in Chars /\ Len(big) = Len(x) + Len(text)
        /\ \A m \in 1 .. Len(x) : big[m] = x[m]
    <3>1. big = x \o text
      BY DEF x, r, p
    <3> HIDE DEF big
    <3>2. x \o text \in Chars /\ Len(x \o text) = Len(x) + Len(text)
          /\ \A m \in 1 .. Len(x) : (x \o text)[m] = x[m]
      BY <1>1, <2>4, Joined
    <3> QED BY <3>1, <3>2, Zenon
  <2> HIDE DEF big
  <2>6. ASSUME NEW m \in 1 .. Len(p) PROVE big[m] = p[m]
    <3>1. m \in 1 .. Len(r) /\ m \in 1 .. Len(x)
      BY <2>1, <2>2, <2>3, <2>4
    <3> QED BY <2>3, <2>4, <2>5, <3>1
  <2>7. Len(word) + 1 \in 1 .. Len(p) /\ \A m \in 1 .. Len(word) : m \in 1 .. Len(p)
    BY <2>1, <2>2
  <2>8. Len(word) < Len(big)
    BY <2>1, <2>2, <2>3, <2>4, <2>5
  <2> QED BY <2>2, <2>5, <2>6, <2>7, <2>8
<1> HIDE DEF big
<1>3. Name(line) \in Chars /\ w \in Chars
  BY <1>1, <1>2, TrimText, NameText
<1>4. typed'.word = word /\ typed'.name = Name(line) /\ ValidSlug(Name(line))
  BY DEF TypeAdd, Accepted, big
<1>5. ValidSlug(ToDisable(w)) => ToDisable(w) = Name(line)
  BY <1>1, <1>2, NameOfWord
<1>6. ToDisable(w) = Name(line)
        <=> w \in {Name(line), <<Quote>> \o Name(line) \o <<Quote>>}
  <2> HIDE DEF line, w
  <2> QED BY <1>3, <1>4, WordsOfName
<1> HIDE DEF line
<1>7. Trim(typed'.word) = w
  BY <1>4
<1> HIDE DEF w
<1> QED BY <1>4, <1>5, <1>6, <1>7 DEF AddedCanBeDisabled

THEOREM AddedNamesCanBeDisabled == Spec => []AddedCanBeDisabled
<1>1. Init => AddedCanBeDisabled
  BY DEF Init, AddedCanBeDisabled
<1>2. AddedCanBeDisabled /\ [Next]_vars => AddedCanBeDisabled'
  <2> SUFFICES ASSUME AddedCanBeDisabled, [Next]_vars PROVE AddedCanBeDisabled'
    OBVIOUS
  <2>1. ASSUME NEW word \in Word, NEW command \in Command, NEW text \in Text,
               TypeAdd(word, command, text)
        PROVE  AddedCanBeDisabled'
    BY <2>1, AddingTakesTheWord
  <2>2. CASE typed' = typed
    BY <2>2 DEF AddedCanBeDisabled
  <2>3. CASE typed' = NoAdd
    BY <2>3 DEF AddedCanBeDisabled, NoAdd
  <2>4. CASE \E word \in Word : TypeDisable(word)
    BY <2>3, <2>4 DEF TypeDisable
  <2>5. ASSUME NEW word \in Word, NEW command \in Command, NEW text \in Text,
               NEW dir \in Dir, FillForm(word, command, text, dir)
        PROVE  AddedCanBeDisabled'
    BY <2>2, <2>5 DEF FillForm
  <2>6. CASE \E slug \in DOMAIN config : OpenForm(slug)
    BY <2>2, <2>6 DEF OpenForm
  <2>7. CASE SaveForm
    BY <2>3, <2>7 DEF SaveForm
  <2>8. CASE CloseForm
    BY <2>2, <2>8 DEF CloseForm
  <2>9. CASE UNCHANGED vars
    BY <2>2, <2>9 DEF vars
  <2> QED BY <2>1, <2>4, <2>5, <2>6, <2>7, <2>8, <2>9 DEF Next
<1> QED BY <1>1, <1>2, PTL DEF Spec

-----------------------------------------------------------------------------
(* The form.                                                               *)

(* The arguments that are saved from a form with this text for them.       *)
Kept(text) ==
  LET pieces == Split(text, {Comma}) IN
  NonEmpty([i \in 1 .. Len(pieces) |-> Trim(pieces[i])])

(* A text a field shows as it is. *)
LEMMA ShowableFacts ==
  ASSUME NEW w \in Chars
  PROVE  /\ AsShown(w) <=> Trim(w) = w /\ Free(w, {Newline})
         /\ Showable(w) <=> w # <<>> /\ Free(w, {Comma}) /\ AsShown(w)
BY FindNone DEF Showable, AsShown

(* Trimming every piece of a text.                                         *)
LEMMA TrimmedPieces ==
  ASSUME NEW ws \in Seq(Chars)
  PROVE  /\ [i \in 1 .. Len(ws) |-> Trim(ws[i])] \in Seq(Chars)
         /\ Len([i \in 1 .. Len(ws) |-> Trim(ws[i])]) = Len(ws)
         /\ \A i \in 1 .. Len(ws) : [j \in 1 .. Len(ws) |-> Trim(ws[j])][i] = Trim(ws[i])
<1>1. Len(ws) \in Nat
  OBVIOUS
<1>2. \A i \in 1 .. Len(ws) : Trim(ws[i]) \in Chars
  BY TrimText, ElementOfSeq
<1>3. [i \in 1 .. Len(ws) |-> Trim(ws[i])] \in [1 .. Len(ws) -> Chars]
  BY <1>2
<1>4. [i \in 1 .. Len(ws) |-> Trim(ws[i])] \in Seq(Chars)
  BY <1>1, <1>3, SeqDef
<1> QED BY <1>1, <1>4

(* A form shows what it can, and its commas divide it up again.            *)
LEMMA ShownIsKept ==
  ASSUME NEW args \in Seq(Chars), \A i \in 1 .. Len(args) : Showable(args[i])
  PROVE  Kept(Join(args)) = args /\ Field(Join(args)) = Join(args)
<1>0. Field(Join(args)) = Join(args)
  <2>1. \A i \in 1 .. Len(args) : args[i] \in Chars
    BY ElementOfSeq
  <2>2. \A i \in 1 .. Len(args) : Free(args[i], {Newline})
    BY <2>1, ShowableFacts
  <2>3. Comma \notin {Newline} /\ Blank \notin {Newline}
    BY Zenon DEF Comma, Blank, Newline
  <2> QED BY <2>2, <2>3, FreeJoin, JoinText, FieldFacts
<1> DEFINE ps == Split(Join(args), {Comma})
           ts == [i \in 1 .. Len(ps) |-> Trim(ps[i])]
<1>1. \A i \in 1 .. Len(args) : args[i] \in Chars
  BY ElementOfSeq
<1>2. CASE args = <<>>
  <2>1. <<>> \in Chars /\ <<>> \in Seq(Chars) /\ Trim(<<>>) = <<>>
    <3>1. <<>> \in Chars /\ \A m \in 1 .. Len(<<>>) : <<>>[m] \in White
      BY DEF Chars
    <3> QED BY <3>1, TrimBlank
  <2>2. Join(args) = <<>>
    BY <1>2, <2>1, JoinLaw
  <2>3. Split(<<>>, {Comma}) = <<<<>>>>
    <3>1. <<>> \in Seq(Symbols) /\ Blank \in Symbols
      BY DEF Symbols, White
    <3> QED BY <3>1, SplitLaw
  <2>4. ps = <<<<>>>>
    BY <2>2, <2>3
  <2> HIDE DEF ps
  <2>5. ts = <<<<>>>>
    BY <2>1, <2>4
  <2>6. NonEmpty(<<>>) = <<>> /\ NonEmpty(Append(<<>>, <<>>)) = Keep(NonEmpty(<<>>), <<>>)
    BY <2>1, NonEmptyLaw
  <2>7. NonEmpty(<<<<>>>>) = <<>>
    BY <2>6 DEF Keep
  <2> HIDE DEF ts
  <2>8. Kept(Join(args)) = NonEmpty(ts)
    BY DEF Kept, ts, ps
  <2> QED BY <1>0, <1>2, <2>5, <2>7, <2>8
<1>3. CASE args # <<>>
  <2>1. \A i \in 1 .. Len(args) : \A j \in 1 .. Len(args[i]) : args[i][j] \notin {Comma}
    BY <1>1, ShowableFacts DEF Free
  <2>2. /\ ps \in Seq(Chars) /\ Len(ps) = Len(args)
        /\ \A i \in 1 .. Len(args) :
             ps[i] = IF i = 1 THEN args[i] ELSE <<Blank>> \o args[i]
    BY <1>3, <2>1, SplitJoin
  <2> HIDE DEF ps
  <2>3. /\ ts \in Seq(Chars) /\ Len(ts) = Len(ps)
        /\ \A i \in 1 .. Len(ps) : ts[i] = Trim(ps[i])
    BY <2>2, TrimmedPieces
  <2> HIDE DEF ts
  <2>4. ASSUME NEW i \in 1 .. Len(args) PROVE ts[i] = args[i]
    <3>1. Trim(args[i]) = args[i] /\ Trim(<<Blank>> \o args[i]) = args[i]
      BY <1>1, ShowableFacts, TrimOneBlank
    <3>2. ts[i] = Trim(ps[i])
      BY <2>2, <2>3
    <3>3. ps[i] = args[i] \/ ps[i] = <<Blank>> \o args[i]
      BY <2>2
    <3> QED BY <3>1, <3>2, <3>3
  <2>5. ts = args
    BY <2>2, <2>3, <2>4, SeqEqual
  <2>6. NonEmpty(args) = args
    <3>1. \A i \in 1 .. Len(args) : args[i] # <<>>
      BY DEF Showable
    <3> QED BY <3>1, NonEmptyAll
  <2>7. Kept(Join(args)) = NonEmpty(ts)
    BY DEF Kept, ts, ps
  <2> QED BY <1>0, <2>5, <2>6, <2>7
<1> QED BY <1>0, <1>2, <1>3

(* What is saved from a form is what a form can show.                      *)
LEMMA KeptText ==
  ASSUME NEW t \in Chars
  PROVE  Kept(t) \in Seq(Chars)
<1> DEFINE ps == Split(t, {Comma})
           ts == [i \in 1 .. Len(ps) |-> Trim(ps[i])]
<1>1. ps \in Seq(Chars)
  BY SplitPieces
<1> HIDE DEF ps
<1>2. ts \in Seq(Chars)
  BY <1>1, TrimmedPieces
<1> HIDE DEF ts
<1>3. NonEmpty(ts) \in Seq(Chars)
  BY <1>2, NonEmptyFacts
<1> QED BY <1>3 DEF Kept, ts, ps

LEMMA KeptIsShown ==
  ASSUME NEW t \in Chars, Free(t, {Newline}), NEW T, Free(t, T)
  PROVE  \A i \in 1 .. Len(Kept(t)) : Showable(Kept(t)[i]) /\ Free(Kept(t)[i], T)
<1> DEFINE ps == Split(t, {Comma})
           ts == [i \in 1 .. Len(ps) |-> Trim(ps[i])]
           ks == NonEmpty(ts)
<1>1. /\ ps \in Seq(Chars)
      /\ \A i \in 1 .. Len(ps) : \A j \in 1 .. Len(ps[i]) : ps[i][j] \notin {Comma}
      /\ \A i \in 1 .. Len(ps) : Free(ps[i], {Newline}) /\ Free(ps[i], T)
  BY SplitPieces, FreePieces
<1> HIDE DEF ps
<1>2. ts \in Seq(Chars) /\ Len(ts) = Len(ps) /\ \A i \in 1 .. Len(ps) : ts[i] = Trim(ps[i])
  BY <1>1, TrimmedPieces
<1> HIDE DEF ts
<1>3. /\ ks \in Seq(Chars)
      /\ \A i \in 1 .. Len(ks) : ks[i] # <<>> /\ \E j \in 1 .. Len(ts) : ks[i] = ts[j]
  BY <1>2, NonEmptyFacts
<1> HIDE DEF ks
<1>4. ASSUME NEW i \in 1 .. Len(ks) PROVE Showable(ks[i]) /\ Free(ks[i], T)
  <2>1. PICK j \in 1 .. Len(ps) : ks[i] = Trim(ps[j])
    BY <1>2, <1>3, Zenon
  <2>2. ps[j] \in Chars /\ Free(ps[j], {Comma}) /\ Free(ps[j], {Newline}) /\ Free(ps[j], T)
    BY <1>1 DEF Free
  <2> DEFINE w == Trim(ps[j])
  <2>3. w \in Chars /\ Trim(w) = w
        /\ Free(w, {Comma}) /\ Free(w, {Newline}) /\ Free(w, T)
    BY <2>2, TrimTrim, TrimFree
  <2>4. w # <<>>
    BY <1>3, <2>1
  <2> HIDE DEF w
  <2>5. Showable(w)
    BY <2>3, <2>4, ShowableFacts
  <2> QED BY <2>1, <2>3, <2>5 DEF w
<1>5. Kept(t) = ks
  BY DEF Kept, ks, ts, ps
<1> QED BY <1>4, <1>5

-----------------------------------------------------------------------------
(* The rest of a line.                                                     *)

(* Spaces on one side are trimmed away, and what two texts both begin with *)
(* can be left out of an equation.                                         *)
LEMMA TrimLeft ==
  ASSUME NEW x \in Chars, NEW t \in Chars, Spaces(x)
  PROVE  Trim(x \o t) = Trim(t)
<1>1. <<>> \in Chars /\ Spaces(<<>>)
  BY DEF Chars, Spaces
<1>2. Trim(x \o (t \o <<>>)) = Trim(t)
  BY <1>1, TrimAround
<1>3. t \o <<>> = t
  BY GlueNothing
<1> QED BY <1>2, <1>3

LEMMA TrimRight ==
  ASSUME NEW t \in Chars, NEW y \in Chars, Spaces(y)
  PROVE  Trim(t \o y) = Trim(t)
<1> DEFINE u == t \o y
           e == <<>>
<1>1. e \in Chars /\ Spaces(e) /\ u \in Chars
  BY Glued DEF Chars, Spaces
<1> HIDE DEF e
<1>2. Trim(e \o u) = Trim(t)
  BY <1>1, TrimAround
<1> HIDE DEF u
<1>3. e \o u = u
  BY <1>1, GlueNothing DEF e
<1> QED BY <1>2, <1>3 DEF u

LEMMA SameRest ==
  ASSUME NEW x \in Chars, NEW t \in Chars, NEW u \in Chars, x \o t = x \o u
  PROVE  t = u
<1> DEFINE p == x \o t
           q == x \o u
<1>1. /\ Len(p) = Len(x) + Len(t) /\ Len(q) = Len(x) + Len(u)
      /\ \A m \in 1 .. Len(t) : p[Len(x) + m] = t[m]
      /\ \A m \in 1 .. Len(u) : q[Len(x) + m] = u[m]
  BY Joined
<1>2. Len(x) \in Nat /\ Len(t) \in Nat /\ Len(u) \in Nat /\ p = q
  BY DEF Chars
<1> HIDE DEF p, q
<1>3. Len(t) = Len(u)
  BY <1>1, <1>2
<1>4. \A m \in 1 .. Len(t) : t[m] = u[m]
  BY <1>1, <1>2, <1>3
<1> QED BY <1>3, <1>4, SameText

(* What follows the name gives a command and a text for the arguments.     *)
Gives(rest, command, text) ==
  /\ Trim(UpTo(rest, {Blank})) = command
  /\ Trim(After(rest, {Blank})) = Trim(text)

(* After the name comes the command, a word, and after the next blank the  *)
(* arguments.                                                              *)
LEMMA RestParts ==
  ASSUME NEW pad \in Chars, Spaces(pad),
         NEW command \in Chars, command # <<>>, Free(command, White),
         NEW z \in Chars, NEW tail \in Chars, NEW y \in Chars, Spaces(y),
         <<Blank>> \o z = tail \o y
  PROVE  Gives(Trim(pad \o (command \o tail)), command, z)
<1> DEFINE r == Trim(pad \o (command \o tail))
           b == <<Blank>>
<1>0. <<>> \in Chars /\ Spaces(<<>>) /\ Blank \in Symbols /\ b \in Chars /\ Spaces(b)
  BY DEF Chars, Spaces, Symbols, White
<1>10. Free(command, {Blank})
  BY DEF Free, White
<1>1. /\ Len(command) \in Nat \ {0} /\ command[1] \notin White
      /\ command[Len(command)] \notin White
      /\ \A m \in 1 .. Len(command) : command[m] \notin White
  <2>1. Len(command) \in Nat \ {0}
    BY DEF Chars
  <2> QED BY <2>1 DEF Free
<1>2. r = Trim(command \o tail)
  <2>1. command \o tail \in Chars
    BY Glued
  <2> QED BY <2>1, TrimLeft
<1>3. PICK a \in Chars, y2 \in Chars :
        Spaces(y2) /\ tail = a \o y2 /\ Trim(command \o tail) = command \o a
  BY <1>1, TrimTail
<1>4. Trim(command) = command
  BY <1>1, TrimNone
<1> DEFINE x == y2 \o y
<1>5. x \in Chars /\ Spaces(x)
  BY <1>3, SpacesJoined
<1>6. b \o z = a \o x
  <2>1. a \in Seq(Symbols) /\ y2 \in Seq(Symbols) /\ y \in Seq(Symbols)
    BY DEF Chars
  <2>2. (a \o y2) \o y = a \o (y2 \o y)
    BY <2>1, ConcatAssociative
  <2> QED BY <1>3, <2>2
<1> HIDE DEF b, x, r
<1>7. CASE a = <<>>
  <2>1. r = command
    BY <1>2, <1>3, <1>7, GlueNothing
  <2>2. UpTo(r, {Blank}) = command /\ After(r, {Blank}) = <<>>
    BY <1>10, <2>1, FoundNot
  <2>3. Spaces(z)
    <3>1. b \o z = x
      BY <1>5, <1>6, <1>7, GlueNothing
    <3>2. /\ Len(b \o z) = Len(b) + Len(z) /\ Len(b) \in Nat /\ Len(z) \in Nat
          /\ \A m \in 1 .. Len(z) : (b \o z)[Len(b) + m] = z[m]
      BY <1>0, Joined DEF Chars
    <3>3. ASSUME NEW m \in 1 .. Len(z) PROVE z[m] \in White
      <4>1. Len(b) + m \in 1 .. Len(b \o z)
        BY <3>2
      <4> QED BY <1>5, <3>1, <3>2, <4>1 DEF Spaces
    <3> QED BY <3>3 DEF Spaces
  <2>4. Trim(z) = <<>> /\ Trim(<<>>) = <<>>
    BY <1>0, <2>3, TrimBlank DEF Spaces
  <2> QED BY <1>4, <2>2, <2>4 DEF r, Gives
<1>8. CASE a # <<>>
  <2>1. PICK k \in Chars : a = b \o k
    <3>1. /\ Head(a) \in Symbols /\ Tail(a) \in Chars /\ a = <<Head(a)>> \o Tail(a)
          /\ Head(a) = a[1] /\ Len(a) \in Nat \ {0}
      <4>1. a \in Seq(Symbols)
        BY DEF Chars
      <4>2. Len(a) \in Nat \ {0} /\ Head(a) = a[1] /\ Head(a) \in Symbols
            /\ Tail(a) \in Seq(Symbols)
        BY <1>8, <4>1
      <4>3. 1 \in 1 .. Len(a) /\ Len(a) \in 1 .. Len(a)
        BY <4>2
      <4>4. SubSeq(a, 1, Len(a)) = <<a[1]>> \o SubSeq(a, 1 + 1, Len(a))
        BY <4>1, <4>3, SubSeqRecursiveFirst
      <4>5. SubSeq(a, 1, Len(a)) = a /\ Tail(a) = SubSeq(a, 2, Len(a))
        BY <1>8, <4>1, SubSeqFull, TailIsSubSeq
      <4> QED BY <4>2, <4>4, <4>5 DEF Chars
    <3>2. a[1] = Blank
      <4>1. (a \o x)[1] = a[1]
        <5>1. 1 \in 1 .. Len(a)
          BY <3>1
        <5> QED BY <1>5, <5>1, Joined
      <4>2. (b \o z)[1] = Blank
        <5>1. b \in Chars /\ Len(b) = 1 /\ b[1] = Blank /\ 1 \in 1 .. Len(b)
          BY <1>0 DEF b
        <5>2. (b \o z)[1] = b[1]
          BY <5>1, Joined, SMTT(30)
        <5> QED BY <5>1, <5>2
      <4> QED BY <1>6, <4>1, <4>2
    <3> DEFINE rest == Tail(a)
    <3>3. rest \in Chars /\ a = b \o rest
      BY <3>1, <3>2 DEF b
    <3> HIDE DEF rest
    <3> QED BY <3>3
  <2>2. z = k \o x
    <3>1. b \in Seq(Symbols) /\ k \in Seq(Symbols) /\ x \in Seq(Symbols)
      BY <1>0, <1>5 DEF Chars
    <3>2. (b \o k) \o x = b \o (k \o x) /\ k \o x \in Seq(Symbols)
      BY <3>1, ConcatAssociative, ConcatProperties
    <3>3. z \in Seq(Symbols) /\ b \o z = b \o (k \o x)
      BY <1>6, <2>1, <3>2 DEF Chars
    <3>4. k \o x \in Chars
      BY <3>2 DEF Chars
    <3> QED BY <1>0, <3>3, <3>4, SameRest
  <2>3. r = (command \o b) \o k
    <3>1. command \in Seq(Symbols) /\ b \in Seq(Symbols) /\ k \in Seq(Symbols)
      BY <1>0 DEF Chars
    <3>2. (command \o b) \o k = command \o (b \o k)
      BY <3>1, ConcatAssociative
    <3> QED BY <1>2, <1>3, <2>1, <3>2
  <2>4. UpTo(r, {Blank}) = command /\ After(r, {Blank}) = k
    <3>1. UpTo((command \o <<Blank>>) \o k, {Blank}) = command
          /\ After((command \o <<Blank>>) \o k, {Blank}) = k
      BY <1>0, <1>10, FoundAfter
    <3> QED BY <2>3, <3>1 DEF b
  <2>5. Trim(z) = Trim(k)
    BY <1>5, <2>2, TrimRight
  <2> QED BY <1>4, <2>4, <2>5 DEF r, Gives
<1> QED BY <1>7, <1>8

(* What is left of a text is a text.                                       *)
LEMMA LeftText ==
  ASSUME NEW t \in Chars, NEW S
  PROVE  /\ TrimStart(t, S) \in Chars /\ TrimEnd(t, S) \in Chars
         /\ UpTo(t, S) \in Chars /\ After(t, S) \in Chars
<1>0. <<>> \in Chars /\ Len(t) \in Nat
  BY DEF Chars
<1>1. UpTo(t, S) \in Chars
  BY UpToText
<1>2. TrimStart(t, S) \in Chars /\ TrimEnd(t, S) \in Chars
  <2>1. CASE All(t, S)
    <3>1. TrimStart(t \o <<>>, S) = <<>> /\ TrimEnd(<<>> \o t, S) = <<>>
      BY <1>0, <2>1, TrimStartIs, TrimEndIs
    <3> QED BY <1>0, <3>1, GlueNothing
  <2>2. ASSUME NEW k \in 1 .. Len(t), t[k] \notin S
        PROVE  TrimStart(t, S) \in Chars /\ TrimEnd(t, S) \in Chars
    <3>1. PICK i \in 1 .. k :
            /\ t[i] \notin S
            /\ \A m \in 1 .. i - 1 : t[m] \in S
            /\ TrimStart(t, S) = SubSeq(t, i, Len(t))
      BY <2>2, TrimStartFacts, Zenon
    <3>2. PICK j \in k .. Len(t) :
            /\ t[j] \notin S
            /\ \A m \in j + 1 .. Len(t) : t[m] \in S
            /\ TrimEnd(t, S) = SubSeq(t, 1, j)
      BY <2>2, TrimEndFacts, Zenon
    <3>3. i \in 1 .. Len(t) /\ Len(t) \in i .. Len(t) /\ 1 \in 1 .. Len(t) /\ j \in 1 .. Len(t)
      BY <1>0
    <3>4. SubSeq(t, i, Len(t)) \in Chars /\ SubSeq(t, 1, j) \in Chars
      BY <3>3, PartFacts
    <3> QED BY <3>1, <3>2, <3>4
  <2> QED BY <2>1, <2>2 DEF All
<1>3. After(t, S) \in Chars
  <2>1. CASE Find(t, S) = 0
    BY <1>0, <2>1 DEF After
  <2>2. CASE Find(t, S) # 0
    <3> DEFINE i == Find(t, S)
    <3>1. i \in 1 .. Len(t)
      BY <2>2, FindFacts
    <3>2. After(t, S) = SubSeq(t, i + 1, Len(t))
      BY <2>2 DEF After
    <3> HIDE DEF i
    <3>3. CASE i = Len(t)
      <4>1. SubSeq(t, i + 1, Len(t)) = <<>>
        BY <1>0, <3>3, SubSeqEmpty
      <4> QED BY <1>0, <3>2, <4>1
    <3>4. CASE i # Len(t)
      <4>1. i + 1 \in 1 .. Len(t) /\ Len(t) \in i + 1 .. Len(t)
        BY <1>0, <3>1, <3>4
      <4>2. SubSeq(t, i + 1, Len(t)) \in Chars
        BY <4>1, PartFacts
      <4> QED BY <3>2, <4>2
    <3> QED BY <3>3, <3>4
  <2> QED BY <2>1, <2>2
<1> QED BY <1>1, <1>2, <1>3

(* The entries there may be, and what is read from a line.                 *)
Entries == {e \in [command : Chars, args : Seq(Chars), env : BOOLEAN,
                   cwd : Seq(Chars), http : BOOLEAN] : Len(e.cwd) <= 1}

LEMMA LineText ==
  ASSUME NEW line \in Chars
  PROVE  Name(line) \in Chars /\ Rest(line) \in Chars /\ Added(line) \in Entries
<1>1. Rest(line) \in Chars
  <2>1. CASE Quoted(line)
    <3>1. Tail(line) \in Chars
      BY <2>1 DEF Quoted, Chars
    <3>2. After(Tail(line), {Quote}) \in Chars
      BY <3>1, LeftText
    <3> QED BY <2>1, <3>2, TrimText DEF Rest
  <2>2. CASE ~Quoted(line)
    <3>1. After(line, {Blank}) \in Chars
      BY LeftText
    <3> QED BY <2>2, <3>1, TrimText DEF Rest
  <2> QED BY <2>1, <2>2
<1> DEFINE r == Rest(line)
           c == Trim(UpTo(r, {Blank}))
           x == Trim(After(r, {Blank}))
           args == Tokens(Unbracket(x))
<1>2. c \in Chars /\ x \in Chars
  <2> HIDE DEF r
  <2>1. UpTo(r, {Blank}) \in Chars /\ After(r, {Blank}) \in Chars
    BY <1>1, LeftText DEF r
  <2> QED BY <2>1, TrimText
<1> HIDE DEF x
<1>3. Unbracket(x) \in Chars
  <2> DEFINE a == TrimStart(x, {Less})
             b == TrimEnd(a, {Greater})
             d == TrimStart(b, {Open})
             e == TrimEnd(d, {Close})
  <2>1. a \in Chars
    BY <1>2, LeftText
  <2> HIDE DEF a
  <2>2. b \in Chars
    BY <2>1, LeftText
  <2> HIDE DEF b
  <2>3. d \in Chars
    BY <2>2, LeftText
  <2> HIDE DEF d
  <2>4. e \in Chars
    BY <2>3, LeftText
  <2>5. Unbracket(x) = Trim(e)
    BY DEF Unbracket, a, b, d
  <2> HIDE DEF e
  <2> QED BY <2>4, <2>5, TrimText
<1>4. args \in Seq(Chars)
  BY <1>3, ScanText
<1>5. IsHttp(c) \in BOOLEAN
  BY DEF IsHttp
<1>6. Added(line) = [command |-> c, args |-> args, env |-> FALSE, cwd |-> <<>>,
                     http |-> IsHttp(c)]
  BY DEF Added, Entry, x
<1> HIDE DEF c, args
<1>7. Added(line) \in Entries
  BY <1>2, <1>4, <1>5, <1>6 DEF Entries
<1> QED BY <1>1, <1>7, NameText

-----------------------------------------------------------------------------
(* What is configured is what could be loaded.                             *)

Forms == [open : {TRUE}, slug : Chars, command : Chars, args : Chars, cwd : Chars]

(* What is saved from a form.                                              *)
LEMMA DirectoryFacts ==
  ASSUME NEW field \in Chars
  PROVE  DirectoryOf(field) \in Seq(Chars) /\ Len(DirectoryOf(field)) <= 1
<1>1. Trim(field) \in Chars
  BY TrimText
<1> QED BY <1>1 DEF DirectoryOf

LEMMA SavedFacts ==
  ASSUME NEW f, f.command \in Chars, f.args \in Chars, f.cwd \in Chars
  PROVE  /\ Saved(f) \in Entries
         /\ Saved(f) = [command |-> Trim(f.command), args |-> Kept(f.args), env |-> FALSE,
                        cwd |-> DirectoryOf(f.cwd), http |-> IsHttp(Trim(f.command))]
<1> DEFINE c == Trim(f.command)
           k == Kept(f.args)
           d == DirectoryOf(f.cwd)
<1>1. Saved(f) = [command |-> c, args |-> k, env |-> FALSE, cwd |-> d,
                  http |-> IsHttp(c)]
  BY DEF Saved, Entry, Kept
<1>2. k \in Seq(Chars) /\ c \in Chars /\ d \in Seq(Chars) /\ Len(d) <= 1
      /\ IsHttp(c) \in BOOLEAN
  BY KeptText, TrimText, DirectoryFacts DEF IsHttp
<1> HIDE DEF c, k, d
<1>3. Saved(f) \in Entries
  BY <1>1, <1>2 DEF Entries
<1> QED BY <1>1, <1>3 DEF c, k, d

(* A configuration that could be loaded stays one.                         *)
LEMMA ConfiguredInsert ==
  ASSUME NEW t, Configured(t), NEW s \in Chars, ValidSlug(s), NEW e \in Entries
  PROVE  Configured(Insert(t, s, e))
BY DEF Configured, Insert, Entries

LEMMA ConfiguredRemove ==
  ASSUME NEW t, Configured(t), NEW s
  PROVE  Configured(Remove(t, s))
BY DEF Configured, Remove, Restrict

(* What a form shows of an entry. *)
LEMMA DirectoryShown ==
  ASSUME NEW e \in Entries
  PROVE  /\ Directory(e.cwd) \in Chars
         /\ e.cwd = <<>> \/ (e.cwd[1] \in Chars /\ e.cwd = <<e.cwd[1]>>)
         /\ \A T : (e.cwd # <<>> => Free(e.cwd[1], T)) => Free(Directory(e.cwd), T)
<1>1. e.cwd \in Seq(Chars) /\ Len(e.cwd) <= 1
  BY DEF Entries
<1> DEFINE c == e.cwd
<1> HIDE DEF c
<1>2. c = <<>> \/ (c[1] \in Chars /\ c = <<c[1]>>)
  <2>1. c \in Seq(Chars) /\ Len(c) <= 1
    BY <1>1 DEF c
  <2>2. CASE Len(c) = 0
    BY <2>1, <2>2
  <2>3. CASE Len(c) = 1
    <3>1. c[1] \in Chars
      BY <2>1, <2>3
    <3>2. <<c[1]>> \in Seq(Chars) /\ Len(<<c[1]>>) = 1 /\ <<c[1]>>[1] = c[1]
      BY <3>1
    <3> DEFINE u == <<c[1]>>
    <3> HIDE DEF u
    <3>3. u \in Seq(Chars) /\ Len(u) = 1 /\ u[1] = c[1]
      BY <3>2 DEF u
    <3>4. u = c
      BY <2>1, <2>3, <3>3, SeqEqual
    <3> QED BY <3>1, <3>4 DEF u
  <2>4. Len(c) = 0 \/ Len(c) = 1
    <3>1. Len(c) \in Nat
      BY <2>1
    <3> QED BY <2>1, <3>1
  <2> QED BY <2>2, <2>3, <2>4
<1>3. <<>> \in Chars /\ \A T : Free(<<>>, T)
  BY DEF Chars, Free
<1>4. Directory(c) = <<>> \/ (Directory(c) = c[1] /\ c # <<>>)
  BY DEF Directory
<1> QED BY <1>2, <1>3, <1>4 DEF c

LEMMA FormText ==
  ASSUME NEW slug, NEW e \in Entries
  PROVE  /\ FormOf(slug, e).command = Field(e.command)
         /\ FormOf(slug, e).args = Field(Join(e.args))
         /\ FormOf(slug, e).cwd = Field(Directory(e.cwd))
         /\ Field(e.command) \in Chars /\ Field(Join(e.args)) \in Chars
         /\ Field(Directory(e.cwd)) \in Chars
         /\ slug \in Chars => FormOf(slug, e) \in Forms
<1>1. e.command \in Chars /\ Join(e.args) \in Chars /\ Directory(e.cwd) \in Chars
  BY JoinText, DirectoryShown DEF Entries
<1>2. Field(e.command) \in Chars /\ Field(Join(e.args)) \in Chars
      /\ Field(Directory(e.cwd)) \in Chars
  BY <1>1, FieldFacts
<1> DEFINE c == Field(e.command)
           a == Field(Join(e.args))
           d == Field(Directory(e.cwd))
<1>3. FormOf(slug, e) = [open |-> TRUE, slug |-> slug, command |-> c, args |-> a, cwd |-> d]
  BY DEF FormOf
<1> HIDE DEF c, a, d
<1>4. slug \in Chars => FormOf(slug, e) \in Forms
  BY <1>2, <1>3 DEF Forms, c, a, d
<1>5. FormOf(slug, e).command = c /\ FormOf(slug, e).args = a /\ FormOf(slug, e).cwd = d
  BY <1>3
<1> QED BY <1>2, <1>4, <1>5 DEF c, a, d

LEMMA EntryOf ==
  ASSUME Configured(config), NEW slug \in DOMAIN config
  PROVE  config[slug] \in Entries /\ slug \in Chars /\ ValidSlug(slug)
BY DEF Configured, Entries

LEMMA AddedTyped ==
  ASSUME TypeOK, NEW word \in Word, NEW command \in Command, NEW text \in Text,
         TypeAdd(word, command, text)
  PROVE  TypeOK'
<1> DEFINE line == Trim(word \o <<Blank>> \o command \o <<Blank>> \o text)
<1>1. line \in Chars
  <2> DEFINE b == <<Blank>>
  <2>1. word \in Chars /\ command \in Chars /\ text \in Chars /\ b \in Chars
    BY TypedText DEF Chars, Symbols, White
  <2> HIDE DEF b
  <2>2. word \o b \o command \o b \o text \in Chars
    <3>1. word \o b \in Chars
      BY <2>1, Glued
    <3>2. word \o b \o command \in Chars
      BY <2>1, <3>1, Glued
    <3>3. word \o b \o command \o b \in Chars
      BY <2>1, <3>2, Glued
    <3> QED BY <2>1, <3>3, Glued
  <2> QED BY <2>2, TrimText DEF b
<1>2. /\ ValidSlug(Name(line)) /\ config' = Insert(config, Name(line), Added(line))
      /\ typed' = [word |-> word, name |-> Name(line), command |-> command,
                   text |-> text]
      /\ form' = form
  BY DEF TypeAdd, Accepted
<1> HIDE DEF line
<1>3. Name(line) \in Chars /\ Added(line) \in Entries
  BY <1>1, LineText
<1>4. Configured(config')
  BY <1>2, <1>3, ConfiguredInsert DEF TypeOK
<1>5. Name(line) \in DOMAIN config'
  BY <1>2 DEF Insert
<1>6. typed'.word \in Word /\ typed'.command \in Command /\ typed'.text \in Text
      /\ typed'.name \in DOMAIN config'
  BY <1>2, <1>5
<1> QED BY <1>2, <1>4, <1>6 DEF TypeOK

(* Whatever is typed or filled in, load_from_path of config.rs:49 would    *)
(* load what is saved: an entry has a name that it would take.             *)
THEOREM TypeCorrect == Spec => []TypeOK
<1>1. Init => TypeOK
  BY InitialAssumption DEF Init, TypeOK
<1>2. TypeOK /\ [Next]_vars => TypeOK'
  <2> SUFFICES ASSUME TypeOK, [Next]_vars PROVE TypeOK'
    OBVIOUS
  <2>0. Configured(config) /\ (form = NoForm \/ form \in Forms)
    BY DEF TypeOK, Forms
  <2>1. ASSUME NEW word \in Word, NEW command \in Command, NEW text \in Text,
               TypeAdd(word, command, text)
        PROVE  TypeOK'
    BY <2>1, AddedTyped
  <2>2. ASSUME NEW word \in Word, TypeDisable(word) PROVE TypeOK'
    <3>1. Configured(config')
      BY <2>0, <2>2, ConfiguredRemove DEF TypeDisable
    <3> QED BY <2>2, <3>1 DEF TypeDisable, TypeOK
  <2>3. ASSUME NEW word \in Word, NEW command \in Command, NEW text \in Text,
               NEW dir \in Dir, FillForm(word, command, text, dir)
        PROVE  TypeOK'
    <3>1. Trim(word) \in Chars /\ command \in Chars /\ text \in Chars /\ dir \in Chars
      BY TypedText, TrimText
    <3>2. form' \in Forms
      <4> DEFINE w == Trim(word)
      <4>1. form' = [open |-> TRUE, slug |-> w, command |-> command, args |-> text,
                     cwd |-> dir]
        BY <2>3 DEF FillForm
      <4> HIDE DEF w
      <4>2. w \in Chars
        BY <3>1 DEF w
      <4> QED BY <3>1, <4>1, <4>2 DEF Forms
    <3>3. config' = config /\ typed' = typed
      BY <2>3 DEF FillForm
    <3> QED BY <3>2, <3>3 DEF TypeOK, Forms
  <2>4. ASSUME NEW slug \in DOMAIN config, OpenForm(slug) PROVE TypeOK'
    <3>1. form' \in Forms /\ config' = config /\ typed' = typed
      BY <2>0, <2>4, EntryOf, FormText DEF OpenForm
    <3> QED BY <3>1 DEF TypeOK, Forms
  <2>5. CASE SaveForm
    <3>1. form \in Forms
      BY <2>0, <2>5 DEF SaveForm, NoForm
    <3>2. form.slug \in Chars /\ Saved(form) \in Entries
      <4>1. form.slug \in Chars /\ form.command \in Chars /\ form.args \in Chars
            /\ form.cwd \in Chars
        BY <3>1 DEF Forms
      <4> QED BY <4>1, SavedFacts
    <3>3. Configured(config')
      BY <2>0, <2>5, <3>2, ConfiguredInsert DEF SaveForm
    <3> QED BY <2>5, <3>3 DEF SaveForm, TypeOK
  <2>6. CASE CloseForm
    BY <2>6 DEF CloseForm, TypeOK
  <2>7. CASE UNCHANGED vars
    BY <2>7 DEF vars, TypeOK
  <2> QED BY <2>1, <2>2, <2>3, <2>4, <2>5, <2>6, <2>7 DEF Next
<1> QED BY <1>1, <1>2, PTL DEF Spec

(* What a form of an entry saves, unedited.                                *)
LEMMA SavedOfForm ==
  ASSUME NEW slug, NEW e \in Entries
  PROVE  /\ Saved(FormOf(slug, e)) \in Entries
         /\ Saved(FormOf(slug, e)) =
              [command |-> Trim(Field(e.command)), args |-> Kept(Field(Join(e.args))),
               env |-> FALSE, cwd |-> DirectoryOf(Field(Directory(e.cwd))),
               http |-> IsHttp(Trim(Field(e.command)))]
<1> DEFINE f == FormOf(slug, e)
<1>1. /\ f.command = Field(e.command) /\ f.args = Field(Join(e.args))
      /\ f.cwd = Field(Directory(e.cwd))
      /\ f.command \in Chars /\ f.args \in Chars /\ f.cwd \in Chars
  BY FormText
<1> HIDE DEF f
<1>2. /\ Saved(f) \in Entries
      /\ Saved(f) = [command |-> Trim(f.command), args |-> Kept(f.args), env |-> FALSE,
                     cwd |-> DirectoryOf(f.cwd), http |-> IsHttp(Trim(f.command))]
  BY <1>1, SavedFacts
<1> QED BY <1>1, <1>2 DEF f

(* What a form can show of an entry it keeps.                              *)
LEMMA FormKeeps ==
  ASSUME NEW slug, NEW e \in Entries
  PROVE  LET s == Saved(FormOf(slug, e)) IN
         /\ AsShown(e.command) => s.command = e.command
         /\ (\A i \in DOMAIN e.args : Showable(e.args[i])) => s.args = e.args
         /\ e.cwd = <<>> \/ (AsShown(e.cwd[1]) /\ e.cwd[1] \notin {<<>>, Undefined}) =>
              s.cwd = e.cwd
<1> DEFINE s == Saved(FormOf(slug, e))
<1>1. /\ s.command = Trim(Field(e.command)) /\ s.args = Kept(Field(Join(e.args)))
      /\ s.cwd = DirectoryOf(Field(Directory(e.cwd)))
  BY SavedOfForm
<1> HIDE DEF s
<1>2. e.command \in Chars /\ e.args \in Seq(Chars) /\ DOMAIN e.args = 1 .. Len(e.args)
  BY DEF Entries
<1>3. ASSUME AsShown(e.command) PROVE s.command = e.command
  BY <1>1, <1>2, <1>3, ShowableFacts, FieldFacts
<1>4. ASSUME \A i \in DOMAIN e.args : Showable(e.args[i]) PROVE s.args = e.args
  BY <1>1, <1>2, <1>4, ShownIsKept
<1>5. ASSUME e.cwd = <<>> PROVE s.cwd = e.cwd
  <2>1. <<>> \in Chars /\ Free(<<>>, {Newline}) /\ Trim(<<>>) = <<>>
    <3>1. <<>> \in Chars /\ \A m \in 1 .. Len(<<>>) : <<>>[m] \in White
      BY DEF Chars
    <3> QED BY <3>1, TrimBlank DEF Free
  <2>2. Field(<<>>) = <<>>
    BY <2>1, FieldFacts
  <2> QED BY <1>1, <1>5, <2>1, <2>2 DEF Directory, DirectoryOf
<1>6. ASSUME e.cwd # <<>>, AsShown(e.cwd[1]), e.cwd[1] \notin {<<>>, Undefined}
      PROVE  s.cwd = e.cwd
  <2> DEFINE d == e.cwd[1]
  <2>1. d \in Chars /\ e.cwd = <<d>>
    BY <1>6, DirectoryShown
  <2>2. Trim(d) = d /\ Free(d, {Newline})
    BY <1>6, <2>1, ShowableFacts
  <2>3. Field(d) = d
    BY <2>1, <2>2, FieldFacts
  <2>4. Directory(e.cwd) = d
    <3>1. <<d>> # <<Undefined>>
      <4>1. <<d>>[1] = d /\ <<Undefined>>[1] = Undefined
        OBVIOUS
      <4> HIDE DEF d
      <4> QED BY <1>6, <4>1 DEF d
    <3> QED BY <1>6, <2>1, <3>1 DEF Directory
  <2>5. DirectoryOf(d) = <<d>>
    BY <1>6, <2>2 DEF DirectoryOf
  <2> QED BY <1>1, <2>1, <2>3, <2>4, <2>5
<1> QED BY <1>3, <1>4, <1>5, <1>6 DEF s

(* Whatever an entry is, what its form saves can be shown, and has no      *)
(* apostrophe if the entry has none.                                       *)
LEMMA EditableFacts ==
  ASSUME NEW e \in Entries
  PROVE  Editable(e) <=>
           /\ Free(e.command, {Apostrophe})
           /\ \A i \in 1 .. Len(e.args) : Free(e.args[i], {Apostrophe})
           /\ e.cwd # <<>> => Free(e.cwd[1], {Apostrophe})
<1>1. e.command \in Chars /\ e.args \in Seq(Chars) /\ DOMAIN e.args = 1 .. Len(e.args)
  BY DEF Entries
<1>2. Find(e.command, {Apostrophe}) = 0 <=> Free(e.command, {Apostrophe})
  BY <1>1, FindNone
<1>3. ASSUME NEW i \in 1 .. Len(e.args)
      PROVE  Find(e.args[i], {Apostrophe}) = 0 <=> Free(e.args[i], {Apostrophe})
  <2>1. e.args[i] \in Chars
    BY <1>1, ElementOfSeq
  <2> QED BY <2>1, FindNone
<1>4. e.cwd # <<>> =>
        (Find(e.cwd[1], {Apostrophe}) = 0 <=> Free(e.cwd[1], {Apostrophe}))
  BY DirectoryShown, FindNone
<1> QED BY <1>1, <1>2, <1>3, <1>4 DEF Editable

LEMMA SavedIsShown ==
  ASSUME NEW slug, NEW e \in Entries
  PROVE  LET s == Saved(FormOf(slug, e)) IN
         /\ AsShown(s.command) /\ \A i \in DOMAIN s.args : Showable(s.args[i])
         /\ s.cwd # <<>> => AsShown(s.cwd[1]) /\ s.cwd[1] # <<>>
         /\ Editable(e) => Editable(s)
<1> DEFINE s == Saved(FormOf(slug, e))
           A == {Apostrophe}
           c == Field(e.command)
           a == Field(Join(e.args))
           d == Field(Directory(e.cwd))
<1>1. /\ s \in Entries /\ s.command = Trim(c) /\ s.args = Kept(a)
      /\ s.cwd = DirectoryOf(d)
  BY SavedOfForm
<1>2. /\ e.command \in Chars /\ e.args \in Seq(Chars) /\ Join(e.args) \in Chars
      /\ Directory(e.cwd) \in Chars
  BY JoinText, DirectoryShown DEF Entries
<1>3. /\ c \in Chars /\ Free(c, {Newline}) /\ (Free(e.command, A) => Free(c, A))
      /\ a \in Chars /\ Free(a, {Newline}) /\ (Free(Join(e.args), A) => Free(a, A))
      /\ d \in Chars /\ Free(d, {Newline}) /\ (Free(Directory(e.cwd), A) => Free(d, A))
  BY <1>2, FieldFacts
<1>4. ASSUME Editable(e) PROVE Free(c, A) /\ Free(a, A) /\ Free(d, A)
  <2>1. /\ Free(e.command, A) /\ \A i \in 1 .. Len(e.args) : Free(e.args[i], A)
        /\ e.cwd # <<>> => Free(e.cwd[1], A)
    BY <1>4, EditableFacts
  <2>2. Comma \notin A /\ Blank \notin A
    BY Zenon DEF Comma, Blank, Apostrophe
  <2>3. Free(Join(e.args), A)
    BY <1>2, <2>1, <2>2, FreeJoin
  <2>4. Free(Directory(e.cwd), A)
    BY <2>1, DirectoryShown
  <2> QED BY <1>3, <2>1, <2>3, <2>4
<1> HIDE DEF c, a, d, s, A
<1>5. AsShown(s.command) /\ (Free(c, A) => Free(s.command, A))
  <2>1. Trim(c) \in Chars /\ Trim(Trim(c)) = Trim(c) /\ Free(Trim(c), {Newline})
        /\ (Free(c, A) => Free(Trim(c), A))
    BY <1>3, TrimTrim, TrimFree
  <2> QED BY <1>1, <2>1, ShowableFacts
<1>6. \A i \in 1 .. Len(s.args) :
        Showable(s.args[i]) /\ (Free(a, A) => Free(s.args[i], A))
  <2>1. \A i \in 1 .. Len(Kept(a)) : Showable(Kept(a)[i])
    BY <1>3, KeptIsShown
  <2>2. Free(a, A) => \A i \in 1 .. Len(Kept(a)) : Free(Kept(a)[i], A)
    BY <1>3, KeptIsShown
  <2> QED BY <1>1, <2>1, <2>2
<1>7. s.cwd # <<>> => /\ AsShown(s.cwd[1]) /\ s.cwd[1] # <<>>
                      /\ Free(d, A) => Free(s.cwd[1], A)
  <2>1. Trim(d) \in Chars /\ Trim(Trim(d)) = Trim(d) /\ Free(Trim(d), {Newline})
        /\ (Free(d, A) => Free(Trim(d), A))
    BY <1>3, TrimTrim, TrimFree
  <2>2. s.cwd # <<>> => s.cwd[1] = Trim(d) /\ Trim(d) # <<>>
    BY <1>1 DEF DirectoryOf
  <2> QED BY <2>1, <2>2, ShowableFacts
<1>8. Editable(e) => Editable(s)
  BY <1>1, <1>4, <1>5, <1>6, <1>7, EditableFacts DEF A
<1>9. DOMAIN s.args = 1 .. Len(s.args)
  BY <1>1 DEF Entries
<1> QED BY <1>5, <1>6, <1>7, <1>8, <1>9 DEF s

(* Saving the form of an entry again and again changes nothing after the   *)
(* first time, editServer and submitServerForm of routes.rs:581-606, with  *)
(* whatever texts the entry was configured, if the button of its form      *)
(* works at all and its directory has not become the text undefined.       *)
THEOREM FormsSettle == Spec => []FormSettles
<1>1. TypeOK => FormSettles
  <2> SUFFICES ASSUME TypeOK, NEW slug \in DOMAIN config, Editable(config[slug]),
                      Saved(FormOf(slug, config[slug])).cwd # <<Undefined>>
               PROVE  LET s == Saved(FormOf(slug, config[slug])) IN
                      Editable(s) /\ Saved(FormOf(slug, s)) = s
    BY DEF FormSettles
  <2> DEFINE e == config[slug]
             s == Saved(FormOf(slug, e))
             r == Saved(FormOf(slug, s))
  <2>1. e \in Entries
    BY EntryOf DEF TypeOK
  <2>2. s.cwd # <<Undefined>> /\ Editable(e)
    OBVIOUS
  <2> HIDE DEF e
  <2>3. /\ s \in Entries /\ s.env = FALSE /\ s.http = IsHttp(s.command)
        /\ s = [command |-> s.command, args |-> s.args, env |-> s.env,
                cwd |-> s.cwd, http |-> s.http]
    BY <2>1, SavedOfForm
  <2>4. /\ AsShown(s.command) /\ \A i \in DOMAIN s.args : Showable(s.args[i])
        /\ s.cwd # <<>> => AsShown(s.cwd[1]) /\ s.cwd[1] # <<>>
        /\ Editable(s)
    BY <2>1, <2>2, SavedIsShown
  <2> HIDE DEF s
  <2>5. s.cwd # <<>> => s.cwd[1] # Undefined
    BY <2>2, <2>3, DirectoryShown
  <2>6. r.command = s.command /\ r.args = s.args /\ r.cwd = s.cwd
    BY <2>3, <2>4, <2>5, FormKeeps
  <2>7. /\ r.env = FALSE /\ r.http = IsHttp(r.command)
        /\ r = [command |-> r.command, args |-> r.args, env |-> r.env,
                cwd |-> r.cwd, http |-> r.http]
    BY <2>3, SavedOfForm
  <2> HIDE DEF r
  <2>8. r = s
    BY <2>3, <2>6, <2>7
  <2> QED BY <2>4, <2>8 DEF e, s, r
<1> QED BY <1>1, TypeCorrect, PTL

(* A form saved unedited keeps the command, the arguments and the          *)
(* directory, each that a form can show: editServer and submitServerForm   *)
(* of routes.rs:581-606 and what post_api_server makes of it.              *)
THEOREM UneditedFormsKeep == Spec => []UneditedFormKeeps
<1>1. TypeOK => UneditedFormKeeps
  <2> SUFFICES ASSUME TypeOK, NEW slug \in DOMAIN config
               PROVE  LET e == config[slug]
                          s == Saved(FormOf(slug, e)) IN
                      /\ AsShown(e.command) => s.command = e.command
                      /\ (\A i \in DOMAIN e.args : Showable(e.args[i])) => s.args = e.args
                      /\ e.cwd = <<>> \/
                           (AsShown(e.cwd[1]) /\ e.cwd[1] \notin {<<>>, Undefined}) =>
                           s.cwd = e.cwd
    BY DEF UneditedFormKeeps
  <2>1. config[slug] \in Entries
    BY EntryOf DEF TypeOK
  <2> QED BY <2>1, FormKeeps
<1> QED BY <1>1, TypeCorrect, PTL

-----------------------------------------------------------------------------
(* Lines that begin with a slug, and what is left of them.                 *)

(* The name up to the first blank, or in quotes.                           *)
LEMMA BareLine ==
  ASSUME NEW s \in Chars, ValidSlug(s), NEW x \in Chars, NEW line,
         line = (s \o <<Blank>>) \o x
  PROVE  line \in Chars /\ Closed(line) /\ Name(line) = s /\ Rest(line) = Trim(x)
<1>1. /\ Len(s) \in Nat \ {0} /\ s # <<>>
      /\ \A m \in 1 .. Len(s) : s[m] \notin White /\ s[m] # Quote
  BY SlugFacts
<1>2. Free(s, {Blank}) /\ Blank \in Symbols
  <2>1. Free(s, White)
    BY <1>1 DEF Free
  <2> QED BY <2>1 DEF Free, Symbols, White
<1>3. line \in Chars /\ UpTo(line, {Blank}) = s /\ After(line, {Blank}) = x
  BY <1>2, FoundAfter
<1>4. ~Quoted(line)
  <2> DEFINE b == <<Blank>>
             h == s \o b
  <2>1. b \in Chars
    BY <1>2 DEF Chars
  <2> HIDE DEF b
  <2>2. h \in Chars /\ Len(h) = Len(s) + Len(b) /\ \A m \in 1 .. Len(s) : h[m] = s[m]
    BY <2>1, Joined
  <2>3. Len(b) \in Nat /\ Len(x) \in Nat
    BY <2>1 DEF Chars
  <2>4. line = h \o x
    BY DEF b
  <2> HIDE DEF h
  <2>5. Len(line) = Len(h) + Len(x) /\ \A m \in 1 .. Len(h) : line[m] = h[m]
    <3>1. /\ Len(h \o x) = Len(h) + Len(x)
          /\ \A m \in 1 .. Len(h) : (h \o x)[m] = h[m]
      BY <2>2, Joined
    <3> QED BY <2>4, <3>1, Zenon
  <2>6. 1 \in 1 .. Len(s) /\ 1 \in 1 .. Len(h) /\ Len(line) # 0
    BY <1>1, <2>2, <2>3, <2>5
  <2>7. line[1] # Quote
    BY <1>1, <2>2, <2>5, <2>6
  <2>8. Head(line) = line[1]
    BY <1>3, <2>6 DEF Chars
  <2> QED BY <2>7, <2>8 DEF Quoted
<1>5. Trim(s) = s
  BY <1>1, TrimNone
<1>6. Name(line) = Trim(UpTo(line, {Blank})) /\ Rest(line) = Trim(After(line, {Blank}))
  BY <1>4 DEF Name, Rest
<1> QED BY <1>3, <1>4, <1>5, <1>6 DEF Closed

LEMMA QuotedLine ==
  ASSUME NEW s \in Chars, ValidSlug(s), NEW x \in Chars, NEW line,
         line = (<<Quote>> \o s \o <<Quote>>) \o x
  PROVE  line \in Chars /\ Closed(line) /\ Name(line) = s /\ Rest(line) = Trim(x)
<1> DEFINE q == <<Quote>>
           u == (s \o q) \o x
<1>1. /\ Len(s) \in Nat \ {0} /\ s # <<>>
      /\ \A m \in 1 .. Len(s) : s[m] \notin White /\ s[m] # Quote
  BY SlugFacts
<1>2. Free(s, {Quote}) /\ Quote \in Symbols
  BY <1>1 DEF Free, Symbols, White
<1>3. /\ u \in Chars /\ Find(u, {Quote}) # 0
      /\ UpTo(u, {Quote}) = s /\ After(u, {Quote}) = x
  BY <1>2, FoundAfter
<1>4. q \in Chars /\ Len(q) = 1 /\ q[1] = Quote
  BY <1>2 DEF Chars
<1> HIDE DEF q
<1>5. line = q \o u
  <2>1. s \o q \in Chars /\ q \o s \in Chars
    BY <1>4, Glued
  <2>2. (q \o s) \o q = q \o (s \o q)
    BY <1>4, Regroup
  <2> DEFINE v == s \o q
  <2> HIDE DEF v
  <2>3. v \in Chars /\ line = (q \o v) \o x
    BY <2>1, <2>2 DEF v, q
  <2>4. (q \o v) \o x = q \o (v \o x)
    BY <1>4, <2>3, Regroup
  <2> QED BY <2>3, <2>4 DEF v
<1> HIDE DEF u
<1>6. /\ line \in Chars /\ Len(line) = 1 + Len(u) /\ line[1] = Quote
      /\ \A m \in 1 .. Len(u) : line[1 + m] = u[m]
  <2>1. /\ q \o u \in Chars /\ Len(q \o u) = Len(q) + Len(u)
        /\ \A m \in 1 .. Len(q) : (q \o u)[m] = q[m]
        /\ \A m \in 1 .. Len(u) : (q \o u)[Len(q) + m] = u[m]
    BY <1>3, <1>4, Joined
  <2>2. 1 \in 1 .. Len(q)
    BY <1>4
  <2>3. /\ q \o u \in Chars /\ Len(q \o u) = 1 + Len(u) /\ (q \o u)[1] = Quote
        /\ \A m \in 1 .. Len(u) : (q \o u)[1 + m] = u[m]
    BY <1>4, <2>1, <2>2
  <2> QED BY <1>5, <2>3, Zenon
<1>7. Len(u) \in Nat
  BY <1>3 DEF Chars
<1>8. line # <<>> /\ Head(line) = line[1]
  BY <1>6, <1>7 DEF Chars
<1>9. Quoted(line)
  BY <1>6, <1>8 DEF Quoted
<1>10. Tail(line) = u
  <2>1. Tail(line) \in Chars /\ Len(Tail(line)) = Len(line) - 1
        /\ \A m \in 1 .. Len(Tail(line)) : Tail(line)[m] = line[m + 1]
    BY <1>6, <1>8, HeadTailProperties DEF Chars
  <2>2. Len(Tail(line)) = Len(u)
    BY <1>6, <1>7, <2>1
  <2>3. ASSUME NEW m \in 1 .. Len(u) PROVE Tail(line)[m] = u[m]
    <3>1. m + 1 = 1 + m
      BY <1>7
    <3> QED BY <1>6, <2>1, <2>2, <3>1
  <2> QED BY <1>3, <2>1, <2>2, <2>3, SameText
<1>11. Trim(s) = s
  BY <1>1, TrimNone
<1>12. /\ Name(line) = Trim(UpTo(Tail(line), {Quote}))
       /\ Rest(line) = Trim(After(Tail(line), {Quote}))
  BY <1>9 DEF Name, Rest
<1> QED BY <1>3, <1>6, <1>9, <1>10, <1>11, <1>12 DEF Closed

LEMMA BracketsDiffer ==
  /\ Open \notin White /\ Close \notin White /\ Open # Less /\ Close # Greater
  /\ Close # Open /\ Quote # Open /\ Quote # Close /\ Quote \notin White
BY Zenon DEF White, Open, Close, Less, Greater, Quote, Blank, Tab, Newline

(* The brackets of a list are taken off, and nothing else.                 *)
LEMMA ListedParts ==
  ASSUME NEW args \in Seq(Chars)
  PROVE  LET x == Listed(args) IN
         x \in Chars /\ Trim(x) = x /\ Tokens(Unbracket(x)) = DecodedAll(args)
<1> DEFINE j == Join(Debugs(args))
           o == <<Open>>
           c == <<Close>>
           u == j \o c
           x == o \o u
<1>1. /\ j \in Chars /\ Scan(j) = At(DecodedAll(args), "between")
      /\ IF args = <<>> THEN j = <<>> ELSE Enclosed(j)
  BY ListedScan
<1>2. /\ o \in Chars /\ Len(o) = 1 /\ o[1] = Open
      /\ c \in Chars /\ Len(c) = 1 /\ c[1] = Close
  <2>1. Open \in Symbols /\ Close \in Symbols
    BY DEF Symbols, White
  <2> QED BY <2>1 DEF Chars
<1>3. Listed(args) = (o \o j) \o c
  BY DEF Listed, Debugs
<1> HIDE DEF j, o, c
<1>4. Listed(args) = x
  BY <1>1, <1>2, <1>3, Regroup
<1>5. /\ u \in Chars /\ Len(u) = Len(j) + 1 /\ u[Len(j) + 1] = Close
      /\ \A m \in 1 .. Len(j) : u[m] = j[m]
  <2>1. /\ u \in Chars /\ Len(u) = Len(j) + Len(c)
        /\ \A m \in 1 .. Len(j) : u[m] = j[m]
        /\ \A m \in 1 .. Len(c) : u[Len(j) + m] = c[m]
    BY <1>1, <1>2, Joined
  <2> HIDE DEF u
  <2> QED BY <1>2, <2>1
<1> HIDE DEF u
<1>6. Len(j) \in Nat /\ Len(u) \in Nat
  BY <1>1, <1>5 DEF Chars
<1>7. x \in Chars /\ Len(x) = Len(j) + 2 /\ x[1] = Open /\ x[Len(j) + 2] = Close
  <2>1. /\ x \in Chars /\ Len(x) = Len(o) + Len(u)
        /\ \A m \in 1 .. Len(o) : x[m] = o[m]
        /\ \A m \in 1 .. Len(u) : x[Len(o) + m] = u[m]
    BY <1>2, <1>5, Joined
  <2> HIDE DEF x
  <2>2. Len(o) + (Len(j) + 1) = Len(j) + 2 /\ Len(j) + 1 \in 1 .. Len(u)
    BY <1>2, <1>5, <1>6
  <2>3. x[Len(o) + (Len(j) + 1)] = Close
    BY <1>5, <2>1, <2>2
  <2> QED BY <1>2, <1>5, <1>6, <2>1, <2>2, <2>3
<1>8. u[1] # Open
  <2>1. CASE j = <<>>
    <3>1. Len(j) + 1 = 1
      BY <2>1
    <3> QED BY <1>5, <3>1, BracketsDiffer
  <2>2. CASE j # <<>>
    <3>1. j[1] = Quote
      BY <1>1, <2>2 DEF Enclosed
    <3>2. 1 \in 1 .. Len(j)
      BY <1>1, <1>6, <2>2 DEF Chars
    <3> QED BY <1>5, <3>1, <3>2, BracketsDiffer
  <2> QED BY <2>1, <2>2
<1>9. j # <<>> => j[1] = Quote /\ j[Len(j)] = Quote
  BY <1>1 DEF Enclosed
<1> DEFINE e == <<>>
<1>10. e \in Chars /\ \A S : All(e, S)
  BY DEF Chars, All
<1> HIDE DEF e
<1>11. e \o x = x /\ x \o e = x
  <2> HIDE DEF x
  <2> QED BY <1>7, GlueNothing DEF e
<1>12. TrimStart(x, {Less}) = x
  <2> HIDE DEF x
  <2>1. TrimStart(e \o x, {Less}) = x
    BY <1>7, <1>10, BracketsDiffer, TrimStartIs
  <2> QED BY <1>11, <2>1
<1>13. TrimEnd(x, {Greater}) = x
  <2> HIDE DEF x
  <2>1. TrimEnd(x \o e, {Greater}) = x
    BY <1>7, <1>10, BracketsDiffer, TrimEndIs
  <2> QED BY <1>11, <2>1
<1>14. TrimStart(x, {Open}) = u
  <2>1. All(o, {Open})
    BY <1>2 DEF All
  <2>2. u # <<>> => u[1] \notin {Open}
    BY <1>8
  <2> QED BY <1>2, <1>5, <2>1, <2>2, TrimStartIs
<1>15. TrimEnd(u, {Close}) = j
  <2>1. All(c, {Close})
    BY <1>2 DEF All
  <2>2. j # <<>> => j[Len(j)] \notin {Close}
    BY <1>9, BracketsDiffer
  <2>3. TrimEnd(j \o c, {Close}) = j
    BY <1>1, <1>2, <2>1, <2>2, TrimEndIs
  <2> QED BY <2>3 DEF u
<1>16. Trim(j) = j
  <2>1. CASE j = <<>>
    <3>1. \A m \in 1 .. Len(j) : j[m] \in White
      BY <2>1
    <3>2. Trim(j) = <<>>
      BY <1>1, <3>1, TrimBlank
    <3> QED BY <2>1, <3>2
  <2>2. CASE j # <<>>
    BY <1>1, <1>9, <2>2, BracketsDiffer, TrimmedEnds
  <2> QED BY <2>1, <2>2
<1> HIDE DEF x
<1>17. Unbracket(x) = j
  BY <1>12, <1>13, <1>14, <1>15, <1>16 DEF Unbracket
<1>18. Tokens(j) = DecodedAll(args)
  BY <1>1 DEF Tokens, At
<1>19. Trim(x) = x
  <2>1. x # <<>>
    BY <1>6, <1>7
  <2> QED BY <1>7, <2>1, BracketsDiffer, TrimmedEnds
<1> QED BY <1>4, <1>7, <1>17, <1>18, <1>19

(* A text without brackets is only trimmed.                                *)
LEMMA Unbracketed ==
  ASSUME NEW t \in Chars, Free(t, {Less, Greater, Open, Close})
  PROVE  Unbracket(t) = Trim(t)
<1> DEFINE e == <<>>
<1>1. e \in Chars /\ \A S : All(e, S)
  BY DEF Chars, All
<1>2. e \o t = t /\ t \o e = t
  BY GlueNothing
<1> HIDE DEF e
<1>3. /\ t # <<>> => 1 \in 1 .. Len(t) /\ Len(t) \in 1 .. Len(t)
  BY DEF Chars
<1>4. t # <<>> => t[1] \notin {Less} /\ t[1] \notin {Open}
                  /\ t[Len(t)] \notin {Greater} /\ t[Len(t)] \notin {Close}
  BY <1>3 DEF Free
<1>5. TrimStart(e \o t, {Less}) = t /\ TrimStart(e \o t, {Open}) = t
  BY <1>1, <1>4, TrimStartIs
<1>6. TrimEnd(t \o e, {Greater}) = t /\ TrimEnd(t \o e, {Close}) = t
  BY <1>1, <1>4, TrimEndIs
<1> QED BY <1>2, <1>5, <1>6 DEF Unbracket

-----------------------------------------------------------------------------
(* What /list prints can be typed again.                                   *)

(* What `/mcp add` takes a line for. *)
Reads(line, s, command, args) ==
  /\ Accepted(line) /\ Name(line) = s
  /\ Added(line).command = command /\ Added(line).args = args

(* What {:?} escapes the tokenizer takes a backslash for: a quote or a     *)
(* backslash for itself, and the code of a symbol for its letters.         *)
LEMMA ListedLine ==
  ASSUME NEW s \in Chars, ValidSlug(s), NEW command \in Chars, OneWord(command),
         NEW args \in Seq(Chars), NEW line,
         line = s \o <<Blank>> \o command \o <<Blank>> \o Listed(args)
  PROVE  Reads(line, s, command, DecodedAll(args))
<1> DEFINE b == <<Blank>>
           z == Listed(args)
           tail == b \o z
           x == command \o tail
           e == <<>>
<1>1. /\ b \in Chars /\ Spaces(b) /\ e \in Chars /\ Spaces(e)
      /\ b \o z = tail
  BY DEF Chars, Symbols, White, Spaces
<1>2. z \in Chars /\ Trim(z) = z /\ Tokens(Unbracket(z)) = DecodedAll(args)
  BY ListedParts
<1>3. command # <<>> /\ Free(command, White)
  BY FindNone DEF OneWord
<1> HIDE DEF b, z, e
<1>4. tail \in Chars /\ tail \o e = tail
  <2>1. tail \in Chars
    BY <1>1, <1>2, Glued
  <2> HIDE DEF tail
  <2> QED BY <2>1, GlueNothing DEF e
<1>5. x \in Chars /\ line = (s \o b) \o x
  <2> DEFINE h == s \o b
  <2>1. h \in Chars
    BY <1>1, Glued
  <2> HIDE DEF h
  <2>2. line = ((h \o command) \o b) \o z
    BY DEF h, b, z
  <2>3. h \o command \in Chars
    BY <2>1, Glued
  <2>4. ((h \o command) \o b) \o z = (h \o command) \o (b \o z)
    BY <1>1, <1>2, <2>3, Regroup
  <2> HIDE DEF tail
  <2>5. (h \o command) \o tail = h \o (command \o tail)
    BY <1>4, <2>1, Regroup
  <2>6. command \o tail \in Chars
    BY <1>4, Glued
  <2> QED BY <1>1, <2>2, <2>4, <2>5, <2>6 DEF h
<1> HIDE DEF tail
<1>6. line \in Chars /\ Closed(line) /\ Name(line) = s /\ Rest(line) = Trim(x)
  <2> HIDE DEF x
  <2> QED BY <1>5, BareLine DEF b
<1>7. Trim(e \o x) = Trim(x)
  <2> HIDE DEF x
  <2> QED BY <1>1, <1>5, TrimLeft
<1> DEFINE r == Trim(e \o x)
<1>8. Gives(r, command, z)
  <2>1. <<Blank>> \o z = tail \o e
    BY <1>1, <1>4 DEF b
  <2>2. command \in Chars /\ tail \in Chars /\ z \in Chars
    BY <1>2, <1>4
  <2> QED BY <1>1, <1>3, <2>1, <2>2, RestParts
<1> HIDE DEF r, x
<1>9. Rest(line) = r
  BY <1>6, <1>7 DEF r
<1>10. Accepted(line)
  <2>1. s # <<>>
    BY SlugFacts
  <2> QED BY <1>3, <1>6, <1>8, <1>9, <2>1 DEF Accepted, Gives
<1>11. Added(line).command = Trim(UpTo(Rest(line), {Blank}))
       /\ Added(line).args = Tokens(Unbracket(Trim(After(Rest(line), {Blank}))))
  BY DEF Added, Entry
<1> QED BY <1>2, <1>6, <1>8, <1>9, <1>10, <1>11 DEF Gives, Reads

(* For every entry whose command is one word, what main.rs:273 prints of   *)
(* it is read by `/mcp add`, main.rs:124, as that entry's name, command    *)
(* and number of arguments, and every argument is read as it is that has   *)
(* no symbol printed as a code.                                            *)
THEOREM ListingsCanBeTyped == Spec => []ListingCanBeTyped
<1>1. TypeOK => ListingCanBeTyped
  <2> SUFFICES ASSUME TypeOK, NEW slug \in DOMAIN config, OneWord(config[slug].command)
               PROVE  LET e == config[slug]
                          line == slug \o <<Blank>> \o e.command \o <<Blank>>
                                    \o Listed(e.args) IN
                      /\ Accepted(line) /\ Name(line) = slug
                      /\ Added(line).command = e.command
                      /\ Len(Added(line).args) = Len(e.args)
                      /\ \A i \in DOMAIN e.args :
                           Find(e.args[i], Coded) = 0 => Added(line).args[i] = e.args[i]
    BY DEF ListingCanBeTyped
  <2> DEFINE e == config[slug]
             line == slug \o <<Blank>> \o e.command \o <<Blank>> \o Listed(e.args)
  <2>1. e \in Entries /\ slug \in Chars /\ ValidSlug(slug)
    BY EntryOf DEF TypeOK
  <2>2. e.command \in Chars /\ e.args \in Seq(Chars) /\ OneWord(e.command)
        /\ DOMAIN e.args = 1 .. Len(e.args)
    BY <2>1 DEF Entries
  <2>3. line = slug \o <<Blank>> \o e.command \o <<Blank>> \o Listed(e.args)
    OBVIOUS
  <2> HIDE DEF e, line
  <2>4. Reads(line, slug, e.command, DecodedAll(e.args))
    BY <2>1, <2>2, <2>3, ListedLine
  <2>5. Len(DecodedAll(e.args)) = Len(e.args)
    BY <2>2 DEF DecodedAll
  <2>6. ASSUME NEW i \in 1 .. Len(e.args), Find(e.args[i], Coded) = 0
        PROVE  DecodedAll(e.args)[i] = e.args[i]
    <3>1. e.args[i] \in Chars
      BY <2>2, ElementOfSeq
    <3>2. Free(e.args[i], Coded)
      BY <2>6, <3>1, FindNone
    <3>3. Decoded(e.args[i]) = e.args[i]
      BY <3>1, <3>2, DecodedLaw DEF Symbols, White
    <3>4. DecodedAll(e.args)[i] = Decoded(e.args[i])
      BY <2>2 DEF DecodedAll
    <3> QED BY <3>3, <3>4
  <2> QED BY <2>2, <2>4, <2>5, <2>6 DEF e, line, Reads
<1> QED BY <1>1, TypeCorrect, PTL

-----------------------------------------------------------------------------
(* Words without quotes.                                                   *)

(* A line whose parts are put together in another order.                   *)
Regrouped(w, b, command, a) ==
  /\ ((w \o b) \o command) \o a = (w \o b) \o (command \o a)
  /\ ((w \o b) \o command) \o a = w \o (b \o (command \o a))
  /\ b \o (command \o a) \in Chars

LEMMA Spaced ==
  ASSUME NEW w \in Chars, NEW b \in Chars, NEW command \in Chars, NEW a \in Chars
  PROVE  Regrouped(w, b, command, a)
<1> DEFINE h == w \o b
           x == command \o a
<1>1. h \in Chars /\ x \in Chars
  BY Glued
<1>2. b \o x \in Chars
  <2> HIDE DEF x
  <2> QED BY <1>1, Glued
<1>3. (h \o command) \o a = h \o x
  <2> HIDE DEF h
  <2> QED BY <1>1, Regroup, SMTT(30)
<1>4. h \o x = w \o (b \o x)
  <2> HIDE DEF x
  <2> QED BY <1>1, Regroup, SMTT(30)
<1> QED BY <1>2, <1>3, <1>4 DEF Regrouped

Says(line, s, command, text) ==
  Name(line) = s /\ Gives(Rest(line), command, text)

(* What `/mcp add` reads from a trimmed line that begins with a word for a *)
(* name.                                                                   *)
LEMMA WordLine ==
  ASSUME NEW s \in Chars, ValidSlug(s), NEW w \in {s, <<Quote>> \o s \o <<Quote>>},
         NEW command \in Chars, command # <<>>, Free(command, White),
         NEW a \in Chars, NEW text \in Chars, NEW y \in Chars, Spaces(y),
         <<Blank>> \o text = a \o y,
         NEW line, line = ((w \o <<Blank>>) \o command) \o a
  PROVE  Says(line, s, command, text)
<1> DEFINE b == <<Blank>>
           q == <<Quote>> \o s \o <<Quote>>
           x == command \o a
           e == <<>>
<1>1. b \in Chars /\ Spaces(b) /\ e \in Chars /\ Spaces(e) /\ q \in Chars
  <2> DEFINE o == <<Quote>>
  <2>1. o \in Chars
    BY DEF Chars, Symbols, White
  <2> HIDE DEF o
  <2>2. o \o s \in Chars
    BY <2>1, Glued
  <2>3. (o \o s) \o o \in Chars
    BY <2>1, <2>2, Glued
  <2>4. q \in Chars
    BY <2>3 DEF o
  <2> HIDE DEF q
  <2> QED BY <2>4 DEF Chars, Symbols, White, Spaces
<1>2. w \in Chars /\ (w = s \/ w = q)
  BY <1>1
<1>3. x \in Chars
  BY Glued
<1> HIDE DEF b, q, e
<1>4. line = (w \o b) \o x /\ line = w \o (b \o x) /\ b \o x \in Chars
  <2>1. line = ((w \o b) \o command) \o a
    BY DEF b
  <2>2. b \in Chars /\ w \in Chars
    BY <1>1, <1>2
  <2>3. Regrouped(w, b, command, a)
    BY <2>2, Spaced
  <2> QED BY <2>1, <2>3 DEF Regrouped
<1>5. Gives(Trim(e \o x), command, text) /\ Gives(Trim(b \o x), command, text)
  BY <1>1, RestParts
<1> HIDE DEF x
<1>6. CASE w = s
  <2>1. Name(line) = s /\ Rest(line) = Trim(x)
    BY <1>3, <1>4, <1>6, BareLine DEF b
  <2>2. Trim(e \o x) = Trim(x)
    BY <1>1, <1>3, TrimLeft
  <2> QED BY <1>5, <2>1, <2>2 DEF Says
<1>7. CASE w = q
  <2> DEFINE v == b \o x
  <2>1. v \in Chars /\ line = q \o v
    BY <1>4, <1>7
  <2> HIDE DEF v
  <2>2. Name(line) = s /\ Rest(line) = Trim(v)
    BY <2>1, QuotedLine DEF q
  <2> QED BY <1>5, <2>2 DEF v, Says
<1> QED BY <1>2, <1>6, <1>7

(* The line that is typed, without the blanks around it.                   *)
LEMMA TypedLine ==
  ASSUME NEW s \in Chars, ValidSlug(s), NEW w \in {s, <<Quote>> \o s \o <<Quote>>},
         NEW command \in Chars, command # <<>>, Free(command, White),
         NEW text \in Chars,
         NEW line, line = Trim(w \o <<Blank>> \o command \o <<Blank>> \o text)
  PROVE  Says(line, s, command, text)
<1> DEFINE b == <<Blank>>
           q == <<Quote>> \o s \o <<Quote>>
           h == (w \o b) \o command
           t == b \o text
<1>1. /\ w \in Chars /\ Len(w) \in Nat \ {0} /\ w[1] \notin White
  <2>1. /\ Len(s) \in Nat \ {0} /\ s # <<>>
        /\ \A m \in 1 .. Len(s) : s[m] \notin White /\ s[m] # Quote
    BY SlugFacts
  <2>2. CASE w = s
    BY <2>1, <2>2
  <2>3. CASE w = q
    <3> DEFINE o == <<Quote>>
               p == o \o s
    <3>1. o \in Chars /\ Len(o) = 1 /\ o[1] = Quote
      BY DEF Chars, Symbols, White
    <3> HIDE DEF o
    <3>2. p \in Chars /\ Len(p) = Len(o) + Len(s) /\ \A m \in 1 .. Len(o) : p[m] = o[m]
      BY <3>1, Joined
    <3>3. q = p \o o
      BY DEF o
    <3> HIDE DEF p, q
    <3>4. p \o o \in Chars /\ Len(p \o o) = Len(p) + Len(o)
          /\ \A m \in 1 .. Len(p) : (p \o o)[m] = p[m]
      BY <3>1, <3>2, Joined
    <3>5. q \in Chars /\ Len(q) = Len(p) + Len(o) /\ \A m \in 1 .. Len(p) : q[m] = p[m]
      BY <3>3, <3>4, Zenon
    <3>6. 1 \in 1 .. Len(o) /\ 1 \in 1 .. Len(p) /\ Len(p) + Len(o) \in Nat \ {0}
      BY <2>1, <3>1, <3>2
    <3>7. q[1] = Quote
      BY <3>1, <3>2, <3>5, <3>6
    <3> QED BY <2>3, <3>5, <3>6, <3>7, BracketsDiffer
  <2> QED BY <2>2, <2>3
<1>2. b \in Chars /\ Len(b) = 1
  BY DEF Chars, Symbols, White
<1>3. Len(command) \in Nat \ {0} /\ command[Len(command)] \notin White
  <2>1. Len(command) \in Nat \ {0}
    BY DEF Chars
  <2> QED BY <2>1 DEF Free
<1> HIDE DEF b
<1>4. h \in Chars /\ h # <<>> /\ h[1] \notin White /\ h[Len(h)] \notin White
  <2> DEFINE v == w \o b
  <2>1. v \in Chars /\ Len(v) = Len(w) + Len(b) /\ \A m \in 1 .. Len(w) : v[m] = w[m]
    BY <1>1, <1>2, Joined
  <2> HIDE DEF v
  <2>2. h = v \o command
    BY DEF v
  <2> HIDE DEF h
  <2>3. /\ v \o command \in Chars /\ Len(v \o command) = Len(v) + Len(command)
        /\ \A m \in 1 .. Len(v) : (v \o command)[m] = v[m]
        /\ \A m \in 1 .. Len(command) : (v \o command)[Len(v) + m] = command[m]
    BY <2>1, Joined
  <2>4. /\ h \in Chars /\ Len(h) = Len(v) + Len(command)
        /\ \A m \in 1 .. Len(v) : h[m] = v[m]
        /\ \A m \in 1 .. Len(command) : h[Len(v) + m] = command[m]
    BY <2>2, <2>3, Zenon
  <2>5. 1 \in 1 .. Len(w) /\ 1 \in 1 .. Len(v) /\ Len(command) \in 1 .. Len(command)
        /\ Len(h) # 0
    BY <1>1, <1>2, <1>3, <2>1, <2>4
  <2>6. h[1] = w[1] /\ h[Len(h)] = command[Len(command)]
    BY <2>1, <2>4, <2>5
  <2> QED BY <1>1, <1>3, <2>4, <2>5, <2>6
<1>5. t \in Chars
  BY <1>2, Glued
<1>6. line = Trim(h \o t)
  <2>1. (h \o b) \o text = h \o (b \o text)
    BY <1>2, <1>4, Regroup, ZenonT(40)
  <2>2. line = Trim((h \o b) \o text)
    BY DEF b
  <2> QED BY <2>1, <2>2
<1> HIDE DEF h, t
<1>7. PICK a \in Chars, y \in Chars :
        Spaces(y) /\ t = a \o y /\ Trim(h \o t) = h \o a
  BY <1>4, <1>5, TrimTail
<1>8. <<Blank>> \o text = a \o y /\ line = ((w \o <<Blank>>) \o command) \o a
  BY <1>6, <1>7 DEF h, t, b
<1> QED BY <1>7, <1>8, WordLine

(* What is added without quotes and brackets.                              *)
LEMMA AddingSplitsWords ==
  ASSUME NEW word \in Word, NEW command \in Command, NEW text \in Text,
         TypeAdd(word, command, text)
  PROVE  BareWordsSplit'
<1> DEFINE line == Trim(word \o <<Blank>> \o command \o <<Blank>> \o text)
           S == {Quote, Less, Greater, Open, Close}
           s == Name(line)
<1>1. /\ ValidSlug(s) /\ config' = Insert(config, s, Added(line))
      /\ typed' = [word |-> word, name |-> s, command |-> command, text |-> text]
  BY DEF TypeAdd, Accepted
<1>2. word \in Chars /\ command \in Chars /\ text \in Chars
  BY TypedText
<1>3. s \in Chars
  <2> DEFINE b == <<Blank>>
  <2>1. b \in Chars
    BY DEF Chars, Symbols, White
  <2> HIDE DEF b
  <2>2. word \o b \in Chars
    BY <1>2, <2>1, Glued
  <2>3. word \o b \o command \in Chars
    BY <1>2, <2>2, Glued
  <2>4. word \o b \o command \o b \in Chars
    BY <2>1, <2>3, Glued
  <2>5. word \o b \o command \o b \o text \in Chars
    BY <1>2, <2>4, Glued
  <2>6. line \in Chars
    BY <2>5, TrimText DEF b
  <2> HIDE DEF line
  <2> QED BY <2>6, NameText
<1>4. line = Trim(word \o <<Blank>> \o command \o <<Blank>> \o text)
  OBVIOUS
<1> HIDE DEF line, s
<1>5. config'[s] = Added(line)
  BY <1>1 DEF Insert
<1> SUFFICES ASSUME OneWord(command), ToDisable(word) = s, Find(text, S) = 0
             PROVE  config'[s].args = NonEmpty(Split(text, Separators))
  BY <1>1 DEF BareWordsSplit
<1>6. command # <<>> /\ Free(command, White) /\ Free(text, S)
  BY <1>2, FindNone DEF OneWord
<1>7. word \in {s, <<Quote>> \o s \o <<Quote>>}
  BY <1>1, <1>2, <1>3, WordsOfName
<1>8. Says(line, s, command, text)
  BY <1>1, <1>2, <1>3, <1>4, <1>6, <1>7, TypedLine
<1>9. Added(line).args = Tokens(Unbracket(Trim(After(Rest(line), {Blank}))))
  BY DEF Added, Entry
<1>10. Trim(After(Rest(line), {Blank})) = Trim(text)
  BY <1>8 DEF Says, Gives
<1>11. Unbracket(Trim(text)) = Trim(text)
  <2>1. Trim(text) \in Chars /\ Trim(Trim(text)) = Trim(text)
    BY <1>2, TrimTrim
  <2>2. Free(Trim(text), S)
    BY <1>2, <1>6, TrimFree
  <2>3. Free(Trim(text), {Less, Greater, Open, Close})
    BY <2>2 DEF Free
  <2> QED BY <2>1, <2>3, Unbracketed
<1>12. Free(text, {Quote})
  BY <1>6 DEF Free
<1>13. Tokens(Trim(text)) = NonEmpty(Split(text, Separators))
  <2>1. Tokens(Trim(text)) = Tokens(text)
    BY <1>2, <1>12, TokensTrim
  <2>2. Tokens(text) = NonEmpty(Split(text, Separators))
    BY <1>2, <1>12, BareTokens
  <2> QED BY <2>1, <2>2
<1> QED BY <1>5, <1>9, <1>10, <1>11, <1>13

(* "Supports quotes/commas for args", routes.rs:405: whatever is added     *)
(* without quotes and brackets has for arguments just what lies between    *)
(* white space and commas.                                                 *)
THEOREM BareWordsAreSplit == Spec => []BareWordsSplit
<1>1. Init => BareWordsSplit
  BY DEF Init, BareWordsSplit
<1>2. BareWordsSplit /\ [Next]_vars => BareWordsSplit'
  <2> SUFFICES ASSUME BareWordsSplit, [Next]_vars PROVE BareWordsSplit'
    OBVIOUS
  <2>1. ASSUME NEW word \in Word, NEW command \in Command, NEW text \in Text,
               TypeAdd(word, command, text)
        PROVE  BareWordsSplit'
    BY <2>1, AddingSplitsWords
  <2>2. CASE typed' = typed /\ config' = config
    BY <2>2 DEF BareWordsSplit
  <2>3. CASE typed' = NoAdd
    BY <2>3 DEF BareWordsSplit
  <2>4. CASE \E word \in Word : TypeDisable(word)
    BY <2>3, <2>4 DEF TypeDisable
  <2>5. ASSUME NEW word \in Word, NEW command \in Command, NEW text \in Text,
               NEW dir \in Dir, FillForm(word, command, text, dir)
        PROVE  BareWordsSplit'
    BY <2>2, <2>5 DEF FillForm
  <2>6. CASE \E slug \in DOMAIN config : OpenForm(slug)
    BY <2>2, <2>6 DEF OpenForm
  <2>7. CASE SaveForm
    BY <2>3, <2>7 DEF SaveForm
  <2>8. CASE CloseForm
    BY <2>2, <2>8 DEF CloseForm
  <2>9. CASE UNCHANGED vars
    BY <2>2, <2>9 DEF vars
  <2> QED BY <2>1, <2>4, <2>5, <2>6, <2>7, <2>8, <2>9 DEF Next
<1> QED BY <1>1, <1>2, PTL DEF Spec
================================================================================
