------------------------------ MODULE Wire_proofs ------------------------------
(* Proofs about the line protocol.  What a loop over a sequence computes is      *)
(* shown by induction over the sequence, from the fact that a set of numbers     *)
(* has a least element.                                                          *)
EXTENDS Wire, SequenceTheorems, WellFoundedInduction, TLAPS

-------------------------------------------------------------------------------
(* Induction and recursion. *)

LEMMA LeastNumber ==
    ASSUME NEW T, T \subseteq Nat, T # {}
    PROVE  \E x \in T : \A y \in T : x <= y
<1> DEFINE R == {ss \in Nat \X Nat : ss[1] < ss[2]}
<1>1. IsWellFoundedOn(R, Nat)
  BY NatLessThanWellFounded DEF OpToRel
<1>2. \A x, y \in Nat : y < x => <<y, x>> \in R
  OBVIOUS
<1> HIDE DEF R
<1>3. PICK x \in T : \A y \in T : ~(<<y, x>> \in R)
  BY <1>1, WFMin
<1>4. ASSUME NEW y \in T PROVE x <= y
  <2>1. x \in Nat /\ y \in Nat
    OBVIOUS
  <2>2. ~(<<y, x>> \in R)
    BY <1>3
  <2>3. ~(y < x)
    BY <2>1, <2>2, <1>2
  <2> QED
    BY <2>1, <2>3
<1> QED
  BY <1>4

\* A set that holds 0, and with each number its successor, holds all of them.
LEMMA Induction ==
    ASSUME NEW P, 0 \in P, \A n \in Nat : n \in P => n + 1 \in P
    PROVE  \A n \in Nat : n \in P
<1> SUFFICES ASSUME Nat \ P # {} PROVE FALSE
  OBVIOUS
<1>1. PICK x \in Nat \ P : \A y \in Nat \ P : x <= y
  BY LeastNumber
<1>2. x # 0 /\ x - 1 \in Nat /\ x - 1 \in P
  BY <1>1
<1> QED
  BY <1>1, <1>2

\* The same for sequences, by their last element.
LEMMA SeqInduction ==
    ASSUME NEW S, NEW P, << >> \in P,
           \A s \in Seq(S), e \in S : s \in P => Append(s, e) \in P
    PROVE  \A s \in Seq(S) : s \in P
<1> DEFINE N == {n \in Nat : \A s \in Seq(S) : Len(s) = n => s \in P}
<1>1. 0 \in N
  BY EmptySeq
<1>2. ASSUME NEW n \in Nat, n \in N PROVE n + 1 \in N
  <2> SUFFICES ASSUME NEW s \in Seq(S), Len(s) = n + 1 PROVE s \in P
    OBVIOUS
  <2>1. PICK r \in Seq(S), e \in S : s = Append(r, e)
    BY SequenceEmptyOrAppend, EmptySeq
  <2>2. Len(r) = n
    BY <2>1, AppendProperties, LenProperties
  <2> QED
    BY <1>2, <2>1, <2>2
<1> HIDE DEF N
<1>3. \A n \in Nat : n \in N
  BY <1>1, <1>2, Induction
<1> QED
  BY <1>3, LenProperties DEF N

\* There is a function that runs through the values of a loop: n steps from a.
Loop(n, X, a, step) ==
    /\ n \in Nat
    /\ a \in X
    /\ \A i \in 1 .. n, x \in X : step[<<i, x>>] \in X

Values(n, X, a, step) ==
    {g \in [0 .. n -> X] : g[0] = a /\ \A i \in 1 .. n : g[i] = step[<<i, g[i - 1]>>]}

LEMMA Recursion ==
    ASSUME NEW n, NEW X, NEW a, NEW step, Loop(n, X, a, step)
    PROVE  \E g : g \in Values(n, X, a, step)
<1> USE DEF Loop
<1> DEFINE Runs(m, g) ==
              g[0] = a /\ \A i \in 1 .. m : g[i] = step[<<i, g[i - 1]>>]
           P == {m \in Nat : m <= n => \E g \in [0 .. m -> X] : Runs(m, g)}
<1>1. 0 \in P
  <2>1. [i \in 0 .. 0 |-> a] \in [0 .. 0 -> X] /\ Runs(0, [i \in 0 .. 0 |-> a])
    OBVIOUS
  <2> QED
    BY <2>1
<1>2. ASSUME NEW m \in Nat, m \in P PROVE m + 1 \in P
  <2> SUFFICES ASSUME m + 1 <= n
               PROVE  \E g \in [0 .. m + 1 -> X] : Runs(m + 1, g)
    OBVIOUS
  <2>1. PICK g \in [0 .. m -> X] : Runs(m, g)
    BY <1>2
  <2> DEFINE h == [i \in 0 .. m + 1 |-> IF i <= m THEN g[i] ELSE step[<<m + 1, g[m]>>]]
  <2>2. h \in [0 .. m + 1 -> X]
    OBVIOUS
  <2>3. Runs(m + 1, h)
    <3>1. h[0] = a /\ h[m + 1] = step[<<m + 1, h[m]>>]
      <4>1. h[0] = g[0] /\ h[m] = g[m]
        OBVIOUS
      <4>2. m + 1 \in 0 .. m + 1 /\ ~(m + 1 <= m)
        OBVIOUS
      <4>3. h[m + 1] = step[<<m + 1, g[m]>>]
        BY <4>2
      <4> QED
        BY <2>1, <4>1, <4>3
    <3>2. ASSUME NEW i \in 1 .. m + 1, i # m + 1
          PROVE  h[i] = step[<<i, h[i - 1]>>]
      <4>1. i \in 1 .. m /\ i - 1 \in 0 .. m
        BY <3>2
      <4>2. h[i] = g[i] /\ h[i - 1] = g[i - 1]
        BY <4>1
      <4> QED
        BY <2>1, <4>1, <4>2
    <3>3. m = (m + 1) - 1 /\ m + 1 \in 1 .. m + 1
      OBVIOUS
    <3> HIDE DEF h
    <3> QED
      BY <3>1, <3>2, <3>3
  <2> QED
    BY <2>2, <2>3
<1> HIDE DEF P
<1>3. n \in P
  BY <1>1, <1>2, Induction
<1> QED
  BY <1>3 DEF P, Values

\* Two runs that go on alike end alike.
LEMMA Agreement ==
    ASSUME NEW n \in Nat, NEW f, NEW g, f[0] = g[0],
           \A i \in 1 .. n : f[i - 1] = g[i - 1] => f[i] = g[i]
    PROVE  f[n] = g[n]
<1> DEFINE P == {m \in Nat : m <= n => f[m] = g[m]}
<1>1. 0 \in P
  OBVIOUS
<1>2. ASSUME NEW m \in Nat, m \in P PROVE m + 1 \in P
  <2> SUFFICES ASSUME m + 1 <= n PROVE f[m + 1] = g[m + 1]
    OBVIOUS
  <2>1. f[(m + 1) - 1] = g[(m + 1) - 1]
    BY <1>2
  <2> QED
    BY <2>1
<1> HIDE DEF P
<1>3. n \in P
  BY <1>1, <1>2, Induction
<1> QED
  BY <1>3 DEF P

LEMMA ConcatAppend ==
    ASSUME NEW S, NEW x \in Seq(S), NEW y \in Seq(S), NEW e \in S
    PROVE  x \o Append(y, e) = Append(x \o y, e)
<1>1. <<e>> \in Seq(S)
  OBVIOUS
<1>2. Append(y, e) = y \o <<e>>
  BY AppendIsConcat
<1>3. x \o y \in Seq(S)
  BY ConcatProperties
<1>4. Append(x \o y, e) = (x \o y) \o <<e>>
  BY <1>3, AppendIsConcat
<1>5. (x \o y) \o <<e>> = x \o (y \o <<e>>)
  BY <1>1, ConcatAssociative
<1> QED
  BY <1>2, <1>4, <1>5

LEMMA Regroup ==
    ASSUME NEW S, NEW x \in Seq(S), NEW y \in Seq(S), NEW z \in Seq(S),
           NEW xy, xy = x \o y, NEW yz, yz = y \o z
    PROVE  xy \o z = x \o yz
BY ConcatAssociative

-------------------------------------------------------------------------------
(* Escapes. *)

LEMMA CodeFacts ==
    /\ DOMAIN Code = {"CR", "LF", "NUL", "COMMA", "TAB", "SPACE", "BSLASH"}
    /\ \A b \in DOMAIN Code :
          Code[b] \in Bytes \ LineEnds /\ Code[b] # "SPACE" /\ b \in Bytes
    /\ \A b, c \in DOMAIN Code : Code[b] = Code[c] => b = c
    /\ \A b \in DOMAIN Code : Decode(Code[b]) = b
    /\ "BSLASH" \in Bytes \ LineEnds
<1>1. DOMAIN Code = {"CR", "LF", "NUL", "COMMA", "TAB", "SPACE", "BSLASH"}
  BY DEF Code
<1>2. \A b \in DOMAIN Code : Code[b] \in Bytes /\ b \in Bytes
  BY BytesAssumption
<1>3. \A b \in DOMAIN Code : Code[b] \notin LineEnds /\ Code[b] # "SPACE"
  BY <1>1 DEF Code, LineEnds
<1>4. \A b, c \in DOMAIN Code : Code[b] = Code[c] => b = c
  BY <1>1 DEF Code
<1>5. \A b \in DOMAIN Code : Decode(Code[b]) = b
  BY <1>4 DEF Decode
<1> QED
  BY <1>1, <1>2, <1>3, <1>4, <1>5 DEF LineEnds

LEMMA EscapeByteType ==
    ASSUME NEW b \in Bytes
    PROVE  EscapeByte(b) \in Seq(Bytes \ LineEnds)
<1> DEFINE X == Bytes \ LineEnds
<1>1. CASE b \in DOMAIN Code
  <2>1. "BSLASH" \in X /\ Code[b] \in X
    BY <1>1, CodeFacts
  <2> HIDE DEF X
  <2>2. <<"BSLASH", Code[b]>> \in Seq(X)
    BY <2>1
  <2> QED
    BY <1>1, <2>2 DEF EscapeByte, X
<1>2. CASE b \notin DOMAIN Code
  <2>1. b \in X
    BY <1>2, CodeFacts DEF LineEnds
  <2> HIDE DEF X
  <2>2. <<b>> \in Seq(X)
    BY <2>1
  <2> QED
    BY <1>2, <2>2 DEF EscapeByte, X
<1> QED
  BY <1>1, <1>2

\* The values of the loop of escape.
EscapeRun(token, f) ==
    /\ f \in [0 .. Len(token) -> Seq(Bytes \ LineEnds)]
    /\ f[0] = << >>
    /\ \A n \in 1 .. Len(token) : f[n] = f[n - 1] \o EscapeByte(token[n])
    /\ Escape(token) = f[Len(token)]

LEMMA EscapeRuns ==
    ASSUME NEW token \in Seq(Bytes)
    PROVE  \E f : EscapeRun(token, f)
<1> DEFINE X == Seq(Bytes \ LineEnds)
           n == Len(token)
           step == [p \in (1 .. n) \X X |-> p[2] \o EscapeByte(token[p[1]])]
           body(f) == [i \in 0 .. n |-> IF i = 0 THEN << >>
                                        ELSE f[i - 1] \o EscapeByte(token[i])]
<1>1. n \in Nat /\ << >> \in X
  BY EmptySeq, LenProperties
<1>2. \A i \in 1 .. n, x \in X :
         step[<<i, x>>] = x \o EscapeByte(token[i]) /\ step[<<i, x>>] \in X
  <2> SUFFICES ASSUME NEW i \in 1 .. n, NEW x \in X
               PROVE  /\ step[<<i, x>>] = x \o EscapeByte(token[i])
                      /\ step[<<i, x>>] \in X
    OBVIOUS
  <2>1. step[<<i, x>>] = x \o EscapeByte(token[i])
    OBVIOUS
  <2>2. token[i] \in Bytes
    BY ElementOfSeq
  <2>3. EscapeByte(token[i]) \in X
    BY <2>2, EscapeByteType
  <2>4. x \o EscapeByte(token[i]) \in X
    BY <2>3, ConcatProperties
  <2> QED
    BY <2>1, <2>4
<1> HIDE DEF step, X
<1>3. PICK g \in [0 .. n -> X] :
         g[0] = << >> /\ \A i \in 1 .. n : g[i] = step[<<i, g[i - 1]>>]
  <2>1. Loop(n, X, << >>, step)
    BY <1>1, <1>2 DEF Loop
  <2>2. PICK g : g \in Values(n, X, << >>, step)
    BY <2>1, Recursion
  <2> QED
    BY <2>2 DEF Values
<1>4. \A i \in 1 .. n : g[i] = g[i - 1] \o EscapeByte(token[i])
  <2> SUFFICES ASSUME NEW i \in 1 .. n
               PROVE  g[i] = g[i - 1] \o EscapeByte(token[i])
    OBVIOUS
  <2>1. g[i - 1] \in X
    BY <1>1
  <2>2. step[<<i, g[i - 1]>>] = g[i - 1] \o EscapeByte(token[i])
    BY <1>2, <2>1
  <2>3. g[i] = step[<<i, g[i - 1]>>]
    BY <1>3
  <2> QED
    BY <2>2, <2>3, Zenon
<1>5. g = body(g)
  BY <1>1, <1>3, <1>4
<1>6. PICK f : f = body(f) /\ Escape(token) = f[n]
  <2> DEFINE f == CHOOSE f : f = body(f)
  <2>1. f = body(f)
    BY <1>5
  <2>2. Escape(token) = f[n]
    BY DEF Escape
  <2> QED
    BY <2>1, <2>2
<1>7. f[0] = << >> /\ \A i \in 1 .. n : f[i] = f[i - 1] \o EscapeByte(token[i])
  BY <1>1, <1>6
<1>8. \A i \in 0 .. n : f[i] = g[i]
  <2> SUFFICES ASSUME NEW i \in 0 .. n PROVE f[i] = g[i]
    OBVIOUS
  <2> HIDE DEF n
  <2>1. i \in Nat /\ f[0] = g[0]
    BY <1>1, <1>3, <1>7
  <2>2. ASSUME NEW j \in 1 .. i, f[j - 1] = g[j - 1] PROVE f[j] = g[j]
    <3>1. j \in 1 .. n
      BY <1>1
    <3> QED
      BY <1>4, <1>7, <2>2, <3>1
  <2> QED
    BY <2>1, <2>2, Agreement
<1>9. f = g
  BY <1>3, <1>6, <1>8
<1> QED
  BY <1>1, <1>3, <1>4, <1>6, <1>9 DEF EscapeRun, X

LEMMA EscapeType ==
    ASSUME NEW token \in Seq(Bytes)
    PROVE  Escape(token) \in Seq(Bytes \ LineEnds)
<1>1. PICK f : EscapeRun(token, f)
  BY EscapeRuns
<1>2. Len(token) \in 0 .. Len(token)
  BY LenProperties
<1> QED
  BY <1>1, <1>2 DEF EscapeRun

LEMMA EscapeEmpty == Escape(<< >>) = << >>
<1>1. << >> \in Seq(Bytes) /\ Len(<< >>) = 0
  BY EmptySeq
<1>2. PICK f : EscapeRun(<< >>, f)
  BY <1>1, EscapeRuns
<1> QED
  BY <1>1, <1>2 DEF EscapeRun

LEMMA EscapeAppend ==
    ASSUME NEW token \in Seq(Bytes), NEW b \in Bytes
    PROVE  Escape(Append(token, b)) = Escape(token) \o EscapeByte(b)
<1> DEFINE n == Len(token)
           longer == Append(token, b)
<1>1. /\ n \in Nat
      /\ longer \in Seq(Bytes)
      /\ Len(longer) = n + 1
      /\ \A i \in 1 .. n : longer[i] = token[i]
      /\ longer[n + 1] = b
  BY AppendProperties, LenProperties
<1> HIDE DEF n, longer
<1>2. PICK f : EscapeRun(token, f)
  BY EscapeRuns
<1>3. PICK g : EscapeRun(longer, g)
  BY <1>1, EscapeRuns
<1>4. f[n] = g[n]
  <2>1. f[0] = g[0]
    BY <1>2, <1>3 DEF EscapeRun
  <2>2. ASSUME NEW i \in 1 .. n, f[i - 1] = g[i - 1] PROVE f[i] = g[i]
    <3>1. i \in 1 .. Len(longer) /\ i \in 1 .. Len(token) /\ longer[i] = token[i]
      BY <1>1 DEF n
    <3>2. /\ f[i] = f[i - 1] \o EscapeByte(token[i])
          /\ g[i] = g[i - 1] \o EscapeByte(longer[i])
      BY <1>2, <1>3, <3>1 DEF EscapeRun
    <3> QED
      BY <2>2, <3>1, <3>2
  <2> QED
    BY <1>1, <2>1, <2>2, Agreement
<1>5. g[n + 1] = g[n] \o EscapeByte(b)
  <2>1. n + 1 \in 1 .. Len(longer) /\ (n + 1) - 1 = n
    BY <1>1
  <2> QED
    BY <1>1, <1>3, <2>1 DEF EscapeRun
<1> QED
  BY <1>1, <1>2, <1>3, <1>4, <1>5 DEF EscapeRun, n, longer

-------------------------------------------------------------------------------
(* Lines. *)

Line == Seq(Bytes \ LineEnds) \ {<< >>}

FeedState == [lines: Seq(Line), buffer: Seq(Bytes \ LineEnds)]

Unfed == [lines |-> << >>, buffer |-> << >>]

LEMMA FedType ==
    ASSUME NEW fed \in FeedState, NEW b \in Bytes
    PROVE  Fed(fed, b) \in FeedState
<1>1. CASE b \notin LineEnds
  <2>1. Append(fed.buffer, b) \in Seq(Bytes \ LineEnds)
    BY <1>1, AppendProperties DEF FeedState
  <2> QED
    BY <1>1, <2>1 DEF FeedState, Fed
<1>2. CASE b \in LineEnds
  <2>1. << >> \in Seq(Bytes \ LineEnds)
    BY EmptySeq
  <2>2. fed.lines \in Seq(Line) /\ fed.buffer \in Seq(Bytes \ LineEnds)
    BY DEF FeedState
  <2>3. ASSUME ~Blank(fed.buffer)
        PROVE  Append(fed.lines, fed.buffer) \in Seq(Line)
    <3>1. fed.buffer \in Line
      BY <2>2, <2>3 DEF Blank, Line
    <3> QED
      BY <2>2, <3>1, AppendProperties
  <2> QED
    BY <1>2, <2>1, <2>2, <2>3 DEF FeedState, Fed
<1> QED
  BY <1>1, <1>2

\* The values of the loop of feed.
FeedRun(s, f) ==
    /\ f \in [0 .. Len(s) -> FeedState]
    /\ f[0] = Unfed
    /\ \A n \in 1 .. Len(s) : f[n] = Fed(f[n - 1], s[n])
    /\ Feed(s) = f[Len(s)]

LEMMA FeedRuns ==
    ASSUME NEW s \in Seq(Bytes)
    PROVE  \E f : FeedRun(s, f)
<1> DEFINE n == Len(s)
           step == [p \in (1 .. n) \X FeedState |-> Fed(p[2], s[p[1]])]
           body(f) == [i \in 0 .. n |-> IF i = 0 THEN Unfed ELSE Fed(f[i - 1], s[i])]
<1>1. n \in Nat /\ Unfed \in FeedState
  BY EmptySeq, LenProperties DEF Unfed, FeedState
<1>2. \A i \in 1 .. n, x \in FeedState :
         step[<<i, x>>] = Fed(x, s[i]) /\ step[<<i, x>>] \in FeedState
  <2> SUFFICES ASSUME NEW i \in 1 .. n, NEW x \in FeedState
               PROVE  /\ step[<<i, x>>] = Fed(x, s[i])
                      /\ step[<<i, x>>] \in FeedState
    OBVIOUS
  <2>1. step[<<i, x>>] = Fed(x, s[i])
    OBVIOUS
  <2>2. s[i] \in Bytes
    BY ElementOfSeq
  <2> QED
    BY <2>1, <2>2, FedType
<1> HIDE DEF step
<1>3. PICK g \in [0 .. n -> FeedState] :
         g[0] = Unfed /\ \A i \in 1 .. n : g[i] = step[<<i, g[i - 1]>>]
  <2>1. Loop(n, FeedState, Unfed, step)
    BY <1>1, <1>2 DEF Loop
  <2>2. PICK g : g \in Values(n, FeedState, Unfed, step)
    BY <2>1, Recursion
  <2> QED
    BY <2>2 DEF Values
<1>4. \A i \in 1 .. n : g[i] = Fed(g[i - 1], s[i])
  <2> SUFFICES ASSUME NEW i \in 1 .. n PROVE g[i] = Fed(g[i - 1], s[i])
    OBVIOUS
  <2>1. g[i - 1] \in FeedState
    BY <1>1
  <2> QED
    BY <1>2, <1>3, <2>1
<1>5. g = body(g)
  BY <1>1, <1>3, <1>4
<1>6. PICK f : f = body(f) /\ Feed(s) = f[n]
  <2> DEFINE f == CHOOSE f : f = body(f)
  <2>1. f = body(f)
    BY <1>5
  <2>2. Feed(s) = f[n]
    BY DEF Feed, Unfed
  <2> QED
    BY <2>1, <2>2
<1>7. f[0] = Unfed /\ \A i \in 1 .. n : f[i] = Fed(f[i - 1], s[i])
  <2>1. \A i \in 0 .. n : f[i] = IF i = 0 THEN Unfed ELSE Fed(f[i - 1], s[i])
    BY <1>6, Zenon
  <2> HIDE DEF n
  <2>2. 0 \in 0 .. n /\ \A i \in 1 .. n : i \in 0 .. n /\ i # 0
    BY <1>1
  <2> QED
    BY <2>1, <2>2, Zenon
<1>8. \A i \in 0 .. n : f[i] = g[i]
  <2> SUFFICES ASSUME NEW i \in 0 .. n PROVE f[i] = g[i]
    OBVIOUS
  <2> HIDE DEF n
  <2>1. i \in Nat /\ f[0] = g[0]
    BY <1>1, <1>3, <1>7
  <2>2. ASSUME NEW j \in 1 .. i, f[j - 1] = g[j - 1] PROVE f[j] = g[j]
    <3>1. j \in 1 .. n
      BY <1>1
    <3> QED
      BY <1>4, <1>7, <2>2, <3>1
  <2> QED
    BY <2>1, <2>2, Agreement
<1>9. f = g
  BY <1>3, <1>6, <1>8
<1> QED
  BY <1>1, <1>3, <1>4, <1>6, <1>9 DEF FeedRun
LEMMA FeedType ==
    ASSUME NEW s \in Seq(Bytes)
    PROVE  /\ Feed(s) \in FeedState
           /\ Feed(s).lines \in Seq(Line)
           /\ Feed(s).buffer \in Seq(Bytes \ LineEnds)
           /\ Feed(s) = [lines |-> Feed(s).lines, buffer |-> Feed(s).buffer]
<1>1. PICK f : FeedRun(s, f)
  BY FeedRuns
<1>2. Len(s) \in 0 .. Len(s)
  BY LenProperties
<1>3. Feed(s) \in FeedState
  BY <1>1, <1>2 DEF FeedRun
<1> QED
  BY <1>3 DEF FeedState

LEMMA FeedEmpty == Feed(<< >>) = Unfed
<1>1. << >> \in Seq(Bytes) /\ Len(<< >>) = 0
  BY EmptySeq
<1>2. PICK f : FeedRun(<< >>, f)
  BY <1>1, FeedRuns
<1> QED
  BY <1>1, <1>2 DEF FeedRun

LEMMA FeedAppend ==
    ASSUME NEW s \in Seq(Bytes), NEW b \in Bytes
    PROVE  Feed(Append(s, b)) = Fed(Feed(s), b)
<1> DEFINE n == Len(s)
           longer == Append(s, b)
<1>1. /\ n \in Nat
      /\ longer \in Seq(Bytes)
      /\ Len(longer) = n + 1
      /\ \A i \in 1 .. n : longer[i] = s[i]
      /\ longer[n + 1] = b
  BY AppendProperties, LenProperties
<1> HIDE DEF n, longer
<1>2. PICK f : FeedRun(s, f)
  BY FeedRuns
<1>3. PICK g : FeedRun(longer, g)
  BY <1>1, FeedRuns
<1>4. f[n] = g[n]
  <2>1. f[0] = g[0]
    BY <1>2, <1>3 DEF FeedRun
  <2>2. ASSUME NEW i \in 1 .. n, f[i - 1] = g[i - 1] PROVE f[i] = g[i]
    <3>1. i \in 1 .. Len(longer) /\ i \in 1 .. Len(s) /\ longer[i] = s[i]
      BY <1>1 DEF n
    <3>2. f[i] = Fed(f[i - 1], s[i]) /\ g[i] = Fed(g[i - 1], longer[i])
      BY <1>2, <1>3, <3>1 DEF FeedRun
    <3> QED
      BY <2>2, <3>1, <3>2
  <2> QED
    BY <1>1, <2>1, <2>2, Agreement
<1>5. g[n + 1] = Fed(g[n], b)
  <2>1. n + 1 \in 1 .. Len(longer) /\ (n + 1) - 1 = n
    BY <1>1
  <2> QED
    BY <1>1, <1>3, <2>1 DEF FeedRun
<1> QED
  BY <1>1, <1>2, <1>3, <1>4, <1>5 DEF FeedRun, n, longer

\* What has been found of lines does not change what is found of the bytes after.
LEMMA FedLater ==
    ASSUME NEW found \in Seq(Line), NEW more \in Seq(Line),
           NEW held \in Seq(Bytes \ LineEnds), NEW b \in Bytes
    PROVE  LET now == Fed([lines |-> more, buffer |-> held], b)
           IN  Fed([lines |-> found \o more, buffer |-> held], b)
                 = [lines |-> found \o now.lines, buffer |-> now.buffer]
<1>1. CASE b \notin LineEnds
  BY <1>1 DEF Fed
<1>2. CASE b \in LineEnds /\ Blank(held)
  BY <1>2 DEF Fed
<1>3. CASE b \in LineEnds /\ ~Blank(held)
  <2>1. held \in Line
    BY <1>3 DEF Blank, Line
  <2>2. found \o Append(more, held) = Append(found \o more, held)
    BY <2>1, ConcatAppend
  <2> QED
    BY <1>3, <2>2 DEF Fed
<1> QED
  BY <1>1, <1>2, <1>3

LEMMA FeedNoEnd ==
    ASSUME NEW s \in Seq(Bytes \ LineEnds)
    PROVE  Feed(s) = [lines |-> << >>, buffer |-> s]
<1> DEFINE X == Bytes \ LineEnds
           P == {z \in Seq(X) : Feed(z) = [lines |-> << >>, buffer |-> z]}
<1>1. << >> \in P
  BY FeedEmpty, EmptySeq DEF Unfed
<1>2. ASSUME NEW z \in Seq(X), NEW b \in X, z \in P
      PROVE  Append(z, b) \in P
  <2>1. z \in Seq(Bytes) /\ Append(z, b) \in Seq(X)
    BY SeqMonotonic, AppendProperties
  <2>2. Feed(Append(z, b)) = Fed(Feed(z), b)
    BY <2>1, FeedAppend
  <2> QED
    BY <1>2, <2>1, <2>2 DEF Fed
<1> HIDE DEF P, X
<1>3. \A z \in Seq(X) : z \in P
  BY <1>1, <1>2, SeqInduction
<1> QED
  BY <1>3 DEF P, X

\* A stream may be cut anywhere, between the bytes of an escape and between the CR
\* and the LF too: feeding the buffer the rest finds the lines that the whole would
\* have shown, and leaves the same bytes (LineBuffer.feed).
THEOREM FeedConcat ==
    ASSUME NEW x \in Seq(Bytes), NEW y \in Seq(Bytes)
    PROVE  /\ Feed(x \o y).lines = Feed(x).lines \o Feed(Feed(x).buffer \o y).lines
           /\ Feed(x \o y).buffer = Feed(Feed(x).buffer \o y).buffer
<1> DEFINE found == Feed(x).lines
           held == Feed(x).buffer
           Joined(z) == [lines  |-> found \o Feed(held \o z).lines,
                         buffer |-> Feed(held \o z).buffer]
           P == {z \in Seq(Bytes) : Feed(x \o z) = Joined(z)}
<1>1. found \in Seq(Line) /\ held \in Seq(Bytes \ LineEnds)
  BY FeedType
<1>2. held \in Seq(Bytes)
  BY <1>1, SeqMonotonic
<1>3. Feed(held) = [lines |-> << >>, buffer |-> held]
  BY <1>1, FeedNoEnd
<1>4. Feed(x) = [lines |-> found, buffer |-> held]
  BY FeedType
<1> HIDE DEF found, held
<1>5. << >> \in P
  <2>1. x \o << >> = x /\ held \o << >> = held /\ << >> \in Seq(Bytes)
    BY <1>2, ConcatEmptySeq, EmptySeq
  <2>2. found \o << >> = found
    BY <1>1, ConcatEmptySeq
  <2>3. Feed(x \o << >>) = [lines |-> found, buffer |-> held]
    BY <1>4, <2>1, Zenon
  <2>4. Feed(held \o << >>) = [lines |-> << >>, buffer |-> held]
    BY <1>3, <2>1, Zenon
  <2>5. Feed(held \o << >>).lines = << >> /\ Feed(held \o << >>).buffer = held
    BY <2>4
  <2>6. Joined(<< >>) = [lines |-> found, buffer |-> held]
    BY <2>2, <2>5, Zenon
  <2> QED
    BY <2>1, <2>3, <2>6
<1>6. ASSUME NEW z \in Seq(Bytes), NEW b \in Bytes, z \in P
      PROVE  Append(z, b) \in P
  <2> DEFINE more == Feed(held \o z).lines
             kept == Feed(held \o z).buffer
  <2>1. x \o Append(z, b) = Append(x \o z, b) /\ x \o z \in Seq(Bytes)
    BY ConcatAppend, ConcatProperties
  <2>2. held \o Append(z, b) = Append(held \o z, b) /\ held \o z \in Seq(Bytes)
    BY <1>2, ConcatAppend, ConcatProperties
  <2>3. /\ Feed(Append(x \o z, b)) = Fed(Feed(x \o z), b)
        /\ Feed(Append(held \o z, b)) = Fed(Feed(held \o z), b)
    BY <2>1, <2>2, FeedAppend
  <2>4. /\ Feed(held \o z) = [lines |-> more, buffer |-> kept]
        /\ more \in Seq(Line) /\ kept \in Seq(Bytes \ LineEnds)
    BY <2>2, FeedType
  <2>5. Feed(x \o z) = [lines |-> found \o more, buffer |-> kept]
    BY <1>6
  <2> HIDE DEF more, kept
  <2>6. LET now == Fed([lines |-> more, buffer |-> kept], b)
        IN  Fed([lines |-> found \o more, buffer |-> kept], b)
              = [lines |-> found \o now.lines, buffer |-> now.buffer]
    BY <1>1, <2>4, FedLater
  <2>7. Append(z, b) \in Seq(Bytes)
    BY AppendProperties
  <2> QED
    BY <2>1, <2>2, <2>3, <2>4, <2>5, <2>6, <2>7
<1> HIDE DEF P
<1>7. y \in P
  BY <1>5, <1>6, SeqInduction
<1>8. Feed(x \o y) = Joined(y)
  BY <1>7 DEF P
<1>9. /\ Feed(x \o y).lines = found \o Feed(held \o y).lines
      /\ Feed(x \o y).buffer = Feed(held \o y).buffer
  BY <1>8
<1> QED
  BY <1>9 DEF found, held
\* What a line on the stream is found to be, and its end.
LEMMA FeedLine ==
    ASSUME NEW line \in Seq(Bytes \ LineEnds), NEW end \in {<<"CR", "LF">>, <<"LF">>}
    PROVE  /\ line \o end \in Seq(Bytes)
           /\ Feed(line \o end) = [lines  |-> IF Blank(line) THEN << >> ELSE <<line>>,
                                   buffer |-> << >>]
<1>1. "CR" \in Bytes /\ "LF" \in Bytes /\ line \in Seq(Bytes)
  BY CodeFacts, SeqMonotonic
<1>2. /\ line \o <<"LF">> = Append(line, "LF")
      /\ line \o <<"CR", "LF">> = Append(Append(line, "CR"), "LF")
      /\ Append(line, "LF") \in Seq(Bytes)
      /\ Append(line, "CR") \in Seq(Bytes)
      /\ Append(Append(line, "CR"), "LF") \in Seq(Bytes)
  BY <1>1
<1>3. Feed(line) = [lines |-> << >>, buffer |-> line]
  BY FeedNoEnd
<1>4. \A b \in LineEnds : /\ Feed(Append(line, b)) = Fed(Feed(line), b)
                          /\ b \in Bytes
  BY <1>1, FeedAppend DEF LineEnds
<1>5. \A b \in LineEnds :
         Feed(Append(line, b)) = [lines  |-> IF Blank(line) THEN << >> ELSE <<line>>,
                                  buffer |-> << >>]
  BY <1>3, <1>4 DEF Fed
<1>6. CASE end = <<"LF">>
  BY <1>2, <1>5, <1>6 DEF LineEnds
<1>7. CASE end = <<"CR", "LF">>
  <2>1. Feed(Append(Append(line, "CR"), "LF")) = Fed(Feed(Append(line, "CR")), "LF")
    BY <1>1, <1>2, FeedAppend
  <2>2. Blank(<< >>)
    BY DEF Blank
  <2>3. Feed(Append(line, "CR")) = [lines  |-> IF Blank(line) THEN << >> ELSE <<line>>,
                                    buffer |-> << >>]
    BY <1>5 DEF LineEnds
  <2>4. "LF" \in LineEnds
    BY DEF LineEnds
  <2>5. Fed(Feed(Append(line, "CR")), "LF")
           = [lines |-> IF Blank(line) THEN << >> ELSE <<line>>, buffer |-> << >>]
    BY <2>2, <2>3, <2>4 DEF Fed
  <2> QED
    BY <1>2, <1>7, <2>1, <2>5
<1> QED
  BY <1>6, <1>7

-------------------------------------------------------------------------------
(* Escapes undone. *)

LEMMA EscapeSeen ==
    ASSUME NEW s \in Seq(Bytes), NEW i \in 1 .. Len(s), IsEscape(s, i)
    PROVE  i + 1 \in 1 .. Len(s) /\ Decode(s[i + 1]) \in Bytes
<1>1. PICK b \in DOMAIN Code : Code[b] = s[i + 1]
  BY DEF IsEscape
<1>2. Decode(s[i + 1]) \in Bytes
  BY <1>1, CodeFacts
<1> QED
  BY <1>2, LenProperties DEF IsEscape

\* The values of the loop of unescape.
UnescapeRun(s, f) ==
    /\ f \in [1 .. Len(s) + 1 -> Seq(Bytes)]
    /\ f[Len(s) + 1] = << >>
    /\ \A i \in 1 .. Len(s) :
          f[i] = IF IsEscape(s, i) THEN <<Decode(s[i + 1])>> \o f[i + 2]
                                   ELSE <<s[i]>> \o f[i + 1]
    /\ Unescape(s) = f[1]
LEMMA UnescapeRuns ==
    ASSUME NEW s \in Seq(Bytes)
    PROVE  \E f : UnescapeRun(s, f)
<1> DEFINE n == Len(s)
           X == Seq(Bytes)
           At(i, later, last) == IF IsEscape(s, i) THEN <<Decode(s[i + 1])>> \o later
                                                   ELSE <<s[i]>> \o last
           step == [p \in (1 .. n) \X (X \X X) |->
                       <<At(n + 1 - p[1], p[2][2], p[2][1]), p[2][1]>>]
           body(f) == [i \in 1 .. n + 1 |->
                          IF i > n THEN << >>
                          ELSE IF IsEscape(s, i) THEN <<Decode(s[i + 1])>> \o f[i + 2]
                                                 ELSE <<s[i]>> \o f[i + 1]]
<1>1. n \in Nat /\ << >> \in X
  BY EmptySeq, LenProperties
<1>2. ASSUME NEW i \in 1 .. n, NEW later \in X, NEW last \in X
      PROVE  At(i, later, last) \in X
  <2>1. CASE IsEscape(s, i)
    <3>1. <<Decode(s[i + 1])>> \in X
      BY <2>1, EscapeSeen
    <3> QED
      BY <2>1, <3>1, ConcatProperties
  <2>2. CASE ~IsEscape(s, i)
    <3>1. <<s[i]>> \in X
      BY ElementOfSeq
    <3> QED
      BY <2>2, <3>1, ConcatProperties
  <2> QED
    BY <2>1, <2>2
<1> HIDE DEF At
<1>3. ASSUME NEW k \in 1 .. n, NEW x \in X \X X
      PROVE  /\ step[<<k, x>>] = <<At(n + 1 - k, x[2], x[1]), x[1]>>
             /\ step[<<k, x>>] \in X \X X
  <2>1. step[<<k, x>>] = <<At(n + 1 - k, x[2], x[1]), x[1]>>
    OBVIOUS
  <2>2. n + 1 - k \in 1 .. n /\ x[1] \in X /\ x[2] \in X
    BY <1>1
  <2> HIDE DEF n, X
  <2>3. At(n + 1 - k, x[2], x[1]) \in X
    BY <1>2, <2>2
  <2> QED
    BY <2>1, <2>2, <2>3
<1> HIDE DEF step, X
<1>4. PICK g \in [0 .. n -> X \X X] :
         /\ g[0] = <<<< >>, << >>>>
         /\ \A k \in 1 .. n : g[k] = step[<<k, g[k - 1]>>]
  <2>1. Loop(n, X \X X, <<<< >>, << >>>>, step)
    BY <1>1, <1>3 DEF Loop
  <2>2. PICK g : g \in Values(n, X \X X, <<<< >>, << >>>>, step)
    BY <2>1, Recursion
  <2> QED
    BY <2>2 DEF Values
<1> DEFINE h == [i \in 1 .. n + 1 |-> g[n + 1 - i][1]]
<1>5. ASSUME NEW k \in 1 .. n
      PROVE  g[k] = <<At(n + 1 - k, g[k - 1][2], g[k - 1][1]), g[k - 1][1]>>
  <2>1. k - 1 \in 0 .. n
    BY <1>1
  <2>2. g[k - 1] \in X \X X
    BY <2>1
  <2> QED
    BY <1>3, <1>4, <2>2
<1>6. ASSUME NEW i \in 1 .. n
      PROVE  h[i] = IF IsEscape(s, i) THEN <<Decode(s[i + 1])>> \o h[i + 2]
                                      ELSE <<s[i]>> \o h[i + 1]
  <2>1. /\ n + 1 - i \in 1 .. n
        /\ n + 1 - (n + 1 - i) = i
        /\ i \in 1 .. n + 1 /\ i + 1 \in 1 .. n + 1
        /\ (n + 1 - i) - 1 = n + 1 - (i + 1)
    BY <1>1
  <2>2. h[i] = At(i, g[(n + 1 - i) - 1][2], g[(n + 1 - i) - 1][1])
    <3> DEFINE k == n + 1 - i
    <3>1. k \in 1 .. n /\ n + 1 - k = i /\ h[i] = g[k][1]
      BY <2>1
    <3> HIDE DEF k
    <3>2. g[k][1] = At(n + 1 - k, g[k - 1][2], g[k - 1][1])
      BY <1>5, <3>1
    <3> QED
      BY <3>1, <3>2 DEF k
  <2>3. h[i + 1] = g[(n + 1 - i) - 1][1]
    BY <2>1
  <2>4. CASE IsEscape(s, i)
    <3>1. i + 2 \in 1 .. n + 1 /\ n + 1 - (i + 1) \in 1 .. n
          /\ n + 1 - (i + 2) = (n + 1 - (i + 1)) - 1
      BY <1>1, <2>4 DEF IsEscape
    <3>2. g[n + 1 - (i + 1)][2] = g[n + 1 - (i + 2)][1]
      BY <1>5, <3>1
    <3>3. h[i + 2] = g[n + 1 - (i + 2)][1]
      BY <3>1
    <3> HIDE DEF h
    <3> QED
      BY <2>1, <2>2, <2>4, <3>2, <3>3 DEF At
  <2>5. CASE ~IsEscape(s, i)
    <3> HIDE DEF h
    <3> QED
      BY <2>2, <2>3, <2>5 DEF At
  <2> QED
    BY <2>4, <2>5
<1>7. h[n + 1] = << >> /\ h \in [1 .. n + 1 -> X]
  <2>1. n + 1 \in 1 .. n + 1 /\ n + 1 - (n + 1) = 0 /\ \A i \in 1 .. n + 1 : n + 1 - i \in 0 .. n
    BY <1>1
  <2> QED
    BY <1>4, <2>1
<1>8. h = body(h)
  <2> DEFINE r == body(h)
  <2>1. h[n + 1] = r[n + 1] /\ \A i \in 1 .. n : h[i] = r[i]
    <3>1. n + 1 \in 1 .. n + 1 /\ n + 1 > n /\ \A i \in 1 .. n : i \in 1 .. n + 1 /\ ~(i > n)
      BY <1>1
    <3> HIDE DEF h
    <3> QED
      BY <1>6, <1>7, <3>1
  <2>2. \A i \in 1 .. n + 1 : i \in 1 .. n \/ i = n + 1
    BY <1>1
  <2> HIDE DEF h
  <2> QED
    BY <1>7, <2>1, <2>2
<1> HIDE DEF h
<1>9. PICK f : f = body(f) /\ Unescape(s) = f[1]
  <2> DEFINE f == CHOOSE f : f = body(f)
  <2>1. f = body(f)
    BY <1>8
  <2>2. Unescape(s) = f[1]
    BY DEF Unescape
  <2> QED
    BY <2>1, <2>2
<1>10. /\ f[n + 1] = << >>
       /\ \A i \in 1 .. n : f[i] = IF IsEscape(s, i) THEN <<Decode(s[i + 1])>> \o f[i + 2]
                                                     ELSE <<s[i]>> \o f[i + 1]
  <2>1. \A i \in 1 .. n + 1 :
           f[i] = IF i > n THEN << >>
                  ELSE IF IsEscape(s, i) THEN <<Decode(s[i + 1])>> \o f[i + 2]
                                         ELSE <<s[i]>> \o f[i + 1]
    BY <1>9, Zenon
  <2>2. n + 1 \in 1 .. n + 1 /\ n + 1 > n /\ \A i \in 1 .. n : i \in 1 .. n + 1 /\ ~(i > n)
    BY <1>1
  <2> HIDE DEF n
  <2> QED
    BY <2>1, <2>2, Zenon
<1>11. \A i \in 1 .. n + 1 : f[i] \in X
  <2> DEFINE P == {k \in Nat : \A i \in 1 .. n + 1 : n + 1 - i <= k => f[i] \in X}
  <2>1. 0 \in P
    <3>1. \A i \in 1 .. n + 1 : n + 1 - i <= 0 => i = n + 1
      BY <1>1
    <3> QED
      BY <1>1, <1>10, <3>1
  <2>2. ASSUME NEW k \in Nat, k \in P PROVE k + 1 \in P
    <3> SUFFICES ASSUME NEW i \in 1 .. n + 1, n + 1 - i <= k + 1, ~(n + 1 - i <= k)
                 PROVE  f[i] \in X
      <4>1. \A i \in 1 .. n + 1 : n + 1 - i <= k => f[i] \in X
        BY <2>2
      <4> QED
        BY <4>1
    <3>1. i \in 1 .. n /\ i + 1 \in 1 .. n + 1 /\ n + 1 - (i + 1) <= k
      BY <1>1
    <3>2. f[i + 1] \in X
      BY <2>2, <3>1
    <3>3. CASE IsEscape(s, i)
      <4>1. i + 2 \in 1 .. n + 1 /\ n + 1 - (i + 2) <= k
        BY <1>1, <3>1, <3>3 DEF IsEscape
      <4>2. f[i + 2] \in X
        BY <2>2, <4>1
      <4>3. At(i, f[i + 2], f[i + 1]) \in X
        BY <1>2, <3>1, <3>2, <4>2
      <4> QED
        BY <1>10, <3>1, <3>3, <4>3 DEF At
    <3>4. CASE ~IsEscape(s, i)
      <4>1. At(i, << >>, f[i + 1]) \in X
        BY <1>1, <1>2, <3>1, <3>2
      <4> QED
        BY <1>10, <3>1, <3>4, <4>1 DEF At
    <3> QED
      BY <3>3, <3>4
  <2> HIDE DEF P
  <2>3. n \in P
    BY <1>1, <2>1, <2>2, Induction
  <2>4. \A i \in 1 .. n + 1 : n + 1 - i <= n
    BY <1>1
  <2> QED
    BY <2>3, <2>4 DEF P
<1>12. f \in [1 .. n + 1 -> X]
  BY <1>9, <1>11
<1> QED
  BY <1>9, <1>10, <1>12 DEF UnescapeRun, X
LEMMA UnescapeType ==
    ASSUME NEW s \in Seq(Bytes)
    PROVE  Unescape(s) \in Seq(Bytes)
<1>1. PICK f : UnescapeRun(s, f)
  BY UnescapeRuns
<1>2. 1 \in 1 .. Len(s) + 1
  BY LenProperties
<1> QED
  BY <1>1, <1>2 DEF UnescapeRun

LEMMA UnescapeEmpty == Unescape(<< >>) = << >>
<1>1. << >> \in Seq(Bytes) /\ Len(<< >>) + 1 = 1
  BY EmptySeq
<1>2. PICK f : UnescapeRun(<< >>, f)
  BY <1>1, UnescapeRuns
<1> QED
  BY <1>1, <1>2 DEF UnescapeRun

\* What is made of the bytes from a position on depends on these only.
LEMMA UnescapeShift ==
    ASSUME NEW p \in Seq(Bytes), NEW s \in Seq(Bytes), NEW f, NEW g,
           UnescapeRun(p \o s, f), UnescapeRun(s, g)
    PROVE  \A i \in 1 .. Len(s) + 1 : f[Len(p) + i] = g[i]
<1> DEFINE w == p \o s
           n == Len(s)
           q == Len(p)
           P == {k \in Nat : \A i \in 1 .. n + 1 : n + 1 - i <= k => f[q + i] = g[i]}
<1>1. /\ n \in Nat /\ q \in Nat
      /\ w \in Seq(Bytes)
      /\ Len(w) = q + n
      /\ \A i \in 1 .. n : w[q + i] = s[i]
  <2>1. n \in Nat /\ q \in Nat /\ w \in Seq(Bytes) /\ Len(w) = q + n
    BY ConcatProperties, LenProperties
  <2>2. \A i \in 1 .. q + n : w[i] = IF i <= q THEN p[i] ELSE s[i - q]
    BY ConcatProperties
  <2>3. \A i \in 1 .. n : q + i \in 1 .. q + n /\ ~(q + i <= q) /\ (q + i) - q = i
    BY <2>1
  <2> HIDE DEF w, n, q
  <2> QED
    BY <2>1, <2>2, <2>3
<1>2. /\ f[q + n + 1] = << >> /\ g[n + 1] = << >>
      /\ \A i \in 1 .. q + n : f[i] = IF IsEscape(w, i) THEN <<Decode(w[i + 1])>> \o f[i + 2]
                                                        ELSE <<w[i]>> \o f[i + 1]
      /\ \A i \in 1 .. n : g[i] = IF IsEscape(s, i) THEN <<Decode(s[i + 1])>> \o g[i + 2]
                                                    ELSE <<s[i]>> \o g[i + 1]
  <2>1. UnescapeRun(w, f)
    OBVIOUS
  <2> HIDE DEF w
  <2> QED
    BY <1>1, <2>1 DEF UnescapeRun
<1> HIDE DEF w, q
<1>3. 0 \in P
  <2>1. \A i \in 1 .. n + 1 : n + 1 - i <= 0 => i = n + 1
    BY <1>1
  <2>2. q + (n + 1) = q + n + 1
    BY <1>1
  <2> QED
    BY <1>2, <2>1, <2>2
<1>4. ASSUME NEW k \in Nat, k \in P PROVE k + 1 \in P
  <2> SUFFICES ASSUME NEW i \in 1 .. n + 1, n + 1 - i <= k + 1, ~(n + 1 - i <= k)
               PROVE  f[q + i] = g[i]
    <3>1. \A i \in 1 .. n + 1 : n + 1 - i <= k => f[q + i] = g[i]
      BY <1>4
    <3> QED
      BY <3>1
  <2>1. /\ i \in 1 .. n /\ q + i \in 1 .. q + n
        /\ i + 1 \in 1 .. n + 1 /\ n + 1 - (i + 1) <= k
        /\ q + (i + 1) = (q + i) + 1 /\ q + (i + 2) = (q + i) + 2
    BY <1>1
  <2>2. f[(q + i) + 1] = g[i + 1] /\ w[q + i] = s[i]
    BY <1>1, <1>4, <2>1
  <2>3. CASE i = n
    <3>1. ~IsEscape(s, i) /\ ~IsEscape(w, q + i)
      BY <1>1, <2>3 DEF IsEscape
    <3> QED
      BY <1>2, <2>1, <2>2, <3>1
  <2>4. CASE i # n
    <3>1. i + 1 \in 1 .. n /\ i + 2 \in 1 .. n + 1 /\ n + 1 - (i + 2) <= k
      BY <1>1, <2>1, <2>4
    <3>2. f[(q + i) + 2] = g[i + 2]
      BY <1>4, <2>1, <3>1
    <3>3. w[(q + i) + 1] = s[i + 1]
      BY <1>1, <2>1, <3>1
    <3>4. i < Len(s) /\ q + i < Len(w)
      BY <1>1, <3>1
    <3>5. IsEscape(s, i) <=> IsEscape(w, q + i)
      BY <2>2, <3>3, <3>4 DEF IsEscape
    <3> HIDE DEF n
    <3>6. /\ f[q + i] = IF IsEscape(w, q + i) THEN <<Decode(w[(q + i) + 1])>> \o f[(q + i) + 2]
                                              ELSE <<w[q + i]>> \o f[(q + i) + 1]
          /\ g[i] = IF IsEscape(s, i) THEN <<Decode(s[i + 1])>> \o g[i + 2]
                                      ELSE <<s[i]>> \o g[i + 1]
      BY <1>2, <2>1
    <3> QED
      BY <2>2, <3>2, <3>3, <3>5, <3>6, Zenon
  <2> QED
    BY <2>3, <2>4
<1> HIDE DEF P
<1>5. n \in P
  BY <1>1, <1>3, <1>4, Induction
<1>6. \A i \in 1 .. n + 1 : n + 1 - i <= n
  BY <1>1
<1> QED
  BY <1>5, <1>6 DEF P, q
LEMMA UnescapeByte ==
    ASSUME NEW b \in Bytes, NEW s \in Seq(Bytes)
    PROVE  Unescape(EscapeByte(b) \o s) = <<b>> \o Unescape(s)
<1> DEFINE p == EscapeByte(b)
           w == p \o s
<1>1. p \in Seq(Bytes) /\ w \in Seq(Bytes)
  <2>1. p \in Seq(Bytes)
    BY EscapeByteType, SeqMonotonic
  <2> QED
    BY <2>1, ConcatProperties
<1>2. PICK f : UnescapeRun(w, f)
  BY <1>1, UnescapeRuns
<1>3. PICK g : UnescapeRun(s, g)
  BY UnescapeRuns
<1>4. \A i \in 1 .. Len(s) + 1 : f[Len(p) + i] = g[i]
  <2> HIDE DEF p
  <2> QED
    BY <1>1, <1>2, <1>3, UnescapeShift
<1>5. /\ Len(s) \in Nat /\ Len(p) \in Nat
      /\ Len(w) = Len(p) + Len(s)
      /\ \A i \in 1 .. Len(p) : w[i] = p[i]
  <2>1. Len(s) \in Nat /\ Len(p) \in Nat
    BY <1>1, LenProperties
  <2>2. /\ Len(w) = Len(p) + Len(s)
        /\ \A i \in 1 .. Len(p) + Len(s) :
              w[i] = IF i <= Len(p) THEN p[i] ELSE s[i - Len(p)]
    BY <1>1, ConcatProperties
  <2>3. \A i \in 1 .. Len(p) : i \in 1 .. Len(p) + Len(s) /\ i <= Len(p)
    BY <2>1
  <2> HIDE DEF p, w
  <2> QED
    BY <2>1, <2>2, <2>3
<1>6. /\ Unescape(w) = f[1] /\ Unescape(s) = g[1]
      /\ 1 \in 1 .. Len(w) =>
            f[1] = IF IsEscape(w, 1) THEN <<Decode(w[2])>> \o f[3] ELSE <<w[1]>> \o f[2]
  <2> HIDE DEF w
  <2>1. 1 + 1 = 2 /\ 1 + 2 = 3
    OBVIOUS
  <2> QED
    BY <1>2, <1>3, <2>1 DEF UnescapeRun
<1>7. 1 \in 1 .. Len(s) + 1
  BY <1>5
<1>8. CASE b \in DOMAIN Code
  <2>1. p = <<"BSLASH", Code[b]>> /\ Len(p) = 2
    BY <1>8 DEF EscapeByte
  <2>2. w[1] = "BSLASH" /\ w[2] = Code[b] /\ 1 < Len(w) /\ 1 \in 1 .. Len(w)
    BY <1>5, <2>1
  <2> HIDE DEF p, w
  <2>3. IsEscape(w, 1)
    <3>1. w[1 + 1] = Code[b]
      BY <2>2
    <3> QED
      BY <1>8, <2>2, <3>1 DEF IsEscape
  <2>4. Decode(w[2]) = b
    BY <1>8, <2>2, CodeFacts
  <2>5. f[3] = g[1]
    BY <1>4, <1>7, <2>1
  <2> QED
    BY <1>6, <2>2, <2>3, <2>4, <2>5 DEF w, p
<1>9. CASE b \notin DOMAIN Code
  <2>1. p = <<b>> /\ Len(p) = 1
    BY <1>9 DEF EscapeByte
  <2>2. w[1] = b /\ 1 \in 1 .. Len(w)
    BY <1>5, <2>1
  <2> HIDE DEF p, w
  <2>3. ~IsEscape(w, 1)
    BY <1>9, <2>2, CodeFacts DEF IsEscape
  <2>4. f[2] = g[1]
    BY <1>4, <1>7, <2>1
  <2> QED
    BY <1>6, <2>2, <2>3, <2>4 DEF w, p
<1> QED
  BY <1>8, <1>9

\* Whatever bytes a token holds, and whatever follows it, unescape undoes escape.
LEMMA UnescapeEscape ==
    ASSUME NEW token \in Seq(Bytes), NEW s \in Seq(Bytes)
    PROVE  Unescape(Escape(token) \o s) = token \o Unescape(s)
<1> DEFINE P == {t \in Seq(Bytes) :
                    \A r \in Seq(Bytes) : Unescape(Escape(t) \o r) = t \o Unescape(r)}
<1>1. << >> \in P
  <2> SUFFICES ASSUME NEW r \in Seq(Bytes)
               PROVE  Unescape(Escape(<< >>) \o r) = << >> \o Unescape(r)
    BY EmptySeq
  <2>1. << >> \o r = r
    BY ConcatEmptySeq
  <2>2. << >> \o Unescape(r) = Unescape(r)
    BY UnescapeType, ConcatEmptySeq
  <2>3. Escape(<< >>) \o r = r
    BY <2>1, EscapeEmpty, Zenon
  <2> QED
    BY <2>2, <2>3, Zenon
<1>2. ASSUME NEW t \in Seq(Bytes), NEW b \in Bytes, t \in P
      PROVE  Append(t, b) \in P
  <2> SUFFICES ASSUME NEW r \in Seq(Bytes)
               PROVE  Unescape(Escape(Append(t, b)) \o r) = Append(t, b) \o Unescape(r)
    BY AppendProperties
  <2> DEFINE rest == EscapeByte(b) \o r
  <2>1. /\ Escape(t) \in Seq(Bytes)
        /\ EscapeByte(b) \in Seq(Bytes)
        /\ <<b>> \in Seq(Bytes)
        /\ Unescape(r) \in Seq(Bytes)
    BY EscapeType, EscapeByteType, SeqMonotonic, UnescapeType
  <2>2. rest \in Seq(Bytes)
    BY <2>1, ConcatProperties
  <2>3. Append(t, b) = t \o <<b>> /\ Escape(Append(t, b)) = Escape(t) \o EscapeByte(b)
    BY AppendIsConcat, EscapeAppend
  <2>4. Escape(Append(t, b)) \o r = Escape(t) \o rest
    <3>1. rest = EscapeByte(b) \o r
      OBVIOUS
    <3> DEFINE x == Escape(t)
               y == EscapeByte(b)
               xy == Escape(Append(t, b))
    <3>2. xy = x \o y /\ rest = y \o r /\ x \in Seq(Bytes) /\ y \in Seq(Bytes)
      BY <2>1, <2>3, <3>1
    <3> HIDE DEF rest, P, x, y, xy
    <3>3. xy \o r = x \o rest
      BY <3>2, Regroup
    <3> QED
      BY <3>3 DEF xy, x
  <2>5. Unescape(rest) = <<b>> \o Unescape(r)
    BY UnescapeByte
  <2> HIDE DEF rest
  <2>6. Append(t, b) \o Unescape(r) = t \o Unescape(rest)
    <3> DEFINE one == <<b>>
               longer == Append(t, b)
               z == Unescape(r)
               w == Unescape(rest)
    <3>1. /\ longer = t \o one /\ w = one \o z
          /\ one \in Seq(Bytes) /\ z \in Seq(Bytes)
      BY <2>1, <2>3, <2>5
    <3> HIDE DEF P, one, longer, z, w
    <3>2. longer \o z = t \o w
      BY <3>1, Regroup
    <3> QED
      BY <3>2 DEF longer, z, w
  <2>7. Unescape(Escape(t) \o rest) = t \o Unescape(rest)
    BY <1>2, <2>2
  <2> QED
    BY <2>4, <2>6, <2>7, Zenon
<1> HIDE DEF P
<1>3. token \in P
  BY <1>1, <1>2, SeqInduction
<1> QED
  BY <1>3 DEF P

\* Round trip: a token of any bytes and of any length comes out of unescape as it
\* went into escape, and escaped it holds no line end (escape and unescape).
THEOREM EscapeRoundTrip ==
    ASSUME NEW token \in Seq(Bytes)
    PROVE  /\ Escape(token) \in Seq(Bytes \ LineEnds)
           /\ Unescape(Escape(token)) = token
<1>1. << >> \in Seq(Bytes)
  BY EmptySeq
<1>2. Escape(token) \in Seq(Bytes \ LineEnds)
  BY EscapeType
<1>3. Escape(token) \o << >> = Escape(token)
  BY <1>2, ConcatEmptySeq
<1>4. token \o << >> = token
  BY ConcatEmptySeq
<1>5. Unescape(Escape(token) \o << >>) = token \o Unescape(<< >>)
  BY <1>1, UnescapeEscape
<1> QED
  BY <1>2, <1>3, <1>4, <1>5, UnescapeEmpty, Zenon
-------------------------------------------------------------------------------
(* Lines understood. *)

LEMMA FirstFacts ==
    ASSUME NEW positions, positions \subseteq Nat, positions # {}
    PROVE  First(positions) \in positions /\ \A j \in positions : First(positions) <= j
<1>1. \E i \in positions : \A j \in positions : i <= j
  BY LeastNumber
<1> QED
  BY <1>1 DEF First

LEMMA PositionFacts ==
    ASSUME NEW s \in Seq(Bytes), NEW b
    PROVE  /\ Position(s, b) \in 0 .. Len(s)
           /\ Position(s, b) = 0 <=> \A i \in 1 .. Len(s) : s[i] # b
           /\ Position(s, b) # 0 => /\ s[Position(s, b)] = b
                                    /\ \A i \in 1 .. Position(s, b) - 1 : s[i] # b
<1> DEFINE found == {i \in DOMAIN s : s[i] = b}
<1>1. Len(s) \in Nat /\ DOMAIN s = 1 .. Len(s) /\ found \subseteq Nat
  BY LenProperties
<1>2. CASE found = {}
  <2>1. Position(s, b) = 0
    BY <1>2 DEF Position
  <2> QED
    BY <1>1, <1>2, <2>1
<1>3. CASE found # {}
  <2>1. Position(s, b) = First(found)
    BY <1>3 DEF Position
  <2> DEFINE p == Position(s, b)
  <2>2. p \in found /\ \A j \in found : p <= j
    <3> HIDE DEF found, p
    <3>1. First(found) \in found /\ \A j \in found : First(found) <= j
      BY <1>1, <1>3, FirstFacts
    <3> QED
      BY <2>1, <3>1 DEF p
  <2> HIDE DEF p
  <2>3. p \in 1 .. Len(s) /\ s[p] = b
    BY <1>1, <2>2
  <2>4. ASSUME NEW i \in 1 .. p - 1 PROVE s[i] # b
    BY <1>1, <2>2, <2>3
  <2> QED
    BY <1>1, <2>3, <2>4 DEF p
<1> QED
  BY <1>2, <1>3

LEMMA PositionIs ==
    ASSUME NEW s \in Seq(Bytes), NEW b, NEW p \in 1 .. Len(s), s[p] = b,
           \A i \in 1 .. p - 1 : s[i] # b
    PROVE  Position(s, b) = p
<1> DEFINE q == Position(s, b)
<1>1. /\ q \in 0 .. Len(s)
      /\ q = 0 <=> \A i \in 1 .. Len(s) : s[i] # b
      /\ q # 0 => s[q] = b /\ \A i \in 1 .. q - 1 : s[i] # b
  BY PositionFacts
<1>2. Len(s) \in Nat
  BY LenProperties
<1> HIDE DEF q
<1>3. q # 0 /\ q \in 1 .. Len(s)
  BY <1>1, <1>2
<1>4. ~(q < p) /\ ~(p < q)
  BY <1>1, <1>2, <1>3
<1> QED
  BY <1>2, <1>3, <1>4 DEF q

LEMMA Parts ==
    ASSUME NEW s \in Seq(Bytes), NEW i \in 0 .. Len(s)
    PROVE  /\ After(s, i) \in Seq(Bytes)
           /\ Len(After(s, i)) = Len(s) - i
           /\ \A j \in 1 .. Len(s) - i : After(s, i)[j] = s[i + j]
           /\ i # 0 => /\ Before(s, i) \in Seq(Bytes)
                       /\ Len(Before(s, i)) = i - 1
                       /\ \A j \in 1 .. i - 1 : Before(s, i)[j] = s[j]
<1>1. Len(s) \in Nat /\ \A j \in 1 .. Len(s) : s[j] \in Bytes
  BY LenProperties, ElementOfSeq
<1>2. /\ i \in Int /\ i + 1 \in Int /\ i - 1 \in Int /\ Len(s) \in Int /\ 1 \in Int
      /\ \A j \in i + 1 .. Len(s) : s[j] \in Bytes
      /\ \A j \in 1 .. i - 1 : s[j] \in Bytes
  BY <1>1
<1>3. /\ SubSeq(s, i + 1, Len(s)) \in Seq(Bytes)
      /\ Len(SubSeq(s, i + 1, Len(s)))
           = IF i + 1 <= Len(s) THEN Len(s) - (i + 1) + 1 ELSE 0
      /\ \A j \in 1 .. Len(s) - (i + 1) + 1 :
            SubSeq(s, i + 1, Len(s))[j] = s[(i + 1) + j - 1]
  BY <1>2, SubSeqProperties
<1>4. /\ SubSeq(s, 1, i - 1) \in Seq(Bytes)
      /\ Len(SubSeq(s, 1, i - 1)) = IF 1 <= i - 1 THEN (i - 1) - 1 + 1 ELSE 0
      /\ \A j \in 1 .. (i - 1) - 1 + 1 : SubSeq(s, 1, i - 1)[j] = s[1 + j - 1]
  BY <1>2, SubSeqProperties
<1>5. /\ Len(s) - (i + 1) + 1 = Len(s) - i
      /\ (IF i + 1 <= Len(s) THEN Len(s) - (i + 1) + 1 ELSE 0) = Len(s) - i
      /\ \A j \in 1 .. Len(s) - i : (i + 1) + j - 1 = i + j
  BY <1>1
<1>6. i # 0 => /\ (i - 1) - 1 + 1 = i - 1
               /\ (IF 1 <= i - 1 THEN (i - 1) - 1 + 1 ELSE 0) = i - 1
               /\ \A j \in 1 .. i - 1 : 1 + j - 1 = j
  BY <1>1
<1> QED
  BY <1>3, <1>4, <1>5, <1>6 DEF After, Before

LEMMA WithoutColonType ==
    ASSUME NEW s \in Seq(Bytes)
    PROVE  WithoutColon(s) \in Seq(Bytes)
BY HeadTailProperties DEF WithoutColon
\* What both servers ask of an AUTH line, its package apart.
Accepted(line) ==
    LET rest   == After(line, 1)
        space1 == Position(rest, "SPACE")
        tail   == After(rest, space1)
    IN  /\ line # << >> /\ Head(line) = "AUTH"
        /\ space1 # 0
        /\ tail # << >> /\ Head(tail) \in {"I", "S"}

PackageOf(line) == Before(After(line, 1), Position(After(line, 1), "SPACE"))

LEMMA ParseAccepts ==
    ASSUME NEW line \in Seq(Bytes)
    PROVE  /\ ParseAuthLine(line) \in Message \cup {None}
           /\ ParseAuthLine(line) # None <=>
                 Accepted(line) /\ PackageOf(line) \in {<<"GateKeeper">>, <<"NTLM">>}
<1>1. CASE line = << >>
  BY <1>1 DEF ParseAuthLine, Accepted
<1>2. CASE line # << >>
  <2> DEFINE rest == After(line, 1)
             space1 == Position(rest, "SPACE")
             package == Before(rest, space1)
             tail == After(rest, space1)
             space2 == Position(tail, "SPACE")
             stage == IF space2 = 0 THEN tail ELSE Before(tail, space2)
             payload == IF space2 = 0 THEN << >> ELSE After(tail, space2)
             token == Unescape(WithoutColon(payload))
  <2>1. 1 \in 0 .. Len(line)
    BY <1>2, EmptySeq
  <2>2. rest \in Seq(Bytes)
    BY <2>1, Parts
  <2> HIDE DEF rest
  <2>3. space1 \in 0 .. Len(rest)
    BY <2>2, PositionFacts
  <2> HIDE DEF space1
  <2>4. tail \in Seq(Bytes)
    BY <2>2, <2>3, Parts
  <2> HIDE DEF tail
  <2>5. space2 \in 0 .. Len(tail) /\ (space2 # 0 => tail[space2] = "SPACE")
    BY <2>4, PositionFacts
  <2> HIDE DEF space2
  <2>6. payload \in Seq(Bytes)
    BY <2>4, <2>5, Parts, EmptySeq
  <2>7. token \in Seq(Bytes)
    <3> HIDE DEF payload
    <3> QED
      BY <2>6, WithoutColonType, UnescapeType
  <2>8. stage # << >> /\ Head(stage) \in {"I", "S"} <=> tail # << >> /\ Head(tail) \in {"I", "S"}
    <3>1. CASE space2 = 0
      BY <3>1
    <3>2. CASE space2 = 1
      <4>1. Before(tail, space2) \in Seq(Bytes) /\ Len(Before(tail, space2)) = 0
        BY <2>4, <2>5, <3>2, Parts
      <4>2. stage = << >>
        BY <3>2, <4>1, EmptySeq
      <4>3. Head(tail) = "SPACE"
        BY <2>4, <2>5, <3>2
      <4> QED
        BY <4>2, <4>3
    <3>3. CASE space2 > 1
      <4>1. /\ Before(tail, space2) \in Seq(Bytes)
            /\ Len(Before(tail, space2)) = space2 - 1
            /\ \A j \in 1 .. space2 - 1 : Before(tail, space2)[j] = tail[j]
        BY <2>4, <2>5, <3>3, Parts
      <4>2. Len(tail) \in Nat /\ 1 \in 1 .. space2 - 1
        BY <2>4, <2>5, <3>3, LenProperties
      <4>3. Before(tail, space2)[1] = tail[1] /\ Before(tail, space2) # << >> /\ tail # << >>
        BY <2>4, <2>5, <3>3, <4>1, <4>2, EmptySeq
      <4>4. Head(Before(tail, space2)) = Before(tail, space2)[1] /\ Head(tail) = tail[1]
        OBVIOUS
      <4> QED
        BY <3>3, <4>3, <4>4
    <3> QED
      BY <2>4, <2>5, <3>1, <3>2, <3>3, LenProperties
  <2> DEFINE good == /\ line # << >> /\ Head(line) = "AUTH"
                     /\ space1 # 0
                     /\ package \in {<<"GateKeeper">>, <<"NTLM">>}
                     /\ stage # << >> /\ Head(stage) \in {"I", "S"}
             message == [package |-> package[1], stage |-> Head(stage), token |-> token]
  <2>9. ParseAuthLine(line) = IF good THEN message ELSE None
    BY DEF ParseAuthLine, rest, space1, tail, space2
  <2> HIDE DEF stage, token
  <2>10. good => message \in Message
    <3>1. package \in {<<"GateKeeper">>, <<"NTLM">>} => package[1] \in {"GateKeeper", "NTLM"}
      OBVIOUS
    <3> HIDE DEF package, payload
    <3> QED
      BY <2>7, <3>1 DEF Message
  <2>11. good <=> Accepted(line) /\ PackageOf(line) \in {<<"GateKeeper">>, <<"NTLM">>}
    BY <2>8 DEF Accepted, PackageOf, rest, space1, tail
  <2> HIDE DEF good, message
  <2> QED
    BY <2>9, <2>10, <2>11, NoneAssumption
<1> QED
  BY <1>1, <1>2

\* What the one makes nothing of, the other makes nothing of.
LEMMA NoneAlike ==
    ASSUME NEW line \in Seq(Bytes), ParseAuthLine(line) = None
    PROVE  TryParseAuthLine(line) = None
<1>1. ~(Accepted(line) /\ PackageOf(line) \in {<<"GateKeeper">>, <<"NTLM">>})
  BY ParseAccepts
<1>2. CASE line = << >>
  BY <1>2 DEF TryParseAuthLine
<1>3. CASE line # << >>
  <2>1. 1 \in 0 .. Len(line)
    BY <1>3, EmptySeq
  <2>2. After(line, 1) \in Seq(Bytes)
    BY <2>1, Parts
  <2>3. Position(After(line, 1), "SPACE") \in Nat
    BY <2>2, PositionFacts, LenProperties
  <2> QED
    BY <1>1, <2>3 DEF Accepted, PackageOf, TryParseAuthLine
<1> QED
  BY <1>2, <1>3

AuthLine(package, stage, payload) == <<"AUTH", package, "SPACE", stage>> \o payload

\* What may follow a stage of one letter.
Follows == {payload \in Seq(Bytes) : payload # << >> => payload[1] = "SPACE"}

\* A line with a stage of one letter, cut at its blanks.
Parted(package, stage, payload) ==
    LET line == AuthLine(package, stage, payload)
        rest == After(line, 1)
        tail == After(rest, 2)
    IN  /\ line \in Seq(Bytes) /\ line # << >> /\ line[1] = "AUTH"
        /\ Position(rest, "SPACE") = 2
        /\ Before(rest, 2) = <<package>>
        /\ tail \in Seq(Bytes) /\ tail # << >> /\ tail[1] = stage
        /\ payload = << >> => /\ Position(tail, "SPACE") = 0
                              /\ Len(tail) = 1
                              /\ After(tail, 1) = << >>
                              /\ After(payload, 1) = << >>
        /\ payload # << >> => /\ Position(tail, "SPACE") = 2
                              /\ Len(tail) > 1 /\ tail[2] = "SPACE"
                              /\ Before(tail, 2) = <<stage>>
                              /\ After(tail, 2) = After(payload, 1)

LEMMA AuthLineParts ==
    ASSUME NEW package \in {"GateKeeper", "NTLM"}, NEW stage \in {"I", "S"},
           NEW payload \in Follows
    PROVE  Parted(package, stage, payload)
<1> USE DEF Follows
<1> DEFINE front == <<"AUTH", package, "SPACE", stage>>
           line == front \o payload
           rest == After(line, 1)
           tail == After(rest, 2)
           n == Len(payload)
<1>1. /\ front \in Seq(Bytes) /\ Len(front) = 4 /\ n \in Nat
      /\ package \in Bytes /\ stage \in Bytes
      /\ package # "SPACE" /\ stage # "SPACE"
      /\ front[1] = "AUTH" /\ front[2] = package /\ front[3] = "SPACE" /\ front[4] = stage
  <2>1. "AUTH" \in Bytes /\ package \in Bytes /\ "SPACE" \in Bytes /\ stage \in Bytes
    BY BytesAssumption, CodeFacts
  <2>2. front \in Seq(Bytes)
    BY <2>1
  <2> QED
    BY <2>1, <2>2, LenProperties
<1> HIDE DEF front
<1>2. /\ line \in Seq(Bytes) /\ Len(line) = 4 + n
      /\ line[1] = "AUTH" /\ line[2] = package /\ line[3] = "SPACE" /\ line[4] = stage
      /\ \A i \in 1 .. n : line[4 + i] = payload[i]
  <2>1. /\ line \in Seq(Bytes) /\ Len(line) = Len(front) + n
        /\ \A i \in 1 .. Len(front) + n :
              line[i] = IF i <= Len(front) THEN front[i] ELSE payload[i - Len(front)]
    BY <1>1, ConcatProperties
  <2>2. \A i \in 1 .. n : 4 + i \in 1 .. 4 + n /\ ~(4 + i <= 4) /\ (4 + i) - 4 = i
    BY <1>1
  <2>3. \A i \in 1 .. 4 : i \in 1 .. 4 + n
    BY <1>1
  <2> HIDE DEF line, n
  <2> QED
    BY <1>1, <2>1, <2>2, <2>3
<1> HIDE DEF line, n
<1>3. /\ rest \in Seq(Bytes) /\ Len(rest) = 3 + n
      /\ rest[1] = package /\ rest[2] = "SPACE" /\ rest[3] = stage
      /\ \A i \in 1 .. n : rest[3 + i] = payload[i]
  <2>1. /\ rest \in Seq(Bytes) /\ Len(rest) = Len(line) - 1
        /\ \A j \in 1 .. Len(line) - 1 : rest[j] = line[1 + j]
    <3>1. 1 \in 0 .. Len(line)
      BY <1>1, <1>2
    <3> QED
      BY <1>2, <3>1, Parts
  <2>2. /\ Len(line) - 1 = 3 + n
        /\ \A j \in 1 .. 3 : j \in 1 .. 3 + n
        /\ \A i \in 1 .. n : 3 + i \in 1 .. 3 + n /\ 1 + (3 + i) = 4 + i
    BY <1>1, <1>2
  <2> HIDE DEF rest
  <2>3. rest[1] = package /\ rest[2] = "SPACE" /\ rest[3] = stage
    <3>1. rest[1] = line[2] /\ rest[2] = line[3] /\ rest[3] = line[4]
      BY <2>1, <2>2
    <3> QED
      BY <1>2, <3>1
  <2>4. ASSUME NEW i \in 1 .. n PROVE rest[3 + i] = payload[i]
    BY <1>2, <2>1, <2>2
  <2> QED
    BY <2>1, <2>2, <2>3, <2>4
<1> HIDE DEF rest
<1>4. Position(rest, "SPACE") = 2
  <2>1. 2 \in 1 .. Len(rest) /\ \A i \in 1 .. 2 - 1 : rest[i] # "SPACE"
    BY <1>1, <1>3
  <2> QED
    BY <1>3, <2>1, PositionIs
<1>5. Before(rest, 2) = <<package>>
  <2>1. /\ Before(rest, 2) \in Seq(Bytes) /\ Len(Before(rest, 2)) = 1
        /\ Before(rest, 2)[1] = package
    <3>1. 2 \in 0 .. Len(rest) /\ 2 # 0 /\ 2 - 1 = 1 /\ 1 \in 1 .. 2 - 1
      BY <1>1, <1>3
    <3>2. /\ Before(rest, 2) \in Seq(Bytes) /\ Len(Before(rest, 2)) = 2 - 1
          /\ \A j \in 1 .. 2 - 1 : Before(rest, 2)[j] = rest[j]
      BY <1>3, <3>1, Parts
    <3> QED
      BY <1>3, <3>1, <3>2
  <2> DEFINE s == Before(rest, 2)
             t == <<package>>
  <2>2. t \in Seq(Bytes) /\ Len(t) = 1 /\ t[1] = package
    BY <1>1
  <2>3. s = t
    <3> HIDE DEF s, t
    <3> QED
      BY <2>1, <2>2, SeqEqual DEF s
  <2> QED
    BY <2>3
<1>6. /\ tail \in Seq(Bytes) /\ Len(tail) = 1 + n /\ tail[1] = stage
      /\ \A i \in 1 .. n : tail[1 + i] = payload[i]
  <2>1. /\ tail \in Seq(Bytes) /\ Len(tail) = Len(rest) - 2
        /\ \A j \in 1 .. Len(rest) - 2 : tail[j] = rest[2 + j]
    <3>1. 2 \in 0 .. Len(rest)
      BY <1>1, <1>3
    <3> QED
      BY <1>3, <3>1, Parts DEF tail
  <2>2. /\ Len(rest) - 2 = 1 + n /\ 1 \in 1 .. 1 + n
        /\ \A i \in 1 .. n : 1 + i \in 1 .. 1 + n /\ 2 + (1 + i) = 3 + i
    BY <1>1, <1>3
  <2> HIDE DEF tail
  <2> QED
    BY <1>3, <2>1, <2>2
<1> HIDE DEF tail
<1>7. tail # << >> /\ line # << >>
  BY <1>1, <1>2, <1>6
<1>8. CASE payload = << >>
  <2>1. n = 0
    BY <1>8 DEF n
  <2>2. Position(tail, "SPACE") = 0
    BY <1>1, <1>6, <2>1, PositionFacts
  <2>3. After(tail, 1) = << >>
    <3>1. 1 \in 0 .. Len(tail) /\ Len(tail) - 1 = 0
      BY <1>6, <2>1
    <3>2. After(tail, 1) \in Seq(Bytes) /\ Len(After(tail, 1)) = 0
      BY <1>6, <3>1, Parts
    <3> QED
      BY <3>2, EmptySeq
  <2>4. After(payload, 1) = << >>
    BY <1>8, <2>1, SubSeqEmpty DEF After, n
  <2> QED
    BY <1>2, <1>4, <1>5, <1>6, <1>7, <1>8, <2>1, <2>2, <2>3, <2>4
       DEF Parted, AuthLine, line, front, rest, tail
<1>9. CASE payload # << >>
  <2>1. n > 0 /\ payload[1] = "SPACE" /\ 1 \in 1 .. n
    BY <1>1, <1>9, EmptySeq DEF n
  <2>2. tail[2] = "SPACE" /\ Len(tail) > 1
    BY <1>1, <1>6, <2>1
  <2>3. Position(tail, "SPACE") = 2
    <3>1. 2 \in 1 .. Len(tail) /\ \A i \in 1 .. 2 - 1 : tail[i] # "SPACE"
      BY <1>1, <1>6, <2>2
    <3> QED
      BY <1>6, <2>2, <3>1, PositionIs
  <2>4. Before(tail, 2) = <<stage>>
    <3>1. /\ Before(tail, 2) \in Seq(Bytes) /\ Len(Before(tail, 2)) = 1
          /\ Before(tail, 2)[1] = stage
      <4>1. 2 \in 0 .. Len(tail) /\ 2 # 0 /\ 2 - 1 = 1 /\ 1 \in 1 .. 2 - 1
        BY <1>1, <1>6, <2>2
      <4>2. /\ Before(tail, 2) \in Seq(Bytes) /\ Len(Before(tail, 2)) = 2 - 1
            /\ \A j \in 1 .. 2 - 1 : Before(tail, 2)[j] = tail[j]
        BY <1>6, <4>1, Parts
      <4> QED
        BY <1>6, <4>1, <4>2
    <3> DEFINE s == Before(tail, 2)
               t == <<stage>>
    <3>2. t \in Seq(Bytes) /\ Len(t) = 1 /\ t[1] = stage
      BY <1>1
    <3>3. s = t
      <4> HIDE DEF s, t
      <4> QED
        BY <3>1, <3>2, SeqEqual DEF s
    <3> QED
      BY <3>3
  <2>5. After(tail, 2) = After(payload, 1)
    <3>1. /\ After(tail, 2) \in Seq(Bytes) /\ Len(After(tail, 2)) = Len(tail) - 2
          /\ \A j \in 1 .. Len(tail) - 2 : After(tail, 2)[j] = tail[2 + j]
      <4>1. 2 \in 0 .. Len(tail)
        BY <1>1, <1>6, <2>2
      <4> QED
        BY <1>6, <4>1, Parts
    <3>2. /\ After(payload, 1) \in Seq(Bytes) /\ Len(After(payload, 1)) = n - 1
          /\ \A j \in 1 .. n - 1 : After(payload, 1)[j] = payload[1 + j]
      BY <1>1, <2>1, Parts DEF n
    <3>3. /\ Len(tail) - 2 = n - 1
          /\ \A j \in 1 .. n - 1 : 1 + j \in 1 .. n /\ 1 + (1 + j) = 2 + j
      BY <1>1, <1>6
    <3> DEFINE s == After(tail, 2)
               t == After(payload, 1)
    <3>4. \A j \in 1 .. n - 1 : s[j] = t[j]
      BY <1>6, <3>1, <3>2, <3>3
    <3>5. s = t
      <4>1. s \in Seq(Bytes) /\ t \in Seq(Bytes) /\ Len(s) = n - 1 /\ Len(t) = n - 1
        BY <3>1, <3>2, <3>3
      <4> HIDE DEF s, t
      <4> QED
        BY <3>4, <4>1, SeqEqual
    <3> QED
      BY <3>5
  <2> QED
    BY <1>2, <1>4, <1>5, <1>6, <1>7, <1>9, <2>2, <2>3, <2>4, <2>5
       DEF Parted, AuthLine, line, front, rest, tail
<1> QED
  BY <1>8, <1>9
\* The two servers agree on a line: the C# one serves one package only.
Agreed(line) ==
    LET message == ParseAuthLine(line)
    IN  TryParseAuthLine(line) =
           IF message # None /\ message.package = "GateKeeper" THEN message ELSE None

LEMMA AuthLineParsed ==
    ASSUME NEW package \in {"GateKeeper", "NTLM"}, NEW stage \in {"I", "S"},
           NEW payload \in Follows
    PROVE  LET line == AuthLine(package, stage, payload)
               message == [package |-> package, stage |-> stage,
                           token   |-> Unescape(WithoutColon(After(payload, 1)))]
           IN  /\ line \in Seq(Bytes) /\ ~Blank(line)
               /\ ParseAuthLine(line) = message
               /\ message \in Message
               /\ Agreed(line)
<1> DEFINE line == AuthLine(package, stage, payload)
           rest == After(line, 1)
           tail == After(rest, 2)
           token == Unescape(WithoutColon(After(payload, 1)))
           message == [package |-> package, stage |-> stage, token |-> token]
<1>1. /\ line \in Seq(Bytes) /\ line # << >> /\ line[1] = "AUTH"
      /\ Position(rest, "SPACE") = 2
      /\ Before(rest, 2) = <<package>>
      /\ tail \in Seq(Bytes) /\ tail # << >> /\ tail[1] = stage
      /\ payload = << >> => /\ Position(tail, "SPACE") = 0
                            /\ Len(tail) = 1
                            /\ After(tail, 1) = << >>
                            /\ After(payload, 1) = << >>
      /\ payload # << >> => /\ Position(tail, "SPACE") = 2
                            /\ Len(tail) > 1 /\ tail[2] = "SPACE"
                            /\ Before(tail, 2) = <<stage>>
                            /\ After(tail, 2) = After(payload, 1)
  BY AuthLineParts DEF Parted
<1>2. Head(line) = "AUTH" /\ Head(tail) = stage /\ 1 \in DOMAIN line
  <2> HIDE DEF line, tail
  <2>1. Head(line) = line[1] /\ Head(tail) = tail[1]
    OBVIOUS
  <2>2. 1 \in DOMAIN line
    BY <1>1, EmptySeq, LenProperties
  <2> QED
    BY <1>1, <2>1, <2>2
<1>3. token \in Seq(Bytes)
  <2>1. After(payload, 1) \in Seq(Bytes)
    <3>1. CASE payload = << >>
      BY <1>1, <3>1, EmptySeq
    <3>2. CASE payload # << >>
      <4>1. 1 \in 0 .. Len(payload)
        BY <3>2, EmptySeq DEF Follows
      <4> QED
        BY <4>1, Parts DEF Follows
    <3> QED
      BY <3>1, <3>2
  <2> QED
    BY <2>1, WithoutColonType, UnescapeType
<1>4. /\ package \in {"GateKeeper", "NTLM"} /\ <<package>> \in {<<"GateKeeper">>, <<"NTLM">>}
      /\ <<package>>[1] = package
      /\ <<package>> = <<"GateKeeper">> <=> package = "GateKeeper"
      /\ <<stage>> # << >> /\ Head(<<stage>>) = stage
  OBVIOUS
<1> HIDE DEF line
<1>5. ParseAuthLine(line) = message
  <2>1. CASE payload = << >>
    BY <1>1, <1>2, <1>4, <2>1 DEF ParseAuthLine
  <2>2. CASE payload # << >>
    BY <1>1, <1>2, <1>4, <2>2 DEF ParseAuthLine
  <2> QED
    BY <2>1, <2>2
<1>6. TryParseAuthLine(line) = IF package = "GateKeeper" THEN message ELSE None
  <2>1. CASE payload = << >>
    BY <1>1, <1>2, <1>4, <2>1 DEF TryParseAuthLine
  <2>2. CASE payload # << >>
    BY <1>1, <1>2, <1>4, <2>2 DEF TryParseAuthLine
  <2> QED
    BY <2>1, <2>2
<1>7. message \in Message /\ message # None
  <2> HIDE DEF token
  <2>1. message \in Message
    BY <1>3 DEF Message
  <2> QED
    BY <2>1, NoneAssumption
<1>8. Agreed(line)
  <2>1. message.package = package
    OBVIOUS
  <2> HIDE DEF message
  <2> QED
    BY <1>5, <1>6, <1>7, <2>1 DEF Agreed
<1>9. ~Blank(line)
  BY <1>1, <1>2 DEF Blank
<1> QED
  BY <1>1, <1>5, <1>7, <1>8, <1>9 DEF line
-------------------------------------------------------------------------------
(* Messages. *)

\* The loop body.
With(heard, line) ==
    IF ParseAuthLine(line) = None THEN heard ELSE Append(heard, ParseAuthLine(line))

LEMMA WithType ==
    ASSUME NEW heard \in Seq(Message), NEW line \in Line
    PROVE  With(heard, line) \in Seq(Message)
<1>1. line \in Seq(Bytes)
  BY SeqMonotonic DEF Line
<1>2. ParseAuthLine(line) \in Message \cup {None}
  BY <1>1, ParseAccepts
<1> QED
  BY <1>2, AppendProperties DEF With

\* The values of the loop of handle_client.
MessagesRun(s, f) ==
    /\ f \in [0 .. Len(s) -> Seq(Message)]
    /\ f[0] = << >>
    /\ \A n \in 1 .. Len(s) : f[n] = With(f[n - 1], s[n])
    /\ Messages(s) = f[Len(s)]

LEMMA MessagesRuns ==
    ASSUME NEW s \in Seq(Line)
    PROVE  \E f : MessagesRun(s, f)
<1> DEFINE n == Len(s)
           X == Seq(Message)
           step == [p \in (1 .. n) \X X |-> With(p[2], s[p[1]])]
           body(f) == [i \in 0 .. n |-> IF i = 0 THEN << >> ELSE With(f[i - 1], s[i])]
<1>1. n \in Nat /\ << >> \in X
  BY EmptySeq, LenProperties
<1>2. \A i \in 1 .. n, x \in X :
         step[<<i, x>>] = With(x, s[i]) /\ step[<<i, x>>] \in X
  <2> SUFFICES ASSUME NEW i \in 1 .. n, NEW x \in X
               PROVE  step[<<i, x>>] = With(x, s[i]) /\ step[<<i, x>>] \in X
    OBVIOUS
  <2>1. step[<<i, x>>] = With(x, s[i])
    OBVIOUS
  <2>2. s[i] \in Line
    BY ElementOfSeq
  <2> QED
    BY <2>1, <2>2, WithType
<1> HIDE DEF step, X
<1>3. PICK g \in [0 .. n -> X] :
         g[0] = << >> /\ \A i \in 1 .. n : g[i] = step[<<i, g[i - 1]>>]
  <2>1. Loop(n, X, << >>, step)
    BY <1>1, <1>2 DEF Loop
  <2>2. PICK g : g \in Values(n, X, << >>, step)
    BY <2>1, Recursion
  <2> QED
    BY <2>2 DEF Values
<1>4. \A i \in 1 .. n : g[i] = With(g[i - 1], s[i])
  <2> SUFFICES ASSUME NEW i \in 1 .. n PROVE g[i] = With(g[i - 1], s[i])
    OBVIOUS
  <2>1. g[i - 1] \in X
    BY <1>1
  <2> QED
    BY <1>2, <1>3, <2>1
<1>5. g = body(g)
  BY <1>1, <1>3, <1>4
<1>6. PICK f : f = body(f) /\ Messages(s) = f[n]
  <2> DEFINE f == CHOOSE f : f = body(f)
  <2>1. f = body(f)
    BY <1>5
  <2>2. Messages(s) = f[n]
    BY DEF Messages, With
  <2> QED
    BY <2>1, <2>2
<1>7. f[0] = << >> /\ \A i \in 1 .. n : f[i] = With(f[i - 1], s[i])
  <2>1. \A i \in 0 .. n : f[i] = IF i = 0 THEN << >> ELSE With(f[i - 1], s[i])
    BY <1>6, Zenon
  <2> HIDE DEF n
  <2>2. 0 \in 0 .. n /\ \A i \in 1 .. n : i \in 0 .. n /\ i # 0
    BY <1>1
  <2> QED
    BY <2>1, <2>2, Zenon
<1>8. \A i \in 0 .. n : f[i] = g[i]
  <2> SUFFICES ASSUME NEW i \in 0 .. n PROVE f[i] = g[i]
    OBVIOUS
  <2> HIDE DEF n
  <2>1. i \in Nat /\ f[0] = g[0]
    BY <1>1, <1>3, <1>7
  <2>2. ASSUME NEW j \in 1 .. i, f[j - 1] = g[j - 1] PROVE f[j] = g[j]
    <3>1. j \in 1 .. n
      BY <1>1
    <3> QED
      BY <1>4, <1>7, <2>2, <3>1
  <2> QED
    BY <2>1, <2>2, Agreement
<1>9. f = g
  BY <1>3, <1>6, <1>8
<1> QED
  BY <1>1, <1>3, <1>4, <1>6, <1>9 DEF MessagesRun, X

LEMMA MessagesType ==
    ASSUME NEW s \in Seq(Line)
    PROVE  Messages(s) \in Seq(Message)
<1>1. PICK f : MessagesRun(s, f)
  BY MessagesRuns
<1>2. Len(s) \in 0 .. Len(s)
  BY LenProperties
<1> QED
  BY <1>1, <1>2 DEF MessagesRun

LEMMA MessagesEmpty == Messages(<< >>) = << >>
<1>1. << >> \in Seq(Line) /\ Len(<< >>) = 0
  BY EmptySeq
<1>2. PICK f : MessagesRun(<< >>, f)
  BY <1>1, MessagesRuns
<1> QED
  BY <1>1, <1>2 DEF MessagesRun

LEMMA MessagesAppend ==
    ASSUME NEW s \in Seq(Line), NEW line \in Line
    PROVE  Messages(Append(s, line)) = With(Messages(s), line)
<1> DEFINE n == Len(s)
           longer == Append(s, line)
<1>1. /\ n \in Nat
      /\ longer \in Seq(Line)
      /\ Len(longer) = n + 1
      /\ \A i \in 1 .. n : longer[i] = s[i]
      /\ longer[n + 1] = line
  BY AppendProperties, LenProperties
<1> HIDE DEF n, longer
<1>2. PICK f : MessagesRun(s, f)
  BY MessagesRuns
<1>3. PICK g : MessagesRun(longer, g)
  BY <1>1, MessagesRuns
<1>4. f[n] = g[n]
  <2>1. f[0] = g[0]
    BY <1>2, <1>3 DEF MessagesRun
  <2>2. ASSUME NEW i \in 1 .. n, f[i - 1] = g[i - 1] PROVE f[i] = g[i]
    <3>1. i \in 1 .. Len(longer) /\ i \in 1 .. Len(s) /\ longer[i] = s[i]
      BY <1>1 DEF n
    <3>2. f[i] = With(f[i - 1], s[i]) /\ g[i] = With(g[i - 1], longer[i])
      BY <1>2, <1>3, <3>1 DEF MessagesRun
    <3> QED
      BY <2>2, <3>1, <3>2
  <2> QED
    BY <1>1, <2>1, <2>2, Agreement
<1>5. g[n + 1] = With(g[n], line)
  <2>1. n + 1 \in 1 .. Len(longer) /\ (n + 1) - 1 = n
    BY <1>1
  <2> QED
    BY <1>1, <1>3, <2>1 DEF MessagesRun
<1> QED
  BY <1>1, <1>2, <1>3, <1>4, <1>5 DEF MessagesRun, n, longer

\* What is heard is heard once, and stays what it was.
LEMMA MessagesConcat ==
    ASSUME NEW x \in Seq(Line), NEW y \in Seq(Line)
    PROVE  Messages(x \o y) = Messages(x) \o Messages(y)
<1> DEFINE heard == Messages(x)
           P == {z \in Seq(Line) : Messages(x \o z) = heard \o Messages(z)}
<1>1. heard \in Seq(Message)
  BY MessagesType
<1>2. << >> \in P
  <2>1. << >> \in Seq(Line) /\ x \o << >> = x
    BY EmptySeq, ConcatEmptySeq
  <2>2. heard \o << >> = heard
    BY <1>1, ConcatEmptySeq
  <2>3. Messages(x \o << >>) = heard /\ heard \o Messages(<< >>) = heard
    BY <2>1, <2>2, MessagesEmpty, Zenon
  <2> QED
    BY <2>1, <2>3
<1> HIDE DEF heard
<1>3. ASSUME NEW z \in Seq(Line), NEW line \in Line, z \in P
      PROVE  Append(z, line) \in P
  <2> DEFINE more == Messages(z)
  <2>1. x \o Append(z, line) = Append(x \o z, line) /\ x \o z \in Seq(Line)
    BY ConcatAppend, ConcatProperties
  <2>2. /\ Messages(Append(x \o z, line)) = With(Messages(x \o z), line)
        /\ Messages(Append(z, line)) = With(more, line)
    BY <2>1, MessagesAppend
  <2>3. more \in Seq(Message) /\ Messages(x \o z) = heard \o more
    BY <1>3, MessagesType
  <2> HIDE DEF more
  <2>4. heard \o With(more, line) = With(heard \o more, line)
    <3>1. CASE ParseAuthLine(line) = None
      BY <3>1 DEF With
    <3>2. CASE ParseAuthLine(line) # None
      <4> DEFINE message == ParseAuthLine(line)
      <4>1. message \in Message
        <5>1. line \in Seq(Bytes)
          BY SeqMonotonic DEF Line
        <5> QED
          BY <3>2, <5>1, ParseAccepts
      <4>2. With(more, line) = Append(more, message)
            /\ With(heard \o more, line) = Append(heard \o more, message)
        BY <3>2 DEF With
      <4> HIDE DEF message
      <4>3. heard \o Append(more, message) = Append(heard \o more, message)
        BY <1>1, <2>3, <4>1, ConcatAppend
      <4> QED
        BY <4>2, <4>3
    <3> QED
      BY <3>1, <3>2
  <2>5. Append(z, line) \in Seq(Line)
    BY AppendProperties
  <2> QED
    BY <2>1, <2>2, <2>3, <2>4, <2>5
<1> HIDE DEF P
<1>4. y \in P
  BY <1>2, <1>3, SeqInduction
<1> QED
  BY <1>4 DEF P, heard
-------------------------------------------------------------------------------
(* The lines that a peer sends. *)

LEMMA AuthLineType ==
    ASSUME NEW package \in {"GateKeeper", "NTLM"}, NEW stage \in {"I", "S"},
           NEW payload \in Seq(Bytes \ LineEnds)
    PROVE  AuthLine(package, stage, payload) \in Seq(Bytes \ LineEnds)
<1> DEFINE X == Bytes \ LineEnds
           front == <<"AUTH", package, "SPACE", stage>>
<1>1. "AUTH" \in X /\ package \in X /\ "SPACE" \in X /\ stage \in X
  <2>1. "AUTH" \in Bytes /\ package \in Bytes /\ "SPACE" \in Bytes /\ stage \in Bytes
    BY BytesAssumption, CodeFacts
  <2> QED
    BY <2>1 DEF LineEnds
<1>2. payload \in Seq(X)
  OBVIOUS
<1> HIDE DEF X
<1>3. front \in Seq(X)
  BY <1>1
<1> HIDE DEF front
<1>4. front \o payload \in Seq(X)
  BY <1>2, <1>3, ConcatProperties
<1> QED
  BY <1>4 DEF AuthLine, front, X

\* A line as handle_client writes it is parsed to what it was made from.
LEMMA SaidLine ==
    ASSUME NEW package \in {"GateKeeper", "NTLM"}, NEW stage \in {"I", "S"},
           NEW token \in Seq(Bytes)
    PROVE  LET line == <<"AUTH", package, "SPACE", stage, "SPACE", ":">> \o Escape(token)
               message == [package |-> package, stage |-> stage, token |-> token]
           IN  /\ line \in Seq(Bytes \ LineEnds) /\ ~Blank(line)
               /\ ParseAuthLine(line) = message
               /\ message \in Message
               /\ Agreed(line)
<1> DEFINE e == Escape(token)
           front == <<"AUTH", package, "SPACE", stage>>
           mark == <<"SPACE", ":">>
           longer == <<"AUTH", package, "SPACE", stage, "SPACE", ":">>
           payload == mark \o e
           line == longer \o e
<1>1. e \in Seq(Bytes \ LineEnds) /\ e \in Seq(Bytes) /\ Unescape(e) = token
  <2>1. e \in Seq(Bytes \ LineEnds)
    BY EscapeRoundTrip
  <2>2. Unescape(e) = token
    BY EscapeRoundTrip
  <2> HIDE DEF e
  <2> QED
    BY <2>1, <2>2, SeqMonotonic
<1> HIDE DEF e
<1>2. /\ "AUTH" \in Bytes /\ package \in Bytes /\ stage \in Bytes
      /\ "SPACE" \in Bytes \ LineEnds /\ ":" \in Bytes \ LineEnds
  BY BytesAssumption, CodeFacts DEF LineEnds
<1>3. /\ front \in Seq(Bytes) /\ mark \in Seq(Bytes \ LineEnds) /\ mark \in Seq(Bytes)
      /\ Len(mark) = 2 /\ mark[1] = "SPACE" /\ mark[2] = ":"
      /\ longer = front \o mark
  BY <1>2
<1> HIDE DEF front, mark, longer
<1>4. line = front \o payload
  <2>1. payload = mark \o e
    OBVIOUS
  <2> HIDE DEF payload
  <2>2. longer \o e = front \o payload
    BY <1>1, <1>3, <2>1, Regroup
  <2> QED
    BY <2>2
<1>5. payload \in Seq(Bytes \ LineEnds)
  BY <1>1, <1>3, ConcatProperties
<1>6. /\ payload \in Seq(Bytes) /\ Len(payload) = 2 + Len(e) /\ Len(e) \in Nat
      /\ payload[1] = "SPACE" /\ payload[2] = ":"
      /\ \A i \in 1 .. Len(e) : payload[2 + i] = e[i]
  <2>1. /\ payload \in Seq(Bytes) /\ Len(payload) = Len(mark) + Len(e)
        /\ \A i \in 1 .. Len(mark) + Len(e) :
              payload[i] = IF i <= Len(mark) THEN mark[i] ELSE e[i - Len(mark)]
    BY <1>1, <1>3, ConcatProperties
  <2>2. Len(e) \in Nat
    BY <1>1, LenProperties
  <2>3. /\ 1 \in 1 .. 2 + Len(e) /\ 2 \in 1 .. 2 + Len(e)
        /\ \A i \in 1 .. Len(e) : 2 + i \in 1 .. 2 + Len(e) /\ ~(2 + i <= 2) /\ (2 + i) - 2 = i
    BY <2>2
  <2> HIDE DEF payload
  <2> QED
    BY <1>3, <2>1, <2>2, <2>3
<1> HIDE DEF payload
<1>7. WithoutColon(After(payload, 1)) = e
  <2> DEFINE marked == After(payload, 1)
  <2>1. /\ marked \in Seq(Bytes) /\ Len(marked) = 1 + Len(e)
        /\ marked[1] = ":"
        /\ \A i \in 1 .. Len(e) : marked[1 + i] = e[i]
    <3>1. 1 \in 0 .. Len(payload)
      BY <1>6
    <3>2. /\ marked \in Seq(Bytes) /\ Len(marked) = Len(payload) - 1
          /\ \A j \in 1 .. Len(payload) - 1 : marked[j] = payload[1 + j]
      BY <1>6, <3>1, Parts
    <3>3. /\ Len(payload) - 1 = 1 + Len(e) /\ 1 \in 1 .. 1 + Len(e)
          /\ \A i \in 1 .. Len(e) : 1 + i \in 1 .. 1 + Len(e) /\ 1 + (1 + i) = 2 + i
      BY <1>6
    <3> HIDE DEF marked
    <3> QED
      BY <1>6, <3>2, <3>3
  <2> HIDE DEF marked
  <2>2. marked # << >> /\ Head(marked) = ":"
    BY <1>6, <2>1
  <2>3. /\ Tail(marked) \in Seq(Bytes) /\ Len(Tail(marked)) = Len(e)
        /\ \A i \in 1 .. Len(e) : Tail(marked)[i] = e[i]
    <3>1. /\ Tail(marked) \in Seq(Bytes) /\ Len(Tail(marked)) = Len(marked) - 1
          /\ \A i \in 1 .. Len(Tail(marked)) : Tail(marked)[i] = marked[i + 1]
      BY <2>1, <2>2, HeadTailProperties
    <3>2. Len(marked) - 1 = Len(e) /\ \A i \in 1 .. Len(e) : i + 1 = 1 + i
      BY <1>6, <2>1
    <3> QED
      BY <2>1, <3>1, <3>2
  <2>4. Tail(marked) = e
    BY <1>1, <2>3, SeqEqual
  <2> QED
    BY <2>2, <2>4 DEF WithoutColon, marked
<1>8. payload \in Follows
  BY <1>6 DEF Follows
<1>9. line = AuthLine(package, stage, payload)
  BY <1>4 DEF AuthLine, front
<1>10. line \in Seq(Bytes \ LineEnds)
  <2> HIDE DEF line
  <2> QED
    BY <1>5, <1>9, AuthLineType
<1>11. /\ ~Blank(line)
       /\ ParseAuthLine(line) = [package |-> package, stage |-> stage, token |-> token]
       /\ [package |-> package, stage |-> stage, token |-> token] \in Message
       /\ Agreed(line)
  <2> HIDE DEF line
  <2> QED
    BY <1>1, <1>7, <1>8, <1>9, AuthLineParsed
<1> QED
  BY <1>10, <1>11 DEF longer, e
-------------------------------------------------------------------------------
(* The invariant.  What is said and what is heard are compared as if the whole   *)
(* stream had been read: no step of the server changes that, and a line that the *)
(* peer adds comes after everything else.                                        *)

Rest == Feed(buffer \o stream)

All == lines \o Rest.lines

AllHeard ==
    /\ Len(Messages(All)) = Len(said)
    /\ \A k \in 1 .. Len(said) : said[k] # None => Messages(All)[k] = said[k]

AllAgreed == \A k \in 1 .. Len(All) : Agreed(All[k])

Inv ==
    /\ TypeOK
    /\ Rest.buffer = << >>
    /\ AllHeard
    /\ AllAgreed

LEMMA Types ==
    ASSUME TypeOK
    PROVE  /\ buffer \in Seq(Bytes) /\ stream \in Seq(Bytes)
           /\ buffer \o stream \in Seq(Bytes)
           /\ lines \in Seq(Line)
           /\ Rest.lines \in Seq(Line)
           /\ All \in Seq(Line)
           /\ Messages(All) \in Seq(Message)
           /\ said \in Seq(Message \cup {None})
<1>1. buffer \in Seq(Bytes) /\ stream \in Seq(Bytes)
  BY SeqMonotonic DEF TypeOK
<1>2. buffer \o stream \in Seq(Bytes)
  BY <1>1, ConcatProperties
<1>3. lines \in Seq(Line)
  BY DEF TypeOK, Line
<1>4. Rest.lines \in Seq(Line)
  BY <1>2, FeedType DEF Rest
<1>5. All \in Seq(Line)
  BY <1>3, <1>4, ConcatProperties DEF All
<1>6. Messages(All) \in Seq(Message)
  BY <1>5, MessagesType
<1> QED
  BY <1>1, <1>2, <1>3, <1>4, <1>5, <1>6 DEF TypeOK

LEMMA InitInv == Init => Inv
<1> SUFFICES ASSUME Init PROVE Inv
  OBVIOUS
<1> USE DEF Init
<1>1. TypeOK
  <2>1. << >> \in Seq(Bytes) /\ << >> \in Seq(Bytes \ LineEnds)
    BY EmptySeq
  <2>2. << >> \in Seq(Message \cup {None}) /\ << >> \in Seq(Seq(Bytes \ LineEnds) \ {<< >>})
    BY EmptySeq
  <2> QED
    BY <2>1, <2>2, LinesAssumption DEF TypeOK
<1>2. buffer \o stream = << >>
  BY ConcatEmptySeq, EmptySeq
<1>3. Rest.lines = << >> /\ Rest.buffer = << >>
  BY <1>2, FeedEmpty DEF Rest, Unfed
<1>4. All = << >>
  BY <1>3, ConcatEmptySeq, EmptySeq DEF All
<1>5. Len(said) = 0 /\ Len(All) = 0
  BY <1>4, EmptySeq
<1>6. Messages(All) = << >>
  BY <1>4, MessagesEmpty
<1>7. AllHeard
  BY <1>5, <1>6, EmptySeq DEF AllHeard
<1>8. AllAgreed
  BY <1>5 DEF AllAgreed
<1> QED
  BY <1>1, <1>3, <1>7, <1>8 DEF Inv

\* A line put on the stream is found after all others, and leaves nothing behind.
LEMMA PutAdds ==
    ASSUME Inv, NEW line \in Seq(Bytes \ LineEnds), Put(line)
    PROVE  /\ sent' \in 0 .. MaxLines
           /\ stream' \in Seq(Bytes)
           /\ Rest'.buffer = << >>
           /\ All' = All \o (IF Blank(line) THEN << >> ELSE <<line>>)
<1> DEFINE found == IF Blank(line) THEN << >> ELSE <<line>>
<1>1. TypeOK /\ Rest.buffer = << >> /\ sent \in 0 .. MaxLines
  BY DEF Inv, TypeOK
<1>2. PICK end \in {<<"CR", "LF">>, <<"LF">>} : stream' = stream \o line \o end
  BY DEF Put
<1>3. sent' \in 0 .. MaxLines /\ buffer' = buffer /\ lines' = lines
  BY <1>1, LinesAssumption DEF Put
<1> DEFINE added == line \o end
<1>4. added \in Seq(Bytes) /\ Feed(added) = [lines |-> found, buffer |-> << >>]
  BY FeedLine
<1>5. line \in Seq(Bytes) /\ end \in Seq(Bytes)
  <2>1. "CR" \in Bytes /\ "LF" \in Bytes
    BY CodeFacts
  <2>2. <<"LF">> \in Seq(Bytes) /\ <<"CR", "LF">> \in Seq(Bytes)
    BY <2>1
  <2>3. line \in Seq(Bytes)
    BY SeqMonotonic
  <2> QED
    BY <2>2, <2>3
<1>6. buffer \in Seq(Bytes) /\ stream \in Seq(Bytes)
  BY <1>1, Types
<1>7. stream' = stream \o added
  <2> DEFINE first == stream \o line
  <2>1. first = stream \o line /\ added = line \o end /\ stream' = first \o end
    BY <1>2
  <2> HIDE DEF first, added
  <2>2. first \o end = stream \o added
    BY <1>6, <1>5, <2>1, Regroup
  <2> QED
    BY <2>1, <2>2
<1> HIDE DEF added
<1>8. stream' \in Seq(Bytes)
  BY <1>1, <1>4, <1>7, Types, ConcatProperties
<1>9. buffer' \o stream' = (buffer \o stream) \o added
  <2> DEFINE now == buffer \o stream
             later == stream \o added
  <2>1. now = buffer \o stream /\ later = stream \o added
    OBVIOUS
  <2> HIDE DEF now, later
  <2>2. now \o added = buffer \o later
    BY <1>6, <1>4, <2>1, Regroup
  <2> QED
    BY <1>3, <1>7, <2>2 DEF now, later
<1>10. /\ Rest'.lines = Rest.lines \o found
      /\ Rest'.buffer = << >>
  <2> DEFINE now == buffer \o stream
  <2>1. now \in Seq(Bytes)
    BY <1>1, Types
  <2>2. Rest = Feed(now) /\ Rest' = Feed(now \o added)
    BY <1>9 DEF Rest
  <2> HIDE DEF now
  <2>3. /\ Feed(now \o added).lines = Feed(now).lines \o Feed(Feed(now).buffer \o added).lines
        /\ Feed(now \o added).buffer = Feed(Feed(now).buffer \o added).buffer
    BY <1>4, <2>1, FeedConcat
  <2>4. Feed(now).buffer \o added = added
    <3>1. Feed(now).buffer = << >>
      BY <1>1, <2>2
    <3> QED
      BY <1>4, <3>1, ConcatEmptySeq
  <2>5. Feed(added).lines = found /\ Feed(added).buffer = << >>
    BY <1>4
  <2> QED
    BY <2>2, <2>3, <2>4, <2>5, Zenon
<1>11. All' = All \o found
  <2>1. found \in Seq(Line)
    <3>1. ~Blank(line) => line \in Line
      BY DEF Blank, Line
    <3> QED
      BY <3>1, EmptySeq
  <2> DEFINE all == lines \o Rest.lines
             read == lines
             more == Rest.lines
             longer == Rest'.lines
  <2>2. /\ read \in Seq(Line) /\ more \in Seq(Line)
        /\ all = read \o more /\ longer = more \o found
        /\ All = all /\ All' = read \o longer
    BY <1>1, <1>3, <1>10, Types DEF All
  <2> HIDE DEF all, read, more, longer, found
  <2>3. all \o found = read \o longer
    BY <2>1, <2>2, Regroup
  <2> QED
    BY <2>2, <2>3
<1> QED
  BY <1>3, <1>8, <1>10, <1>11
LEMMA PutHeard ==
    ASSUME Inv, NEW line \in Seq(Bytes \ LineEnds), Put(line), Agreed(line)
    PROVE  /\ AllAgreed'
           /\ Messages(All') = IF Blank(line) THEN Messages(All)
                               ELSE With(Messages(All), line)
<1>1. TypeOK /\ AllAgreed
  BY DEF Inv
<1>2. All \in Seq(Line) /\ All' = All \o (IF Blank(line) THEN << >> ELSE <<line>>)
  BY <1>1, Types, PutAdds
<1>3. CASE Blank(line)
  <2>1. All' = All
    BY <1>2, <1>3, ConcatEmptySeq
  <2> QED
    BY <1>1, <1>3, <2>1 DEF AllAgreed
<1>4. CASE ~Blank(line)
  <2>1. line \in Line
    BY <1>4 DEF Blank, Line
  <2>2. All' = Append(All, line)
    BY <1>2, <1>4, <2>1, AppendIsConcat
  <2>3. Messages(All') = With(Messages(All), line)
    BY <1>2, <2>1, <2>2, MessagesAppend
  <2>4. /\ Len(All) \in Nat /\ Len(All') = Len(All) + 1
        /\ \A k \in 1 .. Len(All) : All'[k] = All[k]
        /\ All'[Len(All) + 1] = line
    BY <1>2, <2>1, <2>2, AppendProperties, LenProperties
  <2>5. ASSUME NEW k \in 1 .. Len(All') PROVE Agreed(All'[k])
    <3>1. k \in 1 .. Len(All) \/ k = Len(All) + 1
      BY <2>4
    <3> QED
      BY <1>1, <2>4, <3>1 DEF AllAgreed
  <2>6. AllAgreed'
    BY <2>5 DEF AllAgreed
  <2> QED
    BY <1>4, <2>3, <2>6
<1> QED
  BY <1>3, <1>4

LEMMA PutInv ==
    ASSUME Inv, NEW line \in Seq(Bytes \ LineEnds), Put(line), Agreed(line),
           said' \in Seq(Message \cup {None}), AllHeard'
    PROVE  Inv'
<1>1. /\ buffer \in Seq(Bytes \ LineEnds) /\ lines \in Seq(Seq(Bytes \ LineEnds) \ {<< >>})
      /\ buffer' = buffer /\ lines' = lines
  BY DEF Inv, TypeOK, Put
<1>2. sent' \in 0 .. MaxLines /\ stream' \in Seq(Bytes) /\ Rest'.buffer = << >>
  BY PutAdds
<1>3. TypeOK'
  BY <1>1, <1>2 DEF TypeOK
<1>4. AllAgreed'
  BY PutHeard
<1> QED
  BY <1>2, <1>3, <1>4 DEF Inv

\* What is said with a line is what the line is parsed to, or left open.
LEMMA SaidInv ==
    ASSUME Inv, NEW line \in Seq(Bytes \ LineEnds), Put(line), ~Blank(line),
           Agreed(line), NEW message \in Message, ParseAuthLine(line) = message,
           NEW mine \in {message, None}, said' = Append(said, mine)
    PROVE  Inv'
<1> DEFINE heard == Messages(All)
<1>1. /\ said \in Seq(Message \cup {None}) /\ heard \in Seq(Message)
      /\ Len(heard) = Len(said)
      /\ \A k \in 1 .. Len(said) : said[k] # None => heard[k] = said[k]
  BY Types DEF Inv, AllHeard
<1>2. mine \in Message \cup {None}
  OBVIOUS
<1>3. Messages(All') = Append(heard, message)
  BY PutHeard, NoneAssumption DEF With
<1> HIDE DEF heard
<1>4. /\ said' \in Seq(Message \cup {None})
      /\ Len(said) \in Nat /\ Len(said') = Len(said) + 1
      /\ \A k \in 1 .. Len(said) : said'[k] = said[k]
      /\ said'[Len(said) + 1] = mine
  BY <1>1, <1>2, AppendProperties, LenProperties
<1>5. /\ Len(Append(heard, message)) = Len(said) + 1
      /\ \A k \in 1 .. Len(said) : Append(heard, message)[k] = heard[k]
      /\ Append(heard, message)[Len(said) + 1] = message
  BY <1>1, AppendProperties
<1>6. ASSUME NEW k \in 1 .. Len(said'), said'[k] # None
      PROVE  Messages(All')[k] = said'[k]
  <2>1. k \in 1 .. Len(said) \/ k = Len(said) + 1
    BY <1>4
  <2>2. CASE k \in 1 .. Len(said)
    BY <1>1, <1>3, <1>4, <1>5, <1>6, <2>2
  <2>3. CASE k = Len(said) + 1
    BY <1>3, <1>4, <1>5, <1>6, <2>3
  <2> QED
    BY <2>1, <2>2, <2>3
<1>7. AllHeard'
  BY <1>3, <1>4, <1>5, <1>6 DEF AllHeard
<1> QED
  BY <1>4, <1>7, PutInv

LEMMA SayInv ==
    ASSUME Inv, NEW package \in {"GateKeeper", "NTLM"}, NEW stage \in {"I", "S"},
           NEW token \in Tokens, Say(package, stage, token)
    PROVE  Inv'
<1> DEFINE line == <<"AUTH", package, "SPACE", stage, "SPACE", ":">> \o Escape(token)
           message == [package |-> package, stage |-> stage, token |-> token]
<1>1. token \in Seq(Bytes)
  BY TokenAssumption
<1>2. /\ line \in Seq(Bytes \ LineEnds) /\ ~Blank(line)
      /\ ParseAuthLine(line) = message
      /\ message \in Message
      /\ Agreed(line)
  BY <1>1, SaidLine
<1>3. Put(line) /\ said' = Append(said, message)
  BY DEF Say
<1> HIDE DEF line, message
<1> QED
  BY <1>2, <1>3, SaidInv

LEMMA SayBadlyInv ==
    ASSUME Inv, NEW stage \in {"I", "S"}, NEW payload \in Payloads,
           SayBadly(stage, payload)
    PROVE  Inv'
<1> DEFINE line == AuthLine("GateKeeper", stage, payload)
           message == [package |-> "GateKeeper", stage |-> stage,
                       token   |-> Unescape(WithoutColon(After(payload, 1)))]
<1>1. payload \in Seq(Bytes \ LineEnds) /\ payload \in Follows
  <2>1. payload \in Seq(Bytes \ LineEnds) /\ (payload # << >> => payload[1] = "SPACE")
    BY PayloadAssumption
  <2>2. payload \in Seq(Bytes)
    BY <2>1, SeqMonotonic
  <2> QED
    BY <2>1, <2>2 DEF Follows
<1>2. line \in Seq(Bytes \ LineEnds)
  BY <1>1, AuthLineType
<1>3. /\ ~Blank(line)
      /\ ParseAuthLine(line) = message
      /\ message \in Message
      /\ Agreed(line)
  BY <1>1, AuthLineParsed
<1>4. Put(line) /\ said' = Append(said, None)
  BY DEF SayBadly, AuthLine
<1> HIDE DEF line, message
<1> QED
  BY <1>2, <1>3, <1>4, SaidInv

LEMMA SayNothingInv ==
    ASSUME Inv, NEW line \in Noise, SayNothing(line)
    PROVE  Inv'
<1>1. line \in Seq(Bytes \ LineEnds) /\ line \in Seq(Bytes) /\ ParseAuthLine(line) = None
  <2>1. line \in Seq(Bytes \ LineEnds) /\ ParseAuthLine(line) = None
    BY NoiseAssumption
  <2> QED
    BY <2>1, SeqMonotonic
<1>2. Put(line) /\ said' = said
  BY DEF SayNothing
<1>3. Agreed(line)
  BY <1>1, NoneAlike DEF Agreed
<1>4. Messages(All') = Messages(All)
  BY <1>1, <1>2, <1>3, PutHeard DEF With
<1>5. AllHeard'
  BY <1>2, <1>4 DEF Inv, AllHeard
<1>6. said' \in Seq(Message \cup {None})
  BY <1>2, Types DEF Inv
<1> QED
  BY <1>1, <1>2, <1>3, <1>5, <1>6, PutInv
\* Reading changes nothing of what is read in the end, wherever the piece ends.
LEMMA ReadInv ==
    ASSUME Inv, NEW n \in 1 .. Len(stream), Read(n)
    PROVE  Inv'
<1> DEFINE piece == SubSeq(stream, 1, n)
           later == After(stream, n)
           here == buffer \o piece
<1>1. /\ TypeOK /\ Rest.buffer = << >> /\ AllHeard /\ AllAgreed
      /\ buffer \in Seq(Bytes) /\ stream \in Seq(Bytes) /\ lines \in Seq(Line)
  BY Types DEF Inv
<1>2. /\ buffer' = Feed(here).buffer
      /\ lines' = lines \o Feed(here).lines
      /\ stream' = later
      /\ said' = said /\ sent' = sent
  BY DEF Read
<1>3. piece \in Seq(Bytes) /\ later \in Seq(Bytes) /\ stream = piece \o later
  <2>1. Len(stream) \in Nat
    BY <1>1, LenProperties
  <2>2. n \in 0 .. Len(stream) /\ 1 - 1 = 0
    BY <2>1
  <2>3. later \in Seq(Bytes)
    BY <1>1, <2>2, Parts
  <2>4. piece \in Seq(Bytes)
    <3>1. 1 \in Int /\ n \in Int /\ \A i \in 1 .. n : stream[i] \in Bytes
      BY <1>1, <2>1, ElementOfSeq
    <3> QED
      BY <3>1, SubSeqProperties
  <2>5. SubSeq(stream, 1, n) \o SubSeq(stream, n + 1, Len(stream)) = SubSeq(stream, 1, Len(stream))
    <3>1. /\ 1 \in 1 .. Len(stream) + 1 /\ n \in 1 - 1 .. Len(stream)
          /\ Len(stream) \in n .. Len(stream)
      BY <2>1
    <3> QED
      BY <1>1, <3>1, ConcatAdjacentSubSeq
  <2>6. SubSeq(stream, 1, Len(stream)) = stream
    BY <1>1, SubSeqFull
  <2> QED
    BY <2>3, <2>4, <2>5, <2>6 DEF After
<1> HIDE DEF piece, later
<1>4. here \in Seq(Bytes) /\ here = buffer \o piece
  BY <1>1, <1>3, ConcatProperties
<1> HIDE DEF here
<1>5. buffer \o stream = here \o later
  <2>1. /\ buffer \in Seq(Bytes) /\ piece \in Seq(Bytes) /\ later \in Seq(Bytes)
        /\ here = buffer \o piece /\ stream = piece \o later
    BY <1>1, <1>3, <1>4
  <2>2. here \o later = buffer \o stream
    BY <2>1, Regroup
  <2> QED
    BY <2>2
<1>6. /\ Feed(here).lines \in Seq(Line)
      /\ Feed(here).buffer \in Seq(Bytes \ LineEnds)
  BY <1>4, FeedType
<1>7. Rest' = Feed(Feed(here).buffer \o later)
  BY <1>2 DEF Rest
<1>8. /\ Rest.lines = Feed(here).lines \o Rest'.lines
      /\ Rest.buffer = Rest'.buffer
  <2>1. Rest = Feed(here \o later)
    BY <1>5 DEF Rest
  <2>2. /\ Feed(here \o later).lines
             = Feed(here).lines \o Feed(Feed(here).buffer \o later).lines
        /\ Feed(here \o later).buffer = Feed(Feed(here).buffer \o later).buffer
    BY <1>3, <1>4, FeedConcat
  <2> QED
    BY <1>7, <2>1, <2>2, Zenon
<1>9. TypeOK'
  <2>1. lines' \in Seq(Line)
    BY <1>1, <1>2, <1>6, ConcatProperties
  <2>2. sent \in 0 .. MaxLines /\ said \in Seq(Message \cup {None})
    BY <1>1 DEF TypeOK
  <2> QED
    BY <1>2, <1>3, <1>6, <2>1, <2>2 DEF TypeOK, Line
<1>10. All' = All
  <2> DEFINE found == Feed(here).lines
             more == Rest'.lines
             read == lines'
             rest == Rest.lines
  <2>1. more \in Seq(Line)
    <3>1. TypeOK' => Rest'.lines \in Seq(Line)
      <4>1. Feed(here).buffer \in Seq(Bytes)
        BY <1>6, SeqMonotonic
      <4>2. Feed(here).buffer \o later \in Seq(Bytes)
        BY <1>3, <4>1, ConcatProperties
      <4> QED
        BY <1>7, <4>2, FeedType
    <3> QED
      BY <1>9, <3>1
  <2>2. found \in Seq(Line) /\ read = lines \o found /\ rest = found \o more
    BY <1>2, <1>6, <1>8
  <2>3. All' = read \o more /\ All = lines \o rest
    BY DEF All
  <2> HIDE DEF found, more, read, rest
  <2>4. read \o more = lines \o rest
    BY <1>1, <2>1, <2>2, Regroup
  <2> QED
    BY <2>3, <2>4
<1>11. AllHeard' /\ AllAgreed'
  BY <1>1, <1>2, <1>10 DEF AllHeard, AllAgreed
<1>12. Rest'.buffer = << >>
  BY <1>1, <1>8
<1> QED
  BY <1>9, <1>11, <1>12 DEF Inv

LEMMA NextInv == Inv /\ [Next]_vars => Inv'
<1> SUFFICES ASSUME Inv, [Next]_vars PROVE Inv'
  OBVIOUS
<1>1. ASSUME NEW package \in {"GateKeeper", "NTLM"}, NEW stage \in {"I", "S"},
             NEW token \in Tokens, Say(package, stage, token)
      PROVE  Inv'
  BY <1>1, SayInv
<1>2. ASSUME NEW stage \in {"I", "S"}, NEW payload \in Payloads, SayBadly(stage, payload)
      PROVE  Inv'
  BY <1>2, SayBadlyInv
<1>3. ASSUME NEW line \in Noise, SayNothing(line) PROVE Inv'
  BY <1>3, SayNothingInv
<1>4. ASSUME NEW n \in 1 .. Len(stream), Read(n) PROVE Inv'
  BY <1>4, ReadInv
<1>5. CASE UNCHANGED vars
  BY <1>5 DEF vars, Inv, TypeOK, AllHeard, AllAgreed, All, Rest
<1> QED
  BY <1>1, <1>2, <1>3, <1>4, <1>5 DEF Next

\* The inductive invariant: had the server read all of the stream, nothing would be
\* left in LineBuffer, and it would have heard the very messages that were said, and
\* every line on the way is one that both servers understand alike.
THEOREM Invariance == Spec => []Inv
<1>1. Init => Inv
  BY InitInv
<1>2. Inv /\ [Next]_vars => Inv'
  BY NextInv
<1> QED
  BY <1>1, <1>2, PTL DEF Spec

\* Type correctness for any bytes, tokens, payloads and noise: no line end is left in
\* LineBuffer or in a line, and no line is empty (LineBuffer.feed).
THEOREM TypeCorrect == Spec => []TypeOK
<1>1. Inv => TypeOK
  BY DEF Inv
<1> QED
  BY <1>1, Invariance, PTL

\* Whatever is sent and however it is cut, the server has heard a prefix of what its
\* peer said, each message once, in order and with the very token, and all of it when
\* no line end is under way (escape, LineBuffer.feed, parse_auth_line, unescape).
THEOREM HeardAlwaysAsSaid == Spec => []HeardAsSaid
<1>1. ASSUME Inv PROVE HeardAsSaid
  <2> DEFINE more == Messages(Rest.lines)
             heard == Heard
  <2>1. /\ buffer \in Seq(Bytes) /\ stream \in Seq(Bytes) /\ lines \in Seq(Line)
        /\ buffer \in Seq(Bytes \ LineEnds)
        /\ Rest.lines \in Seq(Line)
        /\ said \in Seq(Message \cup {None})
    BY <1>1, Types DEF Inv, TypeOK
  <2>2. heard \in Seq(Message) /\ more \in Seq(Message)
    BY <2>1, MessagesType DEF Heard
  <2>3. Messages(All) = heard \o more
    BY <2>1, MessagesConcat DEF All, Heard
  <2>4. /\ Len(heard \o more) = Len(said)
        /\ \A k \in 1 .. Len(said) : said[k] # None => (heard \o more)[k] = said[k]
    BY <1>1, <2>3 DEF Inv, AllHeard
  <2>5. ASSUME \A i \in DOMAIN stream : stream[i] \notin LineEnds
        PROVE  more = << >>
    <3>1. stream \in Seq(Bytes \ LineEnds)
      <4>1. /\ Len(stream) \in Nat /\ DOMAIN stream = 1 .. Len(stream)
            /\ stream \in [1 .. Len(stream) -> Bytes]
        BY <2>1, LenProperties
      <4>2. stream \in [1 .. Len(stream) -> Bytes \ LineEnds]
        BY <2>5, <4>1
      <4> QED
        BY <4>1, <4>2, SeqDef
    <3>2. buffer \o stream \in Seq(Bytes \ LineEnds)
      BY <2>1, <3>1, ConcatProperties
    <3>3. Rest.lines = << >>
      <4>1. Feed(buffer \o stream) = [lines |-> << >>, buffer |-> buffer \o stream]
        BY <3>2, FeedNoEnd
      <4> QED
        BY <4>1 DEF Rest
    <3> QED
      BY <3>3, MessagesEmpty
  <2> HIDE DEF more, heard
  <2>6. /\ Len(heard) \in Nat /\ Len(more) \in Nat
        /\ Len(heard \o more) = Len(heard) + Len(more)
        /\ \A k \in 1 .. Len(heard) : (heard \o more)[k] = heard[k]
        /\ DOMAIN heard = 1 .. Len(heard)
    BY <2>2, ConcatProperties, LenProperties
  <2>7. /\ Len(heard) <= Len(said)
        /\ \A k \in DOMAIN heard : said[k] # None => heard[k] = said[k]
        /\ (\A i \in DOMAIN stream : stream[i] \notin LineEnds) => Len(heard) = Len(said)
    <3>1. Len(heard) <= Len(said) /\ 1 .. Len(heard) \subseteq 1 .. Len(said)
      BY <2>4, <2>6
    <3>2. \A k \in DOMAIN heard : said[k] # None => heard[k] = said[k]
      BY <2>4, <2>6, <3>1
    <3>3. ASSUME more = << >> PROVE Len(heard) = Len(said)
      BY <2>4, <2>6, <3>3, EmptySeq
    <3> QED
      BY <2>5, <3>1, <3>2, <3>3
  <2> QED
    BY <2>7 DEF HeardAsSaid, heard
<1> QED
  BY <1>1, Invariance, PTL

\* The parsers of the Rust and of the C# server agree on every line that comes out of
\* LineBuffer (parse_auth_line and TryParseAuthLine).
THEOREM ReadersAlwaysAgree == Spec => []ReadersAgree
<1>1. ASSUME Inv PROVE ReadersAgree
  <2>1. lines \in Seq(Line) /\ Rest.lines \in Seq(Line)
    BY <1>1, Types DEF Inv
  <2>2. /\ Len(lines) \in Nat /\ DOMAIN lines = 1 .. Len(lines) /\ Len(Rest.lines) \in Nat
    BY <2>1, LenProperties
  <2>3. /\ Len(All) = Len(lines) + Len(Rest.lines)
        /\ \A k \in 1 .. Len(lines) : All[k] = lines[k]
    BY <2>1, <2>2, ConcatProperties DEF All
  <2>4. ASSUME NEW k \in DOMAIN lines PROVE Agreed(lines[k])
    <3>1. k \in 1 .. Len(lines) /\ k \in 1 .. Len(All)
      BY <2>2, <2>3
    <3> QED
      BY <1>1, <2>3, <3>1 DEF Inv, AllAgreed
  <2> QED
    BY <2>4 DEF ReadersAgree, Agreed
<1> QED
  BY <1>1, Invariance, PTL
===============================================================================
