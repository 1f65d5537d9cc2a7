--------------------------- MODULE SSEParserProofs ---------------------------
(***************************************************************************)
(* Proofs about SSEParser for every list of events, every set of forms a    *)
(* frame may have, every way to cut a response into chunks, and any number  *)
(* of connections that break.                                              *)
(*                                                                         *)
(* The argument: a text has one division into lines and a rest without a    *)
(* line end, so it does not matter where a chunk ends; the loop takes       *)
(* exactly the lines that are complete, and taking them in two calls is     *)
(* taking them in one; the lines of a frame, in any form, hand over that    *)
(* frame with the last of them and leave nothing.  Hence the parser is      *)
(* where the text read has brought it (Reader), and what it has handed over *)
(* are the frames that have come whole.                                    *)
(***************************************************************************)
EXTENDS SSEParser, FiniteSetTheorems, SequenceTheorems, WellFoundedInduction, TLAPS
-----------------------------------------------------------------------------
(* Induction and recursion over the first numbers.                         *)

\* What holds of 0, and of the next number with each, holds of all up to m.
LEMMA Climb ==
  ASSUME NEW m \in Nat, NEW T, 0 \in T, \A n \in 0..(m - 1) : n \in T => n + 1 \in T
  PROVE  \A n \in 0..m : n \in T
<1> DEFINE Bad == {n \in 0..m : n \notin T}
<1> SUFFICES ASSUME Bad # {} PROVE FALSE
  OBVIOUS
<1>1. Bad \subseteq Nat
  OBVIOUS
<1>2. PICK b \in Bad : \A n \in Bad : ~ (<<n, b>> \in OpToRel(<, Nat))
  <2> HIDE DEF Bad
  <2> QED BY <1>1, NatLessThanWellFounded, WFMin
<1>3. b \in 0..m /\ b \notin T /\ b # 0
  OBVIOUS
<1>4. b - 1 \in 0..(m - 1) /\ b - 1 \in 0..m /\ (b - 1) + 1 = b
  BY <1>3
<1>5. b - 1 \notin Bad
  <2> DEFINE c == b - 1
  <2>1. <<c, b>> \in OpToRel(<, Nat) <=> <<c, b>> \in Nat \X Nat /\ <<c, b>>[1] < <<c, b>>[2]
    BY ZenonT(20) DEF OpToRel
  <2>2. c \in Nat /\ b \in Nat /\ c < b
    BY <1>3, <1>4
  <2>3. <<c, b>> \in OpToRel(<, Nat)
    <3> HIDE DEF c
    <3> QED BY <2>1, <2>2
  <2> QED BY <1>2, <2>3
<1> QED BY <1>3, <1>4, <1>5

Unfolds(f, m, V, v, G) ==
  /\ f \in [0..m -> V]
  /\ f[0] = v
  /\ \A n \in 1..m : f[n] = G[<<f[n - 1], n>>]

\* A function on the first numbers is given by its first value and by a step.
LEMMA Recursion ==
  ASSUME NEW N \in Nat, NEW V, NEW v \in V, NEW G \in [V \X (1..N) -> V]
  PROVE  \E f : Unfolds(f, N, V, v, G)
<1> DEFINE Good(f, m) == f \in [0..m -> V] /\ f[0] = v /\ \A n \in 1..m : f[n] = G[<<f[n - 1], n>>]
           T == {m \in 0..N : \E f : Good(f, m)}
<1>1. 0 \in T
  <2> DEFINE g == [n \in 0..0 |-> v]
  <2>1. Good(g, 0) /\ 0 \in 0..N
    OBVIOUS
  <2> HIDE DEF Good, g
  <2> QED BY <2>1
<1>2. ASSUME NEW m \in 0..(N - 1), m \in T PROVE m + 1 \in T
  <2>1. PICK f : Good(f, m)
    BY <1>2
  <2> DEFINE h == [n \in 0..(m + 1) |-> IF n = m + 1 THEN G[<<f[m], m + 1>>] ELSE f[n]]
  <2>2. f[m] \in V /\ m + 1 \in 1..N
    BY <2>1
  <2>3. G[<<f[m], m + 1>>] \in V
    BY <2>2
  <2>4. h \in [0..(m + 1) -> V] /\ h[0] = v
    BY <2>1, <2>3
  <2>5. ASSUME NEW n \in 1..(m + 1) PROVE h[n] = G[<<h[n - 1], n>>]
    <3>1. CASE n = m + 1
      <4>1. m \in 0..(m + 1) /\ m + 1 \in 0..(m + 1) /\ m # m + 1 /\ n - 1 = m
        BY <3>1
      <4>2. h[m] = f[m] /\ h[m + 1] = G[<<f[m], m + 1>>]
        BY <4>1
      <4> HIDE DEF h
      <4> QED BY <3>1, <4>1, <4>2
    <3>2. CASE n # m + 1
      <4>1. n \in 1..m /\ n - 1 \in 0..m /\ n \in 0..(m + 1) /\ n - 1 \in 0..(m + 1) /\ n - 1 # m + 1
        BY <3>2
      <4>2. h[n] = f[n] /\ h[n - 1] = f[n - 1]
        BY <3>2, <4>1
      <4> HIDE DEF h
      <4> QED BY <2>1, <4>1, <4>2
    <3> QED BY <3>1, <3>2
  <2> HIDE DEF h
  <2>6. Good(h, m + 1)
    BY <2>4, <2>5
  <2> HIDE DEF Good
  <2> QED BY <2>2, <2>6
<1> HIDE DEF T
<1>3. \A m \in 0..N : m \in T
  BY <1>1, <1>2, Climb
<1> QED BY <1>3 DEF T, Unfolds

-----------------------------------------------------------------------------
(* Sequences joined together.                                              *)

\* FlattenSeq joins its sequences one after the other.
LEMMA FlattenByParts ==
  ASSUME NEW S, NEW s \in Seq(Seq(S))
  PROVE  \E f \in [0..Len(s) -> Seq(S)] :
           /\ f[0] = <<>>
           /\ \A n \in 1..Len(s) : f[n] = f[n - 1] \o s[n]
           /\ FlattenSeq(s) = f[Len(s)]
<1> DEFINE N == Len(s)
           G == [x \in Seq(S) \X (1..N) |-> x[1] \o s[x[2]]]
           Step(g, n) == IF n = 1 THEN s[n] ELSE g[n - 1] \o s[n]
<1>1. N \in Nat /\ \A n \in 1..N : s[n] \in Seq(S)
  BY LenProperties, ElementOfSeq
<1>2. G \in [Seq(S) \X (1..N) -> Seq(S)]
  BY <1>1, ConcatProperties
<1>3. PICK f \in [0..N -> Seq(S)] : f[0] = <<>> /\ \A n \in 1..N : f[n] = G[<<f[n - 1], n>>]
  <2>1. <<>> \in Seq(S)
    BY EmptySeq
  <2> HIDE DEF G, N
  <2>2. \E f : Unfolds(f, N, Seq(S), <<>>, G)
    BY <1>1, <1>2, <2>1, Recursion
  <2> QED BY <2>2 DEF Unfolds
<1>4. ASSUME NEW n \in 1..N PROVE f[n] = f[n - 1] \o s[n]
  <2>1. n - 1 \in 0..N
    BY <1>1
  <2>2. f[n - 1] \in Seq(S)
    BY <1>3, <2>1
  <2> QED BY <1>3, <2>2
<1>5. CASE N = 0
  <2>1. s = <<>> /\ FlattenSeq(s) = s
    BY <1>5, EmptySeq DEF FlattenSeq
  <2> QED BY <1>3, <1>4, <1>5, <2>1
<1>6. CASE N # 0
  <2> DEFINE g == [n \in 1..N |-> f[n]]
             flatten == CHOOSE h : h = [n \in 1..N |-> Step(h, n)]
  <2>1. \A n \in 1..N : f[n] = Step(g, n)
    <3> SUFFICES ASSUME NEW n \in 1..N PROVE f[n] = Step(g, n)
      OBVIOUS
    <3>1. CASE n = 1
      <4>1. f[1] = <<>> \o s[1] /\ s[1] \in Seq(S)
        <5>1. f[n] = f[n - 1] \o s[n]
          BY <1>4
        <5>2. n - 1 = 0
          BY <3>1
        <5> QED BY <1>1, <1>3, <3>1, <5>1, <5>2
      <4> QED BY <3>1, <4>1, ConcatEmptySeq
    <3>2. CASE n # 1
      <4>1. n - 1 \in 1..N
        BY <1>1, <3>2
      <4> QED BY <1>4, <3>2, <4>1
    <3> QED BY <3>1, <3>2
  <2>2. g = [n \in 1..N |-> Step(g, n)]
    <3>1. [n \in 1..N |-> Step(g, n)] = [n \in 1..N |-> f[n]]
      <4> HIDE DEF Step, g
      <4> QED BY <2>1
    <3> QED BY <3>1
  <2>3. flatten = [n \in 1..N |-> Step(flatten, n)]
    <3> HIDE DEF Step, g
    <3> QED BY <2>2
  <2>4. FlattenSeq(s) = flatten[N]
    BY <1>6 DEF FlattenSeq
  <2> HIDE DEF flatten
  <2> DEFINE T == {m \in 0..N : m # 0 => flatten[m] = f[m]}
  <2>5. 0 \in T
    BY <1>1
  <2>6. ASSUME NEW m \in 0..(N - 1), m \in T PROVE m + 1 \in T
    <3>1. m + 1 \in 1..N /\ m + 1 \in 0..N /\ (m + 1) - 1 = m
      BY <1>1
    <3>2. flatten[m + 1] = Step(flatten, m + 1)
      <4> HIDE DEF Step
      <4> QED BY <2>3, <3>1
    <3>3. CASE m = 0
      <4>1. flatten[m + 1] = s[1] /\ f[m + 1] = s[1]
        <5>1. m + 1 = 1
          BY <3>3
        <5>2. f[m + 1] = Step(g, m + 1)
          <6> HIDE DEF Step, g
          <6> QED BY <2>1, <3>1
        <5> HIDE DEF g
        <5> QED BY <3>2, <5>1, <5>2
      <4> QED BY <3>1, <4>1
    <3>4. CASE m # 0
      <4>1. flatten[m + 1] = f[m] \o s[m + 1]
        <5>1. flatten[m] = f[m] /\ m + 1 # 1
          BY <2>6, <3>1, <3>4
        <5> QED BY <3>1, <3>2, <5>1
      <4>2. f[m + 1] = f[m] \o s[m + 1]
        BY <1>4, <3>1
      <4> QED BY <3>1, <4>1, <4>2
    <3> QED BY <3>3, <3>4
  <2> HIDE DEF T
  <2>7. N \in T
    <3> HIDE DEF N
    <3>1. N \in 0..N
      BY <1>1
    <3> QED BY <1>1, <2>5, <2>6, <3>1, Climb
  <2>8. flatten[N] = f[N]
    BY <1>6, <2>7 DEF T
  <2> QED BY <1>3, <1>4, <2>4, <2>8
<1> QED BY <1>5, <1>6

\* The first elements of a sequence, and one more.
LEMMA PrefixFacts ==
  ASSUME NEW S, NEW s \in Seq(S), NEW m \in 0..Len(s)
  PROVE  /\ SubSeq(s, 1, m) \in Seq(S)
         /\ Len(SubSeq(s, 1, m)) = m
         /\ \A i \in 1..m : SubSeq(s, 1, m)[i] = s[i]
<1>1. Len(s) \in Nat /\ \A i \in 1..Len(s) : s[i] \in S
  BY LenProperties, ElementOfSeq
<1>2. m \in Int /\ 1 \in Int /\ \A i \in 1..m : i \in 1..Len(s)
  BY <1>1
<1>3. /\ SubSeq(s, 1, m) \in Seq(S)
      /\ Len(SubSeq(s, 1, m)) = IF 1 <= m THEN m - 1 + 1 ELSE 0
      /\ \A i \in 1 .. m - 1 + 1 : SubSeq(s, 1, m)[i] = s[1 + i - 1]
  BY <1>1, <1>2, SubSeqProperties
<1> QED BY <1>1, <1>3

LEMMA PrefixStep ==
  ASSUME NEW S, NEW s \in Seq(S), NEW m \in Nat, m < Len(s)
  PROVE  /\ SubSeq(s, 1, m) \in Seq(S)
         /\ s[m + 1] \in S
         /\ SubSeq(s, 1, m + 1) = Append(SubSeq(s, 1, m), s[m + 1])
<1>1. Len(s) \in Nat
  BY LenProperties
<1>2. m \in 0..Len(s) /\ m + 1 \in 0..Len(s) /\ m + 1 \in 1..Len(s)
  BY <1>1
<1> DEFINE a == SubSeq(s, 1, m)
           b == SubSeq(s, 1, m + 1)
<1>3. a \in Seq(S) /\ Len(a) = m /\ \A i \in 1..m : a[i] = s[i]
  BY <1>2, PrefixFacts
<1>4. b \in Seq(S) /\ Len(b) = m + 1 /\ \A i \in 1..(m + 1) : b[i] = s[i]
  BY <1>2, PrefixFacts
<1>5. s[m + 1] \in S
  BY <1>2, ElementOfSeq
<1> HIDE DEF a, b
<1> DEFINE c == Append(a, s[m + 1])
<1>6. /\ c \in Seq(S) /\ Len(c) = Len(a) + 1
      /\ \A i \in 1..Len(a) : c[i] = a[i]
      /\ c[Len(a) + 1] = s[m + 1]
  BY <1>3, <1>5, AppendProperties
<1> HIDE DEF c
<1>7. \A i \in 1..Len(b) : b[i] = c[i]
  BY <1>3, <1>4, <1>6
<1>8. Len(b) = Len(c)
  BY <1>3, <1>4, <1>6
<1>9. b = c
  BY <1>4, <1>6, <1>7, <1>8, SeqEqual
<1> QED BY <1>3, <1>5, <1>9 DEF a, b, c

LEMMA ConcatAppend ==
  ASSUME NEW S, NEW s \in Seq(S), NEW a \in Seq(S), NEW e \in S
  PROVE  s \o Append(a, e) = Append(s \o a, e)
<1>1. Append(a, e) = a \o <<e>> /\ <<e>> \in Seq(S)
  BY AppendIsConcat
<1>2. (s \o a) \o <<e>> = s \o (a \o <<e>>)
  BY <1>1, ConcatAssociative
<1>3. s \o a \in Seq(S)
  BY ConcatProperties
<1>4. Append(s \o a, e) = (s \o a) \o <<e>>
  BY <1>3, AppendIsConcat
<1> QED BY <1>1, <1>2, <1>4

LEMMA FlattenType ==
  ASSUME NEW S, NEW s \in Seq(Seq(S))
  PROVE  FlattenSeq(s) \in Seq(S)
<1>1. PICK f \in [0..Len(s) -> Seq(S)] : FlattenSeq(s) = f[Len(s)]
  BY FlattenByParts
<1>2. Len(s) \in 0..Len(s)
  BY LenProperties
<1> QED BY <1>1, <1>2

LEMMA FlattenEmpty == FlattenSeq(<<>>) = <<>>
BY DEF FlattenSeq

LEMMA FlattenAppend ==
  ASSUME NEW S, NEW s \in Seq(Seq(S)), NEW x \in Seq(S)
  PROVE  FlattenSeq(Append(s, x)) = FlattenSeq(s) \o x
<1> DEFINE u == Append(s, x)
           N == Len(s)
<1>1. /\ u \in Seq(Seq(S)) /\ Len(u) = N + 1 /\ N \in Nat
      /\ \A i \in 1..N : u[i] = s[i]
      /\ u[N + 1] = x
  BY AppendProperties, LenProperties
<1> HIDE DEF u, N
<1>2. PICK f \in [0..N -> Seq(S)] :
        /\ f[0] = <<>>
        /\ \A n \in 1..N : f[n] = f[n - 1] \o s[n]
        /\ FlattenSeq(s) = f[N]
  BY FlattenByParts DEF N
<1>3. PICK g \in [0..Len(u) -> Seq(S)] :
        /\ g[0] = <<>>
        /\ \A n \in 1..Len(u) : g[n] = g[n - 1] \o u[n]
        /\ FlattenSeq(u) = g[Len(u)]
  BY <1>1, FlattenByParts
<1> DEFINE T == {m \in 0..N : f[m] = g[m]}
<1>4. 0 \in T
  BY <1>1, <1>2, <1>3
<1>5. ASSUME NEW m \in 0..(N - 1), m \in T PROVE m + 1 \in T
  <2>1. m + 1 \in 0..N /\ m + 1 \in 1..N /\ m + 1 \in 1..(N + 1) /\ (m + 1) - 1 = m
    BY <1>1
  <2>2. f[m + 1] = f[m] \o s[m + 1] /\ g[m + 1] = g[m] \o u[m + 1]
    BY <1>1, <1>2, <1>3, <2>1
  <2>3. f[m] = g[m] /\ u[m + 1] = s[m + 1]
    BY <1>1, <1>5, <2>1
  <2> QED BY <2>1, <2>2, <2>3
<1> HIDE DEF T
<1>6. N \in 0..N /\ N + 1 \in 1..(N + 1) /\ (N + 1) - 1 = N
  BY <1>1
<1>7. N \in T
  BY <1>1, <1>4, <1>5, <1>6, Climb
<1>8. f[N] = g[N]
  BY <1>7 DEF T
<1>9. g[N + 1] = g[N] \o u[N + 1]
  BY <1>1, <1>3, <1>6
<1> QED BY <1>1, <1>2, <1>3, <1>8, <1>9 DEF u

LEMMA FlattenOne ==
  ASSUME NEW S, NEW x \in Seq(S)
  PROVE  FlattenSeq(<<x>>) = x
<1>1. <<>> \in Seq(Seq(S)) /\ Append(<<>>, x) = <<x>>
  OBVIOUS
<1>2. FlattenSeq(<<x>>) = FlattenSeq(<<>>) \o x
  BY <1>1, FlattenAppend
<1> QED BY <1>2, FlattenEmpty, ConcatEmptySeq

LEMMA FlattenConcat ==
  ASSUME NEW S, NEW s \in Seq(Seq(S)), NEW u \in Seq(Seq(S))
  PROVE  FlattenSeq(s \o u) = FlattenSeq(s) \o FlattenSeq(u)
<1> DEFINE N == Len(u)
           pre(m) == SubSeq(u, 1, m)
           T == {m \in 0..N : FlattenSeq(s \o pre(m)) = FlattenSeq(s) \o FlattenSeq(pre(m))}
<1>1. N \in Nat /\ N \in 0..N
  BY LenProperties
<1>2. 0 \in T
  <2>1. pre(0) = <<>> /\ 0 \in 0..N
    BY <1>1, SubSeqEmpty
  <2>2. s \o <<>> = s /\ FlattenSeq(s) \o <<>> = FlattenSeq(s)
    BY ConcatEmptySeq, FlattenType
  <2> HIDE DEF pre, N
  <2> QED BY <2>1, <2>2, FlattenEmpty
<1>3. ASSUME NEW m \in 0..(N - 1), m \in T PROVE m + 1 \in T
  <2>1. m \in Nat /\ m < N /\ m + 1 \in 0..N
    BY <1>1
  <2>2. pre(m) \in Seq(Seq(S)) /\ u[m + 1] \in Seq(S) /\ pre(m + 1) = Append(pre(m), u[m + 1])
    BY <2>1, PrefixStep
  <2> DEFINE a == pre(m)
             e == u[m + 1]
  <2>3. FlattenSeq(s \o a) = FlattenSeq(s) \o FlattenSeq(a)
    BY <1>3
  <2>4. a \in Seq(Seq(S)) /\ e \in Seq(S) /\ pre(m + 1) = Append(a, e)
    BY <2>2
  <2> HIDE DEF pre, N, a, e
  <2>5. s \o Append(a, e) = Append(s \o a, e) /\ s \o a \in Seq(Seq(S))
    BY <2>4, ConcatAppend, ConcatProperties
  <2>6. FlattenSeq(Append(s \o a, e)) = FlattenSeq(s \o a) \o e
    BY <2>4, <2>5, FlattenAppend
  <2>7. FlattenSeq(Append(a, e)) = FlattenSeq(a) \o e
    BY <2>4, FlattenAppend
  <2>8. (FlattenSeq(s) \o FlattenSeq(a)) \o e = FlattenSeq(s) \o (FlattenSeq(a) \o e)
    <3>1. ASSUME NEW x \in Seq(S), NEW y \in Seq(S), NEW z \in Seq(S)
          PROVE  (x \o y) \o z = x \o (y \o z)
      BY ConcatAssociative
    <3>2. FlattenSeq(s) \in Seq(S) /\ FlattenSeq(a) \in Seq(S)
      BY <2>4, FlattenType
    <3>3. e \in Seq(S)
      BY <2>4
    <3> QED BY <3>1, <3>2, <3>3
  <2>9. FlattenSeq(s \o pre(m + 1)) = FlattenSeq(s) \o FlattenSeq(pre(m + 1))
    BY <2>3, <2>4, <2>5, <2>6, <2>7, <2>8
  <2> QED BY <2>1, <2>9
<1>4. pre(N) = u
  BY SubSeqFull
<1> HIDE DEF T
<1>5. N \in T
  <2> HIDE DEF N
  <2> QED BY <1>1, <1>2, <1>3, Climb
<1>6. FlattenSeq(s \o pre(N)) = FlattenSeq(s) \o FlattenSeq(pre(N))
  BY <1>5 DEF T
<1> QED BY <1>4, <1>6

-----------------------------------------------------------------------------
(* One line.                                                               *)

Current == [id : Text \cup {None}, event : Text \cup {None}, data : Seq(Text)]
Progress == [current : Current, out : Seq(Current)]

NoLF(t) == \A i \in 1..Len(t) : t[i] # "LF"

\* A set of numbers that is not empty has a least element.
LEMMA LeastNumber ==
  ASSUME NEW T, T \subseteq Nat, T # {}
  PROVE  Min(T) \in T /\ \A y \in T : Min(T) <= y
<1>1. PICK x \in T : \A y \in T : ~ (<<y, x>> \in OpToRel(<, Nat))
  BY NatLessThanWellFounded, WFMin
<1>2. ASSUME NEW y \in T PROVE x <= y
  <2>1. <<y, x>> \in OpToRel(<, Nat) <=> <<y, x>> \in Nat \X Nat /\ <<y, x>>[1] < <<y, x>>[2]
    BY ZenonT(20) DEF OpToRel
  <2>2. <<y, x>> \in Nat \X Nat /\ <<y, x>>[1] = y /\ <<y, x>>[2] = x
    OBVIOUS
  <2>3. ~ (y < x)
    BY <1>1, <2>1, <2>2
  <2> QED BY <2>3
<1> QED BY <1>1, <1>2 DEF Min

\* FirstOf is indexOf.
LEMMA FirstOfFacts ==
  ASSUME NEW t \in Text, NEW x
  PROVE  /\ FirstOf(x, t) \in 0..Len(t)
         /\ FirstOf(x, t) = 0 <=> \A i \in 1..Len(t) : t[i] # x
         /\ FirstOf(x, t) # 0 =>
              /\ FirstOf(x, t) \in 1..Len(t) /\ t[FirstOf(x, t)] = x
              /\ \A i \in 1..Len(t) : t[i] = x => FirstOf(x, t) <= i
<1> DEFINE I == {i \in 1..Len(t) : t[i] = x}
<1>1. Len(t) \in Nat
  BY LenProperties DEF Text
<1>2. FirstOf(x, t) = IF I # {} THEN Min(I) ELSE 0
  BY DEF FirstOf, SelectInSeq
<1>3. CASE I = {}
  BY <1>1, <1>2, <1>3
<1>4. CASE I # {}
  <2>1. I \subseteq Nat
    BY <1>1
  <2>2. Min(I) \in I /\ \A y \in I : Min(I) <= y
    <3> HIDE DEF I
    <3> QED BY <1>4, <2>1, LeastNumber
  <2>3. FirstOf(x, t) \in I /\ \A y \in I : FirstOf(x, t) <= y
    <3> HIDE DEF I
    <3> QED BY <1>2, <1>4, <2>2
  <2> QED BY <1>1, <2>3
<1> QED BY <1>3, <1>4

\* Where the token is known to stand first.
LEMMA FirstOfIs ==
  ASSUME NEW t \in Text, NEW x, NEW n \in 1..Len(t), t[n] = x,
         \A i \in 1..(n - 1) : t[i] # x
  PROVE  FirstOf(x, t) = n
<1>1. Len(t) \in Nat
  BY LenProperties DEF Text
<1>2. FirstOf(x, t) # 0
  BY FirstOfFacts
<1>3. /\ FirstOf(x, t) \in 1..Len(t) /\ t[FirstOf(x, t)] = x
      /\ FirstOf(x, t) <= n
  BY <1>2, FirstOfFacts
<1> DEFINE m == FirstOf(x, t)
<1> HIDE DEF m
<1>4. m \in 1..Len(t) /\ t[m] = x /\ m <= n
  BY <1>3 DEF m
<1>5. m \notin 1..(n - 1)
  BY <1>4
<1>6. m = n
  BY <1>1, <1>4, <1>5
<1> QED BY <1>6 DEF m

\* A part of a text is a text.
LEMMA PartOfText ==
  ASSUME NEW t \in Text, NEW a \in Nat, NEW b \in Nat, a > 0, b <= Len(t)
  PROVE  SubSeq(t, a, b) \in Text
<1>1. Len(t) \in Nat /\ \A i \in 1..Len(t) : t[i] \in Tokens
  BY LenProperties, ElementOfSeq DEF Text
<1>2. \A i \in a..b : i \in 1..Len(t)
  BY <1>1
<1>3. a \in Int /\ b \in Int
  OBVIOUS
<1> QED BY <1>1, <1>2, <1>3, SubSeqProperties DEF Text

LEMMA LineTypes ==
  ASSUME NEW line \in Text
  PROVE  StripCR(line) \in Text /\ FieldOf(line) \in Text /\ ValueOf(line) \in Text
<1>1. Len(line) \in Nat /\ <<>> \in Text
  BY LenProperties DEF Text
<1>2. StripCR(line) \in Text
  <2>1. CASE line # <<>>
    <3>1. Len(line) \in Nat /\ Len(line) # 0
      BY <2>1, EmptySeq DEF Text
    <3>2. Front(line) \in Text
      <4>1. Len(line) - 1 \in Nat /\ Len(line) - 1 <= Len(line) /\ 1 \in Nat
        BY <3>1
      <4> QED BY <4>1, PartOfText DEF Front
    <3> QED BY <3>2 DEF StripCR
  <2> QED BY <2>1 DEF StripCR
<1> DEFINE n == FirstOf(":", line)
<1>3. n \in Nat /\ n <= Len(line)
  BY <1>1, FirstOfFacts
<1> HIDE DEF n
<1>4. FieldOf(line) \in Text
  <2>1. CASE n = 0
    BY <2>1 DEF FieldOf, n
  <2>2. CASE n # 0
    <3>1. n - 1 \in Nat /\ n - 1 <= Len(line) /\ 1 \in Nat
      BY <1>1, <1>3, <2>2
    <3> QED BY <2>2, <3>1, PartOfText DEF FieldOf, n
  <2> QED BY <2>1, <2>2
<1>5. ValueOf(line) \in Text
  <2> DEFINE value == SubSeq(line, n + 1, Len(line))
  <2>1. value \in Text
    BY <1>1, <1>3, PartOfText
  <2>2. value # <<>> => Tail(value) \in Text
    <3> HIDE DEF value
    <3> QED BY <2>1, HeadTailProperties DEF Text
  <2>3. ValueOf(line) = IF n = 0 THEN <<>>
                        ELSE IF value # <<>> /\ Head(value) = " " THEN Tail(value) ELSE value
    BY DEF ValueOf, n
  <2> HIDE DEF value
  <2> QED BY <1>1, <2>1, <2>2, <2>3
<1> QED BY <1>2, <1>4, <1>5

LEMMA TakeLineType ==
  ASSUME NEW s \in Progress, NEW line \in Text
  PROVE  TakeLine(s, line) \in Progress
<1>1. s.current \in Current /\ s.out \in Seq(Current) /\ s = [current |-> s.current, out |-> s.out]
  BY DEF Progress
<1>2. NoField \in Current
  BY EmptySeq DEF NoField, Current
<1> DEFINE v == ValueOf(line)
<1>3. v \in Text
  BY LineTypes
<1> HIDE DEF v
<1>4. [s EXCEPT !.current.event = v] \in Progress /\ [s EXCEPT !.current.id = v] \in Progress
  BY <1>1, <1>3 DEF Progress, Current
<1>5. [s EXCEPT !.current.data = Append(@, v)] \in Progress
  <2>1. Append(s.current.data, v) \in Seq(Text)
    <3>1. s.current.data \in Seq(Text)
      BY <1>1 DEF Current
    <3> QED BY <1>3, <3>1, AppendProperties
  <2> QED BY <1>1, <2>1 DEF Progress, Current
<1>6. Append(s.out, s.current) \in Seq(Current)
  BY <1>1, AppendProperties
<1>7. CASE line = <<>>
  <2> DEFINE o == IF s.current.data # <<>> \/ Truthy(s.current.event) \/ Truthy(s.current.id)
                  THEN Append(s.out, s.current) ELSE s.out
  <2>1. o \in Seq(Current)
    BY <1>1, <1>6
  <2>2. TakeLine(s, line) = [current |-> NoField, out |-> o]
    BY <1>7 DEF TakeLine
  <2> HIDE DEF o
  <2> QED BY <1>2, <2>1, <2>2 DEF Progress
<1>8. CASE line # <<>> /\ Head(line) # ":" /\ FieldOf(line) = <<"event">>
  BY <1>4, <1>8 DEF TakeLine, v
<1>9. CASE line # <<>> /\ Head(line) # ":" /\ FieldOf(line) = <<"data">>
  BY <1>5, <1>9 DEF TakeLine, v
<1>10. CASE line # <<>> /\ Head(line) # ":" /\ FieldOf(line) = <<"id">>
  BY <1>4, <1>10 DEF TakeLine, v
<1>11. CASE /\ line # <<>>
            /\ Head(line) = ":" \/ FieldOf(line) \notin {<<"event">>, <<"data">>, <<"id">>}
  BY <1>11 DEF TakeLine
<1> QED BY <1>7, <1>8, <1>9, <1>10, <1>11

-----------------------------------------------------------------------------
(* Lines and their text.                                                   *)

Ended(lines) == [k \in 1..Len(lines) |-> lines[k] \o <<"LF">>]
Unlines(lines) == FlattenSeq(Ended(lines))

LEMMA LFIsText == <<"LF">> \in Text
<1>1. "LF" \in Tokens
  BY TokenAssumption
<1>2. ASSUME NEW x \in Tokens PROVE <<x>> \in Seq(Tokens)
  OBVIOUS
<1> QED BY <1>1, <1>2 DEF Text

LEMMA EndedFacts ==
  ASSUME NEW L \in Seq(Text)
  PROVE  /\ Ended(L) \in Seq(Text)
         /\ Len(Ended(L)) = Len(L)
         /\ \A k \in 1..Len(L) : Ended(L)[k] = L[k] \o <<"LF">>
<1>1. Len(L) \in Nat /\ \A k \in 1..Len(L) : L[k] \in Text
  BY LenProperties, ElementOfSeq
<1>2. <<"LF">> \in Text
  BY LFIsText
<1>3. \A k \in 1..Len(L) : L[k] \o <<"LF">> \in Text
  BY <1>1, <1>2, ConcatProperties DEF Text
<1> DEFINE N == Len(L)
           e(k) == L[k] \o <<"LF">>
<1> HIDE DEF N, e
<1>4. N \in Nat /\ \A k \in 1..N : e(k) \in Text
  BY <1>1, <1>3 DEF N, e
<1>5. [k \in 1..N |-> e(k)] \in Seq(Text)
  BY <1>4, IsASeq
<1>6. Len([k \in 1..N |-> e(k)]) = N
  BY <1>4
<1>7. Ended(L) = [k \in 1..N |-> e(k)]
  BY DEF Ended, N, e
<1> QED BY <1>1, <1>5, <1>6, <1>7 DEF N, e

LEMMA UnlinesType ==
  ASSUME NEW L \in Seq(Text)
  PROVE  Unlines(L) \in Text
<1>1. Ended(L) \in Seq(Seq(Tokens))
  BY EndedFacts DEF Text
<1> QED BY <1>1, FlattenType DEF Unlines, Text

LEMMA UnlinesEmpty == Unlines(<<>>) = <<>>
<1>1. Len(<<>>) = 0 /\ Ended(<<>>) = <<>>
  BY DEF Ended
<1> QED BY <1>1, FlattenEmpty DEF Unlines

LEMMA UnlinesConcat ==
  ASSUME NEW A \in Seq(Text), NEW B \in Seq(Text)
  PROVE  Unlines(A \o B) = Unlines(A) \o Unlines(B)
<1> DEFINE C == A \o B
<1>1. /\ C \in Seq(Text) /\ Len(C) = Len(A) + Len(B)
      /\ \A i \in 1 .. Len(A) + Len(B) : C[i] = IF i <= Len(A) THEN A[i] ELSE B[i - Len(A)]
  BY ConcatProperties
<1> HIDE DEF C
<1>2. /\ Ended(A) \in Seq(Text) /\ Len(Ended(A)) = Len(A)
      /\ \A k \in 1..Len(A) : Ended(A)[k] = A[k] \o <<"LF">>
  BY EndedFacts
<1>3. /\ Ended(B) \in Seq(Text) /\ Len(Ended(B)) = Len(B)
      /\ \A k \in 1..Len(B) : Ended(B)[k] = B[k] \o <<"LF">>
  BY EndedFacts
<1>4. /\ Ended(C) \in Seq(Text) /\ Len(Ended(C)) = Len(C)
      /\ \A k \in 1..Len(C) : Ended(C)[k] = C[k] \o <<"LF">>
  BY <1>1, EndedFacts
<1> DEFINE D == Ended(A) \o Ended(B)
<1>5. /\ D \in Seq(Text) /\ Len(D) = Len(Ended(A)) + Len(Ended(B))
      /\ \A i \in 1 .. Len(Ended(A)) + Len(Ended(B)) :
           D[i] = IF i <= Len(Ended(A)) THEN Ended(A)[i] ELSE Ended(B)[i - Len(Ended(A))]
  <2>1. ASSUME NEW a \in Seq(Text), NEW b \in Seq(Text)
        PROVE  /\ a \o b \in Seq(Text) /\ Len(a \o b) = Len(a) + Len(b)
               /\ \A i \in 1 .. Len(a) + Len(b) :
                    (a \o b)[i] = IF i <= Len(a) THEN a[i] ELSE b[i - Len(a)]
    BY ConcatProperties
  <2> QED BY <1>2, <1>3, <2>1
<1> HIDE DEF D
<1>6. Len(A) \in Nat /\ Len(B) \in Nat
  BY LenProperties
<1>7. ASSUME NEW i \in 1..Len(C) PROVE Ended(C)[i] = D[i]
  <2>1. i \in 1 .. Len(A) + Len(B) /\ Ended(C)[i] = C[i] \o <<"LF">>
    BY <1>1, <1>4
  <2>2. CASE i <= Len(A)
    <3>1. i \in 1..Len(A) /\ C[i] = A[i] /\ D[i] = Ended(A)[i]
      BY <1>1, <1>2, <1>3, <1>5, <1>6, <2>1, <2>2
    <3> QED BY <1>2, <2>1, <3>1
  <2>3. CASE ~(i <= Len(A))
    <3>1. i - Len(A) \in 1..Len(B) /\ C[i] = B[i - Len(A)] /\ D[i] = Ended(B)[i - Len(A)]
      BY <1>1, <1>2, <1>3, <1>5, <1>6, <2>1, <2>3
    <3> QED BY <1>3, <2>1, <3>1
  <2> QED BY <2>2, <2>3
<1>8. Len(Ended(C)) = Len(D)
  BY <1>1, <1>2, <1>3, <1>4, <1>5
<1>9. Ended(C) = D
  BY <1>4, <1>5, <1>7, <1>8, SeqEqual
<1>10. Ended(A) \in Seq(Seq(Tokens)) /\ Ended(B) \in Seq(Seq(Tokens))
  BY <1>2, <1>3 DEF Text
<1>11. FlattenSeq(Ended(A) \o Ended(B)) = FlattenSeq(Ended(A)) \o FlattenSeq(Ended(B))
  BY <1>10, FlattenConcat
<1> QED BY <1>9, <1>11 DEF Unlines, C, D

LEMMA UnlinesOne ==
  ASSUME NEW l \in Text
  PROVE  Unlines(<<l>>) = l \o <<"LF">> /\ l \o <<"LF">> \in Text
<1>1. <<l>> \in Seq(Text) /\ Len(<<l>>) = 1 /\ <<l>>[1] = l
  OBVIOUS
<1>2. Ended(<<l>>) = << l \o <<"LF">> >>
  BY <1>1 DEF Ended
<1>3. <<"LF">> \in Text
  BY LFIsText
<1>4. l \o <<"LF">> \in Text
  BY <1>3, ConcatProperties DEF Text
<1>5. FlattenSeq(<< l \o <<"LF">> >>) = l \o <<"LF">>
  BY <1>4, FlattenOne DEF Text
<1> QED BY <1>2, <1>4, <1>5 DEF Unlines

-----------------------------------------------------------------------------
(* Lines taken one after the other.                                        *)

\* The parser's fields and events after the lines, from s on.
Folded(lines, s) ==
  LET f[k \in 0..Len(lines)] ==
        IF k = 0 THEN s ELSE TakeLine(f[k - 1], StripCR(lines[k]))
  IN  f[Len(lines)]

LEMMA FoldedBySteps ==
  ASSUME NEW L \in Seq(Text), NEW s \in Progress
  PROVE  \E f \in [0..Len(L) -> Progress] :
           /\ f[0] = s
           /\ \A k \in 1..Len(L) : f[k] = TakeLine(f[k - 1], StripCR(L[k]))
           /\ Folded(L, s) = f[Len(L)]
<1> DEFINE N == Len(L)
           G == [x \in Progress \X (1..N) |-> TakeLine(x[1], StripCR(L[x[2]]))]
           Step(g, k) == IF k = 0 THEN s ELSE TakeLine(g[k - 1], StripCR(L[k]))
           F == CHOOSE g : g = [k \in 0..N |-> Step(g, k)]
<1>1. N \in Nat /\ \A k \in 1..N : StripCR(L[k]) \in Text
  BY LenProperties, ElementOfSeq, LineTypes
<1>2. G \in [Progress \X (1..N) -> Progress]
  BY <1>1, TakeLineType
<1>3. \E f : Unfolds(f, N, Progress, s, G)
  <2> HIDE DEF G, N
  <2> QED BY <1>1, <1>2, Recursion
<1>4. PICK f \in [0..N -> Progress] : f[0] = s /\ \A k \in 1..N : f[k] = G[<<f[k - 1], k>>]
  <2> HIDE DEF G, N
  <2> QED BY <1>3 DEF Unfolds
<1>5. ASSUME NEW k \in 1..N PROVE f[k] = TakeLine(f[k - 1], StripCR(L[k]))
  <2>1. k - 1 \in 0..N
    BY <1>1
  <2>2. f[k - 1] \in Progress
    BY <1>4, <2>1
  <2> QED BY <1>4, <2>2
<1> HIDE DEF G
<1>6. f = [k \in 0..N |-> Step(f, k)]
  <2>1. ASSUME NEW k \in 0..N PROVE f[k] = Step(f, k)
    <3>1. k = 0 \/ k \in 1..N
      BY <1>1
    <3> QED BY <1>4, <1>5, <3>1
  <2>2. f = [k \in 0..N |-> f[k]]
    BY <1>4
  <2> HIDE DEF Step
  <2> QED BY <2>1, <2>2
<1>7. F = [k \in 0..N |-> Step(F, k)]
  <2> HIDE DEF Step
  <2> QED BY <1>6
<1>8. Folded(L, s) = F[N]
  BY DEF Folded
<1> HIDE DEF F
<1>9. F[0] = s /\ \A k \in 1..N : F[k] = TakeLine(F[k - 1], StripCR(L[k]))
  <2>1. F[0] = s
    <3>1. 0 \in 0..N
      BY <1>1
    <3> QED BY <1>7, <3>1
  <2>2. ASSUME NEW k \in 1..N PROVE F[k] = TakeLine(F[k - 1], StripCR(L[k]))
    <3>1. k \in 0..N /\ k # 0
      BY <1>1
    <3> QED BY <1>7, <3>1
  <2> QED BY <2>1, <2>2
<1>10. F \in [0..N -> Progress]
  <2> DEFINE T == {k \in 0..N : F[k] = f[k]}
  <2>1. 0 \in T
    BY <1>1, <1>4, <1>9
  <2>2. ASSUME NEW k \in 0..(N - 1), k \in T PROVE k + 1 \in T
    <3>1. k + 1 \in 0..N /\ k + 1 \in 1..N /\ (k + 1) - 1 = k
      BY <1>1
    <3>2. F[k + 1] = TakeLine(F[k], StripCR(L[k + 1])) /\ f[k + 1] = TakeLine(f[k], StripCR(L[k + 1]))
      BY <1>5, <1>9, <3>1
    <3> QED BY <2>2, <3>1, <3>2
  <2> HIDE DEF T, N
  <2>3. \A k \in 0..N : k \in T
    BY <1>1, <2>1, <2>2, Climb
  <2>4. \A k \in 0..N : F[k] = f[k]
    BY <2>3 DEF T
  <2>5. F = f
    <3>1. F = [k \in 0..N |-> F[k]] /\ f = [k \in 0..N |-> f[k]]
      <4> HIDE DEF Step
      <4> QED BY <1>4, <1>7
    <3> QED BY <2>4, <3>1
  <2> QED BY <1>4, <2>5
<1> QED BY <1>8, <1>9, <1>10

LEMMA FoldedEmpty ==
  ASSUME NEW s \in Progress
  PROVE  Folded(<<>>, s) = s
<1>1. <<>> \in Seq(Text) /\ Len(<<>>) = 0
  OBVIOUS
<1>2. PICK f \in [0..0 -> Progress] : f[0] = s /\ Folded(<<>>, s) = f[0]
  <2>1. \E f \in [0..Len(<<>>) -> Progress] : f[0] = s /\ Folded(<<>>, s) = f[Len(<<>>)]
    <3>1. ASSUME NEW L \in Seq(Text)
          PROVE  \E f \in [0..Len(L) -> Progress] : f[0] = s /\ Folded(L, s) = f[Len(L)]
      BY FoldedBySteps
    <3> QED BY <1>1, <3>1
  <2> QED BY <1>1, <2>1
<1> QED BY <1>2

LEMMA FoldedType ==
  ASSUME NEW L \in Seq(Text), NEW s \in Progress
  PROVE  Folded(L, s) \in Progress
<1>1. PICK f \in [0..Len(L) -> Progress] : Folded(L, s) = f[Len(L)]
  BY FoldedBySteps
<1>2. Len(L) \in 0..Len(L)
  BY LenProperties
<1> QED BY <1>1, <1>2

LEMMA FoldedAppend ==
  ASSUME NEW L \in Seq(Text), NEW l \in Text, NEW s \in Progress
  PROVE  Folded(Append(L, l), s) = TakeLine(Folded(L, s), StripCR(l))
<1> DEFINE u == Append(L, l)
           N == Len(L)
<1>1. /\ u \in Seq(Text) /\ Len(u) = N + 1 /\ N \in Nat
      /\ \A i \in 1..N : u[i] = L[i]
      /\ u[N + 1] = l
  BY AppendProperties, LenProperties
<1>2. PICK f \in [0..N -> Progress] :
        /\ f[0] = s
        /\ \A k \in 1..N : f[k] = TakeLine(f[k - 1], StripCR(L[k]))
        /\ Folded(L, s) = f[N]
  BY FoldedBySteps
<1> HIDE DEF u, N
<1>3. PICK g \in [0..(N + 1) -> Progress] :
        /\ g[0] = s
        /\ \A k \in 1..(N + 1) : g[k] = TakeLine(g[k - 1], StripCR(u[k]))
        /\ Folded(u, s) = g[N + 1]
  <2>1. PICK g \in [0..Len(u) -> Progress] :
        /\ g[0] = s
        /\ \A k \in 1..Len(u) : g[k] = TakeLine(g[k - 1], StripCR(u[k]))
        /\ Folded(u, s) = g[Len(u)]
    BY <1>1, FoldedBySteps
  <2> QED BY <1>1, <2>1
<1> DEFINE T == {k \in 0..N : f[k] = g[k]}
<1>4. 0 \in T
  BY <1>1, <1>2, <1>3
<1>5. ASSUME NEW k \in 0..(N - 1), k \in T PROVE k + 1 \in T
  <2>1. k + 1 \in 0..N /\ k + 1 \in 1..N /\ k + 1 \in 1..(N + 1) /\ (k + 1) - 1 = k
    BY <1>1
  <2>2. f[k + 1] = TakeLine(f[k], StripCR(L[k + 1])) /\ g[k + 1] = TakeLine(g[k], StripCR(u[k + 1]))
    BY <1>2, <1>3, <2>1
  <2>3. f[k] = g[k] /\ u[k + 1] = L[k + 1]
    BY <1>1, <1>5, <2>1
  <2> QED BY <2>1, <2>2, <2>3
<1> HIDE DEF T
<1>6. N \in T
  <2>1. \A k \in 0..N : k \in T
    BY <1>1, <1>4, <1>5, Climb
  <2> QED BY <1>1, <2>1
<1>7. f[N] = g[N]
  BY <1>6 DEF T
<1>8. N + 1 \in 1..(N + 1) /\ (N + 1) - 1 = N
  BY <1>1
<1>9. g[N + 1] = TakeLine(g[N], StripCR(l))
  BY <1>1, <1>3, <1>8
<1> QED BY <1>2, <1>3, <1>7, <1>9 DEF u

LEMMA FoldedOne ==
  ASSUME NEW l \in Text, NEW s \in Progress
  PROVE  Folded(<<l>>, s) = TakeLine(s, StripCR(l))
<1>1. <<>> \in Seq(Text) /\ Append(<<>>, l) = <<l>>
  OBVIOUS
<1>2. Folded(Append(<<>>, l), s) = TakeLine(Folded(<<>>, s), StripCR(l))
  BY <1>1, FoldedAppend
<1> QED BY <1>1, <1>2, FoldedEmpty

LEMMA FoldedConcat ==
  ASSUME NEW A \in Seq(Text), NEW B \in Seq(Text), NEW s \in Progress
  PROVE  Folded(A \o B, s) = Folded(B, Folded(A, s))
<1> DEFINE N == Len(B)
           pre(m) == SubSeq(B, 1, m)
           T == {m \in 0..N : Folded(A \o pre(m), s) = Folded(pre(m), Folded(A, s))}
<1>1. N \in Nat /\ N \in 0..N
  BY LenProperties
<1>0. Folded(A, s) \in Progress
  BY FoldedType
<1>2. 0 \in T
  <2>1. pre(0) = <<>> /\ 0 \in 0..N
    BY <1>1, SubSeqEmpty
  <2>2. A \o <<>> = A
    BY ConcatEmptySeq
  <2>3. Folded(<<>>, Folded(A, s)) = Folded(A, s)
    BY <1>0, FoldedEmpty
  <2> QED BY <2>1, <2>2, <2>3
<1>3. ASSUME NEW m \in 0..(N - 1), m \in T PROVE m + 1 \in T
  <2>1. m + 1 \in 0..N /\ m \in Nat /\ m < N
    BY <1>1
  <2>2. pre(m) \in Seq(Text) /\ B[m + 1] \in Text /\ pre(m + 1) = Append(pre(m), B[m + 1])
    BY <2>1, PrefixStep
  <2> DEFINE p == pre(m)
             x == B[m + 1]
  <2>3. A \o p \in Seq(Text)
    BY <2>2, ConcatProperties
  <2>4. A \o Append(p, x) = Append(A \o p, x)
    BY <2>2, ConcatAppend
  <2>5. Folded(A \o p, s) = Folded(p, Folded(A, s))
    BY <1>3
  <2>6. pre(m + 1) = Append(p, x) /\ p \in Seq(Text) /\ x \in Text
    BY <2>2
  <2> HIDE DEF p, x
  <2>7. Folded(Append(A \o p, x), s) = TakeLine(Folded(A \o p, s), StripCR(x))
    BY <2>3, <2>6, FoldedAppend
  <2>8. Folded(Append(p, x), Folded(A, s)) = TakeLine(Folded(p, Folded(A, s)), StripCR(x))
    BY <1>0, <2>6, FoldedAppend
  <2> HIDE DEF pre
  <2> QED BY <2>1, <2>4, <2>5, <2>6, <2>7, <2>8
<1> HIDE DEF T
<1>4. N \in T
  <2>1. \A m \in 0..N : m \in T
    BY <1>1, <1>2, <1>3, Climb
  <2> QED BY <1>1, <2>1
<1>5. pre(N) = B
  BY SubSeqFull
<1> QED BY <1>4, <1>5 DEF T

\* The events of lines are those a client held, and those they complete.
LEMMA TakeLineOut ==
  ASSUME NEW c \in Current, NEW o \in Seq(Current), NEW line \in Text
  PROVE  TakeLine([current |-> c, out |-> o], line) =
           [current |-> TakeLine([current |-> c, out |-> <<>>], line).current,
            out |-> o \o TakeLine([current |-> c, out |-> <<>>], line).out]
<1>1. /\ o \o <<>> = o
      /\ o \o Append(<<>>, c) = Append(o, c)
  <2>1. o \o <<>> = o
    BY ConcatEmptySeq
  <2>2. <<>> \in Seq(Current)
    OBVIOUS
  <2>3. o \o Append(<<>>, c) = Append(o \o <<>>, c)
    BY <2>2, ConcatAppend
  <2> QED BY <2>1, <2>3
<1> DEFINE s == [current |-> c, out |-> o]
           e == [current |-> c, out |-> <<>>]
<1>2. CASE line = <<>>
  BY <1>1, <1>2 DEF TakeLine
<1>3. CASE line # <<>> /\ Head(line) # ":" /\ FieldOf(line) = <<"event">>
  <2>1. TakeLine(s, line) = [s EXCEPT !.current.event = ValueOf(line)] /\ TakeLine(e, line) = [e EXCEPT !.current.event = ValueOf(line)]
    BY <1>3 DEF TakeLine
  <2> QED BY <1>1, <2>1
<1>4. CASE line # <<>> /\ Head(line) # ":" /\ FieldOf(line) = <<"data">>
  <2>1. TakeLine(s, line) = [s EXCEPT !.current.data = Append(@, ValueOf(line))] /\ TakeLine(e, line) = [e EXCEPT !.current.data = Append(@, ValueOf(line))]
    BY <1>4 DEF TakeLine
  <2> QED BY <1>1, <2>1
<1>5. CASE line # <<>> /\ Head(line) # ":" /\ FieldOf(line) = <<"id">>
  <2>1. TakeLine(s, line) = [s EXCEPT !.current.id = ValueOf(line)] /\ TakeLine(e, line) = [e EXCEPT !.current.id = ValueOf(line)]
    BY <1>5 DEF TakeLine
  <2> QED BY <1>1, <2>1
<1>6. CASE line # <<>> /\ ~(Head(line) # ":" /\ FieldOf(line) \in {<<"event">>, <<"data">>, <<"id">>})
  <2>1. TakeLine(s, line) = s /\ TakeLine(e, line) = e
    BY <1>6 DEF TakeLine
  <2> QED BY <1>1, <2>1
<1> QED BY <1>2, <1>3, <1>4, <1>5, <1>6

LEMMA FoldedOut ==
  ASSUME NEW L \in Seq(Text), NEW c \in Current, NEW o \in Seq(Current)
  PROVE  LET e == Folded(L, [current |-> c, out |-> <<>>])
         IN  Folded(L, [current |-> c, out |-> o]) = [current |-> e.current, out |-> o \o e.out]
<1> DEFINE N == Len(L)
           pre(m) == SubSeq(L, 1, m)
           s == [current |-> c, out |-> o]
           z == [current |-> c, out |-> <<>>]
           With(e) == [current |-> e.current, out |-> o \o e.out]
           T == {m \in 0..N : Folded(pre(m), s) = With(Folded(pre(m), z))}
<1>1. N \in Nat /\ N \in 0..N
  BY LenProperties
<1>2. s \in Progress /\ z \in Progress
  BY DEF Progress
<1>3. 0 \in T
  <2>1. pre(0) = <<>> /\ 0 \in 0..N
    BY <1>1, SubSeqEmpty
  <2>2. Folded(<<>>, s) = s /\ Folded(<<>>, z) = z
    BY <1>2, FoldedEmpty
  <2>3. With(z) = s
    BY ConcatEmptySeq
  <2> HIDE DEF With, s, z, pre
  <2> QED BY <2>1, <2>2, <2>3
<1>4. ASSUME NEW m \in 0..(N - 1), m \in T PROVE m + 1 \in T
  <2>1. m + 1 \in 0..N /\ m \in Nat /\ m < N
    BY <1>1
  <2>2. pre(m) \in Seq(Text) /\ L[m + 1] \in Text /\ pre(m + 1) = Append(pre(m), L[m + 1])
    BY <2>1, PrefixStep
  <2> DEFINE p == pre(m)
             x == StripCR(L[m + 1])
             e == Folded(p, z)
             t == TakeLine([current |-> e.current, out |-> <<>>], x)
  <2>3. Folded(p, s) = With(e)
    BY <1>4
  <2>4. /\ p \in Seq(Text) /\ x \in Text
        /\ Folded(pre(m + 1), s) = TakeLine(Folded(p, s), x)
        /\ Folded(pre(m + 1), z) = TakeLine(e, x)
    <3>1. ASSUME NEW q \in Seq(Text), NEW l \in Text, NEW y \in Progress
          PROVE  Folded(Append(q, l), y) = TakeLine(Folded(q, y), StripCR(l)) /\ StripCR(l) \in Text
      BY FoldedAppend, LineTypes
    <3> DEFINE l == L[m + 1]
               q == pre(m + 1)
    <3>2. p \in Seq(Text) /\ l \in Text /\ q = Append(p, l) /\ s \in Progress /\ z \in Progress
      BY <1>2, <2>2
    <3> HIDE DEF s, z, p, l, q
    <3>3. StripCR(l) \in Text /\ Folded(q, s) = TakeLine(Folded(p, s), StripCR(l))
          /\ Folded(q, z) = TakeLine(Folded(p, z), StripCR(l))
      BY <3>1, <3>2
    <3> QED BY <3>2, <3>3 DEF l, q
  <2>5. e \in Progress
    BY <1>2, <2>4, FoldedType
  <2> HIDE DEF e, p, x
  <2>6. e.current \in Current /\ e.out \in Seq(Current) /\ o \o e.out \in Seq(Current)
        /\ e = [current |-> e.current, out |-> e.out]
    BY <2>5, ConcatProperties DEF Progress
  <2>7. TakeLine(e, x) = [current |-> t.current, out |-> e.out \o t.out]
    BY <2>4, <2>6, TakeLineOut
  <2>8. TakeLine(With(e), x) = [current |-> t.current, out |-> (o \o e.out) \o t.out]
    BY <2>4, <2>6, TakeLineOut
  <2>9. t \in Progress
    <3>1. [current |-> e.current, out |-> <<>>] \in Progress
      BY <2>6 DEF Progress
    <3> QED BY <2>4, <3>1, TakeLineType
  <2> HIDE DEF t
  <2>10. t.out \in Seq(Current)
    BY <2>9 DEF Progress
  <2>11. (o \o e.out) \o t.out = o \o (e.out \o t.out)
    <3>1. ASSUME NEW a \in Seq(Current), NEW b \in Seq(Current)
          PROVE  (o \o a) \o b = o \o (a \o b)
      BY ConcatAssociative
    <3> QED BY <2>6, <2>10, <3>1
  <2>12. With(TakeLine(e, x)) = TakeLine(With(e), x)
    BY <2>7, <2>8, <2>11
  <2> HIDE DEF With, s, z, pre
  <2> QED BY <2>1, <2>3, <2>4, <2>12
<1> HIDE DEF T
<1>5. N \in T
  <2>1. \A m \in 0..N : m \in T
    BY <1>1, <1>3, <1>4, Climb
  <2> QED BY <1>1, <2>1
<1>6. pre(N) = L
  BY SubSeqFull
<1> QED BY <1>5, <1>6 DEF T

LEMMA PartsOfConcat ==
  ASSUME NEW S, NEW a \in Seq(S), NEW b \in Seq(S)
  PROVE  /\ SubSeq(a \o b, 1, Len(a)) = a
         /\ SubSeq(a \o b, Len(a) + 1, Len(a \o b)) = b
<1> DEFINE c == a \o b
           n == Len(a)
           m == Len(b)
<1>1. /\ n \in Nat /\ m \in Nat /\ c \in Seq(S) /\ Len(c) = n + m
      /\ \A i \in 1..(n + m) : c[i] = IF i <= n THEN a[i] ELSE b[i - n]
      /\ \A i \in 1..n : a[i] \in S
      /\ \A i \in 1..m : b[i] \in S
  BY LenProperties, ConcatProperties, ElementOfSeq
<1> HIDE DEF c, n, m
<1>2. SubSeq(c, 1, n) = a
  <2>1. n \in 0..Len(c)
    BY <1>1
  <2> DEFINE d == SubSeq(c, 1, n)
  <2>2. d \in Seq(S) /\ Len(d) = n /\ \A i \in 1..n : d[i] = c[i]
    BY <1>1, <2>1, PrefixFacts
  <2> HIDE DEF d
  <2>3. Len(d) = Len(a)
    BY <2>2 DEF n
  <2>4. ASSUME NEW i \in 1..Len(d) PROVE d[i] = a[i]
    <3>1. i \in 1..n /\ i \in 1..(n + m) /\ i <= n
      BY <1>1, <2>2
    <3> QED BY <1>1, <2>2, <3>1
  <2>5. d = a
    BY <2>2, <2>3, <2>4, SeqEqual
  <2> QED BY <2>5 DEF d
<1>3. SubSeq(c, n + 1, n + m) = b
  <2> DEFINE d == SubSeq(c, n + 1, n + m)
  <2>1. \A i \in (n + 1)..(n + m) : c[i] \in S
    <3>1. ASSUME NEW i \in (n + 1)..(n + m) PROVE i \in 1..(n + m)
      BY <1>1
    <3>2. \A i \in 1..Len(c) : c[i] \in S
      BY <1>1, ElementOfSeq
    <3> QED BY <1>1, <3>1, <3>2
  <2>2. n + 1 \in Int /\ n + m \in Int /\ (n + m) - (n + 1) + 1 = m /\ (n + 1 <= n + m <=> m # 0)
    BY <1>1
  <2>3. /\ d \in Seq(S)
        /\ Len(d) = IF n + 1 <= n + m THEN (n + m) - (n + 1) + 1 ELSE 0
        /\ \A i \in 1 .. (n + m) - (n + 1) + 1 : d[i] = c[(n + 1) + i - 1]
    BY <2>1, <2>2, SubSeqProperties
  <2> HIDE DEF d
  <2>4. Len(d) = Len(b) /\ Len(d) = m
    BY <1>1, <2>2, <2>3 DEF m
  <2>5. ASSUME NEW i \in 1..Len(d) PROVE d[i] = b[i]
    <3>1. i \in 1..m
      BY <2>4, <2>5
    <3>2. n + i \in 1..(n + m) /\ (n + 1) + i - 1 = n + i /\ ~ (n + i <= n) /\ (n + i) - n = i
      BY <1>1, <3>1
    <3>3. d[i] = c[n + i]
      BY <2>2, <2>3, <3>1, <3>2
    <3> QED BY <1>1, <3>2, <3>3
  <2>6. d = b
    BY <2>3, <2>4, <2>5, SeqEqual
  <2> QED BY <2>6 DEF d
<1> QED BY <1>1, <1>2, <1>3 DEF c, n

\* The first line of a text.
LEMMA FirstLine ==
  ASSUME NEW l \in Text, NoLF(l), NEW r \in Text
  PROVE  LET b == (l \o <<"LF">>) \o r
         IN  /\ b \in Text /\ Len(l) \in Nat /\ Len(b) = Len(l) + 1 + Len(r)
             /\ FirstOf("LF", b) = Len(l) + 1
             /\ SubSeq(b, 1, Len(l)) = l
             /\ SubSeq(b, Len(l) + 2, Len(b)) = r
<1> DEFINE h == l \o <<"LF">>
           b == h \o r
           n == Len(l)
<1>1. l \in Seq(Tokens) /\ r \in Seq(Tokens) /\ <<"LF">> \in Seq(Tokens) /\ Len(<<"LF">>) = 1 /\ <<"LF">>[1] = "LF"
  BY LFIsText DEF Text
<1>2. /\ h \in Seq(Tokens) /\ Len(h) = n + 1 /\ n \in Nat
      /\ \A i \in 1..(n + 1) : h[i] = IF i <= n THEN l[i] ELSE <<"LF">>[i - n]
  BY <1>1, ConcatProperties, LenProperties
<1>3. h[n + 1] = "LF" /\ \A i \in 1..n : h[i] = l[i]
  <2>1. n + 1 \in 1..(n + 1) /\ ~ (n + 1 <= n) /\ (n + 1) - n = 1
    BY <1>2
  <2>2. h[n + 1] = <<"LF">>[1]
    BY <1>2, <2>1
  <2>3. ASSUME NEW i \in 1..n PROVE h[i] = l[i]
    <3>1. i \in 1..(n + 1) /\ i <= n
      BY <1>2
    <3> QED BY <1>2, <3>1
  <2> HIDE DEF h, n
  <2> QED BY <1>1, <2>2, <2>3
<1>4. SubSeq(h, 1, n) = l
  BY <1>1, PartsOfConcat
<1> HIDE DEF h, n
<1>5. /\ b \in Seq(Tokens) /\ Len(b) = Len(h) + Len(r) /\ Len(r) \in Nat
      /\ \A i \in 1..(Len(h) + Len(r)) : b[i] = IF i <= Len(h) THEN h[i] ELSE r[i - Len(h)]
  BY <1>1, <1>2, ConcatProperties, LenProperties
<1>6. SubSeq(b, Len(h) + 1, Len(b)) = r
  BY <1>1, <1>2, PartsOfConcat
<1> HIDE DEF b
<1>7. \A i \in 1..(n + 1) : i \in 1..Len(b) /\ b[i] = h[i]
  BY <1>2, <1>5
<1>8. FirstOf("LF", b) = n + 1
  <2>1. n + 1 \in 1..Len(b) /\ b[n + 1] = "LF"
    <3>1. n + 1 \in 1..(n + 1)
      BY <1>2
    <3> QED BY <1>3, <1>7, <3>1
  <2>2. ASSUME NEW i \in 1..((n + 1) - 1) PROVE b[i] # "LF"
    <3>1. i \in 1..n /\ i \in 1..(n + 1)
      BY <1>2
    <3>2. b[i] = l[i]
      BY <1>3, <1>7, <3>1
    <3> QED BY <3>1, <3>2 DEF NoLF, n
  <2> QED BY <1>5, <2>1, <2>2, FirstOfIs DEF Text
<1>9. SubSeq(b, 1, n) = l
  <2> DEFINE p == SubSeq(b, 1, n)
             q == SubSeq(h, 1, n)
  <2>1. n \in 0..Len(b) /\ n \in 0..Len(h)
    BY <1>2, <1>5
  <2>2. /\ p \in Seq(Tokens) /\ Len(p) = n /\ \A i \in 1..n : p[i] = b[i]
        /\ q \in Seq(Tokens) /\ Len(q) = n /\ \A i \in 1..n : q[i] = h[i]
    BY <1>2, <1>5, <2>1, PrefixFacts
  <2> HIDE DEF p, q
  <2>3. ASSUME NEW i \in 1..Len(p) PROVE p[i] = q[i]
    <3>1. i \in 1..n /\ i \in 1..(n + 1)
      BY <1>2, <2>2
    <3> QED BY <1>7, <2>2, <3>1
  <2>4. p = q
    BY <2>2, <2>3, SeqEqual
  <2> QED BY <1>4, <2>4 DEF p, q
<1>10. b \in Text /\ Len(b) = n + 1 + Len(r) /\ Len(h) + 1 = n + 2 /\ n \in Nat
  BY <1>2, <1>5 DEF Text
<1>11. SubSeq(b, n + 2, Len(b)) = r
  BY <1>6, <1>10
<1> QED BY <1>8, <1>9, <1>10, <1>11 DEF b, h, n

\* A turn takes the first line.
LEMMA TurnTakes ==
  ASSUME NEW l \in Text, NoLF(l), NEW r \in Text, NEW c \in Current, NEW o \in Seq(Current)
  PROVE  LET fed == TakeLine([current |-> c, out |-> o], StripCR(l))
         IN  Turn([buffer |-> (l \o <<"LF">>) \o r, current |-> c, out |-> o])
               = [buffer |-> r, current |-> fed.current, out |-> fed.out]
<1> DEFINE b == (l \o <<"LF">>) \o r
           n == Len(l)
           s == [buffer |-> b, current |-> c, out |-> o]
<1>1. /\ n \in Nat /\ FirstOf("LF", b) = n + 1
      /\ SubSeq(b, 1, n) = l /\ SubSeq(b, n + 2, Len(b)) = r
  BY FirstLine
<1>2. s.buffer = b /\ s.current = c /\ s.out = o
  OBVIOUS
<1> HIDE DEF s, b, n
<1>3. n + 1 # 0 /\ (n + 1) - 1 = n /\ (n + 1) + 1 = n + 2
  BY <1>1
<1>4. Turn(s) = LET fed == TakeLine([current |-> c, out |-> o], StripCR(l))
                IN  [buffer |-> r, current |-> fed.current, out |-> fed.out]
  BY <1>1, <1>2, <1>3 DEF Turn
<1> QED BY <1>4 DEF s, b

Ends(t) == {i \in 1..Len(t) : t[i] = "LF"}

\* As many line ends as lines that are ended.
LEMMA EndsOfLines ==
  ASSUME NEW L \in Seq(Text), \A k \in 1..Len(L) : NoLF(L[k])
  PROVE  IsFiniteSet(Ends(Unlines(L))) /\ Cardinality(Ends(Unlines(L))) = Len(L)
<1> DEFINE N == Len(L)
           pre(m) == SubSeq(L, 1, m)
           Counted(m) == IsFiniteSet(Ends(Unlines(pre(m)))) /\ Cardinality(Ends(Unlines(pre(m)))) = m
           T == {m \in 0..N : Counted(m)}
<1>1. N \in Nat /\ N \in 0..N
  BY LenProperties
<1>2. 0 \in T
  <2>1. pre(0) = <<>> /\ 0 \in 0..N
    BY <1>1, SubSeqEmpty
  <2>2. Ends(<<>>) = {}
    BY DEF Ends
  <2>3. Ends(Unlines(pre(0))) = {}
    BY <2>1, <2>2, UnlinesEmpty
  <2> QED BY <2>1, <2>3, FS_EmptySet
<1>3. ASSUME NEW m \in 0..(N - 1), m \in T PROVE m + 1 \in T
  <2>1. m + 1 \in 0..N /\ m \in Nat /\ m < N /\ m + 1 \in 1..N
    BY <1>1
  <2>2. pre(m) \in Seq(Text) /\ L[m + 1] \in Text /\ pre(m + 1) = Append(pre(m), L[m + 1])
    BY <2>1, PrefixStep
  <2> DEFINE p == pre(m)
             l == L[m + 1]
             u == Unlines(p)
             w == l \o <<"LF">>
             v == u \o w
  <2>3. p \in Seq(Text) /\ l \in Text /\ pre(m + 1) = p \o <<l>> /\ <<l>> \in Seq(Text)
    <3>1. ASSUME NEW q \in Seq(Text), NEW x \in Text PROVE Append(q, x) = q \o <<x>> /\ <<x>> \in Seq(Text)
      BY AppendIsConcat
    <3> HIDE DEF pre
    <3> QED BY <2>2, <3>1
  <2>4. NoLF(l)
    BY <2>1
  <2>5. u \in Text /\ w \in Text /\ Unlines(pre(m + 1)) = v
    <3>1. ASSUME NEW q \in Seq(Text), NEW x \in Text, <<x>> \in Seq(Text)
          PROVE  /\ Unlines(q \o <<x>>) = Unlines(q) \o (x \o <<"LF">>)
                 /\ Unlines(q) \in Text /\ x \o <<"LF">> \in Text
      BY <3>1, UnlinesConcat, UnlinesOne, UnlinesType
    <3> HIDE DEF pre, p, l
    <3> QED BY <2>3, <3>1
  <2>6. IsFiniteSet(Ends(u)) /\ Cardinality(Ends(u)) = m
    BY <1>3
  <2> HIDE DEF u, l, p
  <2>7. /\ Len(w) = Len(l) + 1 /\ Len(l) \in Nat
        /\ \A i \in 1..(Len(l) + 1) : w[i] = IF i <= Len(l) THEN l[i] ELSE <<"LF">>[i - Len(l)]
    <3>1. <<"LF">> \in Seq(Tokens) /\ Len(<<"LF">>) = 1
      BY LFIsText DEF Text
    <3> QED BY <2>3, <3>1, ConcatProperties, LenProperties DEF Text
  <2> DEFINE n == Len(l)
  <2>8. w[n + 1] = "LF" /\ \A i \in 1..n : w[i] # "LF"
    <3>1. n + 1 \in 1..(n + 1) /\ ~ (n + 1 <= n) /\ (n + 1) - n = 1
      BY <2>7
    <3>2. w[n + 1] = <<"LF">>[1]
      BY <2>7, <3>1
    <3>3. ASSUME NEW i \in 1..n PROVE w[i] # "LF"
      <4>1. i \in 1..(n + 1) /\ i <= n
        BY <2>7
      <4>2. w[i] = l[i]
        BY <2>7, <4>1
      <4> QED BY <2>4, <4>2 DEF NoLF
    <3> QED BY <3>2, <3>3
  <2> HIDE DEF w
  <2>9. /\ Len(v) = Len(u) + (n + 1) /\ Len(u) \in Nat /\ n \in Nat
        /\ \A i \in 1..(Len(u) + (n + 1)) : v[i] = IF i <= Len(u) THEN u[i] ELSE w[i - Len(u)]
    <3>1. ASSUME NEW a \in Seq(Tokens), NEW b \in Seq(Tokens)
          PROVE  /\ Len(a \o b) = Len(a) + Len(b) /\ Len(a) \in Nat
                 /\ \A i \in 1..(Len(a) + Len(b)) : (a \o b)[i] = IF i <= Len(a) THEN a[i] ELSE b[i - Len(a)]
      BY ConcatProperties, LenProperties
    <3> QED BY <2>5, <2>7, <3>1 DEF Text
  <2> HIDE DEF v, n
  <2> DEFINE z == Len(u) + (n + 1)
  <2>10. z \notin Ends(u)
    BY <2>9 DEF Ends
  <2>11. Ends(v) = Ends(u) \cup {z}
    <3>1. ASSUME NEW i \in Ends(v) PROVE i \in Ends(u) \cup {z}
      <4>1. i \in 1..(Len(u) + (n + 1)) /\ v[i] = "LF"
        BY <2>9 DEF Ends
      <4>2. CASE i <= Len(u)
        <5>1. i \in 1..Len(u) /\ u[i] = "LF"
          BY <2>9, <4>1, <4>2
        <5> QED BY <5>1 DEF Ends
      <4>3. CASE ~ (i <= Len(u))
        <5>1. w[i - Len(u)] = "LF" /\ i - Len(u) \in 1..(n + 1)
          BY <2>9, <4>1, <4>3
        <5>2. i - Len(u) = n + 1
          <6>1. i - Len(u) \notin 1..n
            BY <2>8, <5>1 DEF n
          <6> QED BY <2>9, <5>1, <6>1
        <5> QED BY <2>9, <4>1, <5>2
      <4> QED BY <4>2, <4>3
    <3>2. ASSUME NEW i \in Ends(u) PROVE i \in Ends(v)
      <4>1. i \in 1..Len(u) /\ u[i] = "LF"
        BY DEF Ends
      <4>2. i \in 1..(Len(u) + (n + 1)) /\ i <= Len(u)
        BY <2>9, <4>1
      <4> QED BY <2>9, <4>1, <4>2 DEF Ends
    <3>3. z \in Ends(v)
      <4>1. z \in 1..(Len(u) + (n + 1)) /\ ~ (z <= Len(u)) /\ z - Len(u) = n + 1
        BY <2>9
      <4>2. v[z] = w[n + 1]
        BY <2>9, <4>1
      <4> QED BY <2>8, <2>9, <4>1, <4>2 DEF Ends, n
    <3> QED BY <3>1, <3>2, <3>3
  <2> HIDE DEF z
  <2>12. IsFiniteSet(Ends(v)) /\ Cardinality(Ends(v)) = m + 1
    BY <2>6, <2>10, <2>11, FS_AddElement
  <2>13. Counted(m + 1)
    BY <2>5, <2>12
  <2> QED BY <2>1, <2>13
<1> HIDE DEF T
<1>4. N \in T
  <2>1. \A m \in 0..N : m \in T
    BY <1>1, <1>2, <1>3, Climb
  <2> QED BY <1>1, <2>1
<1>5. pre(N) = L
  BY SubSeqFull
<1> QED BY <1>4, <1>5 DEF T

LEMMA EndsBefore ==
  ASSUME NEW t \in Text, NEW r \in Text, NoLF(r)
  PROVE  Ends(t \o r) = Ends(t)
<1>1. /\ Len(t \o r) = Len(t) + Len(r) /\ Len(t) \in Nat /\ Len(r) \in Nat
      /\ \A i \in 1..(Len(t) + Len(r)) : (t \o r)[i] = IF i <= Len(t) THEN t[i] ELSE r[i - Len(t)]
  BY ConcatProperties, LenProperties DEF Text
<1> DEFINE v == t \o r
<1> HIDE DEF v
<1>2. ASSUME NEW i \in Ends(v) PROVE i \in Ends(t)
  <2>1. i \in 1..(Len(t) + Len(r)) /\ v[i] = "LF"
    BY <1>1 DEF Ends, v
  <2>2. i <= Len(t)
    <3> SUFFICES ASSUME ~ (i <= Len(t)) PROVE FALSE
      OBVIOUS
    <3>1. i - Len(t) \in 1..Len(r) /\ r[i - Len(t)] = "LF"
      BY <1>1, <2>1 DEF v
    <3> QED BY <3>1 DEF NoLF
  <2>3. i \in 1..Len(t)
    BY <1>1, <2>1, <2>2
  <2>4. t[i] = "LF"
    BY <1>1, <2>1, <2>2 DEF v
  <2> QED BY <2>3, <2>4 DEF Ends
<1>3. ASSUME NEW i \in Ends(t) PROVE i \in Ends(v)
  <2>1. i \in 1..Len(t) /\ t[i] = "LF"
    BY DEF Ends
  <2>2. i \in 1..(Len(t) + Len(r)) /\ i <= Len(t)
    BY <1>1, <2>1
  <2>3. v[i] = "LF" /\ i \in 1..Len(v)
    BY <1>1, <2>1, <2>2 DEF v
  <2> QED BY <2>3 DEF Ends
<1> QED BY <1>2, <1>3 DEF v

Fed == [buffer : Text, current : Current, out : Seq(Current)]

LEMMA TurnType ==
  ASSUME NEW s \in Fed
  PROVE  Turn(s) \in Fed
<1> DEFINE b == s.buffer
           n == FirstOf("LF", b)
           fed == TakeLine([current |-> s.current, out |-> s.out], StripCR(SubSeq(b, 1, n - 1)))
<1>1. b \in Text /\ s.current \in Current /\ s.out \in Seq(Current)
  BY DEF Fed
<1>2. Len(b) \in Nat /\ n \in 0..Len(b)
  BY <1>1, FirstOfFacts, LenProperties DEF Text
<1>3. CASE n = 0
  BY <1>3 DEF Turn
<1>4. CASE n # 0
  <2>1. n - 1 \in Nat /\ n - 1 <= Len(b) /\ n + 1 \in Nat /\ n + 1 > 0 /\ 1 \in Nat
    BY <1>2, <1>4
  <2>2. SubSeq(b, 1, n - 1) \in Text /\ SubSeq(b, n + 1, Len(b)) \in Text
    <3>1. ASSUME NEW t \in Text, NEW i \in Nat, NEW j \in Nat, i > 0, j <= Len(t)
          PROVE  SubSeq(t, i, j) \in Text
      BY <3>1, PartOfText
    <3> HIDE DEF n, b
    <3> QED BY <1>1, <1>2, <2>1, <3>1
  <2>3. fed \in Progress
    <3>1. [current |-> s.current, out |-> s.out] \in Progress
      BY <1>1 DEF Progress
    <3> QED BY <2>2, <3>1, LineTypes, TakeLineType
  <2> HIDE DEF fed
  <2>4. fed.current \in Current /\ fed.out \in Seq(Current)
    BY <2>3 DEF Progress
  <2>5. Turn(s) = [buffer |-> SubSeq(b, n + 1, Len(b)), current |-> fed.current, out |-> fed.out]
    BY <1>4 DEF Turn, fed
  <2> QED BY <2>2, <2>4, <2>5 DEF Fed
<1> QED BY <1>3, <1>4

LEMMA TakeLinesBySteps ==
  ASSUME NEW t \in Text, NEW c \in Current
  PROVE  \E f \in [0..Len(t) -> Fed] :
           /\ f[0] = [buffer |-> t, current |-> c, out |-> <<>>]
           /\ \A k \in 1..Len(t) : f[k] = Turn(f[k - 1])
           /\ TakeLines(t, c) = f[Cardinality(Ends(t))]
<1> DEFINE N == Len(t)
           s == [buffer |-> t, current |-> c, out |-> <<>>]
           G == [x \in Fed \X (1..N) |-> Turn(x[1])]
           Step(g, k) == IF k = 0 THEN s ELSE Turn(g[k - 1])
           F == CHOOSE g : g = [k \in 0..N |-> Step(g, k)]
<1>1. N \in Nat /\ s \in Fed
  BY LenProperties DEF Fed, Text
<1>2. G \in [Fed \X (1..N) -> Fed]
  BY TurnType
<1>3. \E f : Unfolds(f, N, Fed, s, G)
  <2> HIDE DEF G, N, s
  <2> QED BY <1>1, <1>2, Recursion
<1>4. PICK f \in [0..N -> Fed] : f[0] = s /\ \A k \in 1..N : f[k] = G[<<f[k - 1], k>>]
  <2> HIDE DEF G, N, s
  <2> QED BY <1>3 DEF Unfolds
<1>5. ASSUME NEW k \in 1..N PROVE f[k] = Turn(f[k - 1])
  <2>1. k - 1 \in 0..N
    BY <1>1
  <2>2. f[k - 1] \in Fed
    BY <1>4, <2>1
  <2> QED BY <1>4, <2>2
<1> HIDE DEF G
<1>6. f = [k \in 0..N |-> Step(f, k)]
  <2>1. ASSUME NEW k \in 0..N PROVE f[k] = Step(f, k)
    <3>1. k = 0 \/ k \in 1..N
      BY <1>1
    <3> QED BY <1>4, <1>5, <3>1
  <2>2. f = [k \in 0..N |-> f[k]]
    BY <1>4
  <2> HIDE DEF Step
  <2> QED BY <2>1, <2>2
<1>7. F = [k \in 0..N |-> Step(F, k)]
  <2> HIDE DEF Step
  <2> QED BY <1>6
<1>8. TakeLines(t, c) = F[Cardinality(Ends(t))]
  BY DEF TakeLines, Ends
<1> HIDE DEF F
<1>9. F[0] = s /\ \A k \in 1..N : F[k] = Turn(F[k - 1])
  <2>1. F[0] = s
    <3>1. 0 \in 0..N
      BY <1>1
    <3> QED BY <1>7, <3>1
  <2>2. ASSUME NEW k \in 1..N PROVE F[k] = Turn(F[k - 1])
    <3>1. k \in 0..N /\ k # 0
      BY <1>1
    <3> QED BY <1>7, <3>1
  <2> QED BY <2>1, <2>2
<1>10. F \in [0..N -> Fed]
  <2> DEFINE T == {k \in 0..N : F[k] = f[k]}
  <2>1. 0 \in T
    BY <1>1, <1>4, <1>9
  <2>2. ASSUME NEW k \in 0..(N - 1), k \in T PROVE k + 1 \in T
    <3>1. k + 1 \in 0..N /\ k + 1 \in 1..N /\ (k + 1) - 1 = k
      BY <1>1
    <3>2. F[k + 1] = Turn(F[k]) /\ f[k + 1] = Turn(f[k])
      BY <1>5, <1>9, <3>1
    <3> QED BY <2>2, <3>1, <3>2
  <2> HIDE DEF T, N, s
  <2>3. \A k \in 0..N : k \in T
    BY <1>1, <2>1, <2>2, Climb
  <2>4. \A k \in 0..N : F[k] = f[k]
    BY <2>3 DEF T
  <2>5. F = f
    <3>1. F = [k \in 0..N |-> F[k]] /\ f = [k \in 0..N |-> f[k]]
      <4> HIDE DEF Step
      <4> QED BY <1>4, <1>7
    <3> QED BY <2>4, <3>1
  <2> QED BY <1>4, <2>5
<1> QED BY <1>8, <1>9, <1>10

\* What lines are left after k of them starts with the next.
LEMMA FirstOfRest ==
  ASSUME NEW L \in Seq(Text), NEW k \in Nat, k < Len(L)
  PROVE  LET rest == SubSeq(L, k + 2, Len(L))
             now == SubSeq(L, k + 1, Len(L))
         IN  /\ rest \in Seq(Text) /\ L[k + 1] \in Text
             /\ now = <<L[k + 1]>> \o rest
             /\ Unlines(now) = (L[k + 1] \o <<"LF">>) \o Unlines(rest)
             /\ Unlines(rest) \in Text /\ L[k + 1] \o <<"LF">> \in Text
<1> DEFINE N == Len(L)
           l == L[k + 1]
           rest == SubSeq(L, k + 2, N)
           now == SubSeq(L, k + 1, N)
<1>1. N \in Nat /\ k + 2 \in Int /\ k + 1 \in 1..N /\ \A i \in 1..N : L[i] \in Text
  BY LenProperties, ElementOfSeq
<1>2. l \in Text /\ <<l>> \in Seq(Text)
  BY <1>1
<1>3. rest \in Seq(Text)
  <2>1. ASSUME NEW i \in (k + 2)..N PROVE L[i] \in Text
    <3>1. i \in 1..N
      BY <1>1
    <3> QED BY <1>1, <3>1
  <2>2. N \in Int
    BY <1>1
  <2> QED BY <1>1, <2>1, <2>2, SubSeqProperties
<1>4. now = <<l>> \o rest
  <2>1. k + 1 \in 1..Len(L) /\ N \in (k + 1)..Len(L) /\ (k + 1) + 1 = k + 2
    BY <1>1
  <2>2. SubSeq(L, k + 1, N) = <<L[k + 1]>> \o SubSeq(L, (k + 1) + 1, N)
    <3> HIDE DEF N
    <3> QED BY <2>1, SubSeqRecursiveFirst
  <2> QED BY <2>1, <2>2
<1>5. ASSUME NEW x \in Text, NEW q \in Seq(Text), <<x>> \in Seq(Text)
      PROVE  /\ Unlines(<<x>> \o q) = (x \o <<"LF">>) \o Unlines(q)
             /\ Unlines(q) \in Text /\ x \o <<"LF">> \in Text
  BY <1>5, UnlinesConcat, UnlinesOne, UnlinesType
<1> HIDE DEF now, rest, l
<1>6. Unlines(now) = (l \o <<"LF">>) \o Unlines(rest) /\ Unlines(rest) \in Text /\ l \o <<"LF">> \in Text
  BY <1>2, <1>3, <1>4, <1>5
<1> QED BY <1>2, <1>3, <1>4, <1>6 DEF now, rest, l

\* A text of whole lines and a rest: the lines are taken one after the other,
\* the rest is left.
LEMMA TakesItsLines ==
  ASSUME NEW L \in Seq(Text), \A k \in 1..Len(L) : NoLF(L[k]),
         NEW r \in Text, NoLF(r), NEW c \in Current
  PROVE  LET e == Folded(L, [current |-> c, out |-> <<>>])
         IN  TakeLines(Unlines(L) \o r, c) = [buffer |-> r, current |-> e.current, out |-> e.out]
<1> DEFINE N == Len(L)
           t == Unlines(L) \o r
           z == [current |-> c, out |-> <<>>]
           e(k) == Folded(SubSeq(L, 1, k), z)
           At(k) == [buffer |-> Unlines(SubSeq(L, k + 1, N)) \o r, current |-> e(k).current, out |-> e(k).out]
<1>1. N \in Nat /\ Unlines(L) \in Text /\ t \in Text /\ z \in Progress
  <2>1. Unlines(L) \in Text
    BY UnlinesType
  <2> QED BY <2>1, LenProperties, ConcatProperties DEF Text, Progress
<1>2. Cardinality(Ends(t)) = N
  BY <1>1, EndsBefore, EndsOfLines
<1>3. N <= Len(t) /\ Len(t) \in Nat
  <2>1. Ends(t) \subseteq 1..Len(t) /\ Len(t) \in Nat
    BY <1>1, LenProperties DEF Ends, Text
  <2>2. IsFiniteSet(1..Len(t)) /\ Cardinality(1..Len(t)) = Len(t)
    BY <2>1, FS_Interval
  <2>3. Cardinality(Ends(t)) <= Cardinality(1..Len(t))
    BY <2>1, <2>2, FS_Subset
  <2> QED BY <1>2, <2>1, <2>2, <2>3
<1>4. PICK f \in [0..Len(t) -> Fed] :
        /\ f[0] = [buffer |-> t, current |-> c, out |-> <<>>]
        /\ \A k \in 1..Len(t) : f[k] = Turn(f[k - 1])
        /\ TakeLines(t, c) = f[N]
  BY <1>1, <1>2, TakeLinesBySteps
<1> DEFINE T == {k \in 0..N : f[k] = At(k)}
<1>5. 0 \in T
  <2>1. SubSeq(L, 1, N) = L /\ 0 + 1 = 1
    BY SubSeqFull
  <2>2. SubSeq(L, 1, 0) = <<>>
    BY SubSeqEmpty
  <2>3. e(0) = z
    BY <1>1, <2>2, FoldedEmpty
  <2>4. At(0) = [buffer |-> t, current |-> c, out |-> <<>>]
    <3>1. e(0).current = c /\ e(0).out = <<>>
      BY <2>3
    <3>2. Unlines(SubSeq(L, 0 + 1, N)) \o r = t
      BY <2>1
    <3> HIDE DEF t, e, N
    <3> QED BY <3>1, <3>2
  <2> QED BY <1>1, <1>4, <2>4
<1>6. ASSUME NEW k \in 0..(N - 1), k \in T PROVE k + 1 \in T
  <2>1. /\ k + 1 \in 0..N /\ k \in Nat /\ k < N /\ k + 1 \in 1..N /\ k + 1 \in 1..Len(t)
        /\ (k + 1) - 1 = k /\ (k + 1) + 1 = k + 2
    BY <1>1, <1>3
  <2> DEFINE l == L[k + 1]
             rest == SubSeq(L, k + 2, N)
             now == SubSeq(L, k + 1, N)
             a == Unlines(rest) \o r
  <2>2. SubSeq(L, 1, k) \in Seq(Text) /\ l \in Text /\ SubSeq(L, 1, k + 1) = Append(SubSeq(L, 1, k), l)
    BY <2>1, PrefixStep
  <2>3. NoLF(l)
    BY <2>1
  <2>5. Unlines(now) = (l \o <<"LF">>) \o Unlines(rest) /\ Unlines(rest) \in Text /\ l \o <<"LF">> \in Text
    BY <2>1, FirstOfRest
  <2>6. Unlines(now) \o r = (l \o <<"LF">>) \o a /\ a \in Text
    <3>1. ASSUME NEW x \in Seq(Tokens), NEW y \in Seq(Tokens), NEW w \in Seq(Tokens)
          PROVE  (x \o y) \o w = x \o (y \o w) /\ y \o w \in Seq(Tokens)
      <4>1. (x \o y) \o w = x \o (y \o w)
        BY ConcatAssociative
      <4> QED BY <4>1, ConcatProperties
    <3> DEFINE x == l \o <<"LF">>
               y == Unlines(rest)
               q == Unlines(now)
    <3>2. x \in Seq(Tokens) /\ y \in Seq(Tokens) /\ r \in Seq(Tokens) /\ q = x \o y /\ a = y \o r
      BY <2>5 DEF Text
    <3> HIDE DEF x, y, q, a
    <3>3. q \o r = x \o a /\ a \in Seq(Tokens)
      BY <3>1, <3>2
    <3> QED BY <3>3 DEF x, q, Text
  <2> DEFINE d == e(k)
             s == [current |-> d.current, out |-> d.out]
             g == TakeLine(s, StripCR(l))
  <2>7. d \in Progress
    BY <1>1, <2>2, FoldedType
  <2>8. d.current \in Current /\ d.out \in Seq(Current) /\ d = s
    BY <2>7 DEF Progress
  <2>9. f[k] = [buffer |-> (l \o <<"LF">>) \o a, current |-> d.current, out |-> d.out]
    BY <1>6, <2>6
  <2>10. e(k + 1) = g
    <3>1. e(k + 1) = TakeLine(d, StripCR(l))
      <4>1. ASSUME NEW q \in Seq(Text), NEW x \in Text
            PROVE Folded(Append(q, x), z) = TakeLine(Folded(q, z), StripCR(x))
        BY <1>1, FoldedAppend
      <4> HIDE DEF l, z
      <4> QED BY <2>2, <4>1
    <3> QED BY <2>8, <3>1
  <2>11. f[k + 1] = Turn(f[k])
    BY <1>4, <2>1
  <2> HIDE DEF l, a, d, T
  <2>12. Turn([buffer |-> (l \o <<"LF">>) \o a, current |-> d.current, out |-> d.out])
           = [buffer |-> a, current |-> g.current, out |-> g.out]
    BY <2>2, <2>3, <2>6, <2>8, TurnTakes
  <2> HIDE DEF s, g
  <2>13. f[k + 1] = [buffer |-> a, current |-> g.current, out |-> g.out]
    BY <2>9, <2>11, <2>12
  <2>14. At(k + 1) = [buffer |-> a, current |-> g.current, out |-> g.out]
    BY <2>1, <2>10 DEF a
  <2> QED BY <2>1, <2>13, <2>14 DEF T
<1> HIDE DEF T
<1>7. N \in T
  <2>1. \A k \in 0..N : k \in T
    BY <1>1, <1>5, <1>6, Climb
  <2>2. N \in 0..N
    BY <1>1
  <2> QED BY <2>1, <2>2
<1>8. SubSeq(L, 1, N) = L /\ SubSeq(L, N + 1, N) = <<>>
  <2>1. N + 1 > N /\ N + 1 \in Int /\ N \in Int
    BY <1>1
  <2> QED BY <2>1, SubSeqFull, SubSeqEmpty
<1>9. Unlines(<<>>) \o r = r
  BY UnlinesEmpty, ConcatEmptySeq DEF Text
<1>10. At(N) = [buffer |-> r, current |-> Folded(L, z).current, out |-> Folded(L, z).out]
  BY <1>8, <1>9
<1>11. f[N] = At(N)
  BY <1>7 DEF T
<1> QED BY <1>4, <1>10, <1>11

-----------------------------------------------------------------------------
(* A text has one division into lines.                                     *)

LEMMA TextConcat ==
  ASSUME NEW x \in Text, NEW y \in Text, NEW z \in Text
  PROVE  x \o y \in Text /\ (x \o y) \o z = x \o (y \o z)
<1>1. x \o y \in Text
  BY ConcatProperties DEF Text
<1>2. (x \o y) \o z = x \o (y \o z)
  BY ConcatAssociative DEF Text
<1> QED BY <1>1, <1>2

LEMMA TextSplits ==
  ASSUME NEW t \in Text
  PROVE  \E L \in Seq(Text), r \in Text :
           t = Unlines(L) \o r /\ NoLF(r) /\ \A k \in 1..Len(L) : NoLF(L[k])
<1> DEFINE Split(x, L, r) == x = Unlines(L) \o r /\ NoLF(r) /\ \A k \in 1..Len(L) : NoLF(L[k])
           N == Len(t)
           pre(m) == SubSeq(t, 1, m)
           T == {m \in 0..N : \E L \in Seq(Text), r \in Text : Split(pre(m), L, r)}
<1>1. N \in Nat /\ N \in 0..N /\ t \in Seq(Tokens)
  BY LenProperties DEF Text
<1>2. 0 \in T
  <2>1. pre(0) = <<>> /\ 0 \in 0..N
    BY <1>1, SubSeqEmpty
  <2>2. <<>> \in Text /\ <<>> \in Seq(Text) /\ Len(<<>>) = 0
    BY DEF Text
  <2>3. Unlines(<<>>) \o <<>> = <<>>
    BY UnlinesEmpty
  <2>4. Split(<<>>, <<>>, <<>>)
    BY <2>2, <2>3 DEF NoLF
  <2> HIDE DEF Split, pre
  <2> QED BY <2>1, <2>2, <2>4
<1>3. ASSUME NEW m \in 0..(N - 1), m \in T PROVE m + 1 \in T
  <2>1. m + 1 \in 0..N /\ m \in Nat /\ m < N
    BY <1>1
  <2>2. pre(m) \in Seq(Tokens) /\ t[m + 1] \in Tokens /\ pre(m + 1) = Append(pre(m), t[m + 1])
    BY <1>1, <2>1, PrefixStep
  <2>3. PICK L \in Seq(Text), r \in Text : Split(pre(m), L, r)
    BY <1>3
  <2> DEFINE x == t[m + 1]
  <2>4. /\ Unlines(L) \in Seq(Tokens) /\ r \in Seq(Tokens) /\ Len(r) \in Nat /\ Len(L) \in Nat
    BY UnlinesType, LenProperties DEF Text
  <2>5. pre(m + 1) = Unlines(L) \o Append(r, x)
    <3>1. pre(m) = Unlines(L) \o r
      BY <2>3
    <3>2. ASSUME NEW a \in Seq(Tokens), NEW b \in Seq(Tokens), NEW e \in Tokens
          PROVE  a \o Append(b, e) = Append(a \o b, e)
      BY ConcatAppend
    <3> DEFINE a == Unlines(L)
               p == pre(m)
               q == pre(m + 1)
    <3>3. a \in Seq(Tokens) /\ x \in Tokens /\ q = Append(p, x) /\ p = a \o r
      BY <2>2, <2>4, <3>1
    <3> HIDE DEF pre, x, a, p, q
    <3>4. q = a \o Append(r, x)
      BY <2>4, <3>2, <3>3
    <3> QED BY <3>4 DEF a, q
  <2>6. CASE x = "LF"
    <3> DEFINE M == Append(L, r)
    <3>1. Append(r, x) = r \o <<"LF">>
      BY <2>2, <2>4, <2>6, AppendIsConcat
    <3>2. M \in Seq(Text) /\ M = L \o <<r>> /\ <<r>> \in Seq(Text) /\ Len(M) = Len(L) + 1
          /\ (\A k \in 1..Len(L) : M[k] = L[k]) /\ M[Len(L) + 1] = r
      BY AppendIsConcat, AppendProperties
    <3> HIDE DEF M
    <3>3. Unlines(M) = Unlines(L) \o (r \o <<"LF">>) /\ Unlines(M) \in Seq(Tokens)
      BY <3>2, UnlinesConcat, UnlinesOne, UnlinesType DEF Text
    <3>4. Unlines(M) \o <<>> = Unlines(M)
      BY <3>3, ConcatEmptySeq
    <3>5. pre(m + 1) = Unlines(M) \o <<>>
      <4> HIDE DEF pre
      <4> QED BY <2>5, <3>1, <3>3, <3>4
    <3>6. ASSUME NEW k \in 1..Len(M) PROVE NoLF(M[k])
      <4>1. k \in 1..Len(L) \/ k = Len(L) + 1
        BY <2>4, <3>2
      <4> QED BY <2>3, <3>2, <4>1
    <3>7. <<>> \in Text /\ NoLF(<<>>)
      BY DEF Text, NoLF
    <3>8. Split(pre(m + 1), M, <<>>)
      BY <3>5, <3>6, <3>7
    <3> HIDE DEF Split, pre
    <3> QED BY <2>1, <3>2, <3>7, <3>8
  <2>7. CASE x # "LF"
    <3> DEFINE q == Append(r, x)
    <3>1. q \in Seq(Tokens) /\ Len(q) = Len(r) + 1 /\ (\A i \in 1..Len(r) : q[i] = r[i]) /\ q[Len(r) + 1] = x
      BY <2>2, <2>4, AppendProperties
    <3>2. NoLF(q)
      <4>1. ASSUME NEW i \in 1..Len(q) PROVE q[i] # "LF"
        <5>1. i \in 1..Len(r) \/ i = Len(r) + 1
          BY <2>4, <3>1
        <5>2. \A j \in 1..Len(r) : r[j] # "LF"
          BY <2>3 DEF NoLF
        <5> HIDE DEF q, x
        <5> QED BY <2>7, <3>1, <5>1, <5>2
      <4> QED BY <4>1 DEF NoLF
    <3>3. Split(pre(m + 1), L, q)
      BY <2>3, <2>5, <3>2
    <3>4. q \in Text
      BY <3>1 DEF Text
    <3> HIDE DEF Split, pre, q
    <3> QED BY <2>1, <3>3, <3>4
  <2> QED BY <2>6, <2>7
<1> HIDE DEF T
<1>4. N \in T
  <2>1. \A m \in 0..N : m \in T
    BY <1>1, <1>2, <1>3, Climb
  <2> QED BY <1>1, <2>1
<1>5. pre(N) = t
  BY <1>1, SubSeqFull
<1> QED BY <1>4, <1>5 DEF T

Moves(p, x, q) == Append(p, x) \o q = p \o (<<x>> \o q)

LEMMA AppendThenConcat ==
  ASSUME NEW S, NEW p \in Seq(S), NEW x \in S, NEW q \in Seq(S)
  PROVE  Moves(p, x, q)
<1>1. Append(p, x) = p \o <<x>> /\ <<x>> \in Seq(S)
  BY AppendIsConcat
<1>2. (p \o <<x>>) \o q = p \o (<<x>> \o q)
  BY <1>1, ConcatAssociative
<1> QED BY <1>1, <1>2 DEF Moves

LEMMA SameFirstLine ==
  ASSUME NEW l \in Text, NEW m \in Text, NEW x \in Text, NEW y \in Text, NoLF(l), NoLF(m),
         (l \o <<"LF">>) \o x = (m \o <<"LF">>) \o y
  PROVE  l = m /\ x = y
<1> DEFINE b == (l \o <<"LF">>) \o x
           d == (m \o <<"LF">>) \o y
<1>1. /\ FirstOf("LF", b) = Len(l) + 1 /\ Len(l) \in Nat
      /\ SubSeq(b, 1, Len(l)) = l /\ SubSeq(b, Len(l) + 2, Len(b)) = x
  BY FirstLine
<1>2. /\ FirstOf("LF", d) = Len(m) + 1 /\ Len(m) \in Nat
      /\ SubSeq(d, 1, Len(m)) = m /\ SubSeq(d, Len(m) + 2, Len(d)) = y
  BY FirstLine
<1>3. b = d
  OBVIOUS
<1> HIDE DEF b, d
<1> DEFINE f == FirstOf("LF", b)
<1>4. f = Len(l) + 1 /\ f = Len(m) + 1
  BY <1>1, <1>2, <1>3
<1> HIDE DEF f
<1>5. Len(l) = Len(m)
  <2>1. Len(l) \in Nat /\ Len(m) \in Nat /\ Len(l) + 1 = Len(m) + 1
    BY <1>1, <1>2, <1>4
  <2> QED BY <2>1
<1> QED BY <1>1, <1>2, <1>3, <1>5

\* Of two texts of lines that begin alike, the lines begin alike.
LEMMA LinesBegin ==
  ASSUME NEW A \in Seq(Text), NEW B \in Seq(Text), NEW u \in Text,
         \A k \in 1..Len(A) : NoLF(A[k]), \A k \in 1..Len(B) : NoLF(B[k]),
         Unlines(A) \o u = Unlines(B)
  PROVE  \E C \in Seq(Text) : B = A \o C /\ u = Unlines(C)
<1> DEFINE N == Len(A)
           Left(k) == Unlines(SubSeq(A, k + 1, N)) \o u
           pre(k) == SubSeq(A, 1, k)
           Has(k, C) == B = pre(k) \o C /\ Left(k) = Unlines(C)
           T == {k \in 0..N : \E C \in Seq(Text) : Has(k, C)}
<1>1. N \in Nat /\ N \in 0..N
  BY LenProperties
<1>2. 0 \in T
  <2>1. pre(0) = <<>> /\ 0 \in 0..N
    BY <1>1, SubSeqEmpty
  <2>2. SubSeq(A, 0 + 1, N) = A
    BY SubSeqFull
  <2>3. <<>> \o B = B
    BY ConcatEmptySeq
  <2>4. Has(0, B)
    BY <2>1, <2>2, <2>3
  <2> HIDE DEF Has
  <2> QED BY <2>1, <2>4
<1>3. ASSUME NEW k \in 0..(N - 1), k \in T PROVE k + 1 \in T
  <2>1. /\ k + 1 \in 0..N /\ k \in Nat /\ k < N /\ k + 1 \in 1..N /\ (k + 1) + 1 = k + 2
    BY <1>1
  <2>2. PICK C \in Seq(Text) : Has(k, C)
    BY <1>3
  <2> DEFINE l == A[k + 1]
             rest == SubSeq(A, k + 2, N)
             a == Unlines(rest) \o u
  <2>3. /\ l \in Text /\ rest \in Seq(Text)
        /\ Unlines(SubSeq(A, k + 1, N)) = (l \o <<"LF">>) \o Unlines(rest)
        /\ Unlines(rest) \in Text /\ l \o <<"LF">> \in Text
    BY <2>1, FirstOfRest
  <2>4. NoLF(l)
    BY <2>1
  <2>5. pre(k) \in Seq(Text) /\ pre(k + 1) = Append(pre(k), l)
    BY <2>1, PrefixStep
  <2>6. Left(k) = (l \o <<"LF">>) \o a /\ a \in Text
    <3> DEFINE x == l \o <<"LF">>
               y == Unlines(rest)
    <3>1. x \in Text /\ y \in Text /\ Left(k) = (x \o y) \o u /\ a = y \o u
      BY <2>3
    <3> HIDE DEF x, y, a, Left
    <3>2. y \o u \in Text /\ (x \o y) \o u = x \o (y \o u)
      BY <3>1, TextConcat
    <3> QED BY <3>1, <3>2 DEF x
  <2>7. (l \o <<"LF">>) \o a = Unlines(C) /\ B = pre(k) \o C
    BY <2>2, <2>6
  <2> HIDE DEF l, rest, a, pre
  <2>8. C # <<>>
    <3> SUFFICES ASSUME C = <<>> PROVE FALSE
      OBVIOUS
    <3>1. Len((l \o <<"LF">>) \o a) = Len(l) + 1 + Len(a) /\ Len(l) \in Nat /\ Len(a) \in Nat
      <4>1. Len(a) \in Nat
        BY <2>6, LenProperties DEF Text
      <4> QED BY <2>3, <2>4, <2>6, <4>1, FirstLine
    <3>2. Len(Unlines(C)) = 0
      BY UnlinesEmpty
    <3> QED BY <2>7, <3>1, <3>2
  <2> DEFINE D == SubSeq(C, 2, Len(C))
             m == C[1]
  <2>9. Len(C) \in Nat /\ 0 < Len(C)
    BY <2>8, LenProperties, EmptySeq
  <2>10. /\ D \in Seq(Text) /\ m \in Text /\ C = <<m>> \o D
         /\ Unlines(C) = (m \o <<"LF">>) \o Unlines(D)
         /\ Unlines(D) \in Text
    <3>1. 0 + 1 = 1 /\ 0 + 2 = 2 /\ 0 \in Nat
      OBVIOUS
    <3>2. SubSeq(C, 1, Len(C)) = C
      BY SubSeqFull
    <3>3. LET r == SubSeq(C, 0 + 2, Len(C))
             n == SubSeq(C, 0 + 1, Len(C))
          IN  /\ r \in Seq(Text) /\ C[0 + 1] \in Text
              /\ n = <<C[0 + 1]>> \o r
              /\ Unlines(n) = (C[0 + 1] \o <<"LF">>) \o Unlines(r)
              /\ Unlines(r) \in Text
      BY <2>9, <3>1, FirstOfRest
    <3> QED BY <3>1, <3>2, <3>3
  <2>11. NoLF(m)
    <3>1. /\ Len(B) = Len(pre(k)) + Len(C) /\ Len(pre(k)) \in Nat
          /\ \A i \in 1..(Len(pre(k)) + Len(C)) : B[i] = IF i <= Len(pre(k)) THEN pre(k)[i] ELSE C[i - Len(pre(k))]
      BY <2>5, <2>7, ConcatProperties, LenProperties
    <3> DEFINE n == Len(pre(k))
    <3>2. n + 1 \in 1..(n + Len(C)) /\ ~ (n + 1 <= n) /\ (n + 1) - n = 1 /\ n + 1 \in 1..Len(B)
      BY <2>9, <3>1
    <3>3. B[n + 1] = C[1]
      BY <3>1, <3>2
    <3> QED BY <3>2, <3>3
  <2> HIDE DEF D, m
  <2>12. l = m /\ a = Unlines(D)
    <3> DEFINE d == Unlines(D)
    <3>1. d \in Text /\ (l \o <<"LF">>) \o a = (m \o <<"LF">>) \o d
      BY <2>7, <2>10
    <3> HIDE DEF d
    <3>2. l = m /\ a = d
      BY <2>3, <2>4, <2>6, <2>10, <2>11, <3>1, SameFirstLine
    <3> QED BY <3>2 DEF d
  <2>13. pre(k + 1) \o D = pre(k) \o C
    <3>2. Append(pre(k), m) \o D = pre(k) \o (<<m>> \o D)
      <4>1. pre(k) \in Seq(Text) /\ m \in Text /\ D \in Seq(Text)
        BY <2>5, <2>10
      <4>2. Moves(pre(k), m, D)
        BY <4>1, AppendThenConcat
      <4> QED BY <4>2 DEF Moves
    <3> QED BY <2>5, <2>10, <2>12, <3>2
  <2>14. Left(k + 1) = a
    BY <2>1 DEF a, rest
  <2>15. Has(k + 1, D)
    BY <2>7, <2>12, <2>13, <2>14
  <2> HIDE DEF Has
  <2> QED BY <2>1, <2>10, <2>15
<1> HIDE DEF T
<1>4. N \in T
  <2>1. \A k \in 0..N : k \in T
    BY <1>1, <1>2, <1>3, Climb
  <2> QED BY <1>1, <2>1
<1>5. PICK C \in Seq(Text) : Has(N, C)
  BY <1>4 DEF T
<1>6. pre(N) = A /\ SubSeq(A, N + 1, N) = <<>>
  <2>1. N + 1 > N /\ N + 1 \in Int /\ N \in Int
    BY <1>1
  <2> QED BY <2>1, SubSeqFull, SubSeqEmpty
<1>7. Unlines(<<>>) \o u = u
  BY UnlinesEmpty, ConcatEmptySeq DEF Text
<1>8. B = A \o C /\ u = Unlines(C)
  BY <1>5, <1>6, <1>7
<1> QED BY <1>8

-----------------------------------------------------------------------------
(* The lines of a frame.                                                   *)

Lines == {l \in Text : OneLine(l)}

GoodFrame(f) ==
  /\ f \in [id : Lines, event : Lines \cup {None}, data : Seq(Lines)]
  /\ f.id # <<>>

GoodForm(form) ==
  /\ form.eol \in {<<"LF">>, <<"CR", "LF">>} /\ form.colon \in {<<":">>, <<":", " ">>}
  /\ form.lead \in Seq(Lines) /\ form.noise \in Seq(Lines)
  /\ \A k \in 1..Len(form.lead) : form.lead[k] = <<>> \/ Comment(form.lead[k])
  /\ \A k \in 1..Len(form.noise) : Comment(form.noise[k]) \/ Unknown(form.noise[k])

LEMMA SeqOfPart ==
  ASSUME NEW S, NEW P, NEW L \in Seq(S), \A k \in 1..Len(L) : L[k] \in P
  PROVE  L \in Seq(P)
<1> DEFINE N == Len(L)
<1>1. N \in Nat /\ (\A k \in 1..N : L[k] \in P) /\ L = [k \in 1..N |-> L[k]]
  BY LenProperties
<1> HIDE DEF N
<1>2. ASSUME NEW M, M = [k \in 1..N |-> L[k]] PROVE M \in Seq(P)
  BY <1>1, <1>2, IsASeq
<1> QED BY <1>1, <1>2

LEMMA SeqOfLines ==
  ASSUME NEW L \in Seq(Text), \A k \in 1..Len(L) : OneLine(L[k])
  PROVE  L \in Seq(Lines)
<1>1. \A k \in 1..Len(L) : L[k] \in Lines
  BY LenProperties, ElementOfSeq DEF Lines
<1> QED BY <1>1, SeqOfPart

LEMMA LinesAreTexts ==
  ASSUME NEW L \in Seq(Lines)
  PROVE  L \in Seq(Text) /\ Len(L) \in Nat /\ \A k \in 1..Len(L) : L[k] \in Text /\ OneLine(L[k])
<1>1. Len(L) \in Nat /\ \A k \in 1..Len(L) : L[k] \in Lines
  BY LenProperties, ElementOfSeq
<1>2. Lines \subseteq Text
  BY DEF Lines
<1>3. L \in Seq(Text)
  BY <1>2
<1> QED BY <1>1, <1>3 DEF Lines

LEMMA GoodFrames ==
  ASSUME NEW i \in 1..Len(Frames)
  PROVE  GoodFrame(Frames[i])
<1> DEFINE f == Frames[i]
<1>1. f \in [id : Text, event : Text \cup {None}, data : Seq(Text)]
  BY FrameAssumption, ElementOfSeq
<1>2. /\ f.id # <<>> /\ OneLine(f.id) /\ (f.event # None => OneLine(f.event))
      /\ \A k \in 1..Len(f.data) : OneLine(f.data[k])
  BY FrameAssumption
<1> HIDE DEF f
<1>3. f.data \in Seq(Text) /\ f.id \in Text /\ f.event \in Text \cup {None}
      /\ f = [id |-> f.id, event |-> f.event, data |-> f.data]
  BY <1>1
<1>4. f.data \in Seq(Lines)
  BY <1>2, <1>3, SeqOfLines
<1>5. f.id \in Lines /\ f.event \in Lines \cup {None}
  BY <1>2, <1>3 DEF Lines
<1> QED BY <1>2, <1>3, <1>4, <1>5 DEF GoodFrame, f

LEMMA GoodForms ==
  ASSUME NEW j \in 1..Len(Forms)
  PROVE  GoodForm(Forms[j]) /\ Forms[j].idLast \in BOOLEAN
<1> DEFINE form == Forms[j]
<1>1. form \in [eol : {<<"LF">>, <<"CR", "LF">>}, colon : {<<":">>, <<":", " ">>},
                 idLast : BOOLEAN, lead : Seq(Text), noise : Seq(Text)]
  BY FormAssumption, ElementOfSeq
<1>2. /\ \A k \in 1..Len(form.lead) : OneLine(form.lead[k]) /\ (form.lead[k] = <<>> \/ Comment(form.lead[k]))
      /\ \A k \in 1..Len(form.noise) : OneLine(form.noise[k]) /\ (Comment(form.noise[k]) \/ Unknown(form.noise[k]))
  BY FormAssumption
<1> HIDE DEF form
<1>3. form.lead \in Seq(Text) /\ form.noise \in Seq(Text)
  BY <1>1
<1>4. form.lead \in Seq(Lines) /\ form.noise \in Seq(Lines)
  BY <1>2, <1>3, SeqOfLines
<1>5. form.eol \in {<<"LF">>, <<"CR", "LF">>} /\ form.colon \in {<<":">>, <<":", " ">>} /\ form.idLast \in BOOLEAN
  BY <1>1
<1> QED BY <1>2, <1>4, <1>5 DEF GoodForm, form

\* A line end is a line feed, after a return in some forms.
Return(form) == IF form.eol = <<"LF">> THEN <<>> ELSE <<"CR">>

LEMMA ReturnFacts ==
  ASSUME NEW form, GoodForm(form)
  PROVE  /\ Return(form) \in Text /\ Return(form) \in {<<>>, <<"CR">>}
         /\ form.eol = Return(form) \o <<"LF">>
<1>1. <<>> \in Text /\ <<"LF">> \in Text /\ <<"CR">> \in Text
  <2>1. "CR" \in Tokens
    BY TokenAssumption
  <2>2. ASSUME NEW x \in Tokens PROVE <<x>> \in Seq(Tokens)
    OBVIOUS
  <2> QED BY <2>1, <2>2, LFIsText DEF Text
<1>2. <<>> \o <<"LF">> = <<"LF">>
  BY <1>1, ConcatEmptySeq DEF Text
<1>3. <<"CR">> \o <<"LF">> = <<"CR", "LF">>
  <2>1. ASSUME NEW x \in Tokens, NEW y \in Tokens PROVE <<x>> \o <<y>> = <<x, y>>
    <3> DEFINE a == <<x>>
               b == <<x, y>>
               c == Append(a, y)
    <3>1. a \in Seq(Tokens) /\ Len(a) = 1 /\ a[1] = x
          /\ b \in Seq(Tokens) /\ Len(b) = 2 /\ b[1] = x /\ b[2] = y
      OBVIOUS
    <3> HIDE DEF a, b
    <3>2. c = a \o <<y>> /\ c \in Seq(Tokens) /\ Len(c) = Len(a) + 1 /\ c[Len(a) + 1] = y
          /\ \A i \in 1..Len(a) : c[i] = a[i]
      <4>1. c = a \o <<y>>
        BY <3>1, AppendIsConcat
      <4>2. /\ c \in Seq(Tokens) /\ Len(c) = Len(a) + 1 /\ c[Len(a) + 1] = y
            /\ \A i \in 1..Len(a) : c[i] = a[i]
        <5>1. a \in Seq(Tokens)
          BY <3>1
        <5> HIDE DEF c
        <5>2. ASSUME NEW q \in Seq(Tokens)
              PROVE  /\ Append(q, y) \in Seq(Tokens) /\ Len(Append(q, y)) = Len(q) + 1 /\ Append(q, y)[Len(q) + 1] = y
                     /\ \A i \in 1..Len(q) : Append(q, y)[i] = q[i]
          BY AppendProperties
        <5> QED BY <5>1, <5>2 DEF c
      <4> QED BY <4>1, <4>2
    <3> HIDE DEF c
    <3>3. Len(c) = 2 /\ c[1] = x /\ c[2] = y
      BY <3>1, <3>2
    <3>4. Len(c) = Len(b) /\ \A i \in 1..Len(c) : c[i] = b[i]
      BY <3>1, <3>3
    <3>5. c = b
      BY <3>1, <3>2, <3>4, SeqEqual
    <3> QED BY <3>2, <3>5 DEF a, b
  <2>2. "CR" \in Tokens /\ "LF" \in Tokens
    BY TokenAssumption
  <2> QED BY <2>1, <2>2
<1>4. form.eol = <<"LF">> \/ form.eol = <<"CR", "LF">>
  BY DEF GoodForm
<1> QED BY <1>1, <1>2, <1>3, <1>4 DEF Return

LEMMA RawLine ==
  ASSUME NEW form, GoodForm(form), NEW l \in Text, OneLine(l)
  PROVE  LET raw == l \o Return(form)
         IN  raw \in Text /\ NoLF(raw) /\ StripCR(raw) = l
<1> DEFINE r == Return(form)
           raw == l \o r
           n == Len(l)
<1>1. r \in Text /\ r \in {<<>>, <<"CR">>}
  BY ReturnFacts
<1>2. n \in Nat /\ \A i \in 1..n : l[i] # "LF" /\ l[i] # "CR"
  BY LenProperties DEF Text, OneLine
<1>3. CASE r = <<>>
  <2>1. raw = l
    BY <1>3, ConcatEmptySeq DEF Text
  <2>2. StripCR(l) = l
    <3>1. CASE l = <<>>
      BY <3>1 DEF StripCR
    <3>2. CASE l # <<>>
      <4>1. n # 0
        BY <3>2, EmptySeq DEF Text
      <4>2. n \in 1..n
        BY <1>2, <4>1
      <4>3. Last(l) # "CR"
        BY <1>2, <4>2 DEF Last
      <4> QED BY <4>3 DEF StripCR
    <3> QED BY <3>1, <3>2
  <2> QED BY <1>2, <2>1, <2>2 DEF NoLF
<1>4. CASE r = <<"CR">>
  <2>1. r \in Seq(Tokens) /\ l \in Seq(Tokens) /\ Len(r) = 1 /\ r[1] = "CR"
    BY <1>1, <1>4 DEF Text
  <2>2. /\ raw \in Seq(Tokens) /\ Len(raw) = n + 1
        /\ \A i \in 1..(n + 1) : raw[i] = IF i <= n THEN l[i] ELSE r[i - n]
    <3> HIDE DEF r
    <3> QED BY <2>1, ConcatProperties
  <2>3. SubSeq(raw, 1, n) = l
    <3> HIDE DEF r
    <3> QED BY <2>1, PartsOfConcat
  <2> HIDE DEF raw, r
  <2>4. n + 1 \in 1..(n + 1) /\ ~ (n + 1 <= n) /\ (n + 1) - n = 1 /\ n + 1 # 0 /\ (n + 1) - 1 = n
    BY <1>2
  <2>5. raw[n + 1] = "CR"
    BY <2>1, <2>2, <2>4
  <2>6. raw # <<>>
    BY <2>2, <2>4, EmptySeq
  <2>7. StripCR(raw) = l
    <3>1. Last(raw) = "CR" /\ Front(raw) = l
      BY <2>2, <2>3, <2>4, <2>5 DEF Last, Front
    <3> QED BY <2>6, <3>1 DEF StripCR
  <2>8. NoLF(raw)
    <3>1. ASSUME NEW i \in 1..(n + 1) PROVE raw[i] # "LF"
      <4>1. CASE i = n + 1
        BY <2>5, <4>1
      <4>2. CASE i # n + 1
        <5>1. i \in 1..n /\ i <= n
          BY <1>2, <4>2
        <5>2. raw[i] = l[i]
          BY <2>2, <5>1
        <5> QED BY <1>2, <5>1, <5>2
      <4> QED BY <4>1, <4>2
    <3> QED BY <2>2, <3>1 DEF NoLF
  <2> QED BY <2>2, <2>7, <2>8 DEF raw, r, Text
<1> QED BY <1>1, <1>3, <1>4

\* The lines as they are sent, without their line feeds.
Raws(lines, form) == [k \in 1..Len(lines) |-> lines[k] \o Return(form)]

LEMMA RawsFacts ==
  ASSUME NEW form, GoodForm(form), NEW L \in Seq(Lines)
  PROVE  /\ Raws(L, form) \in Seq(Text) /\ Len(Raws(L, form)) = Len(L) /\ Len(L) \in Nat
         /\ \A k \in 1..Len(L) : /\ Raws(L, form)[k] = L[k] \o Return(form)
                                 /\ NoLF(Raws(L, form)[k])
                                 /\ StripCR(Raws(L, form)[k]) = L[k]
<1> DEFINE N == Len(L)
           e(k) == L[k] \o Return(form)
<1>1. N \in Nat /\ \A k \in 1..N : L[k] \in Text /\ OneLine(L[k])
  BY LinesAreTexts
<1>2. \A k \in 1..N : e(k) \in Text /\ NoLF(e(k)) /\ StripCR(e(k)) = L[k]
  BY <1>1, RawLine
<1>3. Raws(L, form) = [k \in 1..N |-> e(k)]
  BY DEF Raws
<1>4. \A k \in 1..N : e(k) = L[k] \o Return(form)
  OBVIOUS
<1> HIDE DEF N, e
<1>5. [k \in 1..N |-> e(k)] \in Seq(Text)
  BY <1>1, <1>2, IsASeq
<1>6. Len([k \in 1..N |-> e(k)]) = N
  BY <1>1
<1> QED BY <1>1, <1>2, <1>3, <1>4, <1>5, <1>6 DEF N

LEMMA RawsConcat ==
  ASSUME NEW form, GoodForm(form), NEW A \in Seq(Lines), NEW B \in Seq(Lines)
  PROVE  Raws(A \o B, form) = Raws(A, form) \o Raws(B, form) /\ A \o B \in Seq(Lines)
<1> DEFINE C == A \o B
<1>1. /\ C \in Seq(Lines) /\ Len(C) = Len(A) + Len(B)
      /\ \A i \in 1 .. Len(A) + Len(B) : C[i] = IF i <= Len(A) THEN A[i] ELSE B[i - Len(A)]
  BY ConcatProperties
<1> HIDE DEF C
<1> DEFINE R(L) == Raws(L, form)
<1>2. ASSUME NEW L \in Seq(Lines)
      PROVE  /\ R(L) \in Seq(Text) /\ Len(R(L)) = Len(L) /\ Len(L) \in Nat
             /\ \A k \in 1..Len(L) : R(L)[k] = L[k] \o Return(form)
  BY RawsFacts
<1> HIDE DEF R
<1> DEFINE D == R(A) \o R(B)
<1>3. /\ D \in Seq(Text) /\ Len(D) = Len(A) + Len(B)
      /\ \A i \in 1 .. Len(A) + Len(B) : D[i] = IF i <= Len(A) THEN R(A)[i] ELSE R(B)[i - Len(A)]
  <2>1. ASSUME NEW a \in Seq(Text), NEW b \in Seq(Text)
        PROVE  /\ a \o b \in Seq(Text) /\ Len(a \o b) = Len(a) + Len(b)
               /\ \A i \in 1 .. Len(a) + Len(b) :
                    (a \o b)[i] = IF i <= Len(a) THEN a[i] ELSE b[i - Len(a)]
    BY ConcatProperties
  <2>2. /\ R(A) \in Seq(Text) /\ Len(R(A)) = Len(A) /\ R(B) \in Seq(Text) /\ Len(R(B)) = Len(B)
    BY <1>2
  <2> DEFINE a == R(A)
             b == R(B)
  <2>3. /\ a \o b \in Seq(Text) /\ Len(a \o b) = Len(a) + Len(b)
        /\ \A i \in 1 .. Len(a) + Len(b) :
             (a \o b)[i] = IF i <= Len(a) THEN a[i] ELSE b[i - Len(a)]
    <3> HIDE DEF a, b
    <3>1. a \in Seq(Text) /\ b \in Seq(Text)
      BY <2>2 DEF a, b
    <3> QED BY <2>1, <3>1
  <2> QED BY <2>2, <2>3
<1> HIDE DEF D
<1>4. ASSUME NEW i \in 1..Len(R(C)) PROVE R(C)[i] = D[i]
  <2>1. i \in 1 .. Len(A) + Len(B) /\ R(C)[i] = C[i] \o Return(form) /\ Len(A) \in Nat /\ Len(B) \in Nat
    BY <1>1, <1>2
  <2>2. CASE i <= Len(A)
    <3>1. i \in 1..Len(A)
      BY <2>1, <2>2
    <3>2. C[i] = A[i] /\ D[i] = R(A)[i]
      BY <1>1, <1>3, <2>1, <2>2
    <3> QED BY <1>2, <2>1, <3>1, <3>2
  <2>3. CASE ~ (i <= Len(A))
    <3>1. i - Len(A) \in 1..Len(B)
      BY <2>1, <2>3
    <3>2. C[i] = B[i - Len(A)] /\ D[i] = R(B)[i - Len(A)]
      BY <1>1, <1>3, <2>1, <2>3
    <3> QED BY <1>2, <2>1, <3>1, <3>2
  <2> QED BY <2>2, <2>3
<1>5. R(C) \in Seq(Text) /\ Len(R(C)) = Len(D)
  BY <1>1, <1>2, <1>3
<1>6. R(C) = D
  BY <1>3, <1>4, <1>5, SeqEqual
<1> QED BY <1>1, <1>6 DEF C, D, R

\* The parser's rule on a space after the colon gives the value back.
Suits(v, form) == form.colon = <<":", " ">> \/ v = <<>> \/ Head(v) # " "

LEMMA OneToken ==
  ASSUME NEW x \in Tokens
  PROVE  <<x>> \in Seq(Tokens) /\ Len(<<x>>) = 1 /\ <<x>>[1] = x
OBVIOUS

LEMMA TwoTokens ==
  ASSUME NEW x \in Tokens, NEW y \in Tokens
  PROVE  <<x, y>> \in Seq(Tokens) /\ Len(<<x, y>>) = 2 /\ <<x, y>>[1] = x /\ <<x, y>>[2] = y
OBVIOUS

\* A line with a colon, for any three tokens as name, colon and space.
LineShape(line, x, y, z, col, v) ==
  LET value == SubSeq(line, 3, Len(line))
  IN  /\ line \in Seq(Tokens) /\ line # <<>> /\ Head(line) = x
      /\ \A i \in 1..Len(line) : line[i] \in {x, y, z} \/ \E k \in 1..Len(v) : line[i] = v[k]
      /\ FirstOf(y, line) = 2
      /\ SubSeq(line, 1, 1) = <<x>>
      /\ col = <<y>> => value = v
      /\ col = <<y, z>> => value # <<>> /\ Head(value) = z /\ Tail(value) = v

LEMMA LineParts ==
  ASSUME NEW x \in Tokens, NEW y \in Tokens, NEW z \in Tokens, x # y,
         NEW col, col = <<y>> \/ col = <<y, z>>, NEW v \in Seq(Tokens)
  PROVE  LineShape(<<x>> \o col \o v, x, y, z, col, v)
<1> DEFINE c == Len(col)
           one == <<x>>
           pre == one \o col
           line == pre \o v
           n == Len(v)
<1>1. c = 1 \/ c = 2
  <2>1. CASE col = <<y>>
    BY <2>1, OneToken
  <2>2. CASE col = <<y, z>>
    BY <2>2, TwoTokens
  <2> QED BY <2>1, <2>2
<1>2. col \in Seq(Tokens) /\ col[1] = y /\ (c = 2 => col[2] = z)
  <2>1. CASE col = <<y>>
    <3>1. c = 1
      BY <2>1, OneToken
    <3> QED BY <2>1, <3>1, OneToken
  <2>2. CASE col = <<y, z>>
    BY <2>2, TwoTokens
  <2> QED BY <2>1, <2>2
<1>3. (col = <<y>> => c = 1) /\ (col = <<y, z>> => c = 2)
  BY OneToken, TwoTokens
<1>4. one \in Seq(Tokens) /\ Len(one) = 1 /\ one[1] = x
  BY OneToken
<1>5. n \in Nat
  BY LenProperties
<1> HIDE DEF one, c
<1>6. /\ pre \in Seq(Tokens) /\ Len(pre) = 1 + c
      /\ \A i \in 1..(1 + c) : pre[i] = IF i <= 1 THEN one[i] ELSE col[i - 1]
  <2>1. ASSUME NEW a \in Seq(Tokens), NEW b \in Seq(Tokens)
        PROVE  /\ a \o b \in Seq(Tokens) /\ Len(a \o b) = Len(a) + Len(b)
               /\ \A i \in 1 .. Len(a) + Len(b) :
                    (a \o b)[i] = IF i <= Len(a) THEN a[i] ELSE b[i - Len(a)]
    BY ConcatProperties
  <2>2. /\ one \o col \in Seq(Tokens) /\ Len(one \o col) = Len(one) + Len(col)
        /\ \A i \in 1 .. Len(one) + Len(col) :
             (one \o col)[i] = IF i <= Len(one) THEN one[i] ELSE col[i - Len(one)]
    BY <1>2, <1>4, <2>1
  <2> QED BY <1>4, <2>2 DEF c
<1> HIDE DEF pre
<1>7. pre[1] = x /\ pre[2] = y /\ (c = 2 => pre[3] = z)
  <2>1. 1 \in 1..(1 + c) /\ 2 \in 1..(1 + c) /\ (c = 2 => 3 \in 1..(1 + c)) /\ 2 - 1 = 1 /\ 3 - 1 = 2
    BY <1>1
  <2>2. pre[1] = one[1] /\ pre[2] = col[1]
    BY <1>6, <2>1
  <2>3. ASSUME c = 2 PROVE pre[3] = col[2]
    BY <1>6, <2>1, <2>3
  <2> QED BY <1>2, <1>4, <2>2, <2>3
<1>8. /\ line \in Seq(Tokens) /\ Len(line) = (1 + c) + n
      /\ \A i \in 1..((1 + c) + n) : line[i] = IF i <= 1 + c THEN pre[i] ELSE v[i - (1 + c)]
  BY <1>5, <1>6, ConcatProperties
<1>9. SubSeq(line, (1 + c) + 1, Len(line)) = v
  BY <1>5, <1>6, PartsOfConcat
<1> HIDE DEF line, n
<1>10. Len(line) \in Nat /\ Len(line) >= 2
  BY <1>1, <1>5, <1>8
<1>11. line[1] = x /\ line[2] = y /\ (c = 2 => line[3] = z)
  <2>1. /\ 1 \in 1..((1 + c) + n) /\ 2 \in 1..((1 + c) + n) /\ (c = 2 => 3 \in 1..((1 + c) + n))
        /\ 1 <= 1 + c /\ 2 <= 1 + c /\ (c = 2 => 3 <= 1 + c)
    BY <1>1, <1>5
  <2>2. line[1] = pre[1] /\ line[2] = pre[2]
    BY <1>8, <2>1
  <2>3. ASSUME c = 2 PROVE line[3] = pre[3]
    BY <1>8, <2>1, <2>3
  <2> QED BY <1>7, <2>2, <2>3
<1>12. FirstOf(y, line) = 2
  <2>1. 2 \in 1..Len(line) /\ \A i \in 1..(2 - 1) : i = 1
    BY <1>10
  <2>2. \A i \in 1..(2 - 1) : line[i] # y
    BY <1>11, <2>1
  <2> QED BY <1>8, <1>11, <2>1, <2>2, FirstOfIs DEF Text
<1>13. SubSeq(line, 1, 1) = one
  <2> DEFINE p == SubSeq(line, 1, 1)
  <2>1. 1 \in 0..Len(line) /\ 1 \in 1..1
    BY <1>10
  <2>2. p \in Seq(Tokens) /\ Len(p) = 1 /\ p[1] = line[1]
    BY <1>8, <2>1, PrefixFacts
  <2> HIDE DEF p
  <2>3. ASSUME NEW i \in 1..Len(p) PROVE p[i] = one[i]
    <3>1. i = 1
      BY <2>2
    <3> QED BY <1>4, <1>11, <2>2, <3>1
  <2>4. Len(p) = Len(one)
    BY <1>4, <2>2
  <2>5. p = one
    BY <1>4, <2>2, <2>3, <2>4, SeqEqual
  <2> QED BY <2>5 DEF p
<1> DEFINE value == SubSeq(line, 3, Len(line))
<1>14. ASSUME c = 1 PROVE value = v
  <2>1. (1 + c) + 1 = 3
    BY <1>14
  <2> QED BY <1>9, <2>1
<1>15. ASSUME c = 2 PROVE value # <<>> /\ Head(value) = z /\ Tail(value) = v
  <2>1. 3 \in Int /\ Len(line) \in Int /\ \A i \in 3..Len(line) : line[i] \in Tokens
    <3>1. \A i \in 1..Len(line) : line[i] \in Tokens
      BY <1>8, ElementOfSeq
    <3>2. \A i \in 3..Len(line) : i \in 1..Len(line)
      BY <1>10
    <3> QED BY <1>10, <3>1, <3>2
  <2>2. /\ value \in Seq(Tokens)
        /\ Len(value) = IF 3 <= Len(line) THEN Len(line) - 3 + 1 ELSE 0
        /\ \A i \in 1..(Len(line) - 3 + 1) : value[i] = line[3 + i - 1]
    BY <2>1, SubSeqProperties
  <2> HIDE DEF value
  <2>3. Len(value) = n + 1 /\ Len(line) = n + 3
    BY <1>5, <1>8, <1>15, <2>2
  <2>4. value # <<>>
    BY <1>5, <2>2, <2>3, EmptySeq
  <2>5. value[1] = z
    <3>1. 1 \in 1..(Len(line) - 3 + 1) /\ 3 + 1 - 1 = 3
      BY <1>5, <2>3
    <3>2. value[1] = line[3]
      BY <2>2, <3>1
    <3> QED BY <1>11, <1>15, <3>2
  <2> DEFINE t == Tail(value)
  <2>6. t \in Seq(Tokens) /\ Len(t) = Len(value) - 1 /\ \A i \in 1..Len(t) : t[i] = value[i + 1]
    BY <2>2, <2>4, HeadTailProperties
  <2> HIDE DEF t
  <2>7. Len(t) = n
    BY <1>5, <2>3, <2>6
  <2>8. ASSUME NEW i \in 1..Len(t) PROVE t[i] = v[i]
    <3>1. i \in 1..n /\ i + 1 \in 1..(Len(line) - 3 + 1) /\ 3 + (i + 1) - 1 = i + 3
          /\ i + 3 \in 1..((1 + c) + n) /\ ~ (i + 3 <= 1 + c) /\ (i + 3) - (1 + c) = i
      BY <1>5, <1>15, <2>3, <2>7
    <3>2. t[i] = line[i + 3]
      BY <2>2, <2>6, <3>1
    <3> QED BY <1>8, <3>1, <3>2
  <2>9. t = v
    <3>1. Len(t) = Len(v)
      BY <2>7 DEF n
    <3> QED BY <2>6, <2>8, <3>1, SeqEqual
  <2>10. Head(value) = z
    BY <2>2, <2>4, <2>5
  <2> QED BY <2>4, <2>9, <2>10 DEF t
<1>16. line # <<>> /\ Head(line) = x
  <2>1. line # <<>>
    BY <1>8, <1>10, EmptySeq
  <2> QED BY <1>8, <1>11, <2>1
<1>17. ASSUME NEW i \in 1..Len(line)
       PROVE  line[i] \in {x, y, z} \/ \E k \in 1..n : line[i] = v[k]
  <2>1. i \in 1..((1 + c) + n)
    BY <1>8, <1>17
  <2>2. CASE i <= 1 + c
    <3>1. i = 1 \/ i = 2 \/ (c = 2 /\ i = 3)
      BY <1>1, <2>1, <2>2
    <3> QED BY <1>11, <3>1
  <2>3. CASE ~ (i <= 1 + c)
    <3>1. i - (1 + c) \in 1..n
      BY <1>1, <1>5, <2>1, <2>3
    <3>2. line[i] = v[i - (1 + c)]
      BY <1>8, <2>1, <2>3
    <3> QED BY <3>1, <3>2
  <2> QED BY <2>2, <2>3
<1> HIDE DEF value
<1>18. /\ col = <<y>> => value = v
       /\ col = <<y, z>> => value # <<>> /\ Head(value) = z /\ Tail(value) = v
  BY <1>3, <1>14, <1>15
<1> QED BY <1>8, <1>12, <1>13, <1>16, <1>17, <1>18 DEF value, line, pre, one, n, LineShape

LEMMA FieldLine ==
  ASSUME NEW form, GoodForm(form), NEW name \in {"id", "event", "data"},
         NEW v \in Lines, Suits(v, form)
  PROVE  LET line == Field(name, v, form)
         IN  /\ line \in Lines /\ line # <<>> /\ Head(line) # ":"
             /\ FieldOf(line) = <<name>> /\ ValueOf(line) = v
<1> DEFINE col == form.colon
           line == <<name>> \o col \o v
           value == SubSeq(line, 3, Len(line))
<1>1. /\ name \in Tokens /\ ":" \in Tokens /\ " " \in Tokens
      /\ name \notin {":", "LF", "CR"} /\ ":" \notin {"LF", "CR"} /\ " " \notin {"LF", "CR"}
  BY TokenAssumption
<1>2. col \in {<<":">>, <<":", " ">>} /\ v \in Seq(Tokens) /\ OneLine(v)
  BY DEF GoodForm, Lines, Text
<1>3. line = Field(name, v, form)
  BY DEF Field
<1> HIDE DEF col
<1>4. /\ line \in Seq(Tokens) /\ line # <<>> /\ Head(line) = name
      /\ \A i \in 1..Len(line) : line[i] \in {name, ":", " "} \/ \E k \in 1..Len(v) : line[i] = v[k]
      /\ FirstOf(":", line) = 2
      /\ SubSeq(line, 1, 1) = <<name>>
      /\ col = <<":">> => value = v
      /\ col = <<":", " ">> => value # <<>> /\ Head(value) = " " /\ Tail(value) = v
  <2>1. LineShape(line, name, ":", " ", col, v)
    <3>1. ASSUME NEW y \in Tokens, NEW z \in Tokens, name # y, col = <<y>> \/ col = <<y, z>>
          PROVE  LineShape(line, name, y, z, col, v)
      BY <1>1, <1>2, <3>1, LineParts
    <3> HIDE DEF line
    <3> QED BY <1>1, <1>2, <3>1
  <2> QED BY <2>1 DEF LineShape
<1> HIDE DEF line
<1>5. 2 - 1 = 1 /\ 2 + 1 = 3 /\ 2 # 0
  OBVIOUS
<1>6. FieldOf(line) = <<name>>
  BY <1>4, <1>5 DEF FieldOf
<1>7. ValueOf(line) = IF value # <<>> /\ Head(value) = " " THEN Tail(value) ELSE value
  BY <1>4, <1>5 DEF ValueOf
<1> HIDE DEF value
<1>8. ValueOf(line) = v
  <2>1. CASE col = <<":", " ">>
    BY <1>4, <1>7, <2>1
  <2>2. CASE col # <<":", " ">>
    <3>1. value = v
      BY <1>2, <1>4, <2>2
    <3>2. v = <<>> \/ Head(v) # " "
      BY <2>2 DEF Suits, col
    <3> QED BY <1>7, <3>1, <3>2
  <2> QED BY <2>1, <2>2
<1>9. OneLine(line)
  <2>1. ASSUME NEW i \in 1..Len(line) PROVE line[i] \notin {"LF", "CR"}
    <3>1. CASE line[i] \in {name, ":", " "}
      BY <1>1, <3>1
    <3>2. CASE \E k \in 1..Len(v) : line[i] = v[k]
      BY <1>2, <3>2 DEF OneLine
    <3> QED BY <1>4, <3>1, <3>2
  <2> QED BY <2>1 DEF OneLine
<1>10. line \in Lines
  BY <1>4, <1>9 DEF Lines, Text
<1> QED BY <1>1, <1>3, <1>4, <1>6, <1>8, <1>10

\* What a line does to the parser's fields.
At(a, b, d, o) == [current |-> [id |-> a, event |-> b, data |-> d], out |-> o]

LEMMA TakeField ==
  ASSUME NEW form, GoodForm(form), NEW v \in Lines, Suits(v, form), NEW a, NEW b, NEW d, NEW o
  PROVE  /\ TakeLine(At(a, b, d, o), Field("id", v, form)) = At(v, b, d, o)
         /\ TakeLine(At(a, b, d, o), Field("event", v, form)) = At(a, v, d, o)
         /\ TakeLine(At(a, b, d, o), Field("data", v, form)) = At(a, b, Append(d, v), o)
<1> DEFINE s == At(a, b, d, o)
           F(name) == Field(name, v, form)
<1>1. ASSUME NEW name \in {"id", "event", "data"}
      PROVE  F(name) # <<>> /\ Head(F(name)) # ":" /\ FieldOf(F(name)) = <<name>> /\ ValueOf(F(name)) = v
  BY FieldLine
<1>2. <<"id">> # <<"event">> /\ <<"id">> # <<"data">> /\ <<"event">> # <<"data">>
  <2>1. <<"id">>[1] = "id" /\ <<"event">>[1] = "event" /\ <<"data">>[1] = "data"
    OBVIOUS
  <2> QED BY <2>1
<1> HIDE DEF F, s
<1>3. TakeLine(s, F("id")) = [s EXCEPT !.current.id = v]
  <2> DEFINE l == F("id")
  <2>1. l # <<>> /\ Head(l) # ":" /\ FieldOf(l) = <<"id">> /\ ValueOf(l) = v
    BY <1>1
  <2> HIDE DEF l
  <2>2. TakeLine(s, l) = [s EXCEPT !.current.id = v]
    BY <1>2, <2>1 DEF TakeLine
  <2> QED BY <2>2 DEF l
<1>4. TakeLine(s, F("event")) = [s EXCEPT !.current.event = v]
  <2> DEFINE l == F("event")
  <2>1. l # <<>> /\ Head(l) # ":" /\ FieldOf(l) = <<"event">> /\ ValueOf(l) = v
    BY <1>1
  <2> HIDE DEF l
  <2>2. TakeLine(s, l) = [s EXCEPT !.current.event = v]
    BY <1>2, <2>1 DEF TakeLine
  <2> QED BY <2>2 DEF l
<1>5. TakeLine(s, F("data")) = [s EXCEPT !.current.data = Append(@, v)]
  <2> DEFINE l == F("data")
  <2>1. l # <<>> /\ Head(l) # ":" /\ FieldOf(l) = <<"data">> /\ ValueOf(l) = v
    BY <1>1
  <2> HIDE DEF l
  <2>2. TakeLine(s, l) = [s EXCEPT !.current.data = Append(@, v)]
    BY <1>2, <2>1 DEF TakeLine
  <2> QED BY <2>2 DEF l
<1>6. /\ [s EXCEPT !.current.id = v] = At(v, b, d, o)
      /\ [s EXCEPT !.current.event = v] = At(a, v, d, o)
      /\ [s EXCEPT !.current.data = Append(@, v)] = At(a, b, Append(d, v), o)
  <2>1. s.current = [id |-> a, event |-> b, data |-> d] /\ s.out = o
        /\ s = [current |-> s.current, out |-> s.out]
    BY DEF At, s
  <2>2. [s EXCEPT !.current.id = v] = At(v, b, d, o)
    BY DEF At, s
  <2>3. [s EXCEPT !.current.event = v] = At(a, v, d, o)
    BY DEF At, s
  <2>4. [s EXCEPT !.current.data = Append(@, v)] = At(a, b, Append(d, v), o)
    <3> DEFINE e == Append(d, v)
    <3>1. [s EXCEPT !.current.data = Append(@, v)] = [s EXCEPT !.current.data = e]
      BY <2>1
    <3> HIDE DEF e
    <3>2. [s EXCEPT !.current.data = e] = At(a, b, e, o)
      BY DEF At, s
    <3> QED BY <3>1, <3>2 DEF e
  <2> QED BY <2>2, <2>3, <2>4
<1> QED BY <1>3, <1>4, <1>5, <1>6 DEF F, s

LEMMA TakeId ==
  ASSUME NEW form, GoodForm(form), NEW v \in Lines, Suits(v, form), NEW a, NEW b, NEW d, NEW o
  PROVE  TakeLine(At(a, b, d, o), Field("id", v, form)) = At(v, b, d, o)
<1>1. /\ TakeLine(At(a, b, d, o), Field("id", v, form)) = At(v, b, d, o)
      /\ TakeLine(At(a, b, d, o), Field("event", v, form)) = At(a, v, d, o)
      /\ TakeLine(At(a, b, d, o), Field("data", v, form)) = At(a, b, Append(d, v), o)
  BY TakeField
<1> QED BY <1>1

LEMMA TakeEvent ==
  ASSUME NEW form, GoodForm(form), NEW v \in Lines, Suits(v, form), NEW a, NEW b, NEW d, NEW o
  PROVE  TakeLine(At(a, b, d, o), Field("event", v, form)) = At(a, v, d, o)
<1>1. /\ TakeLine(At(a, b, d, o), Field("id", v, form)) = At(v, b, d, o)
      /\ TakeLine(At(a, b, d, o), Field("event", v, form)) = At(a, v, d, o)
      /\ TakeLine(At(a, b, d, o), Field("data", v, form)) = At(a, b, Append(d, v), o)
  BY TakeField
<1> QED BY <1>1

\* Comments and unknown fields are skipped.
LEMMA TakeNoise ==
  ASSUME NEW line, Comment(line) \/ Unknown(line), NEW s
  PROVE  TakeLine(s, line) = s /\ line # <<>>
<1>1. line # <<>> /\ (Head(line) = ":" \/ FieldOf(line) \notin {<<"id">>, <<"event">>, <<"data">>})
  BY DEF Comment, Unknown
<1>2. TakeLine(s, line) = s
  BY <1>1 DEF TakeLine
<1> QED BY <1>1, <1>2

\* Only a blank line hands an event over.
LEMMA TakeNothing ==
  ASSUME NEW c \in Current, NEW o \in Seq(Current), NEW line, line # <<>>
  PROVE  TakeLine([current |-> c, out |-> o], line).out = o
<1> DEFINE s == [current |-> c, out |-> o]
           K(name) == Head(line) # ":" /\ FieldOf(line) = <<name>>
<1>1. \/ TakeLine(s, line) = [s EXCEPT !.current.event = ValueOf(line)]
      \/ TakeLine(s, line) = [s EXCEPT !.current.data = Append(@, ValueOf(line))]
      \/ TakeLine(s, line) = [s EXCEPT !.current.id = ValueOf(line)]
      \/ TakeLine(s, line) = s
  <2> HIDE DEF s
  <2>1. CASE K("event")
    BY <2>1 DEF TakeLine
  <2>2. CASE K("data") /\ ~ K("event")
    BY <2>2 DEF TakeLine
  <2>3. CASE K("id") /\ ~ K("event") /\ ~ K("data")
    BY <2>3 DEF TakeLine
  <2>4. CASE ~ K("id") /\ ~ K("event") /\ ~ K("data")
    BY <2>4 DEF TakeLine
  <2> QED BY <2>1, <2>2, <2>3, <2>4
<1> QED BY <1>1

\* The parser after lines of a form.
Passed(L, form, s) == Folded(Raws(L, form), s)

LEMMA PassedSteps ==
  ASSUME NEW form, GoodForm(form), NEW s \in Progress
  PROVE  /\ \A L \in Seq(Lines) : Passed(L, form, s) \in Progress
         /\ Passed(<<>>, form, s) = s
         /\ \A L \in Seq(Lines), l \in Lines :
              Passed(Append(L, l), form, s) = TakeLine(Passed(L, form, s), l)
         /\ \A A \in Seq(Lines), B \in Seq(Lines) :
              Passed(A \o B, form, s) = Passed(B, form, Passed(A, form, s))
<1>1. ASSUME NEW L \in Seq(Lines) PROVE Passed(L, form, s) \in Progress
  BY RawsFacts, FoldedType DEF Passed
<1>2. Passed(<<>>, form, s) = s
  <2>1. Raws(<<>>, form) = <<>>
    BY DEF Raws
  <2> QED BY <2>1, FoldedEmpty DEF Passed
<1>3. ASSUME NEW A \in Seq(Lines), NEW B \in Seq(Lines)
      PROVE  Passed(A \o B, form, s) = Passed(B, form, Passed(A, form, s))
  <2>1. Raws(A, form) \in Seq(Text) /\ Raws(B, form) \in Seq(Text)
    BY RawsFacts
  <2>2. Raws(A \o B, form) = Raws(A, form) \o Raws(B, form)
    BY RawsConcat
  <2> QED BY <2>1, <2>2, FoldedConcat DEF Passed
<1>4. ASSUME NEW L \in Seq(Lines), NEW l \in Lines
      PROVE  Passed(Append(L, l), form, s) = TakeLine(Passed(L, form, s), l)
  <2>1. Append(L, l) = L \o <<l>> /\ <<l>> \in Seq(Lines) /\ Len(<<l>>) = 1 /\ <<l>>[1] = l
    BY AppendIsConcat
  <2>2. l \in Text /\ OneLine(l)
    BY DEF Lines
  <2>3. Raws(<<l>>, form) = << l \o Return(form) >>
    BY <2>1 DEF Raws
  <2>4. l \o Return(form) \in Text /\ StripCR(l \o Return(form)) = l
    BY <2>2, RawLine
  <2> DEFINE t == Passed(L, form, s)
  <2>5. t \in Progress
    BY <1>1
  <2>6. Passed(<<l>>, form, t) = TakeLine(t, l)
    <3> HIDE DEF t
    <3>1. Folded(<< l \o Return(form) >>, t) = TakeLine(t, StripCR(l \o Return(form)))
      BY <2>4, <2>5, FoldedOne
    <3> QED BY <2>3, <2>4, <3>1 DEF Passed
  <2>7. Passed(L \o <<l>>, form, s) = Passed(<<l>>, form, t)
    BY <1>3, <2>1
  <2> QED BY <2>1, <2>6, <2>7
<1> QED BY <1>1, <1>2, <1>3, <1>4

\* Lines that change nothing.
LEMMA PassedSame ==
  ASSUME NEW form, GoodForm(form), NEW s \in Progress, NEW L \in Seq(Lines),
         \A k \in 1..Len(L) : TakeLine(s, L[k]) = s
  PROVE  Passed(L, form, s) = s
<1> DEFINE N == Len(L)
           pre(m) == SubSeq(L, 1, m)
           T == {m \in 0..N : Passed(pre(m), form, s) = s}
<1>1. N \in Nat /\ N \in 0..N
  BY LenProperties
<1>2. 0 \in T
  <2>1. pre(0) = <<>> /\ 0 \in 0..N
    BY <1>1, SubSeqEmpty
  <2> HIDE DEF pre
  <2> QED BY <2>1, PassedSteps
<1>3. ASSUME NEW m \in 0..(N - 1), m \in T PROVE m + 1 \in T
  <2>1. m + 1 \in 0..N /\ m \in Nat /\ m < N /\ m + 1 \in 1..N
    BY <1>1
  <2>2. pre(m) \in Seq(Lines) /\ L[m + 1] \in Lines /\ pre(m + 1) = Append(pre(m), L[m + 1])
    BY <2>1, PrefixStep
  <2>3. Passed(pre(m), form, s) = s
    BY <1>3
  <2>4. TakeLine(s, L[m + 1]) = s
    BY <2>1
  <2> DEFINE l == L[m + 1]
  <2> HIDE DEF pre, l
  <2>5. Passed(Append(pre(m), l), form, s) = TakeLine(Passed(pre(m), form, s), l)
    BY <2>2, PassedSteps DEF l
  <2> QED BY <2>1, <2>2, <2>3, <2>4, <2>5 DEF l
<1> HIDE DEF T
<1>4. N \in T
  <2>1. \A m \in 0..N : m \in T
    BY <1>1, <1>2, <1>3, Climb
  <2> QED BY <1>1, <2>1
<1>5. pre(N) = L
  BY SubSeqFull
<1> QED BY <1>4, <1>5 DEF T

\* Only blank lines hand an event over; what is in front of a frame changes nothing.
LEMMA PassedNothing ==
  ASSUME NEW form, GoodForm(form), NEW s \in Progress, NEW L \in Seq(Lines), NEW n \in Nat,
         \A k \in 1..Len(L) : (k <= n /\ TakeLine(s, L[k]) = s) \/ (k > n /\ L[k] # <<>>)
  PROVE  Passed(L, form, s).out = s.out
<1> DEFINE N == Len(L)
           pre(m) == SubSeq(L, 1, m)
           p(m) == Passed(pre(m), form, s)
           T == {m \in 0..N : p(m).out = s.out /\ (m <= n => p(m) = s)}
<1>1. N \in Nat /\ N \in 0..N
  BY LenProperties
<1>2. 0 \in T
  <2>1. pre(0) = <<>> /\ 0 \in 0..N
    BY <1>1, SubSeqEmpty
  <2> HIDE DEF pre
  <2> QED BY <2>1, PassedSteps
<1>3. ASSUME NEW m \in 0..(N - 1), m \in T PROVE m + 1 \in T
  <2>1. m + 1 \in 0..N /\ m \in Nat /\ m < N /\ m + 1 \in 1..N
    BY <1>1
  <2>2. pre(m) \in Seq(Lines) /\ L[m + 1] \in Lines /\ pre(m + 1) = Append(pre(m), L[m + 1])
    BY <2>1, PrefixStep
  <2> DEFINE l == L[m + 1]
             t == p(m)
  <2>3. p(m + 1) = TakeLine(t, l) /\ t \in Progress
    <3> HIDE DEF pre, l
    <3>1. Passed(Append(pre(m), l), form, s) = TakeLine(Passed(pre(m), form, s), l) /\ Passed(pre(m), form, s) \in Progress
      BY <2>2, PassedSteps DEF l
    <3> QED BY <2>2, <3>1 DEF l
  <2>4. t.out = s.out /\ (m <= n => t = s)
    BY <1>3
  <2>5. (m + 1 <= n /\ TakeLine(s, l) = s) \/ (m + 1 > n /\ l # <<>>)
    BY <2>1
  <2> HIDE DEF p, l, t
  <2>6. CASE m + 1 <= n /\ TakeLine(s, l) = s
    <3>1. m <= n
      BY <2>1, <2>6
    <3>2. p(m + 1) = s
      BY <2>3, <2>4, <2>6, <3>1
    <3> QED BY <2>1, <3>2
  <2>7. CASE m + 1 > n /\ l # <<>>
    <3>1. t.current \in Current /\ t.out \in Seq(Current) /\ t = [current |-> t.current, out |-> t.out]
      BY <2>3 DEF Progress
    <3>2. TakeLine(t, l).out = t.out
      <4>1. TakeLine([current |-> t.current, out |-> t.out], l).out = t.out
        BY <2>7, <3>1, TakeNothing
      <4> QED BY <3>1, <4>1
    <3>3. ~ (m + 1 <= n)
      BY <2>1, <2>7
    <3> QED BY <2>1, <2>3, <2>4, <3>2, <3>3
  <2> QED BY <2>5, <2>6, <2>7
<1> HIDE DEF T
<1>4. N \in T
  <2>1. \A m \in 0..N : m \in T
    BY <1>1, <1>2, <1>3, Climb
  <2> QED BY <1>1, <2>1
<1>5. pre(N) = L
  BY SubSeqFull
<1> QED BY <1>4, <1>5 DEF T

Filled == {l \in Lines : l # <<>>}

LEMMA FilledLines ==
  ASSUME NEW L \in Seq(Filled)
  PROVE  L \in Seq(Lines) /\ Len(L) \in Nat /\ \A k \in 1..Len(L) : L[k] # <<>>
<1>1. Len(L) \in Nat /\ \A k \in 1..Len(L) : L[k] \in Filled
  BY LenProperties, ElementOfSeq
<1>2. L \in Seq(Lines)
  BY <1>1, SeqOfPart DEF Filled
<1> QED BY <1>1, <1>2 DEF Filled

DataLines(d, form) == [k \in 1..Len(d) |-> Field("data", d[k], form)]

LEMMA DataFilled ==
  ASSUME NEW form, GoodForm(form), NEW d \in Seq(Lines), \A k \in 1..Len(d) : Suits(d[k], form)
  PROVE  DataLines(d, form) \in Seq(Filled)
<1> DEFINE N == Len(d)
           e(k) == Field("data", d[k], form)
<1>1. N \in Nat /\ \A k \in 1..N : d[k] \in Lines
  BY LenProperties, ElementOfSeq
<1>2. \A k \in 1..N : e(k) \in Filled
  BY <1>1, FieldLine DEF Filled
<1>3. DataLines(d, form) = [k \in 1..N |-> e(k)]
  BY DEF DataLines
<1> HIDE DEF e, N
<1> QED BY <1>1, <1>2, <1>3, IsASeq

GivesData(d, form) ==
  \A a \in Text \cup {None}, b \in Text \cup {None}, o \in Seq(Current) :
    Passed(DataLines(d, form), form, At(a, b, <<>>, o)) = At(a, b, d, o)

LEMMA PassedData ==
  ASSUME NEW form, GoodForm(form), NEW d \in Seq(Lines), \A k \in 1..Len(d) : Suits(d[k], form)
  PROVE  GivesData(d, form)
<1> SUFFICES ASSUME NEW a \in Text \cup {None}, NEW b \in Text \cup {None}, NEW o \in Seq(Current)
             PROVE  Passed(DataLines(d, form), form, At(a, b, <<>>, o)) = At(a, b, d, o)
  BY DEF GivesData
<1> DEFINE N == Len(d)
           e(k) == Field("data", d[k], form)
           L == DataLines(d, form)
           s == At(a, b, <<>>, o)
           pre(m) == SubSeq(L, 1, m)
           T == {m \in 0..N : Passed(pre(m), form, s) = At(a, b, SubSeq(d, 1, m), o)}
<1>1. N \in Nat /\ N \in 0..N /\ \A k \in 1..N : d[k] \in Lines
  BY LenProperties, ElementOfSeq
<1>2. \A k \in 1..N : e(k) \in Lines
  BY <1>1, FieldLine
<1>3. L \in Seq(Lines) /\ Len(L) = N /\ \A k \in 1..N : L[k] = e(k)
  <2>1. L = [k \in 1..N |-> e(k)]
    BY DEF DataLines
  <2>2. L \in Seq(Lines)
    BY DataFilled, FilledLines
  <2> HIDE DEF L, e, N
  <2>3. Len([k \in 1..N |-> e(k)]) = N
    BY <1>1
  <2> QED BY <2>1, <2>2, <2>3
<1>4. s \in Progress
  BY DEF At, Progress, Current
<1> HIDE DEF L
<1>5. 0 \in T
  <2>1. pre(0) = <<>> /\ 0 \in 0..N /\ SubSeq(d, 1, 0) = <<>>
    BY <1>1, SubSeqEmpty
  <2>2. s = At(a, b, SubSeq(d, 1, 0), o)
    BY <2>1
  <2> HIDE DEF pre, s
  <2>3. Passed(<<>>, form, s) = s
    BY <1>4, PassedSteps
  <2> QED BY <2>1, <2>2, <2>3
<1>6. ASSUME NEW m \in 0..(N - 1), m \in T PROVE m + 1 \in T
  <2>1. m + 1 \in 0..N /\ m \in Nat /\ m < N /\ m + 1 \in 1..N /\ m < Len(L)
    BY <1>1, <1>3
  <2>2. pre(m) \in Seq(Lines) /\ pre(m + 1) = Append(pre(m), L[m + 1])
    BY <1>3, <2>1, PrefixStep
  <2>3. d[m + 1] \in Lines /\ SubSeq(d, 1, m + 1) = Append(SubSeq(d, 1, m), d[m + 1])
    BY <2>1, PrefixStep
  <2> DEFINE v == d[m + 1]
             q == SubSeq(d, 1, m)
             l == L[m + 1]
  <2>4. l = Field("data", v, form) /\ l \in Lines /\ Suits(v, form)
    BY <1>2, <1>3, <2>1
  <2>5. Passed(pre(m), form, s) = At(a, b, q, o)
    BY <1>6
  <2> HIDE DEF s, pre, l, q
  <2>6. Passed(Append(pre(m), l), form, s) = TakeLine(Passed(pre(m), form, s), l)
    BY <1>4, <2>2, <2>4, PassedSteps
  <2> HIDE DEF v
  <2>7. TakeLine(At(a, b, q, o), Field("data", v, form)) = At(a, b, Append(q, v), o)
    BY <2>3, <2>4, TakeField DEF v
  <2>8. Passed(pre(m + 1), form, s) = At(a, b, Append(q, v), o)
    BY <2>2, <2>4, <2>5, <2>6, <2>7 DEF l
  <2> QED BY <2>1, <2>3, <2>8 DEF q, v
<1> HIDE DEF T, s
<1>7. N \in T
  <2>1. \A m \in 0..N : m \in T
    BY <1>1, <1>5, <1>6, Climb
  <2> QED BY <1>1, <2>1
<1>8. pre(N) = L /\ SubSeq(d, 1, N) = d
  BY <1>3, SubSeqFull
<1>9. Passed(L, form, s) = At(a, b, d, o)
  BY <1>7, <1>8 DEF T
<1> QED BY <1>9 DEF L, s

\* The lines of a frame between those in front and the blank one.
Body(f, form) ==
  LET id    == << Field("id", f.id, form) >>
      event == IF f.event = None THEN <<>> ELSE << Field("event", f.event, form) >>
      rest  == event \o form.noise \o DataLines(f.data, form)
  IN  IF form.idLast THEN rest \o id ELSE id \o rest

SuitsAll(f, form) ==
  /\ Suits(f.id, form)
  /\ f.event # None => Suits(f.event, form)
  /\ \A k \in 1..Len(f.data) : Suits(f.data[k], form)

LEMMA FitsSuits ==
  ASSUME NEW f, GoodFrame(f), NEW form, Fits(f, form)
  PROVE  SuitsAll(f, form)
<1>1. f.id \in Text /\ f.id # <<>> /\ None \notin Text /\ f.data \in Seq(Lines)
  BY FrameAssumption DEF GoodFrame, Lines
<1>2. ASSUME NEW v \in {f.id, f.event} \cup ToSet(f.data), v # None PROVE Suits(v, form)
  BY <1>2 DEF Fits, Suits
<1>3. \A k \in 1..Len(f.data) : f.data[k] \in ToSet(f.data) /\ f.data[k] \in Text
  BY <1>1, LinesAreTexts DEF ToSet
<1>4. Suits(f.id, form)
  BY <1>1, <1>2
<1>5. f.event # None => Suits(f.event, form)
  BY <1>2
<1>6. \A k \in 1..Len(f.data) : Suits(f.data[k], form)
  BY <1>1, <1>2, <1>3
<1> QED BY <1>4, <1>5, <1>6 DEF SuitsAll

LEMMA AtType ==
  ASSUME NEW a \in Text \cup {None}, NEW b \in Text \cup {None}, NEW d \in Seq(Text), NEW o \in Seq(Current)
  PROVE  At(a, b, d, o) \in Progress
BY DEF At, Progress, Current

LEMMA PassedOne ==
  ASSUME NEW form, GoodForm(form), NEW s \in Progress, NEW l \in Lines
  PROVE  <<l>> \in Seq(Lines) /\ Passed(<<l>>, form, s) = TakeLine(s, l)
<1>1. <<>> \in Seq(Lines) /\ Append(<<>>, l) = <<l>> /\ <<l>> \in Seq(Lines)
  OBVIOUS
<1> DEFINE e == <<>>
<1>2. e \in Seq(Lines) /\ Passed(e, form, s) = s
  BY <1>1, PassedSteps
<1> HIDE DEF e
<1>3. Passed(Append(e, l), form, s) = TakeLine(Passed(e, form, s), l)
  BY <1>2, PassedSteps
<1> QED BY <1>1, <1>2, <1>3 DEF e

LEMMA BodyFacts ==
  ASSUME NEW f, GoodFrame(f), NEW form, GoodForm(form), SuitsAll(f, form), NEW o \in Seq(Current)
  PROVE  /\ Body(f, form) \in Seq(Filled)
         /\ Passed(Body(f, form), form, At(None, None, <<>>, o)) = At(f.id, f.event, f.data, o)
<1> DEFINE id    == << Field("id", f.id, form) >>
           event == IF f.event = None THEN <<>> ELSE << Field("event", f.event, form) >>
           dat   == DataLines(f.data, form)
           rest  == event \o form.noise \o dat
<1>1. /\ f.id \in Lines /\ f.event \in Lines \cup {None} /\ f.data \in Seq(Lines)
      /\ f.id \in Text \cup {None} /\ f.event \in Text \cup {None} /\ f.data \in Seq(Text)
      /\ <<>> \in Seq(Text)
  BY LinesAreTexts DEF GoodFrame, Lines
<1>2. /\ Suits(f.id, form) /\ (f.event # None => Suits(f.event, form))
      /\ \A k \in 1..Len(f.data) : Suits(f.data[k], form)
  BY DEF SuitsAll
<1>3. id \in Seq(Filled)
      /\ \A a \in Text \cup {None}, b \in Text \cup {None}, d \in Seq(Text) :
           Passed(id, form, At(a, b, d, o)) = At(f.id, b, d, o)
  <2> DEFINE l == Field("id", f.id, form)
  <2>1. l \in Lines /\ l # <<>>
    BY <1>1, <1>2, FieldLine
  <2>2. << l >> \in Seq(Filled)
    <3> HIDE DEF l
    <3> QED BY <2>1 DEF Filled
  <2>3. ASSUME NEW a \in Text \cup {None}, NEW b \in Text \cup {None}, NEW d \in Seq(Text)
        PROVE  Passed(<< l >>, form, At(a, b, d, o)) = At(f.id, b, d, o)
    <3>1. TakeLine(At(a, b, d, o), l) = At(f.id, b, d, o)
      <4> DEFINE v == f.id
      <4>1. v \in Lines /\ Suits(v, form)
        BY <1>1, <1>2
      <4> HIDE DEF v, l, id, event, dat, rest
      <4>2. TakeLine(At(a, b, d, o), Field("id", v, form)) = At(v, b, d, o)
        BY <4>1, TakeId
      <4> QED BY <4>2 DEF v, l
    <3>2. At(a, b, d, o) \in Progress
      BY AtType
    <3> HIDE DEF l
    <3> QED BY <2>1, <3>1, <3>2, PassedOne
  <2> QED BY <2>2, <2>3
<1>4. event \in Seq(Filled)
      /\ \A a \in Text \cup {None} : Passed(event, form, At(a, None, <<>>, o)) = At(a, f.event, <<>>, o)
  <2>1. CASE f.event = None
    <3>1. event = <<>> /\ <<>> \in Seq(Filled)
      BY <2>1
    <3>2. ASSUME NEW a \in Text \cup {None} PROVE Passed(<<>>, form, At(a, None, <<>>, o)) = At(a, None, <<>>, o)
      <4> DEFINE s == At(a, None, <<>>, o)
      <4>1. s \in Progress
        BY <1>1, AtType
      <4> HIDE DEF s
      <4>2. Passed(<<>>, form, s) = s
        BY <4>1, PassedSteps
      <4> QED BY <4>2 DEF s
    <3> QED BY <2>1, <3>1, <3>2
  <2>2. CASE f.event # None
    <3> DEFINE l == Field("event", f.event, form)
    <3>1. f.event \in Lines /\ Suits(f.event, form)
      BY <1>1, <1>2, <2>2
    <3>2. l \in Lines /\ l # <<>>
      BY <3>1, FieldLine
    <3>3. << l >> \in Seq(Filled)
      <4> HIDE DEF l
      <4> QED BY <3>2 DEF Filled
    <3>4. ASSUME NEW a \in Text \cup {None}
          PROVE  Passed(<< l >>, form, At(a, None, <<>>, o)) = At(a, f.event, <<>>, o)
      <4>1. TakeLine(At(a, None, <<>>, o), l) = At(a, f.event, <<>>, o)
        <5> DEFINE v == f.event
        <5>1. v \in Lines /\ Suits(v, form)
          BY <3>1
        <5> HIDE DEF v, l, id, event, dat, rest
        <5>2. TakeLine(At(a, None, <<>>, o), Field("event", v, form)) = At(a, v, <<>>, o)
          BY <5>1, TakeEvent
        <5> QED BY <5>2 DEF v, l
      <4>2. At(a, None, <<>>, o) \in Progress
        BY <1>1, AtType
      <4> HIDE DEF l
      <4> QED BY <3>2, <4>1, <4>2, PassedOne
    <3> QED BY <2>2, <3>3, <3>4
  <2> QED BY <2>1, <2>2
<1>5. form.noise \in Seq(Filled) /\ \A s \in Progress : Passed(form.noise, form, s) = s
  <2>1. form.noise \in Seq(Lines) /\ \A k \in 1..Len(form.noise) : form.noise[k] \in Lines
    BY LenProperties, ElementOfSeq DEF GoodForm
  <2>2. \A k \in 1..Len(form.noise) : Comment(form.noise[k]) \/ Unknown(form.noise[k])
    BY DEF GoodForm
  <2>3. \A k \in 1..Len(form.noise) : form.noise[k] # <<>> /\ \A s \in Progress : TakeLine(s, form.noise[k]) = s
    BY <2>2, TakeNoise
  <2>4. form.noise \in Seq(Filled)
    <3>1. \A k \in 1..Len(form.noise) : form.noise[k] \in Filled
      BY <2>1, <2>3 DEF Filled
    <3> QED BY <2>1, <3>1, SeqOfPart
  <2> QED BY <2>1, <2>3, <2>4, PassedSame
<1>6. dat \in Seq(Filled)
      /\ \A a \in Text \cup {None}, b \in Text \cup {None} :
           Passed(dat, form, At(a, b, <<>>, o)) = At(a, b, f.data, o)
  <2> DEFINE d == f.data
  <2>1. d \in Seq(Lines) /\ \A k \in 1..Len(d) : Suits(d[k], form)
    BY <1>1, <1>2
  <2> HIDE DEF d, dat
  <2>2. DataLines(d, form) \in Seq(Filled) /\ GivesData(d, form)
    BY <2>1, DataFilled, PassedData
  <2> QED BY <2>2 DEF GivesData, d, dat
<1> DEFINE noise == form.noise
<1>7. Body(f, form) = IF form.idLast THEN rest \o id ELSE id \o rest
  BY DEF Body
<1> HIDE DEF id, event, dat, noise
<1>8. ASSUME NEW A \in Seq(Filled), NEW B \in Seq(Filled), NEW s \in Progress
      PROVE  A \o B \in Seq(Filled) /\ Passed(A \o B, form, s) = Passed(B, form, Passed(A, form, s))
  <2>1. A \in Seq(Lines) /\ B \in Seq(Lines)
    BY FilledLines
  <2> QED BY <2>1, ConcatProperties, PassedSteps
<1> DEFINE en == event \o noise
<1>9. rest = en \o dat
  BY DEF noise
<1>10. en \in Seq(Filled)
  BY <1>4, <1>5, ConcatProperties DEF noise
<1>11. ASSUME NEW a \in Text \cup {None}
       PROVE  rest \in Seq(Filled) /\ Passed(rest, form, At(a, None, <<>>, o)) = At(a, f.event, f.data, o)
  <2> DEFINE s == At(a, None, <<>>, o)
             t == At(a, f.event, <<>>, o)
  <2>1. s \in Progress /\ t \in Progress
    BY <1>1, AtType
  <2>2. Passed(event, form, s) = t
    BY <1>4
  <2>3. Passed(dat, form, t) = At(a, f.event, f.data, o)
    BY <1>1, <1>6
  <2> HIDE DEF s, t, rest
  <2>4. Passed(en, form, s) = t
    BY <1>4, <1>5, <1>8, <2>1, <2>2 DEF noise
  <2> HIDE DEF en
  <2>5. Passed(en \o dat, form, s) = Passed(dat, form, t) /\ en \o dat \in Seq(Filled)
    BY <1>6, <1>8, <1>10, <2>1, <2>4
  <2> QED BY <1>9, <2>3, <2>5 DEF s
<1> HIDE DEF rest, en
<1>12. None \in Text \cup {None}
  OBVIOUS
<1> DEFINE z == At(None, None, <<>>, o)
<1>13. z \in Progress
  BY <1>1, AtType
<1>14. CASE form.idLast
  <2>1. Passed(rest, form, z) = At(None, f.event, f.data, o) /\ rest \in Seq(Filled)
    BY <1>11, <1>12
  <2>2. Passed(id, form, At(None, f.event, f.data, o)) = At(f.id, f.event, f.data, o)
    BY <1>1, <1>3, <1>12
  <2> HIDE DEF z
  <2>3. rest \o id \in Seq(Filled) /\ Passed(rest \o id, form, z) = Passed(id, form, Passed(rest, form, z))
    BY <1>3, <1>8, <1>13, <2>1
  <2> QED BY <1>7, <1>14, <2>1, <2>2, <2>3 DEF z
<1>15. CASE ~ form.idLast
  <2>1. Passed(rest, form, At(f.id, None, <<>>, o)) = At(f.id, f.event, f.data, o) /\ rest \in Seq(Filled)
    BY <1>1, <1>11
  <2>2. Passed(id, form, z) = At(f.id, None, <<>>, o)
    BY <1>1, <1>3, <1>12
  <2> HIDE DEF z
  <2>3. id \o rest \in Seq(Filled) /\ Passed(id \o rest, form, z) = Passed(rest, form, Passed(id, form, z))
    BY <1>3, <1>8, <1>13, <2>1
  <2> QED BY <1>7, <1>15, <2>1, <2>2, <2>3 DEF z
<1> QED BY <1>14, <1>15

\* The parser between two frames.
Ready(o) == At(None, None, <<>>, o)

LEMMA LinesOfFacts ==
  ASSUME NEW f, GoodFrame(f), NEW form, GoodForm(form), SuitsAll(f, form)
  PROVE  LET lead == form.lead
             body == Body(f, form)
             all == LinesOf(f, form)
         IN  /\ lead \in Seq(Lines) /\ body \in Seq(Filled) /\ body \in Seq(Lines)
             /\ all = (lead \o body) \o << <<>> >>
             /\ << <<>> >> \in Seq(Lines) /\ <<>> \in Lines
             /\ all \in Seq(Lines) /\ lead \o body \in Seq(Lines)
             /\ Len(all) = Len(lead) + Len(body) + 1 /\ Len(lead) \in Nat /\ Len(body) \in Nat
             /\ \A k \in 1..(Len(all) - 1) : all[k] = IF k <= Len(lead) THEN lead[k] ELSE body[k - Len(lead)]
<1> DEFINE lead == form.lead
           body == Body(f, form)
           blank == << <<>> >>
           lb == lead \o body
           all == LinesOf(f, form)
<1>1. lead \in Seq(Lines)
  BY DEF GoodForm
<1>2. body \in Seq(Filled) /\ body \in Seq(Lines)
  <2>1. <<>> \in Seq(Current)
    OBVIOUS
  <2>2. body \in Seq(Filled)
    BY <2>1, BodyFacts
  <2> HIDE DEF body
  <2> QED BY <2>2, FilledLines
<1>3. blank \in Seq(Lines) /\ Len(blank) = 1 /\ <<>> \in Lines
  <2>1. <<>> \in Lines
    BY DEF Lines, OneLine, Text
  <2>2. ASSUME NEW l \in Lines PROVE <<l>> \in Seq(Lines) /\ Len(<<l>>) = 1
    OBVIOUS
  <2> QED BY <2>1, <2>2
<1>4. all = lb \o blank
  BY DEF LinesOf, Body, DataLines
<1> HIDE DEF lead, body, blank, all
<1>5. ASSUME NEW a \in Seq(Lines), NEW b \in Seq(Lines)
      PROVE  /\ a \o b \in Seq(Lines) /\ Len(a \o b) = Len(a) + Len(b) /\ Len(a) \in Nat /\ Len(b) \in Nat
             /\ \A i \in 1 .. Len(a) + Len(b) : (a \o b)[i] = IF i <= Len(a) THEN a[i] ELSE b[i - Len(a)]
  BY ConcatProperties, LenProperties
<1>6. /\ lb \in Seq(Lines) /\ Len(lb) = Len(lead) + Len(body) /\ Len(lead) \in Nat /\ Len(body) \in Nat
      /\ \A i \in 1 .. Len(lead) + Len(body) : lb[i] = IF i <= Len(lead) THEN lead[i] ELSE body[i - Len(lead)]
  BY <1>1, <1>2, <1>5
<1> HIDE DEF lb
<1>7. /\ all \in Seq(Lines) /\ Len(all) = Len(lb) + 1
      /\ \A i \in 1 .. Len(lb) + 1 : all[i] = IF i <= Len(lb) THEN lb[i] ELSE blank[i - Len(lb)]
  <2>1. /\ lb \o blank \in Seq(Lines) /\ Len(lb \o blank) = Len(lb) + Len(blank)
        /\ \A i \in 1 .. Len(lb) + Len(blank) :
             (lb \o blank)[i] = IF i <= Len(lb) THEN lb[i] ELSE blank[i - Len(lb)]
    BY <1>3, <1>5, <1>6
  <2> QED BY <1>3, <1>4, <2>1
<1>8. ASSUME NEW k \in 1..(Len(all) - 1)
      PROVE  all[k] = IF k <= Len(lead) THEN lead[k] ELSE body[k - Len(lead)]
  <2>1. k \in 1 .. Len(lb) + 1 /\ k <= Len(lb) /\ k \in 1 .. Len(lead) + Len(body)
    BY <1>6, <1>7
  <2>2. all[k] = lb[k]
    BY <1>7, <2>1
  <2> QED BY <1>6, <2>1, <2>2
<1>9. Len(all) = Len(lead) + Len(body) + 1
  BY <1>6, <1>7
<1> QED BY <1>1, <1>2, <1>3, <1>4, <1>6, <1>7, <1>8, <1>9 DEF lead, body, blank, all, lb

LEMMA ReadyFacts ==
  ASSUME NEW o \in Seq(Current)
  PROVE  /\ Ready(o) \in Progress /\ Ready(o).out = o
         /\ Ready(o) = [current |-> NoField, out |-> o]
         /\ TakeLine(Ready(o), <<>>) = Ready(o)
<1>1. <<>> \in Seq(Text) /\ None \in Text \cup {None}
  OBVIOUS
<1>2. Ready(o) \in Progress
  BY <1>1, AtType DEF Ready
<1>3. Ready(o) = [current |-> NoField, out |-> o]
  BY DEF Ready, At, NoField
<1>4. ~ Truthy(None)
  BY DEF Truthy
<1>5. TakeLine([current |-> NoField, out |-> o], <<>>) = [current |-> NoField, out |-> o]
  BY <1>4 DEF TakeLine, NoField
<1> QED BY <1>2, <1>3, <1>5

LEMMA LeadSame ==
  ASSUME NEW form, GoodForm(form), NEW o \in Seq(Current), NEW k \in 1..Len(form.lead)
  PROVE  TakeLine(Ready(o), form.lead[k]) = Ready(o)
<1>1. form.lead[k] = <<>> \/ Comment(form.lead[k])
  BY DEF GoodForm
<1> QED BY <1>1, ReadyFacts, TakeNoise

\* A frame's lines give the frame, with its last line.
LEMMA FrameTaken ==
  ASSUME NEW f, GoodFrame(f), NEW form, GoodForm(form), SuitsAll(f, form), NEW o \in Seq(Current)
  PROVE  Passed(LinesOf(f, form), form, Ready(o)) = Ready(Append(o, f)) /\ f \in Current
<1> DEFINE lead == form.lead
           body == Body(f, form)
           blank == << <<>> >>
           all == LinesOf(f, form)
           s == Ready(o)
           t == At(f.id, f.event, f.data, o)
<1>1. /\ lead \in Seq(Lines) /\ body \in Seq(Lines) /\ blank \in Seq(Lines) /\ <<>> \in Lines
      /\ lead \o body \in Seq(Lines) /\ all = (lead \o body) \o blank
  BY LinesOfFacts
<1>2. s \in Progress
  BY ReadyFacts
<1>3. Passed(lead, form, s) = s
  <2>1. \A k \in 1..Len(lead) : TakeLine(s, lead[k]) = s
    BY LeadSame
  <2> HIDE DEF lead, s
  <2> QED BY <1>1, <1>2, <2>1, PassedSame
<1>4. Passed(body, form, s) = t
  BY BodyFacts DEF Ready
<1>5. /\ f.id \in Text /\ f.event \in Text \cup {None} /\ f.data \in Seq(Text) /\ f.id # <<>>
      /\ f = [id |-> f.id, event |-> f.event, data |-> f.data]
  <2>1. f \in [id : Lines, event : Lines \cup {None}, data : Seq(Lines)] /\ f.id # <<>>
    BY DEF GoodFrame
  <2>2. f.data \in Seq(Text)
    BY <2>1, LinesAreTexts
  <2> QED BY <2>1, <2>2 DEF Lines
<1>6. t \in Progress /\ f \in Current
  <2>1. t \in Progress
    BY <1>5, AtType
  <2>2. f \in Current
    BY <1>5 DEF Current
  <2> QED BY <2>1, <2>2
<1>7. TakeLine(t, <<>>) = Ready(Append(o, f))
  <2>1. Truthy(f.id)
    BY <1>5, FrameAssumption DEF Truthy
  <2>2. t.current = f /\ t.out = o
    BY <1>5 DEF At
  <2> HIDE DEF t
  <2>3. TakeLine(t, <<>>) = [current |-> NoField, out |-> Append(o, f)]
    BY <2>1, <2>2 DEF TakeLine
  <2> QED BY <2>3 DEF Ready, At, NoField
<1> HIDE DEF lead, body, all, s, t
<1>8. Passed(lead \o body, form, s) = t
  BY <1>1, <1>2, <1>3, <1>4, PassedSteps
<1>9. Passed(blank, form, t) = TakeLine(t, <<>>)
  <2>1. ASSUME NEW l \in Lines PROVE Passed(<<l>>, form, t) = TakeLine(t, l)
    BY <1>6, PassedOne
  <2> QED BY <1>1, <2>1
<1> HIDE DEF blank
<1>10. Passed((lead \o body) \o blank, form, s) = Passed(blank, form, Passed(lead \o body, form, s))
  <2> DEFINE lb == lead \o body
  <2>1. lb \in Seq(Lines)
    BY <1>1
  <2> HIDE DEF lb
  <2>2. Passed(lb \o blank, form, s) = Passed(blank, form, Passed(lb, form, s))
    BY <1>1, <1>2, <2>1, PassedSteps
  <2> QED BY <2>2 DEF lb
<1>11. Passed(all, form, s) = TakeLine(t, <<>>)
  BY <1>1, <1>8, <1>9, <1>10
<1> QED BY <1>6, <1>7, <1>11 DEF all, s

\* Before its last line nothing is handed over.
LEMMA FrameTaking ==
  ASSUME NEW f, GoodFrame(f), NEW form, GoodForm(form), SuitsAll(f, form), NEW o \in Seq(Current),
         NEW j \in Nat, j < Len(LinesOf(f, form))
  PROVE  Passed(SubSeq(LinesOf(f, form), 1, j), form, Ready(o)).out = o
<1> DEFINE lead == form.lead
           body == Body(f, form)
           all == LinesOf(f, form)
           s == Ready(o)
           p == SubSeq(all, 1, j)
<1>1. /\ body \in Seq(Filled) /\ all \in Seq(Lines)
      /\ Len(all) = Len(lead) + Len(body) + 1 /\ Len(lead) \in Nat /\ Len(body) \in Nat
      /\ \A k \in 1..(Len(all) - 1) : all[k] = IF k <= Len(lead) THEN lead[k] ELSE body[k - Len(lead)]
  BY LinesOfFacts
<1>2. \A k \in 1..Len(body) : body[k] # <<>>
  BY <1>1, FilledLines
<1>3. s \in Progress /\ s.out = o
  BY ReadyFacts
<1>4. \A k \in 1..Len(lead) : TakeLine(s, lead[k]) = s
  BY LeadSame
<1> HIDE DEF lead, body, s
<1>5. p \in Seq(Lines) /\ Len(p) = j /\ \A k \in 1..j : p[k] = all[k]
  <2>1. j \in 0..Len(all)
    BY <1>1
  <2> QED BY <1>1, <2>1, PrefixFacts
<1>6. j < Len(all)
  OBVIOUS
<1> HIDE DEF p, all
<1>7. ASSUME NEW k \in 1..Len(p)
      PROVE  (k <= Len(lead) /\ TakeLine(s, p[k]) = s) \/ (k > Len(lead) /\ p[k] # <<>>)
  <2>1. k \in 1..j /\ k \in 1..(Len(all) - 1)
    BY <1>1, <1>5, <1>6
  <2>2. p[k] = IF k <= Len(lead) THEN lead[k] ELSE body[k - Len(lead)]
    BY <1>1, <1>5, <2>1
  <2>3. CASE k <= Len(lead)
    <3>1. k \in 1..Len(lead)
      BY <1>1, <2>1, <2>3
    <3> QED BY <1>4, <2>2, <2>3, <3>1
  <2>4. CASE ~ (k <= Len(lead))
    <3>1. k > Len(lead) /\ k - Len(lead) \in 1..Len(body)
      BY <1>1, <2>1, <2>4
    <3> QED BY <1>2, <2>2, <2>4, <3>1
  <2> QED BY <2>3, <2>4
<1>8. Passed(p, form, s).out = s.out
  <2> DEFINE n == Len(lead)
  <2>1. n \in Nat /\ \A k \in 1..Len(p) : (k <= n /\ TakeLine(s, p[k]) = s) \/ (k > n /\ p[k] # <<>>)
    BY <1>1, <1>7
  <2> HIDE DEF n
  <2> QED BY <1>3, <1>5, <2>1, PassedNothing
<1> QED BY <1>3, <1>8 DEF p, all, s

LEMMA EncodeIsLines ==
  ASSUME NEW f, GoodFrame(f), NEW form, GoodForm(form), SuitsAll(f, form)
  PROVE  Encode(f, form) = Unlines(Raws(LinesOf(f, form), form))
<1> DEFINE all == LinesOf(f, form)
           N == Len(all)
           R == Raws(all, form)
<1>1. all \in Seq(Lines)
  BY LinesOfFacts
<1>2. /\ R \in Seq(Text) /\ Len(R) = N /\ N \in Nat
      /\ \A k \in 1..N : R[k] = all[k] \o Return(form)
  BY <1>1, RawsFacts
<1>3. Ended(R) = [k \in 1..N |-> R[k] \o <<"LF">>]
  BY <1>2 DEF Ended
<1>4. ASSUME NEW k \in 1..N PROVE R[k] \o <<"LF">> = all[k] \o form.eol
  <2>1. all[k] \in Text
    BY <1>1, LinesAreTexts
  <2>2. Return(form) \in Text /\ form.eol = Return(form) \o <<"LF">> /\ <<"LF">> \in Text
    BY ReturnFacts, LFIsText
  <2>3. R[k] = all[k] \o Return(form)
    BY <1>2
  <2> HIDE DEF R, all
  <2>4. (all[k] \o Return(form)) \o <<"LF">> = all[k] \o (Return(form) \o <<"LF">>)
    BY <2>1, <2>2, TextConcat
  <2> QED BY <2>2, <2>3, <2>4
<1>5. [k \in 1..N |-> R[k] \o <<"LF">>] = [k \in 1..N |-> all[k] \o form.eol]
  <2> DEFINE g(k) == R[k] \o <<"LF">>
             h(k) == all[k] \o form.eol
  <2>1. \A k \in 1..N : g(k) = h(k)
    BY <1>4
  <2> HIDE DEF g, h, N
  <2>2. [k \in 1..N |-> g(k)] = [k \in 1..N |-> h(k)]
    BY <2>1
  <2> QED BY <2>2 DEF g, h
<1>6. Encode(f, form) = FlattenSeq([k \in 1..N |-> all[k] \o form.eol])
  BY DEF Encode
<1> HIDE DEF N, R, all
<1>7. Unlines(R) = FlattenSeq([k \in 1..N |-> all[k] \o form.eol])
  BY <1>3, <1>5 DEF Unlines
<1> QED BY <1>6, <1>7 DEF R, all

-----------------------------------------------------------------------------
(* The lines of a response, for the forms st.                              *)

Plain == {l \in Text : NoLF(l)}

RawAt(st, n) == Raws(LinesOf(Frames[n], Forms[st[n]]), Forms[st[n]])
Parts(st, from) == [i \in 1..(Len(Frames) - from) |-> RawAt(st, from + i)]

\* The lines of the k frames after the first from, and their text.
SentLines(st, from, k) == FlattenSeq(SubSeq(Parts(st, from), 1, k))
SentIn(st, from, k) ==
  FlattenSeq([i \in 1..k |-> Encode(Frames[from + i], Forms[st[from + i]])])

LEMMA StyleFacts ==
  ASSUME NEW st \in Styles, NEW n \in 1..Len(Frames)
  PROVE  GoodFrame(Frames[n]) /\ GoodForm(Forms[st[n]]) /\ SuitsAll(Frames[n], Forms[st[n]])
<1>1. st[n] \in 1..Len(Forms) /\ Fits(Frames[n], Forms[st[n]])
  BY DEF Styles
<1>2. GoodFrame(Frames[n])
  BY GoodFrames
<1>3. GoodForm(Forms[st[n]])
  BY <1>1, GoodForms
<1> DEFINE f == Frames[n]
           form == Forms[st[n]]
<1> HIDE DEF f, form
<1>4. SuitsAll(f, form)
  BY <1>1, <1>2, FitsSuits DEF f, form
<1> QED BY <1>2, <1>3, <1>4 DEF f, form

LEMMA PlainSeq ==
  ASSUME NEW L \in Seq(Plain)
  PROVE  L \in Seq(Text) /\ Len(L) \in Nat /\ \A k \in 1..Len(L) : L[k] \in Text /\ NoLF(L[k])
<1>1. Len(L) \in Nat /\ \A k \in 1..Len(L) : L[k] \in Plain
  BY LenProperties, ElementOfSeq
<1>2. L \in Seq(Text)
  BY <1>1, SeqOfPart DEF Plain
<1> QED BY <1>1, <1>2 DEF Plain

LEMMA RawAtFacts ==
  ASSUME NEW st \in Styles, NEW n \in 1..Len(Frames)
  PROVE  /\ RawAt(st, n) \in Seq(Plain) /\ RawAt(st, n) \in Seq(Text)
         /\ Encode(Frames[n], Forms[st[n]]) = Unlines(RawAt(st, n))
<1> DEFINE f == Frames[n]
           form == Forms[st[n]]
           all == LinesOf(f, form)
<1>1. GoodFrame(f) /\ GoodForm(form) /\ SuitsAll(f, form)
  BY StyleFacts
<1>2. RawAt(st, n) = Raws(all, form)
  BY DEF RawAt
<1> HIDE DEF f, form
<1>3. all \in Seq(Lines)
  BY <1>1, LinesOfFacts
<1>4. Encode(f, form) = Unlines(Raws(all, form))
  BY <1>1, EncodeIsLines
<1> HIDE DEF all
<1> DEFINE R == Raws(all, form)
<1>5. /\ R \in Seq(Text) /\ Len(R) = Len(all)
      /\ \A k \in 1..Len(all) : NoLF(R[k])
  BY <1>1, <1>3, RawsFacts
<1> HIDE DEF R
<1>6. \A k \in 1..Len(R) : R[k] \in Plain
  BY <1>5, LenProperties, ElementOfSeq DEF Plain
<1>7. R \in Seq(Plain)
  BY <1>5, <1>6, SeqOfPart
<1> QED BY <1>2, <1>4, <1>5, <1>7 DEF R, f, form

LEMMA PartsFacts ==
  ASSUME NEW st \in Styles, NEW from \in 0..Len(Frames)
  PROVE  /\ Parts(st, from) \in Seq(Seq(Plain)) /\ Len(Parts(st, from)) = Len(Frames) - from
         /\ Len(Frames) - from \in Nat
         /\ \A i \in 1..(Len(Frames) - from) : Parts(st, from)[i] = RawAt(st, from + i) /\ from + i \in 1..Len(Frames)
<1> DEFINE K == Len(Frames) - from
           g(i) == RawAt(st, from + i)
<1>1. Len(Frames) \in Nat
  BY FrameAssumption, LenProperties
<1>2. K \in Nat /\ \A i \in 1..K : from + i \in 1..Len(Frames)
  BY <1>1
<1>3. \A i \in 1..K : g(i) \in Seq(Plain)
  BY <1>2, RawAtFacts
<1>4. Parts(st, from) = [i \in 1..K |-> g(i)]
  BY DEF Parts
<1>5. \A i \in 1..K : g(i) = RawAt(st, from + i)
  OBVIOUS
<1> HIDE DEF K, g
<1>6. [i \in 1..K |-> g(i)] \in Seq(Seq(Plain))
  BY <1>2, <1>3, IsASeq
<1>7. Len([i \in 1..K |-> g(i)]) = K
  BY <1>2
<1> QED BY <1>2, <1>4, <1>5, <1>6, <1>7 DEF K

\* The lines come frame by frame.
LEMMA SentLinesSteps ==
  ASSUME NEW st \in Styles, NEW from \in 0..Len(Frames), NEW k \in Nat, k < Len(Frames) - from
  PROVE  /\ SentLines(st, from, k) \in Seq(Plain)
         /\ RawAt(st, from + k + 1) \in Seq(Plain) /\ from + k + 1 \in 1..Len(Frames)
         /\ SentLines(st, from, k + 1) = SentLines(st, from, k) \o RawAt(st, from + k + 1)
<1> DEFINE P == Parts(st, from)
           K == Len(Frames) - from
           p == SubSeq(P, 1, k)
           x == P[k + 1]
<1>1. P \in Seq(Seq(Plain)) /\ Len(P) = K /\ K \in Nat
      /\ \A i \in 1..K : P[i] = RawAt(st, from + i) /\ from + i \in 1..Len(Frames)
  BY PartsFacts
<1>2. k + 1 \in 1..K /\ k < Len(P) /\ from + (k + 1) = from + k + 1
  BY <1>1
<1>3. SentLines(st, from, k) = FlattenSeq(p) /\ SentLines(st, from, k + 1) = FlattenSeq(SubSeq(P, 1, k + 1))
  BY DEF SentLines
<1>4. x = RawAt(st, from + k + 1) /\ from + k + 1 \in 1..Len(Frames)
  BY <1>1, <1>2
<1> HIDE DEF P, K
<1>5. p \in Seq(Seq(Plain)) /\ x \in Seq(Plain) /\ SubSeq(P, 1, k + 1) = Append(p, x)
  BY <1>1, <1>2, PrefixStep
<1> HIDE DEF p, x
<1>6. FlattenSeq(Append(p, x)) = FlattenSeq(p) \o x /\ FlattenSeq(p) \in Seq(Plain)
  BY <1>5, FlattenAppend, FlattenType
<1> QED BY <1>3, <1>4, <1>5, <1>6

LEMMA SentLinesType ==
  ASSUME NEW st \in Styles, NEW from \in 0..Len(Frames), NEW k \in 0..(Len(Frames) - from)
  PROVE  SentLines(st, from, k) \in Seq(Plain)
<1> DEFINE P == Parts(st, from)
<1>1. P \in Seq(Seq(Plain)) /\ Len(P) = Len(Frames) - from
  BY PartsFacts
<1>2. SentLines(st, from, k) = FlattenSeq(SubSeq(P, 1, k))
  BY DEF SentLines
<1> HIDE DEF P
<1>3. SubSeq(P, 1, k) \in Seq(Seq(Plain))
  BY <1>1, PrefixFacts
<1> QED BY <1>2, <1>3, FlattenType

LEMMA SentLinesNone ==
  ASSUME NEW st, NEW from
  PROVE  SentLines(st, from, 0) = <<>>
<1>1. SubSeq(Parts(st, from), 1, 0) = <<>>
  BY SubSeqEmpty
<1> QED BY <1>1, FlattenEmpty DEF SentLines

\* The lines of fewer frames are the first of the lines of more.
LEMMA SentLinesGrow ==
  ASSUME NEW st \in Styles, NEW from \in 0..Len(Frames),
         NEW m \in 0..(Len(Frames) - from), NEW k \in 0..m
  PROVE  \E X \in Seq(Plain) : SentLines(st, from, m) = SentLines(st, from, k) \o X
<1> DEFINE P == Parts(st, from)
           K == Len(Frames) - from
           a == SubSeq(P, 1, k)
           b == SubSeq(P, k + 1, m)
<1>1. P \in Seq(Seq(Plain)) /\ Len(P) = K /\ K \in Nat
  BY PartsFacts
<1>2. SentLines(st, from, k) = FlattenSeq(a) /\ SentLines(st, from, m) = FlattenSeq(SubSeq(P, 1, m))
  BY DEF SentLines
<1>3. m \in 0..K
  OBVIOUS
<1> HIDE DEF P, K
<1>4. a \in Seq(Seq(Plain))
  <2>1. k \in 0..Len(P)
    BY <1>1, <1>3
  <2> QED BY <1>1, <2>1, PrefixFacts
<1>5. b \in Seq(Seq(Plain))
  <2>1. k + 1 \in Int /\ m \in Int /\ \A i \in (k + 1)..m : i \in 1..Len(P)
    BY <1>1, <1>3
  <2>2. \A i \in (k + 1)..m : P[i] \in Seq(Plain)
    BY <1>1, <2>1, ElementOfSeq
  <2> QED BY <2>1, <2>2, SubSeqProperties
<1>6. SubSeq(P, 1, m) = a \o b
  <2>1. 1 \in 1..(Len(P) + 1) /\ k \in (1 - 1)..Len(P) /\ m \in k..Len(P)
    BY <1>1, <1>3
  <2> QED BY <1>1, <2>1, ConcatAdjacentSubSeq
<1> HIDE DEF a, b
<1>7. FlattenSeq(a \o b) = FlattenSeq(a) \o FlattenSeq(b) /\ FlattenSeq(b) \in Seq(Plain)
  BY <1>4, <1>5, FlattenConcat, FlattenType
<1> QED BY <1>2, <1>6, <1>7

\* The text of frames is the text of their lines.
LEMMA SentIsLines ==
  ASSUME NEW st \in Styles, NEW from \in 0..Len(Frames), NEW k \in 0..(Len(Frames) - from)
  PROVE  SentIn(st, from, k) = Unlines(SentLines(st, from, k))
<1> DEFINE K == Len(Frames) - from
           e(i) == Encode(Frames[from + i], Forms[st[from + i]])
           E == [i \in 1..K |-> e(i)]
           T == {m \in 0..K : SentIn(st, from, m) = Unlines(SentLines(st, from, m))}
<1>1. K \in Nat /\ \A i \in 1..K : from + i \in 1..Len(Frames)
  BY PartsFacts
<1>2. \A i \in 1..K : e(i) = Unlines(RawAt(st, from + i)) /\ e(i) \in Text
  <2>1. ASSUME NEW i \in 1..K PROVE e(i) = Unlines(RawAt(st, from + i)) /\ RawAt(st, from + i) \in Seq(Text)
    BY <1>1, RawAtFacts
  <2> HIDE DEF e
  <2> QED BY <2>1, UnlinesType
<1>3. E \in Seq(Text) /\ Len(E) = K /\ \A i \in 1..K : E[i] = e(i)
  <2> HIDE DEF e, K
  <2> QED BY <1>1, <1>2, IsASeq
<1>4. ASSUME NEW m \in 0..K PROVE SentIn(st, from, m) = FlattenSeq(SubSeq(E, 1, m))
  <2> DEFINE d == [i \in 1..m |-> e(i)]
             p == SubSeq(E, 1, m)
  <2>1. SentIn(st, from, m) = FlattenSeq(d)
    BY DEF SentIn
  <2> HIDE DEF E
  <2>2. p \in Seq(Text) /\ Len(p) = m /\ \A i \in 1..m : p[i] = E[i]
    BY <1>3, PrefixFacts
  <2> HIDE DEF e, K, p
  <2>3. m \in Nat /\ \A i \in 1..m : i \in 1..K
    BY <1>1
  <2>4. d \in Seq(Text) /\ Len(d) = m /\ \A i \in 1..m : d[i] = e(i)
    BY <1>2, <2>3, IsASeq
  <2> HIDE DEF d
  <2>5. \A i \in 1..Len(d) : d[i] = p[i]
    BY <1>3, <2>2, <2>3, <2>4
  <2>6. d = p
    BY <2>2, <2>4, <2>5, SeqEqual
  <2> QED BY <2>1, <2>6 DEF p
<1> HIDE DEF E, e
<1>5. 0 \in T
  <2>1. SubSeq(E, 1, 0) = <<>>
    BY SubSeqEmpty
  <2>2. 0 \in 0..K
    BY <1>1
  <2>3. SentIn(st, from, 0) = FlattenSeq(SubSeq(E, 1, 0))
    BY <1>4, <2>2
  <2>4. SentIn(st, from, 0) = FlattenSeq(<<>>)
    BY <2>1, <2>3
  <2>5. SentIn(st, from, 0) = <<>>
    BY <2>4, FlattenEmpty
  <2>6. SentIn(st, from, 0) = Unlines(SentLines(st, from, 0))
    <3>1. SentLines(st, from, 0) = <<>>
      BY SentLinesNone
    <3> QED BY <2>5, <3>1, UnlinesEmpty
  <2> QED BY <2>2, <2>6
<1>6. ASSUME NEW m \in 0..(K - 1), m \in T PROVE m + 1 \in T
  <2>1. m + 1 \in 0..K /\ m \in 0..K /\ m \in Nat /\ m < K /\ m + 1 \in 1..K /\ m < Len(E) /\ from + (m + 1) = from + m + 1
    BY <1>1, <1>3
  <2> DEFINE p == SubSeq(E, 1, m)
             x == E[m + 1]
             r == RawAt(st, from + m + 1)
             s == SentLines(st, from, m)
  <2>2. p \in Seq(Text) /\ x \in Text /\ SubSeq(E, 1, m + 1) = Append(p, x)
    BY <1>3, <2>1, PrefixStep
  <2>3. s \in Seq(Plain) /\ r \in Seq(Plain) /\ SentLines(st, from, m + 1) = s \o r
    BY <2>1, SentLinesSteps
  <2>4. SentIn(st, from, m) = Unlines(s)
    BY <1>6
  <2>5. x = Unlines(r)
    BY <1>2, <1>3, <2>1
  <2> HIDE DEF p, x, r, s
  <2>6. FlattenSeq(Append(p, x)) = FlattenSeq(p) \o x
    BY <2>2, FlattenAppend DEF Text
  <2>7. Unlines(s \o r) = Unlines(s) \o Unlines(r)
    BY <2>3, PlainSeq, UnlinesConcat
  <2>8. SentIn(st, from, m) = FlattenSeq(p) /\ SentIn(st, from, m + 1) = FlattenSeq(Append(p, x))
    BY <1>4, <2>1, <2>2 DEF p
  <2>9. SentIn(st, from, m + 1) = Unlines(SentLines(st, from, m + 1))
    BY <2>3, <2>4, <2>5, <2>6, <2>7, <2>8
  <2> QED BY <2>1, <2>9
<1>7. k \in 0..K
  OBVIOUS
<1> HIDE DEF T, K
<1>8. \A m \in 0..K : m \in T
  BY <1>1, <1>5, <1>6, Climb
<1>9. k \in T
  BY <1>7, <1>8
<1> QED BY <1>9 DEF T

-----------------------------------------------------------------------------
(* How far lines bring the parser.                                         *)

Regroups(x, y, z) == (x \o y) \o z = x \o (y \o z)

LEMMA Joins ==
  ASSUME NEW S, NEW x \in Seq(S), NEW y \in Seq(S), NEW z \in Seq(S)
  PROVE  /\ x \o y \in Seq(S) /\ Regroups(x, y, z)
         /\ Len(x \o y) = Len(x) + Len(y) /\ Len(x) \in Nat /\ Len(y) \in Nat
<1>1. x \o y \in Seq(S) /\ Len(x \o y) = Len(x) + Len(y)
  BY ConcatProperties
<1>2. (x \o y) \o z = x \o (y \o z)
  BY ConcatAssociative
<1> QED BY <1>1, <1>2, LenProperties DEF Regroups

LEMMA SameRest ==
  ASSUME NEW S, NEW s \in Seq(S), NEW t \in Seq(S), NEW v \in Seq(S), s \o t = s \o v
  PROVE  t = v
BY ConcatSimplifications

\* Of two beginnings of a sequence the shorter begins the longer.
Same(A, C, B, D) == A \o C = B \o D
Longer(S, A, C, B, D) == \E X \in Seq(S) : B = A \o X /\ C = X \o D

LEMMA Begins ==
  ASSUME NEW S, NEW A \in Seq(S), NEW B \in Seq(S), NEW C \in Seq(S), NEW D \in Seq(S),
         Same(A, C, B, D), Len(A) <= Len(B)
  PROVE  Longer(S, A, C, B, D)
<1> DEFINE n == Len(B) - Len(A)
           X == SubSeq(C, 1, n)
           AX == A \o X
<1>0. A \o C = B \o D
  BY DEF Same
<1>1. Len(A) \in Nat /\ Len(B) \in Nat /\ Len(C) \in Nat /\ Len(D) \in Nat
  BY LenProperties
<1>2. /\ Len(A \o C) = Len(A) + Len(C) /\ Len(B \o D) = Len(B) + Len(D)
      /\ \A i \in 1 .. Len(A) + Len(C) : (A \o C)[i] = IF i <= Len(A) THEN A[i] ELSE C[i - Len(A)]
      /\ \A i \in 1 .. Len(B) + Len(D) : (B \o D)[i] = IF i <= Len(B) THEN B[i] ELSE D[i - Len(B)]
  <2>1. /\ Len(A \o C) = Len(A) + Len(C)
        /\ \A i \in 1 .. Len(A) + Len(C) : (A \o C)[i] = IF i <= Len(A) THEN A[i] ELSE C[i - Len(A)]
    BY ConcatProperties
  <2>2. /\ Len(B \o D) = Len(B) + Len(D)
        /\ \A i \in 1 .. Len(B) + Len(D) : (B \o D)[i] = IF i <= Len(B) THEN B[i] ELSE D[i - Len(B)]
    BY ConcatProperties
  <2> QED BY <2>1, <2>2
<1>3. n \in 0..Len(C) /\ Len(A) + Len(C) = Len(B) + Len(D) /\ Len(A) + n = Len(B)
  <2>1. Len(A) + Len(C) = Len(B) + Len(D)
    BY <1>0, <1>2
  <2> QED BY <1>1, <2>1
<1> HIDE DEF n
<1>4. X \in Seq(S) /\ Len(X) = n /\ \A i \in 1..n : X[i] = C[i]
  BY <1>3, PrefixFacts
<1> HIDE DEF X
<1>5. /\ AX \in Seq(S) /\ Len(AX) = Len(A) + n
      /\ \A i \in 1 .. Len(A) + n : AX[i] = IF i <= Len(A) THEN A[i] ELSE X[i - Len(A)]
  BY <1>4, ConcatProperties
<1> HIDE DEF AX
<1>6. ASSUME NEW i \in 1..Len(B) PROVE B[i] = AX[i]
  <2>1. i \in 1 .. Len(A) + Len(C) /\ i \in 1 .. Len(B) + Len(D) /\ i \in 1 .. Len(A) + n /\ i <= Len(B)
    BY <1>1, <1>3
  <2>2. B[i] = IF i <= Len(A) THEN A[i] ELSE C[i - Len(A)]
    BY <1>0, <1>2, <2>1
  <2>3. AX[i] = IF i <= Len(A) THEN A[i] ELSE X[i - Len(A)]
    BY <1>5, <2>1
  <2>4. CASE i <= Len(A)
    BY <2>2, <2>3, <2>4
  <2>5. CASE ~ (i <= Len(A))
    <3>1. i - Len(A) \in 1..n
      BY <1>1, <1>3, <2>5
    <3> QED BY <1>4, <2>2, <2>3, <2>5, <3>1
  <2> QED BY <2>4, <2>5
<1>7. B = AX
  <2>1. Len(AX) = Len(B)
    BY <1>3, <1>5
  <2> QED BY <1>5, <1>6, <2>1, SeqEqual
<1>8. C = X \o D
  <2>1. B \o D = A \o (X \o D) /\ X \o D \in Seq(S)
    <3>1. (A \o X) \o D = A \o (X \o D)
      <4>1. X \in Seq(S)
        BY <1>4
      <4>2. Regroups(A, X, D)
        BY <4>1, Joins
      <4> QED BY <4>2 DEF Regroups
    <3>2. X \o D \in Seq(S)
      BY <1>4, ConcatProperties
    <3>3. B \o D = (A \o X) \o D
      BY <1>7 DEF AX
    <3> QED BY <3>1, <3>2, <3>3
  <2>2. A \o C = A \o (X \o D)
    BY <1>0, <2>1
  <2> DEFINE XD == X \o D
  <2>3. XD \in Seq(S) /\ A \o C = A \o XD
    BY <2>1, <2>2
  <2> HIDE DEF AX, XD
  <2>4. C = XD
    BY <2>3, SameRest
  <2> QED BY <2>4 DEF XD
<1>9. X \in Seq(S) /\ B = A \o X /\ C = X \o D
  BY <1>4, <1>7, <1>8 DEF AX
<1> QED BY <1>9 DEF Longer

Handed(from, k) == SubSeq(Frames, from + 1, from + k)

LEMMA HandedFacts ==
  ASSUME NEW from \in 0..Len(Frames), NEW k \in 0..(Len(Frames) - from)
  PROVE  /\ Handed(from, k) \in Seq(Current) /\ Len(Handed(from, k)) = k
         /\ k = 0 => Handed(from, k) = <<>>
         /\ k < Len(Frames) - from => Handed(from, k + 1) = Append(Handed(from, k), Frames[from + k + 1])
<1>1. Frames \in Seq(Current) /\ Len(Frames) \in Nat
  <2>1. Frames \in Seq([id : Text, event : Text \cup {None}, data : Seq(Text)])
    BY FrameAssumption
  <2>2. [id : Text, event : Text \cup {None}, data : Seq(Text)] \subseteq Current
    BY DEF Current
  <2>3. \A i \in 1..Len(Frames) : Frames[i] \in Current
    BY <2>1, <2>2, ElementOfSeq
  <2> QED BY <2>1, <2>3, SeqOfPart, LenProperties
<1>2. Handed(from, k) \in Seq(Current) /\ Len(Handed(from, k)) = k
  <2>1. from + 1 \in Int /\ from + k \in Int /\ \A i \in (from + 1)..(from + k) : i \in 1..Len(Frames)
    BY <1>1
  <2>2. \A i \in (from + 1)..(from + k) : Frames[i] \in Current
    BY <1>1, <2>1, ElementOfSeq
  <2> DEFINE a == from + 1
             b == from + k
  <2>3. (IF a <= b THEN b - a + 1 ELSE 0) = k
    BY <1>1
  <2>4. Handed(from, k) = SubSeq(Frames, a, b)
    BY DEF Handed
  <2> HIDE DEF a, b
  <2>5. /\ SubSeq(Frames, a, b) \in Seq(Current)
        /\ Len(SubSeq(Frames, a, b)) = IF a <= b THEN b - a + 1 ELSE 0
    <3>1. a \in Int /\ b \in Int /\ \A i \in a..b : Frames[i] \in Current
      BY <2>1, <2>2 DEF a, b
    <3> QED BY <3>1, SubSeqProperties
  <2> QED BY <2>3, <2>4, <2>5
<1>3. k = 0 => Handed(from, k) = <<>>
  BY <1>2, EmptySeq
<1>4. ASSUME k < Len(Frames) - from
      PROVE  Handed(from, k + 1) = Append(Handed(from, k), Frames[from + k + 1])
  <2> DEFINE a == from + 1
             b == from + (k + 1)
  <2>1. a \in 1..Len(Frames) /\ b \in a..Len(Frames) /\ b - 1 = from + k /\ b = from + k + 1 /\ b \in 1..Len(Frames)
    BY <1>1, <1>4
  <2>2. Handed(from, k + 1) = SubSeq(Frames, a, b) /\ Handed(from, k) = SubSeq(Frames, a, b - 1)
    BY <2>1 DEF Handed
  <2> HIDE DEF a, b
  <2>3. SubSeq(Frames, a, b) = SubSeq(Frames, a, b - 1) \o <<Frames[b]>>
    BY <1>1, <2>1, SubSeqRecursiveSecond
  <2>4. Frames[b] \in Current
    BY <1>1, <2>1, ElementOfSeq
  <2>5. Handed(from, k) \o <<Frames[b]>> = Append(Handed(from, k), Frames[b])
    BY <1>2, <2>4, AppendIsConcat
  <2> QED BY <2>1, <2>2, <2>3, <2>5
<1> QED BY <1>2, <1>3, <1>4

\* All the lines of k frames hand over these frames, and leave nothing.
LEMMA SentLinesFolded ==
  ASSUME NEW st \in Styles, NEW from \in 0..Len(Frames), NEW k \in 0..(Len(Frames) - from)
  PROVE  Folded(SentLines(st, from, k), Ready(<<>>)) = Ready(Handed(from, k))
<1> DEFINE K == Len(Frames) - from
           z == Ready(<<>>)
           T == {m \in 0..K : Folded(SentLines(st, from, m), z) = Ready(Handed(from, m))}
<1>1. K \in Nat
  BY PartsFacts
<1>2. z \in Progress
  <2>1. <<>> \in Seq(Current)
    BY EmptySeq
  <2> QED BY <2>1, ReadyFacts
<1>3. 0 \in T
  <2>1. 0 \in 0..K
    BY <1>1
  <2>2. SentLines(st, from, 0) = <<>>
    BY SentLinesNone
  <2>3. Handed(from, 0) = <<>>
    BY <2>1, HandedFacts
  <2>4. Folded(SentLines(st, from, 0), z) = z
    BY <1>2, <2>2, FoldedEmpty
  <2> QED BY <2>1, <2>3, <2>4
<1>4. ASSUME NEW m \in 0..(K - 1), m \in T PROVE m + 1 \in T
  <2>1. m + 1 \in 0..K /\ m \in 0..K /\ m \in Nat /\ m < Len(Frames) - from
    BY <1>1
  <2> DEFINE n == from + m + 1
             s == SentLines(st, from, m)
             r == RawAt(st, n)
             o == Handed(from, m)
             f == Frames[n]
             form == Forms[st[n]]
  <2>2. s \in Seq(Plain) /\ r \in Seq(Plain) /\ n \in 1..Len(Frames) /\ SentLines(st, from, m + 1) = s \o r
    BY <2>1, SentLinesSteps
  <2>3. o \in Seq(Current) /\ Handed(from, m + 1) = Append(o, f)
    BY <2>1, HandedFacts
  <2>4. Folded(s, z) = Ready(o)
    BY <1>4
  <2>5. r = Raws(LinesOf(f, form), form)
    BY DEF RawAt
  <2>6. GoodFrame(f) /\ GoodForm(form) /\ SuitsAll(f, form)
    BY <2>2, StyleFacts
  <2> HIDE DEF s, r, o, f, form, n, z
  <2>7. Folded(s \o r, z) = Folded(r, Folded(s, z))
    BY <1>2, <2>2, PlainSeq, FoldedConcat
  <2>8. Passed(LinesOf(f, form), form, Ready(o)) = Ready(Append(o, f))
    BY <2>3, <2>6, FrameTaken
  <2>9. Folded(r, Ready(o)) = Ready(Append(o, f))
    BY <2>5, <2>8 DEF Passed
  <2> QED BY <2>1, <2>2, <2>3, <2>4, <2>7, <2>9
<1>5. k \in 0..K
  OBVIOUS
<1> HIDE DEF T, K
<1>6. \A m \in 0..K : m \in T
  BY <1>1, <1>3, <1>4, Climb
<1>7. k \in T
  BY <1>5, <1>6
<1> QED BY <1>7 DEF T

LEMMA RawsPrefix ==
  ASSUME NEW form, GoodForm(form), NEW L \in Seq(Lines), NEW j \in 0..Len(L)
  PROVE  SubSeq(Raws(L, form), 1, j) = Raws(SubSeq(L, 1, j), form)
<1> DEFINE R == Raws(L, form)
           p == SubSeq(L, 1, j)
           Q == Raws(p, form)
           q == SubSeq(R, 1, j)
<1>1. R \in Seq(Text) /\ Len(R) = Len(L) /\ Len(L) \in Nat
      /\ \A i \in 1..Len(L) : R[i] = L[i] \o Return(form)
  BY RawsFacts
<1>2. p \in Seq(Lines) /\ Len(p) = j /\ \A i \in 1..j : p[i] = L[i]
  BY PrefixFacts
<1> HIDE DEF R, p
<1>3. Q \in Seq(Text) /\ Len(Q) = j /\ \A i \in 1..j : Q[i] = p[i] \o Return(form)
  BY <1>2, RawsFacts
<1>4. q \in Seq(Text) /\ Len(q) = j /\ \A i \in 1..j : q[i] = R[i]
  <2>1. j \in 0..Len(R)
    BY <1>1
  <2> QED BY <1>1, <2>1, PrefixFacts
<1> HIDE DEF Q, q
<1>5. \A i \in 1..j : i \in 1..Len(L)
  BY <1>1
<1>6. \A i \in 1..Len(q) : q[i] = Q[i]
  BY <1>1, <1>2, <1>3, <1>4, <1>5
<1>7. q = Q
  BY <1>3, <1>4, <1>6, SeqEqual
<1> QED BY <1>7 DEF Q, q, R, p

\* Some of the lines of the next frame hand over nothing more.
LEMMA FoldedInside ==
  ASSUME NEW st \in Styles, NEW from \in 0..Len(Frames), NEW k \in Nat, k < Len(Frames) - from,
         NEW j \in Nat, j < Len(RawAt(st, from + k + 1))
  PROVE  Folded(SentLines(st, from, k) \o SubSeq(RawAt(st, from + k + 1), 1, j), Ready(<<>>)).out
           = Handed(from, k)
<1> DEFINE n == from + k + 1
           z == Ready(<<>>)
           s == SentLines(st, from, k)
           r == RawAt(st, n)
           o == Handed(from, k)
           f == Frames[n]
           form == Forms[st[n]]
           all == LinesOf(f, form)
           x == SubSeq(r, 1, j)
<1>1. k \in 0..(Len(Frames) - from)
  <2>1. Len(Frames) - from \in Nat
    BY PartsFacts
  <2> QED BY <2>1
<1>2. s \in Seq(Plain) /\ r \in Seq(Plain) /\ n \in 1..Len(Frames)
  BY SentLinesSteps
<1>3. o \in Seq(Current)
  BY <1>1, HandedFacts
<1>4. Folded(s, z) = Ready(o)
  BY <1>1, SentLinesFolded
<1>5. r = Raws(all, form)
  BY DEF RawAt
<1>6. GoodFrame(f) /\ GoodForm(form) /\ SuitsAll(f, form)
  BY <1>2, StyleFacts
<1>7. j < Len(r)
  OBVIOUS
<1>8. z \in Progress
  <2>1. <<>> \in Seq(Current)
    BY EmptySeq
  <2> QED BY <2>1, ReadyFacts
<1> HIDE DEF s, r, o, f, form, n, z
<1>9. all \in Seq(Lines)
  BY <1>6, LinesOfFacts
<1>10. Passed(SubSeq(all, 1, j), form, Ready(o)).out = o /\ Len(r) = Len(all) /\ Len(all) \in Nat
  <2>1. Len(r) = Len(all) /\ Len(all) \in Nat
    BY <1>5, <1>6, <1>9, RawsFacts
  <2>2. j < Len(LinesOf(f, form))
    BY <1>7, <2>1
  <2>3. Passed(SubSeq(LinesOf(f, form), 1, j), form, Ready(o)).out = o
    BY <1>3, <1>6, <2>2, FrameTaking
  <2> QED BY <2>1, <2>3
<1>11. x = Raws(SubSeq(all, 1, j), form)
  <2>1. j \in 0..Len(all)
    BY <1>7, <1>10
  <2> HIDE DEF all
  <2> QED BY <1>5, <1>6, <1>9, <2>1, RawsPrefix
<1>12. x \in Seq(Plain)
  <2>1. j \in 0..Len(r)
    BY <1>7, <1>10
  <2> QED BY <1>2, <2>1, PrefixFacts
<1> HIDE DEF x, all
<1>13. Folded(s \o x, z) = Folded(x, Folded(s, z))
  BY <1>2, <1>8, <1>12, PlainSeq, FoldedConcat
<1>14. Folded(x, Ready(o)).out = o
  BY <1>10, <1>11 DEF Passed
<1>15. Folded(s \o x, z).out = o
  BY <1>4, <1>13, <1>14
<1> QED BY <1>15 DEF s, x, r, o, z, n

LEMMA PlainJoins ==
  ASSUME NEW x \in Seq(Plain), NEW y \in Seq(Plain), NEW z \in Seq(Plain)
  PROVE  Regroups(x, y, z)
BY Joins

\* A frame has a line, its last: the blank one.
LEMMA RawAtSome ==
  ASSUME NEW st \in Styles, NEW from \in 0..Len(Frames), NEW k \in Nat, k < Len(Frames) - from
  PROVE  RawAt(st, from + k + 1) \in Seq(Plain) /\ 0 < Len(RawAt(st, from + k + 1))
<1> DEFINE n == from + k + 1
           f == Frames[n]
           form == Forms[st[n]]
<1>1. RawAt(st, n) \in Seq(Plain) /\ n \in 1..Len(Frames)
  BY SentLinesSteps
<1>2. RawAt(st, n) = Raws(LinesOf(f, form), form)
  BY DEF RawAt
<1>3. GoodFrame(f) /\ GoodForm(form) /\ SuitsAll(f, form)
  BY <1>1, StyleFacts
<1> HIDE DEF n, f, form
<1> DEFINE all == LinesOf(f, form)
<1>4. /\ all \in Seq(Lines)
      /\ Len(all) = Len(form.lead) + Len(Body(f, form)) + 1
      /\ Len(form.lead) \in Nat /\ Len(Body(f, form)) \in Nat
  BY <1>3, LinesOfFacts
<1> HIDE DEF all
<1>5. Len(Raws(all, form)) = Len(all)
  BY <1>3, <1>4, RawsFacts
<1> QED BY <1>1, <1>2, <1>4, <1>5 DEF n, all

\* Of L, a beginning of the lines of the response: k frames are complete in it.
Complete(st, from, L, k) ==
  /\ Folded(L, Ready(<<>>)).out = Handed(from, k)
  /\ \A m \in 0..k : \E Y \in Seq(Plain) : L = SentLines(st, from, m) \o Y
  /\ \A m \in (k + 1)..(Len(Frames) - from) :
       \E Z \in Seq(Plain) \ {<<>>} : SentLines(st, from, m) = L \o Z

\* The same for the lines of k frames and j of the next.
LEMMA CompleteInside ==
  ASSUME NEW st \in Styles, NEW from \in 0..Len(Frames), NEW k \in Nat, k < Len(Frames) - from,
         NEW j \in Nat, j < Len(RawAt(st, from + k + 1))
  PROVE  Complete(st, from, SentLines(st, from, k) \o SubSeq(RawAt(st, from + k + 1), 1, j), k)
<1> DEFINE K == Len(Frames) - from
           s == SentLines(st, from, k)
           r == RawAt(st, from + k + 1)
           X == SubSeq(r, 1, j)
           V == SubSeq(r, j + 1, Len(r))
           L == s \o X
<1>1. K \in Nat /\ k \in 0..K /\ k + 1 \in 0..K /\ k < K
  <2>1. K \in Nat
    BY PartsFacts
  <2> QED BY <2>1
<1>2. s \in Seq(Plain) /\ r \in Seq(Plain) /\ SentLines(st, from, k + 1) = s \o r
  BY SentLinesSteps
<1>3. Folded(L, Ready(<<>>)).out = Handed(from, k)
  BY FoldedInside
<1>4. \A m \in 0..k : \E Y \in Seq(Plain) : s = SentLines(st, from, m) \o Y
  BY <1>1, SentLinesGrow
<1>5. \A m \in (k + 1)..K : \E Y \in Seq(Plain) : SentLines(st, from, m) = SentLines(st, from, k + 1) \o Y
  <2>1. ASSUME NEW m \in (k + 1)..K
        PROVE  \E Y \in Seq(Plain) : SentLines(st, from, m) = SentLines(st, from, k + 1) \o Y
    <3>1. m \in 0..K /\ k + 1 \in 0..m
      BY <1>1
    <3> QED BY <3>1, SentLinesGrow
  <2> QED BY <2>1
<1>6. j < Len(r) /\ Len(r) \in Nat
  BY <1>2, LenProperties
<1>7. \A m \in 0..k : SentLines(st, from, m) \in Seq(Plain)
  <2>1. \A m \in 0..k : m \in 0..K
    BY <1>1
  <2> QED BY <2>1, SentLinesType
<1> HIDE DEF s, r, K
<1>8. X \in Seq(Plain) /\ V \in Seq(Plain) /\ X \o V = r /\ V # <<>>
  <2>1. 1 \in 1..(Len(r) + 1) /\ j \in (1 - 1)..Len(r) /\ Len(r) \in j..Len(r) /\ j \in 0..Len(r)
    BY <1>6
  <2>2. X \o V = SubSeq(r, 1, Len(r))
    BY <1>2, <2>1, ConcatAdjacentSubSeq
  <2>3. SubSeq(r, 1, Len(r)) = r
    BY <1>2, SubSeqFull
  <2>4. X \in Seq(Plain)
    BY <1>2, <2>1, PrefixFacts
  <2>5. V \in Seq(Plain) /\ Len(V) = Len(r) - j
    <3> DEFINE a == j + 1
               b == Len(r)
    <3>1. a \in Int /\ b \in Int /\ \A i \in a..b : i \in 1..Len(r)
      BY <1>6
    <3>2. \A i \in a..b : r[i] \in Plain
      BY <1>2, <3>1, ElementOfSeq
    <3>3. a <= b /\ b - a + 1 = Len(r) - j
      BY <1>6
    <3> HIDE DEF a, b
    <3>4. SubSeq(r, a, b) \in Seq(Plain) /\ Len(SubSeq(r, a, b)) = IF a <= b THEN b - a + 1 ELSE 0
      BY <3>1, <3>2, SubSeqProperties
    <3> QED BY <3>3, <3>4 DEF a, b
  <2>6. V # <<>>
    <3>1. Len(V) # 0
      BY <1>6, <2>5
    <3> HIDE DEF V
    <3> QED BY <3>1
  <2> QED BY <2>2, <2>3, <2>4, <2>5, <2>6
<1> HIDE DEF X, V
<1>9. L \in Seq(Plain)
  BY <1>2, <1>8, ConcatProperties
<1>10. ASSUME NEW m \in 0..k PROVE \E Y \in Seq(Plain) : L = SentLines(st, from, m) \o Y
  <2> DEFINE t == SentLines(st, from, m)
  <2>1. PICK Y \in Seq(Plain) : s = t \o Y
    BY <1>4
  <2>2. t \in Seq(Plain)
    BY <1>7
  <2> HIDE DEF t
  <2>3. (t \o Y) \o X = t \o (Y \o X)
    BY <1>8, <2>2, PlainJoins DEF Regroups
  <2>4. Y \o X \in Seq(Plain)
    BY <1>8, ConcatProperties
  <2>5. L = t \o (Y \o X)
    BY <2>1, <2>3
  <2> HIDE DEF L
  <2> QED BY <2>4, <2>5 DEF t
<1>11. ASSUME NEW m \in (k + 1)..K PROVE \E Z \in Seq(Plain) \ {<<>>} : SentLines(st, from, m) = L \o Z
  <2>1. PICK Y \in Seq(Plain) : SentLines(st, from, m) = (s \o r) \o Y
    BY <1>2, <1>5
  <2>2. s \o r = L \o V
    <3>1. s \in Seq(Plain) /\ X \in Seq(Plain) /\ V \in Seq(Plain)
      BY <1>2, <1>8
    <3>2. Regroups(s, X, V)
      BY <3>1, PlainJoins
    <3>3. (s \o X) \o V = s \o (X \o V)
      BY <3>2 DEF Regroups
    <3>4. X \o V = r
      BY <1>8
    <3> QED BY <3>3, <3>4
  <2>3. (L \o V) \o Y = L \o (V \o Y)
    <3> HIDE DEF L
    <3>1. Regroups(L, V, Y)
      BY <1>8, <1>9, PlainJoins
    <3> QED BY <3>1 DEF Regroups
  <2>4. V \o Y \in Seq(Plain) /\ V \o Y # <<>>
    <3>1. V \o Y \in Seq(Plain)
      BY <1>8, ConcatProperties
    <3>2. V \o Y # <<>>
      BY <1>8, ConcatEqualIffEmpty
    <3> QED BY <3>1, <3>2
  <2> HIDE DEF L
  <2> QED BY <2>1, <2>2, <2>3, <2>4
<1>12. Complete(st, from, L, k)
  <2> HIDE DEF L
  <2> QED BY <1>3, <1>10, <1>11 DEF Complete, K
<1> QED BY <1>12 DEF L, s, X, r

\* The same for all the lines.
LEMMA CompleteAll ==
  ASSUME NEW st \in Styles, NEW from \in 0..Len(Frames)
  PROVE  Complete(st, from, SentLines(st, from, Len(Frames) - from), Len(Frames) - from)
<1> DEFINE K == Len(Frames) - from
           L == SentLines(st, from, K)
<1>1. K \in Nat /\ K \in 0..K /\ 0 \in 0..K /\ (K + 1)..K = {}
  <2>1. K \in Nat
    BY PartsFacts
  <2> QED BY <2>1
<1>2. Folded(L, Ready(<<>>)).out = Handed(from, K)
  <2>1. Folded(L, Ready(<<>>)) = Ready(Handed(from, K))
    BY <1>1, SentLinesFolded
  <2>2. Handed(from, K) \in Seq(Current)
    BY <1>1, HandedFacts
  <2> HIDE DEF L, K
  <2> QED BY <2>1, <2>2, ReadyFacts
<1>3. \A m \in 0..K : \E Y \in Seq(Plain) : L = SentLines(st, from, m) \o Y
  BY <1>1, SentLinesGrow
<1> QED BY <1>1, <1>2, <1>3 DEF Complete

\* Of any beginning of the lines some number of frames is complete.
LEMMA SomeComplete ==
  ASSUME NEW st \in Styles, NEW from \in 0..Len(Frames), NEW L \in Seq(Plain), NEW C \in Seq(Plain),
         L \o C = SentLines(st, from, Len(Frames) - from)
  PROVE  \E k \in 0..(Len(Frames) - from) : Complete(st, from, L, k)
<1> DEFINE K == Len(Frames) - from
           Starts(m) == \E D \in Seq(Plain) : SentLines(st, from, m) = L \o D
           T == {m \in 0..K : Starts(m) => \E k \in 0..K : Complete(st, from, L, k)}
<1>1. K \in Nat /\ 0 \in 0..K
  <2>1. K \in Nat
    BY PartsFacts
  <2> QED BY <2>1
<1>2. ASSUME NEW m \in 0..(K - 1), ~ Starts(m), Starts(m + 1)
      PROVE  \E k \in 0..K : Complete(st, from, L, k)
  <2>1. m \in 0..K /\ m \in Nat /\ m < K /\ m < Len(Frames) - from
    BY <1>1
  <2> DEFINE s == SentLines(st, from, m)
             r == RawAt(st, from + m + 1)
  <2>2. s \in Seq(Plain) /\ r \in Seq(Plain) /\ SentLines(st, from, m + 1) = s \o r
    BY <2>1, SentLinesSteps
  <2>3. PICK D \in Seq(Plain) : s \o r = L \o D
    BY <1>2, <2>2
  <2>4. \A D1 \in Seq(Plain) : s # L \o D1
    BY <1>2
  <2>5. \A j \in Nat : j < Len(r) => Complete(st, from, s \o SubSeq(r, 1, j), m)
    BY <2>1, CompleteInside
  <2> HIDE DEF s, r, K, Starts, T
  <2>6. Len(s) \in Nat /\ Len(L) \in Nat /\ Len(r) \in Nat
    BY <2>2, LenProperties
  <2>7. ~ (Len(L) <= Len(s))
    <3>1. SUFFICES ASSUME Len(L) <= Len(s) PROVE FALSE
      OBVIOUS
    <3>2. \E X \in Seq(Plain) : s = L \o X /\ D = X \o r
      <4>1. Same(L, D, s, r)
        BY <2>3 DEF Same
      <4>2. Longer(Plain, L, D, s, r)
        BY <2>2, <3>1, <4>1, Begins
      <4> QED BY <4>2 DEF Longer
    <3> QED BY <2>4, <3>2
  <2>8. Len(s) <= Len(L)
    BY <2>6, <2>7
  <2>9. PICK X \in Seq(Plain) : L = s \o X /\ r = X \o D
    <3>1. Same(s, r, L, D)
      BY <2>3 DEF Same
    <3>2. Longer(Plain, s, r, L, D)
      BY <2>2, <2>8, <3>1, Begins
    <3> QED BY <3>2 DEF Longer
  <2>10. Len(X) \in Nat /\ Len(D) \in Nat /\ Len(r) = Len(X) + Len(D) /\ X = SubSeq(r, 1, Len(X))
    <3>1. /\ Len(X \o D) = Len(X) + Len(D)
          /\ \A i \in 1 .. Len(X) + Len(D) : (X \o D)[i] = IF i <= Len(X) THEN X[i] ELSE D[i - Len(X)]
      BY ConcatProperties
    <3>2. Len(X) \in Nat /\ Len(D) \in Nat
      BY LenProperties
    <3>3. Len(X) \in 0..Len(r)
      BY <2>9, <3>1, <3>2
    <3> DEFINE p == SubSeq(r, 1, Len(X))
    <3>4. p \in Seq(Plain) /\ Len(p) = Len(X) /\ \A i \in 1..Len(X) : p[i] = r[i]
      BY <2>2, <3>3, PrefixFacts
    <3> HIDE DEF p
    <3>5. \A i \in 1..Len(X) : i \in 1 .. Len(X) + Len(D) /\ i <= Len(X)
      BY <3>2
    <3>6. \A i \in 1..Len(p) : p[i] = X[i]
      BY <2>9, <3>1, <3>4, <3>5
    <3>7. p = X
      BY <3>4, <3>6, SeqEqual
    <3> QED BY <2>9, <3>1, <3>2, <3>7 DEF p
  <2>11. CASE Len(X) < Len(r)
    <3>1. Complete(st, from, s \o SubSeq(r, 1, Len(X)), m)
      BY <2>5, <2>10, <2>11
    <3> QED BY <2>1, <2>9, <2>10, <3>1
  <2>12. CASE ~ (Len(X) < Len(r))
    <3>1. Len(D) = 0
      BY <2>10, <2>12
    <3>2. D = <<>>
      BY <3>1, EmptySeq
    <3>3. X \o D = X
      BY <3>2, ConcatEmptySeq
    <3>4. L = SentLines(st, from, m + 1) /\ L = SentLines(st, from, m + 1) \o <<>>
      <4>1. L = s \o r
        BY <2>9, <3>3
      <4>2. L \o <<>> = L
        BY ConcatEmptySeq
      <4> QED BY <2>2, <4>1, <4>2
    <3>5. CASE m + 1 = K
      BY <1>1, <3>4, <3>5, CompleteAll DEF K
    <3>6. CASE m + 1 # K
      <4>1. m + 1 \in Nat /\ m + 1 < Len(Frames) - from /\ m + 1 \in 0..K
        BY <1>1, <2>1, <3>6 DEF K
      <4> DEFINE n == m + 1
                 q == RawAt(st, from + n + 1)
      <4>2. n \in Nat /\ n < Len(Frames) - from
        BY <4>1
      <4>3. q \in Seq(Plain) /\ 0 < Len(q)
        BY <4>2, RawAtSome
      <4> HIDE DEF n
      <4>4. Complete(st, from, SentLines(st, from, n) \o SubSeq(q, 1, 0), n)
        BY <4>2, <4>3, CompleteInside
      <4>5. SubSeq(q, 1, 0) = <<>>
        BY SubSeqEmpty
      <4>6. Complete(st, from, SentLines(st, from, n) \o <<>>, n)
        BY <4>4, <4>5
      <4> QED BY <3>4, <4>1, <4>6 DEF n
    <3> QED BY <3>5, <3>6
  <2> QED BY <2>11, <2>12
<1>3. Starts(0) => \E k \in 0..K : Complete(st, from, L, k)
  <2>1. SUFFICES ASSUME Starts(0) PROVE \E k \in 0..K : Complete(st, from, L, k)
    OBVIOUS
  <2>2. L = <<>>
    <3>1. PICK D \in Seq(Plain) : L \o D = <<>>
      BY <2>1, SentLinesNone
    <3> QED BY <3>1, ConcatEqualIffEmpty
  <2>3. CASE K = 0
    <3>1. L = SentLines(st, from, 0)
      BY <2>2, SentLinesNone
    <3> QED BY <1>1, <2>3, <3>1, CompleteAll
  <2>4. CASE K # 0
    <3> DEFINE n == 0
               q == RawAt(st, from + n + 1)
    <3>1. n \in Nat /\ n < Len(Frames) - from
      BY <1>1, <2>4
    <3>2. q \in Seq(Plain) /\ 0 < Len(q)
      BY <3>1, RawAtSome
    <3>3. Complete(st, from, SentLines(st, from, n) \o SubSeq(q, 1, 0), n)
      <4> HIDE DEF n
      <4> QED BY <3>1, <3>2, CompleteInside
    <3>4. SubSeq(q, 1, 0) = <<>> /\ SentLines(st, from, n) = <<>>
      BY SubSeqEmpty, SentLinesNone
    <3>5. SentLines(st, from, n) \o SubSeq(q, 1, 0) = <<>> \o <<>> /\ <<>> \o <<>> = <<>>
      <4>1. <<>> \in Seq(Plain)
        BY EmptySeq
      <4>2. <<>> \o <<>> = <<>>
        BY <4>1, ConcatEmptySeq
      <4> HIDE DEF n, q
      <4> QED BY <3>4, <4>2
    <3>6. Complete(st, from, <<>>, 0)
      BY <3>3, <3>5
    <3> QED BY <1>1, <2>2, <3>6
  <2> QED BY <2>3, <2>4
<1>4. 0 \in T
  BY <1>1, <1>3
<1>5. ASSUME NEW m \in 0..(K - 1), m \in T PROVE m + 1 \in T
  <2>1. m + 1 \in 0..K
    BY <1>1
  <2> HIDE DEF Starts
  <2> QED BY <1>2, <1>5, <2>1
<1>6. Starts(K)
  <2>1. SentLines(st, from, K) = L \o C
    OBVIOUS
  <2> QED BY <2>1
<1> HIDE DEF T
<1>7. \A m \in 0..K : m \in T
  <2> HIDE DEF K
  <2> QED BY <1>1, <1>4, <1>5, Climb
<1>8. K \in T
  <2>1. K \in 0..K
    BY <1>1
  <2> QED BY <1>7, <2>1
<1>9. K \in 0..K /\ (Starts(K) => \E k \in 0..K : Complete(st, from, L, k))
  <2> HIDE DEF Starts
  <2> QED BY <1>8 DEF T
<1> QED BY <1>6, <1>9

\* What waits in the buffer is shorter than the lines it is a part of.
LEMMA BufferShort ==
  ASSUME NEW Z \in Seq(Plain), Z # <<>>, NEW Y \in Seq(Plain), NEW b \in Text, NEW t \in Text,
         NoLF(b), b \o t = Unlines(Z \o Y)
  PROVE  Len(b) < Len(Unlines(Z))
<1> DEFINE u == Unlines(Z)
           v == Unlines(Y)
<1>1. /\ Z \in Seq(Text) /\ Len(Z) \in Nat /\ \A k \in 1..Len(Z) : NoLF(Z[k])
      /\ Y \in Seq(Text)
  BY PlainSeq
<1>2. u \in Text /\ v \in Text
  BY <1>1, UnlinesType
<1>3. Unlines(Z \o Y) = u \o v
  BY <1>1, UnlinesConcat
<1>4. Ends(u) # {}
  <2>1. Cardinality(Ends(u)) = Len(Z)
    BY <1>1, EndsOfLines
  <2>2. Len(Z) # 0
    BY EmptySeq
  <2> QED BY <2>1, <2>2, FS_EmptySet
<1> HIDE DEF u, v
<1>5. PICK i \in 1..Len(u) : u[i] = "LF"
  BY <1>4 DEF Ends
<1>6. Same(u, v, b, t)
  BY <1>3 DEF Same
<1>7. SUFFICES ASSUME ~ (Len(b) < Len(u)) PROVE FALSE
  BY DEF u
<1>8. Len(u) <= Len(b) /\ Len(b) \in Nat /\ Len(u) \in Nat
  <2>1. Len(b) \in Nat /\ Len(u) \in Nat
    BY <1>2, LenProperties DEF Text
  <2> QED BY <1>7, <2>1
<1>9. PICK X \in Seq(Tokens) : b = u \o X
  <2>1. u \in Seq(Tokens) /\ v \in Seq(Tokens) /\ b \in Seq(Tokens) /\ t \in Seq(Tokens)
    BY <1>2 DEF Text
  <2>2. Longer(Tokens, u, v, b, t)
    BY <1>6, <1>8, <2>1, Begins
  <2> QED BY <2>2 DEF Longer
<1>10. \A j \in 1 .. Len(u) + Len(X) : (u \o X)[j] = IF j <= Len(u) THEN u[j] ELSE X[j - Len(u)]
  BY <1>2, ConcatProperties DEF Text
<1>11. i \in 1 .. Len(u) + Len(X) /\ i <= Len(u) /\ i \in 1..Len(b)
  <2>1. Len(X) \in Nat
    BY LenProperties
  <2> QED BY <1>8, <2>1
<1>12. b[i] = u[i]
  BY <1>9, <1>10, <1>11
<1> QED BY <1>5, <1>11, <1>12 DEF NoLF

\* The frames that have arrived are those that are complete.
LEMMA ArrivedIsComplete ==
  ASSUME NEW st \in Styles, NEW from \in 0..Len(Frames), NEW L \in Seq(Plain), NEW C \in Seq(Plain),
         L \o C = SentLines(st, from, Len(Frames) - from),
         NEW b \in Text, NEW t \in Text, NoLF(b), b \o t = Unlines(C),
         NEW k \in 0..(Len(Frames) - from), Complete(st, from, L, k),
         NEW m \in 0..(Len(Frames) - from)
  PROVE  Len(SentIn(st, from, m)) <= Len(Unlines(L)) + Len(b) <=> m <= k
<1> DEFINE K == Len(Frames) - from
           s == SentLines(st, from, m)
           u == Unlines(s)
           w == Unlines(L)
<1>1. K \in Nat /\ m \in 0..K /\ K \in 0..K /\ m \in Nat /\ k \in Nat
  <2>1. K \in Nat
    BY PartsFacts
  <2> QED BY <2>1
<1>2. s \in Seq(Plain) /\ s \in Seq(Text) /\ L \in Seq(Text) /\ C \in Seq(Text)
  <2>1. s \in Seq(Plain)
    BY SentLinesType
  <2> HIDE DEF s
  <2> QED BY <2>1, PlainSeq
<1>3. SentIn(st, from, m) = u
  BY SentIsLines
<1>4. \E V \in Seq(Plain) : SentLines(st, from, K) = s \o V
  BY <1>1, SentLinesGrow
<1>5. m <= k => \E Y \in Seq(Plain) : L = s \o Y
  <2>1. m <= k => m \in 0..k
    BY <1>1
  <2> QED BY <2>1 DEF Complete
<1>6. ~ (m <= k) => \E Z \in Seq(Plain) \ {<<>>} : s = L \o Z
  <2>1. ~ (m <= k) => m \in (k + 1)..K
    BY <1>1
  <2> QED BY <2>1 DEF Complete
<1>7. L \o C = SentLines(st, from, K)
  OBVIOUS
<1> HIDE DEF s, K
<1>8. u \in Seq(Tokens) /\ w \in Seq(Tokens) /\ Len(u) \in Nat /\ Len(w) \in Nat /\ Len(b) \in Nat
  <2>1. u \in Text /\ w \in Text
    BY <1>2, UnlinesType
  <2> HIDE DEF u, w
  <2> QED BY <2>1, LenProperties DEF Text
<1>9. CASE m <= k
  <2>1. PICK Y \in Seq(Plain) : L = s \o Y
    BY <1>5, <1>9
  <2> DEFINE y == Unlines(Y)
  <2>2. Y \in Seq(Text) /\ y \in Seq(Tokens)
    BY PlainSeq, UnlinesType DEF Text
  <2>3. w = u \o y
    BY <1>2, <2>1, <2>2, UnlinesConcat
  <2> HIDE DEF u, w, y
  <2>4. Len(w) = Len(u) + Len(y) /\ Len(y) \in Nat
    BY <1>8, <2>2, <2>3, Joins
  <2> QED BY <1>3, <1>8, <1>9, <2>4 DEF w
<1>10. CASE ~ (m <= k)
  <2>1. PICK Z \in Seq(Plain) : s = L \o Z /\ Z # <<>>
    BY <1>6, <1>10
  <2>2. PICK V \in Seq(Plain) : SentLines(st, from, K) = s \o V
    BY <1>4
  <2> DEFINE z == Unlines(Z)
             ZV == Z \o V
  <2>3. Z \in Seq(Text) /\ z \in Seq(Tokens)
    BY PlainSeq, UnlinesType DEF Text
  <2>4. u = w \o z
    BY <1>2, <2>1, <2>3, UnlinesConcat
  <2>5. C = ZV
    <3>1. Regroups(L, Z, V)
      BY PlainJoins
    <3>2. ZV \in Seq(Plain)
      BY ConcatProperties
    <3>3. L \o C = (L \o Z) \o V
      BY <1>7, <2>1, <2>2
    <3>4. L \o C = L \o ZV
      BY <3>1, <3>3 DEF Regroups
    <3> HIDE DEF ZV
    <3> QED BY <3>2, <3>4, SameRest
  <2>6. Len(b) < Len(z)
    <3>1. b \o t = Unlines(Z \o V)
      BY <2>5
    <3> QED BY <2>1, <3>1, BufferShort
  <2> HIDE DEF u, w, z
  <2>7. Len(u) = Len(w) + Len(z) /\ Len(z) \in Nat
    <3>1. z \in Seq(Tokens) /\ w \in Seq(Tokens)
      BY <1>8, <2>3
    <3>2. Len(w \o z) = Len(w) + Len(z) /\ Len(z) \in Nat
      BY <3>1, Joins, LenProperties
    <3> QED BY <2>4, <3>2
  <2>8. ~ (Len(u) <= Len(w) + Len(b))
    BY <1>8, <2>6, <2>7
  <2> QED BY <1>3, <1>10, <2>8 DEF w
<1> QED BY <1>9, <1>10

-----------------------------------------------------------------------------
(* The reader of a response: of its lines, L are taken and C are to come;  *)
(* the buffer has the beginning of C.                                      *)

Reads(st, from, buffer, current, t, n, o, L, C) ==
  /\ L \o C = SentLines(st, from, Len(Frames) - from)
  /\ buffer \o t = Unlines(C)
  /\ n = Len(Unlines(L)) + Len(buffer)
  /\ Folded(L, Ready(<<>>)) = [current |-> current, out |-> o]

Reader(st, from, buffer, current, t, n, o) ==
  \E L \in Seq(Plain), C \in Seq(Plain) : Reads(st, from, buffer, current, t, n, o, L, C)

LEMMA ReadyIsProgress == Ready(<<>>) \in Progress /\ Ready(<<>>) = [current |-> NoField, out |-> <<>>]
<1>1. <<>> \in Seq(Current)
  BY EmptySeq
<1> QED BY <1>1, ReadyFacts

LEMMA ReaderStarts ==
  ASSUME NEW st \in Styles, NEW from \in 0..Len(Frames)
  PROVE  /\ SentIn(st, from, Len(Frames) - from) \in Text
         /\ Reader(st, from, <<>>, NoField, SentIn(st, from, Len(Frames) - from), 0, <<>>)
<1> DEFINE K == Len(Frames) - from
           C == SentLines(st, from, K)
           u == Unlines(C)
<1>1. K \in 0..K
  <2>1. K \in Nat
    BY PartsFacts
  <2> QED BY <2>1
<1>2. C \in Seq(Plain) /\ SentIn(st, from, K) = u
  BY <1>1, SentLinesType, SentIsLines
<1> HIDE DEF C
<1>3. u \in Text
  BY <1>2, PlainSeq, UnlinesType
<1>4. <<>> \o C = C /\ <<>> \in Seq(Plain)
  BY <1>2, ConcatEmptySeq, EmptySeq
<1> HIDE DEF u
<1>5. <<>> \o u = u
  BY <1>3, ConcatEmptySeq DEF Text
<1>6. 0 = Len(Unlines(<<>>)) + Len(<<>>)
  BY UnlinesEmpty
<1>7. Folded(<<>>, Ready(<<>>)) = [current |-> NoField, out |-> <<>>]
  BY ReadyIsProgress, FoldedEmpty
<1>8. Reads(st, from, <<>>, NoField, u, 0, <<>>, <<>>, C)
  BY <1>4, <1>5, <1>6, <1>7 DEF Reads, C, K, u
<1>9. Reader(st, from, <<>>, NoField, u, 0, <<>>)
  BY <1>2, <1>4, <1>8 DEF Reader
<1> QED BY <1>2, <1>3, <1>9 DEF K

\* k frames: those that have come, in n tokens.
Came(st, from, n, k) ==
  \A m \in 0..(Len(Frames) - from) : Len(SentIn(st, from, m)) <= n <=> m <= k

\* What a reader has handed over, and when.
LEMMA ReaderHanded ==
  ASSUME NEW st \in Styles, NEW from \in 0..Len(Frames), NEW b \in Text, NEW c, NEW t \in Text,
         NEW n, NEW o, NoLF(b), Reader(st, from, b, c, t, n, o)
  PROVE  \E k \in 0..(Len(Frames) - from) : o = Handed(from, k) /\ Came(st, from, n, k)
<1>1. PICK L \in Seq(Plain), C \in Seq(Plain) : Reads(st, from, b, c, t, n, o, L, C)
  BY DEF Reader
<1>2. /\ L \o C = SentLines(st, from, Len(Frames) - from) /\ b \o t = Unlines(C)
      /\ n = Len(Unlines(L)) + Len(b) /\ Folded(L, Ready(<<>>)) = [current |-> c, out |-> o]
  BY <1>1 DEF Reads
<1>3. PICK k \in 0..(Len(Frames) - from) : Complete(st, from, L, k)
  BY <1>2, SomeComplete
<1>4. o = Handed(from, k)
  BY <1>2, <1>3 DEF Complete
<1>5. ASSUME NEW m \in 0..(Len(Frames) - from) PROVE Len(SentIn(st, from, m)) <= n <=> m <= k
  BY <1>2, <1>3, ArrivedIsComplete
<1> QED BY <1>4, <1>5 DEF Came

LEMMA PlainOf ==
  ASSUME NEW L \in Seq(Text), \A k \in 1..Len(L) : NoLF(L[k])
  PROVE  L \in Seq(Plain)
<1>1. \A k \in 1..Len(L) : L[k] \in Plain
  BY LenProperties, ElementOfSeq DEF Plain
<1> QED BY <1>1, SeqOfPart

LEMMA TextCut ==
  ASSUME NEW t \in Text, NEW n \in 1..Len(t)
  PROVE  /\ SubSeq(t, 1, n) \in Text /\ SubSeq(t, n + 1, Len(t)) \in Text
         /\ Len(SubSeq(t, 1, n)) = n /\ n \in Nat
         /\ SubSeq(t, 1, n) \o SubSeq(t, n + 1, Len(t)) = t
<1>1. t \in Seq(Tokens) /\ Len(t) \in Nat /\ \A i \in 1..Len(t) : t[i] \in Tokens
  BY LenProperties, ElementOfSeq DEF Text
<1>2. n \in 0..Len(t) /\ 1 \in 1..(Len(t) + 1) /\ n \in (1 - 1)..Len(t) /\ Len(t) \in n..Len(t)
  BY <1>1
<1>3. SubSeq(t, 1, n) \in Text /\ Len(SubSeq(t, 1, n)) = n
  BY <1>1, <1>2, PrefixFacts DEF Text
<1>4. SubSeq(t, n + 1, Len(t)) \in Text
  <2> DEFINE a == n + 1
             b == Len(t)
  <2>1. a \in Int /\ b \in Int /\ \A i \in a..b : i \in 1..Len(t)
    BY <1>1
  <2>2. \A i \in a..b : t[i] \in Tokens
    BY <1>1, <2>1
  <2> HIDE DEF a, b
  <2>3. SubSeq(t, a, b) \in Seq(Tokens)
    BY <2>1, <2>2, SubSeqProperties
  <2> QED BY <2>3 DEF a, b, Text
<1>5. SubSeq(t, 1, n) \o SubSeq(t, n + 1, Len(t)) = SubSeq(t, 1, Len(t))
  BY <1>1, <1>2, ConcatAdjacentSubSeq
<1>6. SubSeq(t, 1, Len(t)) = t
  BY <1>1, SubSeqFull
<1>7. SubSeq(t, 1, n) \o SubSeq(t, n + 1, Len(t)) = t
  BY <1>5, <1>6
<1> QED BY <1>2, <1>3, <1>4, <1>7

LEMMA TextJoins ==
  ASSUME NEW x \in Text, NEW y \in Text, NEW z \in Text
  PROVE  x \o y \in Text /\ Regroups(x, y, z)
BY Joins DEF Text

\* Where a chunk brings the reader.
LEMMA ReaderReads ==
  ASSUME NEW st \in Styles, NEW from \in 0..Len(Frames), NEW b \in Text, NoLF(b), NEW c \in Current,
         NEW t \in Text, NEW got0 \in Nat, NEW o \in Seq(Current), NEW n \in 1..Len(t),
         Reader(st, from, b, c, t, got0, o),
         NEW fed, fed = TakeLines(b \o SubSeq(t, 1, n), c)
  PROVE  /\ fed.buffer \in Text /\ NoLF(fed.buffer) /\ fed.current \in Current /\ fed.out \in Seq(Current)
         /\ Reader(st, from, fed.buffer, fed.current, SubSeq(t, n + 1, Len(t)), got0 + n, o \o fed.out)
<1> DEFINE x == SubSeq(t, 1, n)
           y == SubSeq(t, n + 1, Len(t))
           bx == b \o x
<1>1. x \in Text /\ y \in Text /\ Len(x) = n /\ n \in Nat /\ x \o y = t
  BY TextCut
<1>2. PICK L \in Seq(Plain), C \in Seq(Plain) : Reads(st, from, b, c, t, got0, o, L, C)
  BY DEF Reader
<1>3. /\ L \o C = SentLines(st, from, Len(Frames) - from) /\ b \o t = Unlines(C)
      /\ got0 = Len(Unlines(L)) + Len(b) /\ Folded(L, Ready(<<>>)) = [current |-> c, out |-> o]
  BY <1>2 DEF Reads
<1>4. fed = TakeLines(bx, c)
  OBVIOUS
<1> HIDE DEF x, y
<1>5. bx \in Text /\ bx \o y = b \o t
  <2>1. bx \in Text
    BY <1>1, TextJoins
  <2>2. Regroups(b, x, y)
    BY <1>1, TextJoins
  <2>3. bx \o y = b \o (x \o y)
    BY <2>2 DEF Regroups
  <2> HIDE DEF bx
  <2> QED BY <1>1, <2>1, <2>3
<1>6. Len(bx) = Len(b) + n /\ Len(b) \in Nat
  BY <1>1, Joins DEF Text
<1> HIDE DEF bx
<1>7. PICK M \in Seq(Text), r \in Text : bx = Unlines(M) \o r /\ NoLF(r) /\ \A k \in 1..Len(M) : NoLF(M[k])
  BY <1>5, TextSplits
<1>8. M \in Seq(Plain) /\ L \in Seq(Text) /\ C \in Seq(Text) /\ \A k \in 1..Len(C) : NoLF(C[k])
  BY <1>7, PlainOf, PlainSeq
<1> DEFINE um == Unlines(M)
           ry == r \o y
<1>9. um \in Text
  BY UnlinesType
<1>10. ry \in Text /\ um \o ry = Unlines(C)
  <2> HIDE DEF um
  <2>1. ry \in Text
    BY <1>1, TextJoins
  <2>2. (um \o r) \o y = um \o ry
    <3>1. Regroups(um, r, y)
      BY <1>1, <1>9, TextJoins
    <3> QED BY <3>1 DEF Regroups
  <2>3. bx = um \o r
    BY <1>7 DEF um
  <2> HIDE DEF ry
  <2> QED BY <1>3, <1>5, <2>1, <2>2, <2>3
<1> HIDE DEF ry
<1>11. PICK D \in Seq(Text) : C = M \o D /\ ry = Unlines(D)
  BY <1>7, <1>8, <1>10, LinesBegin
<1>12. D \in Seq(Plain)
  <2>1. /\ Len(M \o D) = Len(M) + Len(D)
        /\ \A i \in 1 .. Len(M) + Len(D) : (M \o D)[i] = IF i <= Len(M) THEN M[i] ELSE D[i - Len(M)]
    BY ConcatProperties
  <2>2. ASSUME NEW k \in 1..Len(D) PROVE NoLF(D[k])
    <3>1. Len(M) \in Nat /\ Len(D) \in Nat
      BY LenProperties
    <3> DEFINE i == Len(M) + k
    <3>2. i \in 1 .. Len(M) + Len(D) /\ ~ (i <= Len(M)) /\ i - Len(M) = k
      BY <3>1
    <3> HIDE DEF i
    <3>3. C[i] = D[k] /\ i \in 1..Len(C)
      BY <1>11, <2>1, <3>2
    <3> QED BY <1>8, <3>3
  <2> QED BY <2>2, PlainOf
<1> DEFINE LM == L \o M
           z == [current |-> c, out |-> <<>>]
           e == Folded(M, z)
<1>13. LM \in Seq(Plain) /\ LM \o D = SentLines(st, from, Len(Frames) - from)
  <2>1. LM \in Seq(Plain)
    BY <1>8, ConcatProperties
  <2>2. Regroups(L, M, D)
    BY <1>8, <1>12, PlainJoins
  <2> QED BY <1>3, <1>11, <2>1, <2>2 DEF Regroups
<1>14. e \in Progress /\ Folded(LM, Ready(<<>>)) = [current |-> e.current, out |-> o \o e.out]
  <2>1. z \in Progress
    <3>1. <<>> \in Seq(Current)
      BY EmptySeq
    <3> QED BY <3>1 DEF Progress
  <2>2. Folded(LM, Ready(<<>>)) = Folded(M, Folded(L, Ready(<<>>)))
    BY <1>8, ReadyIsProgress, FoldedConcat
  <2>3. Folded(M, [current |-> c, out |-> o]) = [current |-> e.current, out |-> o \o e.out]
    BY FoldedOut
  <2> HIDE DEF z, LM
  <2>4. e \in Progress
    BY <2>1, FoldedType
  <2> HIDE DEF e
  <2> QED BY <1>3, <2>2, <2>3, <2>4
<1>15. fed = [buffer |-> r, current |-> e.current, out |-> e.out]
  <2>1. TakeLines(um \o r, c) = [buffer |-> r, current |-> e.current, out |-> e.out]
    BY <1>7, TakesItsLines
  <2>2. bx = um \o r
    BY <1>7
  <2> HIDE DEF um, e
  <2> QED BY <1>4, <2>1, <2>2
<1> HIDE DEF e, z
<1>16. /\ fed.buffer = r /\ fed.current = e.current /\ fed.out = e.out
       /\ e.current \in Current /\ e.out \in Seq(Current)
  <2>1. e.current \in Current /\ e.out \in Seq(Current)
    BY <1>14 DEF Progress
  <2> QED BY <1>15, <2>1
<1>17. got0 + n = Len(Unlines(LM)) + Len(r)
  <2> DEFINE ul == Unlines(L)
  <2>1. ul \in Text
    BY <1>8, UnlinesType
  <2>2. Unlines(LM) = ul \o um
    BY <1>8, UnlinesConcat
  <2>3. got0 = Len(ul) + Len(b)
    BY <1>3
  <2> HIDE DEF ul, um
  <2>4. Len(ul \o um) = Len(ul) + Len(um) /\ Len(ul) \in Nat /\ Len(um) \in Nat
    BY <1>9, <2>1, Joins DEF Text
  <2>5. Len(um \o r) = Len(um) + Len(r) /\ Len(r) \in Nat
    <3>1. um \in Seq(Tokens) /\ r \in Seq(Tokens)
      BY <1>9 DEF Text
    <3> QED BY <3>1, ConcatProperties, LenProperties
  <2>6. bx = um \o r
    BY <1>7 DEF um
  <2>7. Len(um) + Len(r) = Len(b) + n
    BY <1>6, <2>5, <2>6
  <2> HIDE DEF LM
  <2>8. Len(Unlines(LM)) = Len(ul) + Len(um)
    BY <2>2, <2>4
  <2>9. Len(ul) \in Nat /\ Len(um) \in Nat /\ Len(r) \in Nat /\ Len(b) \in Nat /\ n \in Nat
    BY <1>1, <1>6, <2>4, <2>5
  <2> DEFINE whole == Len(Unlines(LM))
             ll == Len(ul)
             lm == Len(um)
             lr == Len(r)
             lb == Len(b)
  <2>10. /\ ll \in Nat /\ lm \in Nat /\ lr \in Nat /\ lb \in Nat /\ n \in Nat
         /\ got0 = ll + lb /\ lm + lr = lb + n /\ whole = ll + lm
    BY <2>3, <2>7, <2>8, <2>9
  <2> HIDE DEF whole, ll, lm, lr, lb
  <2>11. got0 + n = whole + lr
    BY <2>10
  <2> QED BY <2>11 DEF whole, lr
<1>18. r \o y = Unlines(D)
  BY <1>11 DEF ry
<1> HIDE DEF LM
<1>19. Reads(st, from, r, e.current, y, got0 + n, o \o e.out, LM, D)
  BY <1>13, <1>14, <1>17, <1>18 DEF Reads
<1>20. Reader(st, from, r, e.current, y, got0 + n, o \o e.out)
  BY <1>12, <1>13, <1>19 DEF Reader
<1> QED BY <1>7, <1>16, <1>20 DEF y

-----------------------------------------------------------------------------
(* The ids.                                                                *)

\* lastId is not set, or is the id of an event of the session.
Known(id) == id = None \/ \E i \in 1..Len(Frames) : Frames[i].id = id

LEMMA FramesFacts ==
  /\ Frames \in Seq(Current) /\ Len(Frames) \in Nat
  /\ \A i \in 1..Len(Frames) : Frames[i] \in Current /\ Frames[i].id # None
<1>1. Frames \in Seq([id : Text, event : Text \cup {None}, data : Seq(Text)]) /\ None \notin Text
  BY FrameAssumption
<1>2. ASSUME NEW i \in 1..Len(Frames)
      PROVE  Frames[i] \in [id : Text, event : Text \cup {None}, data : Seq(Text)]
  BY <1>1, ElementOfSeq
<1>3. ASSUME NEW i \in 1..Len(Frames) PROVE Frames[i] \in Current /\ Frames[i].id # None
  <2> DEFINE f == Frames[i]
  <2>1. f \in [id : Text, event : Text \cup {None}, data : Seq(Text)]
    BY <1>2
  <2> HIDE DEF f
  <2>2. f \in Current /\ f.id # None
    BY <1>1, <2>1 DEF Current
  <2> QED BY <2>2 DEF f
<1>4. Frames \in Seq(Current)
  BY <1>1, <1>3, SeqOfPart
<1> QED BY <1>1, <1>3, <1>4, LenProperties

LEMMA IndexFacts ==
  /\ IndexOf(None) = 0
  /\ \A i \in 1..Len(Frames) : IndexOf(Frames[i].id) = i
  /\ \A id : Known(id) => IndexOf(id) \in 0..Len(Frames)
<1> DEFINE I(id) == {i \in 1..Len(Frames) : Frames[i].id = id}
<1>1. ASSUME NEW id PROVE IndexOf(id) = IF I(id) # {} THEN Min(I(id)) ELSE 0
  BY DEF IndexOf, SelectInSeq
<1>2. IndexOf(None) = 0
  <2>1. I(None) = {}
    BY FramesFacts
  <2> HIDE DEF I
  <2> QED BY <1>1, <2>1
<1>3. ASSUME NEW i \in 1..Len(Frames) PROVE IndexOf(Frames[i].id) = i
  <2> DEFINE id == Frames[i].id
  <2>1. \A j \in 1..Len(Frames) : Frames[j].id = id => j = i
    BY FrameAssumption
  <2>2. I(id) = {i} /\ {i} \subseteq Nat
    BY <2>1
  <2> HIDE DEF I, id
  <2>3. Min({i}) = i
    <3>1. Min({i}) \in {i}
      BY <2>2, LeastNumber
    <3> QED BY <3>1
  <2>4. IndexOf(id) = i
    BY <1>1, <2>2, <2>3
  <2> QED BY <2>4 DEF id
<1>4. ASSUME NEW id, Known(id) PROVE IndexOf(id) \in 0..Len(Frames)
  <2>1. CASE id = None
    BY <1>2, <2>1, FramesFacts
  <2>2. CASE id # None
    <3>1. PICK i \in 1..Len(Frames) : Frames[i].id = id
      BY <1>4, <2>2 DEF Known
    <3>2. IndexOf(id) = i
      BY <1>3, <3>1
    <3> QED BY <3>2, FramesFacts
  <2> QED BY <2>1, <2>2
<1> QED BY <1>2, <1>3, <1>4

\* The newest of events that all have an id is the last.
LEMMA NewestIsLast ==
  ASSUME NEW e \in Seq(Current), NEW id, \A i \in 1..Len(e) : e[i].id # None
  PROVE  /\ Len(e) = 0 => NewestId(e, id) = id
         /\ Len(e) # 0 => NewestId(e, id) = e[Len(e)].id
<1> DEFINE I == {i \in 1..Len(e) : e[i].id # None}
           last == SelectLastInSeq(e, LAMBDA x : x.id # None)
<1>1. Len(e) \in Nat
  BY LenProperties
<1>2. I = 1..Len(e)
  OBVIOUS
<1>3. last = IF I # {} THEN Max(I) ELSE 0
  BY DEF SelectLastInSeq
<1>4. NewestId(e, id) = IF last = 0 THEN id ELSE e[last].id
  BY DEF NewestId
<1> HIDE DEF I, last
<1>5. CASE Len(e) = 0
  <2>1. I = {}
    BY <1>2, <1>5
  <2> QED BY <1>3, <1>4, <1>5, <2>1
<1>6. CASE Len(e) # 0
  <2> DEFINE N == Len(e)
  <2>1. N \in I /\ \A y \in I : N >= y
    BY <1>1, <1>2, <1>6
  <2>2. I \subseteq Int
    BY <1>2
  <2> HIDE DEF N
  <2>3. Max(I) = N
    <3> DEFINE m == Max(I)
    <3>1. m = CHOOSE x \in I : \A y \in I : x >= y
      BY DEF Max
    <3> HIDE DEF m
    <3>2. m \in I /\ \A y \in I : m >= y
      BY <2>1, <3>1
    <3>3. m >= N /\ N >= m /\ m \in Int /\ N \in Int
      BY <2>1, <2>2, <3>2
    <3>4. m = N
      BY <3>3
    <3> QED BY <3>4 DEF m
  <2>4. last = N
    BY <1>3, <2>1, <2>3
  <2>5. NewestId(e, id) = e[N].id
    BY <1>4, <1>6, <2>4 DEF N
  <2> QED BY <1>6, <2>5 DEF N
<1> QED BY <1>5, <1>6

\* The events before a response and the first of it.
LEMMA FramesJoin ==
  ASSUME NEW from \in 0..Len(Frames), NEW k \in 0..(Len(Frames) - from)
  PROVE  /\ SubSeq(Frames, 1, from) \in Seq(Current)
         /\ SubSeq(Frames, 1, from) \o Handed(from, k) = SubSeq(Frames, 1, from + k)
<1>1. Frames \in Seq(Current) /\ Len(Frames) \in Nat
  BY FramesFacts
<1>2. 1 \in 1..(Len(Frames) + 1) /\ from \in (1 - 1)..Len(Frames) /\ from + k \in from..Len(Frames)
  BY <1>1
<1> DEFINE n == from + k
<1>3. n \in from..Len(Frames)
  BY <1>2
<1>4. Handed(from, k) = SubSeq(Frames, from + 1, n)
  BY DEF Handed
<1> HIDE DEF n
<1>5. SubSeq(Frames, 1, from) \o SubSeq(Frames, from + 1, n) = SubSeq(Frames, 1, n)
  BY <1>1, <1>2, <1>3, ConcatAdjacentSubSeq
<1>6. SubSeq(Frames, 1, from) \in Seq(Current)
  BY <1>1, PrefixFacts
<1> QED BY <1>4, <1>5, <1>6 DEF n

\* The events that come bring lastId to the last of them.
LEMMA Received ==
  ASSUME NEW from \in 0..Len(Frames), NEW id, Known(id), from <= IndexOf(id),
         NEW k \in 0..(Len(Frames) - from), NEW e \in Seq(Current),
         Handed(from, IndexOf(id) - from) \o e = Handed(from, k)
  PROVE  /\ Known(NewestId(e, id)) /\ IndexOf(NewestId(e, id)) = from + k
         /\ SubSeq(Frames, 1, IndexOf(id)) \o e = SubSeq(Frames, 1, from + k)
<1> DEFINE j == IndexOf(id) - from
           a == SubSeq(Frames, 1, from)
           h == Handed(from, j)
           g == Handed(from, k)
           he == h \o e
<1>1. IndexOf(id) \in 0..Len(Frames) /\ Len(Frames) \in Nat
  BY IndexFacts, FramesFacts
<1>2. j \in 0..(Len(Frames) - from) /\ from + j = IndexOf(id) /\ from \in Nat /\ j \in Nat /\ k \in Nat
  BY <1>1
<1>3. he = g
  OBVIOUS
<1> HIDE DEF j
<1>4. h \in Seq(Current) /\ Len(h) = j /\ g \in Seq(Current) /\ Len(g) = k
  BY <1>2, HandedFacts
<1>5. a \in Seq(Current) /\ a \o h = SubSeq(Frames, 1, from + j) /\ a \o g = SubSeq(Frames, 1, from + k)
  BY <1>2, FramesJoin
<1>6. \A i \in 1..k : g[i] = Frames[from + i] /\ from + i \in 1..Len(Frames)
  <2> DEFINE p == from + 1
             q == from + k
  <2>1. p \in Int /\ q \in Int /\ q - p + 1 = k /\ \A i \in p..q : i \in 1..Len(Frames)
    BY <1>1, <1>2
  <2>2. \A i \in p..q : Frames[i] \in Current
    BY <2>1, FramesFacts
  <2>3. g = SubSeq(Frames, p, q)
    BY DEF Handed
  <2>4. \A i \in 1..k : p + i - 1 = from + i /\ from + i \in 1..Len(Frames)
    BY <1>1, <1>2
  <2> HIDE DEF p, q, g
  <2>5. \A i \in 1 .. q - p + 1 : SubSeq(Frames, p, q)[i] = Frames[p + i - 1]
    BY <2>1, <2>2, SubSeqProperties
  <2> QED BY <2>1, <2>3, <2>4, <2>5
<1> HIDE DEF a, h, g
<1>7. /\ Len(he) = j + Len(e) /\ Len(e) \in Nat
      /\ \A i \in 1 .. j + Len(e) : he[i] = IF i <= j THEN h[i] ELSE e[i - j]
  BY <1>4, ConcatProperties, LenProperties
<1>8. a \o he = (a \o h) \o e
  <2>1. Regroups(a, h, e)
    BY <1>4, <1>5, Joins
  <2> QED BY <2>1 DEF Regroups
<1> HIDE DEF he
<1>9. SubSeq(Frames, 1, IndexOf(id)) \o e = SubSeq(Frames, 1, from + k)
  BY <1>2, <1>3, <1>5, <1>8
<1>10. j + Len(e) = k
  BY <1>3, <1>4, <1>7
<1>11. \A i \in 1..Len(e) : e[i] = Frames[from + j + i] /\ from + j + i \in 1..Len(Frames)
  <2>1. ASSUME NEW i \in 1..Len(e) PROVE e[i] = Frames[from + j + i] /\ from + j + i \in 1..Len(Frames)
    <3> DEFINE m == j + i
    <3>1. m \in 1 .. j + Len(e) /\ ~ (m <= j) /\ m - j = i /\ m \in 1..k /\ from + m = from + j + i
      BY <1>2, <1>7, <1>10
    <3> HIDE DEF m
    <3> QED BY <1>3, <1>6, <1>7, <3>1
  <2> QED BY <2>1
<1>12. \A i \in 1..Len(e) : e[i].id # None
  BY <1>11, FramesFacts
<1>13. CASE Len(e) = 0
  <2>1. NewestId(e, id) = id
    BY <1>12, <1>13, NewestIsLast
  <2>2. k = j
    BY <1>2, <1>10, <1>13
  <2> QED BY <1>2, <1>9, <2>1, <2>2
<1>14. CASE Len(e) # 0
  <2> DEFINE n == from + k
  <2>1. NewestId(e, id) = e[Len(e)].id
    BY <1>12, <1>14, NewestIsLast
  <2>2. Len(e) \in 1..Len(e) /\ from + j + Len(e) = n
    <3> DEFINE l == Len(e)
    <3>1. l \in Nat /\ l # 0 /\ j + l = k
      BY <1>7, <1>10, <1>14
    <3> HIDE DEF l
    <3>2. l \in 1..l /\ from + j + l = from + k
      BY <1>2, <3>1
    <3> QED BY <3>2 DEF l
  <2>3. e[Len(e)] = Frames[n] /\ n \in 1..Len(Frames)
    BY <1>11, <2>2
  <2> HIDE DEF n
  <2>4. NewestId(e, id) = Frames[n].id
    BY <2>1, <2>3
  <2>5. Known(NewestId(e, id)) /\ IndexOf(NewestId(e, id)) = n
    BY <2>3, <2>4, IndexFacts DEF Known
  <2> QED BY <1>9, <2>5 DEF n
<1> QED BY <1>13, <1>14

-----------------------------------------------------------------------------
(* The invariant.                                                          *)

ParserTypes ==
  /\ style \in Styles
  /\ text \in Text
  /\ state \in [buffer : Text, current : Current]
  /\ start \in 0..Len(Frames)
  /\ got \in Nat

\* lastId is as far as the events handed over.
UpToLastId ==
  /\ Known(lastId)
  /\ start <= IndexOf(lastId)
  /\ out = SubSeq(Frames, 1, IndexOf(lastId))

\* The parser has taken the lines that have come, and nothing else.
ParserInStep ==
  client # "connecting" =>
    Reader(style, start, state.buffer, state.current, text, got,
           Handed(start, IndexOf(lastId) - start))

ParserInv == ParserTypes /\ UpToLastId /\ NoLF(state.buffer) /\ ParserInStep

LEMMA NewState ==
  /\ newSSEParserState \in [buffer : Text, current : Current]
  /\ newSSEParserState.buffer = <<>> /\ newSSEParserState.current = NoField /\ NoLF(<<>>)
<1>1. <<>> \in Text /\ <<>> \in Seq(Text)
  BY EmptySeq DEF Text
<1> QED BY <1>1 DEF newSSEParserState, NoField, Current, NoLF

LEMMA ParserInit == Init => ParserInv
<1> SUFFICES ASSUME Init PROVE ParserInv
  OBVIOUS
<1>1. <<>> \in Text
  BY EmptySeq DEF Text
<1>2. 0 \in 0..Len(Frames)
  BY FramesFacts
<1>3. ParserTypes
  BY <1>1, <1>2, NewState DEF Init, ParserTypes
<1>4. UpToLastId
  <2>1. SubSeq(Frames, 1, 0) = <<>>
    BY SubSeqEmpty
  <2> QED BY <2>1, IndexFacts DEF Init, UpToLastId, Known
<1>5. NoLF(state.buffer) /\ ParserInStep
  BY NewState DEF Init, ParserInStep
<1> QED BY <1>3, <1>4, <1>5 DEF ParserInv

LEMMA ConnectKeeps == ParserInv /\ Connect => ParserInv'
<1> SUFFICES ASSUME ParserInv, Connect PROVE ParserInv'
  OBVIOUS
<1> DEFINE j == IndexOf(lastId)
<1>1. j \in 0..Len(Frames) /\ style \in Styles /\ Known(lastId) /\ out = SubSeq(Frames, 1, j)
  BY IndexFacts DEF ParserInv, ParserTypes, UpToLastId
<1>2. /\ text' = Response(j) /\ start' = j /\ got' = 0 /\ state' = newSSEParserState
      /\ style' = style /\ lastId' = lastId /\ out' = out
  BY DEF Connect
<1>3. Response(j) = SentIn(style, j, Len(Frames) - j)
  BY DEF Response, Sent, SentIn
<1>4. j <= j /\ j - j = 0 /\ 0 \in 0..(Len(Frames) - j)
  BY <1>1, FramesFacts
<1>5. IndexOf(lastId') = j
  BY <1>2
<1> HIDE DEF j
<1>6. /\ SentIn(style, j, Len(Frames) - j) \in Text
      /\ Reader(style, j, <<>>, NoField, SentIn(style, j, Len(Frames) - j), 0, <<>>)
  BY <1>1, ReaderStarts
<1>7. Handed(j, 0) = <<>>
  BY <1>1, <1>4, HandedFacts
<1>8. ParserTypes'
  BY <1>1, <1>2, <1>3, <1>6, NewState DEF ParserTypes
<1>9. UpToLastId'
  BY <1>1, <1>2, <1>4, <1>5 DEF UpToLastId
<1>10. state'.buffer = <<>> /\ state'.current = NoField /\ NoLF(state'.buffer)
  BY <1>2, NewState
<1>11. Reader(style', start', state'.buffer, state'.current, text', got',
              Handed(start', IndexOf(lastId') - start'))
  BY <1>2, <1>3, <1>4, <1>5, <1>6, <1>7, <1>10
<1> QED BY <1>8, <1>9, <1>10, <1>11 DEF ParserInv, ParserInStep

LEMMA ReadKeeps == ASSUME NEW n \in 1..Len(text) PROVE ParserInv /\ Read(n) => ParserInv'
<1> SUFFICES ASSUME ParserInv, Read(n) PROVE ParserInv'
  OBVIOUS
<1> DEFINE fed == feedSSE(state, SubSeq(text, 1, n))
           j == IndexOf(lastId)
           h == Handed(start, j - start)
           b == state.buffer
           c == state.current
           id == NewestId(fed.out, lastId)
<1>1. /\ style \in Styles /\ text \in Text /\ start \in 0..Len(Frames) /\ got \in Nat
      /\ b \in Text /\ c \in Current /\ NoLF(b)
      /\ Known(lastId) /\ start <= j /\ out = SubSeq(Frames, 1, j)
  BY DEF ParserInv, ParserTypes, UpToLastId
<1>2. /\ client = "reading" /\ text' = SubSeq(text, n + 1, Len(text)) /\ got' = got + n
      /\ state' = [buffer |-> fed.buffer, current |-> fed.current]
      /\ out' = out \o fed.out /\ lastId' = id /\ style' = style /\ start' = start
  BY DEF Read
<1>3. Reader(style, start, b, c, text, got, h)
  BY <1>2 DEF ParserInv, ParserInStep
<1>4. fed = TakeLines(b \o SubSeq(text, 1, n), c)
  BY DEF feedSSE
<1>5. h \in Seq(Current) /\ j \in 0..Len(Frames)
  <2>1. j \in 0..Len(Frames) /\ Len(Frames) \in Nat
    BY <1>1, IndexFacts, FramesFacts
  <2>2. j - start \in 0..(Len(Frames) - start)
    BY <1>1, <2>1
  <2> QED BY <1>1, <2>1, <2>2, HandedFacts
<1>6. SubSeq(text, n + 1, Len(text)) \in Text /\ n \in Nat
  BY <1>1, TextCut
<1> HIDE DEF fed, b, c, h
<1>7. /\ fed.buffer \in Text /\ NoLF(fed.buffer) /\ fed.current \in Current /\ fed.out \in Seq(Current)
      /\ Reader(style, start, fed.buffer, fed.current, SubSeq(text, n + 1, Len(text)), got + n, h \o fed.out)
  BY <1>1, <1>3, <1>4, <1>5, ReaderReads
<1>8. PICK k \in 0..(Len(Frames) - start) : h \o fed.out = Handed(start, k)
  <2> DEFINE ho == h \o fed.out
             rest == SubSeq(text, n + 1, Len(text))
             g == got + n
             fb == fed.buffer
             fc == fed.current
  <2>1. /\ style \in Styles /\ start \in 0..Len(Frames) /\ fb \in Text /\ NoLF(fb) /\ rest \in Text
        /\ Reader(style, start, fb, fc, rest, g, ho)
    BY <1>1, <1>6, <1>7
  <2> HIDE DEF ho, rest, g, fb, fc
  <2>2. \E k \in 0..(Len(Frames) - start) : ho = Handed(start, k)
    BY <2>1, ReaderHanded
  <2> QED BY <2>2 DEF ho
<1>9. /\ Known(id) /\ IndexOf(id) = start + k
      /\ SubSeq(Frames, 1, j) \o fed.out = SubSeq(Frames, 1, start + k)
  <2>1. Handed(start, IndexOf(lastId) - start) \o fed.out = Handed(start, k)
    BY <1>8 DEF h
  <2> QED BY <1>1, <1>7, <2>1, Received
<1> HIDE DEF j, id
<1>10. start <= start + k /\ (start + k) - start = k /\ got + n \in Nat
  BY <1>1, <1>6, FramesFacts
<1>11. state'.buffer = fed.buffer /\ state'.current = fed.current
       /\ state' \in [buffer : Text, current : Current]
  BY <1>2, <1>7
<1>12. ParserTypes'
  BY <1>1, <1>2, <1>6, <1>10, <1>11 DEF ParserTypes
<1>13. UpToLastId'
  BY <1>1, <1>2, <1>9, <1>10 DEF UpToLastId
<1>14. NoLF(state'.buffer)
  BY <1>7, <1>11
<1>15. Reader(style', start', state'.buffer, state'.current, text', got',
              Handed(start', IndexOf(lastId') - start'))
  BY <1>2, <1>7, <1>8, <1>9, <1>10, <1>11
<1> QED BY <1>12, <1>13, <1>14, <1>15 DEF ParserInv, ParserInStep

LEMMA BreakKeeps == ParserInv /\ Break => ParserInv'
<1> SUFFICES ASSUME ParserInv, Break PROVE ParserInv'
  OBVIOUS
<1>1. /\ client' = "connecting" /\ text' = <<>> /\ style' = style /\ state' = state
      /\ lastId' = lastId /\ start' = start /\ got' = got /\ out' = out
  BY DEF Break
<1>2. <<>> \in Text
  BY EmptySeq DEF Text
<1>3. ParserTypes'
  BY <1>1, <1>2 DEF ParserInv, ParserTypes
<1>4. UpToLastId' /\ NoLF(state'.buffer)
  BY <1>1 DEF ParserInv, UpToLastId
<1>5. ParserInStep'
  BY <1>1 DEF ParserInStep
<1> QED BY <1>3, <1>4, <1>5 DEF ParserInv

\* However the stream is cut and wherever its connections break (sse.ts:26-78,
\* transport.ts:97-126), the parser has taken the lines that have come, the
\* buffer holds the beginning of the next, and lastId is the id of the last
\* event handed over.
THEOREM ParserInvariant == Spec => []ParserInv
<1>1. ParserInv /\ [Next]_vars => ParserInv'
  <2> SUFFICES ASSUME ParserInv, [Next]_vars PROVE ParserInv'
    OBVIOUS
  <2>1. CASE Connect
    BY <2>1, ConnectKeeps
  <2>2. ASSUME NEW n \in 1..Len(text), Read(n) PROVE ParserInv'
    BY <2>2, ReadKeeps
  <2>3. CASE Break
    BY <2>3, BreakKeeps
  <2>4. CASE UNCHANGED vars
    BY <2>4 DEF vars, ParserInv, ParserTypes, UpToLastId, ParserInStep
  <2> QED BY <2>1, <2>2, <2>3, <2>4 DEF Next
<1> QED BY <1>1, ParserInit, PTL DEF Spec

\* For all events, forms, chunks and breaks: the events handed over are those
\* the server sent, in order and once (sse.ts:26-78, transport.ts:97-126).
THEOREM ReadOnceInOrder == Spec => []OnceInOrder
<1>1. ParserInv => OnceInOrder
  BY DEF ParserInv, UpToLastId, OnceInOrder
<1> QED BY <1>1, ParserInvariant, PTL

\* For all events, forms, chunks and breaks: an event is handed over with the
\* chunk that brings its blank line (sse.ts:28-76), and no line waits.
THEOREM NothingIsHeldBack == Spec => []NothingHeldBack
<1>1. ParserInv => NothingHeldBack
  <2> SUFFICES ASSUME ParserInv PROVE NothingHeldBack
    OBVIOUS
  <2> DEFINE j == IndexOf(lastId)
             i == j - start
             K == Len(Frames) - start
             b == state.buffer
             c == state.current
             Come == {m \in 1..K : Len(Sent(start, m)) <= got}
  <2>1. /\ style \in Styles /\ text \in Text /\ start \in 0..Len(Frames) /\ b \in Text /\ NoLF(b)
        /\ Known(lastId) /\ start <= j /\ out = SubSeq(Frames, 1, j)
    BY DEF ParserInv, ParserTypes, UpToLastId
  <2>2. "LF" \notin ToSet(b)
    <3>1. DOMAIN b = 1..Len(b)
      BY <2>1, LenProperties DEF Text
    <3> QED BY <2>1, <3>1 DEF ToSet, NoLF
  <2>3. ASSUME client # "connecting" PROVE Len(out) = start + Cardinality(Come)
    <3>1. Reader(style, start, b, c, text, got, Handed(start, i))
      BY <2>3 DEF ParserInv, ParserInStep
    <3>2. \A m : Sent(start, m) = SentIn(style, start, m)
      BY DEF Sent, SentIn
    <3>3. j \in 0..Len(Frames) /\ Len(Frames) \in Nat
      BY <2>1, IndexFacts, FramesFacts
    <3>4. i \in 0..K /\ K \in Nat /\ start + i = j
      BY <2>1, <3>3
    <3>5. Len(out) = j
      BY <2>1, <3>3, FramesFacts, PrefixFacts
    <3> HIDE DEF b, c, j
    <3>6. PICK k \in 0..K : Handed(start, i) = Handed(start, k) /\ Came(style, start, got, k)
      <4> HIDE DEF i
      <4> QED BY <2>1, <3>1, ReaderHanded
    <3>7. k = i
      BY <2>1, <3>4, <3>6, HandedFacts
    <3>8. Come = 1..k
      <4>1. \A m \in 1..K : m \in 0..K
        OBVIOUS
      <4>2. \A m \in 1..K : Len(Sent(start, m)) <= got <=> m <= k
        BY <3>2, <3>6, <4>1 DEF Came
      <4> QED BY <3>4, <4>2
    <3> HIDE DEF Come, i, K
    <3>9. Cardinality(1..k) = k
      <4>1. k \in Int /\ 1 \in Int /\ k \in Nat
        BY <3>6
      <4>2. Cardinality(1..k) = IF 1 > k THEN 0 ELSE k - 1 + 1
        BY <4>1, FS_Interval
      <4> QED BY <4>1, <4>2
    <3> QED BY <3>4, <3>5, <3>7, <3>8, <3>9
  <2> QED BY <2>2, <2>3 DEF NothingHeldBack
<1> QED BY <1>1, ParserInvariant, PTL
=============================================================================
