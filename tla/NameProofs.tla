----------------------------- MODULE NameProofs -----------------------------
(* Names, patterns and the other texts of a request, for every text.         *)
EXTENDS Requests, OrderProofs

-----------------------------------------------------------------------------
(* A text is the parts that Split finds, joined; and parts without the       *)
(* separator are what Split finds in the text they join to.                  *)

\* A part that is added at the end, or with others before it.
LEMMA AddPartFacts ==
  ASSUME NEW T, NEW sep \in T, NEW a \in Seq(T), NEW b \in Seq(T)
  PROVE  /\ AddPart(a, b, sep) \in Seq(T)
         /\ \A c \in Seq(T) : AddPart(AddPart(a, b, sep), c, sep) = AddPart(a, AddPart(b, c, sep), sep)
<1> DEFINE s == <<sep>>
<1>1. s \in Seq(T)  OBVIOUS
<1> HIDE DEF s
<1> DEFINE A == a \o s
           B == b \o s
<1>2. A \in Seq(T) /\ B \in Seq(T)  BY <1>1, ConcatProperties
<1>3. (A \o b) \o s = A \o B
  <2> HIDE DEF A
  <2> QED  BY <1>1, <1>2, ConcatAssociative
<1> HIDE DEF A, B
<1>4. A \o b \in Seq(T)  BY <1>2, ConcatProperties
<1>5. ASSUME NEW c \in Seq(T) PROVE (A \o B) \o c = A \o (B \o c)
  <2>1. A \in Seq(T)  BY ONLY <1>2
  <2>2. B \in Seq(T)  BY ONLY <1>2
  <2> QED  BY ONLY <2>1, <2>2, c \in Seq(T), ConcatAssociative, SMTT(60)
<1> QED  BY <1>3, <1>4, <1>5 DEF AddPart, A, B, s

\* A symbol appended to the second of two sequences is the last of both.
LEMMA AppendConcat ==
  ASSUME NEW T, NEW a \in Seq(T), NEW b \in Seq(T), NEW x \in T
  PROVE  a \o Append(b, x) = Append(a \o b, x)
<1> DEFINE d == <<x>>
<1>1. d \in Seq(T) /\ Append(b, x) = b \o d  BY AppendIsConcat
<1>2. a \o b \in Seq(T)  BY ConcatProperties
<1>3. Append(a \o b, x) = (a \o b) \o d  BY <1>2, AppendIsConcat
<1> HIDE DEF d
<1>4. (a \o b) \o d = a \o (b \o d)  BY <1>1, ConcatAssociative
<1> QED  BY <1>1, <1>3, <1>4

\* Two sequences of one symbol make one of two.
LEMMA TwoSymbols == ASSUME NEW x, NEW y PROVE <<x>> \o <<y>> = <<x, y>>
<1> DEFINE a == <<x>>
           b == <<y>>
           T == {x, y}
<1>1. a \in Seq(T) /\ Len(a) = 1 /\ a[1] = x /\ b \in Seq(T) /\ Len(b) = 1 /\ b[1] = y  OBVIOUS
<1>2. <<x, y>> \in Seq(T) /\ Len(<<x, y>>) = 2 /\ <<x, y>>[1] = x /\ <<x, y>>[2] = y  OBVIOUS
<1> DEFINE c == <<x, y>>
<1> HIDE DEF a, b, c, T
<1>3. /\ a \o b \in Seq(T) /\ Len(a \o b) = Len(a) + Len(b)
      /\ \A i \in 1..(Len(a) + Len(b)) : (a \o b)[i] = IF i <= Len(a) THEN a[i] ELSE b[i - Len(a)]
  BY <1>1, ConcatProperties
<1>4. Len(a \o b) = 2 /\ (a \o b)[1] = x /\ (a \o b)[2] = y  BY <1>1, <1>3
<1>5. c \in Seq(T) /\ Len(c) = 2 /\ c[1] = x /\ c[2] = y  BY <1>2 DEF c
<1>6. \A i \in 1..2 : (a \o b)[i] = c[i]  BY <1>4, <1>5
<1>7. a \o b = c  BY <1>3, <1>4, <1>5, <1>6, SeqEqual
<1> QED  BY <1>7 DEF a, b, c

PartsOf(T) == Seq(Seq(T)) \ {<<>>}

\* One more symbol leaves a nonempty list of parts.
LEMMA AddSymbolType ==
  ASSUME NEW T, NEW parts \in PartsOf(T), NEW c \in T, NEW sep
  PROVE  AddSymbol(parts, c, sep) \in PartsOf(T)
<1>1. parts \in Seq(Seq(T)) /\ Len(parts) \in Nat \ {0} /\ <<>> \in Seq(T)  BY EmptySeq DEF PartsOf
<1>2. CASE c = sep
  <2>1. Append(parts, <<>>) \in Seq(Seq(T)) /\ Append(parts, <<>>) # <<>>  BY <1>1, AppendProperties
  <2> QED  BY <1>2, <2>1 DEF AddSymbol, PartsOf
<1>3. CASE c # sep
  <2>1. parts[Len(parts)] \in Seq(T)  BY <1>1, ElementOfSeq
  <2>2. Append(parts[Len(parts)], c) \in Seq(T)  BY <2>1, AppendProperties
  <2>3. Len(parts) \in 1..Len(parts)  BY <1>1
  <2> DEFINE q == [parts EXCEPT ![Len(parts)] = Append(@, c)]
  <2>4. [parts EXCEPT ![Len(parts)] = Append(parts[Len(parts)], c)] \in Seq(Seq(T))
    BY <1>1, <2>2, <2>3, ExceptSeq
  <2>5. q \in Seq(Seq(T))  BY <2>4
  <2>6. Len(parts) \in DOMAIN q  BY <1>1, <2>3
  <2>7. q # <<>>  BY <2>6
  <2> HIDE DEF q
  <2>8. AddSymbol(parts, c, sep) = q  BY <1>3 DEF AddSymbol, q
  <2> QED  BY <2>5, <2>7, <2>8 DEF PartsOf
<1> QED  BY <1>2, <1>3

\* The parts of the first n symbols, for every n.
LEMMA SplitIs ==
  ASSUME NEW T, NEW chars \in Seq(T), NEW sep
  PROVE  \E parts \in [0..Len(chars) -> PartsOf(T)] :
           /\ parts[0] = << <<>> >>
           /\ \A n \in 1..Len(chars) : parts[n] = AddSymbol(parts[n - 1], chars[n], sep)
           /\ Split(chars, sep) = parts[Len(chars)]
<1> DEFINE N == Len(chars)
           step == [n \in 1..N |-> [p \in PartsOf(T) |-> AddSymbol(p, chars[n], sep)]]
           Rec(p) == [n \in 0..N |-> IF n = 0 THEN << <<>> >> ELSE AddSymbol(p[n - 1], chars[n], sep)]
           P == CHOOSE p : p = Rec(p)
<1>1. N \in Nat /\ \A n \in 1..N : chars[n] \in T  BY LenProperties, ElementOfSeq
<1>2. << <<>> >> \in PartsOf(T)  BY EmptySeq DEF PartsOf
<1>3. step \in [1..N -> [PartsOf(T) -> PartsOf(T)]]  BY <1>1, AddSymbolType
<1>4. \E f \in [0..N -> PartsOf(T)] : f[0] = << <<>> >> /\ \A n \in 1..N : f[n] = step[n][f[n - 1]]
  <2> DEFINE S == PartsOf(T)
             base == << <<>> >>
  <2>1. N \in Nat /\ base \in S /\ step \in [1..N -> [S -> S]]  BY <1>1, <1>2, <1>3
  <2> HIDE DEF step, N, S, base, P, Rec
  <2>2. \E f \in [0..N -> S] : f[0] = base /\ \A n \in 1..N : f[n] = step[n][f[n - 1]]  BY <2>1, Recursion
  <2> QED  BY <2>2 DEF S, base
<1>5. PICK f \in [0..N -> PartsOf(T)] : f[0] = << <<>> >> /\ \A n \in 1..N : f[n] = step[n][f[n - 1]]  BY <1>4
<1>6. \A n \in 1..N : f[n] = AddSymbol(f[n - 1], chars[n], sep)
  <2> TAKE n \in 1..N
  <2>1. n - 1 \in 0..N  BY <1>1
  <2> QED  BY <1>1, <1>5, <2>1
<1>7. f = Rec(f)
  <2>1. ASSUME NEW n \in 0..N PROVE f[n] = Rec(f)[n]
    <3>1. CASE n = 0  BY <1>5, <3>1
    <3>2. CASE n # 0
      <4>1. n \in 1..N  BY <1>1, <3>2
      <4> QED  BY <1>6, <3>2, <4>1
    <3> QED  BY <3>1, <3>2
  <2> QED  BY <2>1
<1>8. P = Rec(P)  BY <1>7
<1>9. Split(chars, sep) = P[N]  BY DEF Split
<1> HIDE DEF P
<1>10. ASSUME NEW n \in 0..N PROVE P[n] = IF n = 0 THEN << <<>> >> ELSE AddSymbol(P[n - 1], chars[n], sep)  BY <1>8
<1>11. \A n \in Nat : n \in {m \in Nat : m <= N => P[m] = f[m]}
  <2> DEFINE Same == {m \in Nat : m <= N => P[m] = f[m]}
  <2>1. 0 \in Same  BY <1>1, <1>5, <1>10
  <2>2. ASSUME NEW m \in Nat, m \in Same PROVE m + 1 \in Same
    <3> SUFFICES ASSUME m + 1 <= N PROVE P[m + 1] = f[m + 1]  OBVIOUS
    <3>1. m + 1 \in 0..N /\ m + 1 \in 1..N /\ m + 1 # 0 /\ (m + 1) - 1 = m /\ m <= N  BY <1>1
    <3> QED  BY <1>6, <1>10, <2>2, <3>1
  <2> HIDE DEF Same
  <2>3. \A n \in Nat : n \in Same  BY <2>1, <2>2, SetInduction
  <2> QED  BY <2>3 DEF Same
<1>12. P[N] = f[N]  BY <1>1, <1>11
<1> QED  BY <1>5, <1>6, <1>9, <1>12

\* str::split of the empty text yields one empty part.
LEMMA SplitEmpty == ASSUME NEW sep PROVE Split(<<>>, sep) = << <<>> >>
<1> DEFINE e == <<>>
<1>1. e \in Seq(STRING) /\ Len(e) = 0  BY EmptySeq
<1> HIDE DEF e
<1>2. PICK parts \in [0..Len(e) -> PartsOf(STRING)] :
         /\ parts[0] = << <<>> >>
         /\ \A n \in 1..Len(e) : parts[n] = AddSymbol(parts[n - 1], e[n], sep)
         /\ Split(e, sep) = parts[Len(e)]
  BY <1>1, SplitIs
<1> QED  BY <1>1, <1>2 DEF e

\* str::split yields at least one part.
LEMMA SplitType ==
  ASSUME NEW T, NEW t \in Seq(T), NEW sep
  PROVE  Split(t, sep) \in PartsOf(T)
<1>1. PICK parts \in [0..Len(t) -> PartsOf(T)] : Split(t, sep) = parts[Len(t)]  BY SplitIs
<1>2. Len(t) \in 0..Len(t)  BY LenProperties
<1> QED  BY <1>1, <1>2

\* One symbol more.
LEMMA SplitAppend ==
  ASSUME NEW T, NEW t \in Seq(T), NEW c \in T, NEW sep
  PROVE  Split(Append(t, c), sep) = AddSymbol(Split(t, sep), c, sep)
<1> DEFINE u == Append(t, c)
           N == Len(t)
<1>1. /\ u \in Seq(T) /\ Len(u) = N + 1 /\ u[N + 1] = c /\ N \in Nat
      /\ \A i \in 1..N : u[i] = t[i]
  BY AppendProperties, LenProperties
<1> HIDE DEF u
<1>2. PICK f \in [0..N -> PartsOf(T)] :
           /\ f[0] = << <<>> >>
           /\ \A n \in 1..N : f[n] = AddSymbol(f[n - 1], t[n], sep)
           /\ Split(t, sep) = f[N]
  BY SplitIs
<1>3. PICK g \in [0..Len(u) -> PartsOf(T)] :
           /\ g[0] = << <<>> >>
           /\ \A n \in 1..Len(u) : g[n] = AddSymbol(g[n - 1], u[n], sep)
           /\ Split(u, sep) = g[Len(u)]
  BY <1>1, SplitIs
<1> DEFINE Same == {m \in Nat : m <= N => f[m] = g[m]}
<1>4. 0 \in Same  BY <1>2, <1>3
<1>5. ASSUME NEW m \in Nat, m \in Same PROVE m + 1 \in Same
  <2> SUFFICES ASSUME m + 1 <= N PROVE f[m + 1] = g[m + 1]  OBVIOUS
  <2>1. m + 1 \in 1..N /\ m + 1 \in 1..Len(u) /\ (m + 1) - 1 = m /\ m <= N  BY <1>1
  <2>2. f[m + 1] = AddSymbol(f[m], t[m + 1], sep)  BY <1>2, <2>1
  <2>3. g[m + 1] = AddSymbol(g[m], u[m + 1], sep)  BY <1>3, <2>1
  <2> QED  BY <1>1, <1>5, <2>1, <2>2, <2>3
<1> HIDE DEF Same
<1>6. N \in Same  BY <1>1, <1>4, <1>5, SetInduction
<1>7. f[N] = g[N]  BY <1>1, <1>6 DEF Same
<1>8. g[N + 1] = AddSymbol(g[N], c, sep)
  <2>1. N + 1 \in 1..Len(u) /\ (N + 1) - 1 = N  BY <1>1
  <2> QED  BY <1>1, <1>3, <2>1
<1> QED  BY <1>1, <1>2, <1>3, <1>7, <1>8 DEF u

\* ... and a separator is one part more, where another symbol extends the last.
LEMMA AddSymbolIs ==
  ASSUME NEW T, NEW Q \in Seq(Seq(T)), NEW x \in Seq(T), NEW c \in T, NEW sep
  PROVE  AddSymbol(Append(Q, x), c, sep) =
           IF c = sep THEN Append(Append(Q, x), <<>>) ELSE Append(Q, Append(x, c))
<1> DEFINE P == Append(Q, x)
           R == Append(Q, Append(x, c))
           N == Len(Q)
<1>1. CASE c = sep  BY <1>1 DEF AddSymbol
<1>2. CASE c # sep
  <2>1. N \in Nat  BY LenProperties
  <2>2. P \in Seq(Seq(T)) /\ Len(P) = N + 1 /\ P[N + 1] = x /\ \A i \in 1..N : P[i] = Q[i]
    BY AppendProperties
  <2>3. Append(x, c) \in Seq(T)  BY AppendProperties
  <2>4. R \in Seq(Seq(T)) /\ Len(R) = N + 1 /\ R[N + 1] = Append(x, c) /\ \A i \in 1..N : R[i] = Q[i]
    BY <2>3, AppendProperties
  <2> DEFINE E == [P EXCEPT ![N + 1] = Append(x, c)]
  <2> HIDE DEF P, R
  <2>5. N + 1 \in 1..Len(P)  BY <2>1, <2>2
  <2>6. E \in Seq(Seq(T)) /\ Len(E) = N + 1 /\ \A j \in 1..(N + 1) : E[j] = IF j = N + 1 THEN Append(x, c) ELSE P[j]
    BY <2>2, <2>3, <2>5, ExceptSeq
  <2>7. ASSUME NEW i \in 1..(N + 1) PROVE E[i] = R[i]
    <3>1. i = N + 1 \/ i \in 1..N  BY <2>1
    <3> QED  BY <2>2, <2>4, <2>6, <3>1
  <2> HIDE DEF E
  <2>8. E = R  BY <2>1, <2>4, <2>6, <2>7, SeqEqual
  <2>9. AddSymbol(P, c, sep) = E
    <3>1. AddSymbol(P, c, sep) = [P EXCEPT ![Len(P)] = Append(P[Len(P)], c)]  BY <1>2 DEF AddSymbol
    <3> QED  BY <2>2, <3>1 DEF E
  <2> QED  BY <1>2, <2>8, <2>9 DEF P, R
<1> QED  BY <1>1, <1>2

-----------------------------------------------------------------------------

JoinedInSteps(T, parts, sep) ==
  \E f \in [0..Len(parts) -> Seq(T)] :
    /\ f[0] = <<>>
    /\ \A n \in 1..Len(parts) : f[n] = IF n = 1 THEN parts[1] ELSE AddPart(f[n - 1], parts[n], sep)
    /\ Joined(parts, sep) = f[Len(parts)]

\* Joined is the last of the texts of its first n parts.
LEMMA JoinedRecursion ==
  ASSUME NEW T, NEW parts, parts \in Seq(Seq(T)), NEW sep, sep \in T
  PROVE  JoinedInSteps(T, parts, sep)
<1> DEFINE N == Len(parts)
           step == [n \in 1..N |-> [x \in Seq(T) |-> IF n = 1 THEN parts[1] ELSE AddPart(x, parts[n], sep)]]
           Rec(p) == [n \in 0..N |-> IF n = 0 THEN <<>> ELSE IF n = 1 THEN parts[1]
                                     ELSE AddPart(p[n - 1], parts[n], sep)]
           P == CHOOSE p : p = Rec(p)
<1>1. N \in Nat /\ \A n \in 1..N : parts[n] \in Seq(T)  BY LenProperties, ElementOfSeq
<1>2. <<>> \in Seq(T)  BY EmptySeq
<1>3. step \in [1..N -> [Seq(T) -> Seq(T)]]
  <2>1. ASSUME NEW n \in 1..N, NEW x \in Seq(T) PROVE AddPart(x, parts[n], sep) \in Seq(T)
    <3>1. <<sep>> \in Seq(T) /\ parts[n] \in Seq(T)  BY <1>1
    <3>2. x \o <<sep>> \in Seq(T)  BY <3>1, ConcatProperties
    <3>3. (x \o <<sep>>) \o parts[n] \in Seq(T)  BY <3>1, <3>2, ConcatProperties
    <3> QED  BY <3>3 DEF AddPart
  <2> QED  BY <1>1, <2>1
<1>4. \E f \in [0..N -> Seq(T)] : f[0] = <<>> /\ \A n \in 1..N : f[n] = step[n][f[n - 1]]
  <2> DEFINE S == Seq(T)
             base == <<>>
  <2>1. N \in Nat  BY <1>1
  <2>2. base \in S  BY <1>2
  <2>3. step \in [1..N -> [S -> S]]  BY <1>3
  <2> HIDE DEF step, N, S, base, P, Rec
  <2>4. \E f \in [0..N -> S] : f[0] = base /\ \A n \in 1..N : f[n] = step[n][f[n - 1]]
    BY ONLY <2>1, <2>2, <2>3, Recursion
  <2> QED  BY <2>4 DEF S, base
<1>5. PICK f \in [0..N -> Seq(T)] : f[0] = <<>> /\ \A n \in 1..N : f[n] = step[n][f[n - 1]]  BY <1>4
<1>6. \A n \in 1..N : f[n] = IF n = 1 THEN parts[1] ELSE AddPart(f[n - 1], parts[n], sep)
  <2> TAKE n \in 1..N
  <2>1. n - 1 \in 0..N  BY <1>1
  <2> QED  BY <1>1, <1>5, <2>1
<1>7. f = Rec(f)
  <2>1. ASSUME NEW n \in 0..N PROVE f[n] = Rec(f)[n]
    <3>1. CASE n = 0  BY <1>5, <3>1
    <3>2. CASE n # 0
      <4>1. n \in 1..N  BY <1>1, <3>2
      <4> QED  BY <1>6, <3>2, <4>1
    <3> QED  BY <3>1, <3>2
  <2> QED  BY <2>1
<1>8. P = Rec(P)  BY <1>7
<1>9. Joined(parts, sep) = P[N]  BY DEF Joined
<1> HIDE DEF P
<1>10. ASSUME NEW n \in 0..N
       PROVE  P[n] = IF n = 0 THEN <<>> ELSE IF n = 1 THEN parts[1] ELSE AddPart(P[n - 1], parts[n], sep)
  BY <1>8
<1> DEFINE Same == {m \in Nat : m <= N => P[m] = f[m]}
<1>11. 0 \in Same  BY <1>1, <1>5, <1>10
<1>12. ASSUME NEW m \in Nat, m \in Same PROVE m + 1 \in Same
  <2> SUFFICES ASSUME m + 1 <= N PROVE P[m + 1] = f[m + 1]  OBVIOUS
  <2>1. m + 1 \in 0..N /\ m + 1 \in 1..N /\ m + 1 # 0 /\ (m + 1) - 1 = m /\ m <= N  BY <1>1
  <2> QED  BY <1>6, <1>10, <1>12, <2>1
<1> HIDE DEF Same
<1>13. N \in Same  BY <1>1, <1>11, <1>12, SetInduction
<1>14. P[N] = f[N]  BY <1>1, <1>13 DEF Same
<1> QED  BY <1>5, <1>6, <1>9, <1>14 DEF JoinedInSteps

\* The same, spelled out.
LEMMA JoinedIs ==
  ASSUME NEW T, NEW parts \in Seq(Seq(T)), NEW sep \in T
  PROVE  \E f \in [0..Len(parts) -> Seq(T)] :
           /\ f[0] = <<>>
           /\ \A n \in 1..Len(parts) : f[n] = IF n = 1 THEN parts[1] ELSE AddPart(f[n - 1], parts[n], sep)
           /\ Joined(parts, sep) = f[Len(parts)]
<1>1. JoinedInSteps(T, parts, sep)  BY JoinedRecursion
<1> QED  BY <1>1 DEF JoinedInSteps

\* What is joined is a text.
LEMMA JoinedType ==
  ASSUME NEW T, NEW parts \in Seq(Seq(T)), NEW sep \in T
  PROVE  Joined(parts, sep) \in Seq(T)
<1>1. PICK f \in [0..Len(parts) -> Seq(T)] : Joined(parts, sep) = f[Len(parts)]  BY JoinedIs
<1>2. Len(parts) \in 0..Len(parts)  BY LenProperties
<1> QED  BY <1>1, <1>2

\* One part joins to itself.
LEMMA JoinedOne ==
  ASSUME NEW T, NEW part \in Seq(T), NEW sep \in T
  PROVE  Joined(<<part>>, sep) = part
<1> DEFINE p == <<part>>
<1>1. p \in Seq(Seq(T)) /\ Len(p) = 1 /\ p[1] = part  OBVIOUS
<1> HIDE DEF p
<1>2. PICK f \in [0..Len(p) -> Seq(T)] :
         /\ f[0] = <<>>
         /\ \A n \in 1..Len(p) : f[n] = IF n = 1 THEN p[1] ELSE AddPart(f[n - 1], p[n], sep)
         /\ Joined(p, sep) = f[Len(p)]
  BY <1>1, JoinedIs
<1> QED  BY <1>1, <1>2 DEF p

\* One part more is added at the end.
LEMMA JoinedAppend ==
  ASSUME NEW T, NEW parts \in PartsOf(T), NEW part \in Seq(T), NEW sep \in T
  PROVE  Joined(Append(parts, part), sep) = AddPart(Joined(parts, sep), part, sep)
<1> DEFINE u == Append(parts, part)
           N == Len(parts)
<1>0. parts \in Seq(Seq(T)) /\ N \in Nat /\ N # 0  BY LenProperties, EmptySeq DEF PartsOf
<1>1. /\ u \in Seq(Seq(T)) /\ Len(u) = N + 1 /\ u[N + 1] = part
      /\ \A i \in 1..N : u[i] = parts[i]
  BY <1>0, AppendProperties
<1> HIDE DEF u
<1>2. PICK f \in [0..N -> Seq(T)] :
           /\ f[0] = <<>>
           /\ \A n \in 1..N : f[n] = IF n = 1 THEN parts[1] ELSE AddPart(f[n - 1], parts[n], sep)
           /\ Joined(parts, sep) = f[N]
  BY <1>0, JoinedIs
<1>3. PICK g \in [0..Len(u) -> Seq(T)] :
           /\ g[0] = <<>>
           /\ \A n \in 1..Len(u) : g[n] = IF n = 1 THEN u[1] ELSE AddPart(g[n - 1], u[n], sep)
           /\ Joined(u, sep) = g[Len(u)]
  BY <1>1, JoinedIs
<1> DEFINE Same == {m \in Nat : m <= N => f[m] = g[m]}
<1>4. 0 \in Same  BY <1>2, <1>3
<1>5. ASSUME NEW m \in Nat, m \in Same PROVE m + 1 \in Same
  <2> SUFFICES ASSUME m + 1 <= N PROVE f[m + 1] = g[m + 1]  OBVIOUS
  <2>1. m + 1 \in 1..N /\ m + 1 \in 1..Len(u) /\ (m + 1) - 1 = m /\ m <= N /\ 1 \in 1..N  BY <1>0, <1>1
  <2>2. f[m + 1] = IF m + 1 = 1 THEN parts[1] ELSE AddPart(f[m], parts[m + 1], sep)  BY <1>2, <2>1
  <2>3. g[m + 1] = IF m + 1 = 1 THEN u[1] ELSE AddPart(g[m], u[m + 1], sep)  BY <1>3, <2>1
  <2> QED  BY <1>1, <1>5, <2>1, <2>2, <2>3
<1> HIDE DEF Same
<1>6. N \in Same  BY <1>0, <1>4, <1>5, SetInduction
<1>7. f[N] = g[N]  BY <1>0, <1>6 DEF Same
<1>8. g[N + 1] = AddPart(g[N], part, sep)
  <2>1. N + 1 \in 1..Len(u) /\ (N + 1) - 1 = N /\ N + 1 # 1  BY <1>0, <1>1
  <2> QED  BY <1>1, <1>3, <2>1
<1> QED  BY <1>1, <1>2, <1>3, <1>7, <1>8 DEF u

-----------------------------------------------------------------------------

Without(part, sep) == \A i \in 1..Len(part) : part[i] # sep

\* The parts of a text hold no separator and join to the text.
LEMMA SplitJoins ==
  ASSUME NEW T, NEW sep \in T, NEW t \in Seq(T)
  PROVE  /\ Split(t, sep) \in PartsOf(T)
         /\ \A i \in 1..Len(Split(t, sep)) : Without(Split(t, sep)[i], sep)
         /\ Joined(Split(t, sep), sep) = t
<1> DEFINE Clean(P) == \A i \in 1..Len(P) : Without(P[i], sep)
           Good(u) == Clean(Split(u, sep)) /\ Joined(Split(u, sep), sep) = u
           Sizes == {n \in Nat : \A u \in Seq(T) : Len(u) = n => Good(u)}
<1>1. 0 \in Sizes
  <2> SUFFICES ASSUME NEW u \in Seq(T), Len(u) = 0 PROVE Good(u)  OBVIOUS
  <2>1. u = <<>> /\ <<>> \in Seq(T)  BY EmptySeq
  <2>2. Split(u, sep) = <<u>>  BY <2>1, SplitEmpty
  <2>3. Joined(<<u>>, sep) = u  BY JoinedOne
  <2>4. Clean(<<u>>)
    <3>1. Len(<<u>>) = 1 /\ <<u>>[1] = u  OBVIOUS
    <3>2. Without(u, sep)  BY DEF Without
    <3> QED  BY <3>1, <3>2
  <2> QED  BY <2>2, <2>3, <2>4
<1>2. ASSUME NEW n \in Nat, n \in Sizes PROVE n + 1 \in Sizes
  <2> SUFFICES ASSUME NEW u \in Seq(T), Len(u) = n + 1 PROVE Good(u)  OBVIOUS
  <2>0. u # <<>>  BY EmptySeq
  <2>1. PICK v \in Seq(T), c \in T : u = Append(v, c)  BY <2>0, SequenceEmptyOrAppend
  <2>2. Len(u) = Len(v) + 1 /\ Len(v) \in Nat  BY <2>1, AppendProperties, LenProperties
  <2>3. Good(v)
    <3>1. Len(v) = n  BY <2>2
    <3> QED  BY <1>2, <3>1
  <2> DEFINE P == Split(v, sep)
  <2>4. P \in Seq(Seq(T)) /\ P # <<>>  BY SplitType DEF PartsOf
  <2>5. Split(u, sep) = AddSymbol(P, c, sep)  BY <2>1, SplitAppend
  <2>6. Clean(P) /\ Joined(P, sep) = v  BY <2>3
  <2> HIDE DEF P
  <2>7. PICK Q \in Seq(Seq(T)), x \in Seq(T) : P = Append(Q, x)  BY <2>4, SequenceEmptyOrAppend
  <2>8. Len(P) = Len(Q) + 1 /\ P[Len(Q) + 1] = x /\ Len(Q) \in Nat /\ \A i \in 1..Len(Q) : P[i] = Q[i]
    BY <2>7, AppendProperties, LenProperties
  <2>9. Without(x, sep) /\ \A i \in 1..Len(Q) : Without(Q[i], sep)
    <3>1. Len(Q) + 1 \in 1..Len(P) /\ \A i \in 1..Len(Q) : i \in 1..Len(P)  BY <2>8
    <3> QED  BY <2>6, <2>8, <3>1
  <2>10. CASE c = sep
    <3>1. Split(u, sep) = Append(P, <<>>)  BY <2>5, <2>7, <2>10, AddSymbolIs
    <3>2. <<>> \in Seq(T) /\ P \in PartsOf(T) /\ Len(<<>>) = 0  BY <2>4, EmptySeq DEF PartsOf
    <3>3. Joined(Append(P, <<>>), sep) = v \o <<sep>> \o <<>>  BY <2>6, <3>2, JoinedAppend DEF AddPart
    <3>4. v \o <<sep>> = u /\ u \o <<>> = u  BY <2>1, <2>10, AppendIsConcat, ConcatEmptySeq
    <3> DEFINE R == Append(P, <<>>)
    <3>5. Len(R) = Len(P) + 1 /\ R[Len(P) + 1] = <<>> /\ \A i \in 1..Len(P) : R[i] = P[i]
      BY <2>4, <3>2, AppendProperties
    <3> HIDE DEF R
    <3>6. Clean(R)
      <4> TAKE i \in 1..Len(R)
      <4>1. CASE i \in 1..Len(P)  BY <2>6, <3>5, <4>1
      <4>2. CASE i = Len(P) + 1
        <5>1. R[i] = <<>>  BY <3>5, <4>2
        <5>2. Without(<<>>, sep)  BY <3>2 DEF Without
        <5> QED  BY <5>1, <5>2
      <4>3. i \in 1..Len(P) \/ i = Len(P) + 1  BY <2>8, <3>5
      <4> QED  BY <4>1, <4>2, <4>3
    <3> QED  BY <3>1, <3>3, <3>4, <3>6 DEF R
  <2>11. CASE c # sep
    <3> DEFINE y == Append(x, c)
               R == Append(Q, y)
    <3>1. y \in Seq(T) /\ Len(y) = Len(x) + 1 /\ y[Len(x) + 1] = c /\ Len(x) \in Nat /\ \A i \in 1..Len(x) : y[i] = x[i]
      BY AppendProperties, LenProperties
    <3>2. Split(u, sep) = R  BY <2>5, <2>7, <2>11, AddSymbolIs
    <3>3. y = x \o <<c>> /\ u = v \o <<c>>  BY <2>1, AppendIsConcat
    <3>4. Without(y, sep)
      <4> SUFFICES ASSUME NEW i \in 1..Len(y) PROVE y[i] # sep  BY DEF Without
      <4>1. i \in 1..Len(x) \/ i = Len(x) + 1  BY <3>1
      <4> QED  BY <2>9, <2>11, <3>1, <4>1 DEF Without
    <3> HIDE DEF y
    <3>5. Len(R) = Len(Q) + 1 /\ R[Len(Q) + 1] = y /\ \A i \in 1..Len(Q) : R[i] = Q[i]
      BY <3>1, AppendProperties
    <3>6. Clean(R)
      <4> HIDE DEF R
      <4> TAKE i \in 1..Len(R)
      <4>1. i \in 1..Len(Q) \/ i = Len(Q) + 1  BY <2>8, <3>5
      <4> QED  BY <2>9, <3>4, <3>5, <4>1
    <3>7. Joined(R, sep) = u
      <4>1. CASE Q = <<>>
        <5>1. R = <<y>> /\ P = <<x>>  BY <2>7, <4>1
        <5>2. Joined(R, sep) = y /\ Joined(P, sep) = x  BY <3>1, <5>1, JoinedOne
        <5> QED  BY <2>6, <3>3, <5>2
      <4>2. CASE Q # <<>>
        <5> DEFINE j == Joined(Q, sep)
                   js == j \o <<sep>>
        <5>1. Q \in PartsOf(T)  BY <4>2 DEF PartsOf
        <5>2. Joined(R, sep) = js \o y /\ Joined(P, sep) = js \o x  BY <2>7, <3>1, <5>1, JoinedAppend DEF AddPart
        <5>3. j \in Seq(T) /\ <<sep>> \in Seq(T)  BY JoinedType
        <5>4. js \in Seq(T)  BY <5>3, ConcatProperties
        <5> HIDE DEF j, js
        <5>5. js \o Append(x, c) = Append(js \o x, c)  BY <5>4, AppendConcat
        <5> QED  BY <2>1, <2>6, <5>2, <5>5 DEF y
      <4> QED  BY <4>1, <4>2
    <3> QED  BY <3>2, <3>6, <3>7
  <2> QED  BY <2>10, <2>11
<1> HIDE DEF Sizes
<1>3. Len(t) \in Sizes  BY <1>1, <1>2, SetInduction, LenProperties
<1>4. Good(t)  BY <1>3 DEF Sizes
<1> QED  BY <1>4, SplitType

\* A part after the last separator, and a text that has none.
LEMMA SplitLast ==
  ASSUME NEW T, NEW sep \in T, NEW s \in Seq(T), NEW u \in Seq(T), Without(u, sep)
  PROVE  Split(AddPart(s, u, sep), sep) = Append(Split(s, sep), u) /\ Split(u, sep) = <<u>>
<1> DEFINE b == s \o <<sep>>
           Good(v) == Split(b \o v, sep) = Append(Split(s, sep), v) /\ Split(v, sep) = <<v>>
           Sizes == {n \in Nat : \A v \in Seq(T) : Len(v) = n /\ Without(v, sep) => Good(v)}
<1>0. b \in Seq(T) /\ b = Append(s, sep) /\ Split(s, sep) \in Seq(Seq(T)) /\ Split(s, sep) # <<>>
  BY AppendIsConcat, AppendProperties, SplitType DEF PartsOf
<1> HIDE DEF b
<1>1. 0 \in Sizes
  <2> SUFFICES ASSUME NEW v \in Seq(T), Len(v) = 0 PROVE Good(v)  OBVIOUS
  <2>1. v = <<>>  BY EmptySeq
  <2>2. b \o v = b  BY <1>0, <2>1, ConcatEmptySeq
  <2>3. Split(b, sep) = AddSymbol(Split(s, sep), sep, sep)  BY <1>0, SplitAppend
  <2>4. AddSymbol(Split(s, sep), sep, sep) = Append(Split(s, sep), <<>>)  BY DEF AddSymbol
  <2> QED  BY <2>1, <2>2, <2>3, <2>4, SplitEmpty
<1>2. ASSUME NEW n \in Nat, n \in Sizes PROVE n + 1 \in Sizes
  <2> SUFFICES ASSUME NEW v \in Seq(T), Len(v) = n + 1, Without(v, sep) PROVE Good(v)  OBVIOUS
  <2>0. v # <<>>  BY EmptySeq
  <2>1. PICK w \in Seq(T), c \in T : v = Append(w, c)  BY <2>0, SequenceEmptyOrAppend
  <2>2. Len(v) = Len(w) + 1 /\ Len(w) \in Nat /\ v[Len(w) + 1] = c /\ \A i \in 1..Len(w) : v[i] = w[i]
    BY <2>1, AppendProperties, LenProperties
  <2>3. Len(w) = n /\ Without(w, sep) /\ c # sep
    <3>1. Len(w) + 1 \in 1..Len(v) /\ \A i \in 1..Len(w) : i \in 1..Len(v)  BY <2>2
    <3> QED  BY <2>2, <3>1 DEF Without
  <2>4. Good(w)  BY <1>2, <2>3
  <2>5. b \o v = Append(b \o w, c) /\ b \o w \in Seq(T)
    <3>1. b \o Append(w, c) = Append(b \o w, c)  BY <1>0, AppendConcat
    <3> QED  BY <1>0, <2>1, <3>1, ConcatProperties
  <2>6. Split(b \o v, sep) = AddSymbol(Append(Split(s, sep), w), c, sep)  BY <2>4, <2>5, SplitAppend
  <2>7. Split(v, sep) = AddSymbol(<<w>>, c, sep)  BY <2>1, <2>4, SplitAppend
  <2>8. AddSymbol(Append(Split(s, sep), w), c, sep) = Append(Split(s, sep), v)  BY <1>0, <2>1, <2>3, AddSymbolIs
  <2>9. AddSymbol(<<w>>, c, sep) = <<v>>
    <3>1. <<>> \in Seq(Seq(T)) /\ Append(<<>>, w) = <<w>> /\ Append(<<>>, v) = <<v>>  BY EmptySeq
    <3> DEFINE e == <<>>
    <3>2. e \in Seq(Seq(T))  BY <3>1
    <3> HIDE DEF e
    <3>3. AddSymbol(Append(e, w), c, sep) = Append(e, Append(w, c))  BY <2>3, <3>2, AddSymbolIs
    <3> QED  BY <2>1, <3>1, <3>3 DEF e
  <2> QED  BY <2>6, <2>7, <2>8, <2>9
<1> HIDE DEF Sizes
<1>3. Len(u) \in Sizes  BY <1>1, <1>2, SetInduction, LenProperties
<1>4. Good(u)  BY <1>3 DEF Sizes
<1> QED  BY <1>4 DEF b, AddPart

\* Parts without a separator are the parts of what they join to.
LEMMA JoinedSplits ==
  ASSUME NEW T, NEW sep \in T, NEW parts \in PartsOf(T), \A i \in 1..Len(parts) : Without(parts[i], sep)
  PROVE  Split(Joined(parts, sep), sep) = parts /\ Joined(parts, sep) \in Seq(T)
<1> DEFINE Clean(P) == \A i \in 1..Len(P) : Without(P[i], sep)
           Good(P) == Split(Joined(P, sep), sep) = P
           Sizes == {n \in Nat : \A P \in PartsOf(T) : Len(P) = n /\ Clean(P) => Good(P)}
<1>1. 0 \in Sizes
  <2> SUFFICES ASSUME NEW P \in PartsOf(T), Len(P) = 0 PROVE FALSE  OBVIOUS
  <2> QED  BY EmptySeq DEF PartsOf
<1>2. ASSUME NEW n \in Nat, n \in Sizes PROVE n + 1 \in Sizes
  <2> SUFFICES ASSUME NEW P \in PartsOf(T), Len(P) = n + 1, Clean(P) PROVE Good(P)  OBVIOUS
  <2>1. P \in Seq(Seq(T)) /\ P # <<>>  BY DEF PartsOf
  <2>2. PICK Q \in Seq(Seq(T)), x \in Seq(T) : P = Append(Q, x)  BY <2>1, SequenceEmptyOrAppend
  <2>3. Len(P) = Len(Q) + 1 /\ P[Len(Q) + 1] = x /\ Len(Q) \in Nat /\ \A i \in 1..Len(Q) : P[i] = Q[i]
    BY <2>2, AppendProperties, LenProperties
  <2>4. Without(x, sep) /\ Clean(Q)
    <3>1. Len(Q) + 1 \in 1..Len(P) /\ \A i \in 1..Len(Q) : i \in 1..Len(P)  BY <2>3
    <3> QED  BY <2>3, <3>1
  <2>5. CASE Q = <<>>
    <3>1. P = <<x>>  BY <2>2, <2>5
    <3>2. Joined(<<x>>, sep) = x  BY JoinedOne
    <3>3. Split(x, sep) = <<x>>  BY <2>4, SplitLast
    <3> QED  BY <3>1, <3>2, <3>3
  <2>6. CASE Q # <<>>
    <3>1. Q \in PartsOf(T)  BY <2>6 DEF PartsOf
    <3>2. Len(Q) = n  BY <2>3
    <3>3. Good(Q)  BY <1>2, <2>4, <3>1, <3>2
    <3>4. Joined(P, sep) = AddPart(Joined(Q, sep), x, sep)  BY <2>2, <3>1, JoinedAppend
    <3>5. Joined(Q, sep) \in Seq(T)  BY JoinedType
    <3>6. Split(AddPart(Joined(Q, sep), x, sep), sep) = Append(Split(Joined(Q, sep), sep), x)  BY <2>4, <3>5, SplitLast
    <3> QED  BY <2>2, <3>3, <3>4, <3>6
  <2> QED  BY <2>5, <2>6
<1>3. Len(parts) \in Nat /\ parts \in Seq(Seq(T))  BY LenProperties DEF PartsOf
<1> HIDE DEF Sizes
<1>4. Len(parts) \in Sizes  BY <1>1, <1>2, <1>3, SetInduction
<1>5. Good(parts)  BY <1>4 DEF Sizes
<1> QED  BY <1>3, <1>5, JoinedType

\* What follows a separator is split on its own.
LEMMA JoinedConcat ==
  ASSUME NEW T, NEW sep \in T, NEW P \in PartsOf(T), NEW Q \in PartsOf(T)
  PROVE  P \o Q \in PartsOf(T) /\ Joined(P \o Q, sep) = AddPart(Joined(P, sep), Joined(Q, sep), sep)
<1> DEFINE a == Joined(P, sep)
           Good(R) == Joined(P \o R, sep) = AddPart(a, Joined(R, sep), sep)
           Sizes == {n \in Nat : \A R \in PartsOf(T) : Len(R) = n => Good(R)}
<1>0. P \in Seq(Seq(T)) /\ P # <<>> /\ a \in Seq(T)  BY JoinedType DEF PartsOf
<1>1. ASSUME NEW R \in Seq(Seq(T)) PROVE P \o R \in PartsOf(T)
  <2>1. P \o R \in Seq(Seq(T))  BY <1>0, ConcatProperties
  <2>2. P \o R # <<>>  BY <1>0, ConcatEqualIffEmpty
  <2> QED  BY <2>1, <2>2 DEF PartsOf
<1>2. 0 \in Sizes
  <2> SUFFICES ASSUME NEW R \in PartsOf(T), Len(R) = 0 PROVE FALSE  OBVIOUS
  <2> QED  BY EmptySeq DEF PartsOf
<1>3. ASSUME NEW n \in Nat, n \in Sizes PROVE n + 1 \in Sizes
  <2> SUFFICES ASSUME NEW R \in PartsOf(T), Len(R) = n + 1 PROVE Good(R)  OBVIOUS
  <2>1. R \in Seq(Seq(T)) /\ R # <<>>  BY DEF PartsOf
  <2>2. PICK S \in Seq(Seq(T)), x \in Seq(T) : R = Append(S, x)  BY <2>1, SequenceEmptyOrAppend
  <2>3. Len(R) = Len(S) + 1 /\ Len(S) \in Nat  BY <2>2, AppendProperties, LenProperties
  <2>4. P \o R = Append(P \o S, x)  BY <1>0, <2>2, AppendConcat
  <2>5. CASE S = <<>>
    <3>1. R = <<x>> /\ Joined(R, sep) = x  BY <2>2, <2>5, JoinedOne
    <3>2. P \o S = P  BY <1>0, <2>5, ConcatEmptySeq
    <3>3. Joined(P \o R, sep) = AddPart(a, x, sep)  BY <2>4, <3>2, JoinedAppend
    <3> QED  BY <3>1, <3>3
  <2>6. CASE S # <<>>
    <3> DEFINE j == Joined(S, sep)
    <3>1. S \in PartsOf(T) /\ j \in Seq(T)  BY <2>6, JoinedType DEF PartsOf
    <3>2. Len(S) = n  BY <2>3
    <3>3. Joined(P \o S, sep) = AddPart(a, j, sep)  BY <1>3, <3>1, <3>2
    <3>4. Joined(R, sep) = AddPart(j, x, sep)  BY <2>2, <3>1, JoinedAppend
    <3>5. Joined(P \o R, sep) = AddPart(Joined(P \o S, sep), x, sep)  BY <1>1, <2>4, JoinedAppend
    <3>6. AddPart(AddPart(a, j, sep), x, sep) = AddPart(a, AddPart(j, x, sep), sep)
      <4> HIDE DEF a, j
      <4> QED  BY <1>0, <3>1, AddPartFacts
    <3> QED  BY <3>3, <3>4, <3>5, <3>6
  <2> QED  BY <2>5, <2>6
<1> HIDE DEF Sizes
<1>4. Q \in Seq(Seq(T)) /\ Len(Q) \in Nat  BY LenProperties DEF PartsOf
<1>5. Len(Q) \in Sizes  BY <1>2, <1>3, <1>4, SetInduction
<1>6. Good(Q)  BY <1>5 DEF Sizes
<1> QED  BY <1>1, <1>4, <1>6

\* A separator between two texts separates their parts.
LEMMA SplitConcat ==
  ASSUME NEW T, NEW sep \in T, NEW s \in Seq(T), NEW u \in Seq(T)
  PROVE  Split(AddPart(s, u, sep), sep) = Split(s, sep) \o Split(u, sep)
<1> DEFINE P == Split(s, sep)
           Q == Split(u, sep)
<1>1. /\ P \in PartsOf(T) /\ Q \in PartsOf(T) /\ Joined(P, sep) = s /\ Joined(Q, sep) = u
      /\ \A i \in 1..Len(P) : Without(P[i], sep)
      /\ \A i \in 1..Len(Q) : Without(Q[i], sep)
  BY SplitJoins
<1> HIDE DEF P, Q
<1>2. P \o Q \in PartsOf(T) /\ Joined(P \o Q, sep) = AddPart(s, u, sep)  BY <1>1, JoinedConcat
<1>3. ASSUME NEW i \in 1..Len(P \o Q) PROVE Without((P \o Q)[i], sep)
  <2>1. P \in Seq(Seq(T)) /\ Q \in Seq(Seq(T)) /\ Len(P) \in Nat /\ Len(Q) \in Nat  BY <1>1, LenProperties DEF PartsOf
  <2>2. /\ Len(P \o Q) = Len(P) + Len(Q)
        /\ \A k \in 1..(Len(P) + Len(Q)) : (P \o Q)[k] = IF k <= Len(P) THEN P[k] ELSE Q[k - Len(P)]
    BY <2>1, ConcatProperties
  <2>3. i \in 1..(Len(P) + Len(Q))  BY <2>2
  <2>4. CASE i <= Len(P)
    <3>1. i \in 1..Len(P) /\ (P \o Q)[i] = P[i]  BY <2>1, <2>2, <2>3, <2>4
    <3> QED  BY <1>1, <3>1
  <2>5. CASE ~(i <= Len(P))
    <3>1. i - Len(P) \in 1..Len(Q) /\ (P \o Q)[i] = Q[i - Len(P)]  BY <2>1, <2>2, <2>3, <2>5
    <3> QED  BY <1>1, <3>1
  <2> QED  BY <2>4, <2>5
<1>4. Split(Joined(P \o Q, sep), sep) = P \o Q  BY <1>2, <1>3, JoinedSplits
<1> QED  BY <1>2, <1>4 DEF P, Q

-----------------------------------------------------------------------------
(* Texts of strings, cut at one of their symbols.                            *)

\* A symbol is a string; the provers know it of none, so that the ones the
\* parsers look for are listed.
Symbol == STRING \cup {"/", ":", ".", ",", " ", "@", LBrace, RBrace, "-", "operations", "roles", "organizations", "projects",
                       "shippers", "sites", "shipments", "shipper", "site", "shipment"}
Text == Seq(Symbol)

\* A text is what stands before a symbol, the symbol, and what stands after it.
LEMMA Cut ==
  ASSUME NEW T, NEW s \in Seq(T), NEW i \in 1..Len(s)
  PROVE  /\ SubSeq(s, 1, i - 1) \in Seq(T) /\ Len(SubSeq(s, 1, i - 1)) = i - 1
         /\ \A j \in 1..(i - 1) : SubSeq(s, 1, i - 1)[j] = s[j]
         /\ SubSeq(s, i + 1, Len(s)) \in Seq(T) /\ Len(SubSeq(s, i + 1, Len(s))) = Len(s) - i
         /\ \A j \in 1..(Len(s) - i) : SubSeq(s, i + 1, Len(s))[j] = s[i + j]
         /\ s[i] \in T
         /\ s = AddPart(SubSeq(s, 1, i - 1), SubSeq(s, i + 1, Len(s)), s[i])
<1> DEFINE a == SubSeq(s, 1, i - 1)
           b == SubSeq(s, i + 1, Len(s))
           n == Len(s)
<1>1. n \in Nat /\ i \in Nat /\ 1 <= i /\ i <= n /\ \A j \in 1..n : s[j] \in T  BY LenProperties, ElementOfSeq
<1>2. a \in Seq(T) /\ Len(a) = i - 1 /\ \A j \in 1..(i - 1) : a[j] = s[j]
  <2>1. /\ SubSeq(s, 1, i - 1) \in Seq(T)
        /\ Len(SubSeq(s, 1, i - 1)) = IF 1 <= i - 1 THEN i - 1 - 1 + 1 ELSE 0
        /\ \A j \in 1..(i - 1 - 1 + 1) : SubSeq(s, 1, i - 1)[j] = s[1 + j - 1]
    <3>1. \A j \in 1..(i - 1) : s[j] \in T  BY <1>1
    <3>2. 1 \in Int /\ i - 1 \in Int  BY <1>1
    <3> QED  BY <3>1, <3>2, SubSeqProperties
  <2>2. \A j \in 1..(i - 1) : j \in 1..(i - 1 - 1 + 1) /\ 1 + j - 1 = j  BY <1>1
  <2> QED  BY <1>1, <2>1, <2>2
<1>3. b \in Seq(T) /\ Len(b) = n - i /\ \A j \in 1..(n - i) : b[j] = s[i + j]
  <2>1. /\ SubSeq(s, i + 1, n) \in Seq(T)
        /\ Len(SubSeq(s, i + 1, n)) = IF i + 1 <= n THEN n - (i + 1) + 1 ELSE 0
        /\ \A j \in 1..(n - (i + 1) + 1) : SubSeq(s, i + 1, n)[j] = s[(i + 1) + j - 1]
    <3>1. \A j \in (i + 1)..n : s[j] \in T  BY <1>1
    <3>2. i + 1 \in Int /\ n \in Int  BY <1>1
    <3> QED  BY <3>1, <3>2, SubSeqProperties
  <2>2. \A j \in 1..(n - i) : j \in 1..(n - (i + 1) + 1) /\ (i + 1) + j - 1 = i + j  BY <1>1
  <2> QED  BY <1>1, <2>1, <2>2
<1> HIDE DEF a, b
<1>4. s = AddPart(a, b, s[i])
  <2> DEFINE d == <<s[i]>>
             r == a \o d
  <2>1. d \in Seq(T) /\ Len(d) = 1 /\ d[1] = s[i]  BY <1>1
  <2> HIDE DEF d
  <2>2. r \in Seq(T) /\ Len(r) = i /\ \A k \in 1..i : r[k] = IF k <= i - 1 THEN a[k] ELSE d[k - (i - 1)]
    <3>1. /\ a \o d \in Seq(T) /\ Len(a \o d) = Len(a) + Len(d)
          /\ \A k \in 1..(Len(a) + Len(d)) : (a \o d)[k] = IF k <= Len(a) THEN a[k] ELSE d[k - Len(a)]
      BY <1>2, <2>1, ConcatProperties
    <3> QED  BY <1>1, <1>2, <2>1, <3>1
  <2> HIDE DEF r
  <2>3. r \o b \in Seq(T) /\ Len(r \o b) = n /\ \A k \in 1..n : (r \o b)[k] = IF k <= i THEN r[k] ELSE b[k - i]
    <3>1. Len(r) + Len(b) = n  BY <1>1, <1>3, <2>2
    <3>2. r \in Seq(T) /\ Len(r) = i  BY <2>2
    <3>3. /\ r \o b \in Seq(T) /\ Len(r \o b) = Len(r) + Len(b)
          /\ \A k \in 1..(Len(r) + Len(b)) : (r \o b)[k] = IF k <= Len(r) THEN r[k] ELSE b[k - Len(r)]
      BY <1>3, <3>2, ConcatProperties
    <3> QED  BY <3>1, <3>2, <3>3, Zenon
  <2>4. ASSUME NEW k \in 1..n PROVE (r \o b)[k] = s[k]
    <3>1. CASE k <= i - 1
      <4>1. k \in 1..i /\ k \in 1..(i - 1) /\ k <= i  BY <1>1, <3>1
      <4> QED  BY <1>2, <2>2, <2>3, <3>1, <4>1
    <3>2. CASE k = i
      <4>1. k \in 1..i /\ k - (i - 1) = 1 /\ ~(k <= i - 1) /\ k <= i  BY <1>1, <3>2
      <4> QED  BY <2>1, <2>2, <2>3, <3>2, <4>1
    <3>3. CASE k > i
      <4>1. k - i \in 1..(n - i) /\ i + (k - i) = k /\ ~(k <= i)  BY <1>1, <3>3
      <4> QED  BY <1>3, <2>3, <4>1
    <3>4. k <= i - 1 \/ k = i \/ k > i  BY <1>1
    <3> QED  BY <3>1, <3>2, <3>3, <3>4
  <2>5. r \o b = s  BY <2>3, <2>4, SeqEqual
  <2> QED  BY <2>5 DEF AddPart, r, d
<1> QED  BY <1>1, <1>2, <1>3, <1>4 DEF a, b

FirstAt(s, sep) == SelectInSeq(s, LAMBDA c : c = sep)

\* The first symbol of a kind, and what stands before it.
LEMMA First ==
  ASSUME NEW s \in Text, NEW sep \in Symbol, Contains(s, sep)
  PROVE  LET i == FirstAt(s, sep)
         IN  /\ i \in 1..Len(s) /\ s[i] = sep /\ Without(SubSeq(s, 1, i - 1), sep)
             /\ s = AddPart(SubSeq(s, 1, i - 1), SubSeq(s, i + 1, Len(s)), sep)
             /\ Split(s, sep)[1] = SubSeq(s, 1, i - 1)
<1> DEFINE I == {k \in 1..Len(s) : s[k] = sep}
           i == Min(I)
           a == SubSeq(s, 1, i - 1)
           b == SubSeq(s, i + 1, Len(s))
<1>0. Len(s) \in Nat  BY LenProperties DEF Text
<1>1. I # {} /\ I \in SUBSET Nat
  <2>1. PICK k \in 1..Len(s) : s[k] = sep  BY DEF Contains
  <2>2. k \in I  BY <2>1
  <2>3. \A h \in 1..Len(s) : h \in Nat  BY <1>0
  <2> QED  BY <2>2, <2>3
<1>2. FirstAt(s, sep) = i  BY <1>1 DEF FirstAt, SelectInSeq
<1>3. i \in I /\ \A k \in I : i <= k  BY <1>1, LeastElement
<1>4. i \in 1..Len(s) /\ s[i] = sep  BY <1>3
<1> HIDE DEF i
<1>5. /\ a \in Text /\ b \in Text /\ Len(a) = i - 1 /\ \A j \in 1..(i - 1) : a[j] = s[j]
      /\ s = AddPart(a, b, sep)
  BY <1>4, Cut DEF Text
<1>6. Without(a, sep)
  <2> SUFFICES ASSUME NEW j \in 1..Len(a), s[j] = sep PROVE FALSE  BY <1>5 DEF Without
  <2>1. j \in 1..Len(s) /\ ~(i <= j)  BY <1>4, <1>5, LenProperties DEF Text
  <2> QED  BY <1>3, <2>1
<1>7. Split(s, sep)[1] = a
  <2> HIDE DEF a, b
  <2>1. Split(a, sep) = <<a>>  BY <1>5, <1>6, SplitLast DEF Text
  <2>2. Split(s, sep) = <<a>> \o Split(b, sep)  BY <1>5, <2>1, SplitConcat DEF Text
  <2> DEFINE P == <<a>>
             Q == Split(b, sep)
  <2>3. P \in Seq(Text) /\ Len(P) = 1 /\ P[1] = a  BY <1>5
  <2>4. Q \in Seq(Text) /\ Len(Q) \in Nat  BY <1>5, SplitType, LenProperties DEF PartsOf, Text
  <2> HIDE DEF P, Q
  <2>5. (P \o Q)[1] = P[1]
    <3>1. 1 \in 1..(Len(P) + Len(Q)) /\ 1 <= Len(P)  BY <2>3, <2>4
    <3> QED  BY <2>3, <2>4, <3>1, ConcatProperties
  <2> QED  BY <2>2, <2>3, <2>5 DEF P, Q
<1> QED  BY <1>2, <1>4, <1>5, <1>6, <1>7

\* The text of two parts and of four, and a text by its last part.
LEMMA JoinedFew ==
  ASSUME NEW T, NEW sep \in T, NEW p \in Seq(Seq(T))
  PROVE  /\ Len(p) = 2 => Joined(p, sep) = AddPart(p[1], p[2], sep)
         /\ Len(p) = 4 => Joined(p, sep) = AddPart(AddPart(AddPart(p[1], p[2], sep), p[3], sep), p[4], sep)
         /\ Len(p) > 1 => \E a \in Seq(T) : Joined(p, sep) = AddPart(a, p[Len(p)], sep)
<1>1. PICK f \in [0..Len(p) -> Seq(T)] :
         /\ f[0] = <<>>
         /\ \A n \in 1..Len(p) : f[n] = IF n = 1 THEN p[1] ELSE AddPart(f[n - 1], p[n], sep)
         /\ Joined(p, sep) = f[Len(p)]
  BY JoinedIs
<1>2. Len(p) \in Nat  BY LenProperties
<1>3. ASSUME Len(p) = 2 PROVE Joined(p, sep) = AddPart(p[1], p[2], sep)
  <2>1. f[1] = p[1] /\ f[2] = AddPart(f[1], p[2], sep)
    <3>1. 1 \in 1..Len(p) /\ 2 \in 1..Len(p)  BY <1>3
    <3> QED  BY <1>1, <3>1
  <2> QED  BY <1>1, <1>3, <2>1
<1>4. ASSUME Len(p) = 4
      PROVE  Joined(p, sep) = AddPart(AddPart(AddPart(p[1], p[2], sep), p[3], sep), p[4], sep)
  <2>1. 1 \in 1..Len(p) /\ 2 \in 1..Len(p) /\ 3 \in 1..Len(p) /\ 4 \in 1..Len(p)  BY <1>4
  <2>2. f[1] = p[1] /\ f[2] = AddPart(f[1], p[2], sep)  BY <1>1, <2>1
  <2>3. f[3] = AddPart(f[2], p[3], sep) /\ f[4] = AddPart(f[3], p[4], sep)  BY <1>1, <2>1
  <2> QED  BY <1>1, <1>4, <2>2, <2>3
<1>5. ASSUME Len(p) > 1 PROVE \E a \in Seq(T) : Joined(p, sep) = AddPart(a, p[Len(p)], sep)
  <2> DEFINE n == Len(p)
  <2>0. n \in Nat /\ n > 1  BY <1>2, <1>5
  <2>1. n \in 1..n /\ n # 1 /\ n - 1 \in 0..n
    <3> HIDE DEF n
    <3> QED  BY <2>0
  <2>2. f[n - 1] \in Seq(T) /\ f[n] = AddPart(f[n - 1], p[n], sep)  BY <1>1, <2>1
  <2>3. \E a \in Seq(T) : Joined(p, sep) = AddPart(a, p[Len(p)], sep)  BY <1>1, <2>2
  <2> QED  BY <2>3
<1> QED  BY <1>3, <1>4, <1>5

\* A text begins with the first of the texts it is made of.
LEMMA PrefixConcat ==
  ASSUME NEW T, NEW x \in Seq(T), NEW y \in Seq(T)
  PROVE  IsPrefix(x, x \o y)
<1> DEFINE z == x \o y
<1>1. /\ z \in Seq(T) /\ Len(z) = Len(x) + Len(y)
      /\ \A i \in 1..(Len(x) + Len(y)) : z[i] = IF i <= Len(x) THEN x[i] ELSE y[i - Len(x)]
  BY ConcatProperties
<1>2. Len(x) \in Nat /\ Len(y) \in Nat  BY LenProperties
<1> HIDE DEF z
<1>3. Len(x) <= Len(z) /\ \A i \in 1..Len(x) : z[i] = x[i] /\ x[i] \in T  BY <1>1, <1>2, ElementOfSeq
<1> DEFINE m == Len(x)
           u == SubSeq(x, 1, m)
           v == SubSeq(z, 1, m)
<1>4. /\ u \in Seq(T) /\ Len(u) = IF 1 <= m THEN m - 1 + 1 ELSE 0
      /\ \A i \in 1..(m - 1 + 1) : u[i] = x[1 + i - 1]
  <2>1. 1 \in Int /\ m \in Int /\ \A i \in 1..m : x[i] \in T  BY <1>2, <1>3
  <2> HIDE DEF m
  <2> QED  BY <2>1, SubSeqProperties
<1>5. /\ v \in Seq(T) /\ Len(v) = IF 1 <= m THEN m - 1 + 1 ELSE 0
      /\ \A i \in 1..(m - 1 + 1) : v[i] = z[1 + i - 1]
  <2>1. 1 \in Int /\ m \in Int /\ \A i \in 1..m : z[i] \in T  BY <1>2, <1>3
  <2> HIDE DEF m
  <2> QED  BY <2>1, SubSeqProperties
<1> HIDE DEF u, v
<1>6. Len(u) = m /\ Len(v) = m /\ \A i \in 1..m : u[i] = x[i] /\ v[i] = z[i]
  <2>1. \A i \in 1..m : i \in 1..(m - 1 + 1) /\ 1 + i - 1 = i  BY <1>2
  <2> QED  BY <1>2, <1>4, <1>5, <2>1
<1>7. u = v
  <2>1. \A i \in 1..Len(u) : u[i] = v[i]  BY <1>3, <1>6
  <2> QED  BY <1>4, <1>5, <1>6, <2>1, SeqEqual
<1> QED  BY <1>3, <1>7 DEF IsPrefix, u, v, z

\* ... and ends with the last.
LEMMA SuffixConcat ==
  ASSUME NEW T, NEW x \in Seq(T), NEW y \in Seq(T)
  PROVE  IsSuffix(y, x \o y)
<1> DEFINE z == x \o y
           m == Len(x)
           n == Len(y)
           rx == Reverse(x)
           ry == Reverse(y)
           rz == Reverse(z)
<1>1. z \in Seq(T) /\ Len(z) = m + n /\ \A i \in 1..(m + n) : z[i] = IF i <= m THEN x[i] ELSE y[i - m]
  BY ConcatProperties
<1>2. m \in Nat /\ n \in Nat /\ (\A i \in 1..m : x[i] \in T) /\ \A i \in 1..n : y[i] \in T
  BY LenProperties, ElementOfSeq
<1> HIDE DEF z
<1>3. rx \in Seq(T) /\ Len(rx) = m /\ \A i \in 1..m : rx[i] = x[(m - i) + 1]
  <2>1. \A i \in 1..m : (m - i) + 1 \in 1..m  BY <1>2
  <2>2. rx \in [1..m -> T]  BY <1>2, <2>1 DEF Reverse
  <2>3. \A i \in 1..m : rx[i] = x[(m - i) + 1]  BY DEF Reverse
  <2> HIDE DEF rx, m
  <2> QED  BY <1>2, <2>2, <2>3
<1>4. ry \in Seq(T) /\ Len(ry) = n /\ \A i \in 1..n : ry[i] = y[(n - i) + 1]
  <2>1. \A i \in 1..n : (n - i) + 1 \in 1..n  BY <1>2
  <2>2. ry \in [1..n -> T]  BY <1>2, <2>1 DEF Reverse
  <2>3. \A i \in 1..n : ry[i] = y[(n - i) + 1]  BY DEF Reverse
  <2> HIDE DEF ry, n
  <2> QED  BY <1>2, <2>2, <2>3
<1>5. rz \in Seq(T) /\ Len(rz) = m + n /\ \A i \in 1..(m + n) : rz[i] = z[(m + n - i) + 1]
  <2> DEFINE l == m + n
  <2>0. l \in Nat /\ Len(z) = l  BY <1>1, <1>2
  <2>1. \A i \in 1..l : (l - i) + 1 \in 1..l /\ z[i] \in T  BY <1>1, <2>0, ElementOfSeq
  <2>2. rz \in [1..l -> T]
    <3> HIDE DEF l
    <3> QED  BY <2>0, <2>1 DEF Reverse
  <2>3. \A i \in 1..l : rz[i] = z[(l - i) + 1]
    <3> HIDE DEF l
    <3> QED  BY <2>0 DEF Reverse
  <2> HIDE DEF rz, l
  <2>4. rz \in Seq(T) /\ Len(rz) = l  BY <2>0, <2>2
  <2> QED  BY <2>0, <2>3, <2>4 DEF l
<1> HIDE DEF rx, ry, rz
<1>6. rz = ry \o rx
  <2> DEFINE w == ry \o rx
  <2>1. w \in Seq(T) /\ Len(w) = n + m /\ \A i \in 1..(n + m) : w[i] = IF i <= n THEN ry[i] ELSE rx[i - n]
    <3>0. ry \in Seq(T) /\ rx \in Seq(T)  BY <1>3, <1>4
    <3>1. /\ ry \o rx \in Seq(T) /\ Len(ry \o rx) = Len(ry) + Len(rx)
          /\ \A i \in 1..(Len(ry) + Len(rx)) : (ry \o rx)[i] = IF i <= Len(ry) THEN ry[i] ELSE rx[i - Len(ry)]
      BY <3>0, ConcatProperties
    <3> QED  BY <1>3, <1>4, <3>1
  <2> HIDE DEF w
  <2>2. ASSUME NEW i \in 1..(m + n) PROVE rz[i] = w[i]
    <3>1. CASE i <= n
      <4>1. i \in 1..n /\ i \in 1..(n + m) /\ (m + n - i) + 1 \in 1..(m + n) /\ ~((m + n - i) + 1 <= m)
            /\ ((m + n - i) + 1) - m = (n - i) + 1
        BY <1>2, <3>1
      <4> QED  BY <1>1, <1>4, <1>5, <2>1, <3>1, <4>1
    <3>2. CASE ~(i <= n)
      <4>1. i - n \in 1..m /\ i \in 1..(n + m) /\ (m + n - i) + 1 \in 1..(m + n) /\ (m + n - i) + 1 <= m
            /\ (m - (i - n)) + 1 = (m + n - i) + 1
        BY <1>2, <3>2
      <4> QED  BY <1>1, <1>3, <1>5, <2>1, <3>2, <4>1
    <3> QED  BY <3>1, <3>2
  <2>3. Len(rz) = Len(w) /\ \A i \in 1..Len(rz) : rz[i] = w[i]  BY <1>2, <1>5, <2>1, <2>2
  <2>4. rz = w  BY <1>5, <2>1, <2>3, SeqEqual
  <2> QED  BY <2>4 DEF w
<1>7. IsPrefix(ry, ry \o rx)  BY <1>3, <1>4, PrefixConcat
<1>8. IsSuffix(y, z)  BY <1>6, <1>7 DEF IsSuffix, ry, rz
<1>9. z = x \o y  BY DEF z
<1> QED  BY <1>8, <1>9

\* IsPrefix, symbol by symbol.
LEMMA PrefixIs ==
  ASSUME NEW T, NEW p \in Seq(T), NEW s \in Seq(T)
  PROVE  IsPrefix(p, s) <=> Len(p) <= Len(s) /\ \A k \in 1..Len(p) : p[k] = s[k]
<1> DEFINE m == Len(p)
           n == Len(s)
           x == SubSeq(p, 1, m)
           y == SubSeq(s, 1, m)
<1>1. m \in Nat /\ n \in Nat /\ (\A k \in 1..m : p[k] \in T) /\ \A k \in 1..n : s[k] \in T
  BY LenProperties, ElementOfSeq
<1> SUFFICES ASSUME m <= n PROVE x = y <=> \A k \in 1..m : p[k] = s[k]  BY DEF IsPrefix
<1>2. x \in Seq(T) /\ Len(x) = m /\ \A k \in 1..m : x[k] = p[k]
  <2> HIDE DEF m
  <2>1. 1 \in Int /\ m \in Int  BY <1>1
  <2>2. /\ x \in Seq(T) /\ Len(x) = IF 1 <= m THEN m - 1 + 1 ELSE 0
        /\ \A k \in 1..(m - 1 + 1) : x[k] = p[1 + k - 1]
    BY <1>1, <2>1, SubSeqProperties
  <2>3. \A k \in 1..m : k \in 1..(m - 1 + 1) /\ 1 + k - 1 = k  BY <1>1
  <2> HIDE DEF x
  <2> QED  BY <1>1, <2>2, <2>3
<1>3. y \in Seq(T) /\ Len(y) = m /\ \A k \in 1..m : y[k] = s[k]
  <2> HIDE DEF m
  <2>0. \A k \in 1..m : s[k] \in T  BY <1>1
  <2>1. 1 \in Int /\ m \in Int  BY <1>1
  <2>2. /\ y \in Seq(T) /\ Len(y) = IF 1 <= m THEN m - 1 + 1 ELSE 0
        /\ \A k \in 1..(m - 1 + 1) : y[k] = s[1 + k - 1]
    BY <2>0, <2>1, SubSeqProperties
  <2>3. \A k \in 1..m : k \in 1..(m - 1 + 1) /\ 1 + k - 1 = k  BY <1>1
  <2> HIDE DEF y
  <2> QED  BY <1>1, <2>2, <2>3
<1> HIDE DEF x, y
<1>4. ASSUME x = y PROVE \A k \in 1..m : p[k] = s[k]  BY <1>2, <1>3, <1>4
<1>5. ASSUME \A k \in 1..m : p[k] = s[k] PROVE x = y
  <2>1. \A k \in 1..m : x[k] = y[k]  BY <1>2, <1>3, <1>5
  <2> HIDE DEF m
  <2> QED  BY <1>2, <1>3, <2>1, SeqEqual
<1> QED  BY <1>4, <1>5

\* The slashes a text starts with.
Slash(s) == s # <<>> /\ s[1] = "/"
TwoSlashes(s) == Len(s) > 1 /\ s[1] = "/" /\ s[2] = "/"

\* What the scanner skips: nothing, a slash, or two slashes and the service.
LEMMA LeadIs ==
  ASSUME NEW s \in Text
  PROVE  /\ IsPrefix(<<"/">>, s) <=> Slash(s)
         /\ IsPrefix(<<"/", "/">>, s) <=> TwoSlashes(s)
         /\ Lead(s) = IF TwoSlashes(s) THEN 3 ELSE IF Slash(s) THEN 1 ELSE 0
<1>0. "/" \in Symbol /\ Len(s) \in Nat /\ (s # <<>> <=> Len(s) >= 1)
  <2>1. "/" \in Symbol  BY DEF Symbol
  <2>2. Len(s) \in Nat /\ (s # <<>> <=> Len(s) >= 1)  BY EmptySeq, LenProperties DEF Text
  <2> QED  BY <2>1, <2>2
<1>1. IsPrefix(<<"/">>, s) <=> Slash(s)
  <2> DEFINE a == <<"/">>
  <2>1. a \in Seq(Symbol) /\ Len(a) = 1 /\ a[1] = "/"  BY <1>0
  <2> HIDE DEF a
  <2>2. IsPrefix(a, s) <=> Len(a) <= Len(s) /\ \A k \in 1..Len(a) : a[k] = s[k]  BY <2>1, PrefixIs DEF Text
  <2>3. IsPrefix(a, s) <=> 1 <= Len(s) /\ s[1] = "/"  BY <2>1, <2>2
  <2> QED  BY <1>0, <2>3 DEF Slash, a
<1>2. IsPrefix(<<"/", "/">>, s) <=> TwoSlashes(s)
  <2> DEFINE a == <<"/", "/">>
  <2>1. a \in Seq(Symbol) /\ Len(a) = 2 /\ a[1] = "/" /\ a[2] = "/"  BY <1>0
  <2> HIDE DEF a
  <2>2. IsPrefix(a, s) <=> Len(a) <= Len(s) /\ \A k \in 1..Len(a) : a[k] = s[k]  BY <2>1, PrefixIs DEF Text
  <2>3. IsPrefix(a, s) <=> 2 <= Len(s) /\ s[1] = "/" /\ s[2] = "/"  BY <2>1, <2>2
  <2> QED  BY <1>0, <2>3 DEF TwoSlashes, a
<1>3. CASE IsPrefix(<<"/", "/">>, s)
  <2>1. Lead(s) = 3  BY <1>3 DEF Lead
  <2> QED  BY <1>1, <1>2, <1>3, <2>1
<1>4. CASE ~IsPrefix(<<"/", "/">>, s) /\ IsPrefix(<<"/">>, s)
  <2>1. Lead(s) = 1  BY <1>4 DEF Lead
  <2> QED  BY <1>1, <1>2, <1>4, <2>1
<1>5. CASE ~IsPrefix(<<"/", "/">>, s) /\ ~IsPrefix(<<"/">>, s)
  <2>1. Lead(s) = 0  BY <1>5 DEF Lead
  <2> QED  BY <1>1, <1>2, <1>5, <2>1
<1> QED  BY <1>3, <1>4, <1>5

\* The fields of a scan.
LEMMA ScanIs ==
  ASSUME NEW parts, NEW lead, parts # << <<>> >>
  PROVE  /\ ScanParts(parts, lead).full = (lead = 3)
         /\ ScanParts(parts, lead).lead = lead
         /\ ScanParts(parts, lead).parts = parts
         /\ ScanParts(parts, lead).segments = SubSeq(parts, lead + 1, Len(parts))
<1> DEFINE g == IF lead = 3 THEN parts[3] ELSE <<>>
           h == SubSeq(parts, lead + 1, Len(parts))
           f == (lead = 3)
<1>1. ScanParts(parts, lead) = [full |-> f, service |-> g, lead |-> lead, parts |-> parts, segments |-> h]
  BY DEF ScanParts
<1> HIDE DEF f, g, h
<1>2. /\ ScanParts(parts, lead).full = f /\ ScanParts(parts, lead).lead = lead
      /\ ScanParts(parts, lead).parts = parts /\ ScanParts(parts, lead).segments = h
  BY <1>1
<1> QED  BY <1>2 DEF f, h

\* The segments of a name are its parts after the lead.
LEMMA SegmentsAre ==
  ASSUME NEW s \in Text, s # <<>>
  PROVE  /\ Scan(s).full = TwoSlashes(s)
         /\ Scan(s).lead = Lead(s)
         /\ Scan(s).parts = Split(s, "/")
         /\ NameSegments(s) = SubSeq(Split(s, "/"), Lead(s) + 1, Len(Split(s, "/")))
<1> DEFINE parts == Split(s, "/")
           lead == Lead(s)
<1>1. parts # << <<>> >>
  <2> SUFFICES ASSUME parts = << <<>> >> PROVE FALSE  OBVIOUS
  <2>1. "/" \in Symbol /\ <<>> \in Seq(Symbol)  BY DEF Symbol
  <2>2. Joined(<< <<>> >>, "/") = <<>>  BY <2>1, JoinedOne
  <2>3. Joined(parts, "/") = s  BY <2>1, SplitJoins DEF Text
  <2> QED  BY <2>2, <2>3
<1>2. lead = 3 <=> TwoSlashes(s)  BY LeadIs
<1> HIDE DEF parts, lead
<1>3. Scan(s) = ScanParts(parts, lead)  BY DEF Scan, parts, lead
<1>4. ScanParts(parts, lead).full = (lead = 3) /\ ScanParts(parts, lead).lead = lead
      /\ ScanParts(parts, lead).parts = parts /\ ScanParts(parts, lead).segments = SubSeq(parts, lead + 1, Len(parts))
  BY <1>1, ScanIs
<1>5. Scan(s).full = TwoSlashes(s)
  <2>1. TwoSlashes(s) \in BOOLEAN  BY DEF TwoSlashes
  <2> QED  BY <1>2, <1>3, <1>4, <2>1
<1> QED  BY <1>3, <1>4, <1>5 DEF NameSegments, parts, lead

-----------------------------------------------------------------------------
(* The texts of aip-iam, aip-lro, aip-ordering and aip-reflect.              *)

\* The two ways in which a text is a member.
LEMMA MemberParses ==
  ASSUME NEW s \in Text, ParseMember(s).ok
  PROVE  \/ \E e \in Everyone : s = <<e>> /\ ParseMember(s) = Ok([kind |-> s[1], value |-> <<>>])
         \/ /\ Contains(s, ":") /\ s \notin {<<e>> : e \in Everyone}
            /\ \E k \in MemberKinds : Split(s, ":")[1] = <<k>> /\ ParseMember(s) = Ok([kind |-> k, value |-> MemberValue(s)])
<1> DEFINE k == Split(s, ":")[1]
           v == MemberValue(s)
<1>1. CASE s = <<>> 
  <2>1. ParseMember(s) = Err("MemberEmpty")  BY <1>1 DEF ParseMember
  <2> QED  BY <2>1 DEF Err
<1>2. CASE s # <<>> /\ s \in {<<e>> : e \in Everyone}
  <2>1. ParseMember(s) = Ok([kind |-> s[1], value |-> <<>>])  BY <1>2 DEF ParseMember
  <2> QED  BY <1>2, <2>1
<1>3. CASE s # <<>> /\ s \notin {<<e>> : e \in Everyone}
  <2>1. CASE ~Contains(s, ":")
    <3>1. ParseMember(s) = Err("MemberUnknownType")  BY <1>3, <2>1 DEF ParseMember
    <3> QED  BY <3>1 DEF Err
  <2>2. CASE Contains(s, ":") /\ v = <<>>
    <3>1. ParseMember(s) = Err("MemberEmptyValue")  BY <1>3, <2>2 DEF ParseMember
    <3> QED  BY <3>1 DEF Err
  <2>3. CASE Contains(s, ":") /\ v # <<>>
    <3>1. ParseMember(s) = IF k \in {<<q>> : q \in MemberKinds} THEN Ok([kind |-> k[1], value |-> v])
                                                             ELSE Err("MemberUnknownType")
      BY <1>3, <2>3 DEF ParseMember
    <3> HIDE DEF k, v
    <3>2. k \in {<<q>> : q \in MemberKinds}  BY <3>1 DEF Err
    <3>3. PICK q \in MemberKinds : k = <<q>>  BY <3>2
    <3> QED  BY <1>3, <2>3, <3>1, <3>2, <3>3 DEF k, v
  <2> QED  BY <2>1, <2>2, <2>3
<1> QED  BY <1>1, <1>2, <1>3

\* Member: what from_str accepts, Display prints; and a grant admits who it names.
LEMMA MemberPrints ==
  ASSUME NEW s \in Text, ParseMember(s).ok
  PROVE  /\ PrintMember(ParseMember(s).value) = s
         /\ GrantAdmits(s, <<ParseMember(s).value>>)
         /\ GrantAdmits(s, <<>>) = (s = <<"allUsers">>)
<1> DEFINE m == ParseMember(s).value
           i == FirstAt(s, ":")
<1>1. PrintMember(m) = s
  <2>1. CASE \E e \in Everyone : s = <<e>> /\ ParseMember(s) = Ok([kind |-> s[1], value |-> <<>>])
    <3>1. PICK e \in Everyone : s = <<e>> /\ ParseMember(s) = Ok([kind |-> s[1], value |-> <<>>])  BY <2>1
    <3>2. s[1] = e /\ m = [kind |-> s[1], value |-> <<>>]  BY <3>1 DEF Ok
    <3>3. m.kind = e  BY <3>2
    <3> HIDE DEF m
    <3> QED  BY <3>1, <3>3 DEF PrintMember
  <2>2. CASE /\ Contains(s, ":") /\ s \notin {<<e>> : e \in Everyone}
             /\ \E k \in MemberKinds : Split(s, ":")[1] = <<k>> /\ ParseMember(s) = Ok([kind |-> k, value |-> MemberValue(s)])
    <3>1. PICK k \in MemberKinds : Split(s, ":")[1] = <<k>> /\ ParseMember(s) = Ok([kind |-> k, value |-> MemberValue(s)])
      BY <2>2
    <3>2. m = [kind |-> k, value |-> MemberValue(s)]  BY <3>1 DEF Ok
    <3>3. m.kind = k /\ m.value = MemberValue(s) /\ k \notin Everyone  BY <3>2 DEF MemberKinds, Everyone
    <3> DEFINE a == SubSeq(s, 1, i - 1)
               b == SubSeq(s, i + 1, Len(s))
    <3>4. i \in 1..Len(s) /\ s = AddPart(a, b, ":") /\ Split(s, ":")[1] = a
      <4>1. Contains(s, ":")  BY <2>2
      <4>2. ":" \in Symbol  BY DEF Symbol
      <4> QED  BY <4>1, <4>2, First
    <3>5. b \in Seq(Symbol)  BY <3>4, Cut DEF Text
    <3>6. MemberValue(s) = b  BY DEF MemberValue, FirstAt
    <3> HIDE DEF a, b, m, i
    <3>7. a = <<k>>  BY <3>1, <3>4
    <3>8. s = <<k>> \o <<":">> \o b  BY <3>4, <3>7 DEF AddPart
    <3>9. <<k>> \o <<":">> = <<k, ":">>  BY TwoSymbols
    <3>10. PrintMember(m) = <<k, ":">> \o b  BY <3>3, <3>6 DEF PrintMember
    <3> QED  BY <3>8, <3>9, <3>10
  <2> QED  BY <2>1, <2>2, MemberParses
<1>2. GrantAdmits(s, <<m>>)
  <2> HIDE DEF m
  <2>1. 1 \in DOMAIN <<m>> /\ <<m>>[1] = m  OBVIOUS
  <2> QED  BY <1>1, <2>1 DEF GrantAdmits, MatchesGrant
<1>3. GrantAdmits(s, <<>>) = (s = <<"allUsers">>)  BY DEF GrantAdmits
<1> QED  BY <1>1, <1>2, <1>3

\* A part before which stands one word.
LEMMA AddWord == ASSUME NEW w, NEW b, NEW sep PROVE AddPart(<<w>>, b, sep) = <<w, sep>> \o b
BY TwoSymbols DEF AddPart

\* Role: what from_str accepts, Display prints.
LEMMA RolePrints ==
  ASSUME NEW s \in Text, ParseRole(s).ok
  PROVE  PrintRole(ParseRole(s).value) = s
<1> DEFINE parts == Split(s, "/")
           p == parts[2]
           q == parts[4]
           Scoped(collection) == Len(parts) = 4 /\ parts[1] = <<collection>> /\ parts[3] = <<"roles">>
                                 /\ parts[2] # <<>> /\ parts[4] # <<>>
           role == <<"roles">>
<1>1. "/" \in Symbol /\ "roles" \in Symbol /\ "organizations" \in Symbol /\ "projects" \in Symbol  BY DEF Symbol
<1>2. parts \in Seq(Seq(Symbol)) /\ Joined(parts, "/") = s  BY <1>1, SplitJoins DEF Text, PartsOf
<1>3. ASSUME NEW c \in Symbol, Scoped(c)
      PROVE  s = <<c, "/">> \o p \o <<"/">> \o (<<"roles", "/">> \o q)
  <2> DEFINE C == <<c>>
             X == AddPart(C, p, "/")
  <2>0. Len(parts) = 4 /\ parts[1] = <<c>> /\ parts[3] = <<"roles">>  BY <1>3
  <2> HIDE DEF parts
  <2>1. p \in Seq(Symbol) /\ q \in Seq(Symbol)
    <3>1. 2 \in 1..Len(parts) /\ 4 \in 1..Len(parts)  BY <2>0
    <3> QED  BY <1>2, <3>1, ElementOfSeq
  <2>2. C \in Seq(Symbol) /\ role \in Seq(Symbol)  BY <1>1
  <2>3. s = AddPart(AddPart(AddPart(parts[1], p, "/"), parts[3], "/"), q, "/")  BY <1>1, <1>2, <2>0, JoinedFew
  <2> HIDE DEF C, role, p, q
  <2>4. X \in Seq(Symbol)  BY <1>1, <2>1, <2>2, AddPartFacts
  <2>5. s = AddPart(AddPart(X, role, "/"), q, "/")  BY <2>0, <2>3 DEF C, role
  <2> HIDE DEF X
  <2>6. s = AddPart(X, AddPart(role, q, "/"), "/")  BY <1>1, <2>1, <2>2, <2>4, <2>5, AddPartFacts
  <2>7. AddPart(role, q, "/") = <<"roles", "/">> \o q  BY AddWord DEF role
  <2>8. X = <<c, "/">> \o p  BY AddWord DEF X, C
  <2> QED  BY <2>6, <2>7, <2>8 DEF AddPart
<1>4. CASE Len(parts) = 2 /\ parts[1] = <<"roles">> /\ p # <<>>
  <2>1. ParseRole(s) = Ok([form |-> "Predefined", scope |-> <<>>, role |-> p])  BY <1>4 DEF ParseRole
  <2>2. PrintRole(ParseRole(s).value) = <<"roles", "/">> \o p  BY <2>1 DEF PrintRole, Ok
  <2> HIDE DEF parts, p
  <2>3. s = AddPart(parts[1], parts[2], "/")  BY <1>1, <1>2, <1>4, JoinedFew
  <2>4. s = AddPart(<<"roles">>, p, "/")  BY <1>4, <2>3 DEF p
  <2>5. AddPart(<<"roles">>, p, "/") = <<"roles", "/">> \o p  BY AddWord
  <2> QED  BY <2>2, <2>4, <2>5
<1>5. CASE Scoped("organizations")
  <2>1. ParseRole(s) = Ok([form |-> "Organization", scope |-> p, role |-> q])  BY <1>5 DEF ParseRole
  <2> DEFINE m == ParseRole(s).value
  <2>2. m.form = "Organization" /\ m.scope = p /\ m.role = q  BY <2>1 DEF Ok
  <2>3. m.form # "Predefined" /\ m.form # "Project"  BY <2>2
  <2> HIDE DEF m, p, q
  <2>4. PrintRole(m) = <<"organizations", "/">> \o m.scope \o <<"/">> \o (<<"roles", "/">> \o m.role)
    BY <2>2, <2>3, Zenon DEF PrintRole
  <2> QED  BY <1>1, <1>3, <1>5, <2>2, <2>4 DEF m
<1>6. CASE Scoped("projects")
  <2>1. ParseRole(s) = Ok([form |-> "Project", scope |-> p, role |-> q])  BY <1>6 DEF ParseRole
  <2> DEFINE m == ParseRole(s).value
  <2>2. m.form = "Project" /\ m.scope = p /\ m.role = q  BY <2>1 DEF Ok
  <2>3. m.form # "Predefined" /\ m.form # "Organization"  BY <2>2
  <2> HIDE DEF m, p, q
  <2>4. PrintRole(m) = <<"projects", "/">> \o m.scope \o <<"/">> \o (<<"roles", "/">> \o m.role)
    BY <2>2, <2>3, Zenon DEF PrintRole
  <2> QED  BY <1>1, <1>3, <1>6, <2>2, <2>4 DEF m
<1>7. CASE ~(Len(parts) = 2 /\ parts[1] = <<"roles">> /\ p # <<>>) /\ ~Scoped("organizations") /\ ~Scoped("projects")
  <2>1. ParseRole(s) = Err("RoleMalformed")  BY <1>7 DEF ParseRole
  <2> QED  BY <2>1 DEF Err
<1> QED  BY <1>4, <1>5, <1>6, <1>7

\* A text with a separator in it, by its first part and by its last.
LEMMA Ends ==
  ASSUME NEW s \in Text, NEW sep \in Symbol, Len(Split(s, sep)) > 1
  PROVE  /\ IsPrefix(Split(s, sep)[1] \o <<sep>>, s)
         /\ IsSuffix(<<sep>> \o Split(s, sep)[Len(Split(s, sep))], s)
<1> DEFINE parts == Split(s, sep)
           d == <<sep>>
           z == parts[Len(parts)]
<1>1. parts \in Seq(Seq(Symbol)) /\ Joined(parts, sep) = s /\ Len(parts) \in Nat
  BY SplitJoins, LenProperties DEF Text, PartsOf
<1>2. d \in Seq(Symbol)  OBVIOUS
<1>3. Contains(s, sep)
  <2> SUFFICES ASSUME ~Contains(s, sep) PROVE FALSE  OBVIOUS
  <2>1. Without(s, sep)  BY DEF Contains, Without
  <2>2. Split(s, sep) = <<s>>  BY <2>1, SplitLast DEF Text
  <2> QED  BY <2>2
<1>4. PICK a \in Seq(Symbol) : s = AddPart(a, z, sep)
  <2>1. Len(parts) > 1  OBVIOUS
  <2> HIDE DEF parts
  <2> QED  BY <1>1, <2>1, JoinedFew
<1>5. z \in Seq(Symbol)
  <2>1. Len(parts) \in 1..Len(parts)  BY <1>1
  <2> HIDE DEF parts
  <2> QED  BY <1>1, <2>1, ElementOfSeq
<1> HIDE DEF z, d
<1>6. IsSuffix(d \o z, s)
  <2>1. s = (a \o d) \o z  BY <1>4 DEF AddPart, d
  <2>2. (a \o d) \o z = a \o (d \o z) /\ d \o z \in Seq(Symbol)  BY <1>2, <1>5, ConcatAssociative, ConcatProperties
  <2> DEFINE w == d \o z
  <2>3. s = a \o w /\ w \in Seq(Symbol)  BY <2>1, <2>2
  <2> HIDE DEF w
  <2>4. IsSuffix(w, a \o w)  BY <2>3, SuffixConcat
  <2> QED  BY <2>3, <2>4 DEF w
<1>7. IsPrefix(parts[1] \o d, s)
  <2> DEFINE i == FirstAt(s, sep)
             b == SubSeq(s, 1, i - 1)
             e == SubSeq(s, i + 1, Len(s))
             w == b \o d
  <2>1. i \in 1..Len(s) /\ parts[1] = b /\ s = AddPart(b, e, sep)  BY <1>3, First
  <2>2. b \in Seq(Symbol) /\ e \in Seq(Symbol)  BY <2>1, Cut DEF Text
  <2> HIDE DEF b, e, i
  <2>3. w \in Seq(Symbol)  BY <1>2, <2>2, ConcatProperties
  <2>4. s = w \o e  BY <2>1 DEF AddPart, d
  <2> HIDE DEF w
  <2>5. IsPrefix(w, w \o e)  BY <2>2, <2>3, PrefixConcat
  <2> QED  BY <2>1, <2>4, <2>5 DEF w
<1> QED  BY <1>6, <1>7 DEF z, d

\* A permission begins with its service and ends with its verb.
LEMMA PermissionEnds ==
  ASSUME NEW s \in Text, ParsePermission(s).ok
  PROVE  IsPrefix(Service(s) \o <<".">>, s) /\ IsSuffix(<<".">> \o Verb(s), s)
<1>1. IsWellFormed(s)
  <2> SUFFICES ASSUME ~IsWellFormed(s) PROVE FALSE  OBVIOUS
  <2>1. ParsePermission(s) = Err("PermissionMalformed")  BY DEF ParsePermission
  <2> QED  BY <2>1 DEF Err
<1>2. "." \in Symbol  BY DEF Symbol
<1>3. Len(Split(s, ".")) > 1
  <2> DEFINE n == Len(Split(s, "."))
  <2>1. n >= 3  BY <1>1 DEF IsWellFormed
  <2>2. n \in Nat  BY SplitType, LenProperties DEF Text, PartsOf
  <2> HIDE DEF n
  <2>3. n > 1  BY <2>1, <2>2
  <2> QED  BY <2>3 DEF n
<1> QED  BY <1>2, <1>3, Ends DEF Service, Verb

\* The words of a text are texts.
LEMMA WordsType == ASSUME NEW s \in Text PROVE Words(s) \in Seq(Text)
<1> DEFINE words == Split(s, " ")
           places == {i \in DOMAIN words : words[i] # <<>>}
<1>1. words \in Seq(Text)  BY SplitType DEF Text, PartsOf
<1> HIDE DEF words
<1>2. places \subseteq 1..Len(words)  BY <1>1, LenProperties
<1> HIDE DEF places
<1>3. Chosen(words, places) \in Seq(Text)  BY <1>1, <1>2, ChosenType
<1> QED  BY <1>3 DEF Words, words, places

\* One field of an order keeps the words it was read from.
LEMMA FieldKeepsWords ==
  ASSUME NEW s \in Text, ParseOrderByField(s).ok
  PROVE  LET f == ParseOrderByField(s).value
         IN  /\ Plain(s) = <<f.path>> \o (IF f.desc THEN << <<"desc">> >> ELSE <<>>)
             /\ \A j \in DOMAIN SubFields(f) : SubFields(f)[j] # <<>>
<1> DEFINE w == Words(s)
           f == ParseOrderByField(s).value
<1>1. w \in Seq(Text) /\ Len(w) \in Nat  BY WordsType, LenProperties
<1>2. /\ w # <<>> /\ ValidatePathSegments(w[1])
      /\ Len(w) = 1 \/ (Len(w) = 2 /\ w[2] \in {<<"asc">>, <<"desc">>})
      /\ ParseOrderByField(s) = Ok([path |-> w[1], desc |-> Len(w) = 2 /\ w[2] = <<"desc">>])
  <2> DEFINE good == /\ w # <<>> /\ ValidatePathSegments(w[1])
                     /\ Len(w) = 1 \/ (Len(w) = 2 /\ w[2] \in {<<"asc">>, <<"desc">>})
  <2>1. good
    <3> SUFFICES ASSUME ~good PROVE FALSE  OBVIOUS
    <3>1. ParseOrderByField(s) = Err("Syntax")  BY DEF ParseOrderByField
    <3> QED  BY <3>1 DEF Err
  <2> QED  BY <2>1 DEF ParseOrderByField
<1>3. f.path = w[1] /\ f.desc = (Len(w) = 2 /\ w[2] = <<"desc">>)
  <2> HIDE DEF w
  <2> QED  BY <1>2 DEF Ok
<1>4. Plain(s) = IF Len(w) > 1 /\ w[Len(w)] = <<"asc">> THEN Front(w) ELSE w  BY DEF Plain
<1> HIDE DEF w, f
<1>5. Plain(s) = <<f.path>> \o (IF f.desc THEN << <<"desc">> >> ELSE <<>>)
  <2>0. 1 \in 1..Len(w) /\ w[1] \in Text  BY <1>1, <1>2, ElementOfSeq
  <2> DEFINE a == <<f.path>>
  <2>1. a \in Seq(Text) /\ Len(a) = 1 /\ a[1] = w[1]  BY <1>3, <2>0
  <2>2. a \o <<>> = a  BY <2>1, ConcatEmptySeq
  <2>3. CASE Len(w) = 1
    <3>1. ~f.desc /\ Plain(s) = w
      <4>1. ~(Len(w) = 2) /\ ~(Len(w) > 1)  BY <2>3
      <4>2. ~f.desc  BY <1>3, <4>1
      <4>3. Plain(s) = w  BY <1>4, <4>1
      <4> QED  BY <4>2, <4>3
    <3>2. w = a
      <4> HIDE DEF a
      <4> QED  BY <1>1, <2>1, <2>3, SeqEqual
    <3> QED  BY <2>2, <3>1, <3>2
  <2>4. CASE Len(w) = 2 /\ w[2] = <<"asc">>
    <3>1. ~f.desc /\ Plain(s) = Front(w)
      <4>1. <<"asc">> # <<"desc">>  OBVIOUS
      <4>2. ~f.desc  BY <1>3, <2>4, <4>1
      <4>3. Len(w) > 1 /\ w[Len(w)] = <<"asc">>  BY <2>4
      <4>4. Plain(s) = Front(w)  BY <1>4, <4>3
      <4> QED  BY <4>2, <4>4
    <3>2. Front(w) = a
      <4> DEFINE g == SubSeq(w, 1, 1)
      <4>1. g \in Seq(Text) /\ Len(g) = 1 /\ g[1] = w[1]  BY <1>1, <2>0
      <4>2. Front(w) = g  BY <2>4 DEF Front
      <4> HIDE DEF a, g
      <4>3. \A i \in 1..1 : g[i] = a[i]  BY <2>1, <4>1
      <4> QED  BY <2>1, <4>1, <4>2, <4>3, SeqEqual
    <3> QED  BY <2>2, <3>1, <3>2
  <2>5. CASE Len(w) = 2 /\ w[2] = <<"desc">>
    <3>1. f.desc /\ Plain(s) = w
      <4>1. <<"asc">> # <<"desc">>  OBVIOUS
      <4> QED  BY <1>3, <1>4, <2>5, <4>1
    <3> DEFINE d == <<"desc">>
               c == <<f.path, d>>
    <3>2. a \o <<d>> = c  BY TwoSymbols
    <3>3. w[2] \in Text
      <4>1. 2 \in 1..Len(w)  BY <2>5
      <4> QED  BY <1>1, <4>1, ElementOfSeq
    <3>4. c \in Seq(Text) /\ Len(c) = 2 /\ c[1] = w[1] /\ c[2] = w[2]
      <4>1. d \in Text /\ f.path \in Text /\ d = w[2]  BY <1>3, <2>0, <2>5, <3>3
      <4> HIDE DEF d
      <4> QED  BY <1>3, <4>1
    <3> HIDE DEF c
    <3>5. \A i \in 1..2 : w[i] = c[i]  BY <3>4
    <3>6. w = c  BY <1>1, <2>5, <3>4, <3>5, SeqEqual
    <3> QED  BY <3>1, <3>2, <3>6
  <2> QED  BY <1>2, <2>3, <2>4, <2>5
<1>6. ASSUME NEW j \in DOMAIN SubFields(f) PROVE SubFields(f)[j] # <<>>
  <2>1. CASE f.path = <<>>  BY <1>6, <2>1 DEF SubFields
  <2>2. CASE f.path # <<>>  BY <1>2, <1>3, <1>6, <2>2 DEF SubFields, ValidatePathSegments
  <2> QED  BY <2>1, <2>2
<1> QED  BY <1>5, <1>6 DEF f

\* OrderBy: from_str keeps every word but "asc", and no subfield is empty.
LEMMA OrderKeepsWords ==
  ASSUME NEW s \in Text, ParseOrderBy(s).ok
  PROVE  LET order == ParseOrderBy(s).value
             raws  == Split(s, ",")
         IN  /\ s # <<>> => Len(order) = Len(raws)
             /\ \A i \in DOMAIN order :
                  /\ Plain(raws[i]) = <<order[i].path>> \o (IF order[i].desc THEN << <<"desc">> >> ELSE <<>>)
                  /\ \A j \in DOMAIN SubFields(order[i]) : SubFields(order[i])[j] # <<>>
<1> DEFINE order == ParseOrderBy(s).value
           raws  == Split(s, ",")
           fields == [i \in DOMAIN raws |-> ParseOrderByField(raws[i])]
           strange == \E i \in DOMAIN s : s[i] \notin Alphanumeric \cup {Underscore, " ", ",", "."}
<1>1. CASE s = <<>>
  <2>1. ParseOrderBy(s) = Ok(<<>>)  BY <1>1 DEF ParseOrderBy
  <2>2. order = <<>>  BY <2>1 DEF Ok
  <2> HIDE DEF order
  <2>3. DOMAIN order = {}  BY <2>2
  <2> QED  BY <1>1, <2>3 DEF order
<1>2. CASE s # <<>>
  <2>1. ~strange
    <3> SUFFICES ASSUME strange PROVE FALSE  OBVIOUS
    <3>1. ParseOrderBy(s) = Err("Syntax")  BY <1>2 DEF ParseOrderBy
    <3>2. ~ParseOrderBy(s).ok  BY ONLY <3>1 DEF Err
    <3> QED  BY <3>2
  <2>2. ParseOrderBy(s) = IF \A i \in DOMAIN fields : fields[i].ok
                          THEN Ok([i \in DOMAIN fields |-> fields[i].value]) ELSE Err("Syntax")
    BY <1>2, <2>1 DEF ParseOrderBy
  <2> HIDE DEF fields
  <2>3. \A i \in DOMAIN fields : fields[i].ok  BY <2>2 DEF Err
  <2>4. order = [i \in DOMAIN fields |-> fields[i].value]  BY <2>2, <2>3 DEF Ok
  <2>5. raws \in Seq(Text) /\ Len(raws) \in Nat /\ DOMAIN raws = 1..Len(raws)
    BY SplitType, LenProperties DEF Text, PartsOf
  <2> HIDE DEF order, raws
  <2>6. DOMAIN order = 1..Len(raws) /\ \A i \in 1..Len(raws) : order[i] = ParseOrderByField(raws[i]).value
    BY <2>4, <2>5 DEF fields
  <2>7. Len(order) = Len(raws)
    <3>1. order = [i \in 1..Len(raws) |-> order[i]]  BY <2>4, <2>6
    <3> QED  BY <2>5, <3>1
  <2>8. ASSUME NEW i \in 1..Len(raws)
        PROVE  /\ Plain(raws[i]) = <<order[i].path>> \o (IF order[i].desc THEN << <<"desc">> >> ELSE <<>>)
               /\ \A j \in DOMAIN SubFields(order[i]) : SubFields(order[i])[j] # <<>>
    <3>1. raws[i] \in Text  BY <2>5, ElementOfSeq
    <3>2. ParseOrderByField(raws[i]).ok  BY <2>3, <2>5 DEF fields
    <3> DEFINE r == raws[i]
    <3> HIDE DEF r
    <3>3. r \in Text /\ ParseOrderByField(r).ok  BY <3>1, <3>2 DEF r
    <3>4. LET f == ParseOrderByField(r).value
          IN  /\ Plain(r) = <<f.path>> \o (IF f.desc THEN << <<"desc">> >> ELSE <<>>)
              /\ \A j \in DOMAIN SubFields(f) : SubFields(f)[j] # <<>>
      BY <3>3, FieldKeepsWords
    <3>5. order[i] = ParseOrderByField(r).value  BY <2>6 DEF r
    <3> QED  BY <3>4, <3>5 DEF r
  <2> QED  BY <2>6, <2>7, <2>8 DEF order, raws
<1> QED  BY <1>1, <1>2

\* A resource type is its service, a slash and its type.
LEMMA TypeParts ==
  ASSUME NEW s \in Text, ValidateResourceType(s)
  PROVE  ServiceName(s) \o <<"/">> \o TypeName(s) = s
<1> DEFINE I == {k \in 1..Len(s) : s[k] = "/"}
           i == LastSlash(s)
<1>0. Len(s) \in Nat  BY LenProperties DEF Text
<1>1. i = IF I # {} THEN Max(I) ELSE 0  BY DEF LastSlash, SelectLastInSeq
<1>2. Contains(ServiceName(s), ".")  BY DEF ValidateResourceType
<1>3. ServiceName(s) = SubSeq(s, 1, i - 1)  BY DEF ServiceName
<1>4. I # {}
  <2> SUFFICES ASSUME I = {} PROVE FALSE  OBVIOUS
  <2>1. i = 0  BY <1>1
  <2> HIDE DEF i, I
  <2>2. SubSeq(s, 1, -1) = <<>>
    <3>1. 1 \in Int /\ -1 \in Int /\ -1 < 1  OBVIOUS
    <3> QED  BY <3>1, SubSeqEmpty
  <2>3. ServiceName(s) = <<>>  BY <1>3, <2>1, <2>2
  <2>4. Len(<<>>) = 0  OBVIOUS
  <2> QED  BY <1>2, <2>3, <2>4 DEF Contains
<1>5. i \in I
  <2>1. I \subseteq 0..Len(s)
    <3>1. \A k \in 1..Len(s) : k \in 0..Len(s)  BY <1>0
    <3> QED  BY <3>1
  <2> HIDE DEF I, i
  <2>2. Max(I) \in I  BY <1>0, <1>4, <2>1, GreatestElement
  <2> QED  BY <1>1, <1>4, <2>2
<1>6. i \in 1..Len(s) /\ s[i] = "/"  BY <1>5
<1> HIDE DEF i, I
<1>7. s = AddPart(SubSeq(s, 1, i - 1), SubSeq(s, i + 1, Len(s)), "/")  BY <1>6, Cut DEF Text
<1>8. TypeName(s) = SubSeq(s, i + 1, Len(s))
  <2>1. i # 0  BY <1>0, <1>6
  <2> QED  BY <2>1 DEF TypeName, i
<1> QED  BY <1>3, <1>7, <1>8 DEF AddPart

\* A grammatical name in upper camel case is a type.
LEMMA CamelIsType ==
  ASSUME NEW s \in Text, ValidateGrammatical(s)
  PROVE  ValidateType(UpperCamelCase(s))
<1> DEFINE u == UpperOf[s[1]]
           t == Tail(s)
           r == <<u>>
           c == r \o t
<1>1. s # <<>> /\ Range(s) \subseteq Alphanumeric /\ s[1] \in Lower  BY DEF ValidateGrammatical
<1>2. u \in Upper /\ s[1] \in DOMAIN UpperOf  BY <1>1, TextsAssumption
<1>3. UpperCamelCase(s) = c  BY <1>1, <1>2 DEF UpperCamelCase
<1>4. s \in Seq(Alphanumeric) /\ Len(s) \in Nat
  <2>1. s \in [1..Len(s) -> Symbol] /\ DOMAIN s = 1..Len(s) /\ Len(s) \in Nat  BY LenProperties DEF Text
  <2>2. \A k \in 1..Len(s) : s[k] \in Alphanumeric  BY <1>1, <2>1 DEF Range
  <2> QED  BY <2>1, <2>2
<1>5. t \in Seq(Alphanumeric) /\ r \in Seq(Alphanumeric) /\ Len(r) = 1 /\ r[1] = u
  <2>1. u \in Alphanumeric  BY <1>2 DEF Alphanumeric
  <2>2. t \in Seq(Alphanumeric)  BY <1>1, <1>4, HeadTailProperties
  <2> HIDE DEF u, t
  <2> QED  BY <2>1, <2>2
<1> HIDE DEF r, t
<1>6. /\ c \in Seq(Alphanumeric) /\ Len(c) = Len(r) + Len(t)
      /\ \A k \in 1..(Len(r) + Len(t)) : c[k] = IF k <= Len(r) THEN r[k] ELSE t[k - Len(r)]
  BY <1>5, ConcatProperties
<1> HIDE DEF c
<1>7. Len(t) \in Nat /\ 1 \in 1..(Len(r) + Len(t)) /\ 1 <= Len(r)  BY <1>5, LenProperties
<1>8. c[1] = u /\ c # <<>>
  <2>1. c[1] = r[1]  BY <1>6, <1>7
  <2>2. Len(c) # 0  BY <1>5, <1>6, <1>7
  <2>3. c # <<>>
    <3>1. Len(<<>>) = 0  OBVIOUS
    <3> QED  BY <2>2, <3>1
  <2> QED  BY <1>5, <2>1, <2>3
<1>9. Range(c) \subseteq Alphanumeric
  <2>1. c \in [1..Len(c) -> Alphanumeric] /\ DOMAIN c = 1..Len(c)  BY <1>6, LenProperties
  <2> QED  BY <2>1 DEF Range
<1> QED  BY <1>2, <1>3, <1>8, <1>9 DEF ValidateType

\* OperationName: what parse accepts, Display prints; without a parent it has
\* two segments.
LEMMA OperationName ==
  ASSUME NEW s \in Text, ParseOperationName(s).ok
  PROVE  /\ PrintOperationName(ParseOperationName(s).value) = s
         /\ ParseOperationName(s).value.parent = <<>> => Len(NameSegments(s)) = 2
<1> DEFINE n == Len(s)
           sl == <<"/">>
           word == sl \o Operations \o sl
           I == {i \in 1..(n - 2) : SubSeq(s, i, i + 2) = word}
           at == LastCollection(s)
           flat == at = 0 /\ IsPrefix(Operations \o sl, s)
           parent == IF at = 0 THEN <<>> ELSE <<SubSeq(s, 1, at - 1)>>
           id == IF flat THEN SubSeq(s, 3, n) ELSE SubSeq(s, at + 3, n)
           op == ParseOperationName(s).value
<1>0. n \in Nat /\ "/" \in Symbol /\ "operations" \in Symbol /\ Operations \in Seq(Symbol) /\ Len(Operations) = 1
      /\ Operations[1] = "operations"
  <2>1. n \in Nat  BY LenProperties DEF Text
  <2>2. "/" \in Symbol /\ "operations" \in Symbol  BY DEF Symbol
  <2>3. Operations \in Seq(Symbol) /\ Len(Operations) = 1 /\ Operations[1] = "operations"  BY <2>2 DEF Operations
  <2> QED  BY <2>1, <2>2, <2>3
<1>1. /\ (at # 0 \/ flat) /\ id # <<>> /\ ~Contains(id, "/")
      /\ op = [parent |-> parent, id |-> id]
  <2> DEFINE good == /\ Validate(s).ok /\ (at # 0 \/ flat) /\ id # <<>> /\ ~Contains(id, "/")
                     /\ ValidateUserSettable(id).ok
  <2>1. ParseOperationName(s) = IF good THEN Ok([parent |-> parent, id |-> id]) ELSE Err("NameInvalid")
    BY DEF ParseOperationName
  <2> HIDE DEF good
  <2>2. good
    <3> SUFFICES ASSUME ~good PROVE FALSE  OBVIOUS
    <3>1. ParseOperationName(s) = Err("NameInvalid")  BY <2>1
    <3>2. ~ParseOperationName(s).ok  BY ONLY <3>1 DEF Err
    <3> QED  BY <3>2
  <2>3. ParseOperationName(s) = Ok([parent |-> parent, id |-> id])  BY <2>1, <2>2
  <2> HIDE DEF parent, id
  <2>4. op = [parent |-> parent, id |-> id]  BY ONLY <2>3 DEF Ok
  <2>5. (at # 0 \/ flat) /\ id # <<>> /\ ~Contains(id, "/")  BY <2>2 DEF good
  <2> QED  BY <2>4, <2>5
<1>2. op.parent = parent /\ op.id = id
  <2> HIDE DEF parent, id, op
  <2> QED  BY <1>1
<1>3. at \in {0} \cup I
  <2> DEFINE S == {0} \cup I
  <2>1. at = Max(S)  BY DEF LastCollection
  <2>2. S \subseteq 0..n /\ S # {}
    <3>1. \A k \in 1..(n - 2) : k \in 0..n  BY <1>0
    <3>2. 0 \in 0..n  BY <1>0
    <3> QED  BY <3>1, <3>2
  <2> HIDE DEF S, n, at
  <2>3. Max(S) \in S  BY <1>0, <2>2, GreatestElement
  <2> QED  BY <2>1, <2>3 DEF S
<1>4. CASE at # 0
  <2>1. at \in 1..(n - 2) /\ SubSeq(s, at, at + 2) = word  BY <1>3, <1>4
  <2>2. word[1] = "/" /\ word[2] = "operations" /\ word[3] = "/"  BY DEF Operations
  <2>3. parent = <<SubSeq(s, 1, at - 1)>> /\ id = SubSeq(s, at + 3, n)  BY <1>4
  <2> HIDE DEF word, at, parent, id
  <2>4. s[at] = "/" /\ s[at + 1] = "operations" /\ s[at + 2] = "/"
    <3>1. \A k \in 1..3 : SubSeq(s, at, at + 2)[k] = s[at + k - 1]
      <4>1. at \in Int /\ at + 2 \in Int /\ at + 2 <= n /\ at >= 1  BY <1>0, <2>1
      <4>2. \A k \in at..(at + 2) : s[k] \in Symbol
        <5>1. \A k \in at..(at + 2) : k \in 1..Len(s)  BY <1>0, <4>1
        <5> QED  BY <5>1, ElementOfSeq DEF Text
      <4>3. \A k \in 1..((at + 2) - at + 1) : SubSeq(s, at, at + 2)[k] = s[at + k - 1]
        BY <4>1, <4>2, SubSeqProperties
      <4>4. (at + 2) - at + 1 = 3  BY <4>1
      <4> QED  BY <4>3, <4>4
    <3>2. at \in Int  BY <1>0, <2>1
    <3>3. word[1] = s[at] /\ word[2] = s[at + 1] /\ word[3] = s[at + 2]
      <4>1. at + 1 - 1 = at /\ at + 2 - 1 = at + 1 /\ at + 3 - 1 = at + 2  BY <3>2
      <4>2. 1 \in 1..3 /\ 2 \in 1..3 /\ 3 \in 1..3  OBVIOUS
      <4> QED  BY <2>1, <3>1, <4>1, <4>2
    <3> QED  BY <2>2, <3>3
  <2> DEFINE a == SubSeq(s, 1, at - 1)
             u == SubSeq(s, 1, at + 1)
  <2>5. /\ u \in Seq(Symbol) /\ Len(u) = at + 1 /\ (\A j \in 1..(at + 1) : u[j] = s[j])
        /\ id \in Seq(Symbol) /\ s = AddPart(u, id, "/")
    <3> DEFINE k == at + 2
    <3>1. k \in 1..Len(s) /\ k - 1 = at + 1 /\ k + 1 = at + 3  BY <1>0, <2>1
    <3> HIDE DEF k
    <3>2. /\ SubSeq(s, 1, k - 1) \in Seq(Symbol) /\ Len(SubSeq(s, 1, k - 1)) = k - 1
          /\ \A j \in 1..(k - 1) : SubSeq(s, 1, k - 1)[j] = s[j]
          /\ SubSeq(s, k + 1, Len(s)) \in Seq(Symbol)
          /\ s = AddPart(SubSeq(s, 1, k - 1), SubSeq(s, k + 1, Len(s)), s[k])
      BY <3>1, Cut DEF Text
    <3>3. s[k] = "/"  BY <2>4 DEF k
    <3> QED  BY <2>3, <3>1, <3>2, <3>3
  <2>6. a \in Seq(Symbol) /\ Len(a) = at - 1 /\ (\A j \in 1..(at - 1) : a[j] = s[j])
    <3>1. at \in 1..Len(s)  BY <1>0, <2>1
    <3> QED  BY <3>1, Cut DEF Text
  <2> HIDE DEF a, u
  <2>7. u = AddPart(a, Operations, "/")
    <3> DEFINE x == SubSeq(u, 1, at - 1)
               y == SubSeq(u, at + 1, Len(u))
    <3>0. at \in Nat /\ at >= 1  BY <1>0, <2>1
    <3>1. /\ x \in Seq(Symbol) /\ Len(x) = at - 1 /\ (\A j \in 1..(at - 1) : x[j] = u[j])
          /\ y \in Seq(Symbol) /\ Len(y) = Len(u) - at /\ (\A j \in 1..(Len(u) - at) : y[j] = u[at + j])
          /\ u = AddPart(x, y, u[at])
      <4>1. at \in 1..Len(u)  BY <2>5, <3>0
      <4> QED  BY <2>5, <4>1, Cut
    <3> HIDE DEF x, y
    <3>2. u[at] = "/" /\ u[at + 1] = "operations"
      <4>1. at \in 1..(at + 1) /\ at + 1 \in 1..(at + 1)  BY <3>0
      <4> QED  BY <2>4, <2>5, <4>1
    <3>3. x = a
      <4>1. \A j \in 1..(at - 1) : x[j] = a[j]
        <5>1. \A j \in 1..(at - 1) : j \in 1..(at + 1)  BY <3>0
        <5> QED  BY <2>5, <2>6, <3>1, <5>1
      <4> QED  BY <2>6, <3>1, <4>1, SeqEqual
    <3>4. y = Operations
      <4>1. Len(y) = 1 /\ y[1] = u[at + 1]
        <5>1. Len(u) - at = 1 /\ 1 \in 1..1  BY <2>5, <3>0
        <5> QED  BY <3>1, <5>1
      <4>2. \A j \in 1..1 : y[j] = Operations[j]  BY <1>0, <3>2, <4>1
      <4> QED  BY <1>0, <3>1, <4>1, <4>2, SeqEqual
    <3> QED  BY <3>1, <3>2, <3>3, <3>4
  <2>8. op.parent # <<>> /\ op.parent[1] = a
    <3> HIDE DEF op
    <3>1. op.parent = <<a>>  BY <1>2, <2>3 DEF a
    <3> QED  BY <3>1
  <2> HIDE DEF op
  <2>9. PrintOperationName(op) = AddPart(AddPart(a, Operations, "/"), id, "/")
    BY <1>2, <2>8 DEF PrintOperationName, Collection, AddPart
  <2>10. PrintOperationName(op) = s  BY <2>5, <2>7, <2>9
  <2> QED  BY <2>8, <2>10 DEF op
<1>5. CASE flat
  <2>1. at = 0 /\ parent = <<>> /\ id = SubSeq(s, 3, n) /\ IsPrefix(Operations \o sl, s)  BY <1>5
  <2> DEFINE w == Operations \o sl
  <2>2. w = <<"operations", "/">>  BY TwoSymbols DEF Operations
  <2> HIDE DEF w, parent, id, op, at, flat
  <2>3. Len(w) = 2 /\ w[1] = "operations" /\ w[2] = "/"  BY <2>2
  <2>4. n >= 2 /\ s[1] = "operations" /\ s[2] = "/"
    <3>1. 2 <= n /\ SubSeq(w, 1, 2) = SubSeq(s, 1, 2)
      <4>1. IsPrefix(w, s)  BY <2>1 DEF w
      <4> QED  BY <2>3, <4>1 DEF IsPrefix
    <3>2. SubSeq(w, 1, 2)[1] = w[1] /\ SubSeq(w, 1, 2)[2] = w[2]  BY <2>2
    <3>3. SubSeq(s, 1, 2)[1] = s[1] /\ SubSeq(s, 1, 2)[2] = s[2]
      <4>1. \A k \in 1..2 : s[k] \in Symbol
        <5>1. \A k \in 1..2 : k \in 1..Len(s)  BY <1>0, <3>1
        <5> QED  BY <5>1, ElementOfSeq DEF Text
      <4>2. 1 \in Int /\ 2 \in Int  OBVIOUS
      <4>3. \A k \in 1..(2 - 1 + 1) : SubSeq(s, 1, 2)[k] = s[1 + k - 1]  BY <4>1, <4>2, SubSeqProperties
      <4> QED  BY <4>3
    <3> QED  BY <1>0, <2>3, <3>1, <3>2, <3>3
  <2>5. id \in Seq(Symbol) /\ s = AddPart(Operations, id, "/")
    <3> DEFINE x == SubSeq(s, 1, 1)
    <3>1. /\ x \in Seq(Symbol) /\ Len(x) = 1 /\ (\A j \in 1..1 : x[j] = s[j])
          /\ id \in Seq(Symbol) /\ s = AddPart(x, id, "/")
      <4> DEFINE k == 2
      <4>1. k \in 1..Len(s) /\ k - 1 = 1 /\ k + 1 = 3 /\ s[k] = "/"  BY <1>0, <2>4
      <4> HIDE DEF k
      <4>2. /\ SubSeq(s, 1, k - 1) \in Seq(Symbol) /\ Len(SubSeq(s, 1, k - 1)) = k - 1
            /\ \A j \in 1..(k - 1) : SubSeq(s, 1, k - 1)[j] = s[j]
            /\ SubSeq(s, k + 1, Len(s)) \in Seq(Symbol)
            /\ s = AddPart(SubSeq(s, 1, k - 1), SubSeq(s, k + 1, Len(s)), s[k])
        BY <4>1, Cut DEF Text
      <4> QED  BY <2>1, <4>1, <4>2
    <3> HIDE DEF x
    <3>2. x = Operations
      <4>1. \A j \in 1..1 : x[j] = Operations[j]  BY <1>0, <2>4, <3>1
      <4> QED  BY <1>0, <3>1, <4>1, SeqEqual
    <3> QED  BY <3>1, <3>2
  <2>6. PrintOperationName(op) = s
    BY <1>2, <2>1, <2>5 DEF PrintOperationName, Collection, AddPart
  <2>7. Len(NameSegments(s)) = 2
    <3> DEFINE parts == Split(s, "/")
    <3>1. Split(Operations, "/") = <<Operations>>
      <4>1. Without(Operations, "/")  BY <1>0 DEF Without
      <4> QED  BY <1>0, <4>1, SplitLast
    <3>2. parts = Append(<<Operations>>, id)
      <4>1. Without(id, "/") /\ id \in Seq(Symbol)  BY <1>1, <2>5 DEF Contains, Without
      <4>2. Split(AddPart(Operations, id, "/"), "/") = Append(Split(Operations, "/"), id)  BY <1>0, <4>1, SplitLast
      <4> QED  BY <2>5, <3>1, <4>2
    <3>3. parts \in Seq(Seq(Symbol)) /\ Len(parts) = 2
      <4> HIDE DEF parts
      <4> QED  BY <1>0, <2>5, <3>2
    <3>4. Lead(s) = 0
      <4>1. ~Slash(s) /\ ~TwoSlashes(s)  BY <2>4 DEF Slash, TwoSlashes
      <4> QED  BY <4>1, LeadIs
    <3>5. NameSegments(s) = SubSeq(parts, 1, 2)
      <4>1. s # <<>>  BY <2>4
      <4>2. NameSegments(s) = SubSeq(parts, Lead(s) + 1, Len(parts))  BY <4>1, SegmentsAre
      <4>3. Lead(s) + 1 = 1  BY <3>4
      <4> HIDE DEF parts
      <4> QED  BY <3>3, <4>2, <4>3
    <3> HIDE DEF parts
    <3> QED  BY <3>3, <3>5
  <2> QED  BY <2>6, <2>7 DEF op
<1> QED  BY <1>1, <1>4, <1>5

-----------------------------------------------------------------------------
(* Segments and patterns.                                                    *)

\* A text without the slash it may start with.
Body(s) == IF Slash(s) THEN Tail(s) ELSE s

\* The slash is all that a body leaves out.
LEMMA BodyType ==
  ASSUME NEW s \in Text
  PROVE  Body(s) \in Text /\ (Slash(s) => s = AddPart(<<>>, Body(s), "/"))
<1>1. CASE ~Slash(s)  BY <1>1 DEF Body
<1>2. CASE Slash(s)
  <2>0. s # <<>> /\ s[1] = "/"  BY <1>2 DEF Slash
  <2>1. 1 \in 1..Len(s) /\ Len(s) \in Nat  BY <2>0, EmptySeq, LenProperties DEF Text
  <2>2. Body(s) = SubSeq(s, 2, Len(s))  BY <1>2, <2>0, TailIsSubSeq DEF Body, Text
  <2> DEFINE k == 1
  <2>3. k \in 1..Len(s) /\ k - 1 = 0 /\ k + 1 = 2 /\ s[k] = "/"  BY <2>0, <2>1
  <2> HIDE DEF k
  <2>4. SubSeq(s, k + 1, Len(s)) \in Seq(Symbol) /\ s = AddPart(SubSeq(s, 1, k - 1), SubSeq(s, k + 1, Len(s)), s[k])
    BY <2>3, Cut DEF Text
  <2>5. SubSeq(s, 1, 0) = <<>>
    <3>1. 1 \in Int /\ 0 \in Int /\ 0 < 1  OBVIOUS
    <3> QED  BY <3>1, SubSeqEmpty
  <2> QED  BY <2>2, <2>3, <2>4, <2>5 DEF Text
<1> QED  BY <1>1, <1>2

\* A sequence without the element that was put before it.
LEMMA DropFirst ==
  ASSUME NEW T, NEW x \in T, NEW q \in Seq(T)
  PROVE  SubSeq(<<x>> \o q, 2, Len(<<x>> \o q)) = q
<1> DEFINE a == <<x>>
           z == a \o q
           n == Len(q)
           y == SubSeq(z, 2, n + 1)
<1>1. a \in Seq(T) /\ Len(a) = 1  OBVIOUS
<1> HIDE DEF a
<1>2. n \in Nat /\ \A k \in 1..n : q[k] \in T  BY LenProperties, ElementOfSeq
<1>3. z \in Seq(T) /\ Len(z) = n + 1 /\ \A k \in 1..n : z[k + 1] = q[k]
  <2>1. /\ z \in Seq(T) /\ Len(z) = Len(a) + Len(q)
        /\ \A k \in 1..(Len(a) + Len(q)) : z[k] = IF k <= Len(a) THEN a[k] ELSE q[k - Len(a)]
    BY <1>1, ConcatProperties
  <2>2. \A k \in 1..n : k + 1 \in 1..(1 + n) /\ ~(k + 1 <= 1) /\ (k + 1) - 1 = k  BY <1>2
  <2> HIDE DEF z
  <2> QED  BY <1>1, <1>2, <2>1, <2>2
<1> HIDE DEF z, n
<1>4. /\ y \in Seq(T) /\ Len(y) = IF 2 <= n + 1 THEN (n + 1) - 2 + 1 ELSE 0
      /\ \A k \in 1..((n + 1) - 2 + 1) : y[k] = z[2 + k - 1]
  <2>1. 2 \in Int /\ n + 1 \in Int  BY <1>2
  <2>2. \A k \in 2..(n + 1) : z[k] \in T
    <3>1. \A k \in 2..(n + 1) : k \in 1..Len(z)  BY <1>2, <1>3
    <3> QED  BY <1>3, <3>1, ElementOfSeq
  <2> QED  BY <2>1, <2>2, SubSeqProperties
<1> HIDE DEF y
<1>5. Len(y) = n /\ \A k \in 1..n : y[k] = q[k]
  <2>1. \A k \in 1..n : k \in 1..((n + 1) - 2 + 1) /\ 2 + k - 1 = k + 1  BY <1>2
  <2> QED  BY <1>2, <1>3, <1>4, <2>1
<1>6. y = q  BY <1>4, <1>5, SeqEqual DEF n
<1> QED  BY <1>3, <1>6 DEF y, z, a

\* The segments of a name without a service.
LEMMA BodySegments ==
  ASSUME NEW s \in Text, s # <<>>, ~TwoSlashes(s)
  PROVE  NameSegments(s) = Split(Body(s), "/")
<1> DEFINE parts == Split(s, "/")
           q == Split(Body(s), "/")
<1>0. "/" \in Symbol /\ <<>> \in Seq(Symbol)  BY DEF Symbol
<1>1. parts \in Seq(Seq(Symbol)) /\ Len(parts) \in Nat /\ q \in Seq(Seq(Symbol))
  BY SplitType, BodyType, LenProperties DEF Text, PartsOf
<1>2. NameSegments(s) = SubSeq(parts, Lead(s) + 1, Len(parts))  BY SegmentsAre
<1>3. CASE Slash(s)
  <2>1. Lead(s) + 1 = 2  BY <1>3, LeadIs
  <2> DEFINE e == <<>>
  <2>2. e \in Seq(Symbol) /\ Split(e, "/") = <<e>>  BY <1>0, SplitEmpty
  <2>3. Body(s) \in Seq(Symbol) /\ s = AddPart(e, Body(s), "/")  BY <1>3, BodyType DEF Text
  <2> HIDE DEF e
  <2>4. parts = <<e>> \o q  BY <1>0, <2>2, <2>3, SplitConcat
  <2> HIDE DEF parts, q
  <2>5. SubSeq(<<e>> \o q, 2, Len(<<e>> \o q)) = q  BY <1>1, <2>2, DropFirst
  <2> QED  BY <1>2, <2>1, <2>4, <2>5 DEF q
<1>4. CASE ~Slash(s)
  <2>1. Lead(s) + 1 = 1 /\ parts = q  BY <1>4, LeadIs DEF Body
  <2> HIDE DEF parts, q
  <2>2. SubSeq(parts, 1, Len(parts)) = parts  BY <1>1
  <2> QED  BY <1>2, <2>1, <2>2 DEF q
<1> QED  BY <1>3, <1>4

\* A variable is its name in braces.
LEMMA Braces ==
  ASSUME NEW r \in Text, NamesVariable(r)
  PROVE  Inner(r) \in Text /\ <<LBrace>> \o Inner(r) \o <<RBrace>> = r
<1> DEFINE n == Len(r)
           x == Inner(r)
           a == <<LBrace>>
           b == <<RBrace>>
           u == a \o x
           w == u \o b
<1>0. LBrace \in Symbol /\ RBrace \in Symbol  BY DEF Symbol
<1>1. n \in Nat /\ n >= 2 /\ r[1] = LBrace /\ r[n] = RBrace /\ \A k \in 1..n : r[k] \in Symbol
  BY LenProperties, ElementOfSeq DEF NamesVariable, Text
<1>2. x \in Seq(Symbol) /\ Len(x) = n - 2 /\ \A k \in 1..(n - 2) : x[k] = r[k + 1]
  <2> HIDE DEF n
  <2>1. 2 \in Int /\ n - 1 \in Int /\ \A k \in 2..(n - 1) : r[k] \in Symbol
    <3>1. \A k \in 2..(n - 1) : k \in 1..n  BY <1>1
    <3> QED  BY <1>1, <3>1
  <2>2. /\ SubSeq(r, 2, n - 1) \in Seq(Symbol)
        /\ Len(SubSeq(r, 2, n - 1)) = IF 2 <= n - 1 THEN (n - 1) - 2 + 1 ELSE 0
        /\ \A k \in 1..((n - 1) - 2 + 1) : SubSeq(r, 2, n - 1)[k] = r[2 + k - 1]
    BY <2>1, SubSeqProperties
  <2>3. x = SubSeq(r, 2, n - 1)  BY DEF Inner, n
  <2> HIDE DEF x
  <2>4. \A k \in 1..(n - 2) : k \in 1..((n - 1) - 2 + 1) /\ 2 + k - 1 = k + 1  BY <1>1
  <2> QED  BY <1>1, <2>2, <2>3, <2>4
<1>3. a \in Seq(Symbol) /\ Len(a) = 1 /\ a[1] = LBrace /\ b \in Seq(Symbol) /\ Len(b) = 1 /\ b[1] = RBrace  BY <1>0
<1> HIDE DEF n, x, a, b
<1>4. u \in Seq(Symbol) /\ Len(u) = n - 1 /\ \A k \in 1..(n - 1) : u[k] = IF k <= 1 THEN a[k] ELSE x[k - 1]
  <2>1. /\ u \in Seq(Symbol) /\ Len(u) = Len(a) + Len(x)
        /\ \A k \in 1..(Len(a) + Len(x)) : u[k] = IF k <= Len(a) THEN a[k] ELSE x[k - Len(a)]
    <3>1. a \in Seq(Symbol) /\ x \in Seq(Symbol)  BY <1>2, <1>3
    <3> QED  BY <3>1, ConcatProperties
  <2> HIDE DEF u
  <2>2. Len(a) + Len(x) = n - 1  BY <1>1, <1>2, <1>3
  <2> QED  BY <1>3, <2>1, <2>2
<1> HIDE DEF u
<1>5. w \in Seq(Symbol) /\ Len(w) = n /\ \A k \in 1..n : w[k] = IF k <= n - 1 THEN u[k] ELSE b[k - (n - 1)]
  <2>1. /\ w \in Seq(Symbol) /\ Len(w) = Len(u) + Len(b)
        /\ \A k \in 1..(Len(u) + Len(b)) : w[k] = IF k <= Len(u) THEN u[k] ELSE b[k - Len(u)]
    <3>1. u \in Seq(Symbol) /\ b \in Seq(Symbol)  BY <1>3, <1>4
    <3> QED  BY <3>1, ConcatProperties
  <2> HIDE DEF w
  <2>2. Len(u) + Len(b) = n  BY <1>1, <1>3, <1>4
  <2> QED  BY <1>4, <2>1, <2>2
<1> HIDE DEF w
<1>6. ASSUME NEW k \in 1..n PROVE w[k] = r[k]
  <2>1. CASE k = 1
    <3>1. 1 \in 1..n /\ 1 \in 1..(n - 1) /\ 1 <= n - 1 /\ 1 <= 1  BY <1>1
    <3> QED  BY <1>1, <1>3, <1>4, <1>5, <2>1, <3>1
  <2>2. CASE k > 1 /\ k < n
    <3>1. k \in 1..(n - 1) /\ k <= n - 1 /\ ~(k <= 1) /\ k - 1 \in 1..(n - 2) /\ (k - 1) + 1 = k  BY <1>1, <2>2
    <3> QED  BY <1>2, <1>4, <1>5, <3>1
  <2>3. CASE k = n
    <3>1. ~(k <= n - 1) /\ k - (n - 1) = 1  BY <1>1, <2>3
    <3> QED  BY <1>1, <1>3, <1>5, <2>3, <3>1
  <2>4. k = 1 \/ (k > 1 /\ k < n) \/ k = n  BY <1>1
  <2> QED  BY <2>1, <2>2, <2>3, <2>4
<1>7. w = r
  <2>1. r \in Seq(Symbol) /\ Len(r) = n  BY DEF Text, n
  <2> QED  BY <1>5, <1>6, <2>1, SeqEqual
<1> QED  BY <1>2, <1>7 DEF w, u, a, b, x, Text

\* No error means that no segment has one.
LEMMA NoError ==
  ASSUME NEW n \in Nat, NEW v, DOMAIN v = 1..n, Len(v) = n
  PROVE  FirstError(v) = "none" <=> \A i \in 1..n : v[i] = "none"
<1> DEFINE I == {i \in 1..Len(v) : v[i] # "none"}
           k == SelectInSeq(v, LAMBDA e : e # "none")
<1>1. k = IF I # {} THEN Min(I) ELSE 0  BY DEF SelectInSeq
<1>2. FirstError(v) = IF k = 0 THEN "none" ELSE v[k]  BY DEF FirstError
<1>3. CASE I = {}
  <2>1. k = 0  BY <1>1, <1>3
  <2> HIDE DEF k
  <2> QED  BY <1>2, <1>3, <2>1
<1>4. CASE I # {}
  <2>1. I \in SUBSET Nat
    <3>1. \A i \in 1..Len(v) : i \in Nat  OBVIOUS
    <3> QED  BY <3>1
  <2>2. Min(I) \in I
    <3> HIDE DEF I
    <3> QED  BY <1>4, <2>1, LeastElement
  <2>3. k \in I  BY <1>1, <1>4, <2>2
  <2> HIDE DEF k
  <2>4. k \in 1..n /\ v[k] # "none" /\ k # 0  BY <2>3
  <2>5. FirstError(v) # "none"  BY <1>2, <2>4
  <2> QED  BY <2>4, <2>5
<1> QED  BY <1>3, <1>4

\* The symbols that the parsers look for are no letters, digits or each other.
LEMMA Punctuation ==
  /\ \A x \in {"/", LBrace, RBrace, "@", "-", Underscore, ".", ":", " ", ","} : x \notin Alphanumeric
  /\ LBrace \notin {"/", "-", ".", "@", Underscore, RBrace}
  /\ RBrace \notin {"/", "-", ".", "@", Underscore}
  /\ Underscore # "/"
<1>1. \A x \in {"/", LBrace, RBrace, "@", "-", Underscore, ".", ":", " ", ","} : x \notin Alphanumeric
  BY NamesAssumption
<1>2. LBrace # "/" /\ LBrace # "-" /\ LBrace # "." /\ LBrace # "@" /\ LBrace # Underscore /\ LBrace # RBrace
  BY Zenon DEF LBrace, RBrace, Underscore
<1>3. RBrace # "/" /\ RBrace # "-" /\ RBrace # "." /\ RBrace # "@" /\ RBrace # Underscore
  BY Zenon DEF LBrace, RBrace, Underscore
<1>4. Underscore # "/"  BY Zenon DEF Underscore
<1> QED  BY <1>1, <1>2, <1>3, <1>4

\* A domain name has no brace and no slash in it.
LEMMA DomainSymbols ==
  ASSUME NEW s \in Text, IsDomainName(s)
  PROVE  s # <<>> /\ ~Contains(s, LBrace) /\ ~Contains(s, RBrace) /\ ~NamesVariable(s)
<1> DEFINE n == Len(s)
           Plain_ == Alphanumeric \cup {Underscore, "-", "."}
<1>1. n > 0 /\ \A i \in 1..n : s[i] \in Plain_  BY DEF IsDomainName
<1>2. LBrace \notin Plain_ /\ RBrace \notin Plain_  BY Punctuation
<1> HIDE DEF Plain_
<1>3. s # <<>>  BY <1>1
<1>4. ~Contains(s, LBrace) /\ ~Contains(s, RBrace)  BY <1>1, <1>2 DEF Contains
<1>5. ~NamesVariable(s)
  <2>1. n \in Nat  BY LenProperties DEF Text
  <2>2. 1 \in 1..n  BY <1>1, <2>1
  <2> QED  BY <1>1, <1>2, <2>2 DEF NamesVariable
<1> QED  BY <1>3, <1>4, <1>5

\* What Compile makes of segments that are well formed.
Compiled(raw) ==
  [i \in DOMAIN raw |-> IF NamesVariable(raw[i]) THEN VariableSegment(Inner(raw[i])) ELSE LiteralSegment(raw[i])]

\* Compile fails exactly on a malformed segment.
LEMMA CompileIs ==
  ASSUME NEW raw
  PROVE  /\ Compile(raw).ok <=> \A i \in DOMAIN raw : ~Malformed(raw, i)
         /\ Compile(raw).ok => Compile(raw) = Ok(Compiled(raw))
<1>1. CASE \E i \in DOMAIN raw : Malformed(raw, i)
  <2>1. Compile(raw) = Err("InvalidPattern")  BY <1>1 DEF Compile
  <2>2. ~Compile(raw).ok  BY ONLY <2>1 DEF Err
  <2> QED  BY <1>1, <2>2
<1>2. CASE ~\E i \in DOMAIN raw : Malformed(raw, i)
  <2>1. Compile(raw) = Ok(Compiled(raw))  BY <1>2 DEF Compile, Compiled
  <2>2. Compile(raw).ok  BY ONLY <2>1 DEF Ok
  <2> QED  BY <1>2, <2>1, <2>2
<1> QED  BY <1>1, <1>2

\* Pattern::parse is Compile on the parts of the body.
LEMMA ParseIs ==
  ASSUME NEW s \in Text
  PROVE  /\ PatternParse(s).ok <=> ~TwoSlashes(s) /\ Body(s) # <<>> /\ Compile(Split(Body(s), "/")).ok
         /\ PatternParse(s).ok => PatternParse(s) = Ok(Compiled(Split(Body(s), "/")))
<1>1. PatternParse(s) = IF TwoSlashes(s) \/ Body(s) = <<>> THEN Err("InvalidPattern") ELSE Compile(Split(Body(s), "/"))
  BY LeadIs DEF PatternParse, Body
<1>2. CASE TwoSlashes(s) \/ Body(s) = <<>>
  <2>1. PatternParse(s) = Err("InvalidPattern")  BY <1>1, <1>2
  <2>2. ~PatternParse(s).ok  BY ONLY <2>1 DEF Err
  <2> QED  BY <1>2, <2>2
<1>3. CASE ~(TwoSlashes(s) \/ Body(s) = <<>>)
  <2> DEFINE raw == Split(Body(s), "/")
  <2>1. PatternParse(s) = Compile(raw)  BY <1>1, <1>3
  <2> HIDE DEF raw
  <2>2. Compile(raw).ok => Compile(raw) = Ok(Compiled(raw))  BY CompileIs
  <2>3. PatternParse(s).ok <=> Compile(raw).ok  BY <2>1
  <2> QED  BY <1>3, <2>1, <2>2, <2>3 DEF raw
<1> QED  BY <1>2, <1>3

\* What is known of the segments of a pattern that parses.
LEMMA PatternFacts ==
  ASSUME NEW s \in Text, PatternParse(s).ok
  PROVE  LET raw == Split(Body(s), "/")
         IN  /\ s # <<>> /\ ~TwoSlashes(s) /\ Body(s) \in Text
             /\ PatternParse(s).value = Compiled(raw) /\ NameSegments(s) = raw
             /\ raw \in Seq(Text) /\ Len(raw) \in Nat \ {0} /\ DOMAIN raw = 1..Len(raw)
             /\ Joined(raw, "/") = Body(s)
             /\ \A i \in 1..Len(raw) : ~Malformed(raw, i) /\ raw[i] \in Text /\ raw[i] # <<>> /\ Without(raw[i], "/")
<1> DEFINE raw == Split(Body(s), "/")
<1>0. "/" \in Symbol  BY DEF Symbol
<1>1. ~TwoSlashes(s) /\ Body(s) # <<>> /\ Compile(raw).ok /\ PatternParse(s) = Ok(Compiled(raw))  BY ParseIs
<1>2. s # <<>>
  <2> SUFFICES ASSUME s = <<>> PROVE FALSE  OBVIOUS
  <2>1. ~Slash(s)  BY DEF Slash
  <2> QED  BY <1>1, <2>1 DEF Body
<1>3. Body(s) \in Text  BY BodyType
<1>4. NameSegments(s) = raw  BY <1>1, <1>2, BodySegments
<1>5. /\ raw \in PartsOf(Symbol) /\ Joined(raw, "/") = Body(s)
      /\ \A i \in 1..Len(raw) : Without(raw[i], "/")
  BY <1>0, <1>3, SplitJoins DEF Text
<1> HIDE DEF raw
<1>6. raw \in Seq(Text) /\ Len(raw) \in Nat \ {0} /\ DOMAIN raw = 1..Len(raw)
  BY <1>5, EmptySeq, LenProperties DEF PartsOf, Text
<1>7. \A i \in DOMAIN raw : ~Malformed(raw, i)  BY <1>1, CompileIs
<1>8. \A i \in 1..Len(raw) : raw[i] \in Text  BY <1>6, ElementOfSeq
<1>9. \A i \in 1..Len(raw) : raw[i] # <<>>  BY <1>6, <1>7 DEF Malformed
<1>10. PatternParse(s).value = Compiled(raw)
  <2> HIDE DEF Compiled
  <2> QED  BY ONLY <1>1 DEF Ok
<1> QED  BY <1>1, <1>2, <1>3, <1>4, <1>5, <1>6, <1>7, <1>8, <1>9, <1>10 DEF raw

\* One segment of a pattern, by what was written.
LEMMA CompiledAt ==
  ASSUME NEW raw, NEW i \in DOMAIN raw
  PROVE  /\ DOMAIN Compiled(raw) = DOMAIN raw
         /\ NamesVariable(raw[i]) =>
              Compiled(raw)[i] = VariableSegment(Inner(raw[i])) /\ Compiled(raw)[i].is = "Variable"
              /\ Compiled(raw)[i].text = Inner(raw[i])
         /\ ~NamesVariable(raw[i]) =>
              Compiled(raw)[i] = LiteralSegment(raw[i]) /\ Compiled(raw)[i].is = "Literal"
              /\ Compiled(raw)[i].text = raw[i]
<1> DEFINE c == Compiled(raw)[i]
           r == raw[i]
           x == Inner(raw[i])
<1>1. DOMAIN Compiled(raw) = DOMAIN raw  BY DEF Compiled
<1>2. c = IF NamesVariable(r) THEN VariableSegment(x) ELSE LiteralSegment(r)  BY DEF Compiled
<1> HIDE DEF c, r, x
<1>3. VariableSegment(x).is = "Variable" /\ VariableSegment(x).text = x  BY DEF VariableSegment
<1>4. LiteralSegment(r).is = "Literal" /\ LiteralSegment(r).text = r  BY DEF LiteralSegment
<1> QED  BY <1>1, <1>2, <1>3, <1>4 DEF c, r, x

\* A parsed pattern renders to the text it was parsed from.
LEMMA PatternRenders ==
  ASSUME NEW s \in Text, PatternParse(s).ok
  PROVE  Render(PatternParse(s).value) = Body(s)
<1> DEFINE raw == Split(Body(s), "/")
           p == Compiled(raw)
           f == [i \in DOMAIN p |-> IF p[i].is = "Variable" THEN <<LBrace>> \o p[i].text \o <<RBrace>> ELSE p[i].text]
<1>1. /\ PatternParse(s).value = p /\ raw \in Seq(Text) /\ DOMAIN raw = 1..Len(raw) /\ Len(raw) \in Nat
      /\ Joined(raw, "/") = Body(s)
      /\ \A i \in 1..Len(raw) : raw[i] \in Text
  BY PatternFacts
<1> HIDE DEF raw
<1>2. DOMAIN p = 1..Len(raw)  BY <1>1 DEF Compiled
<1> HIDE DEF p
<1>3. ASSUME NEW i \in 1..Len(raw) PROVE f[i] = raw[i]
  <2> DEFINE r == raw[i]
             t == p[i].text
  <2>1. f[i] = IF p[i].is = "Variable" THEN <<LBrace>> \o t \o <<RBrace>> ELSE t  BY <1>2
  <2>2. r \in Text /\ i \in DOMAIN raw  BY <1>1
  <2> HIDE DEF r, t, f
  <2>3. CASE NamesVariable(r)
    <3>1. p[i].is = "Variable" /\ t = Inner(r)  BY <2>2, <2>3, CompiledAt DEF p, r, t
    <3>2. <<LBrace>> \o Inner(r) \o <<RBrace>> = r  BY <2>2, <2>3, Braces
    <3> QED  BY <2>1, <3>1, <3>2 DEF r
  <2>4. CASE ~NamesVariable(r)
    <3>1. p[i].is = "Literal" /\ t = r  BY <2>2, <2>4, CompiledAt DEF p, r, t
    <3>2. p[i].is # "Variable"  BY <3>1
    <3> QED  BY <2>1, <3>1, <3>2 DEF r
  <2> QED  BY <2>3, <2>4
<1>4. f = raw
  <2>1. DOMAIN f = 1..Len(raw) /\ f = [i \in 1..Len(raw) |-> f[i]]  BY <1>2
  <2>2. raw = [i \in 1..Len(raw) |-> raw[i]]  BY <1>1
  <2> HIDE DEF f
  <2> QED  BY <1>3, <2>1, <2>2
<1>5. Render(p) = Joined(f, "/")  BY DEF Render
<1> QED  BY <1>1, <1>4, <1>5

\* A name of segments that are not empty and hold no slash.
LEMMA NameOf ==
  ASSUME NEW q, q \in Seq(Text), Len(q) > 0, \A i \in 1..Len(q) : q[i] # <<>> /\ Without(q[i], "/")
  PROVE  /\ Joined(q, "/") \in Text /\ Joined(q, "/") # <<>>
         /\ Lead(Joined(q, "/")) = 0 /\ ~TwoSlashes(Joined(q, "/")) /\ ~Slash(Joined(q, "/"))
         /\ Split(Joined(q, "/"), "/") = q
         /\ NameSegments(Joined(q, "/")) = q
<1> DEFINE s == Joined(q, "/")
<1>0. "/" \in Symbol  BY DEF Symbol
<1>1. q \in PartsOf(Symbol) /\ Len(q) \in Nat
  <2>1. q # <<>>  OBVIOUS
  <2> QED  BY <2>1, LenProperties DEF PartsOf, Text
<1>2. s \in Text /\ Split(s, "/") = q  BY <1>0, <1>1, JoinedSplits DEF Text
<1>3. q[1] \in Text /\ q[1] # <<>> /\ Without(q[1], "/")
  <2>1. 1 \in 1..Len(q)  BY <1>1
  <2> QED  BY <2>1, ElementOfSeq
<1> HIDE DEF s
<1>4. s # <<>>
  <2> SUFFICES ASSUME s = <<>> PROVE FALSE  OBVIOUS
  <2>1. q = << <<>> >>  BY <1>2, SplitEmpty
  <2> QED  BY <1>3, <2>1
<1>5. ~Slash(s)
  <2> SUFFICES ASSUME Slash(s) PROVE FALSE  OBVIOUS
  <2> DEFINE e == <<>>
             b == Split(Body(s), "/")
  <2>1. Split(e, "/") = <<e>> /\ e \in Seq(Symbol)  BY <1>0, SplitEmpty
  <2>2. s = AddPart(e, Body(s), "/") /\ Body(s) \in Seq(Symbol)  BY <1>2, BodyType DEF Text
  <2> HIDE DEF e
  <2>3. q = <<e>> \o b  BY <1>0, <1>2, <2>1, <2>2, SplitConcat
  <2>4. b \in Seq(Seq(Symbol)) /\ Len(b) \in Nat  BY <2>2, SplitType, LenProperties DEF PartsOf
  <2> DEFINE a == <<e>>
  <2>5. a \in Seq(Seq(Symbol)) /\ Len(a) = 1 /\ a[1] = e  BY <2>1
  <2> HIDE DEF a, b
  <2>6. (a \o b)[1] = a[1]
    <3>1. 1 \in 1..(Len(a) + Len(b)) /\ 1 <= Len(a)  BY <2>4, <2>5
    <3>2. \A k \in 1..(Len(a) + Len(b)) : (a \o b)[k] = IF k <= Len(a) THEN a[k] ELSE b[k - Len(a)]
      BY <2>4, <2>5, ConcatProperties
    <3> QED  BY <3>1, <3>2
  <2>7. q[1] = e  BY <2>3, <2>5, <2>6 DEF a
  <2> QED  BY <1>3, <2>7 DEF e
<1>6. ~TwoSlashes(s)
  <2> SUFFICES ASSUME TwoSlashes(s) PROVE FALSE  OBVIOUS
  <2>1. Slash(s)  BY <1>4 DEF TwoSlashes, Slash
  <2> QED  BY <1>5, <2>1
<1>7. Lead(s) = 0  BY <1>2, <1>5, <1>6, LeadIs
<1>8. NameSegments(s) = q
  <2>1. NameSegments(s) = Split(Body(s), "/")  BY <1>2, <1>4, <1>6, BodySegments
  <2> QED  BY <1>2, <1>5, <2>1 DEF Body
<1> QED  BY <1>2, <1>4, <1>5, <1>6, <1>7, <1>8 DEF s

\* The segments of a pattern that parses.
WellFormed(raw) ==
  raw \in Seq(Text) /\ Len(raw) \in Nat /\ Len(raw) > 0 /\ DOMAIN raw = 1..Len(raw)
  /\ \A i \in 1..Len(raw) : ~Malformed(raw, i) /\ raw[i] \in Text

\* No variable is named twice, so that a name has one place in the pattern.
LEMMA OnePlace ==
  ASSUME NEW raw, WellFormed(raw), NEW i \in 1..Len(raw), NamesVariable(raw[i])
  PROVE  IndexOf(Compiled(raw), Inner(raw[i])) = i
<1> DEFINE p == Compiled(raw)
           v == Inner(raw[i])
<1>0. /\ raw \in Seq(Text) /\ Len(raw) \in Nat /\ DOMAIN raw = 1..Len(raw)
      /\ \A k \in 1..Len(raw) : ~Malformed(raw, k) /\ raw[k] \in Text
  BY DEF WellFormed
<1>1. DOMAIN p = 1..Len(raw) /\ p[i] = VariableSegment(v)  BY <1>0, CompiledAt
<1>2. ASSUME NEW j \in 1..Len(raw), p[j] = VariableSegment(v) PROVE j = i
  <2>1. NamesVariable(raw[j]) /\ Inner(raw[j]) = v
    <3>0. VariableSegment(v).is = "Variable" /\ VariableSegment(v).text = v  BY DEF VariableSegment
    <3>1. CASE NamesVariable(raw[j])
      <4>1. p[j].text = Inner(raw[j])  BY <1>0, <3>1, CompiledAt
      <4> HIDE DEF p, v
      <4> QED  BY <1>2, <3>0, <3>1, <4>1
    <3>2. CASE ~NamesVariable(raw[j])
      <4>1. p[j].is = "Literal"  BY <1>0, <3>2, CompiledAt
      <4> HIDE DEF p, v
      <4> QED  BY <1>2, <3>0, <4>1
    <3> QED  BY <3>1, <3>2
  <2>2. raw[j] = raw[i]
    <3>1. <<LBrace>> \o Inner(raw[j]) \o <<RBrace>> = raw[j]  BY <1>0, <2>1, Braces
    <3>2. <<LBrace>> \o Inner(raw[i]) \o <<RBrace>> = raw[i]  BY <1>0, Braces
    <3> QED  BY <2>1, <3>1, <3>2
  <2>3. ~(j < i)
    <3> SUFFICES ASSUME j < i PROVE FALSE  OBVIOUS
    <3>1. j \in 1..(i - 1)  BY <1>0
    <3>2. Malformed(raw, i)  BY <2>2, <3>1 DEF Malformed
    <3> QED  BY <1>0, <3>2
  <2>4. ~(i < j)
    <3> SUFFICES ASSUME i < j PROVE FALSE  OBVIOUS
    <3>1. i \in 1..(j - 1)  BY <1>0
    <3>2. Malformed(raw, j)  BY <2>1, <2>2, <3>1 DEF Malformed
    <3> QED  BY <1>0, <3>2
  <2> QED  BY <1>0, <2>3, <2>4
<1> HIDE DEF p, v
<1>3. IndexOf(p, v) = CHOOSE k \in DOMAIN p : p[k] = VariableSegment(v)  BY DEF IndexOf
<1>4. IndexOf(p, v) \in 1..Len(raw) /\ p[IndexOf(p, v)] = VariableSegment(v)  BY <1>1, <1>3
<1>5. IndexOf(p, v) = i  BY <1>2, <1>4
<1> QED  BY <1>5 DEF p, v

\* The variables of a pattern, and the segments it writes for their values.
LEMMA VariablesAre ==
  ASSUME NEW raw, WellFormed(raw)
  PROVE  Variables(Compiled(raw)) = {Inner(raw[i]) : i \in {j \in 1..Len(raw) : NamesVariable(raw[j])}}
<1> DEFINE p == Compiled(raw)
           V == {j \in 1..Len(raw) : NamesVariable(raw[j])}
<1>0. DOMAIN raw = 1..Len(raw)  BY DEF WellFormed
<1>1. ASSUME NEW i \in 1..Len(raw)
      PROVE  /\ p[i].is = "Variable" <=> NamesVariable(raw[i])
             /\ NamesVariable(raw[i]) => p[i].text = Inner(raw[i])
  <2>1. CASE NamesVariable(raw[i])  BY <1>0, <2>1, CompiledAt
  <2>2. CASE ~NamesVariable(raw[i])
    <3>1. p[i].is = "Literal"  BY <1>0, <2>2, CompiledAt
    <3> HIDE DEF p
    <3> QED  BY <2>2, <3>1
  <2> QED  BY <2>1, <2>2
<1>2. DOMAIN p = 1..Len(raw)  BY <1>0 DEF Compiled
<1> HIDE DEF p
<1>3. {j \in DOMAIN p : p[j].is = "Variable"} = V  BY <1>1, <1>2
<1>4. Variables(p) = {p[i].text : i \in V}  BY <1>3 DEF Variables
<1>5. \A i \in V : p[i].text = Inner(raw[i])  BY <1>1
<1> HIDE DEF V
<1>6. Variables(p) = {Inner(raw[i]) : i \in V}  BY <1>4, <1>5
<1> QED  BY <1>6 DEF p, V

\* Formatting: each segment is a literal's own text or its variable's value.
LEMMA FormatIs ==
  ASSUME NEW raw, WellFormed(raw), NEW provided, DOMAIN provided = Variables(Compiled(raw)),
         NEW seg, DOMAIN seg = 1..Len(raw), seg = [i \in 1..Len(raw) |-> seg[i]],
         \A i \in 1..Len(raw) : seg[i] = IF NamesVariable(raw[i]) THEN provided[Inner(raw[i])] ELSE raw[i]
  PROVE  Format(Compiled(raw), provided) = Ok(Joined(seg, "/"))
<1> DEFINE p == Compiled(raw)
           f == [i \in DOMAIN p |-> IF p[i].is = "Variable" THEN provided[p[i].text] ELSE p[i].text]
<1>0. DOMAIN raw = 1..Len(raw)  BY DEF WellFormed
<1>1. Format(p, provided) = Ok(Joined(f, "/"))  BY DEF Format
<1>2. DOMAIN p = 1..Len(raw)  BY <1>0 DEF Compiled
<1>3. ASSUME NEW i \in 1..Len(raw) PROVE f[i] = seg[i]
  <2>1. CASE NamesVariable(raw[i])
    <3>1. p[i].is = "Variable" /\ p[i].text = Inner(raw[i])  BY <1>0, <2>1, CompiledAt
    <3> HIDE DEF p
    <3>2. f[i] = provided[Inner(raw[i])]  BY <1>2, <3>1
    <3> QED  BY <2>1, <3>2
  <2>2. CASE ~NamesVariable(raw[i])
    <3>1. p[i].is = "Literal" /\ p[i].text = raw[i]  BY <1>0, <2>2, CompiledAt
    <3> HIDE DEF p
    <3>2. f[i] = raw[i]  BY <1>2, <3>1
    <3> QED  BY <2>2, <3>2
  <2> QED  BY <2>1, <2>2
<1> HIDE DEF p
<1>4. f = [i \in 1..Len(raw) |-> f[i]]  BY <1>2
<1> HIDE DEF f
<1>5. f = seg  BY <1>3, <1>4
<1> QED  BY <1>1, <1>5 DEF p

\* A name that fits a pattern is written back from what its variables are
\* bound to.
LEMMA FormatsBack ==
  ASSUME NEW raw, WellFormed(raw), NEW seg, seg \in Seq(Text), Fits(Compiled(raw), seg)
  PROVE  LET p == Compiled(raw)
             values == [v \in Variables(p) |-> seg[IndexOf(p, v)]]
         IN  Bind(p, seg) = Ok(values) /\ Format(p, values) = Ok(Joined(seg, "/"))
<1> DEFINE p == Compiled(raw)
           values == [v \in Variables(p) |-> seg[IndexOf(p, v)]]
<1>0. DOMAIN raw = 1..Len(raw) /\ Len(raw) \in Nat /\ Len(raw) > 0  BY DEF WellFormed
<1>1. Bind(p, seg) = Ok(values)  BY DEF Bind
<1>2. DOMAIN p = 1..Len(raw)  BY <1>0 DEF Compiled
<1>3. Len(seg) = Len(raw) /\ DOMAIN seg = 1..Len(raw) /\ seg = [i \in 1..Len(raw) |-> seg[i]]
  <2>1. Len(seg) = Len(p)  BY DEF Fits
  <2>2. Len(p) = Len(raw)
    <3>1. p = [i \in 1..Len(raw) |-> p[i]]  BY <1>0, <1>2 DEF Compiled
    <3> HIDE DEF p
    <3> QED  BY <1>0, <3>1
  <2>3. DOMAIN seg = 1..Len(seg) /\ seg \in [1..Len(seg) -> Text]  BY LenProperties
  <2> QED  BY <2>1, <2>2, <2>3
<1>4. ASSUME NEW i \in 1..Len(raw)
      PROVE  seg[i] = IF NamesVariable(raw[i]) THEN values[Inner(raw[i])] ELSE raw[i]
  <2>1. CASE NamesVariable(raw[i])
    <3>1. IndexOf(p, Inner(raw[i])) = i  BY <2>1, OnePlace
    <3>2. Inner(raw[i]) \in Variables(p)  BY <2>1, VariablesAre
    <3> HIDE DEF p
    <3> QED  BY <2>1, <3>1, <3>2
  <2>2. CASE ~NamesVariable(raw[i])
    <3>1. p[i].is = "Literal" /\ p[i].text = raw[i]  BY <1>0, <2>2, CompiledAt
    <3>2. p[i].is = "Literal" => seg[i] = p[i].text  BY <1>2 DEF Fits
    <3> QED  BY <2>2, <3>1, <3>2
  <2> QED  BY <2>1, <2>2
<1>5. DOMAIN values = Variables(p)  OBVIOUS
<1> HIDE DEF values
<1>6. Format(p, values) = Ok(Joined(seg, "/"))  BY <1>3, <1>4, <1>5, FormatIs
<1> QED  BY <1>1, <1>6 DEF values

\* A text that the free functions accept has segments without an error.
LEMMA ValidPattern ==
  ASSUME NEW s \in Text, ValidatePattern(s).ok
  PROVE  /\ s # <<>> /\ ~TwoSlashes(s) /\ NameSegments(s) = Split(Body(s), "/")
         /\ NameSegments(s) \in Seq(Text) /\ Len(NameSegments(s)) \in Nat
         /\ \A i \in 1..Len(NameSegments(s)) : PatternVerdict(NameSegments(s)[i]) = "none"
<1> DEFINE scan == Scan(s)
           raw == NameSegments(s)
           v == [i \in DOMAIN raw |-> PatternVerdict(raw[i])]
           error == FirstError(v)
<1>1. scan.segments = raw  BY DEF NameSegments
<1>2. s # <<>>
  <2> SUFFICES ASSUME s = <<>> PROVE FALSE  OBVIOUS
  <2>1. ValidatePattern(s) = Err("InvalidPattern")  BY DEF ValidatePattern, ValidatePatternScan
  <2>2. ~ValidatePattern(s).ok  BY ONLY <2>1 DEF Err
  <2> QED  BY <2>2
<1>3. error = "none"
  <2> SUFFICES ASSUME error # "none" PROVE FALSE  OBVIOUS
  <2> HIDE DEF scan, raw
  <2>1. FirstError([i \in DOMAIN scan.segments |-> PatternVerdict(scan.segments[i])]) = error  BY <1>1
  <2> HIDE DEF error
  <2>2. ValidatePattern(s) = Err(error)  BY <1>2, <2>1 DEF ValidatePattern, ValidatePatternScan, scan
  <2>3. ~ValidatePattern(s).ok  BY ONLY <2>2 DEF Err
  <2> QED  BY <2>3
<1>4. ~scan.full
  <2> SUFFICES ASSUME scan.full PROVE FALSE  OBVIOUS
  <2> HIDE DEF scan, raw
  <2>1. FirstError([i \in DOMAIN scan.segments |-> PatternVerdict(scan.segments[i])]) = "none"  BY <1>1, <1>3
  <2>2. ValidatePattern(s) = Err("InvalidPattern")  BY <1>2, <2>1 DEF ValidatePattern, ValidatePatternScan, scan
  <2>3. ~ValidatePattern(s).ok  BY ONLY <2>2 DEF Err
  <2> QED  BY <2>3
<1>5. ~TwoSlashes(s)  BY <1>2, <1>4, SegmentsAre
<1>6. raw = Split(Body(s), "/")  BY <1>2, <1>5, BodySegments
<1>7. raw \in Seq(Text) /\ Len(raw) \in Nat /\ DOMAIN raw = 1..Len(raw)
  BY <1>6, BodyType, SplitType, LenProperties DEF PartsOf, Text
<1> HIDE DEF raw
<1>8. DOMAIN v = 1..Len(raw) /\ Len(v) = Len(raw)
  <2>1. v = [i \in 1..Len(raw) |-> PatternVerdict(raw[i])]  BY <1>7
  <2> QED  BY <1>7, <2>1
<1> HIDE DEF v
<1>9. \A i \in 1..Len(raw) : v[i] = "none"  BY <1>3, <1>7, <1>8, NoError
<1>10. \A i \in 1..Len(raw) : PatternVerdict(raw[i]) = "none"  BY <1>7, <1>9 DEF v
<1> QED  BY <1>2, <1>5, <1>6, <1>7, <1>10 DEF raw

\* A valid name is not empty and no segment of it has an error.
LEMMA ValidName ==
  ASSUME NEW s \in Text, Validate(s).ok
  PROVE  /\ s # <<>> /\ Validate(s) = Ok(s)
         /\ \A i \in DOMAIN NameSegments(s) :
              NameSegments(s) \in Seq(Text) => NameVerdict(NameSegments(s)[i]) = "none"
<1> DEFINE scan == Scan(s)
           raw == NameSegments(s)
           v == [i \in DOMAIN raw |-> NameVerdict(raw[i])]
           error == FirstError(v)
<1>1. scan.segments = raw  BY DEF NameSegments
<1>2. s # <<>>
  <2> SUFFICES ASSUME s = <<>> PROVE FALSE  OBVIOUS
  <2>1. Validate(s) = Err("Empty")  BY DEF Validate, ValidateScan
  <2>2. ~Validate(s).ok  BY ONLY <2>1 DEF Err
  <2> QED  BY <2>2
<1>3. error = "none"
  <2> SUFFICES ASSUME error # "none" PROVE FALSE  OBVIOUS
  <2> HIDE DEF scan, raw
  <2>1. FirstError([i \in DOMAIN scan.segments |-> NameVerdict(scan.segments[i])]) = error  BY <1>1
  <2> HIDE DEF error
  <2>2. Validate(s) = Err(error)  BY <1>2, <2>1 DEF Validate, ValidateScan, scan
  <2>3. ~Validate(s).ok  BY ONLY <2>2 DEF Err
  <2> QED  BY <2>3
<1>4. ~(scan.full /\ ~IsDomainName(scan.service)) /\ Validate(s) = Ok(s)
  <2> HIDE DEF scan, raw
  <2>1. FirstError([i \in DOMAIN scan.segments |-> NameVerdict(scan.segments[i])]) = "none"  BY <1>1, <1>3
  <2>2. CASE scan.full /\ ~IsDomainName(scan.service)
    <3>1. Validate(s) = Err("InvalidDnsName")  BY <1>2, <2>1, <2>2 DEF Validate, ValidateScan, scan
    <3>2. ~Validate(s).ok  BY ONLY <3>1 DEF Err
    <3> QED  BY <3>2
  <2>3. CASE ~(scan.full /\ ~IsDomainName(scan.service))
    <3>1. Validate(s) = Ok(s)  BY <1>2, <2>1, <2>3 DEF Validate, ValidateScan, scan
    <3> QED  BY <2>3, <3>1
  <2> QED  BY <2>2, <2>3
<1>5. ASSUME raw \in Seq(Text), NEW i \in DOMAIN raw PROVE NameVerdict(raw[i]) = "none"
  <2> HIDE DEF raw
  <2>1. Len(raw) \in Nat /\ DOMAIN raw = 1..Len(raw)  BY <1>5, LenProperties
  <2>2. DOMAIN v = 1..Len(raw) /\ Len(v) = Len(raw)
    <3>1. v = [k \in 1..Len(raw) |-> NameVerdict(raw[k])]  BY <2>1
    <3> QED  BY <2>1, <3>1
  <2> HIDE DEF v
  <2>3. \A k \in 1..Len(raw) : v[k] = "none"  BY <1>3, <2>1, <2>2, NoError
  <2> QED  BY <1>5, <2>1, <2>3 DEF v
<1> QED  BY <1>2, <1>4, <1>5

\* Segments without an error.
LEMMA VerdictNone ==
  ASSUME NEW r \in Text
  PROVE  /\ PatternVerdict(r) = "none" => /\ r # <<>> /\ r # WILDCARD
                                          /\ IsVariable(r) \/ IsDomainName(r)
         /\ NameVerdict(r) = "none" => /\ r # <<>> /\ ~IsVariable(r)
                                       /\ r = WILDCARD \/ IsDomainName(r)
<1>1. r = <<>> => ~IsWildcard(r) /\ ~IsVariable(r) /\ ~IsDomainName(r)
  <2> SUFFICES ASSUME r = <<>> PROVE ~IsWildcard(r) /\ ~IsVariable(r) /\ ~IsDomainName(r)  OBVIOUS
  <2>1. Len(r) = 0  OBVIOUS
  <2>2. ~IsWildcard(r)  BY DEF IsWildcard, WILDCARD
  <2> QED  BY <2>1, <2>2 DEF IsVariable, IsDomainName
<1>2. IsWildcard(r) => ~IsVariable(r) /\ ~IsDomainName(r)
  <2> SUFFICES ASSUME IsWildcard(r) PROVE ~IsVariable(r) /\ ~IsDomainName(r)  OBVIOUS
  <2>1. Len(r) = 1 /\ r[1] = "-"  BY DEF IsWildcard, WILDCARD
  <2>2. ~IsVariable(r)  BY <2>1 DEF IsVariable
  <2>3. ~IsDomainName(r)
    <3>1. 1 \in 1..Len(r)  BY <2>1
    <3>2. IsDomainName(r) => (r[1] = "-" => 1 > 1 /\ r[1 - 1] # ".")  BY <3>1 DEF IsDomainName
    <3> QED  BY <2>1, <3>2
  <2> QED  BY <2>2, <2>3
<1>3. IsVariable(r) => NamesVariable(r) /\ ~IsDomainName(r)
  <2>1. Len(r) \in Nat  BY LenProperties DEF Text
  <2>2. IsVariable(r) => NamesVariable(r)  BY <2>1 DEF IsVariable, NamesVariable
  <2> QED  BY <2>2, DomainSymbols
<1>4. CASE r = <<>>
  <2>1. PatternVerdict(r) = "EmptySegment"  BY <1>1, <1>4 DEF PatternVerdict
  <2>2. NameVerdict(r) = "EmptySegment"  BY <1>1, <1>4 DEF NameVerdict
  <2> QED  BY <2>1, <2>2
<1>5. CASE r # <<>> /\ IsWildcard(r)
  <2>1. PatternVerdict(r) = "InvalidPattern"  BY <1>2, <1>5 DEF PatternVerdict
  <2> QED  BY <1>2, <1>5, <2>1 DEF IsWildcard
<1>6. CASE r # <<>> /\ ~IsWildcard(r) /\ IsVariable(r)
  <2>1. NameVerdict(r) = "VariableInName"  BY <1>3, <1>6 DEF NameVerdict
  <2> QED  BY <1>6, <2>1 DEF IsWildcard
<1>7. CASE r # <<>> /\ ~IsWildcard(r) /\ ~IsVariable(r) /\ IsDomainName(r)  BY <1>7 DEF IsWildcard
<1>8. CASE r # <<>> /\ ~IsWildcard(r) /\ ~IsVariable(r) /\ ~IsDomainName(r)
  <2>1. PatternVerdict(r) = "InvalidDnsName"  BY <1>8 DEF PatternVerdict
  <2>2. NameVerdict(r) = "InvalidDnsName"  BY <1>8 DEF NameVerdict
  <2> QED  BY <2>1, <2>2
<1> QED  BY <1>4, <1>5, <1>6, <1>7, <1>8

\* A well-formed pattern whose variables differ parses.
LEMMA ValidParses ==
  ASSUME NEW s \in Text, ValidatePattern(s).ok,
         ~\E i, j \in DOMAIN NameSegments(s) :
            i # j /\ IsVariable(NameSegments(s)[i]) /\ NameSegments(s)[i] = NameSegments(s)[j]
  PROVE  PatternParse(s).ok
<1> DEFINE raw == NameSegments(s)
<1>1. /\ s # <<>> /\ ~TwoSlashes(s) /\ raw = Split(Body(s), "/") /\ raw \in Seq(Text) /\ Len(raw) \in Nat
      /\ \A i \in 1..Len(raw) : PatternVerdict(raw[i]) = "none"
  BY ValidPattern
<1> HIDE DEF raw
<1>2. DOMAIN raw = 1..Len(raw) /\ \A i \in 1..Len(raw) : raw[i] \in Text  BY <1>1, LenProperties, ElementOfSeq
<1>3. ASSUME NEW i \in 1..Len(raw)
      PROVE  raw[i] # <<>> /\ raw[i] # WILDCARD /\ (IsVariable(raw[i]) \/ IsDomainName(raw[i]))
  BY <1>1, <1>2, VerdictNone
<1>4. Body(s) # <<>>
  <2> SUFFICES ASSUME Body(s) = <<>> PROVE FALSE  OBVIOUS
  <2>1. raw = << <<>> >>  BY <1>1, SplitEmpty
  <2>2. 1 \in 1..Len(raw) /\ raw[1] = <<>>  BY <2>1
  <2> QED  BY <1>3, <2>2
<1>5. ASSUME NEW i \in 1..Len(raw) PROVE ~Malformed(raw, i)
  <2> DEFINE r == raw[i]
  <2>1. r \in Text /\ r # <<>> /\ r # WILDCARD /\ (IsVariable(r) \/ IsDomainName(r))  BY <1>2, <1>3
  <2>2. NamesVariable(r) => IsVariable(r)  BY <2>1, DomainSymbols
  <2>3. r # <<LBrace, RBrace>>
    <3> SUFFICES ASSUME r = <<LBrace, RBrace>> PROVE FALSE  OBVIOUS
    <3> HIDE DEF r
    <3>1. Len(r) = 2 /\ r[1] = LBrace /\ r[2] = RBrace  OBVIOUS
    <3>2. NamesVariable(r) /\ ~IsVariable(r)  BY <3>1 DEF NamesVariable, IsVariable
    <3> QED  BY <2>2, <3>2
  <2>4. ~(NamesVariable(r) /\ \E j \in 1..(i - 1) : raw[j] = r)
    <3> SUFFICES ASSUME NamesVariable(r), NEW j \in 1..(i - 1), raw[j] = r PROVE FALSE  OBVIOUS
    <3>1. j \in 1..Len(raw) /\ i # j  BY <1>1
    <3>2. IsVariable(r)  BY <2>2
    <3> QED  BY <1>2, <3>1, <3>2 DEF raw
  <2>5. ~NamesVariable(r) => ~Contains(r, LBrace) /\ ~Contains(r, RBrace)
    <3>1. IsVariable(r) => NamesVariable(r)
      <4>1. Len(r) \in Nat  BY <2>1, LenProperties DEF Text
      <4> HIDE DEF r
      <4> QED  BY <4>1 DEF IsVariable, NamesVariable
    <3> QED  BY <2>1, <3>1, DomainSymbols
  <2> QED  BY <2>1, <2>3, <2>4, <2>5 DEF Malformed
<1>6. Compile(raw).ok  BY <1>2, <1>5, CompileIs
<1> QED  BY <1>1, <1>4, <1>6, ParseIs

\* A well-formed name without wildcards is a pattern, and matches itself.
LEMMA NameMatchesItself ==
  ASSUME NEW s \in Text, Validate(s).ok, ~ContainsWildcard(s), ~Scan(s).full
  PROVE  IsMatch(s, s)
<1> DEFINE raw == NameSegments(s)
           p == Compiled(raw)
<1>1. s # <<>> /\ ~TwoSlashes(s) /\ raw = Split(Body(s), "/")  BY ValidName, SegmentsAre, BodySegments
<1>2. raw \in Seq(Text) /\ Len(raw) \in Nat /\ DOMAIN raw = 1..Len(raw)
  BY <1>1, BodyType, SplitType, LenProperties DEF PartsOf, Text
<1>3. \A i \in 1..Len(raw) : NameVerdict(raw[i]) = "none"  BY <1>2, ValidName
<1>4. \A i \in 1..Len(raw) : raw[i] # WILDCARD  BY <1>2 DEF ContainsWildcard, IsWildcard
<1> HIDE DEF raw
<1>5. \A i \in 1..Len(raw) : raw[i] \in Text  BY <1>2, ElementOfSeq
<1>6. ASSUME NEW i \in 1..Len(raw)
      PROVE  raw[i] # <<>> /\ ~Contains(raw[i], LBrace) /\ ~Contains(raw[i], RBrace) /\ ~NamesVariable(raw[i])
  <2>1. IsDomainName(raw[i])  BY <1>3, <1>4, <1>5, VerdictNone
  <2> QED  BY <1>5, <2>1, DomainSymbols
<1>7. Body(s) # <<>>
  <2> SUFFICES ASSUME Body(s) = <<>> PROVE FALSE  OBVIOUS
  <2>1. raw = << <<>> >>  BY <1>1, SplitEmpty
  <2>2. 1 \in 1..Len(raw) /\ raw[1] = <<>>  BY <2>1
  <2> QED  BY <1>6, <2>2
<1>8. ASSUME NEW i \in 1..Len(raw) PROVE ~Malformed(raw, i)
  <2>1. raw[i] # <<LBrace, RBrace>>
    <3> DEFINE b == <<LBrace, RBrace>>
    <3>1. Len(b) = 2 /\ b[1] = LBrace /\ b[2] = RBrace  OBVIOUS
    <3> HIDE DEF b
    <3>2. NamesVariable(b)  BY <3>1 DEF NamesVariable
    <3> QED  BY <1>6, <3>2 DEF b
  <2> QED  BY <1>4, <1>6, <2>1 DEF Malformed
<1>9. PatternParse(s).ok /\ PatternParse(s) = Ok(p)
  <2>1. Compile(raw).ok  BY <1>2, <1>8, CompileIs
  <2> QED  BY <1>1, <1>7, <2>1, ParseIs
<1>10. PatternParse(s).value = p
  <2> HIDE DEF p
  <2> QED  BY ONLY <1>9 DEF Ok
<1>11. Fits(p, raw)
  <2>1. Len(raw) = Len(p) /\ DOMAIN p = 1..Len(raw)
    <3>1. p = [i \in 1..Len(raw) |-> p[i]]  BY <1>2 DEF Compiled
    <3> HIDE DEF p
    <3> QED  BY <1>2, <3>1
  <2>2. ASSUME NEW i \in 1..Len(raw)
        PROVE  /\ ~NamesVariable(raw[i]) /\ (p[i].is = "Literal" => raw[i] = p[i].text)
               /\ p[i].is = "Variable" => raw[i] # <<>>
    <3>1. p[i].is = "Literal" /\ p[i].text = raw[i]  BY <1>2, <1>6, CompiledAt
    <3> QED  BY <1>6, <3>1
  <2> HIDE DEF p
  <2> QED  BY <2>1, <2>2 DEF Fits
<1>12. MatchName(p, s).ok
  <2> DEFINE values == [v \in Variables(p) |-> raw[IndexOf(p, v)]]
  <2>1. MatchName(p, s) = Ok(values)  BY <1>11 DEF MatchName, Bind, raw
  <2> HIDE DEF values
  <2> QED  BY ONLY <2>1 DEF Ok
<1> QED  BY <1>9, <1>10, <1>12 DEF IsMatch

-----------------------------------------------------------------------------
(* The requests.                                                             *)

\* What a request carries is a text, unless it is an instant.
Typed == form \in Forms /\ (form \in TextForms => text \in Text)

\* Strings are symbols.
LEMMA StringsAreText == ASSUME NEW s \in Seq(STRING) PROVE s \in Text
<1>1. Len(s) \in Nat /\ s \in [1..Len(s) -> STRING]  BY LenProperties
<1>2. s \in [1..Len(s) -> Symbol]  BY <1>1 DEF Symbol
<1> QED  BY <1>1, <1>2 DEF Text

\* Every step of a request keeps it so.
LEMMA AlwaysTyped == Spec => []Typed
<1>0. \A f \in TextForms \cap Forms : Starts[f] \subseteq Text /\ Pieces[f] \subseteq Text
  BY RequestsAssumption, StringsAreText DEF Forms
<1>1. Init => Typed  BY <1>0 DEF Init, Typed
<1>2. Typed /\ [Next]_vars => Typed'
  <2> SUFFICES ASSUME Typed, [Next]_vars PROVE Typed'  OBVIOUS
  <2>1. CASE Write
    <3>1. PICK piece \in Pieces[form] : text' = text \o piece /\ form' = form  BY <2>1 DEF Write
    <3>2. ASSUME form \in TextForms PROVE text' \in Text
      <4>1. text \in Seq(Symbol) /\ piece \in Seq(Symbol)  BY <1>0, <3>1, <3>2 DEF Typed, Text
      <4> QED  BY <3>1, <4>1, ConcatProperties DEF Text
    <3> QED  BY <3>1, <3>2 DEF Typed, Forms
  <2>2. CASE StartOver  BY <1>0, <2>2 DEF StartOver, Typed, Forms
  <2>3. CASE UNCHANGED vars  BY <2>3 DEF vars, Typed, Forms
  <2> QED  BY <2>1, <2>2, <2>3 DEF Next
<1> QED  BY <1>1, <1>2, PTL DEF Spec

\* Members, roles, operations and the other texts that aip-iam, aip-lro,
\* aip-ordering and aip-reflect accept keep what they were read from, whatever
\* the text and the alphabet.
THEOREM TextsRoundTrip == Spec => []TextRoundTrips
<1>1. Typed => TextRoundTrips
  <2> SUFFICES ASSUME Typed PROVE TextRoundTrips  OBVIOUS
  <2>0. form \in TextForms => text \in Text  BY DEF Typed
  <2>1. ASSUME form = "member", ParseMember(text).ok
        PROVE  /\ PrintMember(ParseMember(text).value) = text
               /\ GrantAdmits(text, <<ParseMember(text).value>>)
               /\ GrantAdmits(text, <<>>) = (text = <<"allUsers">>)
    <3>1. text \in Text  BY <2>0, <2>1 DEF TextForms
    <3> QED  BY <2>1, <3>1, MemberPrints
  <2>2. ASSUME form = "role", ParseRole(text).ok PROVE PrintRole(ParseRole(text).value) = text
    <3>1. text \in Text  BY <2>0, <2>2 DEF TextForms
    <3> QED  BY <2>2, <3>1, RolePrints
  <2>3. ASSUME form = "permission", ParsePermission(text).ok
        PROVE  IsPrefix(Service(text) \o <<".">>, text) /\ IsSuffix(<<".">> \o Verb(text), text)
    <3>1. text \in Text  BY <2>0, <2>3 DEF TextForms
    <3> QED  BY <2>3, <3>1, PermissionEnds
  <2>4. ASSUME form = "operation", ParseOperationName(text).ok
        PROVE  /\ PrintOperationName(ParseOperationName(text).value) = text
               /\ ParseOperationName(text).value.parent = <<>> => Len(NameSegments(text)) = 2
    <3>1. text \in Text  BY <2>0, <2>4 DEF TextForms
    <3> QED  BY <2>4, <3>1, OperationName
  <2>5. ASSUME form = "order_by", ParseOrderBy(text).ok
        PROVE  LET order == ParseOrderBy(text).value
                   raws  == Split(text, ",")
               IN  /\ text # <<>> => Len(order) = Len(raws)
                   /\ \A i \in DOMAIN order :
                        /\ Plain(raws[i]) = <<order[i].path>> \o (IF order[i].desc THEN << <<"desc">> >> ELSE <<>>)
                        /\ \A j \in DOMAIN SubFields(order[i]) : SubFields(order[i])[j] # <<>>
    <3>1. text \in Text  BY <2>0, <2>5 DEF TextForms
    <3> QED  BY <2>5, <3>1, OrderKeepsWords
  <2>6. ASSUME form = "resource_type", ValidateResourceType(text)
        PROVE  ServiceName(text) \o <<"/">> \o TypeName(text) = text
    <3>1. text \in Text  BY <2>0, <2>6 DEF TextForms
    <3> QED  BY <2>6, <3>1, TypeParts
  <2>7. ASSUME form = "grammatical", ValidateGrammatical(text) PROVE ValidateType(UpperCamelCase(text))
    <3>1. text \in Text  BY <2>0, <2>7 DEF TextForms
    <3> QED  BY <2>7, <3>1, CamelIsType
  <2> QED  BY <2>1, <2>2, <2>3, <2>4, <2>5, <2>6, <2>7 DEF TextRoundTrips
<1> QED  BY <1>1, AlwaysTyped, PTL

\* What the code relies on of a generated id.
LEMMA IdFacts ==
  ASSUME NEW id \in Ids
  PROVE  /\ id \in Text /\ id # <<>> /\ Without(id, "/") /\ Without(id, "@") /\ ~NamesVariable(id)
         /\ NameVerdict(id) = "none"
<1>1. /\ id \in Text /\ NameVerdict(id) = "none" /\ \A i \in 1..Len(id) : id[i] \in Alphanumeric \cup {"-"}
  BY RequestsAssumption, StringsAreText
<1>2. id # <<>>  BY <1>1, VerdictNone
<1>3. Len(id) \in Nat /\ Len(id) >= 1  BY <1>1, <1>2, EmptySeq, LenProperties DEF Text
<1>4. ASSUME NEW x \in {"/", "@", LBrace}, NEW i \in 1..Len(id) PROVE id[i] # x
  <2>1. x \notin Alphanumeric  BY Punctuation
  <2>2. x # "-"  BY Punctuation
  <2> QED  BY <1>1, <2>1, <2>2
<1>5. id[1] # LBrace
  <2>1. 1 \in 1..Len(id)  BY <1>3
  <2> QED  BY <1>4, <2>1
<1> QED  BY <1>1, <1>2, <1>4, <1>5 DEF Without, NamesVariable

\* A name that a pattern matches is formatted back from its captures.
LEMMA MatchFormats ==
  ASSUME NEW raw, WellFormed(raw), NEW seg, seg \in Seq(Text), Bind(Compiled(raw), seg).ok
  PROVE  Fits(Compiled(raw), seg) /\ Format(Compiled(raw), Bind(Compiled(raw), seg).value) = Ok(Joined(seg, "/"))
<1> DEFINE p == Compiled(raw)
           values == [v \in Variables(p) |-> seg[IndexOf(p, v)]]
<1>1. Fits(p, seg)
  <2> SUFFICES ASSUME ~Fits(p, seg) PROVE FALSE  OBVIOUS
  <2>1. Bind(p, seg) = Err("PatternMismatch")  BY DEF Bind
  <2> HIDE DEF p
  <2>2. ~Bind(p, seg).ok  BY ONLY <2>1 DEF Err
  <2> QED  BY <2>2 DEF p
<1>2. Bind(p, seg) = Ok(values) /\ Format(p, values) = Ok(Joined(seg, "/"))  BY <1>1, FormatsBack
<1> HIDE DEF values, p
<1>3. Bind(p, seg).value = values  BY ONLY <1>2 DEF Ok
<1> QED  BY <1>1, <1>2, <1>3 DEF p

\* A pattern that parses renders to its text and formats every name it matches
\* back; a well-formed one parses; a well-formed name matches itself.
THEOREM PatternsKeepNames == Spec => []PatternsRoundTrip
<1>1. Typed => PatternsRoundTrip
  <2> SUFFICES ASSUME Typed, form = "pattern" PROVE PatternsRoundTrip  BY DEF PatternsRoundTrip
  <2>0. text \in Text  BY DEF Typed, TextForms
  <2> DEFINE raw == NameSegments(text)
             parsed == PatternParse(text)
             names == {Joined(s, "/") : s \in [DOMAIN raw -> Ids \cup Range(raw)]}
             twice == \E i, j \in DOMAIN raw : i # j /\ IsVariable(raw[i]) /\ raw[i] = raw[j]
  <2>1. ASSUME parsed.ok PROVE Render(parsed.value) = IF IsPrefix(<<"/">>, text) THEN Tail(text) ELSE text
    <3>1. Render(parsed.value) = Body(text)  BY <2>0, <2>1, PatternRenders
    <3>2. IsPrefix(<<"/">>, text) <=> Slash(text)  BY <2>0, LeadIs
    <3> QED  BY <3>1, <3>2 DEF Body
  <2>2. ASSUME parsed.ok, NEW name \in names, MatchName(parsed.value, name).ok
        PROVE  Format(parsed.value, MatchName(parsed.value, name).value) = Ok(name)
    <3>1. PICK s \in [DOMAIN raw -> Ids \cup Range(raw)] : name = Joined(s, "/")  OBVIOUS
    <3>2. /\ parsed.value = Compiled(raw) /\ WellFormed(raw)
          /\ raw \in Seq(Text) /\ Len(raw) \in Nat \ {0} /\ DOMAIN raw = 1..Len(raw)
          /\ \A i \in 1..Len(raw) : raw[i] \in Text /\ raw[i] # <<>> /\ Without(raw[i], "/")
      BY <2>0, <2>2, PatternFacts DEF WellFormed
    <3> HIDE DEF raw
    <3>3. ASSUME NEW i \in 1..Len(raw) PROVE s[i] \in Text /\ s[i] # <<>> /\ Without(s[i], "/")
      <4>1. s[i] \in Ids \cup Range(raw)  BY <3>2
      <4>2. CASE s[i] \in Ids  BY <4>2, IdFacts
      <4>3. CASE s[i] \in Range(raw)
        <5>1. PICK j \in 1..Len(raw) : s[i] = raw[j]  BY <3>2, <4>3 DEF Range
        <5> QED  BY <3>2, <5>1
      <4> QED  BY <4>1, <4>2, <4>3
    <3>4. s \in Seq(Text) /\ Len(s) = Len(raw)
      <4>1. s \in [1..Len(raw) -> Text]  BY <3>2, <3>3
      <4> QED  BY <3>2, <4>1
    <3>5. NameSegments(name) = s
      <4>1. Len(s) > 0 /\ \A i \in 1..Len(s) : s[i] # <<>> /\ Without(s[i], "/")  BY <3>2, <3>3, <3>4
      <4> QED  BY <3>1, <3>4, <4>1, NameOf
    <3>6. MatchName(parsed.value, name) = Bind(Compiled(raw), s)  BY <3>2, <3>5 DEF MatchName
    <3> QED  BY <2>2, <3>1, <3>2, <3>4, <3>6, MatchFormats
  <2>3. ASSUME ValidatePattern(text).ok, ~twice PROVE parsed.ok  BY <2>0, <2>3, ValidParses
  <2>4. ASSUME Validate(text).ok, ~ContainsWildcard(text), ~Scan(text).full PROVE IsMatch(text, text)
    BY <2>0, <2>4, NameMatchesItself
  <2> HIDE DEF raw, parsed, names
  <2> QED  BY <2>1, <2>2, <2>3, <2>4 DEF PatternsRoundTrip, raw, parsed, names
<1> QED  BY <1>1, AlwaysTyped, PTL

-----------------------------------------------------------------------------
(* The three resources: shippers/{shipper}, and sites and shipments under it. *)

ShipperParts   == << <<"shippers">>, <<LBrace, "shipper", RBrace>> >>
ChildParts(c, v) == ShipperParts \o << <<c>>, <<LBrace, v, RBrace>> >>

CollectionWords == {"shippers", "sites", "shipments"}
VariableWords  == {"shipper", "site", "shipment"}

\* The variables of the three patterns are well formed.
LEMMA VariablePart ==
  ASSUME NEW v \in VariableWords
  PROVE  LET b == <<LBrace, v, RBrace>>
         IN  /\ b \in Text /\ b # <<>> /\ b # WILDCARD /\ b # <<LBrace, RBrace>> /\ Without(b, "/")
             /\ NamesVariable(b) /\ IsVariable(b) /\ Inner(b) = <<v>>
<1> DEFINE b == <<LBrace, v, RBrace>>
<1>1. LBrace \in Symbol /\ RBrace \in Symbol /\ v \in Symbol  BY DEF Symbol, VariableWords
<1>2. b \in Seq(Symbol) /\ Len(b) = 3 /\ b[1] = LBrace /\ b[2] = v /\ b[3] = RBrace  BY <1>1
<1>3. v # "/"  BY DEF VariableWords
<1>4. LBrace # "/" /\ RBrace # "/"  BY Punctuation
<1> HIDE DEF b
<1>5. b # <<>> /\ b # WILDCARD /\ b # <<LBrace, RBrace>>
  <2>1. Len(WILDCARD) = 1  BY DEF WILDCARD
  <2>2. Len(<<LBrace, RBrace>>) = 2 /\ Len(<<>>) = 0  OBVIOUS
  <2> QED  BY <1>2, <2>1, <2>2
<1>6. Without(b, "/")  BY <1>2, <1>3, <1>4 DEF Without
<1>7. NamesVariable(b) /\ IsVariable(b)  BY <1>2 DEF NamesVariable, IsVariable
<1>8. Inner(b) = <<v>>
  <2>1. \A i \in 2..2 : b[i] \in Symbol  BY <1>1, <1>2
  <2>2. SubSeq(b, 2, 2) \in Seq(Symbol) /\ Len(SubSeq(b, 2, 2)) = (IF 2 <= 2 THEN 2 - 2 + 1 ELSE 0)
        /\ \A i \in 1..(2 - 2 + 1) : SubSeq(b, 2, 2)[i] = b[2 + i - 1]
    BY <2>1, SubSeqProperties
  <2>3. Inner(b) = SubSeq(b, 2, 2)  BY <1>2 DEF Inner
  <2> DEFINE q == SubSeq(b, 2, 2)
             d == <<v>>
  <2>4. q \in Seq(Symbol) /\ Len(q) = 1 /\ q[1] = v  BY <1>2, <2>2
  <2>5. d \in Seq(Symbol) /\ Len(d) = 1 /\ d[1] = v  BY <1>1
  <2> HIDE DEF q, d
  <2>6. \A i \in 1..1 : q[i] = d[i]  BY <2>4, <2>5
  <2>7. q = d  BY <2>4, <2>5, <2>6, SeqEqual
  <2> QED  BY <2>3, <2>7 DEF q, d
<1> QED  BY <1>2, <1>5, <1>6, <1>7, <1>8 DEF b, Text

\* Letters, digits and inner hyphens within the limit make a domain name.
LEMMA ShortDomain ==
  ASSUME NEW s \in Text, Len(s) \in 1..MaxId, s[1] # "-", s[Len(s)] # "-",
         \A i \in 1..Len(s) : s[i] \in Alphanumeric \cup {"-"}
  PROVE  IsDomainName(s) /\ NameVerdict(s) = "none" /\ Without(s, "/") /\ s # <<>> /\ ~NamesVariable(s)
<1>0. "." \in Symbol /\ Len(s) \in Nat /\ MaxId \in Nat /\ MaxLabel \in Nat /\ MaxName \in Nat
      /\ MaxId <= MaxLabel /\ MaxLabel < MaxName
  <2>1. "." \in Symbol  BY DEF Symbol
  <2>2. Len(s) \in Nat  BY LenProperties DEF Text
  <2> QED  BY <2>1, <2>2, NamesAssumption
<1>1. ASSUME NEW x \in {"/", ".", LBrace, RBrace}, NEW i \in 1..Len(s) PROVE s[i] # x
  <2>1. x \notin Alphanumeric  BY Punctuation
  <2>2. x # "-"  BY Punctuation
  <2> QED  BY <2>1, <2>2
<1>2. Split(s, ".") = <<s>>
  <2>1. Without(s, ".")  BY <1>1 DEF Without
  <2> QED  BY <1>0, <2>1, SplitLast DEF Text
<1>3. IsDomainName(s)
  <2>1. Len(s) > 0 /\ Len(s) <= MaxName /\ Len(s) # MaxName  BY <1>0
  <2>2. ASSUME NEW i \in 1..Len(s)
        PROVE  /\ s[i] \in Alphanumeric \cup {Underscore, "-", "."}
               /\ s[i] = "-" => i > 1 /\ s[i-1] # "."
               /\ s[i] # "."
    <3>1. s[i] = "-" => i # 1  OBVIOUS
    <3>2. s[i] = "-" => i > 1  BY <1>0, <3>1
    <3>3. i > 1 => i - 1 \in 1..Len(s)  BY <1>0
    <3>4. "." \in {"/", ".", LBrace, RBrace}  OBVIOUS
    <3>5. s[i] # "." /\ (i > 1 => s[i-1] # ".")  BY <1>1, <3>3, <3>4
    <3> QED  BY <3>2, <3>5
  <2>3. \A i \in 1..Len(Split(s, ".")) : Len(Split(s, ".")[i]) <= MaxLabel
    <3> DEFINE d == <<s>>
    <3>1. Len(d) = 1 /\ d[1] = s  OBVIOUS
    <3> HIDE DEF d
    <3>2. Split(s, ".") = d  BY <1>2 DEF d
    <3>3. Len(s) <= MaxLabel  BY <1>0
    <3> QED  BY <3>1, <3>2, <3>3
  <2> QED  BY <2>1, <2>2, <2>3 DEF IsDomainName
<1>4. s # <<>> /\ ~NamesVariable(s)  BY <1>3, DomainSymbols
<1>5. ~IsVariable(s)  BY <1>0, <1>4 DEF IsVariable, NamesVariable
<1>6. NameVerdict(s) = "none"
  <2>1. CASE IsWildcard(s)  BY <1>4, <1>5, <2>1, Zenon DEF NameVerdict
  <2>2. CASE ~IsWildcard(s)  BY <1>3, <1>4, <1>5, <2>2, Zenon DEF NameVerdict
  <2> QED  BY <2>1, <2>2
<1>7. Without(s, "/")  BY <1>1 DEF Without
<1> QED  BY <1>3, <1>4, <1>6, <1>7

\* The collections of the three patterns are well formed.
LEMMA WordPart ==
  ASSUME NEW w \in CollectionWords
  PROVE  LET b == <<w>>
         IN  /\ b \in Text /\ b # <<>> /\ b # WILDCARD /\ b # <<LBrace, RBrace>> /\ Without(b, "/")
             /\ ~NamesVariable(b) /\ ~Contains(b, LBrace) /\ ~Contains(b, RBrace)
             /\ NameVerdict(b) = "none"
<1> DEFINE b == <<w>>
<1>1. w \in Symbol /\ w \in Alphanumeric
  <2>1. w \in Symbol  BY DEF Symbol, CollectionWords
  <2>2. w \in Lower  BY NamesAssumption DEF CollectionWords
  <2> QED  BY <2>1, <2>2 DEF Alphanumeric
<1>2. b \in Seq(Symbol) /\ Len(b) = 1 /\ b[1] = w  BY <1>1
<1>3. w # "-"  BY <1>1, Punctuation
<1> HIDE DEF b
<1>4. b \in Text /\ Len(b) \in 1..MaxId
  <2>1. MaxId \in Nat \ {0}  BY NamesAssumption
  <2>2. 1 \in 1..MaxId  BY <2>1
  <2> QED  BY <1>2, <2>2 DEF Text
<1>5. IsDomainName(b) /\ NameVerdict(b) = "none" /\ Without(b, "/") /\ b # <<>> /\ ~NamesVariable(b)
  <2>1. \A i \in 1..Len(b) : b[i] \in Alphanumeric \cup {"-"}  BY <1>1, <1>2
  <2>2. b[1] # "-" /\ b[Len(b)] # "-"  BY <1>2, <1>3
  <2> QED  BY <1>4, <2>1, <2>2, ShortDomain
<1>6. ~Contains(b, LBrace) /\ ~Contains(b, RBrace)  BY <1>4, <1>5, DomainSymbols
<1>7. b # WILDCARD  BY <1>2, <1>3 DEF WILDCARD
<1>8. b # <<LBrace, RBrace>>
  <2>1. Len(<<LBrace, RBrace>>) = 2  OBVIOUS
  <2> QED  BY <1>2, <2>1
<1> QED  BY <1>4, <1>5, <1>6, <1>7, <1>8 DEF b

\* `raw` holds the segments of a resource's pattern: two, or four under a shipper.
IsResource(raw, n, c, v) ==
  /\ n \in {2, 4} /\ c \in {"sites", "shipments"} /\ v \in {"site", "shipment"}
  /\ raw \in Seq(Text) /\ Len(raw) = n
  /\ raw[1] = <<"shippers">> /\ raw[2] = <<LBrace, "shipper", RBrace>>
  /\ n = 4 => raw[3] = <<c>> /\ raw[4] = <<LBrace, v, RBrace>>

\* The parts of the three patterns.
LEMMA PartsAre ==
  /\ IsResource(ShipperParts, 2, "sites", "site")
  /\ IsResource(ChildParts("sites", "site"), 4, "sites", "site")
  /\ IsResource(ChildParts("shipments", "shipment"), 4, "shipments", "shipment")
<1>1. /\ <<"shippers">> \in Text /\ <<LBrace, "shipper", RBrace>> \in Text
  BY WordPart, VariablePart DEF CollectionWords, VariableWords
<1> DEFINE a == <<"shippers">>
           b == <<LBrace, "shipper", RBrace>>
<1> HIDE DEF a, b
<1>2. ShipperParts = <<a, b>>  BY DEF ShipperParts, a, b
<1>3. a \in Text /\ b \in Text  BY <1>1 DEF a, b
<1>4. ShipperParts \in Seq(Text) /\ Len(ShipperParts) = 2 /\ ShipperParts[1] = a /\ ShipperParts[2] = b
  BY <1>2, <1>3
<1>5. ASSUME NEW c \in {"sites", "shipments"}, NEW v \in {"site", "shipment"}
      PROVE  IsResource(ChildParts(c, v), 4, c, v)
  <2> DEFINE d == <<c>>
             e == <<LBrace, v, RBrace>>
             x == <<d, e>>
  <2>1. d \in Text
    <3>1. c \in CollectionWords  BY DEF CollectionWords
    <3> QED  BY <3>1, WordPart
  <2>2. e \in Text
    <3>1. v \in VariableWords  BY DEF VariableWords
    <3> QED  BY <3>1, VariablePart
  <2> HIDE DEF d, e
  <2>3. x \in Seq(Text) /\ Len(x) = 2 /\ x[1] = d /\ x[2] = e  BY <2>1, <2>2
  <2>4. ChildParts(c, v) = ShipperParts \o x  BY DEF ChildParts, d, e
  <2> HIDE DEF x
  <2> DEFINE y == ShipperParts
  <2> HIDE DEF y
  <2>5. y \in Seq(Text) /\ Len(y) = 2 /\ y[1] = a /\ y[2] = b  BY <1>4 DEF y
  <2>6. /\ y \o x \in Seq(Text) /\ Len(y \o x) = Len(y) + Len(x)
        /\ \A k \in 1..(Len(y) + Len(x)) : (y \o x)[k] = IF k <= Len(y) THEN y[k] ELSE x[k - Len(y)]
    BY <2>3, <2>5, ConcatProperties
  <2> DEFINE z == y \o x
  <2>7. z \in Seq(Text) /\ Len(z) = 4 /\ z[1] = a /\ z[2] = b /\ z[3] = d /\ z[4] = e  BY <2>3, <2>5, <2>6
  <2>8. ChildParts(c, v) = z  BY <2>4 DEF y
  <2> HIDE DEF z
  <2> QED  BY <2>7, <2>8 DEF IsResource, a, b, d, e
<1>6. IsResource(ShipperParts, 2, "sites", "site")  BY <1>4 DEF IsResource, a, b
<1> QED  BY <1>5, <1>6

\* What is known of the parts of a resource's pattern.
LEMMA ResourceParts ==
  ASSUME NEW raw, NEW n, NEW c, NEW v, IsResource(raw, n, c, v)
  PROVE  /\ DOMAIN raw = 1..n /\ WellFormed(raw)
         /\ \A i \in 1..n : raw[i] # <<>> /\ raw[i] # WILDCARD /\ Without(raw[i], "/")
         /\ ~NamesVariable(raw[1]) /\ NamesVariable(raw[2]) /\ IsVariable(raw[2]) /\ Inner(raw[2]) = <<"shipper">>
         /\ NameVerdict(raw[1]) = "none"
         /\ n = 4 => /\ ~NamesVariable(raw[3]) /\ NamesVariable(raw[4]) /\ Inner(raw[4]) = <<v>>
                     /\ NameVerdict(raw[3]) = "none" /\ <<v>> # <<"shipper">>
<1>1. /\ n \in {2, 4} /\ raw \in Seq(Text) /\ Len(raw) = n
      /\ raw[1] = <<"shippers">> /\ raw[2] = <<LBrace, "shipper", RBrace>>
      /\ n = 4 => raw[3] = <<c>> /\ raw[4] = <<LBrace, v, RBrace>>
  BY DEF IsResource
<1>2. "shippers" \in CollectionWords /\ "shipper" \in VariableWords /\ c \in CollectionWords /\ v \in VariableWords /\ v # "shipper"
  BY DEF IsResource, CollectionWords, VariableWords
<1>3. DOMAIN raw = 1..n  BY <1>1, LenProperties
<1> DEFINE Good(r) == r \in Text /\ r # <<>> /\ r # WILDCARD /\ r # <<LBrace, RBrace>> /\ Without(r, "/")
           Word(r) == ~NamesVariable(r) /\ ~Contains(r, LBrace) /\ ~Contains(r, RBrace) /\ NameVerdict(r) = "none"
<1>4. Good(raw[1]) /\ Word(raw[1])  BY <1>1, <1>2, WordPart
<1>5. Good(raw[2]) /\ NamesVariable(raw[2]) /\ IsVariable(raw[2]) /\ Inner(raw[2]) = <<"shipper">>
  BY <1>1, <1>2, VariablePart
<1>6. n = 4 => Good(raw[3]) /\ Word(raw[3])  BY <1>1, <1>2, WordPart
<1>7. n = 4 => Good(raw[4]) /\ NamesVariable(raw[4]) /\ Inner(raw[4]) = <<v>>  BY <1>1, <1>2, VariablePart
<1>8. <<v>> # <<"shipper">>
  <2> SUFFICES ASSUME <<v>> = <<"shipper">> PROVE FALSE  OBVIOUS
  <2>1. <<v>>[1] = v /\ <<"shipper">>[1] = "shipper"  OBVIOUS
  <2> QED  BY <1>2, <2>1
<1>9. ASSUME NEW i \in 1..n PROVE i = 1 \/ i = 2 \/ (n = 4 /\ i = 3) \/ (n = 4 /\ i = 4)  BY <1>1
<1>10. \A i \in 1..n : Good(raw[i])  BY <1>4, <1>5, <1>6, <1>7, <1>9
<1>11. ASSUME NEW i \in 1..n PROVE ~Malformed(raw, i)
  <2>1. raw[i] \notin {<<>>, WILDCARD, <<LBrace, RBrace>>}  BY <1>10
  <2>2. ~(NamesVariable(raw[i]) /\ \E j \in 1..(i - 1) : raw[j] = raw[i])
    <3> SUFFICES ASSUME NamesVariable(raw[i]), NEW j \in 1..(i - 1), raw[j] = raw[i] PROVE FALSE  OBVIOUS
    <3>1. i # 1 /\ (n = 4 => i # 3)
      <4> HIDE DEF Good
      <4> QED  BY <1>4, <1>6
    <3>2. i = 2 \/ (n = 4 /\ i = 4)  BY <1>9, <3>1
    <3>3. CASE i = 2
      <4>1. j = 1  BY <3>3
      <4> QED  BY <1>4, <4>1
    <3>4. CASE n = 4 /\ i = 4
      <4>1. j = 1 \/ j = 2 \/ j = 3  BY <3>4
      <4>2. j # 1 /\ j # 3
        <5> HIDE DEF Good
        <5> QED  BY <1>4, <1>6, <3>4
      <4>3. Inner(raw[j]) = <<"shipper">> /\ Inner(raw[i]) = <<v>>  BY <1>5, <1>7, <3>4, <4>1, <4>2
      <4> QED  BY <1>8, <4>3
    <3> QED  BY <3>2, <3>3, <3>4
  <2>3. ~(~NamesVariable(raw[i]) /\ (Contains(raw[i], LBrace) \/ Contains(raw[i], RBrace)))
    <3> HIDE DEF Good
    <3> QED  BY <1>4, <1>5, <1>6, <1>7, <1>9
  <2> QED  BY <2>1, <2>2, <2>3 DEF Malformed
<1>12. WellFormed(raw)
  <2>1. Len(raw) \in Nat /\ Len(raw) > 0  BY <1>1
  <2> QED  BY <1>1, <1>3, <1>10, <1>11, <2>1 DEF WellFormed
<1> QED  BY <1>3, <1>4, <1>5, <1>6, <1>7, <1>8, <1>10, <1>12

\* The parsed pattern, and what fits it.
LEMMA Resource ==
  ASSUME NEW raw, NEW n, NEW c, NEW v, IsResource(raw, n, c, v)
  PROVE  LET p == Compiled(raw)
         IN  /\ DOMAIN p = 1..n /\ p = [i \in 1..n |-> p[i]] /\ Len(p) = n
             /\ p[1] = LiteralSegment(<<"shippers">>) /\ p[2] = VariableSegment(<<"shipper">>)
             /\ n = 4 => p[3] = LiteralSegment(<<c>>) /\ p[4] = VariableSegment(<<v>>)
<1> DEFINE p == Compiled(raw)
<1>0. n \in {2, 4} /\ Len(raw) = n /\ raw[1] = <<"shippers">> /\ (n = 4 => raw[3] = <<c>>)  BY DEF IsResource
<1>1. /\ DOMAIN raw = 1..n /\ WellFormed(raw)
      /\ ~NamesVariable(raw[1]) /\ NamesVariable(raw[2]) /\ Inner(raw[2]) = <<"shipper">>
      /\ n = 4 => ~NamesVariable(raw[3]) /\ NamesVariable(raw[4]) /\ Inner(raw[4]) = <<v>>
  BY ResourceParts
<1>2. p = [i \in 1..n |-> p[i]] /\ DOMAIN p = 1..n  BY <1>1 DEF Compiled
<1>3. Len(p) = n
  <2> HIDE DEF p
  <2> QED  BY <1>0, <1>2
<1>4. 1 \in 1..n /\ 2 \in 1..n /\ (n = 4 => 3 \in 1..n /\ 4 \in 1..n)  BY <1>0
<1>5. p[1] = LiteralSegment(<<"shippers">>) /\ p[2] = VariableSegment(<<"shipper">>)
  BY <1>0, <1>1, <1>4, CompiledAt
<1>6. n = 4 => p[3] = LiteralSegment(<<c>>) /\ p[4] = VariableSegment(<<v>>)
  BY <1>0, <1>1, <1>4, CompiledAt
<1> QED  BY <1>2, <1>3, <1>5, <1>6

\* The variables of a resource's pattern, and where they stand.
LEMMA ResourceVariables ==
  ASSUME NEW raw, NEW n, NEW c, NEW v, IsResource(raw, n, c, v)
  PROVE  /\ Variables(Compiled(raw)) = IF n = 2 THEN {<<"shipper">>} ELSE {<<"shipper">>, <<v>>}
         /\ IndexOf(Compiled(raw), <<"shipper">>) = 2
         /\ n = 4 => IndexOf(Compiled(raw), <<v>>) = 4
<1> DEFINE p == Compiled(raw)
<1>0. n \in {2, 4} /\ Len(raw) = n  BY DEF IsResource
<1>1. /\ DOMAIN raw = 1..n /\ WellFormed(raw)
      /\ ~NamesVariable(raw[1]) /\ NamesVariable(raw[2]) /\ Inner(raw[2]) = <<"shipper">>
      /\ n = 4 => ~NamesVariable(raw[3]) /\ NamesVariable(raw[4]) /\ Inner(raw[4]) = <<v>>
  BY ResourceParts
<1>4. 1 \in 1..n /\ 2 \in 1..n /\ (n = 4 => 3 \in 1..n /\ 4 \in 1..n)  BY <1>0
<1>7. Variables(p) = {Inner(raw[i]) : i \in {j \in 1..n : NamesVariable(raw[j])}}  BY <1>0, <1>1, VariablesAre
<1>8. {j \in 1..n : NamesVariable(raw[j])} = IF n = 2 THEN {2} ELSE {2, 4}
  <2>1. \A j \in 1..n : j = 1 \/ j = 2 \/ (n = 4 /\ j = 3) \/ (n = 4 /\ j = 4)  BY <1>0
  <2> QED  BY <1>0, <1>1, <1>4, <2>1
<1>9. Variables(p) = IF n = 2 THEN {<<"shipper">>} ELSE {<<"shipper">>, <<v>>}
  <2> HIDE DEF p
  <2>1. CASE n = 2
    <3>1. Variables(p) = {Inner(raw[i]) : i \in {2}}  BY <1>7, <1>8, <2>1
    <3> QED  BY <1>1, <2>1, <3>1
  <2>2. CASE n = 4
    <3>1. n # 2  BY <2>2
    <3>2. Variables(p) = {Inner(raw[i]) : i \in {2, 4}}  BY <1>7, <1>8, <3>1
    <3>3. Variables(p) = {Inner(raw[2]), Inner(raw[4])}  BY <3>2
    <3> QED  BY <1>1, <2>2, <3>1, <3>3
  <2> QED  BY <1>0, <2>1, <2>2
<1>10. IndexOf(p, <<"shipper">>) = 2  BY <1>0, <1>1, <1>4, OnePlace
<1>11. n = 4 => IndexOf(p, <<v>>) = 4  BY <1>0, <1>1, <1>4, OnePlace
<1> QED  BY <1>9, <1>10, <1>11

\* The segments of a name of that resource.
IsName(seg, n, c) ==
  /\ seg \in Seq(Text) /\ Len(seg) = n
  /\ \A i \in 1..n : /\ seg[i] \in Text /\ seg[i] # <<>> /\ Without(seg[i], "/")
                     /\ ~NamesVariable(seg[i]) /\ NameVerdict(seg[i]) = "none"
  /\ seg[1] = <<"shippers">>
  /\ n = 4 => seg[3] = <<c>>

ValuesOf(p, seg) == [x \in Variables(p) |-> seg[IndexOf(p, x)]]
NameValue(p, seg) == [of |-> p, vars |-> ValuesOf(p, seg), name |-> Joined(seg, "/")]

\* A name of the resource fits its pattern.
LEMMA NameFits ==
  ASSUME NEW raw, NEW n, NEW c, NEW v, IsResource(raw, n, c, v), NEW seg, IsName(seg, n, c)
  PROVE  Fits(Compiled(raw), seg)
<1> DEFINE p == Compiled(raw)
<1>0. n \in {2, 4}  BY DEF IsResource
<1>1. /\ DOMAIN p = 1..n /\ Len(p) = n
      /\ p[1] = LiteralSegment(<<"shippers">>) /\ p[2] = VariableSegment(<<"shipper">>)
      /\ n = 4 => p[3] = LiteralSegment(<<c>>) /\ p[4] = VariableSegment(<<v>>)
  BY Resource
<1> HIDE DEF p
<1>2. /\ p[1].is = "Literal" /\ p[1].text = <<"shippers">> /\ p[2].is = "Variable"
      /\ n = 4 => p[3].is = "Literal" /\ p[3].text = <<c>> /\ p[4].is = "Variable"
  BY <1>1 DEF LiteralSegment, VariableSegment
<1>3. ASSUME NEW i \in 1..n
      PROVE  /\ ~NamesVariable(seg[i]) /\ seg[i] # <<>>
             /\ p[i].is = "Literal" => seg[i] = p[i].text
  <2>1. i = 1 \/ i = 2 \/ (n = 4 /\ i = 3) \/ (n = 4 /\ i = 4)  BY <1>0
  <2>2. ~NamesVariable(seg[i]) /\ seg[i] # <<>>  BY DEF IsName
  <2>3. seg[1] = <<"shippers">> /\ (n = 4 => seg[3] = <<c>>)  BY DEF IsName
  <2> QED  BY <1>2, <2>1, <2>2, <2>3
<1>4. Len(seg) = n  BY DEF IsName
<1>5. Fits(p, seg)  BY <1>1, <1>3, <1>4 DEF Fits
<1> QED  BY <1>5 DEF p

\* What fits the pattern has the collections in their places.
LEMMA FitsName ==
  ASSUME NEW raw, NEW n, NEW c, NEW v, IsResource(raw, n, c, v), NEW seg, seg \in Seq(Text), Fits(Compiled(raw), seg)
  PROVE  /\ Len(seg) = n /\ seg[1] = <<"shippers">> /\ (n = 4 => seg[3] = <<c>>)
         /\ \A i \in 1..n : ~NamesVariable(seg[i])
<1> DEFINE p == Compiled(raw)
<1>0. n \in {2, 4}  BY DEF IsResource
<1>1. /\ DOMAIN p = 1..n /\ Len(p) = n
      /\ p[1] = LiteralSegment(<<"shippers">>)
      /\ n = 4 => p[3] = LiteralSegment(<<c>>)
  BY Resource
<1>2. Fits(p, seg)  OBVIOUS
<1> HIDE DEF p
<1>3. /\ p[1].is = "Literal" /\ p[1].text = <<"shippers">>
      /\ n = 4 => p[3].is = "Literal" /\ p[3].text = <<c>>
  BY <1>1 DEF LiteralSegment
<1>4. 1 \in 1..n /\ (n = 4 => 3 \in 1..n)  BY <1>0
<1>5. Len(seg) = n  BY <1>1, <1>2 DEF Fits
<1>6. \A i \in 1..n : ~NamesVariable(seg[i]) /\ (p[i].is = "Literal" => seg[i] = p[i].text)  BY <1>1, <1>2 DEF Fits
<1> QED  BY <1>3, <1>4, <1>5, <1>6

\* What stands between two slashes of any text, whatever comes before it.
LEMMA Segments ==
  ASSUME NEW s \in Text, s # <<>>
  PROVE  /\ NameSegments(s) \in Seq(Text)
         /\ \A i \in 1..Len(NameSegments(s)) : NameSegments(s)[i] \in Text /\ Without(NameSegments(s)[i], "/")
<1> DEFINE parts == Split(s, "/")
           m == Lead(s) + 1
           k == Len(parts)
           q == SubSeq(parts, m, k)
<1>0. "/" \in Symbol  BY DEF Symbol
<1>1. parts \in PartsOf(Symbol) /\ \A i \in 1..Len(parts) : Without(parts[i], "/")  BY <1>0, SplitJoins DEF Text
<1>2. NameSegments(s) = q  BY SegmentsAre
<1>3. m \in 1..4  BY LeadIs
<1> HIDE DEF parts, m
<1>4. parts \in Seq(Text) /\ k \in Nat  BY <1>1, LenProperties DEF PartsOf, Text
<1>5. \A i \in 1..k : parts[i] \in Text  BY <1>4, ElementOfSeq
<1>6. \A i \in m..k : parts[i] \in Text  BY <1>3, <1>4, <1>5
<1> HIDE DEF k
<1>7. /\ q \in Seq(Text) /\ Len(q) = (IF m <= k THEN k - m + 1 ELSE 0)
      /\ \A i \in 1..(k - m + 1) : q[i] = parts[m + i - 1]
  <2>1. m \in Int /\ k \in Int  BY <1>3, <1>4
  <2> QED  BY <1>6, <2>1, SubSeqProperties
<1> HIDE DEF q
<1>8. ASSUME NEW i \in 1..Len(q) PROVE q[i] \in Text /\ Without(q[i], "/")
  <2>1. i \in 1..(k - m + 1) /\ m + i - 1 \in 1..k  BY <1>3, <1>4, <1>7
  <2>2. q[i] = parts[m + i - 1]  BY <1>7, <2>1
  <2> QED  BY <1>1, <1>5, <2>1, <2>2 DEF k
<1> QED  BY <1>2, <1>7, <1>8

\* A text that a handler takes for the name of a resource.
LEMMA Parsed ==
  ASSUME NEW raw, NEW n, NEW c, NEW v, IsResource(raw, n, c, v), NEW s \in Text, ParseField(Compiled(raw), s).ok
  PROVE  /\ s # <<>> /\ IsName(NameSegments(s), n, c)
         /\ ParseField(Compiled(raw), s) = Ok(NameValue(Compiled(raw), NameSegments(s)))
         /\ MatchName(Compiled(raw), s) = Ok(ValuesOf(Compiled(raw), NameSegments(s)))
<1> DEFINE p == Compiled(raw)
           seg == NameSegments(s)
<1>0. n \in {2, 4} /\ WellFormed(raw)  BY ResourceParts DEF IsResource
<1>1. Validate(s).ok
  <2> SUFFICES ASSUME ~Validate(s).ok PROVE FALSE  OBVIOUS
  <2>1. ParseField(p, s) = Validate(s)  BY DEF ParseField, ParseValid
  <2> QED  BY <2>1
<1>2. s # <<>> /\ Validate(s) = Ok(s)  BY <1>1, ValidName
<1>3. Validate(s).value = s  BY ONLY <1>2 DEF Ok
<1>4. ParseField(p, s) = Parse(p, s)  BY <1>1, <1>3 DEF ParseField, ParseValid
<1>5. seg \in Seq(Text) /\ \A i \in 1..Len(seg) : seg[i] \in Text /\ Without(seg[i], "/")  BY <1>2, Segments
<1>6. \A i \in 1..Len(seg) : NameVerdict(seg[i]) = "none"
  <2>1. DOMAIN seg = 1..Len(seg)  BY <1>5, LenProperties
  <2> QED  BY <1>1, <1>5, <2>1, ValidName
<1>7. Bind(p, seg).ok
  <2> DEFINE b == Bind(p, seg)
  <2> SUFFICES ASSUME ~b.ok PROVE FALSE  OBVIOUS
  <2>1. Parse(p, s) = TypedName(p, b)  BY DEF Parse, MatchName
  <2> HIDE DEF b
  <2>2. Parse(p, s) = b  BY <2>1 DEF TypedName
  <2> QED  BY <1>4, <2>2
<1>8. Fits(p, seg)  BY <1>0, <1>5, <1>7, MatchFormats
<1>9. Bind(p, seg) = Ok(ValuesOf(p, seg)) /\ Format(p, ValuesOf(p, seg)) = Ok(Joined(seg, "/"))
  BY <1>0, <1>5, <1>8, FormatsBack DEF ValuesOf
<1> HIDE DEF seg, p
<1>10. IsName(seg, n, c)
  <2>1. Len(seg) = n /\ seg[1] = <<"shippers">> /\ (n = 4 => seg[3] = <<c>>) /\ \A i \in 1..n : ~NamesVariable(seg[i])
    BY <1>5, <1>8, FitsName DEF p
  <2>2. \A i \in 1..n : seg[i] # <<>>  BY <1>5, <1>6, <2>1, VerdictNone
  <2> QED  BY <1>5, <1>6, <2>1, <2>2 DEF IsName
<1>11. ParseField(p, s) = Ok(NameValue(p, seg))
  <2> DEFINE values == ValuesOf(p, seg)
             b == Bind(p, seg)
             f == Format(p, values)
             t == Joined(seg, "/")
  <2>1. b = Ok(values) /\ f = Ok(t)  BY <1>9
  <2>2. Parse(p, s) = TypedName(p, b)  BY DEF Parse, MatchName, seg
  <2>3. FromParts(p, values) = [of |-> p, vars |-> values, name |-> f.value]  BY DEF FromParts
  <2>4. NameValue(p, seg) = [of |-> p, vars |-> values, name |-> t]  BY DEF NameValue
  <2> HIDE DEF values, b, f, t
  <2>5. b.ok /\ b.value = values /\ f.value = t  BY ONLY <2>1 DEF Ok
  <2>6. TypedName(p, b) = Ok(FromParts(p, values))  BY <2>5 DEF TypedName
  <2> QED  BY <1>4, <2>2, <2>3, <2>4, <2>5, <2>6
<1>12. MatchName(p, s) = Ok(ValuesOf(p, seg))  BY <1>9 DEF MatchName, seg
<1> QED  BY <1>2, <1>10, <1>11, <1>12 DEF p, seg

\* The canonical text of a name parses to the value that it was written from.
LEMMA Reparsed ==
  ASSUME NEW raw, NEW n, NEW c, NEW v, IsResource(raw, n, c, v), NEW seg, IsName(seg, n, c)
  PROVE  /\ ParseField(Compiled(raw), Joined(seg, "/")) = Ok(NameValue(Compiled(raw), seg))
         /\ New(Compiled(raw), ValuesOf(Compiled(raw), seg)) = Ok(NameValue(Compiled(raw), seg))
         /\ FromParts(Compiled(raw), ValuesOf(Compiled(raw), seg)) = NameValue(Compiled(raw), seg)
         /\ Joined(seg, "/") \in Text /\ Joined(seg, "/") # <<>>
         /\ NameSegments(Joined(seg, "/")) = seg /\ ~Scan(Joined(seg, "/")).full
         /\ Scan(Joined(seg, "/")).parts = seg /\ Scan(Joined(seg, "/")).lead = 0
<1> DEFINE p == Compiled(raw)
           s == Joined(seg, "/")
           values == ValuesOf(p, seg)
<1>0. n \in {2, 4} /\ WellFormed(raw)  BY ResourceParts DEF IsResource
<1>1. /\ seg \in Seq(Text) /\ Len(seg) = n /\ Len(seg) > 0
      /\ \A i \in 1..n : /\ seg[i] # <<>> /\ Without(seg[i], "/") /\ seg[i] \in Text
                         /\ NameVerdict(seg[i]) = "none"
  BY <1>0 DEF IsName
<1>2. /\ s \in Text /\ s # <<>> /\ Lead(s) = 0 /\ ~TwoSlashes(s) /\ Split(s, "/") = seg /\ NameSegments(s) = seg
  BY <1>1, NameOf
<1>3. Scan(s).full = TwoSlashes(s) /\ Scan(s).lead = Lead(s) /\ Scan(s).parts = Split(s, "/")  BY <1>2, SegmentsAre
<1>4. Fits(p, seg)  BY NameFits
<1>5. Bind(p, seg) = Ok(values) /\ Format(p, values) = Ok(s)  BY <1>0, <1>1, <1>4, FormatsBack DEF ValuesOf
<1>6. Validate(s) = Ok(s)
  <2> DEFINE verdicts == [i \in DOMAIN seg |-> NameVerdict(seg[i])]
  <2>1. DOMAIN seg = 1..n  BY <1>1, LenProperties
  <2>2. DOMAIN verdicts = 1..n /\ Len(verdicts) = n /\ \A i \in 1..n : verdicts[i] = "none"
    <3>1. verdicts = [i \in 1..n |-> NameVerdict(seg[i])]  BY <2>1
    <3> QED  BY <1>0, <1>1, <3>1
  <2>3. Scan(s).segments = seg  BY <1>2 DEF NameSegments
  <2> HIDE DEF s
  <2>4. FirstError([i \in DOMAIN Scan(s).segments |-> NameVerdict(Scan(s).segments[i])]) = FirstError(verdicts)
    BY <2>3
  <2> HIDE DEF verdicts
  <2>5. FirstError(verdicts) = "none"  BY <1>0, <2>2, NoError
  <2>6. ~Scan(s).full  BY <1>2, <1>3
  <2> QED  BY <1>2, <2>4, <2>5, <2>6 DEF Validate, ValidateScan
<1> DEFINE f == Format(p, values)
           b == Bind(p, seg)
<1>7. FromParts(p, values) = NameValue(p, seg)
  <2>1. FromParts(p, values) = [of |-> p, vars |-> values, name |-> f.value]  BY DEF FromParts
  <2>2. NameValue(p, seg) = [of |-> p, vars |-> values, name |-> s]  BY DEF NameValue
  <2>3. f = Ok(s)  BY <1>5
  <2> HIDE DEF f, s, values
  <2>4. f.value = s  BY ONLY <2>3 DEF Ok
  <2> QED  BY <2>1, <2>2, <2>4
<1>8. ParseField(p, s) = Ok(NameValue(p, seg))
  <2>1. Parse(p, s) = TypedName(p, b)  BY <1>2 DEF Parse, MatchName
  <2>2. b = Ok(values)  BY <1>5
  <2> HIDE DEF s, values, b
  <2>3. Validate(s).ok /\ Validate(s).value = s  BY ONLY <1>6 DEF Ok
  <2>4. b.ok /\ b.value = values  BY ONLY <2>2 DEF Ok
  <2>5. ParseField(p, s) = Parse(p, s)  BY <2>3 DEF ParseField, ParseValid
  <2>6. TypedName(p, b) = Ok(FromParts(p, values))  BY <2>4 DEF TypedName
  <2> QED  BY <1>7, <2>1, <2>5, <2>6
<1> HIDE DEF f, b, s
<1>9a. /\ Variables(p) = IF n = 2 THEN {<<"shipper">>} ELSE {<<"shipper">>, <<v>>}
       /\ IndexOf(p, <<"shipper">>) = 2 /\ (n = 4 => IndexOf(p, <<v>>) = 4)
  BY ResourceVariables
<1>9. ASSUME NEW x \in DOMAIN values PROVE ValidateVariable(values[x]).ok
  <2> DEFINE i == IndexOf(p, x)
             y == seg[i]
  <2>1. values[x] = y  BY DEF ValuesOf
  <2>2. i \in 1..n
    <3>1. x \in Variables(p)  BY DEF ValuesOf
    <3> HIDE DEF p
    <3> QED  BY <1>0, <1>9a, <3>1
  <2>3. y # <<>> /\ Without(y, "/") /\ y \in Text  BY <1>1, <2>2
  <2> HIDE DEF y
  <2>4. ~Contains(y, "/")  BY <2>3 DEF Contains, Without
  <2>5. ValidateVariable(y) = Ok(y)  BY <2>3, <2>4 DEF ValidateVariable
  <2>6. ValidateVariable(y).ok  BY ONLY <2>5 DEF Ok
  <2> QED  BY <2>1, <2>6
<1>10. New(p, values) = Ok(NameValue(p, seg))
  <2> HIDE DEF values, p
  <2> QED  BY <1>7, <1>9 DEF New
<1> QED  BY <1>2, <1>3, <1>7, <1>8, <1>10 DEF s

Kinds == {"Shipper", "Site", "Shipment"}
RawOf(r) == IF r = "Shipper" THEN ShipperParts
            ELSE IF r = "Site" THEN ChildParts("sites", "site") ELSE ChildParts("shipments", "shipment")
LenOf(r) == IF r = "Shipper" THEN 2 ELSE 4
Coll(r)  == IF r = "Shipment" THEN "shipments" ELSE "sites"
Var(r)   == IF r = "Shipment" THEN "shipment" ELSE "site"

\* The parsed PATTERN of each resource is the compilation of its parts.
LEMMA Resources ==
  /\ DOMAIN Of = Kinds
  /\ \A r \in Kinds : /\ IsResource(RawOf(r), LenOf(r), Coll(r), Var(r))
                      /\ Of[r] = Compiled(RawOf(r))
                      /\ NameSegments(PatternText[r]) = RawOf(r) /\ PatternText[r] # <<>>
<1>1. ASSUME NEW r \in Kinds PROVE IsResource(RawOf(r), LenOf(r), Coll(r), Var(r))
  <2>1. CASE r = "Shipper"
    <3>1. RawOf(r) = ShipperParts /\ LenOf(r) = 2 /\ Coll(r) = "sites" /\ Var(r) = "site"
      BY <2>1 DEF RawOf, LenOf, Coll, Var
    <3> QED  BY <3>1, PartsAre
  <2>2. CASE r = "Site"
    <3>1. RawOf(r) = ChildParts("sites", "site") /\ LenOf(r) = 4 /\ Coll(r) = "sites" /\ Var(r) = "site"
      BY <2>2 DEF RawOf, LenOf, Coll, Var
    <3> QED  BY <3>1, PartsAre
  <2>3. CASE r = "Shipment"
    <3>1. RawOf(r) = ChildParts("shipments", "shipment") /\ LenOf(r) = 4 /\ Coll(r) = "shipments" /\ Var(r) = "shipment"
      BY <2>3 DEF RawOf, LenOf, Coll, Var
    <3> QED  BY <3>1, PartsAre
  <2> QED  BY <2>1, <2>2, <2>3 DEF Kinds
<1>2. /\ DOMAIN PatternText = Kinds
      /\ \A r \in Kinds : PatternText[r] = Joined(RawOf(r), "/")
  <2> DEFINE x == Joined(ShipperParts, "/")
             y == Joined(ChildParts("sites", "site"), "/")
             z == Joined(ChildParts("shipments", "shipment"), "/")
  <2>1. PatternText = [Shipper |-> x, Site |-> y, Shipment |-> z]  BY DEF PatternText, ShipperParts, ChildParts
  <2>2. /\ Joined(RawOf("Shipper"), "/") = x /\ Joined(RawOf("Site"), "/") = y
        /\ Joined(RawOf("Shipment"), "/") = z
    BY DEF RawOf
  <2> HIDE DEF x, y, z
  <2>3. /\ PatternText["Shipper"] = x /\ PatternText["Site"] = y /\ PatternText["Shipment"] = z
        /\ DOMAIN PatternText = Kinds
    BY <2>1 DEF Kinds
  <2> QED  BY <2>2, <2>3 DEF Kinds
<1>3. ASSUME NEW r \in Kinds
      PROVE  /\ Of[r] = Compiled(RawOf(r))
             /\ NameSegments(PatternText[r]) = RawOf(r) /\ PatternText[r] # <<>>
  <2> DEFINE raw == RawOf(r)
             n == LenOf(r)
             s == Joined(raw, "/")
  <2>1. IsResource(raw, n, Coll(r), Var(r))  BY <1>1
  <2> HIDE DEF raw, n
  <2>2. raw \in Seq(Text) /\ Len(raw) = n /\ n \in {2, 4}  BY <2>1 DEF IsResource
  <2>3. WellFormed(raw) /\ \A i \in 1..n : raw[i] # <<>> /\ Without(raw[i], "/")  BY <2>1, ResourceParts
  <2>4. s \in Text /\ s # <<>> /\ ~TwoSlashes(s) /\ ~Slash(s) /\ Split(s, "/") = raw /\ NameSegments(s) = raw
    <3>1. Len(raw) > 0  BY <2>2
    <3> QED  BY <2>2, <2>3, <3>1, NameOf
  <2>5. PatternText[r] = s  BY <1>2 DEF raw
  <2> HIDE DEF s
  <2>6. Body(s) = s  BY <2>4 DEF Body
  <2>7. Compile(raw).ok  BY <2>3, CompileIs DEF WellFormed
  <2>8. PatternParse(s) = Ok(Compiled(raw))
    <3>1. PatternParse(s).ok  BY <2>4, <2>6, <2>7, ParseIs
    <3> QED  BY <2>4, <2>6, <3>1, ParseIs
  <2>9. PatternParse(s).value = Compiled(raw)
    <3> DEFINE q == Compiled(raw)
    <3> HIDE DEF q
    <3>1. PatternParse(s) = Ok(q)  BY <2>8 DEF q
    <3>2. PatternParse(s).value = q  BY ONLY <3>1 DEF Ok
    <3> QED  BY <3>2 DEF q
  <2>10. Of[r] = PatternParse(PatternText[r]).value  BY <1>2 DEF Of
  <2> QED  BY <2>4, <2>5, <2>9, <2>10 DEF raw
<1>4. DOMAIN Of = Kinds  BY <1>2 DEF Of
<1> QED  BY <1>1, <1>3, <1>4

\* A name that parses has one canonical text, and is no other resource's.
LEMMA IsCanonical ==
  ASSUME text \in Text, NEW r \in Kinds
  PROVE  Canonical(r, ParseField(Of[r], text))
<1> DEFINE got == ParseField(Of[r], text)
           raw == RawOf(r)
           n == LenOf(r)
           c == Coll(r)
           v == Var(r)
           p == Compiled(raw)
           seg == NameSegments(text)
<1> SUFFICES ASSUME got.ok PROVE Canonical(r, got)  BY DEF Canonical
<1>1. IsResource(raw, n, c, v) /\ Of[r] = p  BY Resources
<1> HIDE DEF raw, n, c, v
<1>2. IsName(seg, n, c) /\ got = Ok(NameValue(p, seg))
  <2>1. ParseField(p, text).ok  BY <1>1
  <2> QED  BY <1>1, <2>1, Parsed
<1> DEFINE value == NameValue(p, seg)
           values == ValuesOf(p, seg)
<1>3. ParseField(p, Joined(seg, "/")) = Ok(value) /\ New(p, values) = Ok(value)  BY <1>1, <1>2, Reparsed
<1>4. value.vars = values /\ value.name = Joined(seg, "/")  BY DEF NameValue
<1>5. got.value = value
  <2> HIDE DEF value, got
  <2>1. got = Ok(value)  BY <1>2 DEF value
  <2> QED  BY ONLY <2>1 DEF Ok
<1>6. ASSUME NEW other \in DOMAIN Of \ {r} PROVE ~ParseField(Of[other], text).ok
  <2> SUFFICES ASSUME ParseField(Of[other], text).ok PROVE FALSE  OBVIOUS
  <2>1. other \in Kinds  BY Resources
  <2>2. IsResource(RawOf(other), LenOf(other), Coll(other), Var(other)) /\ Of[other] = Compiled(RawOf(other))
    BY <2>1, Resources
  <2>3. IsName(seg, LenOf(other), Coll(other))  BY <2>2, Parsed
  <2>4. LenOf(r) = LenOf(other) /\ (LenOf(r) = 4 => <<Coll(r)>> = <<Coll(other)>>)
    BY <1>2, <2>3 DEF IsName, n, c
  <2>5. LenOf(r) = 4 => Coll(r) = Coll(other)
    <3> DEFINE a == Coll(r)
               b == Coll(other)
    <3> HIDE DEF a, b
    <3>1. <<a>>[1] = a /\ <<b>>[1] = b  OBVIOUS
    <3>2. LenOf(r) = 4 => <<a>> = <<b>>  BY <2>4 DEF a, b
    <3>3. LenOf(r) = 4 => a = b  BY <3>1, <3>2
    <3> QED  BY <3>3 DEF a, b
  <2>6. r # other  OBVIOUS
  <2> QED  BY <2>1, <2>4, <2>5, <2>6 DEF LenOf, Coll, Kinds
<1> HIDE DEF got, value, values, seg, p
<1>7. got.value.name = Joined(NameSegments(text), "/")  BY <1>4, <1>5 DEF seg
<1>8. New(Of[r], got.value.vars) = got  BY <1>1, <1>2, <1>3, <1>4, <1>5 DEF value
<1>9. ParseField(Of[r], got.value.name) = got  BY <1>1, <1>2, <1>3, <1>4, <1>5 DEF value
<1>10. Canonical(r, got)  BY <1>6, <1>7, <1>8, <1>9 DEF Canonical
<1> QED  BY <1>10 DEF got

\* A segment that may stand for a variable.
Good(x) == x \in Text /\ x # <<>> /\ Without(x, "/") /\ ~NamesVariable(x) /\ NameVerdict(x) = "none"

\* The child of a shipper, and the shipper, written from their ids.
LEMMA WrittenNames ==
  ASSUME NEW r \in Kinds \ {"Shipper"}, NEW a, Good(a), NEW b, Good(b)
  PROVE  /\ IsName(<< <<"shippers">>, a, <<Coll(r)>>, b >>, 4, Coll(r))
         /\ IsName(<< <<"shippers">>, a >>, 2, "sites")
<1> DEFINE x == <<"shippers">>
           y == <<Coll(r)>>
           q == <<x, a, y, b>>
           s == <<x, a>>
<1>1. Good(x) /\ Good(y)
  <2>1. Coll(r) \in CollectionWords /\ "shippers" \in CollectionWords  BY DEF Coll, CollectionWords
  <2> QED  BY <2>1, WordPart DEF Good
<1>2. x = <<"shippers">> /\ y = <<Coll(r)>>  OBVIOUS
<1> HIDE DEF x, y
<1>3. a \in Text /\ b \in Text /\ x \in Text /\ y \in Text  BY <1>1 DEF Good
<1>4. q \in Seq(Text) /\ Len(q) = 4 /\ q[1] = x /\ q[2] = a /\ q[3] = y /\ q[4] = b  BY <1>3
<1>5. s \in Seq(Text) /\ Len(s) = 2 /\ s[1] = x /\ s[2] = a  BY <1>3
<1> HIDE DEF q, s
<1>6. \A i \in 1..4 : Good(q[i])
  <2>1. \A i \in 1..4 : i = 1 \/ i = 2 \/ i = 3 \/ i = 4  OBVIOUS
  <2> QED  BY <1>1, <1>4, <2>1
<1>7. \A i \in 1..2 : Good(s[i])
  <2>1. \A i \in 1..2 : i = 1 \/ i = 2  OBVIOUS
  <2> QED  BY <1>1, <1>5, <2>1
<1>8. IsName(q, 4, Coll(r))  BY <1>2, <1>4, <1>6 DEF IsName, Good
<1>9. IsName(s, 2, "sites")  BY <1>2, <1>5, <1>7 DEF IsName, Good
<1> QED  BY <1>2, <1>8, <1>9 DEF q, s

\* The captures of a name, by variable.
LEMMA ValuesAre ==
  ASSUME NEW r \in Kinds, NEW seg
  PROVE  /\ DOMAIN ValuesOf(Of[r], seg) = Variables(Of[r])
         /\ ValuesOf(Of[r], seg) = [x \in Variables(Of[r]) |-> ValuesOf(Of[r], seg)[x]]
         /\ Variables(Of[r]) = IF r = "Shipper" THEN {<<"shipper">>} ELSE {<<"shipper">>, <<Var(r)>>}
         /\ ValuesOf(Of[r], seg)[<<"shipper">>] = seg[2]
         /\ r # "Shipper" => ValuesOf(Of[r], seg)[<<Var(r)>>] = seg[4]
         /\ r # "Shipper" => <<Var(r)>> # <<"shipper">>
<1> DEFINE p == Of[r]
           n == LenOf(r)
           v == Var(r)
<1>1. IsResource(RawOf(r), n, Coll(r), v) /\ p = Compiled(RawOf(r))  BY Resources
<1>2. n = IF r = "Shipper" THEN 2 ELSE 4  BY DEF LenOf
<1> HIDE DEF p, n, v
<1>3. /\ Variables(p) = IF n = 2 THEN {<<"shipper">>} ELSE {<<"shipper">>, <<v>>}
      /\ IndexOf(p, <<"shipper">>) = 2 /\ (n = 4 => IndexOf(p, <<v>>) = 4)
  BY <1>1, ResourceVariables
<1>4. n = 4 => <<v>> # <<"shipper">>  BY <1>1, ResourceParts
<1> DEFINE s == <<"shipper">>
           t == <<v>>
<1> HIDE DEF s, t
<1>5. /\ Variables(p) = (IF r = "Shipper" THEN {s} ELSE {s, t}) /\ IndexOf(p, s) = 2 /\ (r # "Shipper" => IndexOf(p, t) = 4)
  BY <1>2, <1>3 DEF s, t
<1>6. s \in Variables(p) /\ (r # "Shipper" => t \in Variables(p))  BY <1>5
<1>7. ValuesOf(p, seg) = [x \in Variables(p) |-> seg[IndexOf(p, x)]]  BY DEF ValuesOf
<1>8. /\ DOMAIN ValuesOf(p, seg) = Variables(p) /\ ValuesOf(p, seg) = [x \in Variables(p) |-> ValuesOf(p, seg)[x]]
      /\ ValuesOf(p, seg)[s] = seg[2] /\ (r # "Shipper" => ValuesOf(p, seg)[t] = seg[4])
  BY <1>5, <1>6, <1>7
<1>9. r # "Shipper" => t # s  BY <1>2, <1>4 DEF s, t
<1> QED  BY <1>5, <1>8, <1>9 DEF p, s, t, v

\* The parent of a child's name is the shipper's with the same id.
LEMMA ParentIs ==
  ASSUME NEW r \in Kinds \ {"Shipper"}, NEW seg, IsName(seg, 4, Coll(r)),
         NEW up, IsName(up, 2, "sites"), up[2] = seg[2]
  PROVE  Parent(NameValue(Of[r], seg)) = Ok(NameValue(Of["Shipper"], up))
<1> DEFINE p == Of[r]
           q == Of["Shipper"]
           typed == NameValue(p, seg)
           s == <<"shipper">>
<1>1. ParentOf(p) = q
  <2>1. IsResource(RawOf(r), 4, Coll(r), Var(r)) /\ p = Compiled(RawOf(r))  BY Resources DEF LenOf
  <2>2. IsResource(RawOf("Shipper"), 2, Coll("Shipper"), Var("Shipper")) /\ q = Compiled(RawOf("Shipper"))
    <3>1. "Shipper" \in Kinds /\ LenOf("Shipper") = 2  BY DEF Kinds, LenOf
    <3> QED  BY <3>1, Resources
  <2> HIDE DEF p, q
  <2>3. Len(p) = 4 /\ p[1] = LiteralSegment(<<"shippers">>) /\ p[2] = VariableSegment(<<"shipper">>)
    BY <2>1, Resource
  <2>4. /\ q = [i \in 1..2 |-> q[i]]
        /\ q[1] = LiteralSegment(<<"shippers">>) /\ q[2] = VariableSegment(<<"shipper">>)
    BY <2>2, Resource
  <2>5. ParentOf(p) = SubSeq(p, 1, 2)  BY <2>3 DEF ParentOf
  <2>6. SubSeq(p, 1, 2) = [i \in 1..2 |-> p[i]]
    <3> DEFINE S == {p[1], p[2]}
               h == SubSeq(p, 1, 2)
    <3>1. \A i \in 1..2 : i = 1 \/ i = 2  OBVIOUS
    <3>2. \A i \in 1..2 : p[i] \in S  BY <3>1
    <3> HIDE DEF S
    <3>3. /\ h \in Seq(S) /\ Len(h) = (IF 1 <= 2 THEN 2 - 1 + 1 ELSE 0)
          /\ \A i \in 1..(2 - 1 + 1) : h[i] = p[1 + i - 1]
      BY <3>2, SubSeqProperties
    <3> HIDE DEF h
    <3>4. h \in [1..2 -> S] /\ h[1] = p[1] /\ h[2] = p[2]
      <4>1. Len(h) = 2 /\ h[1] = p[1 + 1 - 1] /\ h[2] = p[1 + 2 - 1]  BY <3>3
      <4>2. h \in [1..Len(h) -> S]  BY <3>3, LenProperties
      <4>3. 1 + 1 - 1 = 1 /\ 1 + 2 - 1 = 2  OBVIOUS
      <4> QED  BY <4>1, <4>2, <4>3
    <3>5. \A i \in 1..2 : h[i] = p[i]  BY <3>1, <3>4
    <3>6. h = [i \in 1..2 |-> h[i]]  BY <3>4
    <3> QED  BY <3>5, <3>6 DEF h
  <2>7. \A i \in 1..2 : p[i] = q[i]
    <3>1. \A i \in 1..2 : i = 1 \/ i = 2  OBVIOUS
    <3> QED  BY <2>3, <2>4, <3>1
  <2> QED  BY <2>4, <2>5, <2>6, <2>7
<1>2. typed.of = p /\ typed.vars = ValuesOf(p, seg)  BY DEF NameValue
<1>3. /\ Variables(q) = {s} /\ ValuesOf(q, up) = [x \in Variables(q) |-> ValuesOf(q, up)[x]]
      /\ ValuesOf(q, up)[s] = up[2] /\ ValuesOf(p, seg)[s] = seg[2]
  <2>1. "Shipper" \in Kinds  BY DEF Kinds
  <2> QED  BY <2>1, ValuesAre
<1> HIDE DEF p, q, s, typed
<1>4. [x \in Variables(q) |-> typed.vars[x]] = ValuesOf(q, up)  BY <1>2, <1>3
<1>5. Parent(typed) = New(q, ValuesOf(q, up))  BY <1>1, <1>2, <1>4 DEF Parent
<1>6. New(q, ValuesOf(q, up)) = Ok(NameValue(q, up))
  <2>1. IsResource(RawOf("Shipper"), 2, Coll("Shipper"), Var("Shipper")) /\ q = Compiled(RawOf("Shipper"))
    <3>1. "Shipper" \in Kinds /\ LenOf("Shipper") = 2  BY DEF Kinds, LenOf
    <3> QED  BY <3>1, Resources DEF q
  <2>2. Coll("Shipper") = "sites"  BY DEF Coll
  <2> QED  BY <2>1, <2>2, Reparsed
<1> QED  BY <1>5, <1>6 DEF p, q, typed

\* The free functions agree with the parent of a typed name.
LEMMA ParentHolds ==
  ASSUME NEW r \in Kinds \ {"Shipper"}, NEW seg, IsName(seg, 4, Coll(r)),
         NEW up, IsName(up, 2, "sites"), up[2] = seg[2]
  PROVE  UnderItsParent(Joined(seg, "/"), Ok(NameValue(Of["Shipper"], up)))
<1> DEFINE s == Joined(seg, "/")
           t == Joined(up, "/")
           q == Of["Shipper"]
           value == NameValue(q, up)
           got == Ok(value)
<1>1. /\ seg \in Seq(Text) /\ Len(seg) = 4 /\ seg[1] = <<"shippers">>
      /\ up \in Seq(Text) /\ Len(up) = 2 /\ up[1] = <<"shippers">>
  BY DEF IsName
<1>2. IsResource(RawOf(r), 4, Coll(r), Var(r))  BY Resources DEF LenOf
<1>3. IsResource(RawOf("Shipper"), 2, "sites", Var("Shipper")) /\ q = Compiled(RawOf("Shipper"))
  <2>1. "Shipper" \in Kinds /\ LenOf("Shipper") = 2 /\ Coll("Shipper") = "sites"  BY DEF Kinds, LenOf, Coll
  <2> QED  BY <2>1, Resources
<1>4. s \in Text /\ s # <<>> /\ NameSegments(s) = seg /\ ~Scan(s).full /\ Scan(s).parts = seg /\ Scan(s).lead = 0
  BY <1>2, Reparsed
<1>5. /\ t \in Text /\ t # <<>> /\ NameSegments(t) = up /\ ~Scan(t).full
      /\ ParseField(q, t) = got
  BY <1>3, Reparsed
<1>6. got.ok /\ got.value = value
  <2> HIDE DEF value
  <2> QED  BY DEF Ok
<1>7. value.name = t  BY DEF NameValue
<1>8. Scan(s).segments = seg /\ Scan(t).segments = up  BY <1>4, <1>5 DEF NameSegments
<1>9. s # t
  <2> HIDE DEF s, t
  <2> SUFFICES ASSUME s = t PROVE FALSE  OBVIOUS
  <2>1. NameSegments(s) = seg /\ NameSegments(t) = up  BY <1>4, <1>5
  <2>2. seg = up  BY ONLY <2>1, s = t
  <2>3. Len(seg) = 4 /\ Len(up) = 2  BY <1>1
  <2> QED  BY <2>2, <2>3
<1> HIDE DEF s, t, value, got
<1>10. \A i \in DOMAIN up : up[i] = seg[i]
  <2>1. DOMAIN up = 1..2  BY <1>1, LenProperties
  <2>2. \A i \in 1..2 : i = 1 \/ i = 2  OBVIOUS
  <2> QED  BY <1>1, <2>1, <2>2
<1>11. HasParent(s, t)
  <2>1. Len(up) <= Len(seg)  BY <1>1
  <2> QED  BY <1>4, <1>5, <1>8, <1>9, <1>10, <2>1 DEF HasParent
<1>12. ~HasParent(t, s)
  <2>1. ~(Len(seg) <= Len(up))  BY <1>1
  <2> QED  BY <1>8, <2>1 DEF HasParent
<1>13. Ancestor(s, PatternText["Shipper"]) = t
  <2> DEFINE raw == RawOf("Shipper")
             pattern == PatternText["Shipper"]
  <2>1. NameSegments(pattern) = raw /\ pattern # <<>>
    <3>1. "Shipper" \in Kinds  BY DEF Kinds
    <3> QED  BY <3>1, Resources
  <2>2. /\ DOMAIN raw = 1..2 /\ Len(raw) = 2 /\ raw[1] = <<"shippers">>
        /\ raw[1] # WILDCARD /\ raw[2] # WILDCARD /\ IsVariable(raw[2])
    <3>1. Len(raw) = 2 /\ raw[1] = <<"shippers">>  BY <1>3 DEF IsResource
    <3>2. DOMAIN raw = 1..2 /\ IsVariable(raw[2]) /\ \A i \in 1..2 : raw[i] # WILDCARD  BY <1>3, ResourceParts
    <3> QED  BY <3>1, <3>2
  <2> HIDE DEF raw, pattern
  <2>3. Scan(pattern).segments = raw  BY <2>1 DEF NameSegments
  <2>4. Len(seg) >= Len(raw)  BY <1>1, <2>2
  <2>5. \A i \in DOMAIN raw : ~IsWildcard(raw[i]) /\ (IsVariable(raw[i]) \/ raw[i] = seg[i])
    <3>1. \A i \in 1..2 : i = 1 \/ i = 2  OBVIOUS
    <3> QED  BY <1>1, <2>2, <3>1 DEF IsWildcard
  <2>6. raw # <<>>
    <3>1. Len(<<>>) = 0  OBVIOUS
    <3> QED  BY <2>2, <3>1
  <2> DEFINE h == SubSeq(seg, 1, 2)
  <2>7. h = up
    <3>0. \A i \in 1..4 : seg[i] \in Text  BY <1>1, ElementOfSeq
    <3>1. \A i \in 1..2 : seg[i] \in Text  BY <3>0
    <3>2. /\ h \in Seq(Text) /\ Len(h) = (IF 1 <= 2 THEN 2 - 1 + 1 ELSE 0)
          /\ \A i \in 1..(2 - 1 + 1) : h[i] = seg[1 + i - 1]
      BY <3>1, SubSeqProperties
    <3> HIDE DEF h
    <3>3. Len(h) = 2 /\ h[1] = seg[1 + 1 - 1] /\ h[2] = seg[1 + 2 - 1]  BY <3>2
    <3>4. 1 + 1 - 1 = 1 /\ 1 + 2 - 1 = 2  OBVIOUS
    <3>5. h[1] = up[1] /\ h[2] = up[2]  BY <1>1, <3>3, <3>4
    <3>6. \A i \in 1..2 : h[i] = up[i]
      <4>1. \A i \in 1..2 : i = 1 \/ i = 2  OBVIOUS
      <4> QED  BY <3>5, <4>1
    <3> QED  BY <1>1, <3>2, <3>3, <3>6, SeqEqual
  <2>8. Joined(SubSeq(Scan(s).parts, 1, Scan(s).lead + Len(raw)), "/") = t
    <3>1. Scan(s).lead + Len(raw) = 2  BY <1>4, <2>2
    <3> QED  BY <1>4, <2>7, <3>1 DEF h, t
  <2> DEFINE fits == /\ Len(Scan(s).segments) >= Len(Scan(pattern).segments)
                     /\ \A i \in DOMAIN Scan(pattern).segments :
                          /\ ~IsWildcard(Scan(pattern).segments[i])
                          /\ IsVariable(Scan(pattern).segments[i]) \/ Scan(pattern).segments[i] = Scan(s).segments[i]
  <2>9. fits  BY <1>8, <2>3, <2>4, <2>5
  <2>10. Ancestor(s, pattern) = Joined(SubSeq(Scan(s).parts, 1, Scan(s).lead + Len(Scan(pattern).segments)), "/")
    BY <1>4, <2>1, <2>3, <2>6, <2>9 DEF Ancestor
  <2> QED  BY <2>3, <2>8, <2>10 DEF pattern
<1>14. UnderItsParent(s, got)
  BY <1>5, <1>6, <1>7, <1>11, <1>12, <1>13 DEF UnderItsParent, q
<1> QED  BY <1>14 DEF s, got, value, q

\* The parent of an accepted name exists, parses, and is what has_parent and
\* ancestor compute.
LEMMA HasAParent ==
  ASSUME text \in Text, NEW r \in Kinds \ {"Shipper"}, ParseField(Of[r], text).ok
  PROVE  UnderItsParent(ParseField(Of[r], text).value.name, Parent(ParseField(Of[r], text).value))
<1> DEFINE seg == NameSegments(text)
           p == Of[r]
           got == ParseField(p, text)
           value == NameValue(p, seg)
           up == << <<"shippers">>, seg[2] >>
<1>1. IsResource(RawOf(r), 4, Coll(r), Var(r)) /\ p = Compiled(RawOf(r))  BY Resources DEF LenOf
<1>2. IsName(seg, 4, Coll(r)) /\ got = Ok(value)  BY <1>1, Parsed
<1>3. Good(seg[2])
  <2>1. 2 \in 1..4  OBVIOUS
  <2> QED  BY <1>2, <2>1 DEF IsName, Good
<1>4. IsName(up, 2, "sites")  BY <1>3, WrittenNames
<1>5. up[2] = seg[2]
  <2> DEFINE a == seg[2]
             b == <<"shippers">>
  <2> HIDE DEF a, b
  <2>1. <<b, a>>[2] = a  OBVIOUS
  <2> QED  BY <2>1 DEF a, b
<1> HIDE DEF up, seg, p
<1>6. Parent(value) = Ok(NameValue(Of["Shipper"], up))  BY <1>2, <1>4, <1>5, ParentIs DEF p
<1>7. UnderItsParent(Joined(seg, "/"), Parent(value))  BY <1>2, <1>4, <1>5, <1>6, ParentHolds
<1>8. value.name = Joined(seg, "/")  BY DEF NameValue
<1> HIDE DEF got, value
<1>9. got.value = value  BY ONLY <1>2 DEF Ok
<1>10. UnderItsParent(got.value.name, Parent(got.value))  BY <1>7, <1>8, <1>9
<1> QED  BY <1>10 DEF got, p

\* A generated id may stand for a variable.
LEMMA GoodId == ASSUME NEW id \in Ids PROVE Good(id)
BY IdFacts DEF Good

\* The values of a row's key columns, as the segments of its name.
LEMMA RowName ==
  ASSUME NEW r \in Kinds \ {"Shipper"}, NEW values, values = [x \in Variables(Of[r]) |-> values[x]],
         Good(values[<<"shipper">>]), Good(values[<<Var(r)>>])
  PROVE  LET seg == << <<"shippers">>, values[<<"shipper">>], <<Coll(r)>>, values[<<Var(r)>>] >>
         IN  IsName(seg, 4, Coll(r)) /\ FromParts(Of[r], values) = NameValue(Of[r], seg) /\ seg[2] = values[<<"shipper">>]
<1> DEFINE s == <<"shipper">>
           t == <<Var(r)>>
           a == values[s]
           b == values[t]
           seg == << <<"shippers">>, a, <<Coll(r)>>, b >>
           p == Of[r]
<1>1. IsName(seg, 4, Coll(r))  BY WrittenNames
<1>2. seg[2] = a /\ seg[4] = b
  <2> DEFINE e == <<"shippers">>
             f == <<Coll(r)>>
  <2> HIDE DEF a, b, e, f
  <2>1. <<e, a, f, b>>[2] = a /\ <<e, a, f, b>>[4] = b  OBVIOUS
  <2> QED  BY <2>1 DEF e, f
<1> HIDE DEF seg
<1>3. /\ ValuesOf(p, seg) = [x \in Variables(p) |-> ValuesOf(p, seg)[x]] /\ Variables(p) = {s, t}
      /\ ValuesOf(p, seg)[s] = seg[2] /\ ValuesOf(p, seg)[t] = seg[4]
  BY ValuesAre
<1> HIDE DEF p, s, t
<1>4. \A x \in Variables(p) : ValuesOf(p, seg)[x] = values[x]  BY <1>2, <1>3
<1>5. values = [x \in Variables(p) |-> values[x]]  BY DEF p
<1>6. ValuesOf(p, seg) = values  BY <1>3, <1>4, <1>5
<1>7. FromParts(p, ValuesOf(p, seg)) = NameValue(p, seg)
  <2>1. IsResource(RawOf(r), 4, Coll(r), Var(r)) /\ p = Compiled(RawOf(r))  BY Resources DEF LenOf, p
  <2> QED  BY <1>1, <2>1, Reparsed
<1> QED  BY <1>1, <1>2, <1>6, <1>7 DEF p, seg, s, t

\* What mint_under makes parses again and has the parent.
LEMMA MintsBelow ==
  ASSUME text \in Text, NEW r \in Kinds \ {"Shipper"}
  PROVE  Mints(r, ParseField(Of["Shipper"], text))
<1> DEFINE q == Of["Shipper"]
           p == Of[r]
           got == ParseField(q, text)
           up == NameSegments(text)
           value == NameValue(q, up)
           s == <<"shipper">>
           t == <<Var(r)>>
<1> SUFFICES ASSUME got.ok, NEW id \in Ids
             PROVE  LET minted == MintUnder(p, got.value, id)
                    IN  ParseField(p, minted.name) = Ok(minted) /\ Parent(minted) = got
  BY DEF Mints
<1>0. "Shipper" \in Kinds /\ LenOf("Shipper") = 2 /\ Coll("Shipper") = "sites"  BY DEF Kinds, LenOf, Coll
<1>1. IsResource(RawOf("Shipper"), 2, "sites", Var("Shipper")) /\ q = Compiled(RawOf("Shipper"))
  BY <1>0, Resources
<1>2. IsName(up, 2, "sites") /\ got = Ok(value)  BY <1>1, Parsed
<1>3. value.vars = ValuesOf(q, up)  BY DEF NameValue
<1>4. got.value = value
  <2> HIDE DEF got, value
  <2> QED  BY ONLY <1>2 DEF Ok
<1>5. DOMAIN ValuesOf(q, up) = {s} /\ ValuesOf(q, up)[s] = up[2]  BY <1>0, ValuesAre
<1>6. Variables(p) = {s, t} /\ t # s  BY ValuesAre
<1> DEFINE vars4 == [x \in Variables(p) |-> IF x \in DOMAIN got.value.vars THEN got.value.vars[x] ELSE id]
<1>7. vars4 = [x \in Variables(p) |-> vars4[x]] /\ vars4[s] = up[2] /\ vars4[t] = id
  <2> HIDE DEF got, value, up, q, p, s, t
  <2> QED  BY <1>3, <1>4, <1>5, <1>6
<1>8. Good(vars4[s]) /\ Good(vars4[t])
  <2>1. 2 \in 1..2  OBVIOUS
  <2>2. Good(up[2])  BY <1>2, <2>1 DEF IsName, Good
  <2>3. Good(id)  BY GoodId
  <2> HIDE DEF vars4, s, t
  <2> QED  BY <1>7, <2>2, <2>3
<1> DEFINE minted == MintUnder(p, got.value, id)
<1>9. minted = FromParts(p, vars4)  BY DEF MintUnder
<1> HIDE DEF vars4
<1> DEFINE seg == << <<"shippers">>, vars4[s], <<Coll(r)>>, vars4[t] >>
<1>10. IsName(seg, 4, Coll(r)) /\ FromParts(p, vars4) = NameValue(p, seg) /\ seg[2] = vars4[s]
  BY <1>7, <1>8, RowName
<1> HIDE DEF seg, minted
<1>11. ParseField(p, minted.name) = Ok(minted)
  <2>1. IsResource(RawOf(r), 4, Coll(r), Var(r)) /\ p = Compiled(RawOf(r))  BY Resources DEF LenOf
  <2>2. ParseField(p, Joined(seg, "/")) = Ok(NameValue(p, seg))  BY <1>10, <2>1, Reparsed
  <2>3. NameValue(p, seg).name = Joined(seg, "/")  BY DEF NameValue
  <2> QED  BY <1>9, <1>10, <2>2, <2>3
<1>12. Parent(minted) = got
  <2>1. seg[2] = up[2]  BY <1>7, <1>10
  <2>2. Parent(NameValue(p, seg)) = Ok(NameValue(q, up))  BY <1>2, <1>10, <2>1, ParentIs
  <2> QED  BY <1>2, <1>9, <1>10, <2>2
<1> QED  BY <1>11, <1>12 DEF minted

\* An id that a caller may set is the segment of a name.
LEMMA IdNames == ASSUME text \in Text PROVE NamesAnId
<1> DEFINE q == Of["Shipper"]
           s == <<"shipper">>
           typed == New(q, [x \in Variables(q) |-> text])
           u == ValidateUserSettable(text)
<1> SUFFICES ASSUME u.ok, \A i \in DOMAIN text : text[i] \in Alphanumeric \cup {"-"}
             PROVE  typed.ok /\ ParseField(q, typed.value.name) = typed
  BY DEF NamesAnId
<1>0. DOMAIN text = 1..Len(text) /\ Len(text) \in Nat  BY LenProperties DEF Text
<1>1. Len(text) \in 1..MaxId /\ text[1] # "-" /\ text[Len(text)] # "-"
  <2>1. Len(text) \in 1..MaxId
    <3> SUFFICES ASSUME Len(text) \notin 1..MaxId PROVE FALSE  OBVIOUS
    <3>1. u = Err("Length")  BY DEF ValidateUserSettable
    <3> HIDE DEF u
    <3>2. ~u.ok  BY ONLY <3>1 DEF Err
    <3> QED  BY <3>2
  <2>2. CASE text \in Uuids
    <3>1. Range(text) \subseteq Alphanumeric \cup {"-"}  BY DEF Range
    <3> QED  BY <2>1, <2>2, <3>1, NamesAssumption
  <2>3. CASE text \notin Uuids
    <3>1. text[1] \in Lower \cup Upper
      <4> SUFFICES ASSUME text[1] \notin Lower \cup Upper PROVE FALSE  OBVIOUS
      <4>1. u = Err("LeadingCharacter")  BY <2>1, <2>3 DEF ValidateUserSettable
      <4> HIDE DEF u
      <4>2. ~u.ok  BY ONLY <4>1 DEF Err
      <4> QED  BY <4>2
    <3>2. text[Len(text)] # "-"
      <4> SUFFICES ASSUME text[Len(text)] = "-" PROVE FALSE  OBVIOUS
      <4>1. u = Err("TrailingCharacter")  BY <2>1, <2>3, <3>1 DEF ValidateUserSettable
      <4> HIDE DEF u
      <4>2. ~u.ok  BY ONLY <4>1 DEF Err
      <4> QED  BY <4>2
    <3>3. text[1] # "-"  BY <3>1, Punctuation DEF Alphanumeric
    <3> QED  BY <2>1, <3>2, <3>3
  <2> QED  BY <2>2, <2>3
<1>2. Good(text)  BY <1>0, <1>1, ShortDomain DEF Good
<1> DEFINE seg == << <<"shippers">>, text >>
<1>3. IsName(seg, 2, "sites")
  <2>1. "Site" \in Kinds \ {"Shipper"}  BY DEF Kinds
  <2> QED  BY <1>2, <2>1, WrittenNames
<1>4. seg[2] = text
  <2> DEFINE b == <<"shippers">>
  <2> HIDE DEF b
  <2>1. <<b, text>>[2] = text  OBVIOUS
  <2> QED  BY <2>1 DEF b
<1> HIDE DEF seg
<1>5. "Shipper" \in Kinds /\ LenOf("Shipper") = 2 /\ Coll("Shipper") = "sites"  BY DEF Kinds, LenOf, Coll
<1>6. /\ ValuesOf(q, seg) = [x \in Variables(q) |-> ValuesOf(q, seg)[x]] /\ Variables(q) = {s}
      /\ ValuesOf(q, seg)[s] = seg[2]
  BY <1>5, ValuesAre
<1>7. New(q, ValuesOf(q, seg)) = Ok(NameValue(q, seg)) /\ ParseField(q, Joined(seg, "/")) = Ok(NameValue(q, seg))
  <2>1. IsResource(RawOf("Shipper"), 2, "sites", Var("Shipper")) /\ q = Compiled(RawOf("Shipper"))
    BY <1>5, Resources
  <2> QED  BY <1>3, <2>1, Reparsed
<1>8. [x \in Variables(q) |-> text] = ValuesOf(q, seg)
  <2> HIDE DEF q, s
  <2> QED  BY <1>4, <1>6
<1> DEFINE value == NameValue(q, seg)
<1>9. typed = Ok(value)  BY <1>7, <1>8
<1>10. value.name = Joined(seg, "/")  BY DEF NameValue
<1>11. ParseField(q, value.name) = Ok(value)  BY <1>7, <1>10
<1> HIDE DEF typed, value
<1>12. typed.ok /\ typed.value = value  BY ONLY <1>9 DEF Ok
<1> QED  BY <1>9, <1>11, <1>12

\* A name that a handler accepts has one canonical text, its parent is the one
\* the free functions compute, what is minted under it parses again, and a
\* valid user-settable id makes such a name.
THEOREM NamesKeepTheirText == Spec => []NameRoundTrips
<1>1. Typed => NameRoundTrips
  <2> SUFFICES ASSUME Typed PROVE NameRoundTrips  OBVIOUS
  <2>0. form \in {"name", "id"} => text \in Text  BY DEF Typed, TextForms
  <2>1. DOMAIN Of = Kinds  BY Resources
  <2>2. ASSUME form = "name", NEW r \in Kinds
        PROVE  /\ Canonical(r, ParseField(Of[r], text))
               /\ IF r = "Shipper" THEN \A child \in Kinds \ {r} : Mints(child, ParseField(Of[r], text))
                  ELSE ParseField(Of[r], text).ok =>
                         UnderItsParent(ParseField(Of[r], text).value.name, Parent(ParseField(Of[r], text).value))
    <3>0. text \in Text  BY <2>0, <2>2
    <3>1. Canonical(r, ParseField(Of[r], text))  BY <3>0, IsCanonical
    <3>2. CASE r = "Shipper"
      <4>1. \A child \in Kinds \ {"Shipper"} : Mints(child, ParseField(Of["Shipper"], text))  BY <3>0, MintsBelow
      <4> QED  BY <3>1, <3>2, <4>1
    <3>3. CASE r # "Shipper"
      <4>1. r \in Kinds \ {"Shipper"}  BY <3>3
      <4>2. ParseField(Of[r], text).ok =>
              UnderItsParent(ParseField(Of[r], text).value.name, Parent(ParseField(Of[r], text).value))
        BY <3>0, <4>1, HasAParent
      <4> QED  BY <3>1, <3>3, <4>2
    <3> QED  BY <3>2, <3>3
  <2>3. form = "id" => NamesAnId  BY <2>0, IdNames
  <2> QED  BY <2>1, <2>2, <2>3 DEF NameRoundTrips
<1> QED  BY <1>1, AlwaysTyped, PTL

\* A generated id has no revision.
LEMMA NoRevision == ASSUME NEW id \in Ids PROVE ~HasRevision(Literal(id))
<1>1. id \in Text /\ Without(id, "@") /\ ~NamesVariable(id)  BY IdFacts
<1>2. Len(id) \in Nat  BY <1>1, LenProperties DEF Text
<1>3. Literal(id) = id  BY <1>1, <1>2 DEF Literal, IsVariable, NamesVariable
<1>4. At(id) = 0
  <2>1. {i \in 1..Len(id) : id[i] = "@"} = {}  BY <1>1 DEF Without
  <2> QED  BY <2>1 DEF At, SelectInSeq
<1>5. ~HasRevision(id)  BY <1>4 DEF HasRevision
<1> QED  BY <1>3, <1>5

\* A row is in the scope of a parent exactly when its name has the parent.
LEMMA ScopedRow ==
  ASSUME text \in Text, ParseField(Of["Shipper"], text).ok,
         NEW r \in Kinds \ {"Shipper"}, NEW values \in [Variables(Of[r]) -> Ids]
  PROVE  InScope(Of["Shipper"], text, FromParts(Of[r], values)) = HasParent(FromParts(Of[r], values).name, text)
<1> DEFINE q == Of["Shipper"]
           p == Of[r]
           s == <<"shipper">>
           t == <<Var(r)>>
           up == NameSegments(text)
           row == FromParts(p, values)
           a == values[s]
           x == up[2]
<1>0. "Shipper" \in Kinds /\ LenOf("Shipper") = 2 /\ Coll("Shipper") = "sites"  BY DEF Kinds, LenOf, Coll
<1>1. IsResource(RawOf("Shipper"), 2, "sites", Var("Shipper")) /\ q = Compiled(RawOf("Shipper"))
  BY <1>0, Resources
<1>2. text # <<>> /\ IsName(up, 2, "sites") /\ MatchName(q, text) = Ok(ValuesOf(q, up))  BY <1>1, Parsed
<1>3. DOMAIN ValuesOf(q, up) = {s} /\ ValuesOf(q, up)[s] = x  BY <1>0, ValuesAre
<1>4. Variables(p) = {s, t}  BY ValuesAre
<1>5. a \in Ids /\ values[t] \in Ids
  <2> HIDE DEF p, s, t
  <2> QED  BY <1>4 DEF p
<1> DEFINE seg == << <<"shippers">>, a, <<Coll(r)>>, values[t] >>
<1>6. IsName(seg, 4, Coll(r)) /\ row = NameValue(p, seg) /\ seg[2] = a
  <2>1. values = [y \in Variables(Of[r]) |-> values[y]]  OBVIOUS
  <2>2. Good(a) /\ Good(values[t])  BY <1>5, GoodId
  <2> QED  BY <2>1, <2>2, RowName
<1> HIDE DEF seg
<1> DEFINE name == Joined(seg, "/")
<1>7. row.name = name /\ row.vars[s] = a
  <2>1. row.name = name  BY <1>6 DEF NameValue
  <2>2. row.vars = values  BY DEF FromParts
  <2> QED  BY <2>1, <2>2
<1>8. name # <<>> /\ NameSegments(name) = seg /\ ~Scan(name).full
  <2>1. IsResource(RawOf(r), 4, Coll(r), Var(r))  BY Resources DEF LenOf
  <2> QED  BY <1>6, <2>1, Reparsed
<1>9. /\ Len(seg) = 4 /\ seg[1] = <<"shippers">> /\ up \in Seq(Text)
      /\ Len(up) = 2 /\ up[1] = <<"shippers">> /\ x # <<>>
  <2>1. 2 \in 1..2  OBVIOUS
  <2> QED  BY <1>2, <1>6, <2>1 DEF IsName
<1>10. InScope(q, text, row) <=> x = WILDCARD \/ a = x
  <2> DEFINE matched == MatchName(q, text)
             bound == [y \in DOMAIN matched.value |-> IF IsWildcard(matched.value[y]) THEN <<>> ELSE matched.value[y]]
             bindings == MatchWithWildcards(q, text)
             vs == ValuesOf(q, up)
  <2>1. matched = Ok(vs)  BY <1>2
  <2>2. DOMAIN vs = {s} /\ vs[s] = x  BY <1>3
  <2> HIDE DEF matched, vs
  <2>3. matched.ok /\ matched.value = vs  BY ONLY <2>1 DEF Ok
  <2>4. bindings = Ok(bound)  BY <2>3 DEF MatchWithWildcards, matched
  <2>5. DOMAIN bound = {s} /\ bound[s] = IF x = WILDCARD THEN <<>> ELSE x
    <3> HIDE DEF s, x
    <3> QED  BY <2>2, <2>3 DEF IsWildcard
  <2> HIDE DEF bindings, bound
  <2>6. bindings.ok /\ bindings.value = bound  BY ONLY <2>4 DEF Ok
  <2> HIDE DEF row, s, x, a
  <2>7. InScope(q, text, row) <=> (bound[s] # <<>> => row.vars[s] = bound[s])
    BY <2>5, <2>6 DEF InScope, bindings
  <2>8. CASE x = WILDCARD
    <3>1. bound[s] = <<>>  BY <2>5, <2>8
    <3> QED  BY <2>7, <2>8, <3>1
  <2>9. CASE x # WILDCARD
    <3>1. bound[s] = x  BY <2>5, <2>9
    <3>2. x # <<>>  BY <1>9
    <3> QED  BY <1>7, <2>7, <2>9, <3>1, <3>2
  <2> QED  BY <2>8, <2>9
<1>11. name # text
  <2> HIDE DEF name
  <2> SUFFICES ASSUME name = text PROVE FALSE  OBVIOUS
  <2>1. NameSegments(text) = seg  BY <1>8
  <2>2. seg = up  BY <2>1
  <2> HIDE DEF up
  <2> QED  BY <1>9, <2>2
<1>12. HasParent(name, text) <=> x = WILDCARD \/ a = x
  <2>1. Scan(name).segments = seg /\ Scan(text).segments = up  BY <1>8 DEF NameSegments
  <2>2. DOMAIN up = 1..2  BY <1>9, LenProperties
  <2> DEFINE Covers(c, d) == \/ IsWildcard(c) \/ c = d
                             \/ /\ HasRevision(Literal(d)) /\ ~HasRevision(Literal(c))
                                /\ ResourceId(Literal(c)) = ResourceId(Literal(d))
  <2> HIDE DEF name, up
  <2>3. HasParent(name, text) <=> \A i \in DOMAIN up : Covers(up[i], seg[i])
    <3>1. Len(up) <= Len(seg)  BY <1>9
    <3> QED  BY <1>2, <1>8, <1>11, <2>1, <3>1 DEF HasParent
  <2>4. Covers(up[1], seg[1])  BY <1>9
  <2>5. Covers(up[2], seg[2]) <=> x = WILDCARD \/ a = x
    <3>1. ~HasRevision(Literal(a))  BY <1>5, NoRevision
    <3> HIDE DEF a, x
    <3>2. up[2] = x /\ seg[2] = a  BY <1>6 DEF x
    <3> QED  BY <3>1, <3>2 DEF IsWildcard
  <2> HIDE DEF Covers, x, a
  <2>6. (\A i \in 1..2 : Covers(up[i], seg[i])) <=> Covers(up[1], seg[1]) /\ Covers(up[2], seg[2])
    <3>1. \A i \in 1..2 : i = 1 \/ i = 2  OBVIOUS
    <3>2. 1 \in 1..2 /\ 2 \in 1..2  OBVIOUS
    <3> QED  BY <3>1, <3>2
  <2> QED  BY <2>2, <2>3, <2>4, <2>5, <2>6
<1>13. InScope(q, text, row) \in BOOLEAN /\ HasParent(name, text) \in BOOLEAN
  <2> HIDE DEF row, name, q
  <2> QED  BY DEF InScope, HasParent
<1> HIDE DEF row, name, x, a, q
<1>14. InScope(q, text, row) = HasParent(row.name, text)  BY <1>7, <1>10, <1>12, <1>13
<1> QED  BY <1>14 DEF q, row, p

\* The rows that a list under a shipper reads are those whose name has that
\* parent, whatever ids the rows have.
THEOREM ScopeIsTheParent == Spec => []ScopeIsParent
<1>1. Typed => ScopeIsParent
  <2> SUFFICES ASSUME Typed, form = "name", ParseField(Of["Shipper"], text).ok,
                      NEW r \in DOMAIN Of \ {"Shipper"}, NEW values \in [Variables(Of[r]) -> Ids]
               PROVE  InScope(Of["Shipper"], text, FromParts(Of[r], values))
                        = HasParent(FromParts(Of[r], values).name, text)
    BY DEF ScopeIsParent
  <2>1. text \in Text  BY DEF Typed, TextForms
  <2>2. r \in Kinds \ {"Shipper"}  BY Resources
  <2> QED  BY <2>1, <2>2, ScopedRow
<1> QED  BY <1>1, AlwaysTyped, PTL
=============================================================================
