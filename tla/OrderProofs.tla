---------------------------- MODULE OrderProofs -----------------------------
(* Facts about data that the other proofs share: induction over the naturals *)
(* and least elements, in a form that speaks of sets, and what a sort by a   *)
(* total order leaves.                                                       *)
EXTENDS Orders, SequencesExt, SequenceTheorems, FiniteSetTheorems, NaturalsInduction, TLAPS

\* Induction over the naturals, for membership of a set.
LEMMA SetInduction ==
  ASSUME NEW S, 0 \in S, \A n \in Nat : n \in S => n + 1 \in S
  PROVE  \A n \in Nat : n \in S
<1> SUFFICES ASSUME NEW m \in Nat, m \notin S PROVE FALSE  OBVIOUS
<1> DEFINE Bad == {n \in Nat : n \notin S}
<1>1. PICK x \in Bad : \A y \in Bad : ~(<<y, x>> \in OpToRel(<, Nat))  BY WFMin, NatLessThanWellFounded
<1>2. x # 0 /\ x \in Nat  OBVIOUS
<1>3. x - 1 \in Bad /\ x - 1 < x  BY <1>2
<1> QED  BY <1>1, <1>2, <1>3 DEF OpToRel

\* A set of naturals that is not empty has a least element, and Min is it.
LEMMA LeastElement ==
  ASSUME NEW S \in SUBSET Nat, S # {}
  PROVE  Min(S) \in S /\ \A y \in S : Min(S) <= y
<1>1. PICK x \in S : \A y \in S : ~(<<y, x>> \in OpToRel(<, Nat))  BY WFMin, NatLessThanWellFounded
<1>2. \A y \in S : x <= y
  <2> TAKE y \in S
  <2>1. x \in Nat /\ y \in Nat  OBVIOUS
  <2>2. ~(y < x)  BY <1>1, <2>1 DEF OpToRel
  <2> QED  BY <2>1, <2>2
<1> QED  BY <1>1, <1>2 DEF Min

\* Recursion over the naturals: steps that are functions define a function.
LEMMA Recursion ==
  ASSUME NEW S, NEW base \in S, NEW N \in Nat, NEW step \in [1..N -> [S -> S]]
  PROVE  \E f \in [0..N -> S] : f[0] = base /\ \A n \in 1..N : f[n] = step[n][f[n - 1]]
<1> DEFINE Upto(m) == \E f \in [0..m -> S] : f[0] = base /\ \A n \in 1..m : f[n] = step[n][f[n - 1]]
           Good == {m \in Nat : m <= N => Upto(m)}
<1>1. 0 \in Good
  <2> DEFINE g == [n \in 0..0 |-> base]
  <2>1. g \in [0..0 -> S] /\ g[0] = base  OBVIOUS
  <2> HIDE DEF g
  <2>2. \A n \in 1..0 : g[n] = step[n][g[n - 1]]  OBVIOUS
  <2> QED  BY <2>1, <2>2
<1>2. ASSUME NEW m \in Nat, m \in Good PROVE m + 1 \in Good
  <2> SUFFICES ASSUME m + 1 <= N PROVE Upto(m + 1)  OBVIOUS
  <2>1. PICK f \in [0..m -> S] : f[0] = base /\ \A n \in 1..m : f[n] = step[n][f[n - 1]]  BY <1>2
  <2> DEFINE g == [n \in 0..(m + 1) |-> IF n <= m THEN f[n] ELSE step[m + 1][f[m]]]
  <2>2. step[m + 1] \in [S -> S] /\ f[m] \in S  OBVIOUS
  <2>3. g \in [0..(m + 1) -> S]  BY <2>2
  <2>4. g[0] = base  BY <2>1
  <2>5. ASSUME NEW n \in 1..(m + 1) PROVE g[n] = step[n][g[n - 1]]
    <3>1. CASE n <= m  BY <2>1, <3>1
    <3>2. CASE n = m + 1  BY <3>2
    <3> QED  BY <3>1, <3>2
  <2> HIDE DEF g
  <2> QED  BY <2>3, <2>4, <2>5
<1> HIDE DEF Good
<1>3. N \in Good  BY <1>1, <1>2, SetInduction
<1> QED  BY <1>3 DEF Good

-----------------------------------------------------------------------------

\* A total order on S.
IsOrder(S, R) ==
  /\ \A a, b \in S : <<a, b>> \in R \/ <<b, a>> \in R
  /\ \A a, b \in S : <<a, b>> \in R /\ <<b, a>> \in R => a = b
  /\ \A a, b, c \in S : <<a, b>> \in R /\ <<b, c>> \in R => <<a, c>> \in R

\* The order of the naturals is one.
LEMMA AscendingOrder == ASSUME NEW S, S \subseteq Nat PROVE IsOrder(S, Ascending)
<1>1. \A a, b \in S : <<a, b>> \in Ascending <=> a <= b  BY DEF Ascending
<1>2. \A a, b \in S : a \in Nat /\ b \in Nat  OBVIOUS
<1> QED  BY <1>1, <1>2 DEF IsOrder

\* A place is a position, and no two elements share one.
LEMMA PlaceOrder ==
  ASSUME NEW S, NEW R, IsFiniteSet(S), IsOrder(S, R)
  PROVE  /\ Cardinality(S) \in Nat
         /\ \A o \in S : Place(S, R, o) \in 1..Cardinality(S)
         /\ \A a, b \in S : Place(S, R, a) = Place(S, R, b) => a = b
<1> DEFINE Up(o) == {p \in S : <<p, o>> \in R}
<1>0. Cardinality(S) \in Nat  BY FS_CardinalityType
<1>1. \A o : IsFiniteSet(Up(o)) /\ Cardinality(Up(o)) \in Nat /\ Cardinality(Up(o)) <= Cardinality(S)
  <2> TAKE o
  <2>1. Up(o) \in SUBSET S  OBVIOUS
  <2> HIDE DEF Up
  <2> QED  BY <2>1, FS_Subset, FS_CardinalityType
<1>2. ASSUME NEW o \in S PROVE Cardinality(Up(o)) \in 1..Cardinality(S)
  <2>1. Up(o) # {}  BY DEF IsOrder
  <2> HIDE DEF Up
  <2>2. Cardinality(Up(o)) # 0  BY <1>1, <2>1, FS_EmptySet
  <2> QED  BY <1>0, <1>1, <2>2
<1>3. ASSUME NEW a \in S, NEW b \in S, <<a, b>> \in R, a # b PROVE Cardinality(Up(a)) # Cardinality(Up(b))
  <2>1. Up(a) \in SUBSET Up(b) /\ b \in Up(b) /\ b \notin Up(a)  BY <1>3 DEF IsOrder
  <2> HIDE DEF Up
  <2> QED  BY <1>1, <2>1, FS_Subset
<1>4. \A a, b \in S : <<a, b>> \in R \/ <<b, a>> \in R  BY DEF IsOrder
<1> QED  BY <1>0, <1>2, <1>3, <1>4 DEF Place

\* Every position has its element.
LEMMA PlaceOnto ==
  ASSUME NEW S, NEW R, IsFiniteSet(S), IsOrder(S, R), NEW i \in 1..Cardinality(S)
  PROVE  \E o \in S : Place(S, R, o) = i
<1> DEFINE n == Cardinality(S)
           f == [o \in S |-> Place(S, R, o)]
<1>0. n \in Nat  BY PlaceOrder
<1>1. IsFiniteSet(1..n) /\ Cardinality(1..n) = n
  <2> HIDE DEF n
  <2>1. IsFiniteSet(1..n) /\ Cardinality(1..n) = IF 1 > n THEN 0 ELSE n - 1 + 1  BY <1>0, FS_Interval
  <2> QED  BY <1>0, <2>1
<1>2. f \in [S -> 1..n] /\ \A a, b \in S : f[a] = f[b] => a = b  BY PlaceOrder
<1> HIDE DEF f, n
<1>3. f \in Injection(S, 1..n)  BY <1>2 DEF Injection, IsInjective
<1>4. f \in Surjection(S, 1..n)
  <2>1. Cardinality(S) = Cardinality(1..n)  BY <1>1 DEF n
  <2> QED  BY <1>1, <1>3, <2>1, FS_Injection
<1>5. PICK o \in S : f[o] = i  BY <1>4 DEF Surjection, n
<1> QED  BY <1>5 DEF f

\* The sorted sequence has the elements of the set, each once, at its place.
LEMMA InOrderFacts ==
  ASSUME NEW S, NEW R, IsFiniteSet(S), IsOrder(S, R)
  PROVE  /\ InOrder(S, R) \in Seq(S) /\ Len(InOrder(S, R)) = Cardinality(S)
         /\ \A i \in 1..Cardinality(S) : InOrder(S, R)[i] \in S /\ Place(S, R, InOrder(S, R)[i]) = i
         /\ ToSet(InOrder(S, R)) = S
<1> DEFINE n == Cardinality(S)
           s == InOrder(S, R)
<1>1. n \in Nat  BY PlaceOrder
<1>2. ASSUME NEW i \in 1..n PROVE s[i] \in S /\ Place(S, R, s[i]) = i
  <2>1. \E o \in S : Place(S, R, o) = i  BY PlaceOnto
  <2>2. s[i] = CHOOSE o \in S : Place(S, R, o) = i  BY DEF InOrder
  <2> QED  BY <2>1, <2>2
<1>3. DOMAIN s = 1..n /\ s = [i \in 1..n |-> s[i]]  BY DEF InOrder
<1> HIDE DEF n, s
<1>4. s \in [1..n -> S]  BY <1>2, <1>3
<1>5. s \in Seq(S) /\ Len(s) = n  BY <1>1, <1>4
<1>6. ToSet(s) \subseteq S  BY <1>2, <1>3 DEF ToSet
<1>7. ASSUME NEW o \in S PROVE o \in ToSet(s)
  <2>1. Place(S, R, o) \in 1..n  BY PlaceOrder DEF n
  <2>2. s[Place(S, R, o)] = o  BY <1>2, <2>1, PlaceOrder
  <2> QED  BY <1>3, <2>1, <2>2 DEF ToSet
<1> QED  BY <1>2, <1>5, <1>6, <1>7 DEF n, s

\* Sorting commutes with a renaming that keeps the order.
LEMMA SameOrder ==
  ASSUME NEW S, NEW R, NEW T, NEW Q, NEW f, IsFiniteSet(S), IsOrder(S, R), IsFiniteSet(T), IsOrder(T, Q),
         f \in Bijection(S, T), \A a, b \in S : <<a, b>> \in R <=> <<f[a], f[b]>> \in Q
  PROVE  /\ Cardinality(S) = Cardinality(T)
         /\ \A i \in 1..Cardinality(S) : InOrder(T, Q)[i] = f[InOrder(S, R)[i]]
<1>1. Cardinality(S) = Cardinality(T)  BY FS_Bijection DEF ExistsBijection
<1>2. /\ f \in [S -> T] /\ \A a, b \in S : f[a] = f[b] => a = b
      /\ \A t \in T : \E a \in S : f[a] = t
  BY DEF Bijection, Injection, Surjection, IsInjective
<1>3. ASSUME NEW a \in S PROVE Place(T, Q, f[a]) = Place(S, R, a)
  <2> DEFINE U == {p \in S : <<p, a>> \in R}
             V == {p \in T : <<p, f[a]>> \in Q}
             g == [p \in U |-> f[p]]
  <2>1. g \in [U -> V]  BY <1>2
  <2>2. \A p, q \in U : g[p] = g[q] => p = q  BY <1>2
  <2>3. \A t \in V : \E p \in U : g[p] = t  BY <1>2
  <2>4. IsFiniteSet(U)
    <3>1. U \in SUBSET S  OBVIOUS
    <3> HIDE DEF U
    <3> QED  BY <3>1, FS_Subset
  <2>5. Place(T, Q, f[a]) = Cardinality(V) /\ Place(S, R, a) = Cardinality(U)  BY DEF Place
  <2> HIDE DEF U, V, g
  <2>6. g \in Bijection(U, V)  BY <2>1, <2>2, <2>3 DEF Bijection, Injection, Surjection, IsInjective
  <2> QED  BY <2>4, <2>5, <2>6, FS_Bijection DEF ExistsBijection
<1>4. ASSUME NEW i \in 1..Cardinality(S) PROVE InOrder(T, Q)[i] = f[InOrder(S, R)[i]]
  <2> DEFINE x == InOrder(S, R)[i]
             y == InOrder(T, Q)[i]
  <2>1. x \in S /\ Place(S, R, x) = i  BY InOrderFacts
  <2>2. y \in T /\ Place(T, Q, y) = i  BY <1>1, InOrderFacts
  <2> HIDE DEF x, y
  <2>3. f[x] \in T /\ Place(T, Q, f[x]) = i  BY <1>2, <1>3, <2>1
  <2>4. f[x] = y  BY <2>2, <2>3, PlaceOrder
  <2> QED  BY <2>4 DEF x, y
<1> QED  BY <1>1, <1>4

\* A new name moves no other one down the list; a removed one moves each of
\* the others by one place at most.
LEMMA PlaceChanges ==
  ASSUME NEW S, NEW R, IsFiniteSet(S), NEW x, NEW o
  PROVE  /\ Place(S, R, o) \in Nat /\ Place(S \cup {x}, R, o) \in Nat /\ Place(S \ {x}, R, o) \in Nat
         /\ Place(S, R, o) <= Place(S \cup {x}, R, o)
         /\ Place(S, R, o) <= Place(S \ {x}, R, o) + 1
<1> DEFINE Up(T) == {p \in T : <<p, o>> \in R}
<1>1. IsFiniteSet(Up(S))
  <2>1. Up(S) \in SUBSET S  OBVIOUS
  <2> HIDE DEF Up
  <2> QED  BY <2>1, FS_Subset
<1>2. Up(S \cup {x}) \in {Up(S), Up(S) \cup {x}} /\ Up(S \ {x}) = Up(S) \ {x}  OBVIOUS
<1> HIDE DEF Up
<1>3. /\ IsFiniteSet(Up(S) \cup {x}) /\ IsFiniteSet(Up(S) \ {x})
      /\ Cardinality(Up(S) \cup {x}) = IF x \in Up(S) THEN Cardinality(Up(S)) ELSE Cardinality(Up(S)) + 1
      /\ Cardinality(Up(S) \ {x}) = IF x \in Up(S) THEN Cardinality(Up(S)) - 1 ELSE Cardinality(Up(S))
  BY <1>1, FS_AddElement, FS_RemoveElement
<1>4. Cardinality(Up(S)) \in Nat /\ Cardinality(Up(S) \cup {x}) \in Nat /\ Cardinality(Up(S) \ {x}) \in Nat
  BY <1>1, <1>3, FS_CardinalityType
<1>5. /\ Place(S, R, o) = Cardinality(Up(S)) /\ Place(S \cup {x}, R, o) = Cardinality(Up(S \cup {x}))
      /\ Place(S \ {x}, R, o) = Cardinality(Up(S \ {x}))
  BY DEF Place, Up
<1>6. Place(S, R, o) \in Nat /\ Place(S \ {x}, R, o) \in Nat /\ Place(S, R, o) <= Place(S \ {x}, R, o) + 1
  <2>1. Cardinality(Up(S) \ {x}) \in {Cardinality(Up(S)), Cardinality(Up(S)) - 1}  BY <1>3
  <2>2. Cardinality(Up(S)) <= Cardinality(Up(S) \ {x}) + 1  BY <1>4, <2>1
  <2> QED  BY <1>2, <1>4, <1>5, <2>2
<1>7. Place(S \cup {x}, R, o) \in Nat /\ Place(S, R, o) <= Place(S \cup {x}, R, o)
  <2>1. CASE Up(S \cup {x}) = Up(S)  BY <1>4, <1>5, <2>1
  <2>2. CASE Up(S \cup {x}) = Up(S) \cup {x}
    <3>1. Cardinality(Up(S) \cup {x}) \in {Cardinality(Up(S)), Cardinality(Up(S)) + 1}  BY <1>3
    <3>2. Cardinality(Up(S)) <= Cardinality(Up(S) \cup {x})  BY <1>4, <3>1
    <3> QED  BY <1>4, <1>5, <2>2, <3>2
  <2> QED  BY <1>2, <2>1, <2>2
<1> QED  BY <1>6, <1>7

\* Elements chosen from a sequence are elements of it.
LEMMA ChosenType ==
  ASSUME NEW T, NEW s \in Seq(T), NEW places, places \subseteq 1..Len(s)
  PROVE  Chosen(s, places) \in Seq(T)
<1> DEFINE n == Cardinality(places)
           order == InOrder(places, Ascending)
<1>1. Len(s) \in Nat /\ places \subseteq Nat  BY LenProperties
<1>2. IsFiniteSet(places)
  <2>1. IsFiniteSet(1..Len(s))
    <3>1. Len(s) \in Int /\ 1 \in Int  BY <1>1
    <3> QED  BY <3>1, FS_Interval
  <2> QED  BY <2>1, FS_Subset
<1>3. n \in Nat /\ \A k \in 1..n : order[k] \in places
  BY <1>1, <1>2, AscendingOrder, InOrderFacts, FS_CardinalityType
<1>4. Chosen(s, places) = [k \in 1..n |-> s[order[k]]]  BY DEF Chosen
<1> HIDE DEF n, order
<1>5. \A k \in 1..n : s[order[k]] \in T  BY <1>3, ElementOfSeq
<1> QED  BY <1>3, <1>4, <1>5

\* A bounded set of naturals that is not empty has a greatest element.
LEMMA GreatestElement ==
  ASSUME NEW n \in Nat, NEW S, S \subseteq 0..n, S # {}
  PROVE  Max(S) \in S /\ \A y \in S : y <= Max(S)
<1> DEFINE D == {n - x : x \in S}
<1>1. D \in SUBSET Nat /\ D # {}
  <2>1. \A x \in S : n - x \in Nat  OBVIOUS
  <2> QED  BY <2>1
<1>2. Min(D) \in D /\ \A y \in D : Min(D) <= y
  <2> HIDE DEF D
  <2> QED  BY <1>1, LeastElement
<1>3. PICK m \in S : Min(D) = n - m  BY <1>2
<1>4. ASSUME NEW y \in S PROVE m >= y
  <2>1. n - y \in D  OBVIOUS
  <2>2. Min(D) <= n - y  BY <1>2, <2>1
  <2>3. m \in Nat /\ y \in Nat  OBVIOUS
  <2> HIDE DEF D
  <2> QED  BY <1>3, <2>2, <2>3
<1> HIDE DEF D
<1>5. Max(S) \in S /\ \A y \in S : Max(S) >= y  BY <1>4 DEF Max
<1> QED  BY <1>5
=============================================================================
