---------------------------- MODULE PolicyProofs ----------------------------
(* normalize and the policy store for every set of roles, members and        *)
(* conditions, policies of any length and any number of clients.             *)
(*                                                                           *)
(* The loop of normalize is a recursive function.  That there is one is      *)
(* shown first (MergingLoop), by induction; then what it computes            *)
(* (MergedFacts); then that the sorted form is a function of what the policy *)
(* grants (OneRowForm).  The store's invariant is that its rows are the      *)
(* normal form of the last accepted policy.                                  *)
EXTENDS PolicyStore, OrderProofs

-----------------------------------------------------------------------------
(* Sequences.                                                                *)

\* The elements of a sequence are finitely many.
LEMMA ToSetFinite ==
  ASSUME NEW S, NEW s \in Seq(S)
  PROVE  /\ IsFiniteSet(ToSet(s)) /\ ToSet(s) \subseteq S
         /\ ToSet(s) = {s[i] : i \in 1..Len(s)}
         /\ s # <<>> <=> ToSet(s) # {}
<1>1. Len(s) \in Nat /\ DOMAIN s = 1..Len(s)  OBVIOUS
<1>2. ToSet(s) = {s[i] : i \in 1..Len(s)}  BY <1>1 DEF ToSet
<1>3. s \in Surjection(1..Len(s), ToSet(s))  BY <1>1, <1>2 DEF Surjection
<1>4. IsFiniteSet(1..Len(s))  BY <1>1, FS_Interval
<1>5. IsFiniteSet(ToSet(s))  BY <1>3, <1>4, FS_Surjection
<1>6. ToSet(s) \subseteq S  BY <1>2
<1>7. s # <<>> <=> ToSet(s) # {}
  <2>1. s # <<>> => 1 \in 1..Len(s)  OBVIOUS
  <2> QED  BY <1>2, <2>1
<1> QED  BY <1>2, <1>5, <1>6, <1>7

\* Replacing an element.
LEMMA ReplaceType ==
  ASSUME NEW S, NEW s \in Seq(S), NEW i \in 1..Len(s), NEW e \in S
  PROVE  [s EXCEPT ![i] = e] \in Seq(S)
OBVIOUS

\* members.sort(); members.dedup() keeps the members, and is the same for
\* every list of them.
LEMMA SortDedupFacts ==
  ASSUME NEW ms \in Seq(Members)
  PROVE  /\ SortDedup(ms) \in Seq(Members) /\ ToSet(SortDedup(ms)) = ToSet(ms)
         /\ SortDedup(ms) = <<>> <=> ms = <<>>
         /\ SortDedup(SortDedup(ms)) = SortDedup(ms)
<1>1. IsFiniteSet(ToSet(ms)) /\ ToSet(ms) \subseteq Members  BY ToSetFinite
<1>2. ToSet(ms) \subseteq Nat  BY <1>1, PolicyAssumption
<1>3. IsOrder(ToSet(ms), Ascending)  BY <1>2, AscendingOrder
<1>4. SortDedup(ms) \in Seq(ToSet(ms)) /\ ToSet(SortDedup(ms)) = ToSet(ms)  BY <1>1, <1>3, InOrderFacts DEF SortDedup
<1>5. SortDedup(ms) \in Seq(Members)  BY <1>1, <1>4
<1>6. SortDedup(ms) = <<>> <=> ms = <<>>  BY <1>4, <1>5, ToSetFinite
<1>7. SortDedup(SortDedup(ms)) = SortDedup(ms)  BY <1>4 DEF SortDedup
<1> QED  BY <1>4, <1>5, <1>6, <1>7

\* iter().position and iter().find over the bindings, by key.
LEMMA FindKey ==
  ASSUME NEW bs \in Seq(Bindings), NEW binding, NEW i, i = SelectInSeq(bs, LAMBDA b : SameKey(b, binding))
  PROVE  /\ i \in 0..Len(bs)
         /\ i = 0 => \A k \in 1..Len(bs) : ~SameKey(bs[k], binding)
         /\ i # 0 => SameKey(bs[i], binding)
<1> DEFINE I == {k \in 1..Len(bs) : SameKey(bs[k], binding)}
<1>1. i = IF I # {} THEN Min(I) ELSE 0  BY DEF SelectInSeq
<1>2. I \in SUBSET Nat /\ I \subseteq 1..Len(bs)  OBVIOUS
<1>3. CASE I = {}  BY <1>1, <1>3
<1>4. CASE I # {}
  <2>1. i \in I  BY <1>1, <1>2, <1>4, LeastElement
  <2> QED  BY <2>1
<1> QED  BY <1>3, <1>4

\* ... and the unconditional binding of a role.
LEMMA FindUnconditional ==
  ASSUME NEW policy, policy.bindings \in Seq(Bindings), NEW role
  PROVE  /\ Unconditional(policy, role) \in 0..Len(policy.bindings)
<1> DEFINE I == {k \in 1..Len(policy.bindings) : policy.bindings[k].role = role /\ policy.bindings[k].condition = None}
<1>1. Unconditional(policy, role) = IF I # {} THEN Min(I) ELSE 0  BY DEF Unconditional, SelectInSeq
<1>2. I \in SUBSET Nat /\ I \subseteq 1..Len(policy.bindings)  OBVIOUS
<1>3. CASE I = {}  BY <1>1, <1>3
<1>4. CASE I # {}
  <2>1. Unconditional(policy, role) \in I  BY <1>1, <1>2, <1>4, LeastElement
  <2> QED  BY <2>1
<1> QED  BY <1>3, <1>4

-----------------------------------------------------------------------------
(* The loop of normalize.                                                    *)

\* The recursive function exists, so it is what its definition says.
LEMMA MergingLoop ==
  ASSUME NEW bs \in Seq(Bindings)
  PROVE  /\ Merging(bs)[0] = <<>>
         /\ \A n \in 1..Len(bs) : Merging(bs)[n] = Fold(Merging(bs)[n - 1], bs[n])
<1> DEFINE IsLoop(g, m) == g = [n \in 0..m |-> IF n = 0 THEN <<>> ELSE Fold(g[n - 1], bs[n])]
           S == {m \in Nat : \E g : IsLoop(g, m)}
<1>1. 0 \in S
  <2>1. IsLoop([n \in 0..0 |-> <<>>], 0)  OBVIOUS
  <2> QED  BY <2>1
<1>2. ASSUME NEW m \in Nat, m \in S PROVE m + 1 \in S
  <2>1. PICK g : IsLoop(g, m)  BY <1>2
  <2> DEFINE h == [n \in 0..(m + 1) |-> IF n = m + 1 THEN Fold(g[m], bs[m + 1]) ELSE g[n]]
  <2>2. \A n \in 0..m : h[n] = g[n]  OBVIOUS
  <2>3. ASSUME NEW n \in 0..(m + 1) PROVE h[n] = IF n = 0 THEN <<>> ELSE Fold(h[n - 1], bs[n])
    <3>1. CASE n = m + 1
      <4>1. h[n - 1] = g[m] /\ n # 0  BY <2>2, <3>1
      <4> QED  BY <3>1, <4>1
    <3>2. CASE n # m + 1 /\ n # 0
      <4>1. n \in 0..m /\ n - 1 \in 0..m  BY <3>2
      <4>2. g[n] = Fold(g[n - 1], bs[n])  BY <2>1, <3>2, <4>1
      <4> QED  BY <2>2, <3>2, <4>1, <4>2
    <3>3. CASE n = 0
      <4>1. 0 \in 0..m  OBVIOUS
      <4>2. g[0] = <<>>  BY <2>1, <4>1
      <4> QED  BY <2>2, <3>3, <4>1, <4>2
    <3> QED  BY <3>1, <3>2, <3>3
  <2>4. IsLoop(h, m + 1)
    <3>1. DOMAIN h = 0..(m + 1) /\ h = [n \in 0..(m + 1) |-> h[n]]  OBVIOUS
    <3> HIDE DEF h
    <3> QED  BY <2>3, <3>1
  <2> HIDE DEF IsLoop, h
  <2>5. \E x : IsLoop(x, m + 1)  BY <2>4
  <2>6. m + 1 \in Nat  OBVIOUS
  <2> QED  BY <2>5, <2>6
<1> HIDE DEF IsLoop
<1>3. \A m \in Nat : m \in S
  <2> HIDE DEF S
  <2> QED  BY <1>1, <1>2, SetInduction
<1>4. PICK g : IsLoop(g, Len(bs))  BY <1>3
<1>5. IsLoop(Merging(bs), Len(bs))  BY <1>4 DEF IsLoop, Merging
<1>6. Merging(bs) = [n \in 0..Len(bs) |-> IF n = 0 THEN <<>> ELSE Fold(Merging(bs)[n - 1], bs[n])]
  BY <1>5 DEF IsLoop
<1>7. Len(bs) \in Nat  OBVIOUS
<1> QED  BY <1>6, <1>7

-----------------------------------------------------------------------------
(* What the loop computes.                                                   *)

\* The bindings give member m the role r under the condition c.
Has(bs, r, m, c) ==
  \E i \in 1..Len(bs) : bs[i].role = r /\ m \in ToSet(bs[i].members) /\ bs[i].condition = c

\* One binding per key, each with its members sorted, and at least one.
Canonical(bs) ==
  /\ \A i, j \in 1..Len(bs) : SameKey(bs[i], bs[j]) => i = j
  /\ \A i \in 1..Len(bs) : bs[i].members # <<>> /\ SortDedup(bs[i].members) = bs[i].members

\* One turn adds what its binding gives and keeps the form.
LEMMA FoldFacts ==
  ASSUME NEW bs \in Seq(Bindings), Canonical(bs), NEW b \in Bindings
  PROVE  /\ Fold(bs, b) \in Seq(Bindings)
         /\ Canonical(Fold(bs, b))
         /\ \A r, m, c : Has(Fold(bs, b), r, m, c) <=>
              Has(bs, r, m, c) \/ (b.role = r /\ m \in ToSet(b.members) /\ b.condition = c)
<1> DEFINE i == SelectInSeq(bs, LAMBDA x : SameKey(x, b))
           f == Fold(bs, b)
<1>1. /\ i \in 0..Len(bs)
      /\ i = 0 => \A k \in 1..Len(bs) : ~SameKey(bs[k], b)
      /\ i # 0 => SameKey(bs[i], b)
  BY FindKey
<1>2. f = CASE b.members = <<>> -> bs
            [] b.members # <<>> /\ i = 0 -> Append(bs, [b EXCEPT !.members = SortDedup(@)])
            [] OTHER -> [bs EXCEPT ![i].members = SortDedup(@ \o b.members)]
  BY DEF Fold
<1>3. b.members \in Seq(Members) /\ b.role \in Roles /\ b.condition \in Condition \cup {None}  BY DEF Bindings
<1>4. \A k \in 1..Len(bs) : bs[k] \in Bindings /\ bs[k].members \in Seq(Members)
  <2>1. \A k \in 1..Len(bs) : bs[k] \in Bindings  OBVIOUS
  <2> QED  BY <2>1 DEF Bindings
<1> HIDE DEF i, f
<1>5. CASE b.members = <<>>
  <2>1. f = bs  BY <1>2, <1>5
  <2>2. ToSet(b.members) = {}  BY <1>3, <1>5, ToSetFinite
  <2> QED  BY <2>1, <2>2 DEF f
<1>6. CASE b.members # <<>> /\ i = 0
  <2> DEFINE e == [b EXCEPT !.members = SortDedup(@)]
  <2>1. f = Append(bs, e)  BY <1>2, <1>6
  <2>2. /\ e \in Bindings /\ e.role = b.role /\ e.condition = b.condition /\ e.members = SortDedup(b.members)
        /\ ToSet(e.members) = ToSet(b.members) /\ e.members # <<>> /\ SortDedup(e.members) = e.members
    BY <1>3, <1>6, SortDedupFacts DEF Bindings
  <2> HIDE DEF e
  <2>3. /\ f \in Seq(Bindings) /\ Len(f) = Len(bs) + 1 /\ f[Len(bs) + 1] = e
        /\ \A k \in 1..Len(bs) : f[k] = bs[k]
    BY <2>1, <2>2
  <2>4. Canonical(f)
    <3>1. \A k \in 1..Len(f) : k \in 1..Len(bs) \/ k = Len(bs) + 1  BY <2>3
    <3>2. \A k \in 1..Len(f) : f[k].members # <<>> /\ SortDedup(f[k].members) = f[k].members
      BY <2>2, <2>3, <3>1 DEF Canonical
    <3>3. \A k \in 1..Len(bs) : ~SameKey(bs[k], e) /\ ~SameKey(e, bs[k])  BY <1>1, <1>6, <2>2 DEF SameKey
    <3>4. \A k, l \in 1..Len(f) : SameKey(f[k], f[l]) => k = l  BY <2>3, <3>1, <3>3 DEF Canonical
    <3> QED  BY <3>2, <3>4 DEF Canonical
  <2>5. ASSUME NEW r, NEW m, NEW c
        PROVE  Has(f, r, m, c) <=> Has(bs, r, m, c) \/ (b.role = r /\ m \in ToSet(b.members) /\ b.condition = c)
    <3>1. \A k \in 1..Len(f) : k \in 1..Len(bs) \/ k = Len(bs) + 1  BY <2>3
    <3>2. 1..Len(bs) \subseteq 1..Len(f) /\ Len(bs) + 1 \in 1..Len(f)  BY <2>3
    <3> QED  BY <2>2, <2>3, <3>1, <3>2 DEF Has
  <2> QED  BY <2>3, <2>4, <2>5 DEF f
<1>7. CASE b.members # <<>> /\ i # 0
  <2> DEFINE ms == SortDedup(bs[i].members \o b.members)
  <2>0. i \in 1..Len(bs)  BY <1>1, <1>7
  <2>1. bs[i].members \o b.members \in Seq(Members)  BY <1>3, <1>4, <2>0
  <2>2. ToSet(bs[i].members \o b.members) = ToSet(bs[i].members) \cup ToSet(b.members)
    <3> DEFINE u == bs[i].members
               v == b.members
    <3>1. u \in Seq(Members) /\ v \in Seq(Members)  BY <1>3, <1>4, <2>0
    <3> HIDE DEF u, v
    <3>2. /\ Len(u \o v) = Len(u) + Len(v) /\ Len(u) \in Nat /\ Len(v) \in Nat
          /\ \A k \in 1..Len(u) : (u \o v)[k] = u[k]
          /\ \A k \in 1..Len(v) : (u \o v)[Len(u) + k] = v[k]
      BY <3>1
    <3>3. \A k \in 1..(Len(u) + Len(v)) : k \in 1..Len(u) \/ (k - Len(u) \in 1..Len(v) /\ k = Len(u) + (k - Len(u)))  BY <3>2
    <3>4. /\ ToSet(u) = {u[k] : k \in 1..Len(u)} /\ ToSet(v) = {v[k] : k \in 1..Len(v)}
          /\ ToSet(u \o v) = {(u \o v)[k] : k \in 1..(Len(u) + Len(v))}
      <4> DEFINE w == u \o v
      <4>1. w \in Seq(Members)  BY <3>1
      <4>2. ToSet(w) = {w[k] : k \in 1..Len(w)}
        <5> HIDE DEF w
        <5> QED  BY <4>1, ToSetFinite
      <4> QED  BY <3>1, <3>2, <4>2, ToSetFinite
    <3>5. ToSet(u \o v) \subseteq ToSet(u) \cup ToSet(v)  BY <3>2, <3>3, <3>4
    <3>6. ToSet(u) \subseteq ToSet(u \o v)
      <4>1. \A k \in 1..Len(u) : k \in 1..(Len(u) + Len(v))  BY <3>2
      <4> QED  BY <3>2, <3>4, <4>1
    <3>7. ToSet(v) \subseteq ToSet(u \o v)
      <4>1. \A k \in 1..Len(v) : Len(u) + k \in 1..(Len(u) + Len(v))  BY <3>2
      <4> QED  BY <3>2, <3>4, <4>1
    <3> QED  BY <3>5, <3>6, <3>7 DEF u, v
  <2>3. bs[i].members \o b.members # <<>>
    <3>1. ToSet(b.members) # {}  BY <1>3, <1>7, ToSetFinite
    <3>2. ToSet(bs[i].members \o b.members) # {}  BY <2>2, <3>1
    <3> QED  BY <2>1, <3>2, ToSetFinite
  <2>4. ms \in Seq(Members) /\ ToSet(ms) = ToSet(bs[i].members) \cup ToSet(b.members) /\ ms # <<>> /\ SortDedup(ms) = ms
    BY <2>1, <2>2, <2>3, SortDedupFacts
  <2>5. f = [bs EXCEPT ![i] = [bs[i] EXCEPT !.members = ms]]  BY <1>2, <1>7
  <2> HIDE DEF ms
  <2>6. [bs[i] EXCEPT !.members = ms] \in Bindings  BY <1>4, <2>0, <2>4 DEF Bindings
  <2>7. f \in Seq(Bindings) /\ Len(f) = Len(bs)  BY <2>0, <2>5, <2>6
  <2>8. \A k \in 1..Len(bs) : f[k] = IF k = i THEN [bs[i] EXCEPT !.members = ms] ELSE bs[k]  BY <2>0, <2>5
  <2>9. \A k \in 1..Len(bs) : /\ f[k].role = bs[k].role /\ f[k].condition = bs[k].condition
                              /\ f[k].members = IF k = i THEN ms ELSE bs[k].members
    BY <1>4, <2>0, <2>8 DEF Bindings
  <2>10. Canonical(f)  BY <2>4, <2>7, <2>9 DEF Canonical, SameKey
  <2>11. ASSUME NEW r, NEW m, NEW c
         PROVE  Has(f, r, m, c) <=> Has(bs, r, m, c) \/ (b.role = r /\ m \in ToSet(b.members) /\ b.condition = c)
    <3>1. bs[i].role = b.role /\ bs[i].condition = b.condition  BY <1>1, <1>7 DEF SameKey
    <3>2. Has(f, r, m, c) => Has(bs, r, m, c) \/ (b.role = r /\ m \in ToSet(b.members) /\ b.condition = c)
      BY <2>0, <2>4, <2>7, <2>9, <3>1 DEF Has
    <3>3. Has(bs, r, m, c) => Has(f, r, m, c)  BY <2>0, <2>4, <2>7, <2>9, <3>1 DEF Has
    <3>4. b.role = r /\ m \in ToSet(b.members) /\ b.condition = c => Has(f, r, m, c)
      BY <2>0, <2>4, <2>7, <2>9, <3>1 DEF Has
    <3> QED  BY <3>2, <3>3, <3>4
  <2> QED  BY <2>7, <2>10, <2>11 DEF f
<1> QED  BY <1>1, <1>5, <1>6, <1>7

\* The whole loop: one binding per key, with what the policy gave.
LEMMA MergedFacts ==
  ASSUME NEW bs \in Seq(Bindings)
  PROVE  /\ Merged(bs) \in Seq(Bindings)
         /\ Canonical(Merged(bs))
         /\ \A r, m, c : Has(Merged(bs), r, m, c) <=> Has(bs, r, m, c)
<1> DEFINE g(n) == Merging(bs)[n]
           Given(n, r, m, c) == \E k \in 1..n : bs[k].role = r /\ m \in ToSet(bs[k].members) /\ bs[k].condition = c
           Done(n) == /\ g(n) \in Seq(Bindings)
                      /\ Canonical(g(n))
                      /\ \A r, m, c : Has(g(n), r, m, c) <=> Given(n, r, m, c)
           S == {n \in Nat : n <= Len(bs) => Done(n)}
<1>1. g(0) = <<>> /\ \A n \in 1..Len(bs) : g(n) = Fold(g(n - 1), bs[n])  BY MergingLoop
<1> HIDE DEF g
<1>2. 0 \in S
  <2>0. <<>> \in Seq(Bindings) /\ Len(<<>>) = 0  OBVIOUS
  <2>1. g(0) \in Seq(Bindings) /\ Len(g(0)) = 0
    <3>1. g(0) = <<>>  BY <1>1
    <3> QED  BY <2>0, <3>1
  <2>2. 1..0 = {}  OBVIOUS
  <2>3. Canonical(g(0))  BY <2>1, <2>2 DEF Canonical
  <2>4. \A r, m, c : ~Has(g(0), r, m, c) /\ ~Given(0, r, m, c)  BY <2>1, <2>2 DEF Has
  <2>5. Done(0)  BY <2>1, <2>3, <2>4
  <2> HIDE DEF Done
  <2> QED  BY <2>5
<1>3. ASSUME NEW n \in Nat, n \in S PROVE n + 1 \in S
  <2>0. n + 1 \in Nat  OBVIOUS
  <2>1. ASSUME n + 1 <= Len(bs) PROVE Done(n + 1)
    <3>1. Done(n) /\ n + 1 \in 1..Len(bs) /\ (n + 1) - 1 = n
      <4> HIDE DEF Done
      <4>1. n <= Len(bs)  BY <2>1
      <4> QED  BY <1>3, <2>1, <4>1
    <3>2. g(n + 1) = Fold(g(n), bs[n + 1])
      <4>1. g(n + 1) = Fold(g((n + 1) - 1), bs[n + 1])  BY <1>1, <3>1
      <4> QED  BY <3>1, <4>1
    <3>3. bs[n + 1] \in Bindings  BY <3>1
    <3>4. /\ g(n + 1) \in Seq(Bindings) /\ Canonical(g(n + 1))
          /\ \A r, m, c : Has(g(n + 1), r, m, c) <=>
               Has(g(n), r, m, c) \/ (bs[n + 1].role = r /\ m \in ToSet(bs[n + 1].members) /\ bs[n + 1].condition = c)
      BY <3>1, <3>2, <3>3, FoldFacts
    <3>5. \A k : k \in 1..(n + 1) <=> k \in 1..n \/ k = n + 1  OBVIOUS
    <3>6. ASSUME NEW r, NEW m, NEW c
          PROVE  Given(n + 1, r, m, c) <=>
                   Given(n, r, m, c) \/ (bs[n + 1].role = r /\ m \in ToSet(bs[n + 1].members) /\ bs[n + 1].condition = c)
      BY <3>5
    <3> HIDE DEF Given
    <3> QED  BY <3>1, <3>4, <3>6
  <2> HIDE DEF Done
  <2> QED  BY <2>0, <2>1
<1>4. \A n \in Nat : n \in S
  <2> HIDE DEF S
  <2> QED  BY <1>2, <1>3, SetInduction
<1>5. Done(Len(bs))
  <2> HIDE DEF Done
  <2>1. Len(bs) \in Nat /\ Len(bs) <= Len(bs)  OBVIOUS
  <2> QED  BY <1>4, <2>1
<1>6. \A r, m, c : Given(Len(bs), r, m, c) <=> Has(bs, r, m, c)  BY DEF Has
<1>7. g(Len(bs)) = Merged(bs)  BY DEF g, Merged
<1> HIDE DEF Given
<1> QED  BY <1>5, <1>6, <1>7

-----------------------------------------------------------------------------
(* The order of the keys.                                                    *)

\* On bindings of distinct keys, binding_key is a total order.
LEMMA ByKeyOrder ==
  ASSUME NEW bs \in Seq(Bindings), Canonical(bs)
  PROVE  IsOrder(ToSet(bs), ByKey(bs))
<1> DEFINE B == ToSet(bs)
           Le(a, b) == KeyLess(a, b) \/ a = b
<1>1. B = {bs[k] : k \in 1..Len(bs)}  BY ToSetFinite
<1>2. \A a \in B : a \in Bindings  BY ToSetFinite
<1>3. \A a, b \in B : SameKey(a, b) => a = b  BY <1>1 DEF Canonical
<1>4. \A a, b \in B : <<a, b>> \in ByKey(bs) <=> Le(a, b)  BY DEF ByKey
<1>5. \A a \in B : /\ a.role \in Nat
                   /\ a.condition # None => /\ a.condition.expression \in Nat /\ a.condition.title \in Nat
                                            /\ a.condition = [expression |-> a.condition.expression, title |-> a.condition.title]
  BY <1>2, PolicyAssumption DEF Bindings, Condition
<1> HIDE DEF B
<1>6. ASSUME NEW a \in B, NEW b \in B PROVE KeyLess(a, b) \/ KeyLess(b, a) \/ SameKey(a, b)
  <2>0. a.role \in Nat /\ b.role \in Nat  BY <1>5
  <2>1. CASE a.role # b.role  BY <2>0, <2>1 DEF KeyLess
  <2>2. CASE a.role = b.role /\ (a.condition = None \/ b.condition = None)  BY <2>2 DEF KeyLess, SameKey
  <2>3. CASE a.role = b.role /\ a.condition # None /\ b.condition # None
    <3> DEFINE ca == a.condition
               cb == b.condition
    <3>1. /\ ca.expression \in Nat /\ ca.title \in Nat /\ cb.expression \in Nat /\ cb.title \in Nat
          /\ ca = [expression |-> ca.expression, title |-> ca.title]
          /\ cb = [expression |-> cb.expression, title |-> cb.title]
      BY <1>5, <2>3
    <3>2. ca.expression = cb.expression /\ ca.title = cb.title => ca = cb  BY <3>1
    <3>3. \/ ca.expression < cb.expression \/ cb.expression < ca.expression
          \/ (ca.expression = cb.expression /\ ca.title < cb.title)
          \/ (cb.expression = ca.expression /\ cb.title < ca.title)
          \/ ca = cb
      BY <3>1, <3>2
    <3> QED  BY <2>3, <3>3 DEF KeyLess, SameKey
  <2> QED  BY <2>1, <2>2, <2>3
<1>7. ASSUME NEW a \in B, NEW b \in B, KeyLess(a, b), KeyLess(b, a) PROVE FALSE
  <2>0. a.role \in Nat /\ b.role \in Nat  BY <1>5
  <2>1. a.role = b.role /\ a.condition # None /\ b.condition # None  BY <1>7, <2>0 DEF KeyLess
  <2>2. /\ a.condition.expression \in Nat /\ a.condition.title \in Nat
        /\ b.condition.expression \in Nat /\ b.condition.title \in Nat
    BY <1>5, <2>1
  <2> QED  BY <1>7, <2>0, <2>1, <2>2 DEF KeyLess
<1>8. ASSUME NEW a \in B, NEW b \in B, NEW c \in B, KeyLess(a, b), KeyLess(b, c) PROVE KeyLess(a, c)
  <2>0. a.role \in Nat /\ b.role \in Nat /\ c.role \in Nat  BY <1>5
  <2>1. CASE a.role # b.role \/ b.role # c.role  BY <1>8, <2>0, <2>1 DEF KeyLess
  <2>2. CASE a.role = b.role /\ b.role = c.role
    <3>1. b.condition # None /\ c.condition # None  BY <1>8, <2>0, <2>2 DEF KeyLess
    <3>2. CASE a.condition = None  BY <2>2, <3>1, <3>2 DEF KeyLess
    <3>3. CASE a.condition # None
      <4>1. /\ a.condition.expression \in Nat /\ a.condition.title \in Nat
            /\ b.condition.expression \in Nat /\ b.condition.title \in Nat
            /\ c.condition.expression \in Nat /\ c.condition.title \in Nat
        BY <1>5, <3>1, <3>3
      <4> QED  BY <1>8, <2>0, <2>2, <3>1, <3>3, <4>1 DEF KeyLess
    <3> QED  BY <3>2, <3>3
  <2> QED  BY <2>1, <2>2
<1>9. \A a, b \in B : Le(a, b) \/ Le(b, a)  BY <1>3, <1>6
<1>10. \A a, b \in B : Le(a, b) /\ Le(b, a) => a = b  BY <1>7
<1>11. \A a, b, c \in B : Le(a, b) /\ Le(b, c) => Le(a, c)  BY <1>8
<1>12. \A a \in B : Le(a, a)  OBVIOUS
<1> HIDE DEF Le
<1>13. IsOrder(B, ByKey(bs))  BY <1>4, <1>9, <1>10, <1>11, <1>12 DEF IsOrder
<1> QED  BY <1>13 DEF B

\* A member has a role under a condition in a set of bindings, as in a list
\* of them.
LEMMA HasInSet ==
  ASSUME NEW bs \in Seq(Bindings), NEW r, NEW m, NEW c
  PROVE  Has(bs, r, m, c) <=> \E b \in ToSet(bs) : b.role = r /\ m \in ToSet(b.members) /\ b.condition = c
<1>1. ToSet(bs) = {bs[k] : k \in 1..Len(bs)}  BY ToSetFinite
<1> QED  BY <1>1 DEF Has

\* The normal form is a policy with the version and etag it had, which gives
\* what the policy gave.
LEMMA NormalizeFacts ==
  ASSUME NEW p \in Policies
  PROVE  /\ Normalize(p) \in Policies
         /\ Normalize(p).bindings = SortByKey(Merged(p.bindings))
         /\ \A r, m, c : Has(Normalize(p).bindings, r, m, c) <=> Has(p.bindings, r, m, c)
<1> DEFINE mb == Merged(p.bindings)
           sb == SortByKey(mb)
<1>1. p.bindings \in Seq(Bindings)  BY DEF Policies
<1>2. mb \in Seq(Bindings) /\ Canonical(mb) /\ \A r, m, c : Has(mb, r, m, c) <=> Has(p.bindings, r, m, c)
  BY <1>1, MergedFacts
<1>3. Normalize(p) = [p EXCEPT !.bindings = sb]  BY DEF Normalize
<1> HIDE DEF mb
<1>4. IsFiniteSet(ToSet(mb)) /\ ToSet(mb) \subseteq Bindings  BY <1>2, ToSetFinite
<1>5. sb \in Seq(ToSet(mb)) /\ ToSet(sb) = ToSet(mb)  BY <1>2, <1>4, ByKeyOrder, InOrderFacts DEF SortByKey
<1>6. sb \in Seq(Bindings)  BY <1>4, <1>5
<1> HIDE DEF sb
<1>7. \A r, m, c : Has(sb, r, m, c) <=> Has(mb, r, m, c)  BY <1>2, <1>5, <1>6, HasInSet
<1>8. Normalize(p) \in Policies /\ Normalize(p).bindings = sb  BY <1>3, <1>6 DEF Policies
<1> QED  BY <1>2, <1>7, <1>8 DEF sb, mb

-----------------------------------------------------------------------------
(* Types of what the clients and the store build.                            *)

\* add_member makes a policy of a policy.
LEMMA AddMemberType ==
  ASSUME NEW p \in Policies, NEW role \in Roles, NEW member \in Members
  PROVE  AddMember(p, role, member) \in Policies
<1> DEFINE i == Unconditional(p, role)
           ms == p.bindings[i].members
<1>1. p.bindings \in Seq(Bindings)  BY DEF Policies
<1>2. i \in 0..Len(p.bindings)  BY <1>1, FindUnconditional
<1> HIDE DEF i
<1>3. CASE i = 0
  <2>1. Binding(role, <<member>>, None) \in Bindings  BY DEF Binding, Bindings
  <2>2. AddMember(p, role, member) = [p EXCEPT !.bindings = Append(p.bindings, Binding(role, <<member>>, None))]
    BY <1>3 DEF AddMember, i
  <2>3. Append(p.bindings, Binding(role, <<member>>, None)) \in Seq(Bindings)  BY <1>1, <2>1
  <2> QED  BY <2>2, <2>3 DEF Policies
<1>4. CASE i # 0 /\ ~Contains(ms, member)
  <2>1. i \in 1..Len(p.bindings)  BY <1>2, <1>4
  <2>2. p.bindings[i] \in Bindings  BY <1>1, <2>1
  <2>3. Append(ms, member) \in Seq(Members)  BY <2>2 DEF Bindings
  <2>4. [p.bindings[i] EXCEPT !.members = Append(ms, member)] \in Bindings  BY <2>2, <2>3 DEF Bindings
  <2>5. AddMember(p, role, member) =
          [p EXCEPT !.bindings = [p.bindings EXCEPT ![i] = [p.bindings[i] EXCEPT !.members = Append(ms, member)]]]
    BY <1>4 DEF AddMember, i
  <2> DEFINE b == [p.bindings[i] EXCEPT !.members = Append(ms, member)]
  <2> HIDE DEF b
  <2>6. [p.bindings EXCEPT ![i] = b] \in Seq(Bindings)  BY <1>1, <2>1, <2>4, ReplaceType DEF b
  <2>7. AddMember(p, role, member) = [p EXCEPT !.bindings = [p.bindings EXCEPT ![i] = b]]  BY <2>5 DEF b
  <2> QED  BY <2>6, <2>7 DEF Policies
<1>5. CASE i # 0 /\ Contains(ms, member)
  <2>1. AddMember(p, role, member) = p  BY <1>5 DEF AddMember, i
  <2> QED  BY <2>1
<1> QED  BY <1>3, <1>4, <1>5

\* retain keeps members.
LEMMA RetainType ==
  ASSUME NEW ms \in Seq(Members), NEW member
  PROVE  Retain(ms, member) \in Seq(Members)
<1> DEFINE kept == {k \in DOMAIN ms : ms[k] # member}
<1>1. kept \subseteq 1..Len(ms)  OBVIOUS
<1> HIDE DEF kept
<1> QED  BY <1>1, ChosenType DEF Retain, kept

\* remove_member makes a policy of a policy.
LEMMA RemoveMemberType ==
  ASSUME NEW p \in Policies, NEW role \in Roles, NEW member \in Members
  PROVE  RemoveMember(p, role, member) \in Policies
<1> DEFINE i == Unconditional(p, role)
           kept == Retain(p.bindings[i].members, member)
<1>1. p.bindings \in Seq(Bindings)  BY DEF Policies
<1>2. i \in 0..Len(p.bindings)  BY <1>1, FindUnconditional
<1>3. RemoveMember(p, role, member) =
        CASE i = 0 -> p
          [] i # 0 /\ kept = <<>> -> [p EXCEPT !.bindings = RemoveAt(@, i)]
          [] OTHER -> [p EXCEPT !.bindings[i].members = kept]
  BY DEF RemoveMember
<1> HIDE DEF i, kept
<1>4. CASE i = 0  BY <1>3, <1>4
<1>5. CASE i # 0 /\ kept = <<>>
  <2>1. RemoveMember(p, role, member) = [p EXCEPT !.bindings = RemoveAt(p.bindings, i)]  BY <1>3, <1>5
  <2>2. i \in 1..Len(p.bindings)  BY <1>2, <1>5
  <2>3. RemoveAt(p.bindings, i) \in Seq(Bindings)
    <3> DEFINE u == SubSeq(p.bindings, 1, i - 1)
               v == SubSeq(p.bindings, i + 1, Len(p.bindings))
    <3>1. u \in Seq(Bindings)  BY <1>1, <2>2
    <3>2. v \in Seq(Bindings)  BY <1>1, <2>2
    <3> HIDE DEF u, v
    <3>3. u \o v \in Seq(Bindings)  BY <3>1, <3>2
    <3> QED  BY <3>3 DEF RemoveAt, u, v
  <2> QED  BY <2>1, <2>3 DEF Policies
<1>6. CASE i # 0 /\ kept # <<>>
  <2>1. i \in 1..Len(p.bindings)  BY <1>2, <1>6
  <2>2. p.bindings[i] \in Bindings  BY <1>1, <2>1
  <2>3. kept \in Seq(Members)
    <3>1. p.bindings[i].members \in Seq(Members)  BY <2>2 DEF Bindings
    <3> QED  BY <3>1, RetainType DEF kept
  <2> DEFINE b == [p.bindings[i] EXCEPT !.members = kept]
  <2>4. b \in Bindings  BY <2>2, <2>3 DEF Bindings
  <2>5. RemoveMember(p, role, member) = [p EXCEPT !.bindings = [p.bindings EXCEPT ![i] = b]]  BY <1>3, <1>6
  <2> HIDE DEF b
  <2>6. [p.bindings EXCEPT ![i] = b] \in Seq(Bindings)  BY <1>1, <2>1, <2>4, ReplaceType
  <2> QED  BY <2>5, <2>6 DEF Policies
<1> QED  BY <1>4, <1>5, <1>6

\* ... and so does a client that pushes a conditional binding.
LEMMA BindType ==
  ASSUME NEW p \in Policies, NEW role \in Roles, NEW member \in Members,
         NEW condition \in Condition, NEW version \in {p.version, 3}
  PROVE  [p EXCEPT !.bindings = Append(@, Binding(role, <<member>>, condition)), !.version = version] \in Policies
<1> DEFINE b == Binding(role, <<member>>, condition)
<1>1. b \in Bindings  BY DEF Binding, Bindings
<1> HIDE DEF b
<1>2. p.bindings \in Seq(Bindings) /\ version \in {0, 1, 3}  BY DEF Policies
<1>3. Append(p.bindings, b) \in Seq(Bindings)  BY <1>1, <1>2
<1>4. [p EXCEPT !.bindings = Append(@, b), !.version = version] \in Policies  BY <1>2, <1>3 DEF Policies
<1> QED  BY <1>4 DEF b

\* The empty policy is its own normal form.
LEMMA DefaultFacts == Default \in Policies /\ ToRows(Normalize(Default).bindings) = <<>>
<1>1. Default \in Policies /\ Default.bindings = <<>>
  <2>1. <<>> \in Seq(Bindings)  OBVIOUS
  <2> QED  BY <2>1 DEF Default, Policies
<1> DEFINE nb == Normalize(Default).bindings
<1>2. \A r, m, c : ~Has(nb, r, m, c)
  <2>1. \A r, m, c : ~Has(<<>>, r, m, c)  BY DEF Has
  <2> QED  BY <1>1, <2>1, NormalizeFacts
<1>3. nb = <<>>
  <2>1. Merged(<<>>) = <<>>
    <3>1. <<>> \in Seq(Bindings) /\ Len(<<>>) = 0  OBVIOUS
    <3>2. Merging(<<>>)[0] = <<>>  BY <3>1, MergingLoop
    <3> QED  BY <3>1, <3>2 DEF Merged
  <2>2. nb = SortByKey(<<>>)  BY <1>1, <2>1, NormalizeFacts
  <2>3. ToSet(<<>>) = {}  BY DEF ToSet
  <2>4. Cardinality({}) = 0  BY FS_EmptySet
  <2> QED  BY <2>2, <2>3, <2>4 DEF SortByKey, InOrder
<1> HIDE DEF nb
<1>4. ToRows(nb) = <<>>  BY <1>3 DEF ToRows
<1> QED  BY <1>1, <1>4 DEF nb

-----------------------------------------------------------------------------
(* What the rows keep.                                                       *)

\* read_bindings and reconstruct, over any rows.
ReadOf(rs) ==
  [i \in DOMAIN rs |->
     Binding(rs[i].role, rs[i].members,
             IF rs[i].expression = None THEN None ELSE [expression |-> rs[i].expression, title |-> 0])]

ReconstructOf(rs) ==
  LET bare == [version |-> CanonicalVersion(ReadOf(rs)), bindings |-> ReadOf(rs), etag |-> NoEtag]
  IN  IF rs = <<>> THEN Default ELSE [bare EXCEPT !.etag = Compute(bare)]

\* What the bindings give, of what a row keeps of a condition.
Gives(bs, r, m, e) ==
  \E i \in 1..Len(bs) : bs[i].role = r /\ m \in ToSet(bs[i].members) /\ Kept(bs[i].condition) = e

\* A reconstructed policy is a policy; its version and its etag are those of
\* its bindings.
LEMMA ReconstructFacts ==
  ASSUME NEW rs \in Seq(Row)
  PROVE  /\ ReadOf(rs) \in Seq(Bindings)
         /\ ReconstructOf(rs) \in Policies /\ ReconstructOf(rs).bindings = ReadOf(rs)
         /\ Validate(ReconstructOf(rs))
         /\ rs # <<>> => ReconstructOf(rs).etag = Compute(ReconstructOf(rs))
<1> DEFINE bs == ReadOf(rs)
           bare == [version |-> CanonicalVersion(bs), bindings |-> bs, etag |-> NoEtag]
<1>1. bs \in Seq(Bindings)
  <2> DEFINE b(i) == Binding(rs[i].role, rs[i].members,
                             IF rs[i].expression = None THEN None ELSE [expression |-> rs[i].expression, title |-> 0])
  <2>1. ASSUME NEW i \in 1..Len(rs) PROVE b(i) \in Bindings
    <3>1. rs[i] \in Row  OBVIOUS
    <3>2. rs[i].role \in Roles /\ rs[i].members \in Seq(Members) /\ rs[i].expression \in Expressions \cup {None}
      BY <3>1 DEF Row
    <3>3. (IF rs[i].expression = None THEN None ELSE [expression |-> rs[i].expression, title |-> 0]) \in Condition \cup {None}
      BY <3>2, PolicyAssumption DEF Condition
    <3> QED  BY <3>2, <3>3 DEF Binding, Bindings
  <2>2. bs = [i \in 1..Len(rs) |-> b(i)] /\ Len(rs) \in Nat  BY DEF ReadOf
  <2> HIDE DEF b, bs
  <2> QED  BY <2>1, <2>2
<1>2. ReconstructOf(rs) = IF rs = <<>> THEN Default ELSE [bare EXCEPT !.etag = Compute(bare)]  BY DEF ReconstructOf
<1>3. rs = <<>> => bs = <<>>  BY DEF ReadOf
<1> HIDE DEF bs
<1>4. CASE rs = <<>>
  <2>1. ReconstructOf(rs) = Default /\ Default.bindings = bs  BY <1>2, <1>3, <1>4 DEF Default
  <2>2. Validate(Default)  BY DEF Validate, AnyConditional, Default
  <2> QED  BY <1>1, <1>4, <2>1, <2>2, DefaultFacts DEF bs
<1>5. CASE rs # <<>>
  <2> DEFINE content == [version |-> CanonicalVersion(bs), bindings |-> bs]
  <2>1. CanonicalVersion(bs) \in {0, 1, 3}  BY DEF CanonicalVersion
  <2>2. Compute(bare) = content /\ content \in Contents  BY <1>1, <2>1 DEF Compute, Contents
  <2>3. ReconstructOf(rs) = [version |-> CanonicalVersion(bs), bindings |-> bs, etag |-> content]
    BY <1>2, <1>5, <2>2
  <2> HIDE DEF content
  <2>4. ReconstructOf(rs) \in Policies  BY <1>1, <2>1, <2>2, <2>3 DEF Policies
  <2>5. ReconstructOf(rs).bindings = bs /\ ReconstructOf(rs).version = CanonicalVersion(bs) /\ ReconstructOf(rs).etag = content
    BY <2>3
  <2>6. Validate(ReconstructOf(rs))  BY <2>5 DEF Validate, CanonicalVersion
  <2>7. Compute(ReconstructOf(rs)) = content  BY <2>5 DEF Compute, content
  <2> QED  BY <1>1, <2>4, <2>5, <2>6, <2>7 DEF bs
<1> QED  BY <1>4, <1>5

\* Rows and back: what a policy gives, up to the titles of its conditions.
LEMMA RowsFacts ==
  ASSUME NEW p \in Policies
  PROVE  /\ ToRows(Normalize(p).bindings) \in Seq(Row)
         /\ \A r, m, e : Gives(ReadOf(ToRows(Normalize(p).bindings)), r, m, e) <=> Gives(p.bindings, r, m, e)
<1> DEFINE bs == Normalize(p).bindings
           rs == ToRows(bs)
           back == ReadOf(rs)
<1>1. bs \in Seq(Bindings) /\ \A r, m, c : Has(bs, r, m, c) <=> Has(p.bindings, r, m, c)
  <2>1. Normalize(p) \in Policies  BY NormalizeFacts
  <2> QED  BY <2>1, NormalizeFacts DEF Policies
<1> HIDE DEF bs
<1>2. Len(bs) \in Nat /\ DOMAIN bs = 1..Len(bs)  BY <1>1
<1>3. \A i \in 1..Len(bs) : /\ bs[i].role \in Roles /\ bs[i].members \in Seq(Members) /\ bs[i].condition \in Condition \cup {None}
                            /\ Kept(bs[i].condition) \in Expressions \cup {None}
                            /\ Kept(bs[i].condition) = None <=> bs[i].condition = None
  <2> TAKE i \in 1..Len(bs)
  <2>1. bs[i] \in Bindings  BY <1>1
  <2>2. bs[i].role \in Roles /\ bs[i].members \in Seq(Members) /\ bs[i].condition \in Condition \cup {None}  BY <2>1 DEF Bindings
  <2>3. None \notin Expressions  BY PolicyAssumption
  <2> QED  BY <2>2, <2>3 DEF Kept, Condition
<1>4. rs = [i \in 1..Len(bs) |-> [role |-> bs[i].role, members |-> bs[i].members, expression |-> Kept(bs[i].condition)]]
  BY <1>2 DEF ToRows, Kept
<1>5. \A i \in 1..Len(bs) :
        [role |-> bs[i].role, members |-> bs[i].members, expression |-> Kept(bs[i].condition)] \in Row  BY <1>3 DEF Row
<1>6. rs \in Seq(Row) /\ Len(rs) = Len(bs) /\ DOMAIN rs = 1..Len(bs)  BY <1>2, <1>4, <1>5
<1>7. \A i \in 1..Len(bs) : /\ rs[i].role = bs[i].role /\ rs[i].members = bs[i].members
                            /\ rs[i].expression = Kept(bs[i].condition)
  BY <1>4
<1> HIDE DEF rs
<1>8. \A i \in 1..Len(bs) : /\ back[i].role = bs[i].role /\ back[i].members = bs[i].members
                            /\ back[i].condition = IF bs[i].condition = None THEN None
                                                   ELSE [expression |-> Kept(bs[i].condition), title |-> 0]
  BY <1>3, <1>6, <1>7 DEF ReadOf, Binding
<1>9. back \in Seq(Bindings) /\ Len(back) = Len(bs)
  <2>1. back \in Seq(Bindings)  BY <1>6, ReconstructFacts
  <2>2. DOMAIN back = DOMAIN rs  BY DEF ReadOf
  <2> HIDE DEF back
  <2> QED  BY <1>2, <1>6, <2>1, <2>2
<1> HIDE DEF back
<1>10. \A i \in 1..Len(bs) : Kept(back[i].condition) = Kept(bs[i].condition)
  <2> TAKE i \in 1..Len(bs)
  <2>1. CASE bs[i].condition = None  BY <1>8, <2>1
  <2>2. CASE bs[i].condition # None
    <3>1. Kept(bs[i].condition) \in Expressions  BY <1>3, <2>2
    <3>2. [expression |-> Kept(bs[i].condition), title |-> 0] \in Condition  BY <3>1, PolicyAssumption DEF Condition
    <3>3. back[i].condition # None /\ back[i].condition.expression = Kept(bs[i].condition)
      BY <1>8, <2>2, <3>2, ConditionAssumption
    <3> QED  BY <3>3 DEF Kept
  <2> QED  BY <2>1, <2>2
<1>11. \A r, m, e : Gives(back, r, m, e) <=> Gives(bs, r, m, e)  BY <1>8, <1>9, <1>10 DEF Gives
<1>12. \A r, m, e : Gives(bs, r, m, e) <=> Gives(p.bindings, r, m, e)
  <2>1. \A x, r, m, e : Gives(x, r, m, e) <=> \E c : Has(x, r, m, c) /\ Kept(c) = e  BY DEF Gives, Has
  <2> QED  BY <1>1, <2>1
<1> QED  BY <1>6, <1>11, <1>12 DEF bs, rs, back

-----------------------------------------------------------------------------
(* One form.                                                                 *)

\* One binding per role and kept expression.
ByExpression(bs) ==
  \A i, j \in 1..Len(bs) : bs[i].role = bs[j].role /\ Kept(bs[i].condition) = Kept(bs[j].condition) => i = j

\* What normalize's loop merged, when no role is bound under conditions that
\* differ in their title only.
LEMMA MergedByExpression ==
  ASSUME NEW p \in Policies, TitlesAgree(p), NEW x, x = Merged(p.bindings)
  PROVE  /\ x \in Seq(Bindings) /\ Canonical(x)
         /\ ByExpression(x)
         /\ \A r, m, e : Gives(x, r, m, e) <=> Gives(p.bindings, r, m, e)
<1>1. p.bindings \in Seq(Bindings)  BY DEF Policies
<1>2. x \in Seq(Bindings) /\ Canonical(x) /\ \A r, m, c : Has(x, r, m, c) <=> Has(p.bindings, r, m, c)
  BY <1>1, MergedFacts
<1>3. ASSUME NEW k \in 1..Len(x)
      PROVE  \E b \in ToSet(p.bindings) : b.role = x[k].role /\ b.condition = x[k].condition
  <2>1. x[k].members \in Seq(Members) /\ x[k].members # <<>>
    <3>1. x[k] \in Bindings  BY <1>2
    <3> QED  BY <1>2, <3>1 DEF Canonical, Bindings
  <2>2. PICK m : m \in ToSet(x[k].members)  BY <2>1, ToSetFinite
  <2>3. Has(p.bindings, x[k].role, m, x[k].condition)
    <3>1. Has(x, x[k].role, m, x[k].condition)  BY <2>2 DEF Has
    <3> QED  BY <1>2, <3>1
  <2> QED  BY <1>1, <2>3, HasInSet
<1>4. ByExpression(x)
  <2> SUFFICES ASSUME NEW i \in 1..Len(x), NEW j \in 1..Len(x), x[i].role = x[j].role,
                      Kept(x[i].condition) = Kept(x[j].condition)
               PROVE  i = j
    BY DEF ByExpression
  <2>1. PICK a \in ToSet(p.bindings) : a.role = x[i].role /\ a.condition = x[i].condition  BY <1>3
  <2>2. PICK b \in ToSet(p.bindings) : b.role = x[j].role /\ b.condition = x[j].condition  BY <1>3
  <2>3. a.condition = b.condition  BY <2>1, <2>2 DEF TitlesAgree
  <2> QED  BY <1>2, <2>1, <2>2, <2>3 DEF Canonical, SameKey
<1>5. \A r, m, e : Gives(x, r, m, e) <=> Gives(p.bindings, r, m, e)
  <2>1. \A y, r, m, e : Gives(y, r, m, e) <=> \E c : Has(y, r, m, c) /\ Kept(c) = e  BY DEF Gives, Has
  <2> QED  BY <1>2, <2>1
<1> QED  BY <1>2, <1>4, <1>5

\* The row of a binding, and the order of the rows.
Plain(b) == [role |-> b.role, members |-> b.members, expression |-> Kept(b.condition)]
PlainLe(u, v) ==
  \/ u.role < v.role
  \/ u.role = v.role /\ (u.expression = v.expression \/ u.expression = None)
  \/ u.role = v.role /\ u.expression # None /\ v.expression # None /\ u.expression < v.expression

OrderedAsRows(bs) ==
  \A a, b \in ToSet(bs) : /\ Plain(a) = Plain(b) => a = b
                          /\ <<a, b>> \in ByKey(bs) <=> PlainLe(Plain(a), Plain(b))

\* Among such bindings, binding_key orders by what the rows keep.
LEMMA OrderOfRows ==
  ASSUME NEW x \in Seq(Bindings), ByExpression(x)
  PROVE  OrderedAsRows(x)
<1>1. ToSet(x) = {x[k] : k \in 1..Len(x)} /\ ToSet(x) \subseteq Bindings  BY ToSetFinite
<1> SUFFICES ASSUME NEW a \in ToSet(x), NEW b \in ToSet(x)
             PROVE  /\ Plain(a) = Plain(b) => a = b
                    /\ <<a, b>> \in ByKey(x) <=> PlainLe(Plain(a), Plain(b))
  BY DEF OrderedAsRows
<1>2. a.role = b.role /\ Kept(a.condition) = Kept(b.condition) => a = b  BY <1>1 DEF ByExpression
<1>3. /\ Plain(a).role = a.role /\ Plain(a).expression = Kept(a.condition)
      /\ Plain(b).role = b.role /\ Plain(b).expression = Kept(b.condition)
  BY DEF Plain
<1>4. Plain(a) = Plain(b) => a = b  BY <1>2, <1>3
<1>5. <<a, b>> \in ByKey(x) <=> KeyLess(a, b) \/ a = b  BY DEF ByKey
<1>6. \A c \in {a, b} : /\ c.role \in Nat
                        /\ Kept(c.condition) = None <=> c.condition = None
                        /\ c.condition # None => /\ Kept(c.condition) = c.condition.expression
                                                 /\ c.condition.expression \in Nat /\ c.condition.title \in Nat
  <2> TAKE c \in {a, b}
  <2>1. c \in Bindings  BY <1>1
  <2>2. c.role \in Nat /\ c.condition \in Condition \cup {None}  BY <2>1, PolicyAssumption DEF Bindings
  <2>3. c.condition # None => c.condition.expression \in Nat /\ c.condition.title \in Nat
    BY <2>2, PolicyAssumption DEF Condition
  <2> QED  BY <2>2, <2>3, PolicyAssumption DEF Kept
<1>7. KeyLess(a, b) \/ a = b <=> PlainLe(Plain(a), Plain(b))
  <2>0. a.role \in Nat /\ b.role \in Nat  BY <1>6
  <2>1. CASE a.role # b.role  BY <1>3, <2>0, <2>1 DEF KeyLess, PlainLe
  <2>2. CASE a.role = b.role /\ Kept(a.condition) = Kept(b.condition)
    BY <1>2, <1>3, <2>2 DEF PlainLe
  <2>3. CASE a.role = b.role /\ Kept(a.condition) # Kept(b.condition)
    <3>1. a # b  BY <2>3
    <3>2. CASE a.condition = None
      BY <1>3, <1>6, <2>3, <3>2 DEF KeyLess, PlainLe
    <3>3. CASE b.condition = None
      <4>1. ~KeyLess(a, b)  BY <2>0, <2>3, <3>3 DEF KeyLess
      <4>2. ~PlainLe(Plain(a), Plain(b))  BY <1>3, <1>6, <2>0, <2>3, <3>3 DEF PlainLe
      <4> QED  BY <3>1, <4>1, <4>2
    <3>4. CASE a.condition # None /\ b.condition # None
      <4>1. KeyLess(a, b) <=> a.condition.expression < b.condition.expression
        BY <1>6, <2>0, <2>3, <3>4 DEF KeyLess
      <4>2. PlainLe(Plain(a), Plain(b)) <=> a.condition.expression < b.condition.expression
        BY <1>3, <1>6, <2>0, <2>3, <3>4 DEF PlainLe
      <4> QED  BY <3>1, <4>1, <4>2
    <3> QED  BY <3>2, <3>3, <3>4
  <2> QED  BY <2>1, <2>2, <2>3
<1> QED  BY <1>4, <1>5, <1>7

\* Two such lists that give the same have the same rows.
LEMMA SameRows ==
  ASSUME NEW x \in Seq(Bindings), Canonical(x), NEW y \in Seq(Bindings), Canonical(y),
         ByExpression(x), ByExpression(y),
         \A r, m, e : Gives(x, r, m, e) <=> Gives(y, r, m, e)
  PROVE  \A a \in ToSet(x) : \E b \in ToSet(y) : Plain(a) = Plain(b)
<1>1. ToSet(x) = {x[k] : k \in 1..Len(x)} /\ ToSet(y) = {y[k] : k \in 1..Len(y)}  BY ToSetFinite
<1> SUFFICES ASSUME NEW k \in 1..Len(x) PROVE \E l \in 1..Len(y) : Plain(x[k]) = Plain(y[l])  BY <1>1
<1> DEFINE r == x[k].role
           e == Kept(x[k].condition)
<1>2. x[k] \in Bindings  OBVIOUS
<1>3. x[k].members \in Seq(Members) /\ x[k].members # <<>>  BY <1>2 DEF Canonical, Bindings
<1>4. PICK m0 : m0 \in ToSet(x[k].members)
  <2>1. ToSet(x[k].members) # {}  BY ONLY <1>3, ToSetFinite
  <2> QED  BY <2>1
<1>5. \A m \in ToSet(x[k].members) : Gives(y, r, m, e)
  <2>1. \A m \in ToSet(x[k].members) : Gives(x, r, m, e)  BY DEF Gives
  <2> QED  BY <2>1
<1> HIDE DEF r, e
<1>6. PICK l \in 1..Len(y) : y[l].role = r /\ Kept(y[l].condition) = e  BY <1>4, <1>5 DEF Gives
<1>7. \A i \in 1..Len(y) : y[i].role = r /\ Kept(y[i].condition) = e => i = l  BY <1>6 DEF ByExpression
<1>8. ToSet(x[k].members) \subseteq ToSet(y[l].members)  BY <1>5, <1>7 DEF Gives
<1>9. ToSet(y[l].members) \subseteq ToSet(x[k].members)
  <2>1. \A m \in ToSet(y[l].members) : Gives(x, r, m, e)
    <3>1. \A m \in ToSet(y[l].members) : Gives(y, r, m, e)  BY <1>6 DEF Gives
    <3> QED  BY <3>1
  <2>2. \A i \in 1..Len(x) : x[i].role = r /\ Kept(x[i].condition) = e => i = k  BY DEF ByExpression, r, e
  <2> QED  BY <2>1, <2>2 DEF Gives
<1>10. ToSet(x[k].members) = ToSet(y[l].members)  BY <1>8, <1>9
<1>11. x[k].members = y[l].members
  <2>1. SortDedup(x[k].members) = SortDedup(y[l].members)  BY <1>10 DEF SortDedup
  <2>2. SortDedup(x[k].members) = x[k].members /\ SortDedup(y[l].members) = y[l].members  BY DEF Canonical
  <2> QED  BY <2>1, <2>2
<1>12. Plain(x[k]) = Plain(y[l])  BY <1>6, <1>11 DEF Plain, r, e
<1> QED  BY <1>12

\* normalize is canonical up to the titles the rows do not keep: policies that
\* give the same members the same roles under the same expressions are stored
\* alike.
LEMMA OneRowForm ==
  ASSUME NEW p \in Policies, TitlesAgree(p), NEW q \in Policies, TitlesAgree(q),
         \A r, m, e : Gives(p.bindings, r, m, e) <=> Gives(q.bindings, r, m, e)
  PROVE  ToRows(Normalize(p).bindings) = ToRows(Normalize(q).bindings)
<1> DEFINE x == Merged(p.bindings)
           y == Merged(q.bindings)
           S == ToSet(x)
           T == ToSet(y)
           f == [a \in S |-> CHOOSE b \in T : Plain(a) = Plain(b)]
<1>1. /\ x \in Seq(Bindings) /\ Canonical(x)
      /\ ByExpression(x)
      /\ \A r, m, e : Gives(x, r, m, e) <=> Gives(p.bindings, r, m, e)
  BY MergedByExpression
<1>2. /\ y \in Seq(Bindings) /\ Canonical(y)
      /\ ByExpression(y)
      /\ \A r, m, e : Gives(y, r, m, e) <=> Gives(q.bindings, r, m, e)
  BY MergedByExpression
<1> HIDE DEF x, y
<1>3. \A r, m, e : Gives(x, r, m, e) <=> Gives(y, r, m, e)  BY <1>1, <1>2
<1>4. \A a \in S : \E b \in T : Plain(a) = Plain(b)  BY <1>1, <1>2, <1>3, SameRows
<1>5. \A b \in T : \E a \in S : Plain(b) = Plain(a)  BY <1>1, <1>2, <1>3, SameRows
<1>6. \A a, b \in S : /\ Plain(a) = Plain(b) => a = b
                      /\ <<a, b>> \in ByKey(x) <=> PlainLe(Plain(a), Plain(b))
  <2>1. OrderedAsRows(x)  BY <1>1, OrderOfRows
  <2> QED  BY <2>1 DEF OrderedAsRows
<1>7. \A a, b \in T : /\ Plain(a) = Plain(b) => a = b
                      /\ <<a, b>> \in ByKey(y) <=> PlainLe(Plain(a), Plain(b))
  <2>1. OrderedAsRows(y)  BY <1>2, OrderOfRows
  <2> QED  BY <2>1 DEF OrderedAsRows
<1>8. IsFiniteSet(S) /\ IsOrder(S, ByKey(x)) /\ IsFiniteSet(T) /\ IsOrder(T, ByKey(y))
  BY <1>1, <1>2, ToSetFinite, ByKeyOrder
<1> HIDE DEF S, T
<1>9. f \in [S -> T] /\ \A a \in S : f[a] \in T /\ Plain(a) = Plain(f[a])  BY <1>4
<1> HIDE DEF f
<1>10. f \in Bijection(S, T)
  <2>1. \A a, b \in S : f[a] = f[b] => a = b  BY <1>6, <1>9
  <2>2. ASSUME NEW t \in T PROVE \E a \in S : f[a] = t
    <3>1. PICK a \in S : Plain(t) = Plain(a)  BY <1>5 DEF S, T
    <3>2. f[a] \in T /\ Plain(f[a]) = Plain(t)  BY <1>9, <3>1
    <3> QED  BY <1>7, <3>2
  <2> QED  BY <1>9, <2>1, <2>2 DEF Bijection, Injection, Surjection, IsInjective
<1>11. \A a, b \in S : <<a, b>> \in ByKey(x) <=> <<f[a], f[b]>> \in ByKey(y)  BY <1>6, <1>7, <1>9
<1> DEFINE n == Cardinality(S)
           u == InOrder(S, ByKey(x))
           v == InOrder(T, ByKey(y))
<1>12. n \in Nat /\ n = Cardinality(T) /\ \A i \in 1..n : v[i] = f[u[i]]
  BY <1>8, <1>10, <1>11, SameOrder, FS_CardinalityType
<1>13. \A i \in 1..n : u[i] \in S  BY <1>8, InOrderFacts
<1>14. DOMAIN u = 1..n /\ DOMAIN v = 1..n  BY <1>12 DEF InOrder
<1>15. Normalize(p).bindings = u /\ Normalize(q).bindings = v
  BY NormalizeFacts DEF SortByKey, x, y, S, T
<1> HIDE DEF n, u, v
<1>16. \A i \in 1..n : Plain(u[i]) = Plain(v[i])  BY <1>9, <1>12, <1>13
<1>17. ToRows(u) = [i \in 1..n |-> Plain(u[i])] /\ ToRows(v) = [i \in 1..n |-> Plain(v[i])]
  BY <1>14 DEF ToRows, Plain
<1> QED  BY <1>15, <1>16, <1>17

-----------------------------------------------------------------------------
(* What the policy decides.                                                  *)

\* What an expression kept in a row evaluates to.
Value(e) == IF e = None THEN "yes" ELSE Holds[e]

\* The bindings of a policy, as a set, give what its list gives.
LEMMA GivesOfSet ==
  ASSUME NEW x, x.bindings \in Seq(Bindings)
  PROVE  /\ \A b \in ToSet(x.bindings) : \A m \in ToSet(b.members) : Gives(x.bindings, b.role, m, Kept(b.condition))
         /\ \A b \in ToSet(x.bindings) : Evaluate(b) = Value(Kept(b.condition))
<1>1. ToSet(x.bindings) = {x.bindings[k] : k \in 1..Len(x.bindings)} /\ ToSet(x.bindings) \subseteq Bindings
  BY ToSetFinite
<1>2. \A b \in Bindings : Evaluate(b) = Value(Kept(b.condition))
  <2> TAKE b \in Bindings
  <2>1. b.condition = None \/ b.condition.expression # None  BY PolicyAssumption DEF Bindings, Condition
  <2> QED  BY <2>1 DEF Evaluate, Kept, Value
<1> QED  BY <1>1, <1>2 DEF Gives

\* Each decision, in terms of what the policy gives.
LEMMA DecisionsOfGives ==
  ASSUME NEW x, x.bindings \in Seq(Bindings), NEW caller
  PROVE  /\ (\E b \in Naming(x, caller) : Evaluate(b) = "broken") <=>
              \E r, m, e : Gives(x.bindings, r, m, e) /\ GrantAdmits(m, caller) /\ Value(e) = "broken"
         /\ \A t : (\E b \in Naming(x, caller) : Evaluate(b) = "yes" /\ t \in Permissions[b.role]) <=>
              \E r, m, e : Gives(x.bindings, r, m, e) /\ GrantAdmits(m, caller) /\ Value(e) = "yes" /\ t \in Permissions[r]
         /\ Grants(x, caller) <=> \E r, m, e : Gives(x.bindings, r, m, e) /\ GrantAdmits(m, caller)
         /\ \A t : t \in GrantSet(x) <=> \E r, m, e : t = <<r, m, e>> /\ Gives(x.bindings, r, m, e)
<1>0. ToSet(x.bindings) = {x.bindings[k] : k \in 1..Len(x.bindings)}  BY ToSetFinite
<1>1. ASSUME NEW b \in Naming(x, caller)
      PROVE  \E m : /\ Gives(x.bindings, b.role, m, Kept(b.condition)) /\ GrantAdmits(m, caller)
                    /\ Evaluate(b) = Value(Kept(b.condition))
  <2>1. b \in ToSet(x.bindings) /\ \E m \in ToSet(b.members) : GrantAdmits(m, caller)  BY DEF Naming
  <2>2. PICK m \in ToSet(b.members) : GrantAdmits(m, caller)  BY <2>1
  <2>3. Gives(x.bindings, b.role, m, Kept(b.condition)) /\ Evaluate(b) = Value(Kept(b.condition))  BY <2>1, <2>2, GivesOfSet
  <2> QED  BY <2>2, <2>3
<1>2. ASSUME NEW r, NEW m, NEW e, Gives(x.bindings, r, m, e), GrantAdmits(m, caller)
      PROVE  \E b \in Naming(x, caller) : b.role = r /\ Evaluate(b) = Value(e)
  <2>1. PICK b \in ToSet(x.bindings) : b.role = r /\ m \in ToSet(b.members) /\ Kept(b.condition) = e
    BY <1>0, <1>2 DEF Gives
  <2>2. b \in Naming(x, caller)  BY <1>2, <2>1 DEF Naming
  <2>3. Evaluate(b) = Value(Kept(b.condition))  BY GivesOfSet
  <2> QED  BY <2>1, <2>2, <2>3
<1>3. (\E b \in Naming(x, caller) : Evaluate(b) = "broken") <=>
        \E r, m, e : Gives(x.bindings, r, m, e) /\ GrantAdmits(m, caller) /\ Value(e) = "broken"
  <2>1. ASSUME NEW b \in Naming(x, caller), Evaluate(b) = "broken"
        PROVE  \E r, m, e : Gives(x.bindings, r, m, e) /\ GrantAdmits(m, caller) /\ Value(e) = "broken"
    BY <1>1, <2>1
  <2>2. ASSUME NEW r, NEW m, NEW e, Gives(x.bindings, r, m, e), GrantAdmits(m, caller), Value(e) = "broken"
        PROVE  \E b \in Naming(x, caller) : Evaluate(b) = "broken"
    BY <1>2, <2>2
  <2> QED  BY <2>1, <2>2
<1>4. ASSUME NEW t
      PROVE  (\E b \in Naming(x, caller) : Evaluate(b) = "yes" /\ t \in Permissions[b.role]) <=>
             \E r, m, e : Gives(x.bindings, r, m, e) /\ GrantAdmits(m, caller) /\ Value(e) = "yes" /\ t \in Permissions[r]
  <2>1. ASSUME NEW b \in Naming(x, caller), Evaluate(b) = "yes", t \in Permissions[b.role]
        PROVE  \E r, m, e : Gives(x.bindings, r, m, e) /\ GrantAdmits(m, caller) /\ Value(e) = "yes" /\ t \in Permissions[r]
    BY <1>1, <2>1
  <2>2. ASSUME NEW r, NEW m, NEW e, Gives(x.bindings, r, m, e), GrantAdmits(m, caller), Value(e) = "yes", t \in Permissions[r]
        PROVE  \E b \in Naming(x, caller) : Evaluate(b) = "yes" /\ t \in Permissions[b.role]
    BY <1>2, <2>2
  <2> QED  BY <2>1, <2>2
<1>5. Grants(x, caller) <=> \E r, m, e : Gives(x.bindings, r, m, e) /\ GrantAdmits(m, caller)
  <2>1. DOMAIN x.bindings = 1..Len(x.bindings)  OBVIOUS
  <2>2. Grants(x, caller) <=> \E i \in 1..Len(x.bindings) : \E m \in ToSet(x.bindings[i].members) : GrantAdmits(m, caller)
    BY <2>1 DEF Grants, ToSet
  <2> QED  BY <2>2 DEF Gives
<1>6. ASSUME NEW t PROVE t \in GrantSet(x) <=> \E r, m, e : t = <<r, m, e>> /\ Gives(x.bindings, r, m, e)
  <2>1. t \in GrantSet(x) <=>
          \E b \in ToSet(x.bindings) : \E m \in ToSet(b.members) : t = <<b.role, m, Kept(b.condition)>>
    BY DEF GrantSet, Kept
  <2>2. ASSUME NEW b \in ToSet(x.bindings), NEW m \in ToSet(b.members), t = <<b.role, m, Kept(b.condition)>>
        PROVE  \E r, n, e : t = <<r, n, e>> /\ Gives(x.bindings, r, n, e)
    BY <2>2, GivesOfSet
  <2>3. ASSUME NEW r, NEW m, NEW e, t = <<r, m, e>>, Gives(x.bindings, r, m, e)
        PROVE  \E b \in ToSet(x.bindings) : \E n \in ToSet(b.members) : t = <<b.role, n, Kept(b.condition)>>
    <3>1. PICK b \in ToSet(x.bindings) : b.role = r /\ m \in ToSet(b.members) /\ Kept(b.condition) = e
      BY <1>0, <2>3 DEF Gives
    <3> QED  BY <2>3, <3>1
  <2> QED  BY <2>1, <2>2, <2>3
<1> QED  BY <1>3, <1>4, <1>5, <1>6

\* Decisions read no more of a policy than what it gives.
LEMMA SameDecisions ==
  ASSUME NEW p, NEW q, p.bindings \in Seq(Bindings), q.bindings \in Seq(Bindings),
         \A r, m, e : Gives(p.bindings, r, m, e) <=> Gives(q.bindings, r, m, e), NEW caller
  PROVE  /\ GrantedPermissions(p, caller) = GrantedPermissions(q, caller)
         /\ Grants(p, caller) <=> Grants(q, caller)
         /\ GrantSet(p) = GrantSet(q)
<1> DEFINE Broken(x) == \E b \in Naming(x, caller) : Evaluate(b) = "broken"
           Given(x) == UNION {Permissions[b.role] : b \in {n \in Naming(x, caller) : Evaluate(n) = "yes"}}
           Gets(x, t) == \E b \in Naming(x, caller) : Evaluate(b) = "yes" /\ t \in Permissions[b.role]
<1>1. Broken(p) <=> Broken(q)
  <2>1. Broken(p) <=> \E r, m, e : Gives(p.bindings, r, m, e) /\ GrantAdmits(m, caller) /\ Value(e) = "broken"
    BY DecisionsOfGives
  <2>2. Broken(q) <=> \E r, m, e : Gives(q.bindings, r, m, e) /\ GrantAdmits(m, caller) /\ Value(e) = "broken"
    BY DecisionsOfGives
  <2> QED  BY <2>1, <2>2
<1>2. \A t : Gets(p, t) <=> Gets(q, t)
  <2> TAKE t
  <2>1. Gets(p, t) <=> \E r, m, e : Gives(p.bindings, r, m, e) /\ GrantAdmits(m, caller) /\ Value(e) = "yes" /\ t \in Permissions[r]
    BY DecisionsOfGives
  <2>2. Gets(q, t) <=> \E r, m, e : Gives(q.bindings, r, m, e) /\ GrantAdmits(m, caller) /\ Value(e) = "yes" /\ t \in Permissions[r]
    BY DecisionsOfGives
  <2> QED  BY <2>1, <2>2
<1>3. \A x, t : t \in Given(x) <=> Gets(x, t)  OBVIOUS
<1>4. Given(p) = Given(q)
  <2> HIDE DEF Given, Gets
  <2>1. \A t : t \in Given(p) <=> t \in Given(q)  BY <1>2, <1>3
  <2> QED  BY <2>1
<1>5. GrantedPermissions(p, caller) = GrantedPermissions(q, caller)
  <2>1. \A x : GrantedPermissions(x, caller) = IF Broken(x) THEN {"error"} ELSE Given(x)  BY DEF GrantedPermissions
  <2> HIDE DEF Broken, Given
  <2> QED  BY <1>1, <1>4, <2>1
<1>6. Grants(p, caller) <=> Grants(q, caller)  BY DecisionsOfGives
<1>7. GrantSet(p) = GrantSet(q)
  <2>1. \A t : t \in GrantSet(p) <=> \E r, m, e : t = <<r, m, e>> /\ Gives(p.bindings, r, m, e)  BY DecisionsOfGives
  <2>2. \A t : t \in GrantSet(q) <=> \E r, m, e : t = <<r, m, e>> /\ Gives(q.bindings, r, m, e)  BY DecisionsOfGives
  <2>3. \A t : t \in GrantSet(p) <=> t \in GrantSet(q)  BY <2>1, <2>2
  <2> QED  BY <2>3
<1> QED  BY <1>5, <1>6, <1>7

-----------------------------------------------------------------------------
(* The store.                                                                *)

\* The specification's reconstruct, now and after a step.
LEMMA ReconstructIs ==
  /\ Reconstruct = ReconstructOf(rows) /\ Reconstruct' = ReconstructOf(rows')
BY DEF Reconstruct, ReconstructOf, ReadBindings, ReadOf

\* In a typed state the stored policy is a policy, and no policy is stored
\* exactly when there is no row.
LEMMA StoredFacts ==
  ASSUME rows \in Seq(Row)
  PROVE  /\ Reconstruct \in Policies /\ Validate(Reconstruct)
         /\ rows # <<>> => Reconstruct.etag = Compute(Reconstruct)
         /\ Stored = IF rows = <<>> THEN None ELSE Reconstruct
         /\ Stored = None <=> rows = <<>>
         /\ (IF Stored = None THEN Default ELSE Stored) = Reconstruct
<1>1. /\ Reconstruct \in Policies /\ Validate(Reconstruct)
      /\ rows # <<>> => Reconstruct.etag = Compute(Reconstruct)
  BY ReconstructIs, ReconstructFacts
<1>2. Stored = IF rows = <<>> THEN None ELSE Reconstruct  BY DEF Stored
<1>3. Stored = None <=> rows = <<>>  BY <1>1, <1>2, NoPolicyAssumption
<1>4. rows = <<>> => Reconstruct = Default  BY DEF Reconstruct
<1> QED  BY <1>1, <1>2, <1>3, <1>4

\* An empty store holds the normal form of no policy.
LEMMA StoreInit == Init => StoreInv
<1> SUFFICES ASSUME Init PROVE StoreInv  OBVIOUS
<1>1. rows = <<>> /\ draft = [c \in Clients |-> None] /\ edits = [c \in Clients |-> 0] /\ accepted = None  BY DEF Init
<1>2. <<>> \in Seq(Row)  OBVIOUS
<1>3. TypeOK  BY <1>1, <1>2, StoreAssumption DEF TypeOK
<1>4. Accepted = Default  BY <1>1 DEF Accepted
<1> QED  BY <1>1, <1>3, <1>4, DefaultFacts DEF StoreInv

\* Every step but an accepted SetIamPolicy leaves the rows as they are.
LEMMA StoreStep == StoreInv /\ [Next]_vars => StoreInv'
<1> SUFFICES ASSUME StoreInv, [Next]_vars PROVE StoreInv'  OBVIOUS
<1>1. /\ rows \in Seq(Row) /\ edits \in [Clients -> 0 .. MaxEdits]
      /\ draft \in [Clients -> Policies \cup {None}] /\ accepted \in Policies \cup {None}
  BY DEF StoreInv, TypeOK
<1>2. rows = ToRows(Normalize(Accepted).bindings)  BY DEF StoreInv
<1>3. MaxEdits \in Nat  BY StoreAssumption
<1>4. ASSUME rows' = rows, accepted' = accepted, draft' \in [Clients -> Policies \cup {None}], edits' \in [Clients -> 0 .. MaxEdits]
      PROVE  StoreInv'
  <2>1. TypeOK'  BY <1>1, <1>4 DEF TypeOK
  <2>2. Accepted' = Accepted  BY <1>4 DEF Accepted
  <2>3. (rows = ToRows(Normalize(Accepted).bindings))'
    <3>1. rows' = ToRows(Normalize(Accepted').bindings)  BY <1>2, <1>4, <2>2
    <3> QED  BY <3>1 DEF ToRows, Normalize
  <2> QED  BY <2>1, <2>3 DEF StoreInv
<1>5. ASSUME NEW c \in Clients, NEW policy \in Policies, Edit(c, policy) PROVE StoreInv'
  <2>1. edits[c] + 1 \in 0 .. MaxEdits  BY <1>1, <1>3, <1>5 DEF Edit
  <2>2. edits' \in [Clients -> 0 .. MaxEdits]  BY <1>1, <1>5, <2>1 DEF Edit
  <2>3. draft' \in [Clients -> Policies \cup {None}]  BY <1>1, <1>5 DEF Edit
  <2>4. rows' = rows /\ accepted' = accepted  BY <1>5 DEF Edit
  <2> QED  BY <1>4, <2>2, <2>3, <2>4
<1>6. ASSUME NEW c \in Clients, GetIamPolicy(c) PROVE StoreInv'
  <2>1. (IF Stored = None THEN Default ELSE Stored) \in Policies  BY <1>1, StoredFacts
  <2>2. draft' \in [Clients -> Policies \cup {None}]  BY <1>1, <1>6, <2>1 DEF GetIamPolicy
  <2>3. edits' \in [Clients -> 0 .. MaxEdits]  BY <1>1, <1>3, <1>6 DEF GetIamPolicy
  <2>4. rows' = rows /\ accepted' = accepted  BY <1>6 DEF GetIamPolicy
  <2> QED  BY <1>4, <2>2, <2>3, <2>4
<1>7. ASSUME NEW c \in Clients, draft[c] # None, NEW role \in Roles, NEW member \in Members,
             \/ ClientAdds(c, role, member)
             \/ ClientRemoves(c, role, member)
             \/ \E condition \in Condition, version \in {draft[c].version, 3} :
                  ClientBinds(c, role, member, condition, version)
      PROVE  StoreInv'
  <2>0. draft[c] \in Policies  BY <1>1, <1>7
  <2>1. CASE ClientAdds(c, role, member)
    <3>1. AddMember(draft[c], role, member) \in Policies  BY <2>0, AddMemberType
    <3> QED  BY <1>5, <2>1, <3>1 DEF ClientAdds
  <2>2. CASE ClientRemoves(c, role, member)
    <3>1. RemoveMember(draft[c], role, member) \in Policies  BY <2>0, RemoveMemberType
    <3> QED  BY <1>5, <2>2, <3>1 DEF ClientRemoves
  <2>3. ASSUME NEW condition \in Condition, NEW version \in {draft[c].version, 3},
               ClientBinds(c, role, member, condition, version)
        PROVE  StoreInv'
    <3> DEFINE p == [draft[c] EXCEPT !.bindings = Append(@, Binding(role, <<member>>, condition)), !.version = version]
    <3>1. p \in Policies  BY <2>0, BindType
    <3>2. Edit(c, p)  BY <2>3 DEF ClientBinds
    <3> HIDE DEF p
    <3> QED  BY <1>5, <3>1, <3>2
  <2> QED  BY <1>7, <2>1, <2>2, <2>3
<1>8. ASSUME NEW c \in Clients, SetIamPolicy(c) PROVE StoreInv'
  <2>1. draft[c] \in Policies  BY <1>1, <1>8 DEF SetIamPolicy, ValidRequest
  <2>2. /\ rows' = ToRows(Normalize(draft[c]).bindings) /\ accepted' = draft[c]
        /\ draft' = [draft EXCEPT ![c] = Reconstruct'] /\ edits' = [edits EXCEPT ![c] = 0]
    BY <1>8 DEF SetIamPolicy
  <2>3. rows' \in Seq(Row)  BY <2>1, <2>2, RowsFacts
  <2>4. Reconstruct' \in Policies  BY <2>3, ReconstructIs, ReconstructFacts
  <2>5. draft' \in [Clients -> Policies \cup {None}]  BY <1>1, <2>2, <2>4
  <2>6. edits' \in [Clients -> 0 .. MaxEdits]  BY <1>1, <1>3, <2>2
  <2>7. TypeOK'  BY <2>1, <2>2, <2>3, <2>5, <2>6 DEF TypeOK
  <2>8. Accepted' = draft[c]  BY <2>1, <2>2, NoPolicyAssumption DEF Accepted
  <2>9. (rows = ToRows(Normalize(Accepted).bindings))'
    <3>1. rows' = ToRows(Normalize(Accepted').bindings)  BY <2>2, <2>8
    <3> QED  BY <3>1 DEF ToRows, Normalize
  <2> QED  BY <2>7, <2>9 DEF StoreInv
<1>9. CASE UNCHANGED vars  BY <1>1, <1>4, <1>9 DEF vars
<1> QED  BY <1>6, <1>7, <1>8, <1>9 DEF Next

\* The rows are always those of the last accepted policy's normal form
\* (set_checked writes what normalize left, and nothing else writes).
THEOREM StoreInvariant == Spec => []StoreInv
<1> QED  BY StoreInit, StoreStep, PTL DEF Spec

\* Every draft, every stored row and the last accepted policy have their type,
\* whatever add_member, remove_member, normalize and reconstruct made of them.
THEOREM PolicyTypes == Spec => []TypeOK
<1>1. StoreInv => TypeOK  BY DEF StoreInv
<1> QED  BY <1>1, StoreInvariant, PTL

\* What GetIamPolicy returns passes SetIamPolicy's version rule and freshness
\* check, though reconstruct recovers both version and etag.
THEOREM EchoAccepted == Spec => []EchoIsAccepted
<1>1. ASSUME StoreInv PROVE EchoIsAccepted
  <2>1. rows \in Seq(Row)  BY <1>1 DEF StoreInv, TypeOK
  <2>2. CASE rows = <<>>
    <3>1. Reconstruct = Default  BY <2>2 DEF Reconstruct
    <3>2. Check(Reconstruct.etag, Stored)  BY <3>1 DEF Check, Default
    <3> QED  BY <2>1, <3>2, StoredFacts DEF EchoIsAccepted
  <2>3. CASE rows # <<>>
    <3>1. Stored = Reconstruct /\ Stored # None /\ Reconstruct.etag = Compute(Reconstruct)  BY <2>1, <2>3, StoredFacts
    <3>2. Check(Reconstruct.etag, Stored)  BY <3>1 DEF Check
    <3> QED  BY <2>1, <3>2, StoredFacts DEF EchoIsAccepted
  <2> QED  BY <2>2, <2>3
<1> QED  BY <1>1, StoreInvariant, PTL

\* What is stored gives what was accepted.
LEMMA StoredGives ==
  ASSUME StoreInv
  PROVE  /\ Accepted \in Policies /\ Reconstruct \in Policies /\ rows \in Seq(Row)
         /\ \A r, m, e : Gives(Reconstruct.bindings, r, m, e) <=> Gives(Accepted.bindings, r, m, e)
<1>1. rows \in Seq(Row) /\ accepted \in Policies \cup {None} /\ rows = ToRows(Normalize(Accepted).bindings)
  BY DEF StoreInv, TypeOK
<1>2. Accepted \in Policies  BY <1>1, DefaultFacts DEF Accepted
<1>3. Reconstruct.bindings = ReadOf(rows) /\ Reconstruct \in Policies  BY <1>1, ReconstructIs, ReconstructFacts
<1> QED  BY <1>1, <1>2, <1>3, RowsFacts

\* TestIamPermissions and the read gate decide from the stored policy as from
\* the one the client sent, for every caller and every catalogue of roles.
THEOREM DecisionsFollow == Spec => []DecisionsFollowPolicy
<1>1. ASSUME StoreInv PROVE DecisionsFollowPolicy
  <2> SUFFICES ASSUME accepted # None, NEW caller \in Callers
               PROVE  /\ GrantedPermissions(Reconstruct, caller) = GrantedPermissions(accepted, caller)
                      /\ GrantSet(accepted) # {} => (Authorized(caller) <=> Grants(accepted, caller))
    BY DEF DecisionsFollowPolicy
  <2>1. Accepted = accepted  BY DEF Accepted
  <2>2. /\ accepted \in Policies /\ Reconstruct \in Policies /\ rows \in Seq(Row)
        /\ \A r, m, e : Gives(Reconstruct.bindings, r, m, e) <=> Gives(accepted.bindings, r, m, e)
    BY <1>1, <2>1, StoredGives
  <2>3. accepted.bindings \in Seq(Bindings) /\ Reconstruct.bindings \in Seq(Bindings)  BY <2>2 DEF Policies
  <2>4. /\ GrantedPermissions(Reconstruct, caller) = GrantedPermissions(accepted, caller)
        /\ Grants(Reconstruct, caller) <=> Grants(accepted, caller)
        /\ GrantSet(Reconstruct) = GrantSet(accepted)
    BY <2>2, <2>3, SameDecisions
  <2>5. ASSUME GrantSet(accepted) # {} PROVE Authorized(caller) <=> Grants(accepted, caller)
    <3>1. rows # <<>>
      <4>1. GrantSet(Default) = {}  BY DEF GrantSet, Default, ToSet
      <4>2. rows = <<>> => Reconstruct = Default  BY DEF Reconstruct
      <4> QED  BY <2>4, <2>5, <4>1, <4>2
    <3>2. Stored = Reconstruct /\ Stored # None  BY <2>2, <3>1, StoredFacts
    <3> QED  BY <2>4, <3>2 DEF Authorized
  <2> QED  BY <2>4, <2>5
<1> QED  BY <1>1, StoreInvariant, PTL

\* A write that carries an etag revokes only what its client had read: the
\* check of set_checked compares the etag with what is stored, under the lock.
THEOREM NoGrantLost == Spec => NoLostGrant
<1>1. ASSUME StoreInv, [Next]_vars
      PROVE  [accepted' # None /\ accepted'.etag # NoEtag => Revoked \subseteq GrantSet(Base(accepted'))]_vars
  <2>1. rows \in Seq(Row)  BY <1>1 DEF StoreInv, TypeOK
  <2>2. ASSUME rows' = rows PROVE Revoked = {}
    <3>1. Reconstruct' = Reconstruct  BY <2>2, ReconstructIs
    <3>2. GrantSet(Reconstruct)' = GrantSet(Reconstruct)  BY <3>1 DEF GrantSet
    <3> QED  BY <3>1, <3>2 DEF Revoked
  <2>3. ASSUME NEW c \in Clients, SetIamPolicy(c), accepted'.etag # NoEtag
        PROVE  Revoked \subseteq GrantSet(Base(accepted'))
    <3>1. Check(draft[c].etag, Stored) /\ accepted' = draft[c]  BY <2>3 DEF SetIamPolicy
    <3>2. accepted'.etag = Compute(IF Stored = None THEN Default ELSE Stored)  BY <2>3, <3>1 DEF Check
    <3>3. accepted'.etag = Compute(Reconstruct)  BY <2>1, <3>2, StoredFacts
    <3>4. Base(accepted').bindings = Reconstruct.bindings  BY <2>3, <3>3 DEF Base, Compute
    <3>5. GrantSet(Base(accepted')) = GrantSet(Reconstruct)  BY <3>4 DEF GrantSet
    <3> QED  BY <3>5 DEF Revoked
  <2>4. UNCHANGED vars \/ rows' = rows \/ \E c \in Clients : SetIamPolicy(c)
    BY <1>1 DEF Next, GetIamPolicy, ClientAdds, ClientRemoves, ClientBinds, Edit
  <2> QED  BY <2>2, <2>3, <2>4
<1> QED  BY <1>1, StoreInvariant, PTL DEF Spec, NoLostGrant

\* Equal policies have equal stored forms: however a draft came to grant what
\* is stored, and whatever titles its conditions have, normalize makes of it
\* the rows that are there.
THEOREM OneForm == Spec => []CanonicalForm
<1>1. ASSUME StoreInv PROVE CanonicalForm
  <2> SUFFICES ASSUME NEW c \in Clients, draft[c] # None, TitlesAgree(draft[c]), TitlesAgree(Accepted),
                      GrantSet(draft[c]) = GrantSet(Reconstruct)
               PROVE  ToRows(Normalize(draft[c]).bindings) = rows
    BY DEF CanonicalForm
  <2>1. draft[c] \in Policies  BY <1>1 DEF StoreInv, TypeOK
  <2>2. /\ Accepted \in Policies /\ Reconstruct \in Policies
        /\ \A r, m, e : Gives(Reconstruct.bindings, r, m, e) <=> Gives(Accepted.bindings, r, m, e)
    BY <1>1, StoredGives
  <2> DEFINE d == draft[c]
             a == Accepted
  <2>3. d.bindings \in Seq(Bindings) /\ a.bindings \in Seq(Bindings) /\ Reconstruct.bindings \in Seq(Bindings)
    BY <2>1, <2>2 DEF Policies
  <2> HIDE DEF d, a
  <2>4. GrantSet(Reconstruct) = GrantSet(a)  BY <2>2, <2>3, SameDecisions DEF a
  <2>5. ASSUME NEW r, NEW m, NEW e PROVE Gives(d.bindings, r, m, e) <=> Gives(a.bindings, r, m, e)
    <3>1. ASSUME NEW x, x.bindings \in Seq(Bindings) PROVE <<r, m, e>> \in GrantSet(x) <=> Gives(x.bindings, r, m, e)
      <4>1. <<r, m, e>> \in GrantSet(x) <=> \E u, v, w : <<r, m, e>> = <<u, v, w>> /\ Gives(x.bindings, u, v, w)
        BY <3>1, DecisionsOfGives
      <4>2. \A u, v, w : <<r, m, e>> = <<u, v, w>> <=> r = u /\ m = v /\ e = w  OBVIOUS
      <4> QED  BY <4>1, <4>2
    <3>2. <<r, m, e>> \in GrantSet(d) <=> <<r, m, e>> \in GrantSet(a)  BY <2>4 DEF d
    <3> QED  BY <2>3, <3>1, <3>2
  <2>6. ToRows(Normalize(d).bindings) = ToRows(Normalize(a).bindings)  BY <2>1, <2>2, <2>5, OneRowForm DEF d, a
  <2>7. rows = ToRows(Normalize(a).bindings)  BY <1>1 DEF StoreInv, a
  <2> QED  BY <2>6, <2>7 DEF d
<1> QED  BY <1>1, StoreInvariant, PTL
=============================================================================
