------------------------------- MODULE Orders -------------------------------
(* What a sort leaves and what an ordered map iterates over: the elements of *)
(* a finite set, each at the place that the order gives it.  An order is a   *)
(* set of pairs.                                                             *)
EXTENDS Naturals, FiniteSets

Ascending == {x \in Nat \X Nat : x[1] <= x[2]}

\* How many there are up to `o`.
Place(S, R, o) == Cardinality({p \in S : <<p, o>> \in R})

InOrder(S, R) == [i \in 1..Cardinality(S) |-> CHOOSE o \in S : Place(S, R, o) = i]

\* The elements of a sequence that stand at the given places, in its order.
Chosen(s, places) == [k \in 1..Cardinality(places) |-> s[InOrder(places, Ascending)[k]]]
=============================================================================
