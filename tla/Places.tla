------------------------------- MODULE Places -------------------------------
(***************************************************************************)
(* Filters and sorts, by the places they take the elements from.           *)
(*                                                                         *)
(* An operator of these modules that filters or sorts takes the set of the *)
(* places it keeps, or the relation it sorts by, as a set: a fact about it *)
(* can be stated, and proved, for every filter and every order at once.    *)
(***************************************************************************)
EXTENDS Integers, Sequences, FiniteSets

\* The members of a finite set of numbers, the smallest first: the n-th is the
\* one with n - 1 below it.
InOrder(S) ==
  [n \in 1..Cardinality(S) |-> CHOOSE x \in S : Cardinality({y \in S : y < x}) = n - 1]

\* The members of a finite set in the order that "before", a set of pairs, says.
Ranked(S, before) ==
  [n \in 1..Cardinality(S) |-> CHOOSE x \in S : Cardinality({y \in S : <<y, x>> \in before}) = n - 1]

\* The elements of a sequence at some of its places, in the order they have.
At(seq, places) ==
  LET kept == InOrder(places) IN [n \in DOMAIN kept |-> seq[kept[n]]]

=============================================================================
