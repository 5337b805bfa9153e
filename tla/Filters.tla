------------------------------- MODULE Filters -------------------------------
(***************************************************************************)
(* A part of a sequence in its order, as JavaScript's filter leaves it.    *)
(* SelectSeq is the same by recursion; this one says at which place of the *)
(* sequence each element is, so that it can be reasoned about.             *)
(***************************************************************************)
EXTENDS Integers, Sequences, FiniteSets

\* How many of some places come before one.
Rank(places, k) == Cardinality({j \in places : j < k})

\* The elements at some places.
Keep(seq, places) ==
  [n \in 1..Cardinality(places) |-> seq[CHOOSE k \in places : Rank(places, k) = n - 1]]
=============================================================================
