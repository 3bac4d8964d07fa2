---------------------------- MODULE Subsequences ----------------------------
(***************************************************************************)
(* The part of a sequence that stands at a set of its places.  SelectSeq,  *)
(* with the places given as a set instead of a test.                       *)
(***************************************************************************)
EXTENDS Naturals, Sequences, FiniteSets

\* The k-th smallest of a finite set of places.
Nth(places, k) == CHOOSE i \in places : Cardinality({j \in places : j <= i}) = k

\* The elements at these places, in the order of the sequence.
Picked(s, places) == [k \in 1..Cardinality(places) |-> s[Nth(places, k)]]
=============================================================================
