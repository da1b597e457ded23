------------------------------- MODULE Places -------------------------------
(***************************************************************************)
(* Sets put in an order, and the members of a sequence at some places: how *)
(* the validators and mappers sort, filter and drop repetitions.  Without  *)
(* folds, so that Argumentation_proofs can reason about them.              *)
(***************************************************************************)
EXTENDS Integers, Sequences, FiniteSets

\* The members of S in the order R, a set of pairs: a sequence.
Sorted(S, R) ==
  [k \in 1..Cardinality(S) |->
     CHOOSE x \in S : Cardinality({y \in S : <<y, x>> \in R}) = k - 1]

\* A set of places, from the first to the last.
InTurn(places) == Sorted(places, {p \in places \X places : p[1] < p[2]})

\* What a sequence has at these places.
AtPlaces(s, places) == LET at == InTurn(places) IN [k \in DOMAIN at |-> s[at[k]]]

\* The members of a sequence, each where it occurs first.
FirstOfEach(s) == AtPlaces(s, {i \in DOMAIN s : \A j \in 1..(i - 1) : s[j] # s[i]})
=============================================================================
