------------------------------- MODULE Listing -------------------------------
(***************************************************************************)
(* How the properties say that a sequence holds some of the elements of    *)
(* another, in their order and without a gap: by the places they have      *)
(* there.                                                                  *)
(***************************************************************************)
EXTENDS Integers, Sequences, FiniteSets

\* q holds the elements at the places D of l, in their order
Lists(q, l, D) ==
  /\ Len(q) = Cardinality(D)
  /\ \A i \in D : q[Cardinality({j \in D : j <= i})] = l[i]
===============================================================================
