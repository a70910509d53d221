------------------------------- MODULE Lists -------------------------------
(* Filters of lists: what a comprehension keeps, in the order it was in.    *)
EXTENDS Naturals, Sequences, FiniteSets

\* The elements of list at the given places.
Picked(list, places) ==
  LET Place(n) == CHOOSE k \in places : Cardinality({j \in places : j <= k}) = n
  IN  [n \in 1..Cardinality(places) |-> list[Place(n)]]

\* The elements of list that are in set.
Those(list, set) == Picked(list, {k \in 1..Len(list) : list[k] \in set})

\* The first of each of the elements of list.
Distinct(list) ==
  Picked(list, {k \in 1..Len(list) : \A j \in 1..(k - 1) : list[j] # list[k]})
=============================================================================
