----------------------------- MODULE Selection -----------------------------
(* Taking some elements out of a list without changing their order:        *)
(* list comprehensions of the code with an `if`.                           *)
EXTENDS Naturals, Sequences, FiniteSets

(* The positions I of a list, in the list's order. *)
Ascending(I) ==
    CHOOSE g \in [1..Cardinality(I) -> I] :
        \A i, j \in 1..Cardinality(I) : i < j => g[i] < g[j]

(* The elements of the list at these positions. *)
Pick(list, I) == [i \in 1..Cardinality(I) |-> list[Ascending(I)[i]]]
=============================================================================
