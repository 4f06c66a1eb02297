------------------------------- MODULE Lists -------------------------------
(***************************************************************************)
(* Sorting and filtering, by what they give: an order of the elements, and *)
(* the elements at some positions in their order.                          *)
(***************************************************************************)
EXTENDS Naturals, Sequences, FiniteSets, Functions

\* The elements of S in ascending order of their values v.
Ascending(v, S) ==
    CHOOSE f \in Bijection(1 .. Cardinality(S), S) :
        \A i, j \in 1 .. Cardinality(S) : i < j => v[f[i]] <= v[f[j]]

\* What `filter` leaves of a list: the elements at the positions `keep`.
Kept(list, keep) ==
    LET at == Ascending([i \in keep |-> i], keep)
    IN  [k \in 1 .. Cardinality(keep) |-> list[at[k]]]
=============================================================================
