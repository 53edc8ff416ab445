-------------------------------- MODULE Ranking --------------------------------
(***************************************************************************)
(* sort_by, for an order in which no two elements are equal: what          *)
(* SetToSortSeq of the community modules computes, defined by the rank of  *)
(* each element, about which a proof can speak.                            *)
(***************************************************************************)
EXTENDS Naturals, FiniteSets

\* In place i stands what i - 1 others come before.
Ranked(S, Precedes(_, _)) ==
  [i \in 1 .. Cardinality(S) |-> CHOOSE c \in S : Cardinality({d \in S : Precedes(d, c)}) = i - 1]
=============================================================================
