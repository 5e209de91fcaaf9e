----------------------------- MODULE Subsequence -----------------------------
(***************************************************************************)
(* Array.prototype.filter by the positions it keeps, in a form that the    *)
(* proofs can expand (they cannot expand SelectSeq).                       *)
(***************************************************************************)
EXTENDS Naturals, FiniteSets, Sequences

\* The n-th of the positions P.
Nth(P, n) == CHOOSE i \in P : Cardinality({j \in P : j <= i}) = n

\* The elements of s at the positions P, in their order.
Filtered(s, P) == [n \in 1 .. Cardinality(P) |-> s[Nth(P, n)]]
=============================================================================
