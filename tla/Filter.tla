------------------------------- MODULE Filter -------------------------------
(***************************************************************************)
(* Array.prototype.filter, told by the positions that pass: what is kept   *)
(* keeps its order.                                                        *)
(***************************************************************************)
EXTENDS Naturals, Sequences, FiniteSets

(* The n-th of the positions P, counted from below. *)
Nth(P, n) == CHOOSE i \in P : Cardinality({j \in P : j <= i}) = n

Filtered(s, P) == [n \in 1 .. Cardinality(P) |-> s[Nth(P, n)]]
=============================================================================
