----------------------------- MODULE Quantities -----------------------------
(***************************************************************************)
(* Summing quantities over a set of rows, as SQL's SUM does.               *)
(*                                                                         *)
(* A sum is defined by counting units: a row x of quantity qty[x]          *)
(* contributes the units <<x, 1>> .. <<x, qty[x]>>.  Units of different    *)
(* rows are different, so equal quantities on different rows all count, and *)
(* the facts about sums follow from those about cardinality (module        *)
(* QuantitiesProofs), without an induction over the rows.                  *)
(***************************************************************************)
EXTENDS Integers, FiniteSets

Units(S, qty) == UNION {{x} \X (1 .. qty[x]) : x \in S}

\* coalesce(sum(quantity), 0) over the rows of S.
Total(S, qty) == Cardinality(Units(S, qty))
=============================================================================
