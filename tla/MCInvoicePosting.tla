-------------------------- MODULE MCInvoicePosting --------------------------
(***************************************************************************)
(* A small instance of InvoicePosting: an order with a line of two units   *)
(* and a line of one, locked in the opposite order of their names, and     *)
(* two invoices that may bill either or both.                              *)
(***************************************************************************)
EXTENDS InvoicePosting, TLC

CONSTANTS t1, t2, none, i1, i2, o1, o2, l1, l2

MCLineOrder == [l \in Line |-> o1]
MCLineQty == [l \in Line |-> IF l = l1 THEN 2 ELSE 1]
MCLinePrice == [l \in Line |-> 1]
MCLineRank == [l \in Line |-> IF l = l1 THEN 2 ELSE 1]

Symmetries == Permutations(Txn) \cup Permutations(Invoice)
=============================================================================
