------------------------- MODULE MCOrderFulfilment -------------------------
(***************************************************************************)
(* A small instance of OrderFulfilment for TLC.                            *)
(*                                                                         *)
(* Two orders that name the same two balances in opposite line order.  The *)
(* second is created during a run and may be edited, even twice.  A line   *)
(* of it is on a balance of its own, so that both orders can be confirmed  *)
(* at once.                                                                *)
(***************************************************************************)
EXTENDS OrderFulfilment, TLC

CONSTANTS t1, t2, t3, none, o1, o2, l1, l2, l3, l4, l5, l6, b1, b2, b3

MCLineOrder == l1 :> o1 @@ l2 :> o1 @@ l3 :> o2 @@ l4 :> o2 @@ l5 :> o2 @@ l6 :> o2

\* o1 lists b1 before b2, o2 the other way round.
MCLineBalance == l1 :> b1 @@ l2 :> b2 @@ l3 :> b2 @@ l4 :> b1 @@ l5 :> b3 @@ l6 :> b2
MCLineNo == l1 :> 1 @@ l2 :> 2 @@ l3 :> 1 @@ l4 :> 2 @@ l5 :> 1 @@ l6 :> 1

\* With two on hand, b1 is enough for l1 or for l4, and b2 for both its lines.
MCLineQty == l1 :> 2 @@ l2 :> 1 @@ l3 :> 1 @@ l4 :> 1 @@ l5 :> 1 @@ l6 :> 2

MCBalanceRank == b1 :> 1 @@ b2 :> 2 @@ b3 :> 3

\* A confirmation of each order or two of the second, two edits of the second,
\* and two cancellations of the first can meet.
MCAsks ==
  t1 :> {<<"confirm", o1>>, <<"confirm", o2>>, <<"edit", o2>>}
  @@ t2 :> {<<"confirm", o2>>, <<"edit", o2>>, <<"cancel", o1>>}
  @@ t3 :> {<<"cancel", o1>>}

\* The draft a run starts with; the other order is created during it.
FirstOrder == {l1, l2}
MCDocuments == {{l3, l4}, {l5}, {l6}}
=============================================================================
