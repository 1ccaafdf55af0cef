------------------------------- MODULE MCBooks -------------------------------
(***************************************************************************)
(* Two small systems, of which a behaviour has one: the stock ledger, and  *)
(* the figures of an order that is billed.                                 *)
(*                                                                         *)
(* Three transactions over two balances: two that move both, the second    *)
(* with one of them twice, and one that takes stock away.                  *)
(*                                                                         *)
(* Amounts in tenths, the rest in hundredths.  The quantities are written  *)
(* with and without trailing zeros, the prices come to halves of the last  *)
(* place and to less than it, and one discount is the whole price.         *)
(***************************************************************************)
EXTENDS StockLedger, InvoiceArithmetic, TLC

CONSTANTS ta, tb, tc, x, y, a1, a2, b1, b2, b3, c1, l1, l2

VARIABLE book

Symmetry == Permutations(OrderLine)

MCLinesOf == (ta :> {a1, a2}) @@ (tb :> {b1, b2, b3}) @@ (tc :> {c1})
MCBalanceOf == (a1 :> x) @@ (a2 :> y) @@ (b1 :> y) @@ (b2 :> x) @@ (b3 :> x) @@ (c1 :> x)
MCQuantity == (a1 :> 1) @@ (a2 :> 2) @@ (b1 :> 1) @@ (b2 :> 3) @@ (b3 :> -1) @@ (c1 :> -2)
MCBalanceRank == (x :> 1) @@ (y :> 2)

MCOrdered == {parseDecimal(3, 0), parseDecimal(15, 1)}
MCAsked == {parseDecimal(0, 0), parseDecimal(1, 2), parseDecimal(105, 2)}
MCPrices == {10, 33}
MCDiscounts == {0, 1250, 10000}
MCRates == {0, 1900}

\* Beside the ledger, one order that nobody looks at.
Idle == standardRate = 0 /\ \A l \in OrderLine :
  order[l].quantity = 300 /\ order[l].unitPrice = 10 /\ order[l].discountPercent = 0

BooksInit ==
  /\ Init /\ ArithmeticInit
  /\ \/ book = "ledger" /\ Idle
     \/ book = "figures"

BooksNext ==
  /\ \/ book = "ledger" /\ Next /\ UNCHANGED arithmeticVars
     \/ book = "figures" /\ ArithmeticNext /\ UNCHANGED vars
  /\ UNCHANGED book

BooksSpec == BooksInit /\ [][BooksNext]_<<vars, arithmeticVars, book>>
=============================================================================
