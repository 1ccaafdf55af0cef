-------------------------- MODULE InvoiceArithmetic --------------------------
(***************************************************************************)
(* What an order line comes to, what its invoices come to, and what they   *)
(* leave in the ledger.                                                    *)
(*                                                                         *)
(* One order is billed in parts.  Every part is rounded for itself, every  *)
(* line for itself, the tax on the rounded subtotal; nothing is ever       *)
(* allocated to make the parts agree with the whole.  The questions are    *)
(* how far they can drift, and whether every document that posting accepts *)
(* makes an entry that the ledger accepts.                                 *)
(*                                                                         *)
(* Drafts claim nothing, so one draft at a time is enough here; several,   *)
(* and their races, are in InvoicePosting.  Columns hold integers: the     *)
(* units of quantity, price, discount and rate at RATE_SCALE, of amounts   *)
(* at AMOUNT_SCALE.                                                        *)
(***************************************************************************)
EXTENDS Decimals, Quantities

CONSTANTS
  OrderLine,      \* the lines of the order
  AMOUNT_SCALE,   \* 4
  RATE_SCALE,     \* 6
  Ordered,        \* quantities, prices and discounts an order is entered with
  Prices,
  Discounts,
  Asked,          \* quantities an invoice may be asked for
  Rates,          \* standard rates of the company
  MaxParts        \* how many invoices are posted

\* Percentages are at most a hundred; what is written has at most RATE_SCALE
\* places.
ASSUME ArithmeticAssumption ==
  /\ IsFiniteSet(OrderLine)
  /\ AMOUNT_SCALE \in Nat /\ RATE_SCALE \in Nat /\ AMOUNT_SCALE <= RATE_SCALE
  /\ Ordered \subseteq [units : Nat \ {0}, scale : 0 .. RATE_SCALE]
  /\ Asked \subseteq [units : Int, scale : 0 .. RATE_SCALE]
  /\ Prices \subseteq Nat
  /\ Discounts \subseteq 0 .. 100 * tenTo(RATE_SCALE)
  /\ Rates \subseteq Nat
  /\ MaxParts \in Nat

\* The laws of powers, which no prover here knows, for the scales in use.
ASSUME PowersAssumption ==
  /\ tenTo(0) = 1
  /\ \A k \in 0 .. 3 * RATE_SCALE + 2 :
       /\ tenTo(k) \in Nat \ {0}
       /\ \A j \in 0 .. k : tenTo(k) = tenTo(j) * tenTo(k - j)

VARIABLES
  standardRate,   \* companies.standard_tax_rate_percent
  order,          \* sales_order_lines, and what was invoiced of each
  invoicedQuantity,
  draft,          \* a customer invoice and its lines
  billed          \* over the posted invoices, per order line: how many, and what
                  \* their lines came to

arithmeticVars == <<standardRate, order, invoicedQuantity, draft, billed>>

-----------------------------------------------------------------------------
(* Figures *)

ONE_HUNDRED == parseDecimal(100, 0)

\* Wrong: the discounted price is rounded before it is multiplied.
RoundedPrice(quantity, unitPrice, discountPercent, taxRatePercent) ==
  LET kept == subtract(ONE_HUNDRED, discountPercent)
      each == round(divideByHundred(multiply(unitPrice, kept)), AMOUNT_SCALE)
      subtotal == round(multiply(quantity, each), AMOUNT_SCALE)
      tax == round(divideByHundred(multiply(subtotal, taxRatePercent)), AMOUNT_SCALE)
  IN  [lineSubtotal |-> toFixed(subtotal, AMOUNT_SCALE),
       lineTax |-> toFixed(tax, AMOUNT_SCALE),
       lineTotal |-> toFixed(add(subtotal, tax), AMOUNT_SCALE)]

\* Gross, discounted, rounded once, then tax on what is printed.
billedAmounts(quantity, unitPrice, discountPercent, taxRatePercent) ==
  LET gross == multiply(quantity, unitPrice)
      kept == subtract(ONE_HUNDRED, discountPercent)
      subtotal == round(divideByHundred(multiply(gross, kept)), AMOUNT_SCALE)
      tax == round(divideByHundred(multiply(subtotal, taxRatePercent)), AMOUNT_SCALE)
  IN  [lineSubtotal |-> toFixed(subtotal, AMOUNT_SCALE),
       lineTax |-> toFixed(tax, AMOUNT_SCALE),
       lineTotal |-> toFixed(add(subtotal, tax), AMOUNT_SCALE)]

\* The row of an order line: a second copy of the computation, on the decimals
\* as they were entered.
price(quantity, unitPrice, discountPercent, taxRatePercent) ==
  LET gross == multiply(quantity, parseDecimal(unitPrice, RATE_SCALE))
      kept == subtract(ONE_HUNDRED, parseDecimal(discountPercent, RATE_SCALE))
      subtotal == round(divideByHundred(multiply(gross, kept)), AMOUNT_SCALE)
      taxRate == parseDecimal(taxRatePercent, RATE_SCALE)
      tax == round(divideByHundred(multiply(subtotal, taxRate)), AMOUNT_SCALE)
  IN  [quantity |-> toFixed(quantity, RATE_SCALE),
       unitPrice |-> unitPrice,
       discountPercent |-> discountPercent,
       taxRatePercent |-> taxRatePercent,
       amounts |-> [lineSubtotal |-> toFixed(subtotal, AMOUNT_SCALE),
                    lineTax |-> toFixed(tax, AMOUNT_SCALE),
                    lineTotal |-> toFixed(add(subtotal, tax), AMOUNT_SCALE)]]

\* What follows from the columns of a row.
Recomputed(row) ==
  billedAmounts(parseDecimal(row.quantity, RATE_SCALE),
                parseDecimal(row.unitPrice, RATE_SCALE),
                parseDecimal(row.discountPercent, RATE_SCALE),
                parseDecimal(row.taxRatePercent, RATE_SCALE))

Subtotals(rows) == [l \in DOMAIN rows |-> rows[l].amounts.lineSubtotal]
Taxes(rows) == [l \in DOMAIN rows |-> rows[l].amounts.lineTax]

\* Sums of figures that are rounded already.
documentTotals(rows) ==
  LET subtotal == Total(DOMAIN rows, Subtotals(rows))
      taxTotal == Total(DOMAIN rows, Taxes(rows))
  IN  [subtotal |-> subtotal, taxTotal |-> taxTotal, total |-> subtotal + taxTotal]

Document(rows) == [lines |-> rows, totals |-> documentTotals(rows)]

NoDraft == [lines |-> [l \in {} |-> 0],
            totals |-> [subtotal |-> 0, taxTotal |-> 0, total |-> 0]]

resolveTaxRate == standardRate

ArithmeticInit ==
  /\ standardRate \in Rates
  /\ \E quantity \in [OrderLine -> Ordered],
        p \in [OrderLine -> Prices], d \in [OrderLine -> Discounts] :
       order = [l \in OrderLine |-> price(quantity[l], p[l], d[l], standardRate)]
  /\ invoicedQuantity = [l \in OrderLine |-> 0]
  /\ draft = NoDraft
  /\ billed = [l \in OrderLine |-> [parts |-> 0, subtotal |-> 0]]

-----------------------------------------------------------------------------
(* Raising and editing *)

remainderOf(l) == order[l].quantity - invoicedQuantity[l]

\* What may be billed of a line: all that is left, or what is asked for, if it
\* is something and no more than that.
Billable(l) ==
  LET remaining == parseDecimal(remainderOf(l), RATE_SCALE)
  IN  {q \in Asked \cup {remaining} : compare(q, zero(0)) > 0 /\ compare(q, remaining) <= 0}

\* The price and the discount that were agreed, the rate of today.
BilledLine(l, quantity) ==
  [quantity |-> toFixed(quantity, RATE_SCALE),
   unitPrice |-> order[l].unitPrice,
   discountPercent |-> order[l].discountPercent,
   taxRatePercent |-> resolveTaxRate,
   amounts |-> billedAmounts(quantity,
                             parseDecimal(order[l].unitPrice, RATE_SCALE),
                             parseDecimal(order[l].discountPercent, RATE_SCALE),
                             parseDecimal(resolveTaxRate, RATE_SCALE))]

\* A draft is raised, or its lines are derived again by an edit.
DeriveDraft(S) ==
  /\ S # {}
  /\ \E quantity \in [S -> UNION {Billable(l) : l \in S}] :
       /\ \A l \in S : quantity[l] \in Billable(l)
       /\ draft' = Document([l \in S |-> BilledLine(l, quantity[l])])
  /\ UNCHANGED <<standardRate, order, invoicedQuantity, billed>>

\* Nothing in the repository moves the rate; an operator may.
StandardRateMoves(rate) ==
  /\ rate # standardRate
  /\ standardRate' = rate
  /\ UNCHANGED <<order, invoicedQuantity, draft, billed>>

-----------------------------------------------------------------------------
(* Posting *)

AtTodaysRate(rows) == \A l \in DOMAIN rows : rows[l].taxRatePercent = resolveTaxRate

\* The document follows from its own inputs: lines, then header.
Coherent(doc) ==
  /\ \A l \in DOMAIN doc.lines : Recomputed(doc.lines[l]) = doc.lines[l].amounts
  /\ documentTotals(doc.lines) = doc.totals

\* Wrong: what comes to nothing is posted like the rest.
SomeLine(doc) == DOMAIN doc.lines # {}

SomethingToPost(doc) == doc.totals.total > 0

PassesChecks(doc) == AtTodaysRate(doc.lines) /\ Coherent(doc) /\ SomethingToPost(doc)

\* Wrong: the tax line is written even when there is no tax.
WithTaxLine(doc) ==
  {[account |-> "receivable", debit |-> doc.totals.total, credit |-> 0],
   [account |-> "revenue", debit |-> 0, credit |-> doc.totals.subtotal],
   [account |-> "tax", debit |-> 0, credit |-> doc.totals.taxTotal]}

\* Receivables against revenue and tax; no line of tax when there is none.
JournalLines(doc) ==
  {[account |-> "receivable", debit |-> doc.totals.total, credit |-> 0],
   [account |-> "revenue", debit |-> 0, credit |-> doc.totals.subtotal]}
  \cup {r \in {[account |-> "tax", debit |-> 0, credit |-> doc.totals.taxTotal]} :
           doc.totals.taxTotal > 0}

\* journal_lines_one_side_check of every line, and journal_entry_must_balance at
\* the commit.  No two lines of an entry are on one account.
EntryAccepted(rows) ==
  /\ \A r \in rows : (r.debit > 0 /\ r.credit = 0) \/ (r.credit > 0 /\ r.debit = 0)
  /\ Cardinality(rows) >= 2
  /\ Total(rows, [r \in rows |-> r.debit]) = Total(rows, [r \in rows |-> r.credit])

\* postCustomerInvoice: quantities, entry, and the end of the draft.
Post ==
  /\ DOMAIN draft.lines # {} /\ PassesChecks(draft)
  /\ \A l \in DOMAIN draft.lines :
       draft.lines[l].quantity <= remainderOf(l) /\ billed[l].parts < MaxParts
  /\ EntryAccepted(JournalLines(draft))
  /\ invoicedQuantity' = [l \in OrderLine |->
       IF l \in DOMAIN draft.lines
       THEN invoicedQuantity[l] + draft.lines[l].quantity
       ELSE invoicedQuantity[l]]
  /\ billed' = [l \in OrderLine |->
       IF l \in DOMAIN draft.lines
       THEN [parts |-> billed[l].parts + 1,
             subtotal |-> billed[l].subtotal + draft.lines[l].amounts.lineSubtotal]
       ELSE billed[l]]
  /\ draft' = NoDraft
  /\ UNCHANGED <<standardRate, order>>

ArithmeticNext ==
  \/ \E S \in SUBSET OrderLine : DeriveDraft(S)
  \/ \E rate \in Rates : StandardRateMoves(rate)
  \/ Post

ArithmeticSpec == ArithmeticInit /\ [][ArithmeticNext]_arithmeticVars

-----------------------------------------------------------------------------
(* Properties *)

\* Whatever posting accepts, the ledger accepts: no document makes an entry with
\* a line of nothing, a single line, or two sides that differ, however its
\* lines were rounded, discounted or free of charge (migration 0014's checks
\* never fire).
EntryIsAccepted ==
  DOMAIN draft.lines # {} /\ PassesChecks(draft) => EntryAccepted(JournalLines(draft))

\* An order billed in parts has been charged what its quantities come to, give
\* or take half a unit of the last place for every part: rounding errors do not
\* accumulate faster.
DriftBounded ==
  \A l \in OrderLine :
    LET unit == tenTo(3 * RATE_SCALE + 2 - AMOUNT_SCALE)
        exact == invoicedQuantity[l] * order[l].unitPrice
                   * (100 * tenTo(RATE_SCALE) - order[l].discountPercent)
        charged == billed[l].subtotal * unit
    IN  /\ 2 * (charged - exact) <= billed[l].parts * unit
        /\ 2 * (exact - charged) <= billed[l].parts * unit

\* A line billed whole, at the rate of its order, has exactly the figures of the
\* order: the two copies of the arithmetic agree, whatever way the quantity was
\* written.
BilledWholeIsAsOrdered ==
  \A l \in DOMAIN draft.lines :
    LET row == draft.lines[l]
    IN  row.quantity = order[l].quantity /\ row.taxRatePercent = order[l].taxRatePercent
          => row.amounts = order[l].amounts
=============================================================================
