--------------------------- MODULE InvoicePosting ---------------------------
(***************************************************************************)
(* Customer invoices: raising drafts from confirmed orders, editing them,  *)
(* and posting them to the ledger, as concurrent PostgreSQL transactions at *)
(* READ COMMITTED.                                                         *)
(*                                                                         *)
(* A transaction (Txn) serves one request: a posting (postCustomerInvoice) *)
(* or the edit of a draft (updateDraftIn).  As in OrderFulfilment, one     *)
(* action is a statement that another transaction can be ordered against;  *)
(* locks are kept to the end and what was written stays in work[t] until   *)
(* Commit.                                                                 *)
(*                                                                         *)
(* Abstractions.                                                           *)
(*  - Raising a draft inserts rows nobody else can name, and cancelling an *)
(*    order writes no row that an invoice operation writes: one step each. *)
(*    What a cancellation does to stock is in OrderFulfilment.             *)
(*  - Every line of a draft is written by one transaction at one tax rate, *)
(*    so the rate is kept once per invoice.                                *)
(*  - Money is exact: a line comes to quantity * price, and a rate is a    *)
(*    multiple of the unit it is charged on.  Rounding is per line and so  *)
(*    a function of the line, here the identity.                           *)
(*  - Customers, grants and posting accounts may refuse or let pass.       *)
(***************************************************************************)
EXTENDS Quantities

CONSTANTS
  Txn, NoTxn,
  Invoice,
  Order, Line,   \* confirmed sales orders and their lines
  LineOrder,     \* sales_order_lines.sales_order_id
  LineQty,       \* quantity ordered
  LinePrice,     \* unit price less discount, as agreed on the order
  LineRank,      \* the position of a line's id in lock order
  Quantity,      \* the quantities a client asks to bill
  Rate           \* the standard rates the company may have

ASSUME ConstantsAssumption ==
  /\ NoTxn \notin Txn
  /\ Invoice # {}
  /\ IsFiniteSet(Line)
  /\ LineOrder \in [Line -> Order]
  /\ LineQty \in [Line -> Nat]
  /\ LinePrice \in [Line -> Nat]
  /\ LineRank \in [Line -> Nat]
  /\ \A l, m \in Line : LineRank[l] = LineRank[m] => l = m
  /\ Quantity \subseteq Nat /\ 0 \in Quantity
  /\ Rate \subseteq Nat /\ Rate # {}

VARIABLES
  \* committed rows
  orderStatus,   \* sales_orders.status
  rate,          \* companies.standard_tax_rate_percent
  invoices,      \* customer_invoices
  bills,         \* customer_invoice_lines: quantity of each order line
  lineRate,      \* customer_invoice_lines.tax_rate_percent
  invoiced,      \* sales_order_lines.invoiced_quantity
  journal,       \* journal_entries with their lines
  nextValue,     \* document_number_sequences.next_value of customer invoices
  \* row locks, by holder
  lineLock, counterLock, headerLock,
  \* transactions
  pc, req,
  seen,          \* the invoice header as read
  todo,          \* lines still to be consumed
  work,          \* what was read to be billed, and uncommitted writes
  \* history
  inForce        \* the standard rates since a posting arrived, until it checked

tables == <<orderStatus, invoices, bills, lineRate, invoiced, journal, nextValue>>
db == <<tables, rate, inForce>>
locks == <<lineLock, counterLock, headerLock>>
vars == <<db, locks, pc, req, seen, todo, work>>

-----------------------------------------------------------------------------
(* Types *)

Bill == [Line -> Quantity]
NoBill == [l \in Line |-> 0]

\* number 0 stands for a null doc_number; total is subtotal + taxTotal.
InvoiceRow == [status : {"absent", "draft", "posted"}, version : Nat,
               number : Nat, subtotal : Nat, taxTotal : Nat]

NoInvoice == [status |-> "absent", version |-> 0, number |-> 0,
              subtotal |-> 0, taxTotal |-> 0]

\* by names the transaction that wrote the entry.
JournalEntry == [by : Txn, invoice : Invoice, receivable : Nat, revenue : Nat,
                 tax : Nat]

Request == [op : {"none", "post", "edit"}, invoice : Invoice, version : Nat,
            bill : Bill]

Work == [bill : Bill, rate : Rate, taken : SUBSET Line, num : Nat]

NoWork == [bill |-> NoBill, rate |-> CHOOSE r \in Rate : TRUE, taken |-> {}, num |-> 0]

Final == {"answered", "refused", "failed"}

PCs == {"idle", "read", "lines", "check", "consume", "counter", "header",
        "derive", "lockDraft", "commit"} \cup Final

TypeOK ==
  /\ orderStatus \in [Order -> {"confirmed", "cancelled"}]
  /\ rate \in Rate
  /\ invoices \in [Invoice -> InvoiceRow]
  /\ bills \in [Invoice -> Bill]
  /\ lineRate \in [Invoice -> Rate]
  /\ invoiced \in [Line -> Nat]
  /\ journal \subseteq JournalEntry
  /\ nextValue \in Nat \ {0}
  /\ lineLock \in [Line -> Txn \cup {NoTxn}]
  /\ counterLock \in Txn \cup {NoTxn}
  /\ headerLock \in [Invoice -> Txn \cup {NoTxn}]
  /\ pc \in [Txn -> PCs]
  /\ req \in [Txn -> Request]
  /\ seen \in [Txn -> InvoiceRow]
  /\ todo \in [Txn -> SUBSET Line]
  /\ work \in [Txn -> Work]
  /\ inForce \in [Txn -> SUBSET Rate]

-----------------------------------------------------------------------------
(* The pure parts of the operations *)

Billed(bill) == {l \in Line : bill[l] > 0}

OrdersOf(bill) == {LineOrder[l] : l \in Billed(bill)}

\* documentTotals over billedAmounts.
Subtotal(bill) == Total(Line, [l \in Line |-> bill[l] * LinePrice[l]])
TaxTotal(bill, r) == Subtotal(bill) * r

\* Wrong: what was read before is trusted.
StillRemains(l, quantity) == TRUE

\* consumeInvoicedQuantity: the remainder is tested by the UPDATE itself.
Remains(l, quantity) == LineQty[l] - invoiced[l] >= quantity

\* resolveSources and chooseLines: only lines of confirmed orders, no more of
\* each than is left, and at least one.
Invoiceable(bill) ==
  /\ Billed(bill) # {}
  /\ \A o \in OrdersOf(bill) : orderStatus[o] = "confirmed"
  /\ \A l \in Billed(bill) : Remains(l, bill[l])

\* Wrong: in whatever order the lines come.
AnyOrder(t, l) == l \in todo[t]

\* inSalesOrderLineLockOrder.
IsNextLine(t, l) == l \in todo[t] /\ \A m \in todo[t] : LineRank[l] <= LineRank[m]

\* A row lock is granted when nobody else holds it.
Grantable(holder, t) == holder \in {t, NoTxn}

CounterGrantable(t) == Grantable(counterLock, t)

\* Wrong: the version that was read is not compared.
StillDraft(t) == invoices[req[t].invoice].status = "draft"

\* The WHERE clause of applyTransition.
Unmoved(t) ==
  LET row == invoices[req[t].invoice]
  IN  row.version = seen[t].version /\ row.status = seen[t].status

\* The WHERE clause of updateDraft.
DraftUnmoved(t) ==
  LET row == invoices[req[t].invoice]
  IN  row.version = req[t].version /\ row.status = "draft"

\* Wrong: an edit leaves the version where it was.
SameVersion(version, bill, r) ==
  [status |-> "draft", version |-> 1, number |-> 0,
   subtotal |-> Subtotal(bill), taxTotal |-> TaxTotal(bill, r)]

DraftRow(version, bill, r) ==
  [status |-> "draft", version |-> version, number |-> 0,
   subtotal |-> Subtotal(bill), taxTotal |-> TaxTotal(bill, r)]

\* Wrong: a draft of last year is posted at the rate of last year.
PostableAtAnyRate(t) ==
  LET w == work[t]
  IN  /\ \A o \in OrdersOf(w.bill) : orderStatus[o] = "confirmed"
      /\ seen[t].subtotal = Subtotal(w.bill)
      /\ seen[t].taxTotal = TaxTotal(w.bill, w.rate)
      /\ seen[t].subtotal + seen[t].taxTotal > 0

\* What posting checks of the document it read: the rate is the company's, the
\* totals are those of the lines, the orders are confirmed, and there is
\* something to post.
Postable(t) ==
  LET w == work[t]
  IN  /\ \A o \in OrdersOf(w.bill) : orderStatus[o] = "confirmed"
      /\ w.rate = rate
      /\ seen[t].subtotal = Subtotal(w.bill)
      /\ seen[t].taxTotal = TaxTotal(w.bill, w.rate)
      /\ seen[t].subtotal + seen[t].taxTotal > 0

-----------------------------------------------------------------------------
(* Beginning and ending a transaction *)

Freed(holders, t) ==
  [k \in DOMAIN holders |-> IF holders[k] = t THEN NoTxn ELSE holders[k]]

\* COMMIT and ROLLBACK both give every lock back.
ReleaseLocks(t) ==
  /\ lineLock' = Freed(lineLock, t)
  /\ headerLock' = Freed(headerLock, t)
  /\ counterLock' = IF counterLock = t THEN NoTxn ELSE counterLock

End(t, how) ==
  /\ pc' = [pc EXCEPT ![t] = how]
  /\ ReleaseLocks(t)
  /\ seen' = [seen EXCEPT ![t] = NoInvoice]
  /\ todo' = [todo EXCEPT ![t] = {}]
  /\ work' = [work EXCEPT ![t] = NoWork]
  /\ UNCHANGED req

\* A typed error is thrown: everything rolls back and the client gets a 4xx.
Refuse(t) == End(t, "refused") /\ UNCHANGED db

GoTo(t, next) == pc' = [pc EXCEPT ![t] = next]

\* A posting that has not come past the check of the rate.
Unchecked(t) == req[t].op = "post" /\ pc[t] \in {"read", "lines", "check"}

Init ==
  /\ orderStatus = [o \in Order |-> "confirmed"]
  /\ rate \in Rate
  /\ invoices = [i \in Invoice |-> NoInvoice]
  /\ bills = [i \in Invoice |-> NoBill]
  /\ lineRate = [i \in Invoice |-> CHOOSE r \in Rate : TRUE]
  /\ invoiced = [l \in Line |-> 0]
  /\ journal = {}
  /\ nextValue = 1
  /\ lineLock = [l \in Line |-> NoTxn]
  /\ counterLock = NoTxn
  /\ headerLock = [i \in Invoice |-> NoTxn]
  /\ pc = [t \in Txn |-> "idle"]
  /\ req = [t \in Txn |-> [op |-> "none", invoice |-> CHOOSE i \in Invoice : TRUE,
                           version |-> 0, bill |-> NoBill]]
  /\ seen = [t \in Txn |-> NoInvoice]
  /\ todo = [t \in Txn |-> {}]
  /\ work = [t \in Txn |-> NoWork]
  /\ inForce = [t \in Txn |-> {}]

-----------------------------------------------------------------------------
(* Steps that are transactions of their own *)

\* createDraftIn.
RaiseDraft(i, bill) ==
  /\ invoices[i].status = "absent"
  /\ Invoiceable(bill)
  /\ invoices' = [invoices EXCEPT ![i] = DraftRow(1, bill, rate)]
  /\ bills' = [bills EXCEPT ![i] = bill]
  /\ lineRate' = [lineRate EXCEPT ![i] = rate]
  /\ UNCHANGED <<orderStatus, rate, inForce, invoiced, journal, nextValue, locks, pc,
                 req, seen, todo, work>>

\* cancelSalesOrder: it does not ask whether anything was invoiced.
CancelOrder(o) ==
  /\ orderStatus[o] = "confirmed"
  /\ orderStatus' = [orderStatus EXCEPT ![o] = "cancelled"]
  /\ UNCHANGED <<rate, inForce, invoices, bills, lineRate, invoiced, journal, nextValue,
                 locks, pc, req, seen, todo, work>>

\* The company's standard rate is changed, by an operator: no code does it.
RateMoves ==
  /\ rate' \in Rate \ {rate}
  /\ inForce' = [t \in Txn |-> IF Unchecked(t) THEN inForce[t] \cup {rate'}
                               ELSE inForce[t]]
  /\ UNCHANGED <<tables, locks, pc, req, seen, todo, work>>

\* A request for an invoice arrives.  An edit names a version its client read.
Begin(t) ==
  /\ pc[t] = "idle"
  /\ \E i \in Invoice :
       \/ req' = [req EXCEPT ![t].op = "post", ![t].invoice = i]
       \/ \E v \in 1 .. invoices[i].version, bill \in Bill :
            /\ Billed(bill) # {}
            /\ req' = [req EXCEPT ![t] = [op |-> "edit", invoice |-> i,
                                         version |-> v, bill |-> bill]]
  /\ inForce' = [inForce EXCEPT ![t] = IF req'[t].op = "post" THEN {rate} ELSE {}]
  /\ GoTo(t, "read")
  /\ UNCHANGED <<tables, rate, locks, seen, todo, work>>

-----------------------------------------------------------------------------
(* What both operations start with *)

\* customerInvoices.findById, without a lock.  Both need a draft: the
\* transition table allows nothing but draft to posted.
Read(t) ==
  /\ pc[t] = "read"
  /\ invoices[req[t].invoice].status = "draft"
  /\ seen' = [seen EXCEPT ![t] = invoices[req[t].invoice]]
  /\ GoTo(t, IF req[t].op = "post" THEN "lines" ELSE "derive")
  /\ UNCHANGED <<db, locks, req, todo, work>>

\* not_found, illegal transition, not_a_draft.
ReadRefused(t) ==
  /\ pc[t] = "read"
  /\ invoices[req[t].invoice].status # "draft"
  /\ Refuse(t)

\* Customer, grants, posting accounts.
ChecksFail(t) ==
  /\ pc[t] \in {"check", "derive"}
  /\ Refuse(t)

-----------------------------------------------------------------------------
(* postCustomerInvoice *)

\* listForInvoice: a later statement than the header's read.
ReadLines(t) ==
  /\ pc[t] = "lines"
  /\ work' = [work EXCEPT ![t].bill = bills[req[t].invoice],
                          ![t].rate = lineRate[req[t].invoice]]
  /\ GoTo(t, "check")
  /\ UNCHANGED <<db, locks, req, seen, todo>>

\* The orders and the company as they are now.  None of these reads takes a
\* lock, so what they saw may change before the commit.
Check(t) ==
  /\ pc[t] = "check"
  /\ Postable(t)
  /\ todo' = [todo EXCEPT ![t] = Billed(work[t].bill)]
  /\ GoTo(t, "consume")
  /\ UNCHANGED <<db, locks, req, seen, work>>

\* order_not_invoiceable, tax_rate_changed, incoherent_document,
\* nothing_to_post.
CheckRefused(t) ==
  /\ pc[t] = "check"
  /\ ~Postable(t)
  /\ Refuse(t)

\* consumeInvoicedQuantity waits for the line and evaluates its WHERE clause on
\* what is committed by then.
Consume(t) ==
  /\ pc[t] = "consume"
  /\ \E l \in Line :
       /\ IsNextLine(t, l)
       /\ Grantable(lineLock[l], t)
       /\ Remains(l, work[t].bill[l])
       /\ lineLock' = [lineLock EXCEPT ![l] = t]
       /\ work' = [work EXCEPT ![t].taken = @ \cup {l}]
       /\ todo' = [todo EXCEPT ![t] = @ \ {l}]
  /\ GoTo(t, IF todo'[t] = {} THEN "counter" ELSE "consume")
  /\ UNCHANGED <<db, counterLock, headerLock, req, seen>>

\* quantity_exceeded.
Exceeded(t) ==
  /\ pc[t] = "consume"
  /\ \E l \in Line : /\ IsNextLine(t, l)
                     /\ Grantable(lineLock[l], t)
                     /\ ~Remains(l, work[t].bill[l])
  /\ Refuse(t)

\* allocateCustomerInvoiceNumber.
Counter(t) ==
  /\ pc[t] = "counter"
  /\ CounterGrantable(t)
  /\ counterLock' = t
  /\ work' = [work EXCEPT ![t].num = nextValue]
  /\ GoTo(t, "header")
  /\ UNCHANGED <<db, lineLock, headerLock, req, seen, todo>>

\* journal.record, whose rows nobody waits for, and applyTransition.
Header(t) ==
  /\ pc[t] = "header"
  /\ Grantable(headerLock[req[t].invoice], t)
  /\ Unmoved(t)
  /\ headerLock' = [headerLock EXCEPT ![req[t].invoice] = t]
  /\ GoTo(t, "commit")
  /\ UNCHANGED <<db, lineLock, counterLock, req, seen, todo, work>>

\* ConcurrencyConflictError.
HeaderConflict(t) ==
  /\ pc[t] = "header"
  /\ Grantable(headerLock[req[t].invoice], t)
  /\ ~Unmoved(t)
  /\ Refuse(t)

\* The amounts are the invoice's own totals, as the header was read.
EntryOf(t) ==
  [by |-> t, invoice |-> req[t].invoice,
   receivable |-> seen[t].subtotal + seen[t].taxTotal,
   revenue |-> seen[t].subtotal, tax |-> seen[t].taxTotal]

CommitPosting(t) ==
  /\ pc[t] = "commit" /\ req[t].op = "post"
  /\ invoices' = [invoices EXCEPT ![req[t].invoice].status = "posted",
                                  ![req[t].invoice].number = work[t].num,
                                  ![req[t].invoice].version = @ + 1]
  /\ invoiced' = [l \in Line |-> IF l \in work[t].taken
                                 THEN invoiced[l] + work[t].bill[l]
                                 ELSE invoiced[l]]
  /\ journal' = journal \cup {EntryOf(t)}
  /\ nextValue' = work[t].num + 1
  /\ End(t, "answered")
  /\ UNCHANGED <<orderStatus, rate, inForce, bills, lineRate>>

-----------------------------------------------------------------------------
(* updateDraftIn *)

\* The company, the orders and their lines, none of them locked; the new lines
\* are priced from them.
Derive(t) ==
  /\ pc[t] = "derive"
  /\ Invoiceable(req[t].bill)
  /\ work' = [work EXCEPT ![t].bill = req[t].bill, ![t].rate = rate]
  /\ GoTo(t, "lockDraft")
  /\ UNCHANGED <<db, locks, req, seen, todo>>

\* order_not_invoiceable, quantity_exceeds_remaining.
DeriveRefused(t) ==
  /\ pc[t] = "derive"
  /\ ~Invoiceable(req[t].bill)
  /\ Refuse(t)

\* updateDraft; the lines and the totals follow under its lock.
LockDraft(t) ==
  /\ pc[t] = "lockDraft"
  /\ Grantable(headerLock[req[t].invoice], t)
  /\ DraftUnmoved(t)
  /\ headerLock' = [headerLock EXCEPT ![req[t].invoice] = t]
  /\ GoTo(t, "commit")
  /\ UNCHANGED <<db, lineLock, counterLock, req, seen, todo, work>>

EditConflict(t) ==
  /\ pc[t] = "lockDraft"
  /\ Grantable(headerLock[req[t].invoice], t)
  /\ ~DraftUnmoved(t)
  /\ Refuse(t)

CommitEdit(t) ==
  /\ pc[t] = "commit" /\ req[t].op = "edit"
  /\ LET i == req[t].invoice
     IN  /\ invoices' = [invoices EXCEPT
                           ![i] = DraftRow(@.version + 1, work[t].bill, work[t].rate)]
         /\ bills' = [bills EXCEPT ![i] = work[t].bill]
         /\ lineRate' = [lineRate EXCEPT ![i] = work[t].rate]
  /\ End(t, "answered")
  /\ UNCHANGED <<orderStatus, rate, inForce, invoiced, journal, nextValue>>

-----------------------------------------------------------------------------

\* The connection or the process is lost before the COMMIT.
Crash(t) ==
  /\ pc[t] \notin Final \cup {"idle"}
  /\ End(t, "failed")
  /\ UNCHANGED db

Finished == (\A t \in Txn : pc[t] \in Final) /\ UNCHANGED vars

Statement(t) ==
  \/ Read(t) \/ ReadRefused(t)
  \/ ReadLines(t) \/ Check(t) \/ CheckRefused(t)
  \/ Consume(t) \/ Exceeded(t) \/ Counter(t)
  \/ Header(t) \/ HeaderConflict(t) \/ CommitPosting(t)
  \/ Derive(t) \/ DeriveRefused(t) \/ LockDraft(t) \/ EditConflict(t) \/ CommitEdit(t)

Next ==
  \/ \E i \in Invoice, bill \in Bill : RaiseDraft(i, bill)
  \/ \E o \in Order : CancelOrder(o)
  \/ RateMoves
  \/ \E t \in Txn : Begin(t) \/ Statement(t) \/ ChecksFail(t) \/ Crash(t)
  \/ Finished

Spec == Init /\ [][Next]_vars

-----------------------------------------------------------------------------
(* Properties *)

Posted == {i \in Invoice : invoices[i].status = "posted"}

\* What an order line says was invoiced is what the posted invoices bill of it,
\* and never more than was ordered: drafts may claim one remainder many times
\* over, and the postings that race for it were checked against old figures.
NeverOverInvoiced ==
  \A l \in Line :
    /\ Total(Posted, [i \in Invoice |-> bills[i][l]]) = invoiced[l]
    /\ invoiced[l] <= LineQty[l]

\* The numbers issued are 1 .. nextValue - 1, each to one posted invoice: a
\* posting that fails after its number was allocated spends none.
InvoiceNumbersGapless ==
  /\ {invoices[i].number : i \in Posted} = 1 .. nextValue - 1
  /\ \A i \in Invoice \ Posted : invoices[i].number = 0
  /\ \A i, j \in Posted : invoices[i].number = invoices[j].number => i = j

\* A posted invoice has one entry, whose sides balance and which equals what its
\* lines come to, and a draft has none.
EntriesMatch ==
  \A i \in Invoice :
    LET entries == {e \in journal : e.invoice = i}
    IN  IF i \in Posted
        THEN \E e \in entries :
               /\ entries = {e}
               /\ e.revenue = Subtotal(bills[i])
               /\ e.tax = TaxTotal(bills[i], lineRate[i])
               /\ e.receivable = e.revenue + e.tax
        ELSE entries = {}

\* What was posted is taxed at a rate the company had since the posting arrived.
TaxedInForce == \A e \in journal : lineRate[e.invoice] \in inForce[e.by]

\* The ledger says what the documents say: each posted invoice has its one entry,
\* which equals what its lines come to now, at a rate of the day.  The entry was
\* written from a header read at the start of a transaction that overlapped edits
\* of header and lines, and the rate may have moved since the draft was made and
\* again since the posting looked.
LedgerMatchesDocuments == EntriesMatch /\ TaxedInForce

\* A posted invoice, its lines and its entry never change again, whatever edit
\* or second posting was under way when it was posted.
PostedIsFinal ==
  [][\A i \in Posted :
       /\ invoices'[i] = invoices[i] /\ bills'[i] = bills[i]
       /\ lineRate'[i] = lineRate[i]
       /\ {e \in journal' : e.invoice = i} = {e \in journal : e.invoice = i}]_vars

\* The transactions that hold what the next statement of t needs.
BlockedBy(t) ==
  {u \in Txn \ {t} :
     \/ pc[t] = "consume" /\ \E l \in Line : IsNextLine(t, l) /\ lineLock[l] = u
     \/ pc[t] = "counter" /\ counterLock = u
     \/ pc[t] \in {"header", "lockDraft"} /\ headerLock[req[t].invoice] = u}

\* No postings and edits wait for each other in a circle, however many lines
\* of however many orders they share: section 10.2 of ARCHITECTURE.md.
NoPostingDeadlock ==
  ~ \E C \in SUBSET Txn : C # {} /\ \A t \in C : BlockedBy(t) \cap C # {}

\* Each commit is one step of InvoiceBook, and nothing else is visible.
Documents ==
  [i \in Invoice |->
     [status |-> invoices[i].status, version |-> invoices[i].version,
      number |-> invoices[i].number, bill |-> bills[i],
      rate |-> IF invoices[i].status = "absent" THEN 0 ELSE lineRate[i]]]

Entries ==
  {[invoice |-> e.invoice, receivable |-> e.receivable, revenue |-> e.revenue,
    tax |-> e.tax] : e \in journal}

InvoiceBookInstance ==
  INSTANCE InvoiceBook WITH documents <- Documents, entries <- Entries
ImplementsInvoiceBook == InvoiceBookInstance!Spec
=============================================================================
