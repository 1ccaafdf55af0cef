---------------------------- MODULE InvoiceBook ----------------------------
(***************************************************************************)
(* What customer invoices promise: drafts claim nothing, and a posting is  *)
(* one instant at which quantities are consumed, a number is issued, the   *)
(* document becomes final and the ledger gets the entry that equals it.    *)
(* InvoicePosting implements it with overlapping transactions              *)
(* (InvoicePosting!ImplementsInvoiceBook).                                 *)
(*                                                                         *)
(* No amount is stored here: what a document comes to follows from the     *)
(* quantities it bills and the rate it was raised at.                      *)
(***************************************************************************)
EXTENDS Quantities

CONSTANTS Invoice, Line, LineQty, LinePrice, Quantity, Rate

VARIABLES documents, invoiced, entries, nextValue

vars == <<documents, invoiced, entries, nextValue>>

\* How much of each line a document bills.
Bill == [Line -> Quantity]

Absent == [status |-> "absent", version |-> 0, number |-> 0,
           bill |-> [l \in Line |-> 0], rate |-> 0]

Draft(version, bill, rate) ==
  [status |-> "draft", version |-> version, number |-> 0, bill |-> bill, rate |-> rate]

Subtotal(bill) == Total(Line, [l \in Line |-> bill[l] * LinePrice[l]])

\* Receivables for all of the document, revenue and tax for its parts.
Entry(i, bill, rate) ==
  [invoice |-> i, receivable |-> Subtotal(bill) * (1 + rate),
   revenue |-> Subtotal(bill), tax |-> Subtotal(bill) * rate]

Init ==
  /\ documents = [i \in Invoice |-> Absent]
  /\ invoiced = [l \in Line |-> 0]
  /\ entries = {}
  /\ nextValue = 1

Raise(i) ==
  /\ documents[i] = Absent
  /\ \E bill \in Bill, rate \in Rate :
       documents' = [documents EXCEPT ![i] = Draft(1, bill, rate)]
  /\ UNCHANGED <<invoiced, entries, nextValue>>

Edit(i) ==
  /\ documents[i].status = "draft"
  /\ \E bill \in Bill, rate \in Rate :
       documents' = [documents EXCEPT ![i] = Draft(@.version + 1, bill, rate)]
  /\ UNCHANGED <<invoiced, entries, nextValue>>

Post(i) ==
  LET doc == documents[i]
  IN  /\ doc.status = "draft"
      /\ \A l \in Line : invoiced[l] + doc.bill[l] <= LineQty[l]
      /\ Subtotal(doc.bill) > 0
      /\ documents' = [documents EXCEPT ![i].status = "posted",
                                        ![i].version = @ + 1,
                                        ![i].number = nextValue]
      /\ invoiced' = [l \in Line |-> invoiced[l] + doc.bill[l]]
      /\ entries' = entries \cup {Entry(i, doc.bill, doc.rate)}
      /\ nextValue' = nextValue + 1

Next == \E i \in Invoice : Raise(i) \/ Edit(i) \/ Post(i)

Spec == Init /\ [][Next]_vars
=============================================================================
