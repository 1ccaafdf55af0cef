---------------------------- MODULE InvoiceProofs ----------------------------
(***************************************************************************)
(* Theorems about InvoicePosting, for every set of requests, invoices and  *)
(* orders, every finite set of order lines and every tax rate; and about   *)
(* InvoiceArithmetic, for every order line, quantity, price, discount,     *)
(* rate and number of parts, and for any scales that the code might use.   *)
(***************************************************************************)
EXTENDS InvoicePosting, InvoiceArithmetic, QuantitiesProofs

-----------------------------------------------------------------------------
(* Amounts *)

\* What a document comes to is an amount.
LEMMA AmountsType ==
  ASSUME NEW bill \in Bill, NEW r \in Rate
  PROVE  Subtotal(bill) \in Nat /\ TaxTotal(bill, r) \in Nat
<1>1. /\ IsFiniteSet(Line) /\ LinePrice \in [Line -> Nat] /\ Quantity \subseteq Nat
      /\ Rate \subseteq Nat
  BY ConstantsAssumption
<1> DEFINE amount == [l \in Line |-> bill[l] * LinePrice[l]]
<1>2. \A l \in Line : amount[l] \in Nat
  <2> SUFFICES ASSUME NEW l \in Line PROVE bill[l] * LinePrice[l] \in Nat
    OBVIOUS
  <2>1. bill[l] \in Nat /\ LinePrice[l] \in Nat
    BY <1>1 DEF Bill
  <2> QED BY <2>1
<1>3. Total(Line, amount) \in Nat
  <2> HIDE DEF amount
  <2> QED BY <1>1, <1>2, TotalType
<1>4. Subtotal(bill) \in Nat
  BY <1>3 DEF Subtotal
<1> QED BY <1>1, <1>4 DEF TaxTotal

\* What an edit derives is typed as what a posting reads.
LEMMA WorkDerivedType ==
  ASSUME NEW f \in [Txn -> Work], NEW t \in Txn, NEW b \in Bill, NEW r \in Rate
  PROVE  [f EXCEPT ![t].bill = b, ![t].rate = r] \in [Txn -> Work]
<1>1. \A w \in Work : [w EXCEPT !.bill = b, !.rate = r] \in Work
  BY DEF Work
<1>2. [f EXCEPT ![t].bill = b, ![t].rate = r]
        = [f EXCEPT ![t] = [f[t] EXCEPT !.bill = b, !.rate = r]]
  OBVIOUS
<1> QED BY <1>1, <1>2

LEMMA DraftRowType ==
  ASSUME NEW version \in Nat, NEW bill \in Bill, NEW r \in Rate
  PROVE  DraftRow(version, bill, r) \in InvoiceRow
BY AmountsType DEF DraftRow, InvoiceRow

-----------------------------------------------------------------------------
(* The steps, those that end a transaction without a commit taken together *)

RollsBack(t) == pc[t] \notin Final /\ \E how \in Final : End(t, how) /\ UNCHANGED db

LEMMA Steps ==
  ASSUME [Next]_vars
  PROVE  \/ \E i \in Invoice, bill \in Bill : RaiseDraft(i, bill)
         \/ \E o \in Order : CancelOrder(o)
         \/ RateMoves
         \/ \E t \in Txn :
              \/ Begin(t) \/ Read(t) \/ ReadLines(t) \/ Check(t) \/ Consume(t)
              \/ Counter(t) \/ Header(t) \/ CommitPosting(t)
              \/ Derive(t) \/ LockDraft(t) \/ CommitEdit(t)
              \/ RollsBack(t)
         \/ UNCHANGED vars
<1>1. ASSUME NEW t \in Txn,
             \/ ReadRefused(t) \/ ChecksFail(t) \/ CheckRefused(t) \/ Exceeded(t)
             \/ HeaderConflict(t) \/ DeriveRefused(t) \/ EditConflict(t) \/ Crash(t)
      PROVE  RollsBack(t)
  BY <1>1 DEF RollsBack, Final, Refuse, ReadRefused, ChecksFail, CheckRefused,
     Exceeded, HeaderConflict, DeriveRefused, EditConflict, Crash
<1> QED BY <1>1 DEF Next, Statement, Finished

-----------------------------------------------------------------------------
(* Type correctness *)

LEMMA NoneOfEach == /\ NoBill \in Bill
                    /\ NoWork \in Work
                    /\ NoInvoice \in InvoiceRow
                    /\ (CHOOSE r \in Rate : TRUE) \in Rate
                    /\ (CHOOSE i \in Invoice : TRUE) \in Invoice
BY ConstantsAssumption DEF NoBill, Bill, NoWork, Work, NoInvoice, InvoiceRow

PostedAs(rows, i, n) ==
  [rows EXCEPT ![i].status = "posted", ![i].number = n, ![i].version = @ + 1]

\* What posting writes: the totals stay, and so does every other invoice.
LEMMA PostedRows ==
  ASSUME NEW rows \in [Invoice -> InvoiceRow], NEW i \in Invoice, NEW n \in Nat,
         NEW after, after = PostedAs(rows, i, n)
  PROVE  /\ after \in [Invoice -> InvoiceRow]
         /\ \A j \in Invoice \ {i} : after[j] = rows[j]
         /\ after[i].status = "posted"
         /\ after[i].number = n
         /\ after[i].version = rows[i].version + 1
         /\ after[i].subtotal = rows[i].subtotal
         /\ after[i].taxTotal = rows[i].taxTotal
<1> DEFINE row == [rows[i] EXCEPT !.status = "posted", !.number = n,
                                  !.version = @ + 1]
<1>1. rows[i] \in InvoiceRow
  OBVIOUS
<1>2. /\ row \in InvoiceRow
      /\ row.status = "posted" /\ row.number = n
      /\ row.version = rows[i].version + 1
      /\ row.subtotal = rows[i].subtotal /\ row.taxTotal = rows[i].taxTotal
  <2>1. rows[i].version + 1 \in Nat
    BY <1>1 DEF InvoiceRow
  <2>2. row = [rows[i] EXCEPT !.status = "posted", !.number = n,
                              !.version = rows[i].version + 1]
    BY <1>1 DEF InvoiceRow
  <2> QED BY <1>1, <2>1, <2>2 DEF InvoiceRow
<1>3. after = [rows EXCEPT ![i] = row]
  BY DEF PostedAs
<1> HIDE DEF row
<1> QED BY <1>2, <1>3

LEMMA PostingRows ==
  ASSUME TypeOK, NEW t \in Txn, CommitPosting(t), NEW i, i = req[t].invoice
  PROVE  /\ i \in Invoice
         /\ invoices' \in [Invoice -> InvoiceRow]
         /\ \A j \in Invoice \ {i} : invoices'[j] = invoices[j]
         /\ invoices'[i].status = "posted"
         /\ invoices'[i].number = work[t].num
         /\ invoices'[i].version = invoices[i].version + 1
         /\ invoices'[i].subtotal = invoices[i].subtotal
         /\ invoices'[i].taxTotal = invoices[i].taxTotal
<1>1. /\ i \in Invoice /\ work[t].num \in Nat
      /\ invoices \in [Invoice -> InvoiceRow]
  BY DEF TypeOK, Request, Work
<1>2. invoices' = PostedAs(invoices, i, work[t].num)
  BY Zenon DEF CommitPosting, PostedAs
<1> QED BY <1>1, <1>2, PostedRows

LEMMA EndType ==
  ASSUME TypeOK, NEW t \in Txn, NEW how \in Final, End(t, how)
  PROVE  /\ lineLock' \in [Line -> Txn \cup {NoTxn}]
         /\ counterLock' \in Txn \cup {NoTxn}
         /\ headerLock' \in [Invoice -> Txn \cup {NoTxn}]
         /\ pc' \in [Txn -> PCs]
         /\ req' \in [Txn -> Request]
         /\ seen' \in [Txn -> InvoiceRow]
         /\ todo' \in [Txn -> SUBSET Line]
         /\ work' \in [Txn -> Work]
BY NoneOfEach DEF End, ReleaseLocks, Freed, TypeOK, PCs

LEMMA TypeInit == Init => TypeOK
<1> SUFFICES ASSUME Init PROVE TypeOK
  OBVIOUS
<1>1. ASSUME NEW i \in Invoice
     
            PROVE  [op |-> "none", invoice |-> i, version |-> 0, bill |-> NoBill] \in Request
  BY NoneOfEach DEF Request
<1> QED BY <1>1, NoneOfEach DEF Init, TypeOK, PCs

LEMMA TypeStep == TypeOK /\ [Next]_vars => TypeOK'
<1> SUFFICES ASSUME TypeOK, [Next]_vars PROVE TypeOK'
  OBVIOUS
<1>1. ASSUME NEW i \in Invoice, NEW bill \in Bill, RaiseDraft(i, bill)
      PROVE TypeOK'
  BY <1>1, DraftRowType DEF RaiseDraft, TypeOK, locks
<1>2. ASSUME NEW o \in Order, CancelOrder(o) PROVE TypeOK'
  BY <1>2 DEF CancelOrder, TypeOK, locks
<1>3. CASE RateMoves
  BY <1>3 DEF RateMoves, tables, TypeOK, locks
<1>4. ASSUME NEW t \in Txn, Begin(t) PROVE TypeOK'
  <2>1. PICK i \in Invoice :
          \/ req' = [req EXCEPT ![t].op = "post", ![t].invoice = i]
          \/ \E v \in 1 .. invoices[i].version, bill \in Bill :
               req' = [req EXCEPT ![t] = [op |-> "edit", invoice |-> i,
                                          version |-> v, bill |-> bill]]
    BY <1>4 DEF Begin
  <2>2. invoices[i].version \in Nat
    BY DEF TypeOK, InvoiceRow
  <2>3. \A v \in 1 .. invoices[i].version, bill \in Bill :
          [op |-> "edit", invoice |-> i, version |-> v, bill |-> bill] \in Request
    BY <2>2 DEF Request
  <2>4. [req[t] EXCEPT !.op = "post", !.invoice = i] \in Request
    BY DEF TypeOK, Request
  <2>5. req' \in [Txn -> Request]
    <3>1. CASE req' = [req EXCEPT ![t].op = "post", ![t].invoice = i]
      BY <3>1, <2>4 DEF TypeOK
    <3>2. ASSUME NEW v \in 1 .. invoices[i].version, NEW bill \in Bill,
                 req' = [req EXCEPT ![t] = [op |-> "edit", invoice |-> i,
                                            version |-> v, bill |-> bill]]
          PROVE  req' \in [Txn -> Request]
      BY <3>2, <2>3 DEF TypeOK
    <3> QED BY <2>1, <3>1, <3>2
  <2>6. inForce' \in [Txn -> SUBSET Rate]
    BY <1>4 DEF Begin, TypeOK
  <2> QED BY <1>4, <2>5, <2>6 DEF Begin, GoTo, TypeOK, PCs, tables, locks
<1>5. ASSUME NEW t \in Txn, Read(t) PROVE TypeOK'
  BY <1>5 DEF Read, GoTo, TypeOK, Request, PCs, db, tables, locks
<1>6. ASSUME NEW t \in Txn, ReadLines(t) PROVE TypeOK'
  <2>1. req[t].invoice \in Invoice
    BY DEF TypeOK, Request
  <2>2. work' \in [Txn -> Work]
    BY <1>6, <2>1 DEF ReadLines, TypeOK, Work
  <2> QED BY <1>6, <2>2 DEF ReadLines, GoTo, TypeOK, PCs, db, tables, locks
<1>7. ASSUME NEW t \in Txn, Check(t) PROVE TypeOK'
  BY <1>7 DEF Check, GoTo, Billed, TypeOK, PCs, db, tables, locks
<1>8. ASSUME NEW t \in Txn, Consume(t) PROVE TypeOK'
  <2>1. PICK l \in Line :
          /\ lineLock' = [lineLock EXCEPT ![l] = t]
          /\ work' = [work EXCEPT ![t].taken = @ \cup {l}]
          /\ todo' = [todo EXCEPT ![t] = @ \ {l}]
    BY <1>8 DEF Consume
  <2>2. work' \in [Txn -> Work]
    BY <2>1 DEF TypeOK, Work
  <2> QED BY <1>8, <2>1, <2>2 DEF Consume, GoTo, TypeOK, PCs, db, tables
<1>9. ASSUME NEW t \in Txn, Counter(t) PROVE TypeOK'
  <2>1. work' \in [Txn -> Work]
    BY <1>9 DEF Counter, TypeOK, Work
  <2> QED BY <1>9, <2>1 DEF Counter, GoTo, TypeOK, PCs, db, tables
<1>10. ASSUME NEW t \in Txn, Header(t) PROVE TypeOK'
  BY <1>10 DEF Header, GoTo, TypeOK, PCs, db, tables
<1>11. ASSUME NEW t \in Txn, CommitPosting(t) PROVE TypeOK'
  <2>1. /\ req[t].invoice \in Invoice
        /\ seen[t].subtotal \in Nat /\ seen[t].taxTotal \in Nat
        /\ work[t].num \in Nat
    BY DEF TypeOK, Request, InvoiceRow, Work
  <2>0. \A l \in Line : work[t].bill[l] \in Nat
    <3>1. work[t].bill \in Bill
      BY DEF TypeOK, Work
    <3> QED BY <3>1, ConstantsAssumption DEF Bill
  <2>2. invoices' \in [Invoice -> InvoiceRow]
    BY <1>11, PostingRows
  <2>3. journal' \subseteq JournalEntry
    BY <1>11, <2>1 DEF CommitPosting, EntryOf, TypeOK, JournalEntry
  <2>4. invoiced' \in [Line -> Nat]
    BY <1>11, <2>0 DEF CommitPosting, TypeOK
  <2>5. End(t, "answered") /\ "answered" \in Final
    BY <1>11 DEF CommitPosting, Final
  <2> QED BY <1>11, <2>1, <2>2, <2>3, <2>4, <2>5, EndType DEF CommitPosting,
             TypeOK
<1>12. ASSUME NEW t \in Txn, Derive(t) PROVE TypeOK'
  <2>1. work' \in [Txn -> Work]
    <3>1. work \in [Txn -> Work] /\ req[t].bill \in Bill /\ rate \in Rate
      BY DEF TypeOK, Request
    <3> QED BY <1>12, <3>1, WorkDerivedType DEF Derive
  <2> QED BY <1>12, <2>1 DEF Derive, GoTo, TypeOK, PCs, db, tables, locks
<1>13. ASSUME NEW t \in Txn, LockDraft(t) PROVE TypeOK'
  BY <1>13 DEF LockDraft, GoTo, TypeOK, PCs, db, tables
<1>14. ASSUME NEW t \in Txn, CommitEdit(t) PROVE TypeOK'
  <2>1. /\ req[t].invoice \in Invoice
        /\ work[t].bill \in Bill /\ work[t].rate \in Rate
        /\ invoices[req[t].invoice].version + 1 \in Nat
    BY DEF TypeOK, Request, Work, InvoiceRow
  <2>2. DraftRow(invoices[req[t].invoice].version + 1, work[t].bill, work[t].rate)
          \in InvoiceRow
    BY <2>1, DraftRowType
  <2>3. End(t, "answered") /\ "answered" \in Final
    BY <1>14 DEF CommitEdit, Final
  <2> QED BY <1>14, <2>1, <2>2, <2>3, EndType DEF CommitEdit, TypeOK
<1>15. ASSUME NEW t \in Txn, RollsBack(t) PROVE TypeOK'
  BY <1>15, EndType DEF RollsBack, TypeOK, db, tables
<1>16. CASE UNCHANGED vars
  BY <1>16 DEF vars, db, tables, locks, TypeOK
<1> QED
  BY Steps, <1>1, <1>2, <1>3, <1>4, <1>5, <1>6, <1>7, <1>8, <1>9, <1>10,
     <1>11, <1>12, <1>13, <1>14, <1>15, <1>16

\* Every row and every transaction stays of its type; in particular amounts
\* and quantities never go below zero.
THEOREM TypeCorrect == Spec => []TypeOK
<1> QED BY TypeInit, TypeStep, PTL DEF Spec

-----------------------------------------------------------------------------
(* Who is where, and what is locked *)

\* Between its check and its end, a posting.
Consuming(t) == \/ pc[t] \in {"consume", "counter", "header"}
                \/ pc[t] = "commit" /\ req[t].op = "post"

\* From the counter on.
Numbered(t) == \/ pc[t] = "header"
               \/ pc[t] = "commit" /\ req[t].op = "post"

\* A statement of a posting is run for a posting, one of an edit for an edit.
StageInv ==
  \A t \in Txn :
    /\ pc[t] \in {"lines", "check", "consume", "counter", "header"} => req[t].op = "post"
    /\ pc[t] \in {"derive", "lockDraft"} => req[t].op = "edit"
    /\ pc[t] \in {"read", "commit"} => req[t].op \in {"post", "edit"}

\* A line is locked by the posting that took it, the counter by the one that
\* has a number, a header by whoever is about to commit.
LockInv ==
  \A t \in Txn :
    /\ \A l \in Line : lineLock[l] = t <=> l \in work[t].taken
    /\ work[t].taken # {} => Consuming(t)
    /\ counterLock = t <=> Numbered(t)
    /\ \A i \in Invoice : headerLock[i] = t <=> pc[t] = "commit" /\ req[t].invoice = i

\* Lines are taken in the order of their ranks.
OrderInv ==
  \A t \in Txn :
    /\ pc[t] # "consume" => todo[t] = {}
    /\ \A l \in work[t].taken, m \in todo[t] : LineRank[l] < LineRank[m]

ControlInv == StageInv /\ LockInv /\ OrderInv

LEMMA ControlInit == Init => ControlInv
<1> SUFFICES ASSUME Init PROVE ControlInv
  OBVIOUS
<1>1. \A t \in Txn : work[t].taken = {} /\ todo[t] = {} /\ pc[t] = "idle" /\ t # NoTxn
  BY ConstantsAssumption DEF Init, NoWork
<1>2. StageInv
  BY <1>1 DEF StageInv
<1>3. LockInv
  BY <1>1 DEF Init, LockInv, Consuming, Numbered
<1> QED BY <1>1, <1>2, <1>3 DEF ControlInv, OrderInv

LEMMA RequestsType ==
  TypeOK => \A t \in Txn : req[t].invoice \in Invoice /\ work[t].taken \in SUBSET Line
BY DEF TypeOK, Request, Work

LEMMA StageStep == TypeOK /\ StageInv /\ [Next]_vars => StageInv'
<1> SUFFICES ASSUME TypeOK, StageInv, [Next]_vars PROVE StageInv'
  OBVIOUS
<1>2. ASSUME NEW i \in Invoice, NEW bill \in Bill, RaiseDraft(i, bill)
      PROVE StageInv'
  BY <1>2 DEF RaiseDraft, StageInv, TypeOK
<1>3. ASSUME NEW o \in Order, CancelOrder(o) PROVE StageInv'
  BY <1>3 DEF CancelOrder, StageInv, TypeOK
<1>4. CASE RateMoves
  BY <1>4 DEF RateMoves, tables, StageInv, TypeOK
<1>5. ASSUME NEW t \in Txn, Begin(t) PROVE StageInv'
  <2>1. req'[t].op \in {"post", "edit"} /\ \A u \in Txn \ {t} : req'[u] = req[u]
    BY <1>5 DEF Begin, TypeOK, Request
  <2> QED BY <1>5, <2>1 DEF Begin, GoTo, StageInv, TypeOK
<1>6. ASSUME NEW t \in Txn, Read(t) PROVE StageInv'
  BY <1>6 DEF Read, GoTo, StageInv, TypeOK
<1>7. ASSUME NEW t \in Txn, ReadLines(t) PROVE StageInv'
  BY <1>7 DEF ReadLines, GoTo, StageInv, TypeOK
<1>8. ASSUME NEW t \in Txn, Check(t) PROVE StageInv'
  BY <1>8 DEF Check, GoTo, StageInv, TypeOK
<1>9. ASSUME NEW t \in Txn, Consume(t) PROVE StageInv'
  BY <1>9 DEF Consume, GoTo, StageInv, TypeOK
<1>10. ASSUME NEW t \in Txn, Counter(t) PROVE StageInv'
  BY <1>10 DEF Counter, GoTo, StageInv, TypeOK
<1>11. ASSUME NEW t \in Txn, Header(t) PROVE StageInv'
  BY <1>11 DEF Header, GoTo, StageInv, TypeOK
<1>12. ASSUME NEW t \in Txn, CommitPosting(t) PROVE StageInv'
  BY <1>12 DEF CommitPosting, End, StageInv, TypeOK
<1>13. ASSUME NEW t \in Txn, Derive(t) PROVE StageInv'
  BY <1>13 DEF Derive, GoTo, StageInv, TypeOK
<1>14. ASSUME NEW t \in Txn, LockDraft(t) PROVE StageInv'
  BY <1>14 DEF LockDraft, GoTo, StageInv, TypeOK
<1>15. ASSUME NEW t \in Txn, CommitEdit(t) PROVE StageInv'
  BY <1>15 DEF CommitEdit, End, StageInv, TypeOK
<1>16. ASSUME NEW t \in Txn, RollsBack(t) PROVE StageInv'
  BY <1>16 DEF RollsBack, End, Final, StageInv, TypeOK
<1>17. CASE UNCHANGED vars
  BY <1>17 DEF vars, locks, StageInv, TypeOK
<1> QED
  BY Steps, <1>2, <1>3, <1>4, <1>5, <1>6, <1>7, <1>8, <1>9, <1>10, <1>11,
     <1>12, <1>13, <1>14, <1>15, <1>16, <1>17

LEMMA LockStep == TypeOK /\ StageInv /\ LockInv /\ [Next]_vars => LockInv'
<1> SUFFICES ASSUME TypeOK, StageInv, LockInv, [Next]_vars PROVE LockInv'
  OBVIOUS
<1>1. /\ NoTxn \notin Txn
      /\ \A t \in Txn : req[t].invoice \in Invoice /\ work[t].taken \in SUBSET Line
  BY ConstantsAssumption, RequestsType
<1>2. ASSUME NEW i \in Invoice, NEW bill \in Bill, RaiseDraft(i, bill)
      PROVE LockInv'
  BY <1>2, <1>1 DEF RaiseDraft, locks, LockInv, Consuming, Numbered, StageInv,
     TypeOK
<1>3. ASSUME NEW o \in Order, CancelOrder(o) PROVE LockInv'
  BY <1>3, <1>1 DEF CancelOrder, locks, LockInv, Consuming, Numbered, StageInv,
     TypeOK
<1>4. CASE RateMoves
  BY <1>4, <1>1 DEF RateMoves, tables, locks, LockInv, Consuming, Numbered, StageInv,
     TypeOK
<1>5. ASSUME NEW t \in Txn, Begin(t) PROVE LockInv'
  BY <1>5, <1>1 DEF Begin, GoTo, locks, LockInv, Consuming, Numbered, StageInv,
     TypeOK
<1>6. ASSUME NEW t \in Txn, Read(t) PROVE LockInv'
  BY <1>6, <1>1 DEF Read, GoTo, locks, LockInv, Consuming, Numbered, StageInv,
     TypeOK
<1>7. ASSUME NEW t \in Txn, ReadLines(t) PROVE LockInv'
  BY <1>7, <1>1 DEF ReadLines, GoTo, locks, LockInv, Consuming, Numbered,
     StageInv, TypeOK
<1>8. ASSUME NEW t \in Txn, Check(t) PROVE LockInv'
  BY <1>8, <1>1 DEF Check, GoTo, locks, LockInv, Consuming, Numbered, StageInv,
     TypeOK
<1>9. ASSUME NEW t \in Txn, Consume(t) PROVE LockInv'
  BY <1>9, <1>1 DEF Consume, GoTo, Grantable, LockInv, Consuming, Numbered,
     StageInv, TypeOK
<1>10. ASSUME NEW t \in Txn, Counter(t) PROVE LockInv'
  BY <1>10, <1>1 DEF Counter, GoTo, Grantable, CounterGrantable, LockInv,
     Consuming, Numbered, StageInv, TypeOK
<1>11. ASSUME NEW t \in Txn, Header(t) PROVE LockInv'
  BY <1>11, <1>1 DEF Header, GoTo, Grantable, LockInv, Consuming, Numbered,
     StageInv, TypeOK
<1>12. ASSUME NEW t \in Txn, CommitPosting(t) PROVE LockInv'
  BY <1>12, <1>1 DEF CommitPosting, End, ReleaseLocks, Freed, NoWork, LockInv,
     Consuming, Numbered, StageInv, TypeOK
<1>13. ASSUME NEW t \in Txn, Derive(t) PROVE LockInv'
  BY <1>13, <1>1 DEF Derive, GoTo, locks, LockInv, Consuming, Numbered,
     StageInv, TypeOK
<1>14. ASSUME NEW t \in Txn, LockDraft(t) PROVE LockInv'
  BY <1>14, <1>1 DEF LockDraft, GoTo, Grantable, LockInv, Consuming, Numbered,
     StageInv, TypeOK
<1>15. ASSUME NEW t \in Txn, CommitEdit(t) PROVE LockInv'
  BY <1>15, <1>1 DEF CommitEdit, End, ReleaseLocks, Freed, NoWork, LockInv,
     Consuming, Numbered, StageInv, TypeOK
<1>16. ASSUME NEW t \in Txn, RollsBack(t) PROVE LockInv'
  BY <1>16, <1>1 DEF RollsBack, End, Final, ReleaseLocks, Freed, NoWork,
     LockInv, Consuming, Numbered, StageInv, TypeOK
<1>17. CASE UNCHANGED vars
  BY <1>17, <1>1 DEF vars, locks, LockInv, Consuming, Numbered, StageInv, TypeOK
<1> QED
  BY Steps, <1>2, <1>3, <1>4, <1>5, <1>6, <1>7, <1>8, <1>9, <1>10, <1>11,
     <1>12, <1>13, <1>14, <1>15, <1>16, <1>17

LEMMA OrderStep == TypeOK /\ LockInv /\ OrderInv /\ [Next]_vars => OrderInv'
<1> SUFFICES ASSUME TypeOK, LockInv, OrderInv, [Next]_vars PROVE OrderInv'
  OBVIOUS
<1>1. /\ LineRank \in [Line -> Nat]
      /\ \A l, m \in Line : LineRank[l] = LineRank[m] => l = m
      /\ \A t \in Txn : req[t].invoice \in Invoice /\ work[t].taken \in SUBSET Line
  BY ConstantsAssumption, RequestsType
<1>2. ASSUME NEW i \in Invoice, NEW bill \in Bill, RaiseDraft(i, bill)
      PROVE OrderInv'
  BY <1>2, <1>1 DEF RaiseDraft, OrderInv, TypeOK
<1>3. ASSUME NEW o \in Order, CancelOrder(o) PROVE OrderInv'
  BY <1>3, <1>1 DEF CancelOrder, OrderInv, TypeOK
<1>4. CASE RateMoves
  BY <1>4, <1>1 DEF RateMoves, tables, OrderInv, TypeOK
<1>5. ASSUME NEW t \in Txn, Begin(t) PROVE OrderInv'
  BY <1>5, <1>1 DEF Begin, GoTo, OrderInv, TypeOK
<1>6. ASSUME NEW t \in Txn, Read(t) PROVE OrderInv'
  BY <1>6, <1>1 DEF Read, GoTo, OrderInv, TypeOK
<1>7. ASSUME NEW t \in Txn, ReadLines(t) PROVE OrderInv'
  BY <1>7, <1>1 DEF ReadLines, GoTo, OrderInv, TypeOK
<1>8. ASSUME NEW t \in Txn, Check(t) PROVE OrderInv'
  BY <1>8, <1>1 DEF Check, GoTo, LockInv, Consuming, Billed, OrderInv, TypeOK
<1>9. ASSUME NEW t \in Txn, Consume(t) PROVE OrderInv'
  <2>1. PICK l \in Line :
          /\ l \in todo[t] /\ \A m \in todo[t] : LineRank[l] <= LineRank[m]
          /\ work' = [work EXCEPT ![t].taken = @ \cup {l}]
          /\ todo' = [todo EXCEPT ![t] = @ \ {l}]
    BY <1>9 DEF Consume, IsNextLine
  <2>2. /\ \A u \in Txn \ {t} : work'[u].taken = work[u].taken /\ todo'[u] = todo[u]
        /\ work'[t].taken = work[t].taken \cup {l} /\ todo'[t] = todo[t] \ {l}
        /\ todo[t] \subseteq Line
    BY <2>1 DEF TypeOK, Work
  <2>3. \A k \in work'[t].taken, m \in todo'[t] : LineRank[k] < LineRank[m]
    <3> SUFFICES ASSUME NEW k \in work[t].taken \cup {l}, NEW m \in todo[t] \ {l}
                 PROVE  LineRank[k] < LineRank[m]
      BY <2>2
    <3>1. CASE k = l
      <4>1. LineRank[l] # LineRank[m] /\ LineRank[l] \in Nat /\ LineRank[m] \in Nat
        BY <1>1, <2>2
      <4> QED BY <2>1, <3>1, <4>1
    <3> QED BY <3>1 DEF OrderInv
  <2>4. \A u \in Txn : pc'[u] # "consume" => todo'[u] = {}
    BY <1>9, <2>2 DEF Consume, GoTo, OrderInv, TypeOK
  <2> QED BY <2>2, <2>3, <2>4 DEF OrderInv
<1>10. ASSUME NEW t \in Txn, Counter(t) PROVE OrderInv'
  BY <1>10, <1>1 DEF Counter, GoTo, OrderInv, TypeOK
<1>11. ASSUME NEW t \in Txn, Header(t) PROVE OrderInv'
  BY <1>11, <1>1 DEF Header, GoTo, OrderInv, TypeOK
<1>12. ASSUME NEW t \in Txn, CommitPosting(t) PROVE OrderInv'
  BY <1>12, <1>1 DEF CommitPosting, End, NoWork, OrderInv, TypeOK
<1>13. ASSUME NEW t \in Txn, Derive(t) PROVE OrderInv'
  BY <1>13, <1>1 DEF Derive, GoTo, OrderInv, TypeOK
<1>14. ASSUME NEW t \in Txn, LockDraft(t) PROVE OrderInv'
  BY <1>14, <1>1 DEF LockDraft, GoTo, OrderInv, TypeOK
<1>15. ASSUME NEW t \in Txn, CommitEdit(t) PROVE OrderInv'
  BY <1>15, <1>1 DEF CommitEdit, End, NoWork, OrderInv, TypeOK
<1>16. ASSUME NEW t \in Txn, RollsBack(t) PROVE OrderInv'
  BY <1>16, <1>1 DEF RollsBack, End, Final, NoWork, OrderInv, TypeOK
<1>17. CASE UNCHANGED vars
  BY <1>17, <1>1 DEF vars, locks, OrderInv, TypeOK
<1> QED
  BY Steps, <1>2, <1>3, <1>4, <1>5, <1>6, <1>7, <1>8, <1>9, <1>10, <1>11,
     <1>12, <1>13, <1>14, <1>15, <1>16, <1>17

LEMMA ControlStep == TypeOK /\ ControlInv /\ [Next]_vars => ControlInv'
BY StageStep, LockStep, OrderStep DEF ControlInv

\* Statements run for their own operation, locks are where the statement says,
\* and lines are taken in order.
LEMMA ControlHolds == Spec => []ControlInv
<1> QED BY TypeInit, TypeStep, ControlInit, ControlStep, PTL DEF Spec

-----------------------------------------------------------------------------
(* No deadlock *)

\* In a circle of waiting transactions each would wait for a line, held by one
\* that waits for a line of higher rank; the lines above what is waited for
\* would get fewer and fewer, and there are finitely many.
LEMMA NoCircle == TypeOK /\ ControlInv => NoPostingDeadlock
<1> SUFFICES ASSUME TypeOK, ControlInv, NEW C \in SUBSET Txn, C # {},
                    \A t \in C : BlockedBy(t) \cap C # {}
             PROVE  FALSE
  BY DEF NoPostingDeadlock
<1>1. \A t \in C : pc[t] # "commit"
  BY DEF BlockedBy
<1>2. ASSUME NEW t \in C, pc[t] \in {"header", "lockDraft"} PROVE FALSE
  <2>1. PICK u \in C : headerLock[req[t].invoice] = u
    BY <1>2 DEF BlockedBy
  <2>2. req[t].invoice \in Invoice
    BY RequestsType
  <2>3. pc[u] = "commit"
    BY <2>1, <2>2 DEF ControlInv, LockInv
  <2> QED BY <1>1, <2>3
<1>3. ASSUME NEW t \in C, pc[t] = "counter" PROVE FALSE
  <2>1. PICK u \in C : counterLock = u
    BY <1>3 DEF BlockedBy
  <2>2. Numbered(u)
    BY <2>1 DEF ControlInv, LockInv
  <2> QED BY <1>1, <1>2, <2>2 DEF Numbered
<1> DEFINE Above(t) == {m \in Line : \E l \in Line : /\ IsNextLine(t, l)
                                                    /\ LineRank[l] < LineRank[m]}
<1>4. ASSUME NEW t \in C
      PROVE  \E u \in C : Above(u) \subseteq Above(t) /\ Above(u) # Above(t)
  <2>1. PICK u \in C, l \in Line : IsNextLine(t, l) /\ lineLock[l] = u
    BY <1>2, <1>3 DEF BlockedBy
  <2>2. PICK k \in Line : IsNextLine(u, k)
    BY <1>2, <1>3 DEF BlockedBy
  <2>3. \A m \in todo[u] : LineRank[l] < LineRank[m]
    BY <2>1 DEF ControlInv, LockInv, OrderInv
  <2>4. todo[u] \subseteq Line /\ LineRank \in [Line -> Nat]
    BY ConstantsAssumption DEF TypeOK
  <2>5. ASSUME NEW m \in Above(u) PROVE m \in Above(t)
    <3>1. PICK j \in Line : IsNextLine(u, j) /\ LineRank[j] < LineRank[m]
      OBVIOUS
    <3>2. LineRank[l] < LineRank[j]
      BY <2>3, <3>1 DEF IsNextLine
    <3>3. LineRank[l] < LineRank[m]
      BY <2>4, <3>1, <3>2
    <3> QED BY <2>1, <3>3
  <2>6. k \in Above(t)
    BY <2>1, <2>2, <2>3 DEF IsNextLine
  <2>7. k \notin Above(u)
    BY <2>2, <2>4 DEF IsNextLine
  <2> QED BY <2>5, <2>6, <2>7
<1> DEFINE Sets == {Above(t) : t \in C}
<1>5. IsWellFoundedOn(StrictSubsetOrdering(Line), FiniteSubsetsOf(Line))
  BY FS_StrictSubsetOrderingWellFounded
<1>6. Sets \subseteq FiniteSubsetsOf(Line) /\ Sets # {}
  <2>1. \A t \in C : Above(t) \in SUBSET Line /\ IsFiniteSet(Above(t))
    <3> SUFFICES ASSUME NEW t \in C
          PROVE Above(t) \in SUBSET Line /\ IsFiniteSet(Above(t))
      OBVIOUS
    <3>1. Above(t) \in SUBSET Line
      OBVIOUS
    <3> HIDE DEF Above
    <3> QED BY <3>1, FS_Subset, ConstantsAssumption
  <2> QED BY <2>1 DEF FiniteSubsetsOf
<1>7. PICK S \in Sets : \A T \in Sets : <<T, S>> \notin StrictSubsetOrdering(Line)
  <2> HIDE DEF Sets
  <2> QED BY <1>5, <1>6, WFMin
<1>8. PICK t \in C : S = Above(t)
  OBVIOUS
<1>9. PICK u \in C : Above(u) \subseteq Above(t) /\ Above(u) # Above(t)
  BY <1>4
<1>10. <<Above(u), Above(t)>> \in StrictSubsetOrdering(Line)
  BY <1>9 DEF StrictSubsetOrdering
<1> QED BY <1>7, <1>8, <1>10

\* However many postings and edits share however many lines, they never wait
\* for each other in a circle.
THEOREM PostingsNeverDeadlock == Spec => []NoPostingDeadlock
<1>1. Spec => [](TypeOK /\ ControlInv)
  BY TypeCorrect, ControlHolds, PTL
<1> QED BY <1>1, NoCircle, PTL

-----------------------------------------------------------------------------
(* What was read, and what it is by the time of the commit *)

HasRead == {"lines", "check", "consume", "counter", "header", "derive", "lockDraft",
            "commit"}

\* A header is only ever replaced by one of a higher version, so one that has
\* the version that was read is the one that was read.  The header of a
\* transaction about to commit cannot change any more.
HeaderInv ==
  \A t \in Txn :
    LET row == invoices[req[t].invoice]
    IN  /\ pc[t] \in HasRead =>
             /\ row.status # "absent"
             /\ seen[t].status = "draft"
             /\ seen[t].version <= row.version
             /\ row.version = seen[t].version => row = seen[t]
        /\ pc[t] = "commit" =>
             /\ row.status = "draft"
             /\ req[t].op = "post" => row = seen[t]

\* A number that was allocated is the next one, until its transaction ends.
NumberInv == \A t \in Txn : Numbered(t) => work[t].num = nextValue

\* A header has the totals of its lines.
TotalsInv ==
  \A i \in Invoice : invoices[i].status # "absent" =>
    /\ invoices[i].subtotal = Subtotal(bills[i])
    /\ invoices[i].taxTotal = TaxTotal(bills[i], lineRate[i])

LEMMA EditRows ==
  ASSUME TypeOK, NEW t \in Txn, CommitEdit(t), NEW i, i = req[t].invoice
  PROVE  /\ i \in Invoice
         /\ \A j \in Invoice \ {i} :
              /\ invoices'[j] = invoices[j] /\ bills'[j] = bills[j]
              /\ lineRate'[j] = lineRate[j]
         /\ bills'[i] = work[t].bill /\ lineRate'[i] = work[t].rate
         /\ invoices'[i].status = "draft"
         /\ invoices'[i].number = 0
         /\ invoices'[i].version = invoices[i].version + 1
         /\ invoices'[i].subtotal = Subtotal(bills'[i])
         /\ invoices'[i].taxTotal = TaxTotal(bills'[i], lineRate'[i])
<1>1. i \in Invoice
  BY RequestsType
<1>2. /\ invoices' = [invoices EXCEPT
                         ![i] = DraftRow(invoices[i].version + 1, work[t].bill, work[t].rate)]
      /\ bills' = [bills EXCEPT ![i] = work[t].bill]
      /\ lineRate' = [lineRate EXCEPT ![i] = work[t].rate]
  BY DEF CommitEdit
<1> QED BY <1>1, <1>2 DEF TypeOK, DraftRow

LEMMA VersionsType ==
  TypeOK => /\ \A i \in Invoice : invoices[i].version \in Nat /\ invoices[i].number \in Nat
            /\ \A t \in Txn : seen[t].version \in Nat /\ req[t].invoice \in Invoice
BY DEF TypeOK, InvoiceRow, Request

LEMMA HeaderInit == Init => HeaderInv
BY DEF Init, HeaderInv, HasRead

LEMMA HeaderStep == TypeOK /\ ControlInv /\ HeaderInv /\ [Next]_vars => HeaderInv'
<1> SUFFICES ASSUME TypeOK, ControlInv, HeaderInv, [Next]_vars PROVE HeaderInv'
  OBVIOUS
<1>1. /\ \A i \in Invoice : invoices[i].version \in Nat
      /\ \A t \in Txn : seen[t].version \in Nat /\ req[t].invoice \in Invoice
  BY VersionsType
<1>2. ASSUME NEW i \in Invoice, NEW bill \in Bill, RaiseDraft(i, bill)
      PROVE HeaderInv'
  BY <1>2, <1>1 DEF RaiseDraft, DraftRow, HeaderInv, HasRead, TypeOK
<1>3. ASSUME NEW o \in Order, CancelOrder(o) PROVE HeaderInv'
  BY <1>3, <1>1 DEF CancelOrder, HeaderInv, HasRead, TypeOK
<1>4. CASE RateMoves
  BY <1>4, <1>1 DEF RateMoves, tables, HeaderInv, HasRead, TypeOK
<1>5. ASSUME NEW t \in Txn, Begin(t) PROVE HeaderInv'
  BY <1>5, <1>1 DEF Begin, GoTo, db, tables, HeaderInv, HasRead, TypeOK
<1>6. ASSUME NEW t \in Txn, Read(t) PROVE HeaderInv'
  BY <1>6, <1>1 DEF Read, GoTo, db, tables, HeaderInv, HasRead, TypeOK
<1>7. ASSUME NEW t \in Txn, ReadLines(t) PROVE HeaderInv'
  BY <1>7, <1>1 DEF ReadLines, GoTo, db, tables, HeaderInv, HasRead, TypeOK
<1>8. ASSUME NEW t \in Txn, Check(t) PROVE HeaderInv'
  BY <1>8, <1>1 DEF Check, GoTo, db, tables, HeaderInv, HasRead, TypeOK
<1>9. ASSUME NEW t \in Txn, Consume(t) PROVE HeaderInv'
  BY <1>9, <1>1 DEF Consume, GoTo, db, tables, HeaderInv, HasRead, TypeOK
<1>10. ASSUME NEW t \in Txn, Counter(t) PROVE HeaderInv'
  BY <1>10, <1>1 DEF Counter, GoTo, db, tables, HeaderInv, HasRead, TypeOK
<1>11. ASSUME NEW t \in Txn, Header(t) PROVE HeaderInv'
  BY <1>11, <1>1 DEF Header, GoTo, db, tables, Unmoved, HeaderInv, HasRead, TypeOK,
     ControlInv, StageInv
<1>12. ASSUME NEW t \in Txn, CommitPosting(t) PROVE HeaderInv'
  <2> DEFINE i == req[t].invoice
  <2>1. /\ \A j \in Invoice \ {i} : invoices'[j] = invoices[j]
        /\ invoices'[i].version = invoices[i].version + 1
        /\ invoices'[i].status # "absent"
        /\ i \in Invoice
    BY <1>12, PostingRows
  <2>2. \A u \in Txn \ {t} : pc[u] = "commit" => req[u].invoice # i
    BY <1>12, <2>1 DEF CommitPosting, ControlInv, LockInv
  <2>3. /\ pc' = [pc EXCEPT ![t] = "answered"] /\ UNCHANGED req
        /\ seen' = [seen EXCEPT ![t] = NoInvoice]
    BY <1>12 DEF CommitPosting, End
  <2> HIDE DEF i
  <2>4. ASSUME NEW u \in Txn \ {t}, pc[u] \in HasRead, req[u].invoice = i
        PROVE  seen[u].version < invoices'[i].version
    BY <1>1, <2>1, <2>4 DEF HeaderInv
  <2> QED BY <1>1, <2>1, <2>2, <2>3, <2>4 DEF HeaderInv, HasRead, TypeOK
<1>13. ASSUME NEW t \in Txn, Derive(t) PROVE HeaderInv'
  BY <1>13, <1>1 DEF Derive, GoTo, db, tables, HeaderInv, HasRead, TypeOK, ControlInv,
     StageInv
<1>14. ASSUME NEW t \in Txn, LockDraft(t) PROVE HeaderInv'
  BY <1>14, <1>1 DEF LockDraft, GoTo, db, tables, DraftUnmoved, HeaderInv, HasRead,
     TypeOK, ControlInv, StageInv
<1>15. ASSUME NEW t \in Txn, CommitEdit(t) PROVE HeaderInv'
  <2> DEFINE i == req[t].invoice
  <2>1. /\ \A j \in Invoice \ {i} : invoices'[j] = invoices[j]
        /\ invoices'[i].version = invoices[i].version + 1
        /\ invoices'[i].status # "absent"
        /\ i \in Invoice
    BY <1>15, EditRows
  <2>2. \A u \in Txn \ {t} : pc[u] = "commit" => req[u].invoice # i
    BY <1>15, <2>1 DEF CommitEdit, ControlInv, LockInv
  <2>3. /\ pc' = [pc EXCEPT ![t] = "answered"] /\ UNCHANGED req
        /\ seen' = [seen EXCEPT ![t] = NoInvoice]
    BY <1>15 DEF CommitEdit, End
  <2> HIDE DEF i
  <2>4. ASSUME NEW u \in Txn \ {t}, pc[u] \in HasRead, req[u].invoice = i
        PROVE  seen[u].version < invoices'[i].version
    BY <1>1, <2>1, <2>4 DEF HeaderInv
  <2> QED BY <1>1, <2>1, <2>2, <2>3, <2>4 DEF HeaderInv, HasRead, TypeOK
<1>16. ASSUME NEW t \in Txn, RollsBack(t) PROVE HeaderInv'
  BY <1>16, <1>1 DEF RollsBack, End, Final, db, tables, HeaderInv, HasRead, TypeOK
<1>17. CASE UNCHANGED vars
  BY <1>17, <1>1 DEF vars, db, tables, locks, HeaderInv, HasRead, TypeOK
<1> QED
  BY Steps, <1>2, <1>3, <1>4, <1>5, <1>6, <1>7, <1>8, <1>9, <1>10, <1>11,
     <1>12, <1>13, <1>14, <1>15, <1>16, <1>17

LEMMA NumberInit == Init => NumberInv
BY DEF Init, NumberInv, Numbered

LEMMA NumberStep == TypeOK /\ ControlInv /\ NumberInv /\ [Next]_vars => NumberInv'
<1> SUFFICES ASSUME TypeOK, ControlInv, NumberInv, [Next]_vars PROVE NumberInv'
  OBVIOUS
<1>2. ASSUME NEW i \in Invoice, NEW bill \in Bill, RaiseDraft(i, bill)
      PROVE NumberInv'
  BY <1>2 DEF RaiseDraft, DraftRow, NumberInv, Numbered, TypeOK
<1>3. ASSUME NEW o \in Order, CancelOrder(o) PROVE NumberInv'
  BY <1>3 DEF CancelOrder, NumberInv, Numbered, TypeOK
<1>4. CASE RateMoves
  BY <1>4 DEF RateMoves, tables, NumberInv, Numbered, TypeOK
<1>5. ASSUME NEW t \in Txn, Begin(t) PROVE NumberInv'
  BY <1>5 DEF Begin, GoTo, db, tables, ControlInv, StageInv, NumberInv, Numbered, TypeOK
<1>6. ASSUME NEW t \in Txn, Read(t) PROVE NumberInv'
  BY <1>6 DEF Read, GoTo, db, tables, NumberInv, Numbered, TypeOK
<1>7. ASSUME NEW t \in Txn, ReadLines(t) PROVE NumberInv'
  BY <1>7 DEF ReadLines, GoTo, db, tables, NumberInv, Numbered, TypeOK
<1>8. ASSUME NEW t \in Txn, Check(t) PROVE NumberInv'
  BY <1>8 DEF Check, GoTo, db, tables, NumberInv, Numbered, TypeOK
<1>9. ASSUME NEW t \in Txn, Consume(t) PROVE NumberInv'
  BY <1>9 DEF Consume, GoTo, db, tables, NumberInv, Numbered, TypeOK
<1>10. ASSUME NEW t \in Txn, Counter(t) PROVE NumberInv'
  BY <1>10 DEF Counter, GoTo, db, tables, CounterGrantable, Grantable, ControlInv,
     LockInv, NumberInv, Numbered, TypeOK
<1>11. ASSUME NEW t \in Txn, Header(t) PROVE NumberInv'
  BY <1>11 DEF Header, GoTo, db, tables, Unmoved, NumberInv, Numbered, TypeOK
<1>12. ASSUME NEW t \in Txn, CommitPosting(t) PROVE NumberInv'
  BY <1>12 DEF CommitPosting, End, ControlInv, LockInv, NumberInv, Numbered,
     TypeOK
<1>13. ASSUME NEW t \in Txn, Derive(t) PROVE NumberInv'
  BY <1>13 DEF Derive, GoTo, db, tables, ControlInv, StageInv, NumberInv, Numbered,
     TypeOK
<1>14. ASSUME NEW t \in Txn, LockDraft(t) PROVE NumberInv'
  BY <1>14 DEF LockDraft, GoTo, db, tables, DraftUnmoved, ControlInv, StageInv,
     NumberInv, Numbered, TypeOK
<1>15. ASSUME NEW t \in Txn, CommitEdit(t) PROVE NumberInv'
  BY <1>15 DEF CommitEdit, End, ControlInv, LockInv, NumberInv, Numbered, TypeOK
<1>16. ASSUME NEW t \in Txn, RollsBack(t) PROVE NumberInv'
  BY <1>16 DEF RollsBack, End, Final, db, tables, ControlInv, LockInv, NumberInv,
     Numbered, TypeOK
<1>17. CASE UNCHANGED vars
  BY <1>17 DEF vars, db, tables, locks, NumberInv, Numbered, TypeOK
<1> QED
  BY Steps, <1>2, <1>3, <1>4, <1>5, <1>6, <1>7, <1>8, <1>9, <1>10, <1>11,
     <1>12, <1>13, <1>14, <1>15, <1>16, <1>17

LEMMA TotalsInit == Init => TotalsInv
BY DEF Init, TotalsInv, NoInvoice

LEMMA TotalsStep == TypeOK /\ TotalsInv /\ HeaderInv /\ [Next]_vars => TotalsInv'
<1> SUFFICES ASSUME TypeOK, TotalsInv, HeaderInv, [Next]_vars PROVE TotalsInv'
  OBVIOUS
<1>2. ASSUME NEW i \in Invoice, NEW bill \in Bill, RaiseDraft(i, bill)
      PROVE TotalsInv'
  BY <1>2 DEF RaiseDraft, DraftRow, TotalsInv, TypeOK
<1>3. ASSUME NEW o \in Order, CancelOrder(o) PROVE TotalsInv'
  BY <1>3 DEF CancelOrder, TotalsInv, TypeOK
<1>4. CASE RateMoves
  BY <1>4 DEF RateMoves, tables, TotalsInv, TypeOK
<1>5. ASSUME NEW t \in Txn, Begin(t) PROVE TotalsInv'
  BY <1>5 DEF Begin, GoTo, db, tables, TotalsInv, TypeOK
<1>6. ASSUME NEW t \in Txn, Read(t) PROVE TotalsInv'
  BY <1>6 DEF Read, GoTo, db, tables, TotalsInv, TypeOK
<1>7. ASSUME NEW t \in Txn, ReadLines(t) PROVE TotalsInv'
  BY <1>7 DEF ReadLines, GoTo, db, tables, TotalsInv, TypeOK
<1>8. ASSUME NEW t \in Txn, Check(t) PROVE TotalsInv'
  BY <1>8 DEF Check, GoTo, db, tables, TotalsInv, TypeOK
<1>9. ASSUME NEW t \in Txn, Consume(t) PROVE TotalsInv'
  BY <1>9 DEF Consume, GoTo, db, tables, TotalsInv, TypeOK
<1>10. ASSUME NEW t \in Txn, Counter(t) PROVE TotalsInv'
  BY <1>10 DEF Counter, GoTo, db, tables, TotalsInv, TypeOK
<1>11. ASSUME NEW t \in Txn, Header(t) PROVE TotalsInv'
  BY <1>11 DEF Header, GoTo, db, tables, Unmoved, TotalsInv, TypeOK
<1>12. ASSUME NEW t \in Txn, CommitPosting(t) PROVE TotalsInv'
  <2>1. UNCHANGED <<bills, lineRate>>
    BY <1>12 DEF CommitPosting
  <2>2. invoices[req[t].invoice].status # "absent"
    BY <1>12 DEF CommitPosting, HeaderInv
  <2> QED BY <1>12, <2>1, <2>2, PostingRows DEF TotalsInv
<1>13. ASSUME NEW t \in Txn, Derive(t) PROVE TotalsInv'
  BY <1>13 DEF Derive, GoTo, db, tables, TotalsInv, TypeOK
<1>14. ASSUME NEW t \in Txn, LockDraft(t) PROVE TotalsInv'
  BY <1>14 DEF LockDraft, GoTo, db, tables, DraftUnmoved, TotalsInv, TypeOK
<1>15. ASSUME NEW t \in Txn, CommitEdit(t) PROVE TotalsInv'
  BY <1>15, EditRows DEF TotalsInv
<1>16. ASSUME NEW t \in Txn, RollsBack(t) PROVE TotalsInv'
  BY <1>16 DEF RollsBack, End, Final, db, tables, TotalsInv, TypeOK
<1>17. CASE UNCHANGED vars
  BY <1>17 DEF vars, db, tables, locks, TotalsInv, TypeOK
<1> QED
  BY Steps, <1>2, <1>3, <1>4, <1>5, <1>6, <1>7, <1>8, <1>9, <1>10, <1>11,
     <1>12, <1>13, <1>14, <1>15, <1>16, <1>17

-----------------------------------------------------------------------------
(* Numbers, finality and the ledger *)

DocumentInv == ControlInv /\ HeaderInv /\ NumberInv /\ TotalsInv

\* All of this holds together; the results below need no more of a state.
LEMMA DocumentsHold == Spec => [](TypeOK /\ DocumentInv)
<1>1. Init => TypeOK /\ DocumentInv
  BY TypeInit, ControlInit, HeaderInit, NumberInit, TotalsInit DEF DocumentInv
<1>2. TypeOK /\ DocumentInv /\ [Next]_vars => (TypeOK /\ DocumentInv)'
  BY TypeStep, ControlStep, HeaderStep, NumberStep, TotalsStep DEF DocumentInv
<1> QED BY <1>1, <1>2, PTL DEF Spec

\* The steps that write a document, and what the others leave alone.
LEMMA Writers ==
  ASSUME [Next]_vars
  PROVE  \/ \E i \in Invoice, bill \in Bill : RaiseDraft(i, bill)
         \/ \E t \in Txn : CommitPosting(t) \/ CommitEdit(t)
         \/ UNCHANGED <<invoices, bills, lineRate, invoiced, journal, nextValue>>
BY Steps DEF CancelOrder, RateMoves, Begin, Read, ReadLines, Check, Consume,
   Counter,
   Header, Derive, LockDraft, RollsBack, vars, db, tables

LEMMA PostingIsOfDraft ==
  ASSUME TypeOK, DocumentInv, NEW t \in Txn, pc[t] = "commit", NEW i, i = req[t].invoice
  PROVE  /\ i \in Invoice /\ invoices[i].status = "draft"
         /\ req[t].op = "post" => /\ work[t].num = nextValue
                                  /\ invoices[i] = seen[t]
<1>1. i \in Invoice
  BY RequestsType
<1> QED BY <1>1 DEF DocumentInv, HeaderInv, NumberInv, Numbered

\* Only a posting gives a number, the next one, to an invoice that had none.
LEMMA NumbersStep ==
  TypeOK /\ DocumentInv /\ InvoiceNumbersGapless /\ [Next]_vars => InvoiceNumbersGapless'
<1> SUFFICES ASSUME TypeOK, DocumentInv, InvoiceNumbersGapless, [Next]_vars
             PROVE  InvoiceNumbersGapless'
  OBVIOUS
<1>1. ASSUME NEW i \in Invoice, NEW bill \in Bill, RaiseDraft(i, bill)
      PROVE  InvoiceNumbersGapless'
  BY <1>1 DEF RaiseDraft, DraftRow, InvoiceNumbersGapless, Posted, TypeOK
<1>2. ASSUME NEW t \in Txn, CommitPosting(t) PROVE InvoiceNumbersGapless'
  <2> DEFINE i == req[t].invoice
  <2>1. /\ i \in Invoice /\ i \notin Posted /\ work[t].num = nextValue
        /\ nextValue \in Nat \ {0} /\ nextValue' = nextValue + 1
    BY <1>2, PostingIsOfDraft DEF CommitPosting, Posted, TypeOK
  <2>2. /\ \A j \in Invoice \ {i} : invoices'[j] = invoices[j]
        /\ invoices'[i].status = "posted"
        /\ invoices'[i].number = nextValue
    BY <1>2, <2>1, PostingRows
  <2> HIDE DEF i
  <2>3. Posted' = Posted \cup {i}
    BY <2>1, <2>2 DEF Posted
  <2>4. \A j \in Posted : /\ invoices'[j].number = invoices[j].number
                          /\ invoices[j].number \in 1 .. nextValue - 1
    BY <2>1, <2>2 DEF InvoiceNumbersGapless, Posted
  <2>5. {invoices'[j].number : j \in Posted'}
          = {invoices[j].number : j \in Posted} \cup {nextValue}
    BY <2>2, <2>3, <2>4
  <2>6. (1 .. nextValue - 1) \cup {nextValue} = 1 .. nextValue' - 1
    BY <2>1
  <2>7. {invoices'[j].number : j \in Posted'} = 1 .. nextValue' - 1
    BY <2>5, <2>6 DEF InvoiceNumbersGapless
  <2>8. \A j \in Invoice \ Posted' : invoices'[j].number = 0
    BY <2>2, <2>3 DEF InvoiceNumbersGapless
  <2>9. \A j, k \in Posted' : invoices'[j].number = invoices'[k].number => j = k
    BY <2>1, <2>2, <2>3, <2>4 DEF InvoiceNumbersGapless
  <2> QED BY <2>7, <2>8, <2>9 DEF InvoiceNumbersGapless
<1>3. ASSUME NEW t \in Txn, CommitEdit(t) PROVE InvoiceNumbersGapless'
  <2> DEFINE i == req[t].invoice
  <2>1. /\ i \in Invoice /\ invoices[i].status = "draft" /\ nextValue' = nextValue
    BY <1>3, PostingIsOfDraft DEF CommitEdit
  <2>2. /\ \A j \in Invoice \ {i} : invoices'[j] = invoices[j]
        /\ invoices'[i].status = "draft" /\ invoices'[i].number = 0
    BY <1>3, EditRows
  <2> HIDE DEF i
  <2>3. Posted' = Posted /\ i \notin Posted
    BY <2>1, <2>2 DEF Posted
  <2> QED BY <2>1, <2>2, <2>3 DEF InvoiceNumbersGapless, Posted
<1>4. CASE UNCHANGED <<invoices, bills, lineRate, invoiced, journal, nextValue>>
  BY <1>4 DEF InvoiceNumbersGapless, Posted
<1> QED BY Writers, <1>1, <1>2, <1>3, <1>4

\* The numbers of posted invoices are 1 .. nextValue - 1, without a gap and
\* without a duplicate, whatever postings fail and wherever they do.
THEOREM NumbersHaveNoGap == Spec => []InvoiceNumbersGapless
<1>1. Init => InvoiceNumbersGapless
  BY DEF Init, InvoiceNumbersGapless, Posted, NoInvoice
<1> QED BY <1>1, DocumentsHold, NumbersStep, PTL DEF Spec

\* A posting adds its entry to those of its invoice and to no others.
LEMMA EntriesOfPosting ==
  ASSUME NEW t \in Txn, CommitPosting(t), NEW i
  PROVE  {e \in journal' : e.invoice = i}
           = {e \in journal : e.invoice = i}
               \cup (IF i = req[t].invoice THEN {EntryOf(t)} ELSE {})
<1>1. journal' = journal \cup {EntryOf(t)} /\ EntryOf(t).invoice = req[t].invoice
  BY DEF CommitPosting, EntryOf
<1> QED BY <1>1

\* Whatever edit or second posting of it was under way, a posted invoice, its
\* lines and its entry stay as they are.
THEOREM PostedStaysAsItIs == Spec => PostedIsFinal
<1> DEFINE Kept(i) == /\ invoices'[i] = invoices[i] /\ bills'[i] = bills[i]
                      /\ lineRate'[i] = lineRate[i]
                      /\ {e \in journal' : e.invoice = i} = {e \in journal : e.invoice = i}
           Step == \A i \in Posted : Kept(i)
<1>1. TypeOK /\ DocumentInv /\ [Next]_vars => Step
  <2> SUFFICES ASSUME TypeOK, DocumentInv, [Next]_vars, NEW i \in Posted
        PROVE Kept(i)
    OBVIOUS
  <2>1. ASSUME NEW j \in Invoice, NEW bill \in Bill, RaiseDraft(j, bill)
        PROVE Kept(i)
    BY <2>1 DEF RaiseDraft, Posted, TypeOK
  <2>2. ASSUME NEW t \in Txn, CommitPosting(t) PROVE Kept(i)
    <3>1. i # req[t].invoice
      BY <2>2, PostingIsOfDraft DEF CommitPosting, Posted
    <3>2. UNCHANGED <<bills, lineRate>>
      BY <2>2 DEF CommitPosting
    <3> QED BY <2>2, <3>1, <3>2, PostingRows, EntriesOfPosting DEF Posted
  <2>3. ASSUME NEW t \in Txn, CommitEdit(t) PROVE Kept(i)
    <3>1. i # req[t].invoice
      BY <2>3, PostingIsOfDraft DEF CommitEdit, Posted
    <3>2. UNCHANGED journal
      BY <2>3 DEF CommitEdit
    <3> QED BY <2>3, <3>1, <3>2, EditRows DEF Posted
  <2>4. CASE UNCHANGED <<invoices, bills, lineRate, invoiced, journal, nextValue>>
    BY <2>4
  <2> QED BY Writers, <2>1, <2>2, <2>3, <2>4
<1>2. TypeOK /\ DocumentInv /\ [Next]_vars => [Step]_vars
  BY <1>1
<1> QED BY <1>2, DocumentsHold, PTL DEF Spec, PostedIsFinal

\* The entry is written from a header read at the start, which the version
\* compared at the end shows to be that of the lines.
LEMMA EntriesStep ==
  TypeOK /\ DocumentInv /\ EntriesMatch /\ [Next]_vars => EntriesMatch'
<1> SUFFICES ASSUME TypeOK, DocumentInv, EntriesMatch, [Next]_vars
             PROVE  EntriesMatch'
  OBVIOUS
<1>1. ASSUME NEW i \in Invoice, NEW bill \in Bill, RaiseDraft(i, bill)
      PROVE  EntriesMatch'
  BY <1>1 DEF RaiseDraft, DraftRow, EntriesMatch, Posted, TypeOK
<1>2. ASSUME NEW t \in Txn, CommitPosting(t) PROVE EntriesMatch'
  <2> DEFINE i == req[t].invoice
  <2>1. /\ i \in Invoice /\ i \notin Posted /\ invoices[i] = seen[t]
        /\ invoices[i].status # "absent"
    BY <1>2, PostingIsOfDraft DEF CommitPosting, Posted
  <2>2. /\ \A j \in Invoice \ {i} : invoices'[j] = invoices[j]
        /\ invoices'[i].status = "posted"
        /\ UNCHANGED <<bills, lineRate>>
    BY <1>2, PostingRows DEF CommitPosting
  <2>3. \A j \in Invoice : {e \in journal' : e.invoice = j}
          = {e \in journal : e.invoice = j} \cup (IF j = i THEN {EntryOf(t)} ELSE {})
    BY <1>2, EntriesOfPosting
  <2>4. {e \in journal : e.invoice = i} = {}
    BY <2>1 DEF EntriesMatch
  <2>5. /\ EntryOf(t).revenue = Subtotal(bills[i])
        /\ EntryOf(t).tax = TaxTotal(bills[i], lineRate[i])
        /\ EntryOf(t).receivable = EntryOf(t).revenue + EntryOf(t).tax
    BY <2>1 DEF EntryOf, DocumentInv, TotalsInv
  <2> HIDE DEF i
  <2>6. Posted' = Posted \cup {i}
    BY <2>1, <2>2 DEF Posted
  <2> QED
    <3> SUFFICES ASSUME NEW j \in Invoice
                 PROVE  LET entries == {e \in journal' : e.invoice = j}
                        IN  IF j \in Posted'
                            THEN \E e \in entries :
                                   /\ entries = {e}
                                   /\ e.revenue = Subtotal(bills'[j])
                                   /\ e.tax = TaxTotal(bills'[j], lineRate'[j])
                                   /\ e.receivable = e.revenue + e.tax
                            ELSE entries = {}
      BY DEF EntriesMatch, Subtotal, TaxTotal
    <3>1. CASE j = i
      BY <3>1, <2>2, <2>3, <2>4, <2>5, <2>6
    <3>2. CASE j # i
      BY <3>2, <2>2, <2>3, <2>6 DEF EntriesMatch
    <3> QED BY <3>1, <3>2
<1>3. ASSUME NEW t \in Txn, CommitEdit(t) PROVE EntriesMatch'
  <2> DEFINE i == req[t].invoice
  <2>1. /\ i \in Invoice /\ invoices[i].status = "draft" /\ UNCHANGED journal
    BY <1>3, PostingIsOfDraft DEF CommitEdit
  <2>2. /\ \A j \in Invoice \ {i} : /\ invoices'[j] = invoices[j] /\ bills'[j] = bills[j]
                                    /\ lineRate'[j] = lineRate[j]
        /\ invoices'[i].status = "draft"
    BY <1>3, EditRows
  <2> HIDE DEF i
  <2>3. Posted' = Posted /\ i \notin Posted
    BY <2>1, <2>2 DEF Posted
  <2>4. ASSUME NEW j \in Posted
        PROVE  \E e \in {e \in journal : e.invoice = j} :
                 /\ {f \in journal : f.invoice = j} = {e}
                 /\ e.revenue = Subtotal(bills'[j])
                 /\ e.tax = TaxTotal(bills'[j], lineRate'[j])
                 /\ e.receivable = e.revenue + e.tax
    <3>1. bills'[j] = bills[j] /\ lineRate'[j] = lineRate[j] /\ j \in Invoice
      BY <2>2, <2>3 DEF Posted
    <3> QED BY <3>1 DEF EntriesMatch
  <2>5. \A j \in Invoice \ Posted : {e \in journal : e.invoice = j} = {}
    BY DEF EntriesMatch
  <2> QED BY <2>1, <2>3, <2>4, <2>5 DEF EntriesMatch, Subtotal, TaxTotal
<1>4. CASE UNCHANGED <<invoices, bills, lineRate, invoiced, journal, nextValue>>
  BY <1>4 DEF EntriesMatch, Posted, Subtotal, TaxTotal
<1> QED BY Writers, <1>1, <1>2, <1>3, <1>4

-----------------------------------------------------------------------------
(* No line is invoiced beyond what was ordered *)

\* What was read to be billed is what the invoice bills, as long as its header
\* is the one that was read.
BillInv ==
  \A t \in Txn :
    pc[t] = "check" \/ Consuming(t) =>
      (invoices[req[t].invoice].version = seen[t].version =>
         /\ work[t].bill = bills[req[t].invoice]
         /\ work[t].rate = lineRate[req[t].invoice])

\* What was taken is what is to be billed, and it still remains to be.
TakenInv ==
  \A t \in Txn : Consuming(t) =>
    /\ work[t].taken \cup todo[t] = Billed(work[t].bill)
    /\ \A l \in work[t].taken : invoiced[l] + work[t].bill[l] <= LineQty[l]

LEMMA BillStep == TypeOK /\ DocumentInv /\ BillInv /\ [Next]_vars => BillInv'
<1> SUFFICES ASSUME TypeOK, DocumentInv, BillInv, [Next]_vars PROVE BillInv'
  OBVIOUS
<1>1. /\ \A i \in Invoice : invoices[i].version \in Nat
      /\ \A t \in Txn : seen[t].version \in Nat /\ req[t].invoice \in Invoice
  BY VersionsType
<1>2. ASSUME NEW i \in Invoice, NEW bill \in Bill, RaiseDraft(i, bill)
      PROVE BillInv'
  <2>1. \A t \in Txn : pc[t] = "check" \/ Consuming(t) => req[t].invoice # i
    BY <1>2 DEF RaiseDraft, DocumentInv, HeaderInv, HasRead, Consuming
  <2> QED BY <1>2, <1>1, <2>1 DEF RaiseDraft, BillInv, Consuming, TypeOK
<1>3. ASSUME NEW o \in Order, CancelOrder(o) PROVE BillInv'
  BY <1>3, <1>1 DEF CancelOrder, BillInv, Consuming, TypeOK
<1>4. CASE RateMoves
  BY <1>4, <1>1 DEF RateMoves, tables, BillInv, Consuming, TypeOK
<1>5. ASSUME NEW t \in Txn, Begin(t) PROVE BillInv'
  BY <1>5, <1>1 DEF Begin, GoTo, db, tables, DocumentInv, ControlInv, StageInv,
     BillInv, Consuming, TypeOK
<1>6. ASSUME NEW t \in Txn, Read(t) PROVE BillInv'
  BY <1>6, <1>1 DEF Read, GoTo, db, tables, BillInv, Consuming, TypeOK
<1>7. ASSUME NEW t \in Txn, ReadLines(t) PROVE BillInv'
  BY <1>7, <1>1 DEF ReadLines, GoTo, db, tables, BillInv, Consuming, TypeOK
<1>8. ASSUME NEW t \in Txn, Check(t) PROVE BillInv'
  BY <1>8, <1>1 DEF Check, GoTo, db, tables, BillInv, Consuming, TypeOK
<1>9. ASSUME NEW t \in Txn, Consume(t) PROVE BillInv'
  BY <1>9, <1>1 DEF Consume, GoTo, db, tables, BillInv, Consuming, TypeOK
<1>10. ASSUME NEW t \in Txn, Counter(t) PROVE BillInv'
  BY <1>10, <1>1 DEF Counter, GoTo, db, tables, BillInv, Consuming, TypeOK
<1>11. ASSUME NEW t \in Txn, Header(t) PROVE BillInv'
  BY <1>11, <1>1 DEF Header, GoTo, db, tables, BillInv, Consuming, TypeOK
<1>12. ASSUME NEW t \in Txn, CommitPosting(t) PROVE BillInv'
  <2>0. UNCHANGED <<bills, lineRate>>
    BY <1>12 DEF CommitPosting
  <2> DEFINE i == req[t].invoice
  <2>1. /\ \A j \in Invoice \ {i} : /\ invoices'[j] = invoices[j]
                                     /\ bills'[j] = bills[j] /\ lineRate'[j] = lineRate[j]
        /\ invoices'[i].version = invoices[i].version + 1
        /\ i \in Invoice
    BY <1>12, <2>0, PostingRows
  <2>2. /\ pc' = [pc EXCEPT ![t] = "answered"] /\ UNCHANGED req
        /\ seen' = [seen EXCEPT ![t] = NoInvoice]
        /\ work' = [work EXCEPT ![t] = NoWork]
    BY <1>12 DEF CommitPosting, End
  <2> HIDE DEF i
  <2>3. ASSUME NEW u \in Txn \ {t}, pc[u] = "check" \/ Consuming(u), req[u].invoice = i
        PROVE  seen[u].version < invoices'[i].version
    BY <1>1, <2>1, <2>3 DEF DocumentInv, HeaderInv, HasRead, Consuming
  <2>4. pc'[t] # "check" /\ ~Consuming(t)'
    BY <2>2 DEF Consuming, TypeOK
  <2>5. ASSUME NEW u \in Txn \ {t}, pc'[u] = "check" \/ Consuming(u)',
               invoices'[req'[u].invoice].version = seen'[u].version
        PROVE  /\ work'[u].bill = bills'[req'[u].invoice]
               /\ work'[u].rate = lineRate'[req'[u].invoice]
    <3>1. req'[u] = req[u] /\ seen'[u] = seen[u] /\ work'[u] = work[u]
      BY <2>2, <2>5 DEF Consuming, TypeOK
    <3>2. pc[u] = "check" \/ Consuming(u)
      BY <2>2, <2>5 DEF Consuming, TypeOK
    <3>3. req[u].invoice # i
      BY <1>1, <2>1, <2>3, <2>5, <3>1, <3>2
    <3>4. req[u].invoice \in Invoice
      BY <1>1
    <3> QED BY <2>1, <2>5, <3>1, <3>2, <3>3, <3>4 DEF BillInv
  <2> QED BY <2>4, <2>5 DEF BillInv
<1>13. ASSUME NEW t \in Txn, Derive(t) PROVE BillInv'
  BY <1>13, <1>1 DEF Derive, GoTo, db, tables, DocumentInv, ControlInv, StageInv,
     BillInv, Consuming, TypeOK
<1>14. ASSUME NEW t \in Txn, LockDraft(t) PROVE BillInv'
  BY <1>14, <1>1 DEF LockDraft, GoTo, db, tables, DocumentInv, ControlInv, StageInv,
     BillInv, Consuming, TypeOK
<1>15. ASSUME NEW t \in Txn, CommitEdit(t) PROVE BillInv'
  <2> DEFINE i == req[t].invoice
  <2>1. /\ \A j \in Invoice \ {i} : /\ invoices'[j] = invoices[j]
                                     /\ bills'[j] = bills[j] /\ lineRate'[j] = lineRate[j]
        /\ invoices'[i].version = invoices[i].version + 1
        /\ i \in Invoice
    BY <1>15, EditRows
  <2>2. /\ pc' = [pc EXCEPT ![t] = "answered"] /\ UNCHANGED req
        /\ seen' = [seen EXCEPT ![t] = NoInvoice]
        /\ work' = [work EXCEPT ![t] = NoWork]
    BY <1>15 DEF CommitEdit, End
  <2> HIDE DEF i
  <2>3. ASSUME NEW u \in Txn \ {t}, pc[u] = "check" \/ Consuming(u), req[u].invoice = i
        PROVE  seen[u].version < invoices'[i].version
    BY <1>1, <2>1, <2>3 DEF DocumentInv, HeaderInv, HasRead, Consuming
  <2>4. pc'[t] # "check" /\ ~Consuming(t)'
    BY <2>2 DEF Consuming, TypeOK
  <2>5. ASSUME NEW u \in Txn \ {t}, pc'[u] = "check" \/ Consuming(u)',
               invoices'[req'[u].invoice].version = seen'[u].version
        PROVE  /\ work'[u].bill = bills'[req'[u].invoice]
               /\ work'[u].rate = lineRate'[req'[u].invoice]
    <3>1. req'[u] = req[u] /\ seen'[u] = seen[u] /\ work'[u] = work[u]
      BY <2>2, <2>5 DEF Consuming, TypeOK
    <3>2. pc[u] = "check" \/ Consuming(u)
      BY <2>2, <2>5 DEF Consuming, TypeOK
    <3>3. req[u].invoice # i
      BY <1>1, <2>1, <2>3, <2>5, <3>1, <3>2
    <3>4. req[u].invoice \in Invoice
      BY <1>1
    <3> QED BY <2>1, <2>5, <3>1, <3>2, <3>3, <3>4 DEF BillInv
  <2> QED BY <2>4, <2>5 DEF BillInv
<1>16. ASSUME NEW t \in Txn, RollsBack(t) PROVE BillInv'
  <2>1. /\ pc' \in {[pc EXCEPT ![t] = how] : how \in Final} /\ UNCHANGED <<req, db>>
        /\ seen' = [seen EXCEPT ![t] = NoInvoice]
        /\ work' = [work EXCEPT ![t] = NoWork]
    BY <1>16 DEF RollsBack, End, Final
  <2>2. ~Consuming(t)' /\ pc'[t] # "check"
    BY <2>1, <1>1 DEF Final, Consuming, TypeOK
  <2> QED BY <1>1, <2>1, <2>2 DEF db, tables, BillInv, Consuming, TypeOK
<1>17. CASE UNCHANGED vars
  BY <1>17, <1>1 DEF vars, db, tables, locks, BillInv, Consuming, TypeOK
<1> QED
  BY Steps, <1>2, <1>3, <1>4, <1>5, <1>6, <1>7, <1>8, <1>9, <1>10, <1>11,
     <1>12, <1>13, <1>14, <1>15, <1>16, <1>17

\* The rate of a posting's lines is one the company had since the posting arrived:
\* until it has checked, the rate of the moment is among those it looks for.
InForceInv ==
  /\ \A t \in Txn :
       /\ Unchecked(t) => rate \in inForce[t]
       /\ Consuming(t) => work[t].rate \in inForce[t]
  /\ \A e \in journal : pc[e.by] = "answered"

LEMMA InForceStep ==
  TypeOK /\ DocumentInv /\ InForceInv /\ [Next]_vars => InForceInv'
<1> SUFFICES ASSUME TypeOK, DocumentInv, InForceInv, [Next]_vars PROVE InForceInv'
  OBVIOUS
<1>0. \A e \in journal : e.by \in Txn
  BY DEF TypeOK, JournalEntry
<1>1. ASSUME NEW i \in Invoice, NEW bill \in Bill, RaiseDraft(i, bill) PROVE InForceInv'
  BY <1>1 DEF RaiseDraft, InForceInv, Unchecked, Consuming
<1>2. ASSUME NEW o \in Order, CancelOrder(o) PROVE InForceInv'
  BY <1>2 DEF CancelOrder, InForceInv, Unchecked, Consuming
<1>3. CASE RateMoves
  BY <1>3 DEF RateMoves, tables, InForceInv, Unchecked, Consuming, TypeOK
<1>4. ASSUME NEW t \in Txn, Begin(t) PROVE InForceInv'
  <2>1. /\ pc[t] = "idle" /\ pc' = [pc EXCEPT ![t] = "read"]
        /\ inForce' = [inForce EXCEPT ![t] = IF req'[t].op = "post" THEN {rate} ELSE {}]
        /\ UNCHANGED <<rate, journal, work>>
        /\ \A u \in Txn \ {t} : req'[u] = req[u]
    BY <1>4 DEF Begin, GoTo, tables, TypeOK
  <2> QED BY <1>0, <2>1 DEF InForceInv, Unchecked, Consuming, TypeOK
<1>5. ASSUME NEW t \in Txn,
             Read(t) \/ ReadLines(t) \/ Check(t) \/ Consume(t) \/ Counter(t)
               \/ Header(t) \/ Derive(t) \/ LockDraft(t)
      PROVE  InForceInv'
  <2>1. /\ UNCHANGED <<rate, inForce, journal, req>>
        /\ pc[t] \notin Final
        /\ \A u \in Txn \ {t} : pc'[u] = pc[u] /\ work'[u] = work[u]
    <3>1. CASE Read(t) \/ Check(t) \/ Header(t) \/ LockDraft(t)
      BY <3>1 DEF Read, Check, Header, LockDraft, GoTo, db, tables, Final, TypeOK
    <3>2. CASE ReadLines(t) \/ Derive(t)
      BY <3>2 DEF ReadLines, Derive, GoTo, db, tables, Final, TypeOK
    <3>3. CASE Consume(t)
      BY <3>3 DEF Consume, GoTo, db, tables, Final, TypeOK
    <3>4. CASE Counter(t)
      BY <3>4 DEF Counter, GoTo, db, tables, Final, TypeOK
    <3> QED BY <1>5, <3>1, <3>2, <3>3, <3>4
  <2>2. \A e \in journal : e.by # t
    BY <2>1 DEF InForceInv, Final
  <2>3. Unchecked(t)' => Unchecked(t)
    BY <1>5, <2>1 DEF Read, ReadLines, Check, Consume, Counter, Header, Derive, LockDraft,
       GoTo, Unchecked, TypeOK
  <2>4. Consuming(t)' => work'[t].rate \in inForce[t]
    <3>1. CASE Check(t)
      <4>1. req[t].op = "post" /\ pc[t] = "check"
        BY <3>1 DEF Check, DocumentInv, ControlInv, StageInv
      <4>2. work[t].rate = rate /\ UNCHANGED work
        BY <3>1 DEF Check, Postable
      <4> QED BY <4>1, <4>2 DEF InForceInv, Unchecked
    <3>2. CASE Consume(t) \/ Counter(t) \/ Header(t)
      <4>1. Consuming(t)
        BY <3>2 DEF Consume, Counter, Header, Consuming
      <4>2. work'[t].rate = work[t].rate
        BY <3>2 DEF Consume, Counter, Header, TypeOK, Work
      <4> QED BY <4>1, <4>2 DEF InForceInv
    <3>3. CASE Read(t) \/ ReadLines(t) \/ Derive(t) \/ LockDraft(t)
      BY <3>3, <2>1 DEF Read, ReadLines, Derive, LockDraft, GoTo, Consuming, DocumentInv,
         ControlInv, StageInv, TypeOK
    <3> QED BY <1>5, <3>1, <3>2, <3>3
  <2> QED BY <1>0, <2>1, <2>2, <2>3, <2>4 DEF InForceInv, Unchecked, Consuming
<1>6. ASSUME NEW t \in Txn, CommitPosting(t) \/ CommitEdit(t) \/ RollsBack(t)
      PROVE  InForceInv'
  <2>1. PICK how \in Final : pc' = [pc EXCEPT ![t] = how] /\ UNCHANGED req
    BY <1>6 DEF CommitPosting, CommitEdit, RollsBack, End, Final
  <2>2. /\ UNCHANGED <<rate, inForce>>
        /\ \A u \in Txn \ {t} : work'[u] = work[u]
    BY <1>6 DEF CommitPosting, CommitEdit, RollsBack, End, db, TypeOK
  <2>3. ~Unchecked(t)' /\ ~Consuming(t)'
    BY <2>1 DEF Final, Unchecked, Consuming, TypeOK
  <2>4. \A e \in journal' : pc'[e.by] = "answered"
    <3>1. CASE CommitPosting(t)
      <4>1. journal' = journal \cup {EntryOf(t)} /\ EntryOf(t).by = t
        BY <3>1 DEF CommitPosting, EntryOf
      <4>2. pc' = [pc EXCEPT ![t] = "answered"]
        BY <3>1 DEF CommitPosting, End
      <4> QED BY <1>0, <4>1, <4>2 DEF InForceInv, TypeOK
    <3>2. CASE CommitEdit(t)
      <4>1. UNCHANGED journal /\ pc' = [pc EXCEPT ![t] = "answered"]
        BY <3>2 DEF CommitEdit, End
      <4> QED BY <1>0, <4>1 DEF InForceInv, TypeOK
    <3>3. CASE RollsBack(t)
      <4>1. UNCHANGED journal /\ pc[t] # "answered"
        BY <3>3 DEF RollsBack, Final, db, tables
      <4> QED BY <1>0, <2>1, <4>1 DEF InForceInv, TypeOK
    <3> QED BY <1>6, <3>1, <3>2, <3>3
  <2> QED BY <2>1, <2>2, <2>3, <2>4 DEF InForceInv, Unchecked, Consuming, TypeOK
<1>7. CASE UNCHANGED vars
  BY <1>7 DEF vars, db, tables, InForceInv, Unchecked, Consuming
<1> QED BY Steps, <1>1, <1>2, <1>3, <1>4, <1>5, <1>6, <1>7

\* Only a draft changes its rate, and a draft has no entry.
LEMMA TaxedStep ==
  ASSUME TypeOK, DocumentInv, BillInv, InForceInv, EntriesMatch, TaxedInForce, [Next]_vars
  PROVE  TaxedInForce'
<1>0. \A e \in journal : /\ e.by \in Txn /\ e.invoice \in Posted
                         /\ pc[e.by] = "answered"
  BY DEF TypeOK, JournalEntry, EntriesMatch, InForceInv
<1>1. ASSUME NEW i \in Invoice, NEW bill \in Bill, RaiseDraft(i, bill) PROVE TaxedInForce'
  BY <1>0, <1>1 DEF RaiseDraft, TaxedInForce, Posted, TypeOK
<1>2. ASSUME NEW t \in Txn, CommitPosting(t) PROVE TaxedInForce'
  <2>1. /\ journal' = journal \cup {EntryOf(t)}
        /\ EntryOf(t).by = t /\ EntryOf(t).invoice = req[t].invoice
        /\ UNCHANGED <<lineRate, inForce>>
    BY <1>2 DEF CommitPosting, EntryOf
  <2>2. Consuming(t) /\ invoices[req[t].invoice] = seen[t]
    BY <1>2, PostingIsOfDraft DEF CommitPosting, Consuming
  <2>3. lineRate[req[t].invoice] \in inForce[t]
    BY <2>2 DEF BillInv, InForceInv
  <2> QED BY <2>1, <2>3 DEF TaxedInForce
<1>3. ASSUME NEW t \in Txn, CommitEdit(t) PROVE TaxedInForce'
  <2>1. /\ req[t].invoice \notin Posted /\ UNCHANGED <<journal, inForce>>
        /\ \A j \in Invoice \ {req[t].invoice} : lineRate'[j] = lineRate[j]
    BY <1>3, PostingIsOfDraft, EditRows DEF CommitEdit, Posted
  <2> QED BY <1>0, <2>1 DEF TaxedInForce, Posted
<1>4. CASE RateMoves
  BY <1>0, <1>4 DEF RateMoves, tables, TaxedInForce
<1>5. ASSUME NEW t \in Txn, Begin(t) PROVE TaxedInForce'
  <2>1. /\ \A e \in journal : inForce'[e.by] = inForce[e.by]
        /\ UNCHANGED <<journal, lineRate>>
    BY <1>0, <1>5 DEF Begin, tables, TypeOK
  <2> QED BY <2>1 DEF TaxedInForce
<1>6. CASE UNCHANGED <<journal, lineRate, inForce>>
  BY <1>6 DEF TaxedInForce
<1> QED
  BY Steps, <1>1, <1>2, <1>3, <1>4, <1>5, <1>6 DEF CancelOrder, Read, ReadLines, Check,
     Consume, Counter, Header, Derive, LockDraft, RollsBack, vars, db, tables

\* A posted invoice has one entry, with the amounts its lines come to, and any
\* other invoice none; and it is taxed at a rate the company had after its posting
\* was asked for, however long before the draft was made.
THEOREM LedgerIsTrue == Spec => []LedgerMatchesDocuments
<1>1. Init => BillInv /\ InForceInv /\ LedgerMatchesDocuments
  BY DEF Init, BillInv, InForceInv, Unchecked, Consuming, LedgerMatchesDocuments,
     EntriesMatch, TaxedInForce, Posted, NoInvoice
<1>2. TypeOK /\ DocumentInv /\ BillInv /\ InForceInv /\ LedgerMatchesDocuments /\ [Next]_vars
        => (BillInv /\ InForceInv /\ LedgerMatchesDocuments)'
  BY BillStep, InForceStep, EntriesStep, TaxedStep DEF LedgerMatchesDocuments
<1> QED BY <1>1, <1>2, DocumentsHold, PTL DEF Spec

LEMMA QuantitiesType ==
  TypeOK => \A l \in Line : /\ invoiced[l] \in Nat /\ LineQty[l] \in Nat
                            /\ \A t \in Txn : work[t].bill[l] \in Nat
                            /\ \A i \in Invoice : bills[i][l] \in Nat
<1> SUFFICES ASSUME TypeOK, NEW l \in Line
             PROVE  /\ invoiced[l] \in Nat /\ LineQty[l] \in Nat
                    /\ \A t \in Txn : work[t].bill[l] \in Nat
                    /\ \A i \in Invoice : bills[i][l] \in Nat
  OBVIOUS
<1>1. \A bill \in Bill : bill[l] \in Nat
  BY ConstantsAssumption DEF Bill
<1>2. \A t \in Txn : work[t].bill \in Bill
  BY DEF TypeOK, Work
<1> QED BY <1>1, <1>2, ConstantsAssumption DEF TypeOK

LEMMA TakenStep == TypeOK /\ DocumentInv /\ TakenInv /\ [Next]_vars => TakenInv'
<1> SUFFICES ASSUME TypeOK, DocumentInv, TakenInv, [Next]_vars PROVE TakenInv'
  OBVIOUS
<1>1. /\ \A t \in Txn : work[t].taken \in SUBSET Line
      /\ \A l \in Line : /\ invoiced[l] \in Nat /\ LineQty[l] \in Nat
                         /\ \A t \in Txn : work[t].bill[l] \in Nat
  BY RequestsType, QuantitiesType
<1>2. ASSUME NEW i \in Invoice, NEW bill \in Bill, RaiseDraft(i, bill)
      PROVE TakenInv'
  BY <1>2, <1>1 DEF RaiseDraft, DraftRow, TakenInv, Consuming, Billed, TypeOK
<1>3. ASSUME NEW o \in Order, CancelOrder(o) PROVE TakenInv'
  BY <1>3, <1>1 DEF CancelOrder, TakenInv, Consuming, Billed, TypeOK
<1>4. CASE RateMoves
  BY <1>4, <1>1 DEF RateMoves, tables, TakenInv, Consuming, Billed, TypeOK
<1>5. ASSUME NEW t \in Txn, Begin(t) PROVE TakenInv'
  BY <1>5, <1>1 DEF Begin, GoTo, db, tables, DocumentInv, ControlInv, StageInv,
     TakenInv, Consuming, Billed, TypeOK
<1>6. ASSUME NEW t \in Txn, Read(t) PROVE TakenInv'
  BY <1>6, <1>1 DEF Read, GoTo, db, tables, TakenInv, Consuming, Billed, TypeOK
<1>7. ASSUME NEW t \in Txn, ReadLines(t) PROVE TakenInv'
  BY <1>7, <1>1 DEF ReadLines, GoTo, db, tables, TakenInv, Consuming, Billed, TypeOK
<1>8. ASSUME NEW t \in Txn, Check(t) PROVE TakenInv'
  BY <1>8, <1>1 DEF Check, GoTo, db, tables, DocumentInv, ControlInv, LockInv,
     TakenInv, Consuming, Billed, TypeOK
<1>9. ASSUME NEW t \in Txn, Consume(t) PROVE TakenInv'
  <2>1. PICK l \in Line :
          /\ l \in todo[t] /\ Remains(l, work[t].bill[l])
          /\ work' = [work EXCEPT ![t].taken = @ \cup {l}]
          /\ todo' = [todo EXCEPT ![t] = @ \ {l}]
    BY <1>9 DEF Consume, IsNextLine
  <2>2. /\ \A u \in Txn \ {t} : work'[u] = work[u] /\ todo'[u] = todo[u]
        /\ work'[t].taken = work[t].taken \cup {l}
        /\ work'[t].bill = work[t].bill
        /\ todo'[t] = todo[t] \ {l}
    BY <2>1 DEF TypeOK, Work
  <2>3. invoiced[l] + work[t].bill[l] <= LineQty[l]
    BY <1>1, <2>1 DEF Remains
  <2>4. /\ Consuming(t) /\ UNCHANGED <<invoiced, req>>
        /\ \A u \in Txn \ {t} : pc'[u] = pc[u]
    BY <1>9 DEF Consume, GoTo, db, tables, Consuming, TypeOK
  <2>5. work'[t].taken \cup todo'[t] = Billed(work'[t].bill)
    BY <2>1, <2>2, <2>4 DEF TakenInv
  <2> QED BY <2>2, <2>3, <2>4, <2>5 DEF TakenInv, Consuming, Billed
<1>10. ASSUME NEW t \in Txn, Counter(t) PROVE TakenInv'
  BY <1>10, <1>1 DEF Counter, GoTo, db, tables, TakenInv, Consuming, Billed, TypeOK
<1>11. ASSUME NEW t \in Txn, Header(t) PROVE TakenInv'
  BY <1>11, <1>1 DEF Header, GoTo, db, tables, TakenInv, Consuming, Billed, TypeOK
<1>12. ASSUME NEW t \in Txn, CommitPosting(t) PROVE TakenInv'
  <2>1. /\ pc' = [pc EXCEPT ![t] = "answered"] /\ UNCHANGED req
        /\ todo' = [todo EXCEPT ![t] = {}]
        /\ work' = [work EXCEPT ![t] = NoWork]
    BY <1>12 DEF CommitPosting, End
  <2>2. ASSUME NEW u \in Txn \ {t}, NEW l \in work[u].taken
        PROVE  invoiced'[l] = invoiced[l]
    BY <1>12, <1>1 DEF CommitPosting, DocumentInv, ControlInv, LockInv, TypeOK
  <2> QED BY <1>1, <2>1, <2>2 DEF TakenInv, Consuming, Billed, TypeOK
<1>13. ASSUME NEW t \in Txn, Derive(t) PROVE TakenInv'
  BY <1>13, <1>1 DEF Derive, GoTo, db, tables, DocumentInv, ControlInv, StageInv,
     TakenInv, Consuming, Billed, TypeOK
<1>14. ASSUME NEW t \in Txn, LockDraft(t) PROVE TakenInv'
  BY <1>14, <1>1 DEF LockDraft, GoTo, db, tables, DocumentInv, ControlInv, StageInv,
     TakenInv, Consuming, Billed, TypeOK
<1>15. ASSUME NEW t \in Txn, CommitEdit(t) PROVE TakenInv'
  BY <1>15, <1>1 DEF CommitEdit, End, NoWork, TakenInv, Consuming, Billed,
     TypeOK
<1>16. ASSUME NEW t \in Txn, RollsBack(t) PROVE TakenInv'
  BY <1>16, <1>1 DEF RollsBack, End, Final, db, tables, NoWork, TakenInv, Consuming,
     Billed, TypeOK
<1>17. CASE UNCHANGED vars
  BY <1>17, <1>1 DEF vars, db, tables, locks, TakenInv, Consuming, Billed, TypeOK
<1> QED
  BY Steps, <1>2, <1>3, <1>4, <1>5, <1>6, <1>7, <1>8, <1>9, <1>10, <1>11,
     <1>12, <1>13, <1>14, <1>15, <1>16, <1>17

\* The sum over the posted invoices is a sum of finitely many.
PostedFinite == IsFiniteSet(Posted)

ConsumptionInv == BillInv /\ TakenInv /\ PostedFinite /\ NeverOverInvoiced

\* What a posting takes of a line is what its invoice bills of it, and was
\* still there when the line was locked.
LEMMA PostingConsumes ==
  ASSUME TypeOK, DocumentInv, BillInv, TakenInv, NEW t \in Txn, CommitPosting(t),
         NEW i, i = req[t].invoice, NEW l \in Line
  PROVE  /\ invoiced'[l] = invoiced[l] + bills[i][l]
         /\ bills[i][l] > 0 => invoiced'[l] <= LineQty[l]
<1>1. /\ pc[t] = "commit" /\ Consuming(t)
      /\ invoiced'[l] = IF l \in work[t].taken THEN invoiced[l] + work[t].bill[l]
                                               ELSE invoiced[l]
  BY DEF CommitPosting, Consuming
<1>2. i \in Invoice /\ invoices[i] = seen[t]
  BY <1>1, PostingIsOfDraft DEF CommitPosting
<1>3. work[t].bill = bills[i]
  BY <1>1, <1>2 DEF BillInv
<1>4. todo[t] = {}
  BY <1>1 DEF DocumentInv, ControlInv, OrderInv
<1>5. work[t].taken = Billed(bills[i])
  BY <1>1, <1>3, <1>4 DEF TakenInv
<1>6. l \in work[t].taken => invoiced[l] + bills[i][l] <= LineQty[l]
  BY <1>1, <1>3 DEF TakenInv
<1>7. l \in work[t].taken <=> bills[i][l] > 0
  BY <1>5 DEF Billed
<1>8. invoiced[l] \in Nat /\ bills[i][l] \in Nat
  BY <1>2, QuantitiesType
<1> QED BY <1>1, <1>3, <1>6, <1>7, <1>8

LEMMA InvoicedStep ==
  /\ TypeOK /\ DocumentInv /\ BillInv /\ TakenInv /\ PostedFinite /\ NeverOverInvoiced
  /\ [Next]_vars
  => PostedFinite' /\ NeverOverInvoiced'
<1> SUFFICES ASSUME TypeOK, DocumentInv, BillInv, TakenInv, PostedFinite,
                    NeverOverInvoiced, [Next]_vars
             PROVE  PostedFinite' /\ NeverOverInvoiced'
  OBVIOUS
<1> DEFINE Billing(l) == [j \in Invoice |-> bills[j][l]]
\* Whatever leaves the posted invoices and their lines alone.
<1>1. ASSUME Posted' = Posted, invoiced' = invoiced,
             \A j \in Posted : bills'[j] = bills[j]
      PROVE  PostedFinite' /\ NeverOverInvoiced'
  <2> SUFFICES ASSUME NEW l \in Line
               PROVE  /\ Total(Posted', Billing(l)') = invoiced'[l]
                      /\ invoiced'[l] <= LineQty[l]
    BY <1>1 DEF PostedFinite, NeverOverInvoiced, Total, Units
  <2>1. \A j \in Posted : Billing(l)'[j] = Billing(l)[j]
    BY <1>1 DEF Posted
  <2>2. Total(Posted, Billing(l)') = Total(Posted, Billing(l))
    <3> DEFINE p == Billing(l)'
               q == Billing(l)
    <3>1. \A j \in Posted : p[j] = q[j]
      BY <2>1
    <3> HIDE DEF p, q
    <3>2. Total(Posted, p) = Total(Posted, q)
      BY <3>1, TotalCongruence
    <3> QED BY <3>2 DEF p, q
  <2> QED BY <1>1, <2>2 DEF NeverOverInvoiced
<1>2. ASSUME NEW i \in Invoice, NEW bill \in Bill, RaiseDraft(i, bill)
      PROVE  PostedFinite' /\ NeverOverInvoiced'
  <2>1. Posted' = Posted /\ i \notin Posted
    BY <1>2 DEF RaiseDraft, DraftRow, Posted, TypeOK
  <2> QED BY <1>1, <1>2, <2>1 DEF RaiseDraft, Posted, TypeOK
<1>3. ASSUME NEW t \in Txn, CommitPosting(t)
      PROVE PostedFinite' /\ NeverOverInvoiced'
  <2> DEFINE i == req[t].invoice
  <2>1. /\ i \in Invoice /\ i \notin Posted
    BY <1>3, PostingIsOfDraft DEF CommitPosting, Posted
  <2>2. /\ \A j \in Invoice \ {i} : invoices'[j] = invoices[j]
        /\ invoices'[i].status = "posted"
        /\ bills' = bills
    BY <1>3, PostingRows DEF CommitPosting
  <2>3. \A l \in Line : /\ invoiced'[l] = invoiced[l] + bills[i][l]
                        /\ bills[i][l] > 0 => invoiced'[l] <= LineQty[l]
    BY <1>3, PostingConsumes
  <2> HIDE DEF i
  <2>4. Posted' = Posted \cup {i}
    BY <2>1, <2>2 DEF Posted
  <2>5. PostedFinite'
    BY <2>4, FS_AddElement DEF PostedFinite
  <2>6. ASSUME NEW l \in Line
        PROVE  /\ Total(Posted', Billing(l)') = invoiced'[l]
               /\ invoiced'[l] <= LineQty[l]
    <3>1. /\ \A j \in Invoice : bills[j][l] \in Nat
          /\ invoiced[l] \in Nat /\ LineQty[l] \in Nat
      BY QuantitiesType
    <3>2. \A j \in Posted \cup {i} : Billing(l)[j] \in Nat
      BY <2>1, <3>1 DEF Posted
    <3>3. Total(Posted \cup {i}, Billing(l)) = Total(Posted, Billing(l)) + Billing(l)[i]
      <4> HIDE DEF Billing
      <4> QED BY <2>1, <3>2, TotalAdd DEF PostedFinite
    <3>4. Total(Posted, Billing(l)) = invoiced[l] /\ invoiced[l] <= LineQty[l]
      BY DEF NeverOverInvoiced
    <3>5. Billing(l)' = Billing(l) /\ Billing(l)[i] = bills[i][l]
      BY <2>1, <2>2
    <3>6. Total(Posted', Billing(l)') = invoiced[l] + bills[i][l]
      BY <2>4, <3>3, <3>4, <3>5
    <3> QED BY <2>1, <2>3, <3>1, <3>4, <3>6
  <2> QED BY <2>5, <2>6 DEF NeverOverInvoiced, Total, Units
<1>4. ASSUME NEW t \in Txn, CommitEdit(t)
      PROVE PostedFinite' /\ NeverOverInvoiced'
  <2> DEFINE i == req[t].invoice
  <2>1. /\ i \in Invoice /\ invoices[i].status = "draft" /\ UNCHANGED invoiced
    BY <1>4, PostingIsOfDraft DEF CommitEdit
  <2>2. /\ \A j \in Invoice \ {i} : invoices'[j] = invoices[j] /\ bills'[j] = bills[j]
        /\ invoices'[i].status = "draft"
    BY <1>4, EditRows
  <2> HIDE DEF i
  <2>3. Posted' = Posted /\ i \notin Posted
    BY <2>1, <2>2 DEF Posted
  <2> QED BY <1>1, <2>1, <2>2, <2>3 DEF Posted
<1>5. CASE UNCHANGED <<invoices, bills, lineRate, invoiced, journal, nextValue>>
  BY <1>1, <1>5 DEF Posted
<1> QED BY Writers, <1>2, <1>3, <1>4, <1>5

LEMMA ConsumptionInit == Init => ConsumptionInv
<1> SUFFICES ASSUME Init PROVE ConsumptionInv
  OBVIOUS
<1>1. BillInv /\ TakenInv
  BY DEF Init, BillInv, TakenInv, Consuming
<1>2. Posted = {}
  BY DEF Init, Posted, NoInvoice
<1>3. PostedFinite
  BY <1>2, FS_EmptySet DEF PostedFinite
<1>4. NeverOverInvoiced
  <2> SUFFICES ASSUME NEW l \in Line
              
                     PROVE  /\ Total(Posted, [j \in Invoice |-> bills[j][l]]) = invoiced[l]
                      /\ invoiced[l] <= LineQty[l]
    BY DEF NeverOverInvoiced
  <2>1. invoiced[l] = 0 /\ LineQty[l] \in Nat
    BY ConstantsAssumption DEF Init
  <2> QED BY <1>2, <2>1, TotalEmpty
<1> QED BY <1>1, <1>3, <1>4 DEF ConsumptionInv

\* However many drafts bill the same remainder and however their postings
\* overlap, a line's invoiced quantity is the sum over the posted invoices and
\* never more than was ordered.
THEOREM NothingIsOverInvoiced == Spec => []NeverOverInvoiced
<1>1. TypeOK /\ DocumentInv /\ ConsumptionInv /\ [Next]_vars => ConsumptionInv'
  BY BillStep, TakenStep, InvoicedStep DEF ConsumptionInv
<1>2. Spec => []ConsumptionInv
  BY <1>1, ConsumptionInit, DocumentsHold, PTL DEF Spec
<1>3. ConsumptionInv => NeverOverInvoiced
  BY DEF ConsumptionInv
<1> QED BY <1>2, <1>3, PTL

-----------------------------------------------------------------------------
(* Every posting is atomic: InvoicePosting implements InvoiceBook *)

\* An invoice that was never raised bills nothing.
AbsentInv ==
  \A i \in Invoice : invoices[i].status = "absent" =>
    invoices[i].version = 0 /\ bills[i] = NoBill

\* A posting that has passed its checks has something to post.
CheckedInv ==
  \A t \in Txn : Consuming(t) => seen[t].subtotal + seen[t].taxTotal > 0

LEMMA AbsentStep == TypeOK /\ DocumentInv /\ AbsentInv /\ [Next]_vars => AbsentInv'
<1> SUFFICES ASSUME TypeOK, DocumentInv, AbsentInv, [Next]_vars PROVE AbsentInv'
  OBVIOUS
<1>1. ASSUME NEW i \in Invoice, NEW bill \in Bill, RaiseDraft(i, bill)
      PROVE  AbsentInv'
  BY <1>1 DEF RaiseDraft, DraftRow, AbsentInv, TypeOK
<1>2. ASSUME NEW t \in Txn, CommitPosting(t) PROVE AbsentInv'
  <2>1. UNCHANGED bills
    BY <1>2 DEF CommitPosting
  <2> QED BY <1>2, <2>1, PostingRows DEF AbsentInv
<1>3. ASSUME NEW t \in Txn, CommitEdit(t) PROVE AbsentInv'
  BY <1>3, EditRows DEF AbsentInv
<1>4. CASE UNCHANGED <<invoices, bills, lineRate, invoiced, journal, nextValue>>
  BY <1>4 DEF AbsentInv
<1> QED BY Writers, <1>1, <1>2, <1>3, <1>4

LEMMA CheckedStep == TypeOK /\ ControlInv /\ CheckedInv /\ [Next]_vars => CheckedInv'
<1> SUFFICES ASSUME TypeOK, ControlInv, CheckedInv, [Next]_vars PROVE CheckedInv'
  OBVIOUS
<1>1. ASSUME UNCHANGED <<pc, req, seen>> PROVE CheckedInv'
  BY <1>1 DEF CheckedInv, Consuming
<1>2. ASSUME NEW t \in Txn,
             \/ Begin(t) \/ Read(t) \/ ReadLines(t) \/ Derive(t) \/ LockDraft(t)
      PROVE  CheckedInv'
  BY <1>2 DEF Begin, Read, ReadLines, Derive, LockDraft, GoTo, ControlInv, StageInv,
     CheckedInv, Consuming, TypeOK
<1>3. ASSUME NEW t \in Txn, Check(t) PROVE CheckedInv'
  BY <1>3 DEF Check, Postable, GoTo, CheckedInv, Consuming, TypeOK
<1>4. ASSUME NEW t \in Txn, Consume(t) \/ Counter(t) \/ Header(t) PROVE CheckedInv'
  <2>1. /\ Consuming(t) /\ UNCHANGED <<req, seen>>
        /\ \A u \in Txn \ {t} : pc'[u] = pc[u]
    BY <1>4 DEF Consume, Counter, Header, GoTo, Consuming, ControlInv, StageInv, TypeOK
  <2> QED BY <2>1 DEF CheckedInv, Consuming
<1>5. ASSUME NEW t \in Txn, CommitPosting(t) \/ CommitEdit(t) \/ RollsBack(t)
      PROVE  CheckedInv'
  BY <1>5 DEF CommitPosting, CommitEdit, RollsBack, End, Final, CheckedInv, Consuming,
     TypeOK
<1>6. ASSUME NEW i \in Invoice, NEW bill \in Bill, RaiseDraft(i, bill)
      PROVE  UNCHANGED <<pc, req, seen>>
  BY <1>6 DEF RaiseDraft
<1>7. CASE (\E o \in Order : CancelOrder(o)) \/ RateMoves \/ UNCHANGED vars
  BY <1>1, <1>7 DEF CancelOrder, RateMoves, vars
<1> QED BY Steps, <1>1, <1>2, <1>3, <1>4, <1>5, <1>6, <1>7

\* What a state has to be for its next step to be one of InvoiceBook.
BookInv == DocumentInv /\ ConsumptionInv /\ InvoiceNumbersGapless /\ AbsentInv /\ CheckedInv

LEMMA BookInvHolds == Spec => [](TypeOK /\ BookInv)
<1>1. Init => ConsumptionInv /\ InvoiceNumbersGapless /\ AbsentInv /\ CheckedInv
  <2>1. Init => InvoiceNumbersGapless /\ AbsentInv
    BY DEF Init, InvoiceNumbersGapless, Posted, NoInvoice, AbsentInv
  <2>2. Init => CheckedInv
    BY DEF Init, CheckedInv, Consuming
  <2> QED BY <2>1, <2>2, ConsumptionInit
<1>2. /\ TypeOK /\ DocumentInv
      /\ ConsumptionInv /\ InvoiceNumbersGapless /\ AbsentInv /\ CheckedInv
      /\ [Next]_vars
      => (ConsumptionInv /\ InvoiceNumbersGapless /\ AbsentInv /\ CheckedInv)'
  BY BillStep, TakenStep, InvoicedStep, NumbersStep, AbsentStep, CheckedStep
     DEF ConsumptionInv, DocumentInv
<1>3. TypeOK /\ DocumentInv /\ ConsumptionInv /\ InvoiceNumbersGapless /\ AbsentInv
      /\ CheckedInv => TypeOK /\ BookInv
  BY DEF BookInv
<1> QED BY <1>1, <1>2, <1>3, DocumentsHold, PTL DEF Spec

\* Each instance of a module has sums of its own: they are the same sums.
LEMMA SubtotalOfBook ==
  ASSUME NEW bill PROVE InvoiceBookInstance!Subtotal(bill) = Subtotal(bill)
BY Zenon DEF Subtotal, Total, Units, Cardinality, InvoiceBookInstance!Subtotal,
         InvoiceBookInstance!Total, InvoiceBookInstance!Units,
         InvoiceBookInstance!Cardinality

\* The document InvoiceBook sees of a header, its lines and their rate.
DocumentOf(row, bill, r) ==
  [status |-> row.status, version |-> row.version, number |-> row.number, bill |-> bill,
   rate |-> IF row.status = "absent" THEN 0 ELSE r]

LEMMA DocumentsByRow ==
  /\ Documents = [i \in Invoice |-> DocumentOf(invoices[i], bills[i], lineRate[i])]
  /\ Documents' = [i \in Invoice |-> DocumentOf(invoices'[i], bills'[i], lineRate'[i])]
BY DEF Documents, DocumentOf

LEMMA BookInit == Init => InvoiceBookInstance!Init
<1> SUFFICES ASSUME Init PROVE InvoiceBookInstance!Init
  OBVIOUS
<1>1. /\ invoices = [i \in Invoice |-> NoInvoice] /\ bills = [i \in Invoice |-> NoBill]
      /\ invoiced = [l \in Line |-> 0] /\ journal = {} /\ nextValue = 1
  BY DEF Init
<1>2. Documents = [i \in Invoice |-> InvoiceBookInstance!Absent]
  BY <1>1 DEF Documents, NoInvoice, NoBill, InvoiceBookInstance!Absent
<1>3. Entries = {}
  BY <1>1 DEF Entries
<1> QED BY <1>1, <1>2, <1>3 DEF InvoiceBookInstance!Init

\* What is not among the written rows is not seen to change.
LEMMA DocumentsReplaced ==
  ASSUME NEW i \in Invoice,
         \A j \in Invoice \ {i} : /\ invoices'[j] = invoices[j] /\ bills'[j] = bills[j]
                                  /\ lineRate'[j] = lineRate[j]
  PROVE  Documents' = [Documents EXCEPT
                         ![i] = DocumentOf(invoices'[i], bills'[i], lineRate'[i])]
<1> DEFINE before(j) == DocumentOf(invoices[j], bills[j], lineRate[j])
           after(j) == DocumentOf(invoices'[j], bills'[j], lineRate'[j])
<1>1. \A j \in Invoice \ {i} : after(j) = before(j)
  OBVIOUS
<1>2. /\ Documents = [j \in Invoice |-> before(j)]
      /\ Documents' = [j \in Invoice |-> after(j)]
  BY DocumentsByRow
<1> HIDE DEF before, after
<1>3. Documents' = [Documents EXCEPT ![i] = after(i)]
  BY <1>1, <1>2
<1> QED BY <1>3 DEF after

LEMMA BookRaise ==
  ASSUME TypeOK, BookInv, NEW i \in Invoice, NEW bill \in Bill, RaiseDraft(i, bill)
  PROVE  InvoiceBookInstance!Raise(i)
<1>1. /\ \A j \in Invoice \ {i} : /\ invoices'[j] = invoices[j] /\ bills'[j] = bills[j]
                                  /\ lineRate'[j] = lineRate[j]
      /\ invoices'[i] = DraftRow(1, bill, rate) /\ bills'[i] = bill /\ lineRate'[i] = rate
      /\ rate \in Rate /\ invoices[i].status = "absent"
      /\ UNCHANGED <<invoiced, journal, nextValue>>
  BY DEF RaiseDraft, TypeOK
<1>2. Documents[i] = InvoiceBookInstance!Absent
  <2>1. /\ invoices[i].version = 0 /\ bills[i] = NoBill /\ invoices[i].number = 0
    BY <1>1 DEF BookInv, AbsentInv, InvoiceNumbersGapless, Posted
  <2> QED BY <1>1, <2>1 DEF Documents, NoBill, InvoiceBookInstance!Absent
<1>3. DocumentOf(invoices'[i], bills'[i], lineRate'[i])
        = InvoiceBookInstance!Draft(1, bill, rate)
  BY <1>1 DEF DocumentOf, DraftRow, InvoiceBookInstance!Draft
<1>4. Documents' = [Documents EXCEPT ![i] = InvoiceBookInstance!Draft(1, bill, rate)]
  BY <1>1, <1>3, DocumentsReplaced
<1>5. UNCHANGED <<invoiced, Entries, nextValue>>
  BY <1>1 DEF Entries
<1>6. bill \in InvoiceBookInstance!Bill
  BY DEF Bill, InvoiceBookInstance!Bill
<1> QED BY <1>1, <1>2, <1>4, <1>5, <1>6 DEF InvoiceBookInstance!Raise

LEMMA BookEdit ==
  ASSUME TypeOK, BookInv, NEW t \in Txn, CommitEdit(t), NEW i, i = req[t].invoice
  PROVE  InvoiceBookInstance!Edit(i)
<1>1. /\ i \in Invoice /\ invoices[i].status = "draft"
      /\ UNCHANGED <<invoiced, journal, nextValue>>
  BY PostingIsOfDraft DEF CommitEdit, BookInv
<1>2. /\ \A j \in Invoice \ {i} : /\ invoices'[j] = invoices[j] /\ bills'[j] = bills[j]
                                  /\ lineRate'[j] = lineRate[j]
      /\ bills'[i] = work[t].bill /\ lineRate'[i] = work[t].rate
      /\ invoices'[i].status = "draft" /\ invoices'[i].number = 0
      /\ invoices'[i].version = invoices[i].version + 1
  BY EditRows
<1>3. PICK bill \in Bill, r \in Rate : bill = work[t].bill /\ r = work[t].rate
  BY DEF TypeOK, Work
<1>4. /\ Documents[i].status = "draft" /\ Documents[i].version = invoices[i].version
  BY <1>1 DEF Documents
<1>5. DocumentOf(invoices'[i], bills'[i], lineRate'[i])
        = InvoiceBookInstance!Draft(Documents[i].version + 1, bill, r)
  BY <1>2, <1>3, <1>4 DEF DocumentOf, InvoiceBookInstance!Draft
<1>6. Documents' = [Documents EXCEPT
                      ![i] = InvoiceBookInstance!Draft(@.version + 1, bill, r)]
  BY <1>1, <1>2, <1>5, DocumentsReplaced
<1>7. UNCHANGED <<invoiced, Entries, nextValue>>
  BY <1>1 DEF Entries
<1>8. bill \in InvoiceBookInstance!Bill
  BY DEF Bill, InvoiceBookInstance!Bill
<1> QED BY <1>4, <1>6, <1>7, <1>8 DEF InvoiceBookInstance!Edit

\* The amounts of an entry, the tax computed on the subtotal.
LEMMA EntryAmounts ==
  ASSUME NEW s \in Nat, NEW r \in Nat, s + s * r > 0
  PROVE  s > 0 /\ s + s * r = s * (1 + r)
<1>1. CASE s = 0
  BY <1>1
<1>2. CASE s > 0
  BY <1>2
<1> QED BY <1>1, <1>2

\* A document is known by its columns.
LEMMA PostedDocument ==
  ASSUME NEW n \in Nat, NEW d \in [status : {"draft", "posted"}, version : Nat,
                                   number : Nat, bill : Bill, rate : Nat]
  PROVE  [d EXCEPT !.status = "posted", !.version = @ + 1, !.number = n]
           = [status |-> "posted", version |-> d.version + 1, number |-> n,
              bill |-> d.bill, rate |-> d.rate]
<1> DEFINE Row == [status : {"draft", "posted"}, version : Nat, number : Nat,
                   bill : Bill, rate : Nat]
           e == [d EXCEPT !.status = "posted", !.version = @ + 1, !.number = n]
           f == [status |-> "posted", version |-> d.version + 1, number |-> n,
                 bill |-> d.bill, rate |-> d.rate]
<1>1. d.version + 1 \in Nat
  OBVIOUS
<1>2. e \in Row /\ f \in Row
  BY <1>1
<1>3. /\ e.status = f.status /\ e.version = f.version /\ e.number = f.number
      /\ e.bill = f.bill /\ e.rate = f.rate
  OBVIOUS
<1> HIDE DEF e, f
<1>4. e = f
  BY <1>2, <1>3
<1> QED BY <1>4 DEF e, f

LEMMA BookPost ==
  ASSUME TypeOK, BookInv, NEW t \in Txn, CommitPosting(t), NEW i, i = req[t].invoice
  PROVE  InvoiceBookInstance!Post(i)
<1>1. /\ i \in Invoice /\ invoices[i].status = "draft" /\ invoices[i] = seen[t]
      /\ work[t].num = nextValue /\ nextValue' = nextValue + 1
      /\ UNCHANGED <<bills, lineRate>> /\ journal' = journal \cup {EntryOf(t)}
  BY PostingIsOfDraft DEF CommitPosting, BookInv
<1>2. /\ \A j \in Invoice \ {i} : invoices'[j] = invoices[j]
      /\ invoices'[i].status = "posted" /\ invoices'[i].number = nextValue
      /\ invoices'[i].version = invoices[i].version + 1
  BY <1>1, PostingRows
<1> DEFINE bill == bills[i]
           r == lineRate[i]
<1>3. /\ Documents[i].status = "draft" /\ Documents[i].bill = bill
      /\ Documents[i].rate = r /\ Documents[i].version = invoices[i].version
  BY <1>1 DEF Documents
<1>4. bill \in Bill /\ r \in Nat /\ Subtotal(bill) \in Nat
  <2>1. bill \in Bill /\ r \in Rate
    BY <1>1 DEF TypeOK
  <2> QED BY <2>1, AmountsType, ConstantsAssumption
<1>5. /\ seen[t].subtotal = Subtotal(bill) /\ seen[t].taxTotal = Subtotal(bill) * r
  BY <1>1 DEF BookInv, DocumentInv, TotalsInv, TaxTotal
<1>6. seen[t].subtotal + seen[t].taxTotal > 0
  BY DEF BookInv, CheckedInv, Consuming, CommitPosting
<1>7. Subtotal(bill) > 0 /\ Subtotal(bill) + Subtotal(bill) * r = Subtotal(bill) * (1 + r)
  <2> HIDE DEF bill, r
  <2> QED BY <1>4, <1>5, <1>6, EntryAmounts
<1>8. ASSUME NEW l \in Line
      PROVE  /\ invoiced'[l] = invoiced[l] + bill[l] /\ invoiced[l] + bill[l] <= LineQty[l]
  <2>1. /\ invoiced'[l] = invoiced[l] + bill[l]
        /\ bill[l] > 0 => invoiced'[l] <= LineQty[l]
    BY PostingConsumes DEF BookInv, ConsumptionInv
  <2>2. invoiced[l] <= LineQty[l]
    BY DEF BookInv, ConsumptionInv, NeverOverInvoiced
  <2>3. bill[l] \in Nat /\ invoiced[l] \in Nat
    BY <1>1, QuantitiesType
  <2> QED BY <2>1, <2>2, <2>3
<1>9. invoiced' = [l \in Line |-> invoiced[l] + bill[l]]
  <2>1. invoiced' = [l \in Line |-> invoiced'[l]]
    BY DEF CommitPosting
  <2> HIDE DEF bill
  <2> QED BY <1>8, <2>1
<1>10. Entries' = Entries \cup {InvoiceBookInstance!Entry(i, bill, r)}
  <2>1. [invoice |-> EntryOf(t).invoice, receivable |-> EntryOf(t).receivable,
         revenue |-> EntryOf(t).revenue, tax |-> EntryOf(t).tax]
          = InvoiceBookInstance!Entry(i, bill, r)
    <3> HIDE DEF bill, r
    <3> QED BY <1>5, <1>7, SubtotalOfBook DEF EntryOf, InvoiceBookInstance!Entry
  <2> HIDE DEF bill, r
  <2> QED BY <1>1, <2>1 DEF Entries
<1>11. Documents' = [Documents EXCEPT ![i].status = "posted", ![i].version = @ + 1,
                                      ![i].number = nextValue]
  <2> DEFINE row == DocumentOf(invoices'[i], bills'[i], lineRate'[i])
  <2>1. Documents' = [Documents EXCEPT ![i] = row]
    BY <1>1, <1>2, DocumentsReplaced
  <2>2. row = [status |-> "posted", version |-> Documents[i].version + 1,
               number |-> nextValue, bill |-> bill, rate |-> r]
    BY <1>1, <1>2, <1>3 DEF DocumentOf
  <2>3. row = [Documents[i] EXCEPT !.status = "posted", !.version = @ + 1,
                                   !.number = nextValue]
    <3>1. Documents[i] = [status |-> "draft", version |-> invoices[i].version,
                          number |-> invoices[i].number, bill |-> bill, rate |-> r]
      BY <1>1 DEF Documents
    <3>2. invoices[i].version \in Nat /\ invoices[i].number \in Nat /\ nextValue \in Nat
      BY <1>1, VersionsType DEF TypeOK
    <3> HIDE DEF row, bill, r
    <3>3. Documents[i] \in [status : {"draft", "posted"}, version : Nat, number : Nat,
                            bill : Bill, rate : Nat]
      BY <1>4, <3>1, <3>2
    <3>4. [Documents[i] EXCEPT !.status = "posted", !.version = @ + 1,
                               !.number = nextValue]
            = [status |-> "posted", version |-> Documents[i].version + 1,
               number |-> nextValue, bill |-> Documents[i].bill,
               rate |-> Documents[i].rate]
      BY <3>2, <3>3, PostedDocument, Zenon
    <3> QED BY <1>3, <2>2, <3>4, Zenon
  <2> HIDE DEF row
  <2> QED BY <1>1, <2>1, <2>3 DEF Documents
<1> HIDE DEF bill, r
<1> QED BY <1>1, <1>3, <1>7, <1>8, <1>9, <1>10, <1>11, SubtotalOfBook
        DEF InvoiceBookInstance!Post

LEMMA BookStep ==
  TypeOK /\ BookInv /\ [Next]_vars
    => [InvoiceBookInstance!Next]_(InvoiceBookInstance!vars)
<1> SUFFICES ASSUME TypeOK, BookInv, [Next]_vars
             PROVE  InvoiceBookInstance!Next \/ UNCHANGED InvoiceBookInstance!vars
  OBVIOUS
<1>1. ASSUME NEW i \in Invoice, NEW bill \in Bill, RaiseDraft(i, bill)
      PROVE  InvoiceBookInstance!Next
  BY <1>1, BookRaise DEF InvoiceBookInstance!Next
<1>2. ASSUME NEW t \in Txn, CommitPosting(t) \/ CommitEdit(t)
      PROVE  InvoiceBookInstance!Next
  <2>1. PICK i \in Invoice : i = req[t].invoice
    BY RequestsType, Zenon
  <2>2. InvoiceBookInstance!Post(i) \/ InvoiceBookInstance!Edit(i)
    BY <1>2, <2>1, BookPost, BookEdit
  <2> QED BY <2>2 DEF InvoiceBookInstance!Next
<1>3. CASE UNCHANGED <<invoices, bills, lineRate, invoiced, journal, nextValue>>
  BY <1>3 DEF InvoiceBookInstance!vars, Documents, Entries
<1> QED BY Writers, <1>1, <1>2, <1>3

\* Whatever postings and edits overlap, what becomes visible is a sequence of
\* atomic ones, each posting consuming what was left, taking the next number and
\* writing the entry that equals its document.
THEOREM PostingsAreAtomic == Spec => ImplementsInvoiceBook
<1> QED BY BookInit, BookStep, BookInvHolds, PTL DEF Spec, ImplementsInvoiceBook,
        InvoiceBookInstance!Spec

-----------------------------------------------------------------------------
(* Rounding *)

\* A rounded figure is within half a unit of what it was rounded from.
LEMMA HalfAUnit ==
  ASSUME NEW n \in Nat, NEW f \in Nat \ {0}
  PROVE  LET h == HalfAwayFromZero(n, f)
         IN  h \in Nat /\ 2 * (h * f - n) <= f /\ 2 * (n - h * f) <= f
BY DEF HalfAwayFromZero

\* Nothing is rounded to nothing.
LEMMA NothingRounded ==
  ASSUME NEW f \in Nat \ {0}
  PROVE  HalfAwayFromZero(0, f) = 0
BY DEF HalfAwayFromZero

\* Zeros at the end change nothing.
LEMMA RoundedAlike ==
  ASSUME NEW n \in Nat, NEW f \in Nat \ {0}, NEW k \in Nat \ {0}
  PROVE  HalfAwayFromZero(k * n, k * f) = HalfAwayFromZero(n, f)
<1>1. PICK q \in Nat, r \in Nat : q = n \div f /\ r = n % f
  OBVIOUS
<1>2. (k * n) \div (k * f) = n \div f /\ (k * n) % (k * f) = k * (n % f)
  OBVIOUS
<1>3. 2 * (k * r) < k * f <=> 2 * r < f
  OBVIOUS
<1>4. k * n \in Nat /\ k * n >= 0 /\ n >= 0
  OBVIOUS
<1> QED BY <1>1, <1>2, <1>3, <1>4 DEF HalfAwayFromZero

-----------------------------------------------------------------------------
(* Figures *)

\* The scale of a price for a part of it, and what is kept of a price.
Unit == tenTo(3 * RATE_SCALE + 2 - AMOUNT_SCALE)
NetOf(discount) == 100 * tenTo(RATE_SCALE) - discount

\* What a line comes to, from the columns of its row.
Figures(quantity, unitPrice, discount, taxRate) ==
  LET subtotal == HalfAwayFromZero(quantity * unitPrice * NetOf(discount), Unit)
      tax == HalfAwayFromZero(subtotal * taxRate, tenTo(RATE_SCALE + 2))
  IN  [lineSubtotal |-> subtotal, lineTax |-> tax, lineTotal |-> subtotal + tax]

ADiscount == 0 .. 100 * tenTo(RATE_SCALE)

\* A quantity as somebody wrote it.
Written(q) == /\ q = [units |-> q.units, scale |-> q.scale]
              /\ q.units \in Nat /\ q.scale \in 0 .. RATE_SCALE

\* The powers of ten that the scales of a line come to; whatever scale a quantity
\* was written at, its padding is a factor of Unit.
LEMMA Powers ==
  /\ Unit \in Nat \ {0} /\ tenTo(RATE_SCALE) \in Nat \ {0} /\ tenTo(RATE_SCALE + 2) \in Nat \ {0}
  /\ tenTo(0) = 1
  /\ \A s \in 0 .. RATE_SCALE :
       /\ tenTo(RATE_SCALE - s) \in Nat \ {0}
       /\ tenTo(s + 2 * RATE_SCALE + 2 - AMOUNT_SCALE) \in Nat \ {0}
       /\ Unit = tenTo(RATE_SCALE - s) * tenTo(s + 2 * RATE_SCALE + 2 - AMOUNT_SCALE)
<1>1. RATE_SCALE \in Nat /\ AMOUNT_SCALE \in Nat /\ AMOUNT_SCALE <= RATE_SCALE
  BY ArithmeticAssumption
<1>2. /\ 3 * RATE_SCALE + 2 - AMOUNT_SCALE \in 0 .. 3 * RATE_SCALE + 2
      /\ RATE_SCALE \in 0 .. 3 * RATE_SCALE + 2 /\ RATE_SCALE + 2 \in 0 .. 3 * RATE_SCALE + 2
  BY <1>1
<1>3. ASSUME NEW s \in 0 .. RATE_SCALE
      PROVE  /\ RATE_SCALE - s \in 0 .. 3 * RATE_SCALE + 2
             /\ s + 2 * RATE_SCALE + 2 - AMOUNT_SCALE \in 0 .. 3 * RATE_SCALE + 2
             /\ RATE_SCALE - s \in 0 .. 3 * RATE_SCALE + 2 - AMOUNT_SCALE
             /\ 3 * RATE_SCALE + 2 - AMOUNT_SCALE - (RATE_SCALE - s)
                  = s + 2 * RATE_SCALE + 2 - AMOUNT_SCALE
  BY <1>1
<1>4. ASSUME NEW s \in 0 .. RATE_SCALE
      PROVE  /\ tenTo(RATE_SCALE - s) \in Nat \ {0}
             /\ tenTo(s + 2 * RATE_SCALE + 2 - AMOUNT_SCALE) \in Nat \ {0}
             /\ Unit = tenTo(RATE_SCALE - s) * tenTo(s + 2 * RATE_SCALE + 2 - AMOUNT_SCALE)
  <2>1. PICK k, j, i : /\ k = 3 * RATE_SCALE + 2 - AMOUNT_SCALE /\ j = RATE_SCALE - s
                       /\ i = s + 2 * RATE_SCALE + 2 - AMOUNT_SCALE
    OBVIOUS
  <2>2. /\ k \in 0 .. 3 * RATE_SCALE + 2 /\ j \in 0 .. 3 * RATE_SCALE + 2
        /\ i \in 0 .. 3 * RATE_SCALE + 2 /\ j \in 0 .. k /\ k - j = i
    BY <1>1, <2>1
  <2>3. tenTo(j) \in Nat \ {0} /\ tenTo(i) \in Nat \ {0} /\ tenTo(k) = tenTo(j) * tenTo(k - j)
    BY <2>2, PowersAssumption
  <2> QED BY <2>1, <2>2, <2>3 DEF Unit
<1>5. Unit \in Nat \ {0} /\ tenTo(RATE_SCALE) \in Nat \ {0} /\ tenTo(RATE_SCALE + 2) \in Nat \ {0}
  BY <1>2, PowersAssumption DEF Unit
<1> QED BY <1>4, <1>5, PowersAssumption

\* shift, round and toFixed on the cases that occur.
LEMMA ShiftedBy ==
  ASSUME NEW u \in Int, NEW s \in Nat, NEW scale \in Nat
  PROVE  shift([units |-> u, scale |-> s], scale) = [units |-> u * tenTo(scale - s), scale |-> scale]
BY DEF shift

LEMMA RoundedTo ==
  ASSUME NEW n, NEW s, NEW scale, ~(scale >= s), NEW places, places = s - scale
  PROVE  round([units |-> n, scale |-> s], scale)
           = [units |-> HalfAwayFromZero(n, tenTo(places)), scale |-> scale]
BY DEF round

LEMMA SameScale ==
  ASSUME NEW u \in Int, NEW s \in Nat
  PROVE  /\ shift([units |-> u, scale |-> s], s) = [units |-> u, scale |-> s]
         /\ toFixed([units |-> u, scale |-> s], s) = u
<1>1. u * tenTo(s - s) = u
  BY Powers
<1>2. shift([units |-> u, scale |-> s], s) = [units |-> u, scale |-> s]
  BY <1>1, ShiftedBy
<1> QED BY <1>2 DEF toFixed, round

\* What is written, in the column.
LEMMA InColumn ==
  ASSUME NEW q, Written(q)
  PROVE  toFixed(q, RATE_SCALE) = q.units * tenTo(RATE_SCALE - q.scale)
<1>1. RATE_SCALE \in Nat /\ q.scale <= RATE_SCALE
  BY ArithmeticAssumption DEF Written
<1> QED BY <1>1 DEF toFixed, round, shift

\* What a discount leaves, as a decimal.
LEMMA KeptIs ==
  ASSUME NEW d \in ADiscount
  PROVE  /\ subtract(ONE_HUNDRED, parseDecimal(d, RATE_SCALE))
              = [units |-> NetOf(d), scale |-> RATE_SCALE]
         /\ NetOf(d) \in Nat
<1>1. RATE_SCALE \in Nat /\ tenTo(RATE_SCALE) \in Nat /\ d \in Nat /\ d <= 100 * tenTo(RATE_SCALE)
  BY ArithmeticAssumption, Powers DEF ADiscount
<1> DEFINE a == [units |-> 100, scale |-> 0]
           b == [units |-> d, scale |-> RATE_SCALE]
<1>2. ONE_HUNDRED = a /\ parseDecimal(d, RATE_SCALE) = b
  BY DEF ONE_HUNDRED, parseDecimal
<1>3. Wider(a, b) = RATE_SCALE
  BY <1>1 DEF Wider
<1>4. /\ shift(a, RATE_SCALE).units = 100 * tenTo(RATE_SCALE)
      /\ shift(b, RATE_SCALE).units = d
  <2>1. RATE_SCALE - 0 = RATE_SCALE
    BY <1>1
  <2>2. shift(a, RATE_SCALE) = [units |-> 100 * tenTo(RATE_SCALE - 0), scale |-> RATE_SCALE]
    BY DEF shift
  <2>3. shift(b, RATE_SCALE) = b
    BY <1>1, SameScale
  <2> QED BY <2>1, <2>2, <2>3
<1>5. subtract(a, b) = [units |-> 100 * tenTo(RATE_SCALE) - d, scale |-> RATE_SCALE]
  <2> HIDE DEF a, b
  <2> QED BY <1>3, <1>4 DEF subtract
<1> QED BY <1>1, <1>2, <1>5 DEF NetOf

\* The subtotal of a line does not depend on how its quantity was written.
LEMMA SubtotalIs ==
  ASSUME NEW q, Written(q), NEW p \in Nat, NEW d \in ADiscount
  PROVE  round(divideByHundred(multiply(multiply(q, parseDecimal(p, RATE_SCALE)),
                                        subtract(ONE_HUNDRED, parseDecimal(d, RATE_SCALE)))),
               AMOUNT_SCALE)
           = [units |-> HalfAwayFromZero(toFixed(q, RATE_SCALE) * p * NetOf(d), Unit),
              scale |-> AMOUNT_SCALE]
<1> DEFINE s == q.scale
           n == q.units * p * NetOf(d)
           f == tenTo(s + 2 * RATE_SCALE + 2 - AMOUNT_SCALE)
           k == tenTo(RATE_SCALE - s)
<1>1. /\ RATE_SCALE \in Nat /\ AMOUNT_SCALE \in Nat /\ AMOUNT_SCALE <= RATE_SCALE
      /\ s \in Nat /\ q.units \in Nat /\ s \in 0 .. RATE_SCALE
  BY ArithmeticAssumption DEF Written
<1>2. k \in Nat \ {0} /\ f \in Nat \ {0} /\ Unit = k * f
  BY <1>1, Powers
<1>3. /\ NetOf(d) \in Nat
      /\ subtract(ONE_HUNDRED, parseDecimal(d, RATE_SCALE)) = [units |-> NetOf(d), scale |-> RATE_SCALE]
  BY KeptIs
<1>4. multiply(q, parseDecimal(p, RATE_SCALE)) = [units |-> q.units * p, scale |-> s + RATE_SCALE]
  BY DEF multiply, parseDecimal
<1>5. divideByHundred(multiply([units |-> q.units * p, scale |-> s + RATE_SCALE],
                               [units |-> NetOf(d), scale |-> RATE_SCALE]))
        = [units |-> n, scale |-> s + RATE_SCALE + RATE_SCALE + 2]
  BY DEF multiply, divideByHundred
<1>7. round([units |-> n, scale |-> s + RATE_SCALE + RATE_SCALE + 2], AMOUNT_SCALE)
        = [units |-> HalfAwayFromZero(n, f), scale |-> AMOUNT_SCALE]
  <2>1. PICK wide \in Nat, places \in Nat :
          /\ wide = s + RATE_SCALE + RATE_SCALE + 2
          /\ places = s + 2 * RATE_SCALE + 2 - AMOUNT_SCALE
    BY <1>1
  <2>2. ~(AMOUNT_SCALE >= wide) /\ places = wide - AMOUNT_SCALE /\ f = tenTo(places)
    BY <1>1, <2>1
  <2> HIDE DEF n, f
  <2>3. round([units |-> n, scale |-> wide], AMOUNT_SCALE)
          = [units |-> HalfAwayFromZero(n, tenTo(places)), scale |-> AMOUNT_SCALE]
    BY <2>2, RoundedTo
  <2> QED BY <2>1, <2>2, <2>3
<1>8. n \in Nat /\ toFixed(q, RATE_SCALE) * p * NetOf(d) = k * n
  <2>1. toFixed(q, RATE_SCALE) = q.units * k
    BY InColumn
  <2>2. PICK u \in Nat, kept \in Nat, m \in Nat : u = q.units /\ kept = NetOf(d) /\ m = k
    BY <1>1, <1>2, <1>3
  <2>3. u * p * kept \in Nat /\ (u * m) * p * kept = m * (u * p * kept)
    OBVIOUS
  <2> QED BY <2>1, <2>2, <2>3
<1> HIDE DEF n, f, k
<1>9. HalfAwayFromZero(k * n, k * f) = HalfAwayFromZero(n, f)
  BY <1>2, <1>8, RoundedAlike
<1> QED BY <1>2, <1>3, <1>4, <1>5, <1>7, <1>8, <1>9

\* The tax of a subtotal that is rounded already.
LEMMA TaxIs ==
  ASSUME NEW u \in Nat, NEW t \in Nat
  PROVE  round(divideByHundred(multiply([units |-> u, scale |-> AMOUNT_SCALE],
                                        parseDecimal(t, RATE_SCALE))), AMOUNT_SCALE)
           = [units |-> HalfAwayFromZero(u * t, tenTo(RATE_SCALE + 2)), scale |-> AMOUNT_SCALE]
<1>1. RATE_SCALE \in Nat /\ AMOUNT_SCALE \in Nat /\ AMOUNT_SCALE <= RATE_SCALE
  BY ArithmeticAssumption
<1>2. divideByHundred(multiply([units |-> u, scale |-> AMOUNT_SCALE], parseDecimal(t, RATE_SCALE)))
        = [units |-> u * t, scale |-> AMOUNT_SCALE + RATE_SCALE + 2]
  BY DEF multiply, divideByHundred, parseDecimal
<1>4. PICK wide \in Nat, places \in Nat, n \in Nat :
        wide = AMOUNT_SCALE + RATE_SCALE + 2 /\ places = RATE_SCALE + 2 /\ n = u * t
  BY <1>1
<1>5. ~(AMOUNT_SCALE >= wide) /\ places = wide - AMOUNT_SCALE
  BY <1>1, <1>4
<1>6. round([units |-> n, scale |-> wide], AMOUNT_SCALE)
        = [units |-> HalfAwayFromZero(n, tenTo(places)), scale |-> AMOUNT_SCALE]
  BY <1>5, RoundedTo
<1> QED BY <1>2, <1>4, <1>6

\* Amounts at AMOUNT_SCALE are added and written without rounding.
LEMMA AmountsAre ==
  ASSUME NEW u \in Nat, NEW t \in Nat
  PROVE  LET a == [units |-> u, scale |-> AMOUNT_SCALE]
             b == [units |-> t, scale |-> AMOUNT_SCALE]
         IN  /\ toFixed(a, AMOUNT_SCALE) = u
             /\ toFixed(add(a, b), AMOUNT_SCALE) = u + t
<1> DEFINE a == [units |-> u, scale |-> AMOUNT_SCALE]
           b == [units |-> t, scale |-> AMOUNT_SCALE]
<1>1. AMOUNT_SCALE \in Nat
  BY ArithmeticAssumption
<1>2. Wider(a, b) = AMOUNT_SCALE
  BY <1>1 DEF Wider
<1>3. shift(a, AMOUNT_SCALE) = a /\ shift(b, AMOUNT_SCALE) = b /\ toFixed(a, AMOUNT_SCALE) = u
  BY <1>1, SameScale
<1>4. add(a, b) = [units |-> u + t, scale |-> AMOUNT_SCALE]
  BY <1>2, <1>3 DEF add
<1>5. toFixed([units |-> u + t, scale |-> AMOUNT_SCALE], AMOUNT_SCALE) = u + t
  BY <1>1, SameScale
<1> QED BY <1>3, <1>4, <1>5

\* The two copies of the computation come to the same, which is a function of
\* the columns.
LEMMA FiguresAre ==
  ASSUME NEW q, Written(q), NEW p \in Nat, NEW d \in ADiscount, NEW t \in Nat
  PROVE  /\ billedAmounts(q, parseDecimal(p, RATE_SCALE), parseDecimal(d, RATE_SCALE),
                          parseDecimal(t, RATE_SCALE))
               = Figures(toFixed(q, RATE_SCALE), p, d, t)
         /\ price(q, p, d, t).amounts = Figures(toFixed(q, RATE_SCALE), p, d, t)
         /\ toFixed(q, RATE_SCALE) \in Nat
<1> DEFINE u == HalfAwayFromZero(toFixed(q, RATE_SCALE) * p * NetOf(d), Unit)
           v == HalfAwayFromZero(u * t, tenTo(RATE_SCALE + 2))
           sub == round(divideByHundred(multiply(multiply(q, parseDecimal(p, RATE_SCALE)),
                                        subtract(ONE_HUNDRED, parseDecimal(d, RATE_SCALE)))),
                        AMOUNT_SCALE)
           tax == round(divideByHundred(multiply(sub, parseDecimal(t, RATE_SCALE))), AMOUNT_SCALE)
<1>1. toFixed(q, RATE_SCALE) \in Nat
  BY InColumn, Powers DEF Written
<1>2. u \in Nat
  <2>1. toFixed(q, RATE_SCALE) * p * NetOf(d) \in Nat
    BY <1>1, KeptIs
  <2> QED BY <2>1, Powers, HalfAUnit
<1>3. v \in Nat
  <2> HIDE DEF u
  <2>1. u * t \in Nat
    BY <1>2
  <2> QED BY <2>1, Powers, HalfAUnit
<1>4. sub = [units |-> u, scale |-> AMOUNT_SCALE]
  BY SubtotalIs
<1>5. tax = [units |-> v, scale |-> AMOUNT_SCALE]
  <2> HIDE DEF u, sub
  <2> QED BY <1>2, <1>4, TaxIs
<1>6. billedAmounts(q, parseDecimal(p, RATE_SCALE), parseDecimal(d, RATE_SCALE),
                    parseDecimal(t, RATE_SCALE))
        = [lineSubtotal |-> toFixed(sub, AMOUNT_SCALE), lineTax |-> toFixed(tax, AMOUNT_SCALE),
           lineTotal |-> toFixed(add(sub, tax), AMOUNT_SCALE)]
  BY DEF billedAmounts
<1>7. price(q, p, d, t).amounts
        = [lineSubtotal |-> toFixed(sub, AMOUNT_SCALE), lineTax |-> toFixed(tax, AMOUNT_SCALE),
           lineTotal |-> toFixed(add(sub, tax), AMOUNT_SCALE)]
  BY DEF price
<1>8. Figures(toFixed(q, RATE_SCALE), p, d, t)
        = [lineSubtotal |-> u, lineTax |-> v, lineTotal |-> u + v]
  BY DEF Figures
<1> HIDE DEF u, v, sub, tax
<1>9. /\ toFixed(sub, AMOUNT_SCALE) = u /\ toFixed(tax, AMOUNT_SCALE) = v
      /\ toFixed(add(sub, tax), AMOUNT_SCALE) = u + v
  BY <1>2, <1>3, <1>4, <1>5, AmountsAre
<1> QED BY <1>1, <1>6, <1>7, <1>8, <1>9

-----------------------------------------------------------------------------
(* The invariant *)

\* A row has the figures that follow from its columns.
Priced(row) ==
  /\ row.quantity \in Nat /\ row.unitPrice \in Nat /\ row.discountPercent \in ADiscount
  /\ row.taxRatePercent \in Nat
  /\ row.amounts = Figures(row.quantity, row.unitPrice, row.discountPercent, row.taxRatePercent)

OrderPriced == DOMAIN order = OrderLine /\ \A l \in OrderLine : Priced(order[l])

\* A draft bills lines of the order at what was agreed.
DraftPriced ==
  /\ DOMAIN draft.lines \subseteq OrderLine
  /\ \A l \in DOMAIN draft.lines :
       /\ Priced(draft.lines[l])
       /\ draft.lines[l].unitPrice = order[l].unitPrice
       /\ draft.lines[l].discountPercent = order[l].discountPercent

Counted ==
  /\ invoicedQuantity \in [OrderLine -> Nat]
  /\ \A l \in OrderLine : billed[l].parts \in Nat /\ billed[l].subtotal \in Nat

ArithmeticInv ==
  standardRate \in Nat /\ OrderPriced /\ DraftPriced /\ Counted /\ DriftBounded

\* As DriftBounded says it of a line.
Drift(exact, charged, parts) ==
  2 * (charged * Unit - exact) <= parts * Unit /\ 2 * (exact - charged * Unit) <= parts * Unit

Exact(l) == invoicedQuantity[l] * order[l].unitPrice * NetOf(order[l].discountPercent)

\* DriftBounded, line by line.
LEMMA DriftIs ==
  DriftBounded <=> \A l \in OrderLine : Drift(Exact(l), billed[l].subtotal, billed[l].parts)
BY DEF DriftBounded, Drift, Exact, Unit, NetOf

\* An order as it was entered has the figures of its columns.
LEMMA ArithmeticInitInv == ArithmeticInit => ArithmeticInv
<1> SUFFICES ASSUME ArithmeticInit PROVE ArithmeticInv
  OBVIOUS
<1>1. standardRate \in Nat
  BY ArithmeticAssumption DEF ArithmeticInit
<1>2. PICK quantity \in [OrderLine -> Ordered],
           p \in [OrderLine -> Prices], d \in [OrderLine -> Discounts] :
        order = [l \in OrderLine |-> price(quantity[l], p[l], d[l], standardRate)]
  BY DEF ArithmeticInit
<1>3. ASSUME NEW l \in OrderLine PROVE Priced(order[l])
  <2>1. /\ quantity[l] \in [units : Nat \ {0}, scale : 0 .. RATE_SCALE]
        /\ p[l] \in Nat /\ d[l] \in ADiscount
    BY ArithmeticAssumption DEF ADiscount
  <2>2. Written(quantity[l])
    BY <2>1 DEF Written
  <2>3. PICK row : row = price(quantity[l], p[l], d[l], standardRate)
    OBVIOUS
  <2>4. /\ row.quantity = toFixed(quantity[l], RATE_SCALE) /\ row.unitPrice = p[l]
        /\ row.discountPercent = d[l] /\ row.taxRatePercent = standardRate
    BY <2>3 DEF price
  <2>5. row.amounts = Figures(toFixed(quantity[l], RATE_SCALE), p[l], d[l], standardRate)
        /\ toFixed(quantity[l], RATE_SCALE) \in Nat
    BY <1>1, <2>1, <2>2, <2>3, FiguresAre
  <2>6. order[l] = row
    BY <1>2, <2>3
  <2> QED BY <1>1, <2>1, <2>4, <2>5, <2>6 DEF Priced
<1>4. OrderPriced
  BY <1>2, <1>3 DEF OrderPriced
<1>5. DraftPriced
  BY DEF ArithmeticInit, NoDraft, DraftPriced
<1>6. Counted
  BY DEF ArithmeticInit, Counted
<1>7. \A l \in OrderLine : Drift(Exact(l), billed[l].subtotal, billed[l].parts)
  <2> SUFFICES ASSUME NEW l \in OrderLine PROVE Drift(Exact(l), billed[l].subtotal, billed[l].parts)
    OBVIOUS
  <2>1. invoicedQuantity[l] = 0 /\ billed[l].subtotal = 0 /\ billed[l].parts = 0
    BY DEF ArithmeticInit
  <2>2. order[l].unitPrice \in Nat /\ NetOf(order[l].discountPercent) \in Nat
    BY <1>3, KeptIs DEF Priced
  <2>3. Exact(l) = 0
    BY <2>1, <2>2 DEF Exact
  <2> QED BY <2>1, <2>3, Powers DEF Drift
<1> QED BY <1>1, <1>4, <1>5, <1>6, <1>7, DriftIs DEF ArithmeticInv

\* What chooseLines lets through is a positive quantity, written at some scale.
LEMMA Wanted ==
  ASSUME OrderPriced, Counted, NEW l \in OrderLine, NEW q \in Billable(l)
  PROVE  Written(q)
<1> DEFINE remaining == parseDecimal(remainderOf(l), RATE_SCALE)
<1>1. /\ remainderOf(l) \in Int /\ RATE_SCALE \in Nat
  BY ArithmeticAssumption DEF OrderPriced, Counted, remainderOf, Priced
<1>2. q \in [units : Int, scale : 0 .. RATE_SCALE]
  <2>1. remaining \in [units : Int, scale : 0 .. RATE_SCALE]
    BY <1>1 DEF parseDecimal
  <2>2. q \in Asked \cup {remaining}
    BY DEF Billable
  <2> QED BY <2>1, <2>2, ArithmeticAssumption
<1>3. compare(q, zero(0)) > 0
  BY DEF Billable
<1>4. PICK u \in Int, s \in 0 .. RATE_SCALE : q = [units |-> u, scale |-> s]
  BY <1>2
<1>5. s \in Nat /\ s >= 0
  BY <1>1
<1>6. zero(0) = [units |-> 0, scale |-> 0]
  BY DEF zero
<1>7. Wider(q, zero(0)) = s
  BY <1>4, <1>5, <1>6 DEF Wider
<1>8. shift(q, s) = [units |-> u, scale |-> s]
  BY <1>4, <1>5, SameScale
<1>9. shift(zero(0), s).units = 0
  <2>1. tenTo(s - 0) \in Nat
    <3>1. s - 0 \in 0 .. 3 * RATE_SCALE + 2
      BY <1>1
    <3> QED BY <3>1, PowersAssumption
  <2>2. shift(zero(0), s).units = 0 * tenTo(s - 0)
    BY <1>6 DEF shift
  <2> QED BY <2>1, <2>2
<1>10. u > 0
  <2>1. compare(q, zero(0)) = IF u = 0 THEN 0 ELSE IF u < 0 THEN -1 ELSE 1
    BY <1>7, <1>8, <1>9 DEF compare
  <2> QED BY <1>3, <2>1
<1> QED BY <1>4, <1>10 DEF Written

\* Every line of a new draft has the figures of its columns.
LEMMA DeriveInv ==
  ASSUME ArithmeticInv, NEW S \in SUBSET OrderLine, DeriveDraft(S)
  PROVE  ArithmeticInv'
<1>1. /\ UNCHANGED <<standardRate, order, invoicedQuantity, billed>>
      /\ standardRate \in Nat /\ OrderPriced /\ Counted /\ DriftBounded
  BY DEF DeriveDraft, ArithmeticInv
<1>2. PICK quantity \in [S -> UNION {Billable(l) : l \in S}] :
        /\ \A l \in S : quantity[l] \in Billable(l)
        /\ draft' = Document([l \in S |-> BilledLine(l, quantity[l])])
  BY DEF DeriveDraft
<1>3. draft'.lines = [l \in S |-> BilledLine(l, quantity[l])]
  BY <1>2 DEF Document
<1>4. ASSUME NEW l \in S
      PROVE  LET row == draft'.lines[l]
             IN  Priced(row) /\ row.unitPrice = order[l].unitPrice
                 /\ row.discountPercent = order[l].discountPercent
  <2>1. Written(quantity[l])
    BY <1>1, <1>2, Wanted
  <2>2. order[l].unitPrice \in Nat /\ order[l].discountPercent \in ADiscount
    BY <1>1 DEF OrderPriced, Priced
  <2>3. PICK row : row = BilledLine(l, quantity[l])
    OBVIOUS
  <2>4. /\ row.quantity = toFixed(quantity[l], RATE_SCALE) /\ row.unitPrice = order[l].unitPrice
        /\ row.discountPercent = order[l].discountPercent /\ row.taxRatePercent = standardRate
        /\ row.amounts = billedAmounts(quantity[l],
                             parseDecimal(order[l].unitPrice, RATE_SCALE),
                             parseDecimal(order[l].discountPercent, RATE_SCALE),
                             parseDecimal(standardRate, RATE_SCALE))
    BY <2>3 DEF BilledLine, resolveTaxRate
  <2>5. /\ row.amounts = Figures(toFixed(quantity[l], RATE_SCALE), order[l].unitPrice,
                                 order[l].discountPercent, standardRate)
        /\ toFixed(quantity[l], RATE_SCALE) \in Nat
    BY <1>1, <2>1, <2>2, <2>4, FiguresAre
  <2>6. draft'.lines[l] = row
    BY <1>3, <2>3
  <2> QED BY <1>1, <2>2, <2>4, <2>5, <2>6 DEF Priced
<1>5. DraftPriced'
  <2>1. DOMAIN draft'.lines = S
    BY <1>3
  <2> QED BY <1>1, <1>4, <2>1 DEF DraftPriced, Priced
<1> QED BY <1>1, <1>5 DEF ArithmeticInv, OrderPriced, Counted, DriftBounded

\* One more part adds at most half a unit of drift.
LEMMA PartAdds ==
  ASSUME NEW q \in Nat, NEW i \in Nat, NEW p \in Nat, NEW k \in Nat,
         NEW charged \in Nat, NEW parts \in Nat,
         Drift(i * p * k, charged, parts)
  PROVE  Drift((i + q) * p * k, charged + HalfAwayFromZero(q * p * k, Unit), parts + 1)
<1>1. PICK n \in Nat : n = q * p * k
  OBVIOUS
<1>2. PICK e \in Nat : e = i * p * k
  OBVIOUS
<1>3. PICK h \in Nat : /\ h = HalfAwayFromZero(n, Unit)
                       /\ 2 * (h * Unit - n) <= Unit /\ 2 * (n - h * Unit) <= Unit
  BY Powers, HalfAUnit
<1>4. (i + q) * p * k = e + n
  BY <1>1, <1>2
<1>5. Unit \in Nat
  BY Powers
<1>6. /\ (charged + h) * Unit = charged * Unit + h * Unit
      /\ (parts + 1) * Unit = parts * Unit + Unit
  BY <1>5
<1>7. PICK cu \in Nat, hu \in Nat, pu \in Nat :
        cu = charged * Unit /\ hu = h * Unit /\ pu = parts * Unit
  BY <1>5
<1>8. Drift(e + n, charged + h, parts + 1)
  BY <1>2, <1>3, <1>5, <1>6, <1>7 DEF Drift
<1> QED BY <1>1, <1>3, <1>4, <1>8

\* Posting counts the quantities and the subtotals of the same lines.
LEMMA PostInv ==
  ASSUME ArithmeticInv, Post
  PROVE  ArithmeticInv'
<1> DEFINE D == DOMAIN draft.lines
<1>1. /\ UNCHANGED <<standardRate, order>> /\ draft' = NoDraft
      /\ invoicedQuantity' = [l \in OrderLine |->
            IF l \in D
            THEN invoicedQuantity[l] + draft.lines[l].quantity
            ELSE invoicedQuantity[l]]
      /\ billed' = [l \in OrderLine |->
            IF l \in D
            THEN [parts |-> billed[l].parts + 1,
                  subtotal |-> billed[l].subtotal + draft.lines[l].amounts.lineSubtotal]
            ELSE billed[l]]
  BY DEF Post
<1>2. /\ standardRate \in Nat /\ OrderPriced /\ DraftPriced /\ Counted
      /\ \A l \in OrderLine : Drift(Exact(l), billed[l].subtotal, billed[l].parts)
  BY DriftIs DEF ArithmeticInv
<1>3. ASSUME NEW l \in OrderLine
      PROVE  /\ invoicedQuantity'[l] \in Nat
             /\ billed'[l].parts \in Nat /\ billed'[l].subtotal \in Nat
             /\ Drift(Exact(l), billed[l].subtotal, billed[l].parts)'
  <2>1. CASE l \notin D
    <3>1. invoicedQuantity'[l] = invoicedQuantity[l] /\ billed'[l] = billed[l]
      BY <1>1, <2>1
    <3> QED BY <1>1, <1>2, <3>1 DEF Counted, Drift, Exact
  <2>2. CASE l \in D
    <3>1. PICK q \in Nat, p \in Nat, d \in ADiscount :
            /\ q = draft.lines[l].quantity /\ p = order[l].unitPrice /\ d = order[l].discountPercent
      BY <1>2, <2>2 DEF DraftPriced, Priced
    <3>2. draft.lines[l].amounts.lineSubtotal = HalfAwayFromZero(q * p * NetOf(d), Unit)
      <4>1. PICK t \in Nat : draft.lines[l].amounts = Figures(q, p, d, t)
        BY <1>2, <2>2, <3>1 DEF DraftPriced, Priced
      <4> QED BY <4>1 DEF Figures
    <3>3. NetOf(d) \in Nat
      BY KeptIs
    <3>4. q * p * NetOf(d) \in Nat
      BY <3>3
    <3>5. HalfAwayFromZero(q * p * NetOf(d), Unit) \in Nat
      BY <3>4, Powers, HalfAUnit
    <3>6. /\ invoicedQuantity[l] \in Nat /\ billed[l].parts \in Nat /\ billed[l].subtotal \in Nat
      BY <1>2 DEF Counted
    <3>7. /\ invoicedQuantity'[l] = invoicedQuantity[l] + q /\ billed'[l].parts = billed[l].parts + 1
          /\ billed'[l].subtotal = billed[l].subtotal + HalfAwayFromZero(q * p * NetOf(d), Unit)
      BY <1>1, <2>2, <3>1, <3>2
    <3>8. Drift(invoicedQuantity[l] * p * NetOf(d), billed[l].subtotal, billed[l].parts)
      BY <1>2, <3>1 DEF Exact
    <3>9. Drift((invoicedQuantity[l] + q) * p * NetOf(d),
                billed[l].subtotal + HalfAwayFromZero(q * p * NetOf(d), Unit), billed[l].parts + 1)
      BY <3>3, <3>6, <3>8, PartAdds
    <3>10. Exact(l)' = (invoicedQuantity[l] + q) * p * NetOf(d)
      BY <1>1, <3>1, <3>7 DEF Exact
    <3> QED BY <3>5, <3>6, <3>7, <3>9, <3>10
  <2> QED BY <2>1, <2>2
<1>4. OrderPriced' /\ DraftPriced'
  BY <1>1, <1>2 DEF OrderPriced, DraftPriced, NoDraft
<1>5. Counted'
  BY <1>1, <1>3 DEF Counted
<1>6. DriftBounded'
  <2>1. \A l \in OrderLine : Drift(Exact(l), billed[l].subtotal, billed[l].parts)'
    BY <1>3
  <2> QED BY <2>1 DEF DriftBounded, Drift, Exact, Unit, NetOf
<1> QED BY <1>1, <1>2, <1>4, <1>5, <1>6 DEF ArithmeticInv

\* The inductive invariant: every stored line, of the order and of the draft, has
\* the figures that follow from its own columns, the draft bills at what was
\* agreed, and the drift is bounded.
THEOREM ArithmeticInvHolds == ArithmeticSpec => []ArithmeticInv
<1>1. ArithmeticInv /\ [ArithmeticNext]_arithmeticVars => ArithmeticInv'
  <2> SUFFICES ASSUME ArithmeticInv, [ArithmeticNext]_arithmeticVars PROVE ArithmeticInv'
    OBVIOUS
  <2>1. CASE UNCHANGED arithmeticVars
    BY <2>1 DEF arithmeticVars, ArithmeticInv, OrderPriced, DraftPriced, Counted, DriftBounded,
      Priced
  <2>2. ASSUME NEW S \in SUBSET OrderLine, DeriveDraft(S) PROVE ArithmeticInv'
    BY <2>2, DeriveInv
  <2>3. ASSUME NEW r \in Rates, StandardRateMoves(r) PROVE ArithmeticInv'
    <3>1. standardRate' \in Nat /\ UNCHANGED <<order, invoicedQuantity, draft, billed>>
      BY <2>3, ArithmeticAssumption DEF StandardRateMoves
    <3> QED BY <3>1 DEF ArithmeticInv, OrderPriced, DraftPriced, Counted, DriftBounded, Priced
  <2> QED BY <2>1, <2>2, <2>3, PostInv DEF ArithmeticNext
<1> QED BY <1>1, ArithmeticInitInv, PTL DEF ArithmeticSpec

\* However many parts an order is billed in, at whatever rates, what was charged
\* for a line (billedAmounts, rounded part by part) is within half a unit of the
\* last place per part of what its quantities come to.
THEOREM DriftStaysBounded == ArithmeticSpec => []DriftBounded
BY ArithmeticInvHolds, PTL DEF ArithmeticInv

\* A line billed whole at the rate of its order has the figures of the order: the
\* computation of the order (price) and of the invoice (billedAmounts) agree for
\* every quantity, price, discount and rate, whatever scale was written.
THEOREM TheCopiesAgree == ArithmeticSpec => []BilledWholeIsAsOrdered
<1>1. ArithmeticInv => BilledWholeIsAsOrdered
  BY DEF ArithmeticInv, OrderPriced, DraftPriced, Priced, BilledWholeIsAsOrdered
<1> QED BY <1>1, ArithmeticInvHolds, PTL

-----------------------------------------------------------------------------
(* The entry of a document *)

\* Sums over one row and over two.
LEMMA OneRow ==
  ASSUME NEW a, NEW qty, qty[a] \in Nat
  PROVE  Total({a}, qty) = qty[a]
<1>1. IsFiniteSet({}) /\ a \notin {} /\ {} \cup {a} = {a}
  BY FS_EmptySet
<1>2. Total({} \cup {a}, qty) = Total({}, qty) + qty[a]
  BY <1>1, TotalAdd
<1> QED BY <1>1, <1>2, TotalEmpty

LEMMA TwoRows ==
  ASSUME NEW a, NEW b, a # b, NEW qty, qty[a] \in Nat, qty[b] \in Nat
  PROVE  Total({a, b}, qty) = qty[a] + qty[b]
<1>1. IsFiniteSet({a}) /\ b \notin {a} /\ {a} \cup {b} = {a, b}
  BY FS_Singleton
<1>2. Total({a} \cup {b}, qty) = Total({a}, qty) + qty[b]
  BY <1>1, TotalAdd
<1> QED BY <1>1, <1>2, OneRow

\* Two rows or three that balance make an entry.
LEMMA BalancedEntry ==
  ASSUME NEW doc,
         NEW s \in Nat \ {0}, doc.totals.subtotal = s,
         NEW t \in Nat, doc.totals.taxTotal = t, doc.totals.total = s + t
  PROVE  EntryAccepted(JournalLines(doc))
<1> DEFINE R == [account |-> "receivable", debit |-> s + t, credit |-> 0]
           V == [account |-> "revenue", debit |-> 0, credit |-> s]
           T == [account |-> "tax", debit |-> 0, credit |-> t]
           rows == JournalLines(doc)
           debits == [r \in rows |-> r.debit]
           credits == [r \in rows |-> r.credit]
<1>1. R # V /\ R # T /\ V # T
  <2>1. R.debit # V.debit /\ R.debit # T.debit
    OBVIOUS
  <2>2. V.account # T.account
    OBVIOUS
  <2> QED BY <2>1, <2>2
<1>2. rows = {R, V} \cup {r \in {T} : t > 0}
  BY DEF JournalLines
<1>3. Cardinality({R, V}) = 2 /\ IsFiniteSet({R, V})
  <2> HIDE DEF R, V
  <2>1. IsFiniteSet({R}) /\ Cardinality({R}) = 1 /\ V \notin {R} /\ {R} \cup {V} = {R, V}
    BY <1>1, FS_Singleton
  <2> QED BY <2>1, FS_AddElement
<1>4. CASE t = 0
  <2>1. rows = {R, V}
    BY <1>2, <1>4
  <2>2. /\ debits[R] = s /\ debits[V] = 0 /\ credits[R] = 0 /\ credits[V] = s
    BY <1>4, <2>1
  <2>3. \A r \in rows : (r.debit > 0 /\ r.credit = 0) \/ (r.credit > 0 /\ r.debit = 0)
    BY <1>4, <2>1
  <2> HIDE DEF R, V, T, rows, debits, credits
  <2>4. Total(rows, debits) = s /\ Total(rows, credits) = s
    <3>1. ASSUME NEW qty, qty[R] \in Nat, qty[V] \in Nat
          PROVE  Total(rows, qty) = qty[R] + qty[V]
      BY <1>1, <2>1, <3>1, TwoRows
    <3>2. Total(rows, debits) = debits[R] + debits[V]
      BY <2>2, <3>1
    <3>3. Total(rows, credits) = credits[R] + credits[V]
      BY <2>2, <3>1
    <3> QED BY <2>2, <3>2, <3>3
  <2> QED BY <1>3, <2>1, <2>3, <2>4 DEF EntryAccepted, rows, debits, credits
<1>5. CASE t > 0
  <2>1. rows = {R, V, T}
    BY <1>2, <1>5
  <2>2. /\ debits[R] = s + t /\ debits[V] = 0 /\ debits[T] = 0
        /\ credits[R] = 0 /\ credits[V] = s /\ credits[T] = t
    BY <2>1
  <2>3. \A r \in rows : (r.debit > 0 /\ r.credit = 0) \/ (r.credit > 0 /\ r.debit = 0)
    BY <1>5, <2>1
  <2> HIDE DEF R, V, T, rows, debits, credits
  <2>4. Total(rows, debits) = s + t /\ Total(rows, credits) = s + t
    <3>1. ASSUME NEW qty, qty[R] \in Nat, qty[V] \in Nat, qty[T] \in Nat
          PROVE  Total(rows, qty) = qty[R] + qty[V] + qty[T]
      <4>1. /\ T \notin {R, V} /\ rows = {R, V} \cup {T}
            /\ \A y \in {R, V} \cup {T} : qty[y] \in Nat
        BY <1>1, <2>1, <3>1
      <4>2. Total(rows, qty) = Total({R, V}, qty) + qty[T]
        BY <1>3, <4>1, TotalAdd
      <4>3. Total({R, V}, qty) = qty[R] + qty[V]
        BY <1>1, <3>1, TwoRows
      <4> QED BY <4>2, <4>3
    <3>2. Total(rows, debits) = debits[R] + debits[V] + debits[T]
      BY <2>2, <3>1
    <3>3. Total(rows, credits) = credits[R] + credits[V] + credits[T]
      BY <2>2, <3>1
    <3> QED BY <2>2, <3>2, <3>3
  <2>5. Cardinality(rows) = 3
    <3>1. rows = {R, V} \cup {T}
      BY <2>1
    <3>2. T \notin {R, V}
      BY <1>1
    <3>3. Cardinality({R, V} \cup {T}) = Cardinality({R, V}) + 1
      BY <1>3, <3>2, FS_AddElement
    <3> QED BY <1>3, <3>1, <3>3
  <2> QED BY <2>3, <2>4, <2>5 DEF EntryAccepted, rows, debits, credits
<1> QED BY <1>4, <1>5

\* Lines that come to something come to something before tax.
LEMMA TaxedIsCharged ==
  ASSUME DraftPriced, documentTotals(draft.lines) = draft.totals, draft.totals.total > 0
  PROVE  \E s \in Nat \ {0}, t \in Nat :
           draft.totals.subtotal = s /\ draft.totals.taxTotal = t /\ draft.totals.total = s + t
<1> DEFINE rows == draft.lines
           D == DOMAIN rows
           sub == Subtotals(rows)
           tax == Taxes(rows)
<1>1. IsFiniteSet(D)
  BY ArithmeticAssumption, FS_Subset DEF DraftPriced
<1>2. ASSUME NEW l \in D
      PROVE  sub[l] \in Nat /\ tax[l] \in Nat /\ (sub[l] = 0 => tax[l] = 0)
  <2>1. PICK q \in Nat, p \in Nat, d \in ADiscount, r \in Nat : rows[l].amounts = Figures(q, p, d, r)
    BY DEF DraftPriced, Priced
  <2>2. q * p * NetOf(d) \in Nat
    BY KeptIs
  <2>3. PICK u \in Nat : u = HalfAwayFromZero(q * p * NetOf(d), Unit)
    BY <2>2, Powers, HalfAUnit
  <2>4. u * r \in Nat /\ (u = 0 => u * r = 0)
    OBVIOUS
  <2>5. HalfAwayFromZero(u * r, tenTo(RATE_SCALE + 2)) \in Nat
        /\ (u = 0 => HalfAwayFromZero(u * r, tenTo(RATE_SCALE + 2)) = 0)
    BY <2>4, Powers, HalfAUnit, NothingRounded
  <2>6. rows[l].amounts.lineSubtotal = u
        /\ rows[l].amounts.lineTax = HalfAwayFromZero(u * r, tenTo(RATE_SCALE + 2))
    BY <2>1, <2>3 DEF Figures
  <2> QED BY <2>5, <2>6 DEF Subtotals, Taxes
<1> HIDE DEF sub, tax, D
<1>3. Total(D, sub) \in Nat /\ Total(D, tax) \in Nat
  BY <1>1, <1>2, TotalType
<1>4. /\ draft.totals.subtotal = Total(D, sub) /\ draft.totals.taxTotal = Total(D, tax)
      /\ draft.totals.total = Total(D, sub) + Total(D, tax)
  BY DEF documentTotals, D, sub, tax
<1>5. ASSUME Total(D, sub) = 0 PROVE Total(D, tax) = 0
  <2>1. ASSUME NEW l \in D PROVE sub[l] = 0
    <3>1. Total({l}, sub) = sub[l] /\ sub[l] \in Nat
      BY <1>2, OneRow
    <3>2. Total({l}, sub) <= Total(D, sub)
      BY <1>1, <1>2, TotalMonotone
    <3> QED BY <1>5, <3>1, <3>2
  <2>2. \A l \in D : tax[l] = 0
    BY <1>2, <2>1
  <2> QED BY <2>2, TotalOfNothing
<1> QED BY <1>3, <1>4, <1>5

\* Every document that the checks of postCustomerInvoice let through makes an entry
\* that the ledger accepts: whatever rounding does to its lines, no side of the
\* entry is zero and the two sides agree.
THEOREM EntriesAreAccepted == ArithmeticSpec => []EntryIsAccepted
<1>1. ArithmeticInv => EntryIsAccepted
  <2> SUFFICES ASSUME DraftPriced, PassesChecks(draft) PROVE EntryAccepted(JournalLines(draft))
    BY DEF ArithmeticInv, EntryIsAccepted
  <2>1. documentTotals(draft.lines) = draft.totals /\ draft.totals.total > 0
    BY DEF PassesChecks, Coherent, SomethingToPost
  <2> QED BY <2>1, TaxedIsCharged, BalancedEntry
<1> QED BY <1>1, ArithmeticInvHolds, PTL
=============================================================================
