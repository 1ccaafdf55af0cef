-------------------------- MODULE OrderFulfilment --------------------------
(***************************************************************************)
(* Sales orders, stock reservations and order numbers, as concurrent       *)
(* PostgreSQL transactions at READ COMMITTED.                              *)
(*                                                                         *)
(* A transaction (Txn) serves one HTTP request: a confirmation             *)
(* (confirmSalesOrder), a cancellation (cancelSalesOrder) or the edit of a *)
(* draft (updateDraftIn).  One action is one SQL statement that another    *)
(* transaction can be ordered against: each statement sees what has been   *)
(* committed when it runs plus the transaction's own writes, waits for the *)
(* row locks it needs, and locks are kept until the end.  What a           *)
(* transaction has written stays in work[t] until Commit.                  *)
(*                                                                         *)
(* Abstractions.                                                           *)
(*  - A line's id stands for its whole row: rows are never updated by      *)
(*    these operations, an edit deletes and inserts them.  Hence LineOrder,*)
(*    LineBalance (the product with the order's warehouse), LineQty and    *)
(*    LineNo are constants.                                                *)
(*  - A reservation <<t, l>> is the row inserted by t for line l.          *)
(*  - A balance row that does not exist locks nothing and reads as nothing *)
(*    on hand (inventory.repository.ts:162); no line can be reserved on it *)
(*    either way, so it is a row with onHand 0 here.                       *)
(*  - Master data, grants and prices belong to other parts: the checks on  *)
(*    them may refuse or let pass.                                         *)
(***************************************************************************)
EXTENDS Quantities

CONSTANTS
  Txn,           \* requests, each served by one transaction at a time
  NoTxn,         \* the holder of an unlocked row
  Order, Line, Balance,
  LineOrder,     \* the order a line belongs to
  LineBalance,   \* the balance row a line is reserved against
  LineQty,       \* the quantity ordered on a line
  LineNo,        \* line_number, the position in the document
  BalanceRank,   \* the position of (product id, warehouse id) in lock order
  StockLevels,   \* the quantities a balance may open with
  InitialLines,  \* the lines of the drafts present at the start
  MaxAttempts,   \* MAX_ATTEMPTS of withSerializationRetry
  Asks,          \* bound: what each request may ask, and of which order
  Documents      \* bound: the sets of lines a client may send

ASSUME ConstantsAssumption ==
  /\ NoTxn \notin Txn
  /\ IsFiniteSet(Txn) /\ IsFiniteSet(Line)
  /\ LineOrder \in [Line -> Order]
  /\ LineBalance \in [Line -> Balance]
  /\ LineQty \in [Line -> Nat \ {0}]
  /\ LineNo \in [Line -> Nat]
  /\ BalanceRank \in [Balance -> Nat]
  /\ \A b, c \in Balance : BalanceRank[b] = BalanceRank[c] => b = c
  /\ StockLevels \subseteq Nat
  /\ InitialLines \subseteq Line
  /\ Order # {}
  /\ MaxAttempts \in Nat \ {0}
  /\ Asks \in [Txn -> SUBSET ({"confirm", "cancel", "edit"} \X Order)]

VARIABLES
  \* committed rows
  onHand,        \* stock_balances.on_hand
  orders,        \* sales_orders
  live,          \* the sales_order_lines that exist
  active,        \* stock_reservations with released_at null
  released,      \* stock_reservations with released_at set
  nextValue,     \* document_number_sequences.next_value of sales orders
  \* row locks, by holder
  balanceLock, orderLock, lineLock, counterLock,
  \* transactions
  pc,            \* the statement a request is at
  req,           \* what was asked
  issued,        \* line ids handed out so far (randomUUID never repeats one)
  seen,          \* the order header as the transaction first read it
  todo,          \* reservations or lines still to be processed
  work,          \* uncommitted writes
  attempt        \* of withSerializationRetry

db == <<onHand, orders, live, active, released, nextValue>>
locks == <<balanceLock, orderLock, lineLock, counterLock>>
progress == <<pc, seen, todo, work, attempt>>
vars == <<db, locks, progress, req, issued>>

-----------------------------------------------------------------------------
(* Types *)

Reservation == Txn \X Line

\* The three of the six statuses that some operation can reach, and "absent"
\* for an order that was never created.
Statuses == {"absent", "draft", "confirmed", "cancelled"}

\* number 0 stands for a null doc_number; priced is the set of lines the
\* totals were computed over.
OrderRow == [status : Statuses, version : Nat, number : Nat,
             priced : SUBSET Line]

NoOrder == [status |-> "absent", version |-> 0, number |-> 0, priced |-> {}]

Request == [op : {"none", "confirm", "cancel", "edit"}, order : Order,
            version : Nat, lines : SUBSET Line]

Work == [ins : SUBSET Reservation, rel : SUBSET Reservation,
         del : SUBSET Line, add : SUBSET Line, num : Nat, row : OrderRow]

NoWork == [ins |-> {}, rel |-> {}, del |-> {}, add |-> {}, num |-> 0,
           row |-> NoOrder]

Final == {"answered", "refused", "failed"}

PCs == {"idle", "read", "lines", "find", "lock", "insert", "counter", "held",
        "release", "header", "lockDraft", "delete", "insertLines", "commit"} \cup Final

LinesOf(o) == {l \in live : LineOrder[l] = o}

ReservationQty == [r \in Reservation |-> LineQty[r[2]]]

OnBalance(R, b) == {r \in R : LineBalance[r[2]] = b}

TypeOK ==
  /\ onHand \in [Balance -> Nat]
  /\ orders \in [Order -> OrderRow]
  /\ live \subseteq Line
  /\ active \subseteq Reservation
  /\ released \subseteq Reservation
  /\ nextValue \in Nat \ {0}
  /\ balanceLock \in [Balance -> Txn \cup {NoTxn}]
  /\ orderLock \in [Order -> Txn \cup {NoTxn}]
  /\ lineLock \in [Line -> Txn \cup {NoTxn}]
  /\ counterLock \in Txn \cup {NoTxn}
  /\ pc \in [Txn -> PCs]
  /\ req \in [Txn -> Request]
  /\ issued \subseteq Line
  /\ seen \in [Txn -> OrderRow]
  /\ todo \in [Txn -> SUBSET Reservation]
  /\ work \in [Txn -> Work]
  /\ attempt \in [Txn -> 1 .. MaxAttempts]

-----------------------------------------------------------------------------
(* The pure parts of the operations *)

\* sales-order-status.ts: the transition table.
CanTransition(from, to) ==
  <<from, to>> \in {<<"draft", "confirmed">>, <<"draft", "cancelled">>,
                    <<"confirmed", "cancelled">>}

\* Wrong: balances in the order the document lists them.
InDocumentOrder(l, m) == LineNo[l] <= LineNo[m]

\* lock-order.ts: balance rows are taken in the order of their key.  The sort
\* is stable, so lines on one balance keep their document order.
InLockOrder(l, m) ==
  LET b == BalanceRank[LineBalance[l]]
      c == BalanceRank[LineBalance[m]]
  IN  b < c \/ (b = c /\ LineNo[l] <= LineNo[m])

\* The next of the reservations a confirmation or a cancellation has to do.
\* Two on one balance are under the same lock, so which comes first is left to
\* CHOOSE where the line number does not tell.
IsNext(t, r) ==
  /\ r \in todo[t]
  /\ r = CHOOSE s \in todo[t] : \A u \in todo[t] : InLockOrder(s[2], u[2])

\* The sum availabilityForUpdate reads: active rows, this transaction's own
\* uncommitted inserts and releases included.
Reserved(t, b) ==
  Total(OnBalance((active \ work[t].rel) \cup work[t].ins, b), ReservationQty)

Available(t, b) == onHand[b] - Reserved(t, b)

\* A row lock is granted when nobody else holds it.
Grantable(holder, t) == holder \in {t, NoTxn}

\* Wrong: the balance is read without FOR UPDATE.
BalanceUnlocked(t, b) == TRUE

BalanceGrantable(t, b) == Grantable(balanceLock[b], t)

\* Wrong: the counter is read without FOR UPDATE.
CounterUnlocked(t) == TRUE

CounterGrantable(t) == Grantable(counterLock, t)

\* Wrong: an UPDATE by id alone.
NeverMoved(t) == TRUE

\* The WHERE clause of applyTransition: version and status as first read.
Unmoved(t) ==
  LET row == orders[req[t].order]
  IN  row.version = seen[t].version /\ row.status = seen[t].status

\* Wrong: the version the client sent is not compared.
StillDraft(t) == orders[req[t].order].status = "draft"

\* The WHERE clause of updateDraft: the version the client read, and a draft.
DraftUnmoved(t) ==
  LET row == orders[req[t].order]
  IN  row.version = req[t].version /\ row.status = "draft"

\* The header an edit writes: updateDraft raises the version, and setTotals
\* records the totals of the lines just written.
EditedRow(row, lines) == [row EXCEPT !.version = @ + 1, !.priced = lines]

\* The transactions holding the line FOR KEY SHARE, through a reservation.
LineSharers(l) == {t \in Txn : \E r \in work[t].ins : r[2] = l}

\* A line can be deleted when nobody else holds it in any mode.
LineDeletable(t, l) == Grantable(lineLock[l], t) /\ LineSharers(l) \subseteq {t}

\* The next of the lines an edit has to delete: in document order.
IsNextLine(t, l) ==
  <<t, l>> \in todo[t] /\ \A s \in todo[t] : LineNo[l] <= LineNo[s[2]]

-----------------------------------------------------------------------------
(* Beginning and ending a transaction *)

\* A lock table without the locks of t.
Freed(holders, t) ==
  [k \in DOMAIN holders |-> IF holders[k] = t THEN NoTxn ELSE holders[k]]

\* Wrong: the connection goes back to its pool with the transaction still open.
KeepLocks(t) == UNCHANGED <<balanceLock, orderLock, lineLock, counterLock>>

\* COMMIT and ROLLBACK both give every lock back.
ReleaseLocks(t) ==
  /\ balanceLock' = Freed(balanceLock, t)
  /\ orderLock' = Freed(orderLock, t)
  /\ lineLock' = Freed(lineLock, t)
  /\ counterLock' = IF counterLock = t THEN NoTxn ELSE counterLock

Forget(t) ==
  /\ seen' = [seen EXCEPT ![t] = NoOrder]
  /\ todo' = [todo EXCEPT ![t] = {}]
  /\ work' = [work EXCEPT ![t] = NoWork]

\* UnitOfWork.run: an exception anywhere rolls everything back.
Rollback(t, next) ==
  /\ pc' = [pc EXCEPT ![t] = next]
  /\ ReleaseLocks(t)
  /\ Forget(t)
  /\ UNCHANGED <<db, req, issued>>

\* A refusal: a typed error is thrown and the client gets a 4xx.
Refuse(t) == Rollback(t, "refused") /\ UNCHANGED attempt

\* The next statement of t, when nothing but t's own progress changes.
GoTo(t, next) == pc' = [pc EXCEPT ![t] = next]

Init ==
  /\ onHand \in [Balance -> StockLevels]
  /\ live = InitialLines
  /\ orders = [o \in Order |->
                 LET lines == {l \in InitialLines : LineOrder[l] = o}
                 IN  IF lines = {} THEN NoOrder
                     ELSE [NoOrder EXCEPT !.status = "draft", !.version = 1,
                                          !.priced = lines]]
  /\ active = {} /\ released = {}
  /\ nextValue = 1
  /\ balanceLock = [b \in Balance |-> NoTxn]
  /\ orderLock = [o \in Order |-> NoTxn]
  /\ lineLock = [l \in Line |-> NoTxn]
  /\ counterLock = NoTxn
  /\ pc = [t \in Txn |-> "idle"]
  /\ req = [t \in Txn |-> [op |-> "none", order |-> CHOOSE o \in Order : TRUE,
                           version |-> 0, lines |-> {}]]
  /\ issued = InitialLines
  /\ seen = [t \in Txn |-> NoOrder]
  /\ todo = [t \in Txn |-> {}]
  /\ work = [t \in Txn |-> NoWork]
  /\ attempt = [t \in Txn |-> 1]

\* createDraftIn.  It writes rows nobody else has seen and locks nothing
\* anybody waits for, so one step stands for its transaction.
CreateDraft(o, lines) ==
  /\ orders[o].status = "absent"
  /\ lines \in Documents
  /\ lines # {} /\ lines \cap issued = {}
  /\ \A l \in lines : LineOrder[l] = o
  /\ orders' = [orders EXCEPT ![o] = [@ EXCEPT !.status = "draft",
                                             !.version = 1, !.priced = lines]]
  /\ live' = live \cup lines
  /\ issued' = issued \cup lines
  /\ UNCHANGED <<onHand, active, released, nextValue, locks, progress, req>>

\* A request arrives.  An edit names a version its client has read, and brings
\* lines that will be inserted under ids no other row has (the retries of one
\* request share them here: what a rolled back attempt wrote, nobody saw).
Begin(t) ==
  /\ pc[t] = "idle"
  /\ \E o \in Order :
       \/ \E op \in {"confirm", "cancel"} :
            /\ <<op, o>> \in Asks[t]
            /\ req' = [req EXCEPT ![t].op = op, ![t].order = o]
            /\ UNCHANGED issued
       \/ /\ <<"edit", o>> \in Asks[t]
          /\ \E v \in 1 .. orders[o].version, lines \in SUBSET (Line \ issued) :
               /\ lines \in Documents
               /\ lines # {}
               /\ \A l \in lines : LineOrder[l] = o
               /\ req' = [req EXCEPT ![t] = [op |-> "edit", order |-> o,
                                            version |-> v, lines |-> lines]]
               /\ issued' = issued \cup lines
  /\ GoTo(t, "read")
  /\ UNCHANGED <<db, locks, seen, todo, work, attempt>>

-----------------------------------------------------------------------------
(* What all three operations start with *)

TargetStatus(op) == IF op = "confirm" THEN "confirmed" ELSE "cancelled"

\* The transition, or the edit, the status as read allows.
StatusAllows(t) ==
  LET row == orders[req[t].order]
  IN  IF req[t].op = "edit" THEN row.status = "draft"
      ELSE CanTransition(row.status, TargetStatus(req[t].op))

AfterRead(op) == CASE op = "confirm" -> "lines"
                   [] op = "cancel"  -> "held"
                   [] OTHER          -> "lockDraft"

\* salesOrders.findById, without a lock, and the check of the status.
Read(t) ==
  /\ pc[t] = "read"
  /\ StatusAllows(t)
  /\ seen' = [seen EXCEPT ![t] = orders[req[t].order]]
  /\ GoTo(t, AfterRead(req[t].op))
  /\ UNCHANGED <<db, locks, todo, work, attempt, req, issued>>

\* not_found, illegal_transition, not_a_draft.
ReadRefused(t) ==
  /\ pc[t] = "read"
  /\ ~StatusAllows(t)
  /\ Refuse(t)

\* Customer, warehouse or a product is not active, or the grants read inside
\* the transaction no longer include the permission: outside this model, so
\* any request may meet it before its first write.
ChecksFail(t) ==
  /\ pc[t] \in {"lines", "held", "lockDraft"}
  /\ Refuse(t)

-----------------------------------------------------------------------------
(* confirmSalesOrder *)

\* salesOrderLines.listForOrder: a later statement than the header's read, so
\* it may see lines that an edit has committed in between.  It always sees some,
\* since an edit replaces them in one commit: the refusal no_lines is never met.
ReadLines(t) ==
  /\ pc[t] = "lines"
  /\ LinesOf(req[t].order) # {}
  /\ todo' = [todo EXCEPT ![t] = {t} \X LinesOf(req[t].order)]
  /\ GoTo(t, "find")
  /\ UNCHANGED <<db, locks, seen, work, attempt, req, issued>>

\* reserveForOrderLine reads the line again.
Find(t) ==
  /\ pc[t] = "find"
  /\ \E r \in todo[t] : IsNext(t, r) /\ r[2] \in live
  /\ GoTo(t, "lock")
  /\ UNCHANGED <<db, locks, seen, todo, work, attempt, req, issued>>

\* line_not_found: an edit has replaced the line.
LineGone(t) ==
  /\ pc[t] = "find"
  /\ \E r \in todo[t] : IsNext(t, r) /\ r[2] \notin live
  /\ Refuse(t)

\* availabilityForUpdate: the balance row is locked, then the active
\* reservations are summed by a statement that sees all that was committed
\* before the lock was granted.
Lock(t) ==
  /\ pc[t] = "lock"
  /\ \E r \in todo[t] :
       LET b == LineBalance[r[2]]
       IN  /\ IsNext(t, r)
           /\ BalanceGrantable(t, b)
           /\ Available(t, b) >= LineQty[r[2]]
           /\ balanceLock' = [balanceLock EXCEPT ![b] = t]
  /\ GoTo(t, "insert")
  /\ UNCHANGED <<db, orderLock, lineLock, counterLock, seen, todo, work,
                 attempt, req, issued>>

\* insufficient_stock: every reservation already taken goes with the rollback.
Insufficient(t) ==
  /\ pc[t] = "lock"
  /\ \E r \in todo[t] :
       LET b == LineBalance[r[2]]
       IN  /\ IsNext(t, r)
           /\ BalanceGrantable(t, b)
           /\ Available(t, b) < LineQty[r[2]]
  /\ Refuse(t)

\* createUnderBalanceLock.  The foreign key of the reservation locks the line
\* FOR KEY SHARE, which waits for a transaction that is deleting it.  That the
\* lock is held from here on is what work[t].ins says.
Insert(t) ==
  /\ pc[t] = "insert"
  /\ \E r \in todo[t] :
       /\ IsNext(t, r)
       /\ Grantable(lineLock[r[2]], t)
       /\ r[2] \in live
       /\ work' = [work EXCEPT ![t].ins = @ \cup {r}]
       /\ todo' = [todo EXCEPT ![t] = @ \ {r}]
  /\ GoTo(t, IF todo'[t] = {} THEN "counter" ELSE "find")
  /\ UNCHANGED <<db, locks, seen, attempt, req, issued>>

\* The line was deleted between its read and the insert: the foreign key
\* fails, which no handler translates and no retry repeats.
ForeignKeyFails(t) ==
  /\ pc[t] = "insert"
  /\ \E r \in todo[t] : /\ IsNext(t, r)
                        /\ Grantable(lineLock[r[2]], t)
                        /\ r[2] \notin live
  /\ Rollback(t, "failed")
  /\ UNCHANGED attempt

\* allocate: the counter row is locked, read and incremented.
Counter(t) ==
  /\ pc[t] = "counter"
  /\ CounterGrantable(t)
  /\ counterLock' = t
  /\ work' = [work EXCEPT ![t].num = nextValue]
  /\ GoTo(t, "header")
  /\ UNCHANGED <<db, balanceLock, orderLock, lineLock, seen, todo, attempt,
                 req, issued>>

-----------------------------------------------------------------------------
(* cancelSalesOrder *)

\* listActiveForOrder, without a lock.
ListHeld(t) ==
  /\ pc[t] = "held"
  /\ todo' = [todo EXCEPT ![t] =
                {r \in active : LineOrder[r[2]] = req[t].order /\ r[2] \in live}]
  /\ GoTo(t, IF todo'[t] = {} THEN "header" ELSE "release")
  /\ UNCHANGED <<db, locks, seen, work, attempt, req, issued>>

\* availabilityForUpdate for its lock, then releaseUnderBalanceLock.
Release(t) ==
  /\ pc[t] = "release"
  /\ \E r \in todo[t] :
       LET b == LineBalance[r[2]]
       IN  /\ IsNext(t, r)
           /\ BalanceGrantable(t, b)
           /\ r \in active
           /\ balanceLock' = [balanceLock EXCEPT ![b] = t]
           /\ work' = [work EXCEPT ![t].rel = @ \cup {r}]
           /\ todo' = [todo EXCEPT ![t] = @ \ {r}]
  /\ GoTo(t, IF todo'[t] = {} THEN "header" ELSE "release")
  /\ UNCHANGED <<db, orderLock, lineLock, counterLock, seen, attempt, req,
                 issued>>

\* Another cancellation released it while this one waited for the balance.
ReleaseConflict(t) ==
  /\ pc[t] = "release"
  /\ \E r \in todo[t] : /\ IsNext(t, r)
                        /\ BalanceGrantable(t, LineBalance[r[2]])
                        /\ r \notin active
  /\ Refuse(t)

-----------------------------------------------------------------------------
(* The header: applyTransition, of a confirmation and of a cancellation *)

\* Wrong: a cancellation gives the order's number up.
NumberDropped(t) ==
  LET row == orders[req[t].order]
  IN  [status  |-> TargetStatus(req[t].op),
       version |-> row.version + 1,
       number  |-> work[t].num,
       priced  |-> row.priced]

\* The first number is given by the confirmation; a cancellation writes back
\* the number, or its absence, that it read.
TransitionRow(t) ==
  LET row == orders[req[t].order]
  IN  [status  |-> TargetStatus(req[t].op),
       version |-> row.version + 1,
       number  |-> IF req[t].op = "confirm" THEN work[t].num ELSE seen[t].number,
       priced  |-> row.priced]

\* The UPDATE waits for the row and then evaluates its WHERE clause on what is
\* committed by then.
Header(t) ==
  /\ pc[t] = "header"
  /\ Grantable(orderLock[req[t].order], t)
  /\ Unmoved(t)
  /\ orderLock' = [orderLock EXCEPT ![req[t].order] = t]
  /\ work' = [work EXCEPT ![t].row = TransitionRow(t)]
  /\ GoTo(t, "commit")
  /\ UNCHANGED <<db, balanceLock, lineLock, counterLock, seen, todo, attempt,
                 req, issued>>

\* ConcurrencyConflictError.
HeaderConflict(t) ==
  /\ pc[t] = "header"
  /\ Grantable(orderLock[req[t].order], t)
  /\ ~Unmoved(t)
  /\ Refuse(t)

-----------------------------------------------------------------------------
(* updateDraftIn *)

\* updateDraft locks the header and raises its version; the lines to replace
\* are listed under that lock.
LockDraft(t) ==
  /\ pc[t] = "lockDraft"
  /\ Grantable(orderLock[req[t].order], t)
  /\ DraftUnmoved(t)
  /\ orderLock' = [orderLock EXCEPT ![req[t].order] = t]
  /\ todo' = [todo EXCEPT ![t] = {t} \X LinesOf(req[t].order)]
  /\ GoTo(t, IF todo'[t] = {} THEN "insertLines" ELSE "delete")
  /\ UNCHANGED <<db, balanceLock, lineLock, counterLock, seen, work, attempt,
                 req, issued>>

\* ConcurrencyConflictError, answered with the order as it is now.
EditConflict(t) ==
  /\ pc[t] = "lockDraft"
  /\ Grantable(orderLock[req[t].order], t)
  /\ ~DraftUnmoved(t)
  /\ Refuse(t)

\* remove: waits for a confirmation that has reserved for the line.
DeleteLine(t) ==
  /\ pc[t] = "delete"
  /\ \E l \in Line :
       /\ IsNextLine(t, l)
       /\ LineDeletable(t, l)
       /\ lineLock' = [lineLock EXCEPT ![l] = t]
       /\ work' = [work EXCEPT ![t].del = @ \cup {l}]
       /\ todo' = [todo EXCEPT ![t] = @ \ {<<t, l>>}]
  /\ GoTo(t, IF todo'[t] = {} THEN "insertLines" ELSE "delete")
  /\ UNCHANGED <<db, balanceLock, orderLock, counterLock, seen, attempt, req,
                 issued>>

\* The new lines, which nobody waits for, and the totals over them.
InsertLines(t) ==
  /\ pc[t] = "insertLines"
  /\ work' = [work EXCEPT
                 ![t].add = req[t].lines,
                 ![t].row = EditedRow(orders[req[t].order], req[t].lines)]
  /\ GoTo(t, "commit")
  /\ UNCHANGED <<db, locks, seen, todo, attempt, req, issued>>

-----------------------------------------------------------------------------
(* How a transaction ends *)

\* COMMIT: everything it wrote becomes visible, then the client is answered.
Commit(t) ==
  /\ pc[t] = "commit"
  /\ orders' = [orders EXCEPT ![req[t].order] = work[t].row]
  /\ live' = (live \ work[t].del) \cup work[t].add
  /\ active' = (active \ work[t].rel) \cup work[t].ins
  /\ released' = released \cup work[t].rel
  /\ nextValue' = IF work[t].num = 0 THEN nextValue ELSE work[t].num + 1
  /\ GoTo(t, "answered")
  /\ ReleaseLocks(t)
  /\ Forget(t)
  /\ UNCHANGED <<onHand, req, issued, attempt>>

\* The connection or the process is lost before the COMMIT: the database rolls
\* back, and nothing repeats the request by itself.
Crash(t) ==
  /\ pc[t] \notin Final \cup {"idle"}
  /\ Rollback(t, "failed")
  /\ UNCHANGED attempt

\* The transactions that hold what the next statement of t needs.
BlockedBy(t) ==
  {u \in Txn \ {t} :
     \/ /\ pc[t] \in {"lock", "release"}
        /\ \E r \in todo[t] : IsNext(t, r) /\ balanceLock[LineBalance[r[2]]] = u
     \/ /\ pc[t] = "insert"
        /\ \E r \in todo[t] : IsNext(t, r) /\ lineLock[r[2]] = u
     \/ pc[t] = "counter" /\ counterLock = u
     \/ pc[t] \in {"header", "lockDraft"} /\ orderLock[req[t].order] = u
     \/ /\ pc[t] = "delete"
        /\ \E l \in Line : IsNextLine(t, l)
                           /\ u \in LineSharers(l) \cup {lineLock[l]}}

\* t waits for itself: it is in every set that holds those t waits for and,
\* with a member, those the member waits for.
WaitsForItself(t) ==
  \A S \in SUBSET Txn :
    (BlockedBy(t) \subseteq S /\ \A u \in S : BlockedBy(u) \subseteq S) => t \in S

\* PostgreSQL ends one transaction of a cycle with 40P01; withSerializationRetry
\* runs it again from the start, MAX_ATTEMPTS times in all.
DeadlockVictim(t) ==
  /\ WaitsForItself(t)
  /\ IF attempt[t] < MaxAttempts
     THEN Rollback(t, "read") /\ attempt' = [attempt EXCEPT ![t] = @ + 1]
     ELSE Rollback(t, "failed") /\ UNCHANGED attempt

\* Every request has been answered, and there is no other.
Finished == (\A t \in Txn : pc[t] \in Final) /\ UNCHANGED vars

Statement(t) ==
  \/ Read(t) \/ ReadRefused(t)
  \/ ReadLines(t) \/ Find(t) \/ LineGone(t)
  \/ Lock(t) \/ Insufficient(t) \/ Insert(t) \/ ForeignKeyFails(t) \/ Counter(t)
  \/ ListHeld(t) \/ Release(t) \/ ReleaseConflict(t)
  \/ Header(t) \/ HeaderConflict(t)
  \/ LockDraft(t) \/ EditConflict(t) \/ DeleteLine(t) \/ InsertLines(t)
  \/ Commit(t)

Next ==
  \/ \E o \in Order, lines \in SUBSET Line : CreateDraft(o, lines)
  \/ \E t \in Txn : Begin(t) \/ Statement(t) \/ ChecksFail(t) \/ Crash(t)
                    \/ DeadlockVictim(t)
  \/ Finished

Spec == Init /\ [][Next]_vars

\* A statement that can run does, and PostgreSQL finds deadlocks; requests
\* need not come, checks need not fail, and connections need not break.
FairSpec ==
  /\ Spec
  /\ \A t \in Txn : WF_vars(Statement(t)) /\ WF_vars(DeadlockVictim(t))

-----------------------------------------------------------------------------
(* Properties *)

\* No stock is promised twice: the active reservations on a balance never
\* exceed what is on hand, whatever confirmations and cancellations overlap.
\* availabilityForUpdate must see every reservation another transaction could
\* still commit, and reserveForOrderLine must not act on a stale answer.
NoOversell ==
  \A b \in Balance : Total(OnBalance(active, b), ReservationQty) <= onHand[b]

\* A confirmed order holds exactly one active reservation for each of its
\* lines, and an order in any other status holds none: a confirmation read the
\* lines, reserved them one by one and wrote the header in separate
\* statements, while edits replaced lines and cancellations released them.
StatusMatchesReservations ==
  \A o \in Order :
    LET held == {r \in active : LineOrder[r[2]] = o}
    IN  IF orders[o].status = "confirmed"
        THEN /\ {r[2] : r \in held} = LinesOf(o)
             /\ \A r, s \in held : r[2] = s[2] => r = s
        ELSE held = {}

\* The numbers issued are 1 .. nextValue - 1, each to one order: no number is
\* lost with a rollback or given twice, and cancelling an order keeps its.
NumbersGapless ==
  /\ {orders[o].number : o \in Order} \ {0} = 1 .. nextValue - 1
  /\ \A o, p \in Order :
       orders[o].number = orders[p].number /\ orders[o].number # 0 => o = p

\* Nobody's change is lost: a header moves one version at a time, and an edit
\* replaces exactly the version its client had read.
EveryWriteBuildsOnTheLast ==
  [][\A o \in Order : orders'[o] # orders[o] =>
       /\ orders'[o].version = orders[o].version + 1
       /\ \A t \in Txn : req[t].op = "edit" /\ req[t].order = o
                          /\ pc[t] # pc'[t] /\ pc'[t] = "answered"
                          => req[t].version = orders[o].version]_vars

\* Among confirmations and cancellations alone there is no deadlock: the order
\* of the balance locks, then the counter, then the header, is enough.
DeadlockNeedsAnEdit ==
  ~ \E C \in SUBSET {t \in Txn : req[t].op # "edit"} :
       C # {} /\ \A t \in C : BlockedBy(t) \cap C # {}

\* Every request that was begun is answered: no lock is kept for ever, no
\* deadlock stays unresolved, and the retries come to an end.
EveryRequestEnds == \A t \in Txn : pc[t] = "read" ~> pc[t] \in Final

\* The overlapping transactions do what the atomic operations of OrderBook do:
\* each commit is one of its steps, and everything before a commit, or instead
\* of one, is invisible.
OrderBookInstance ==
  INSTANCE OrderBook WITH reserved <- {r[2] : r \in active}
ImplementsOrderBook == OrderBookInstance!Spec
=============================================================================
