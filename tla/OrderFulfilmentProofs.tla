----------------------- MODULE OrderFulfilmentProofs -----------------------
(***************************************************************************)
(* Theorems about OrderFulfilment, for every set of requests, orders,      *)
(* lines and balances.                                                     *)
(***************************************************************************)
EXTENDS OrderFulfilment, QuantitiesProofs

-----------------------------------------------------------------------------
(* Type correctness *)

\* Giving the locks of a transaction back leaves lock tables.
LEMMA ReleaseLocksType ==
  ASSUME TypeOK, NEW t \in Txn, ReleaseLocks(t)
  PROVE  /\ balanceLock' \in [Balance -> Txn \cup {NoTxn}]
         /\ orderLock' \in [Order -> Txn \cup {NoTxn}]
         /\ lineLock' \in [Line -> Txn \cup {NoTxn}]
         /\ counterLock' \in Txn \cup {NoTxn}
<1>1. balanceLock' \in [Balance -> Txn \cup {NoTxn}]
  BY DEF TypeOK, ReleaseLocks, Freed
<1>2. orderLock' \in [Order -> Txn \cup {NoTxn}]
  BY DEF TypeOK, ReleaseLocks, Freed
<1>3. lineLock' \in [Line -> Txn \cup {NoTxn}]
  BY DEF TypeOK, ReleaseLocks, Freed
<1>4. counterLock' \in Txn \cup {NoTxn}
  BY DEF TypeOK, ReleaseLocks
<1> QED BY <1>1, <1>2, <1>3, <1>4

\* Each write of a transaction keeps the type of its uncommitted writes.
LEMMA WorkInsType ==
  ASSUME NEW f \in [Txn -> Work], NEW t \in Txn, NEW R \in SUBSET Reservation
  PROVE  [f EXCEPT ![t].ins = R] \in [Txn -> Work]
<1>1. \A w \in Work : [w EXCEPT !.ins = R] \in Work
  BY DEF Work
<1>2. [f EXCEPT ![t].ins = R] = [f EXCEPT ![t] = [f[t] EXCEPT !.ins = R]]
  OBVIOUS
<1> QED BY <1>1, <1>2

LEMMA WorkRelType ==
  ASSUME NEW f \in [Txn -> Work], NEW t \in Txn, NEW R \in SUBSET Reservation
  PROVE  [f EXCEPT ![t].rel = R] \in [Txn -> Work]
<1>1. \A w \in Work : [w EXCEPT !.rel = R] \in Work
  BY DEF Work
<1>2. [f EXCEPT ![t].rel = R] = [f EXCEPT ![t] = [f[t] EXCEPT !.rel = R]]
  OBVIOUS
<1> QED BY <1>1, <1>2

LEMMA WorkDelType ==
  ASSUME NEW f \in [Txn -> Work], NEW t \in Txn, NEW L \in SUBSET Line
  PROVE  [f EXCEPT ![t].del = L] \in [Txn -> Work]
<1>1. \A w \in Work : [w EXCEPT !.del = L] \in Work
  BY DEF Work
<1>2. [f EXCEPT ![t].del = L] = [f EXCEPT ![t] = [f[t] EXCEPT !.del = L]]
  OBVIOUS
<1> QED BY <1>1, <1>2

LEMMA WorkNumType ==
  ASSUME NEW f \in [Txn -> Work], NEW t \in Txn, NEW n \in Nat
  PROVE  [f EXCEPT ![t].num = n] \in [Txn -> Work]
<1>1. \A w \in Work : [w EXCEPT !.num = n] \in Work
  BY DEF Work
<1>2. [f EXCEPT ![t].num = n] = [f EXCEPT ![t] = [f[t] EXCEPT !.num = n]]
  OBVIOUS
<1> QED BY <1>1, <1>2

LEMMA WorkRowType ==
  ASSUME NEW f \in [Txn -> Work], NEW t \in Txn, NEW r \in OrderRow
  PROVE  [f EXCEPT ![t].row = r] \in [Txn -> Work]
<1>1. \A w \in Work : [w EXCEPT !.row = r] \in Work
  BY DEF Work
<1>2. [f EXCEPT ![t].row = r] = [f EXCEPT ![t] = [f[t] EXCEPT !.row = r]]
  OBVIOUS
<1> QED BY <1>1, <1>2

LEMMA WorkEditType ==
  ASSUME NEW f \in [Txn -> Work], NEW t \in Txn, NEW r \in OrderRow,
         NEW L \in SUBSET Line
  PROVE  [f EXCEPT ![t].add = L, ![t].row = r] \in [Txn -> Work]
<1>1. \A w \in Work : [w EXCEPT !.add = L, !.row = r] \in Work
  BY DEF Work
<1>2. [f EXCEPT ![t].add = L, ![t].row = r]
        = [f EXCEPT ![t] = [f[t] EXCEPT !.add = L, !.row = r]]
  OBVIOUS
<1> QED BY <1>1, <1>2

LEMMA EditedRowType ==
  ASSUME NEW row \in OrderRow, NEW lines \in SUBSET Line
  PROVE  EditedRow(row, lines) \in OrderRow
<1>1. row.version + 1 \in Nat
  BY DEF OrderRow
<1> QED BY <1>1 DEF EditedRow, OrderRow

\* The rows a transaction reads and writes are rows.
LEMMA RowsType ==
  ASSUME TypeOK, NEW t \in Txn
  PROVE  /\ req[t].order \in Order /\ req[t].lines \in SUBSET Line
         /\ req[t].op \in {"none", "confirm", "cancel", "edit"}
         /\ orders[req[t].order] \in OrderRow /\ seen[t] \in OrderRow
         /\ work[t] \in Work /\ work[t].num \in Nat /\ work[t].row \in OrderRow
         /\ work[t].ins \in SUBSET Reservation
         /\ work[t].rel \in SUBSET Reservation
         /\ work[t].del \in SUBSET Line /\ work[t].add \in SUBSET Line
BY DEF TypeOK, Request, Work

\* What every transaction starts from.
LEMMA NothingWritten == NoWork \in Work /\ NoOrder \in OrderRow
BY DEF NoWork, Work, NoOrder, OrderRow, Statuses

LEMMA ForgetType ==
  ASSUME TypeOK, NEW t \in Txn, Forget(t)
  PROVE  /\ seen' \in [Txn -> OrderRow]
         /\ todo' \in [Txn -> SUBSET Reservation]
         /\ work' \in [Txn -> Work]
BY NothingWritten DEF TypeOK, Forget

LEMMA RollbackType ==
  ASSUME TypeOK, NEW t \in Txn, NEW next \in PCs, Rollback(t, next),
         attempt' \in [Txn -> 1 .. MaxAttempts]
  PROVE  TypeOK'
<1>1. pc' \in [Txn -> PCs]
  BY DEF TypeOK, Rollback
<1>2. UNCHANGED <<db, req, issued>> /\ ReleaseLocks(t) /\ Forget(t)
  BY DEF Rollback
<1> QED BY <1>1, <1>2, ReleaseLocksType, ForgetType DEF TypeOK, db

LEMMA RefuseType ==
  ASSUME TypeOK, NEW t \in Txn, Refuse(t)
  PROVE  TypeOK'
BY RollbackType DEF Refuse, TypeOK, PCs, Final

LEMMA TypeInit == Init => TypeOK
<1> SUFFICES ASSUME Init PROVE TypeOK
  OBVIOUS
<1>1. orders \in [Order -> OrderRow]
  <2> DEFINE lines(o) == {l \in InitialLines : LineOrder[l] = o}
             row(o) == IF lines(o) = {} THEN NoOrder
                       ELSE [NoOrder EXCEPT !.status = "draft", !.version = 1,
                                            !.priced = lines(o)]
  <2>1. orders = [o \in Order |-> row(o)]
    BY DEF Init
  <2>2. \A o \in Order : lines(o) \subseteq Line
    BY ConstantsAssumption
  <2>3. \A o \in Order : row(o) \in OrderRow
    BY <2>2 DEF OrderRow, Statuses, NoOrder
  <2> QED BY <2>1, <2>3
<1>2. pc \in [Txn -> PCs]
  BY DEF Init, PCs
<1>3. req \in [Txn -> Request]
  BY ConstantsAssumption DEF Init, Request
<1>4. /\ seen \in [Txn -> OrderRow] /\ work \in [Txn -> Work]
      /\ todo \in [Txn -> SUBSET Reservation]
  BY NothingWritten DEF Init
<1>5. attempt \in [Txn -> 1 .. MaxAttempts]
  <2>1. 1 \in 1 .. MaxAttempts
    BY ConstantsAssumption
  <2>2. attempt = [t \in Txn |-> 1]
    BY DEF Init
  <2> QED BY <2>1, <2>2
<1>6. onHand \in [Balance -> Nat]
  <2>1. onHand \in [Balance -> StockLevels]
    BY DEF Init
  <2> QED BY <2>1, ConstantsAssumption
<1>7. /\ live \subseteq Line /\ issued \subseteq Line
      /\ active \subseteq Reservation /\ released \subseteq Reservation
  BY ConstantsAssumption DEF Init
<1>9. nextValue \in Nat \ {0}
  <2>1. nextValue = 1
    BY DEF Init
  <2> QED BY <2>1
<1>8. /\ balanceLock \in [Balance -> Txn \cup {NoTxn}]
      /\ orderLock \in [Order -> Txn \cup {NoTxn}]
      /\ lineLock \in [Line -> Txn \cup {NoTxn}]
      /\ counterLock \in Txn \cup {NoTxn}
  BY DEF Init
<1> QED BY <1>1, <1>2, <1>3, <1>4, <1>5, <1>6, <1>7, <1>8, <1>9
   DEF TypeOK

\* One step per action of Next.
LEMMA TypeStep == TypeOK /\ [Next]_vars => TypeOK'
<1> SUFFICES ASSUME TypeOK, [Next]_vars PROVE TypeOK'
  OBVIOUS
<1> USE DEF db, locks, progress
<1>1. ASSUME NEW o \in Order, NEW lines \in SUBSET Line, CreateDraft(o, lines)
      PROVE  TypeOK'
  <2>1. orders' \in [Order -> OrderRow]
    <3>1. \A row \in OrderRow :
            [row EXCEPT !.status = "draft", !.version = 1, !.priced = lines]
              \in OrderRow
      BY DEF OrderRow, Statuses
    <3> QED BY <1>1, <3>1 DEF CreateDraft, TypeOK
  <2> QED BY <1>1, <2>1 DEF CreateDraft, TypeOK
<1> SUFFICES ASSUME NEW t \in Txn,
                    \/ Begin(t) \/ Statement(t) \/ ChecksFail(t) \/ Crash(t)
                    \/ DeadlockVictim(t)
             PROVE  TypeOK'
  <2>1. CASE UNCHANGED vars
    BY <2>1 DEF TypeOK, vars
  <2>2. CASE Finished
    BY <2>2 DEF Finished, TypeOK, vars
  <2> QED BY <1>1, <2>1, <2>2 DEF Next
<1>2. CASE Begin(t)
  <2>1. req' \in [Txn -> Request] /\ issued' \subseteq Line
    <3>1. PICK o \in Order :
            \/ \E op \in {"confirm", "cancel"} :
                 /\ req' = [req EXCEPT ![t].op = op, ![t].order = o]
                 /\ UNCHANGED issued
            \/ \E v \in 1 .. orders[o].version, lines \in SUBSET (Line \ issued) :
                 /\ req' = [req EXCEPT ![t] = [op |-> "edit", order |-> o,
                                              version |-> v, lines |-> lines]]
                 /\ issued' = issued \cup lines
      BY <1>2, ConstantsAssumption DEF Begin
    <3>2. \A q \in Request, op \in {"confirm", "cancel"} :
            [q EXCEPT !.op = op, !.order = o] \in Request
      BY DEF Request
    <3>3. ASSUME NEW op \in {"confirm", "cancel"},
                 req' = [req EXCEPT ![t].op = op, ![t].order = o]
          PROVE  req' \in [Txn -> Request]
      <4>1. req' = [req EXCEPT ![t] = [req[t] EXCEPT !.op = op, !.order = o]]
        BY <3>3
      <4> QED BY <3>2, <4>1 DEF TypeOK
    <3>4. orders[o].version \in Nat
      BY DEF TypeOK, OrderRow
    <3>5. ASSUME NEW v \in 1 .. orders[o].version, NEW lines \in SUBSET Line
          PROVE  [op |-> "edit", order |-> o, version |-> v, lines |-> lines]
                   \in Request
      BY <3>4 DEF Request
    <3> QED BY <3>1, <3>3, <3>5 DEF TypeOK
  <2>2. pc' \in [Txn -> PCs]
    BY <1>2 DEF Begin, GoTo, TypeOK, PCs
  <2> QED BY <1>2, <2>1, <2>2 DEF Begin, TypeOK
<1>3. CASE \/ ReadRefused(t) \/ LineGone(t) \/ Insufficient(t)
           \/ ReleaseConflict(t) \/ HeaderConflict(t) \/ EditConflict(t)
           \/ ChecksFail(t)
  BY <1>3, RefuseType DEF ReadRefused, LineGone, Insufficient,
     ReleaseConflict, HeaderConflict, EditConflict, ChecksFail
<1>4. CASE ForeignKeyFails(t) \/ Crash(t)
  BY <1>4, RollbackType DEF ForeignKeyFails, Crash, PCs, Final, TypeOK
<1>5. CASE DeadlockVictim(t)
  <2>1. attempt' \in [Txn -> 1 .. MaxAttempts]
    BY <1>5, ConstantsAssumption DEF DeadlockVictim, TypeOK
  <2> QED BY <1>5, <2>1, RollbackType DEF DeadlockVictim, PCs, Final
<1>6. CASE Read(t)
  <2>1. pc' \in [Txn -> PCs]
    <3>1. AfterRead(req[t].op) \in PCs
      BY <1>6, RowsType DEF Read, StatusAllows, CanTransition, AfterRead, PCs
    <3> QED BY <1>6, <3>1 DEF Read, GoTo, TypeOK
  <2>2. seen' \in [Txn -> OrderRow]
    BY <1>6 DEF Read, TypeOK, Request
  <2> QED BY <1>6, <2>1, <2>2 DEF Read, TypeOK
<1>7. CASE ReadLines(t)
  <2>1. pc' \in [Txn -> PCs]
    BY <1>7 DEF ReadLines, GoTo, TypeOK, PCs
  <2>2. todo' \in [Txn -> SUBSET Reservation]
    BY <1>7 DEF ReadLines, LinesOf, TypeOK, Reservation
  <2> QED BY <1>7, <2>1, <2>2 DEF ReadLines, TypeOK
<1>8. CASE Find(t)
  BY <1>8 DEF Find, GoTo, TypeOK, PCs
<1>9. CASE Lock(t)
  <2>1. pc' \in [Txn -> PCs]
    BY <1>9 DEF Lock, GoTo, TypeOK, PCs
  <2>2. balanceLock' \in [Balance -> Txn \cup {NoTxn}]
    BY <1>9 DEF Lock, TypeOK
  <2> QED BY <1>9, <2>1, <2>2 DEF Lock, TypeOK
<1>10. CASE Insert(t)
  <2>1. pc' \in [Txn -> PCs]
    BY <1>10 DEF Insert, GoTo, TypeOK, PCs
  <2>2. todo' \in [Txn -> SUBSET Reservation]
    BY <1>10 DEF Insert, TypeOK
  <2>3. work' \in [Txn -> Work]
    <3>1. PICK r \in todo[t] : work' = [work EXCEPT ![t].ins = @ \cup {r}]
      BY <1>10 DEF Insert
    <3>2. work[t].ins \cup {r} \in SUBSET Reservation
      BY RowsType DEF TypeOK
    <3> QED BY <3>1, <3>2, WorkInsType DEF TypeOK
  <2> QED BY <1>10, <2>1, <2>2, <2>3 DEF Insert, TypeOK
<1>11. CASE Counter(t)
  <2>1. pc' \in [Txn -> PCs]
    BY <1>11 DEF Counter, GoTo, TypeOK, PCs
  <2>2. work' \in [Txn -> Work]
    BY <1>11, WorkNumType DEF Counter, TypeOK
  <2> QED BY <1>11, <2>1, <2>2 DEF Counter, TypeOK
<1>12. CASE ListHeld(t)
  <2>1. pc' \in [Txn -> PCs]
    BY <1>12 DEF ListHeld, GoTo, TypeOK, PCs
  <2>2. todo' \in [Txn -> SUBSET Reservation]
    BY <1>12 DEF ListHeld, TypeOK
  <2> QED BY <1>12, <2>1, <2>2 DEF ListHeld, TypeOK
<1>13. CASE Release(t)
  <2>1. pc' \in [Txn -> PCs]
    BY <1>13 DEF Release, GoTo, TypeOK, PCs
  <2>2. todo' \in [Txn -> SUBSET Reservation]
    BY <1>13 DEF Release, TypeOK
  <2>3. work' \in [Txn -> Work]
    <3>1. PICK r \in todo[t] : work' = [work EXCEPT ![t].rel = @ \cup {r}]
      BY <1>13 DEF Release
    <3>2. work[t].rel \cup {r} \in SUBSET Reservation
      BY RowsType DEF TypeOK
    <3> QED BY <3>1, <3>2, WorkRelType DEF TypeOK
  <2>4. balanceLock' \in [Balance -> Txn \cup {NoTxn}]
    BY <1>13 DEF Release, TypeOK
  <2> QED BY <1>13, <2>1, <2>2, <2>3, <2>4 DEF Release, TypeOK
<1>14. CASE Header(t)
  <2>1. pc' \in [Txn -> PCs]
    BY <1>14 DEF Header, GoTo, TypeOK, PCs
  <2>2. TransitionRow(t) \in OrderRow
    BY RowsType DEF TransitionRow, TargetStatus, OrderRow, Statuses
  <2>3. work' \in [Txn -> Work]
    BY <1>14, <2>2, WorkRowType DEF Header, TypeOK
  <2>4. orderLock' \in [Order -> Txn \cup {NoTxn}]
    BY <1>14 DEF Header, TypeOK
  <2> QED BY <1>14, <2>1, <2>3, <2>4 DEF Header, TypeOK
<1>15. CASE LockDraft(t)
  <2>1. pc' \in [Txn -> PCs]
    BY <1>15 DEF LockDraft, GoTo, TypeOK, PCs
  <2>2. todo' \in [Txn -> SUBSET Reservation]
    BY <1>15 DEF LockDraft, LinesOf, TypeOK, Reservation
  <2>3. orderLock' \in [Order -> Txn \cup {NoTxn}]
    BY <1>15 DEF LockDraft, TypeOK
  <2> QED BY <1>15, <2>1, <2>2, <2>3 DEF LockDraft, TypeOK
<1>16. CASE DeleteLine(t)
  <2>1. pc' \in [Txn -> PCs]
    BY <1>16 DEF DeleteLine, GoTo, TypeOK, PCs
  <2>2. todo' \in [Txn -> SUBSET Reservation]
    BY <1>16 DEF DeleteLine, TypeOK
  <2>3. work' \in [Txn -> Work]
    <3>1. PICK l \in Line : work' = [work EXCEPT ![t].del = @ \cup {l}]
      BY <1>16 DEF DeleteLine
    <3>2. work[t].del \cup {l} \in SUBSET Line
      BY RowsType
    <3> QED BY <3>1, <3>2, WorkDelType DEF TypeOK
  <2>4. lineLock' \in [Line -> Txn \cup {NoTxn}]
    BY <1>16 DEF DeleteLine, TypeOK
  <2> QED BY <1>16, <2>1, <2>2, <2>3, <2>4 DEF DeleteLine, TypeOK
<1>17. CASE InsertLines(t)
  <2>1. pc' \in [Txn -> PCs]
    BY <1>17 DEF InsertLines, GoTo, TypeOK, PCs
  <2>2. EditedRow(orders[req[t].order], req[t].lines) \in OrderRow
    BY RowsType, EditedRowType
  <2>3. work' \in [Txn -> Work]
    <3> DEFINE r == EditedRow(orders[req[t].order], req[t].lines)
               L == req[t].lines
    <3>1. work' = [work EXCEPT ![t].add = L, ![t].row = r]
      BY <1>17 DEF InsertLines
    <3>2. work \in [Txn -> Work] /\ r \in OrderRow /\ L \in SUBSET Line
      BY <2>2, RowsType DEF TypeOK
    <3> HIDE DEF r, L
    <3> QED BY <3>1, <3>2, WorkEditType
  <2> QED BY <1>17, <2>1, <2>3 DEF InsertLines, TypeOK
<1>18. CASE Commit(t)
  <2>1. orders' \in [Order -> OrderRow]
    BY <1>18 DEF Commit, TypeOK, Work, Request
  <2>2. /\ live' \subseteq Line /\ active' \subseteq Reservation
        /\ released' \subseteq Reservation /\ nextValue' \in Nat \ {0}
    BY <1>18 DEF Commit, TypeOK, Work
  <2>3. pc' \in [Txn -> PCs]
    BY <1>18 DEF Commit, GoTo, TypeOK, PCs, Final
  <2>4. UNCHANGED <<onHand, req, issued, attempt>> /\ ReleaseLocks(t) /\ Forget(t)
    BY <1>18 DEF Commit
  <2> QED BY <2>1, <2>2, <2>3, <2>4, ReleaseLocksType, ForgetType DEF TypeOK
<1> QED BY <1>2, <1>3, <1>4, <1>5, <1>6, <1>7, <1>8, <1>9, <1>10, <1>11, <1>12,
           <1>13, <1>14, <1>15, <1>16, <1>17, <1>18 DEF Statement

\* Every variable keeps its type, whatever requests overlap.
THEOREM TypeCorrect == Spec => []TypeOK
BY TypeInit, TypeStep, PTL DEF Spec

-----------------------------------------------------------------------------
(* The inductive invariant *)

\* The statement a request is at belongs to its operation.
StatementOfOp(t) ==
  /\ pc[t] # "idle" => req[t].op \in {"confirm", "cancel", "edit"}
  /\ pc[t] \in {"lines", "find", "lock", "insert", "counter"} =>
       req[t].op = "confirm"
  /\ pc[t] \in {"held", "release"} => req[t].op = "cancel"
  /\ pc[t] \in {"lockDraft", "delete", "insertLines"} => req[t].op = "edit"
  /\ pc[t] = "header" => req[t].op \in {"confirm", "cancel"}

\* What an operation can have written so far.
WritesOfOp(t) ==
  /\ pc[t] \in {"idle", "read", "lines", "held", "lockDraft"} \cup Final =>
       work[t] = NoWork
  /\ req[t].op # "confirm" => work[t].ins = {} /\ work[t].num = 0
  /\ req[t].op # "cancel" => work[t].rel = {}

ControlInv == \A t \in Txn : StatementOfOp(t) /\ WritesOfOp(t)

\* A transaction that has passed its first statement has read the order as it
\* is, or an earlier version of it; in a status its transition leaves from.
ReadTheOrder(t) ==
  LET row == orders[req[t].order]
  IN  pc[t] \notin {"idle", "read"} \cup Final =>
        /\ seen[t].version <= row.version
        /\ seen[t].version = row.version => seen[t] = row
        /\ row.status # "absent"
        /\ req[t].op \in {"confirm", "cancel"} =>
             CanTransition(seen[t].status, TargetStatus(req[t].op))

\* A transaction that is going to write the header holds its lock, and writes
\* a successor of the row that is there.
WritesTheOrder(t) ==
  LET row == orders[req[t].order]
  IN  /\ pc[t] \in {"delete", "insertLines", "commit"} =>
           orderLock[req[t].order] = t
      /\ pc[t] \in {"delete", "insertLines"} =>
           row.status = "draft" /\ row.version = req[t].version
      /\ pc[t] = "commit" =>
           /\ work[t].row.version = row.version + 1
           /\ req[t].op = "edit" =>
                /\ row.status = "draft" /\ work[t].row.status = "draft"
                /\ row.version = req[t].version
                /\ work[t].row.number = row.number
           /\ req[t].op = "confirm" =>
                /\ row.status = "draft" /\ work[t].row.status = "confirmed"
                /\ work[t].row.number = work[t].num
           /\ req[t].op = "cancel" =>
                /\ row.status \in {"draft", "confirmed"}
                /\ work[t].row.status = "cancelled"
                /\ work[t].row.number = row.number

\* A number taken from the counter is the next one, for whoever has the lock.
HoldsTheNumber(t) ==
  /\ work[t].num # 0 => counterLock = t /\ work[t].num = nextValue
  /\ pc[t] \in {"header", "commit"} /\ req[t].op = "confirm" => work[t].num # 0

NumberInv ==
  /\ \A t \in Txn : ReadTheOrder(t) /\ WritesTheOrder(t) /\ HoldsTheNumber(t)
  /\ \A o \in Order : orders[o].status \in {"absent", "draft"} =>
                       orders[o].number = 0
  /\ \A o \in Order : orders[o].status = "absent" => orders[o].version = 0
  /\ NumbersGapless

\* The reservations that are active, and those somebody may still commit.
Pending == {r \in Reservation : \E t \in Txn : r \in work[t].ins}
Promised(b) == OnBalance(active \cup Pending, b)

\* What a confirmation has inserted is its own, and under its locks.
OwnsItsInserts(t) ==
  /\ \A r \in work[t].ins :
       r[1] = t /\ r \notin todo[t] /\ balanceLock[LineBalance[r[2]]] = t
  /\ pc[t] \in {"find", "lock", "insert"} => \A r \in todo[t] : r[1] = t
  /\ pc[t] \notin Final => \A r \in active : r[1] # t

\* Between the lock and the insert there is room for the next reservation.
HasRoom(t) ==
  pc[t] = "insert" =>
    \A r \in todo[t] : IsNext(t, r) =>
      LET b == LineBalance[r[2]]
      IN  /\ balanceLock[b] = t
          /\ Total(Promised(b), ReservationQty) + LineQty[r[2]] <= onHand[b]

StockInv ==
  /\ \A t \in Txn : OwnsItsInserts(t) /\ HasRoom(t)
  /\ \A b \in Balance : Total(Promised(b), ReservationQty) <= onHand[b]

-----------------------------------------------------------------------------
(* What a step leaves alone, and what it writes *)

StepOf(t) ==
  Begin(t) \/ Statement(t) \/ ChecksFail(t) \/ Crash(t) \/ DeadlockVictim(t)

\* The steps that end in a rollback.
RefusalOf(t) ==
  \/ ReadRefused(t) \/ LineGone(t) \/ Insufficient(t)
  \/ ReleaseConflict(t) \/ HeaderConflict(t) \/ EditConflict(t)
  \/ ChecksFail(t) \/ ForeignKeyFails(t) \/ Crash(t) \/ DeadlockVictim(t)

LEMMA RefusalRollsBack ==
  ASSUME TypeOK, NEW t \in Txn, RefusalOf(t)
  PROVE  \E next \in {"read", "refused", "failed"} : Rollback(t, next)
BY DEF RefusalOf, ReadRefused, LineGone, Insufficient, ReleaseConflict,
   HeaderConflict, EditConflict, ChecksFail, ForeignKeyFails, Crash,
   DeadlockVictim, Refuse

\* The victim of a deadlock is waiting, so it is at one of the statements that
\* can wait.
LEMMA VictimWaits ==
  ASSUME NEW t \in Txn, DeadlockVictim(t)
  PROVE  pc[t] \in {"lock", "release", "insert", "counter", "header", "lockDraft",
                   "delete"}
<1> SUFFICES ASSUME pc[t] \notin {"lock", "release", "insert", "counter",
                                "header", "lockDraft", "delete"}
             PROVE  FALSE
  OBVIOUS
<1>1. BlockedBy(t) = {}
  BY DEF BlockedBy
<1>2. t \in {}
  BY <1>1 DEF DeadlockVictim, WaitsForItself
<1> QED BY <1>2

\* The requests other than t are where they were.
OthersStay(t) ==
  \A u \in Txn \ {t} : /\ pc'[u] = pc[u] /\ req'[u] = req[u]
                       /\ seen'[u] = seen[u] /\ todo'[u] = todo[u]
                       /\ work'[u] = work[u]

LEMMA StepIsLocal ==
  ASSUME TypeOK, NEW t \in Txn, StepOf(t)
  PROVE  OthersStay(t)
<1> USE DEF OthersStay, TypeOK, db, locks, progress, GoTo
<1>1. CASE RefusalOf(t)
  BY <1>1, RefusalRollsBack DEF Rollback, Forget
<1>2. CASE Begin(t)
  BY <1>2 DEF Begin
<1>3. CASE Read(t)
  BY <1>3 DEF Read
<1>4. CASE ReadLines(t)
  BY <1>4 DEF ReadLines
<1>5. CASE Find(t)
  BY <1>5 DEF Find
<1>6. CASE Lock(t)
  BY <1>6 DEF Lock
<1>7. CASE Insert(t)
  BY <1>7 DEF Insert
<1>8. CASE Counter(t)
  BY <1>8 DEF Counter
<1>9. CASE ListHeld(t)
  BY <1>9 DEF ListHeld
<1>10. CASE Release(t)
  BY <1>10 DEF Release
<1>11. CASE Header(t)
  BY <1>11 DEF Header
<1>12. CASE LockDraft(t)
  BY <1>12 DEF LockDraft
<1>13. CASE DeleteLine(t)
  BY <1>13 DEF DeleteLine
<1>14. CASE InsertLines(t)
  BY <1>14 DEF InsertLines
<1>15. CASE Commit(t)
  BY <1>15 DEF Commit, Forget
<1> QED BY <1>1, <1>2, <1>3, <1>4, <1>5, <1>6, <1>7, <1>8, <1>9, <1>10, <1>11,
           <1>12, <1>13, <1>14, <1>15 DEF StepOf, Statement, RefusalOf

\* What a request asks for when it arrives.
LEMMA BeginAsks ==
  ASSUME TypeOK, NEW t \in Txn, Begin(t)
  PROVE  \/ /\ req'[t].op \in {"confirm", "cancel"}
            /\ req'[t].lines = req[t].lines /\ issued' = issued
         \/ /\ req'[t].op = "edit" /\ req'[t].lines # {}
            /\ req'[t].lines \cap issued = {}
            /\ \A l \in req'[t].lines : LineOrder[l] = req'[t].order
            /\ issued' = issued \cup req'[t].lines
<1>1. PICK o \in Order :
        \/ \E op \in {"confirm", "cancel"} :
             /\ req' = [req EXCEPT ![t].op = op, ![t].order = o]
             /\ UNCHANGED issued
        \/ \E v \in 1 .. orders[o].version, lines \in SUBSET (Line \ issued) :
             /\ lines # {} /\ \A l \in lines : LineOrder[l] = o
             /\ req' = [req EXCEPT ![t] = [op |-> "edit", order |-> o,
                                          version |-> v, lines |-> lines]]
             /\ issued' = issued \cup lines
  BY ConstantsAssumption DEF Begin
<1>2. ASSUME NEW op \in {"confirm", "cancel"},
             req' = [req EXCEPT ![t].op = op, ![t].order = o]
      PROVE  req'[t].op = op /\ req'[t].lines = req[t].lines
  <2>1. req' = [req EXCEPT ![t] = [req[t] EXCEPT !.op = op, !.order = o]]
    BY <1>2
  <2> QED BY <2>1 DEF TypeOK, Request
<1>3. ASSUME NEW v \in 1 .. orders[o].version,
             NEW lines \in SUBSET (Line \ issued),
             req' = [req EXCEPT ![t] = [op |-> "edit", order |-> o,
                                        version |-> v, lines |-> lines]]
      PROVE  req'[t].op = "edit" /\ req'[t].lines = lines /\ req'[t].order = o
  BY <1>3 DEF TypeOK
<1> QED BY <1>1, <1>2, <1>3

\* The uncommitted writes of a transaction after a rollback.
LEMMA RollbackForgets ==
  ASSUME TypeOK, NEW t \in Txn, NEW next, Rollback(t, next)
  PROVE  pc'[t] = next /\ work'[t] = NoWork /\ todo'[t] = {} /\ UNCHANGED <<db, req>>
BY DEF Rollback, Forget, TypeOK

\* The six statements that write, field by field.
LEMMA InsertWrites ==
  ASSUME TypeOK, NEW t \in Txn, Insert(t)
  PROVE  \E r \in todo[t] :
           /\ IsNext(t, r)
           /\ todo'[t] = todo[t] \ {r}
           /\ work'[t].ins = work[t].ins \cup {r}
           /\ work'[t].rel = work[t].rel /\ work'[t].num = work[t].num
BY DEF Insert, TypeOK, Work

LEMMA CounterWrites ==
  ASSUME TypeOK, NEW t \in Txn, Counter(t)
  PROVE  /\ work'[t].num = nextValue
         /\ work'[t].ins = work[t].ins /\ work'[t].rel = work[t].rel
BY DEF Counter, TypeOK, Work

LEMMA ReleaseWrites ==
  ASSUME TypeOK, NEW t \in Txn, Release(t)
  PROVE  work'[t].ins = work[t].ins /\ work'[t].num = work[t].num
BY DEF Release, TypeOK, Work

LEMMA HeaderWrites ==
  ASSUME TypeOK, NEW t \in Txn, Header(t)
  PROVE  /\ work'[t].row = TransitionRow(t) /\ work'[t].num = work[t].num
         /\ work'[t].ins = work[t].ins /\ work'[t].rel = work[t].rel
BY DEF Header, TypeOK, Work

LEMMA DeleteLineWrites ==
  ASSUME TypeOK, NEW t \in Txn, DeleteLine(t)
  PROVE  /\ work'[t].num = work[t].num
         /\ work'[t].ins = work[t].ins /\ work'[t].rel = work[t].rel
BY DEF DeleteLine, TypeOK, Work

LEMMA InsertLinesWrites ==
  ASSUME TypeOK, NEW t \in Txn, InsertLines(t)
  PROVE  /\ work'[t].row = EditedRow(orders[req[t].order], req[t].lines)
         /\ work'[t].num = work[t].num
         /\ work'[t].ins = work[t].ins /\ work'[t].rel = work[t].rel
BY DEF InsertLines, TypeOK, Work

-----------------------------------------------------------------------------
(* Where a request is, and what it has written *)

LEMMA ControlInit == Init => ControlInv
<1> SUFFICES ASSUME Init, NEW t \in Txn PROVE StatementOfOp(t) /\ WritesOfOp(t)
  BY DEF ControlInv
<1>1. pc[t] = "idle" /\ req[t].op = "none" /\ work[t] = NoWork
  BY DEF Init
<1> QED BY <1>1 DEF StatementOfOp, WritesOfOp, NoWork

LEMMA ControlStep == TypeOK /\ ControlInv /\ [Next]_vars => ControlInv'
<1> SUFFICES ASSUME TypeOK, ControlInv, [Next]_vars PROVE ControlInv'
  OBVIOUS
<1> DEFINE Ctl(t) == StatementOfOp(t) /\ WritesOfOp(t)
<1>1. CASE UNCHANGED <<pc, req, work>>
  BY <1>1 DEF ControlInv, StatementOfOp, WritesOfOp
<1>2. ASSUME NEW t \in Txn, StepOf(t) PROVE ControlInv'
  <2>1. SUFFICES Ctl(t)'
    <3>1. ASSUME NEW u \in Txn \ {t} PROVE Ctl(u)'
      BY <1>2, <3>1, StepIsLocal DEF OthersStay, ControlInv, StatementOfOp,
         WritesOfOp
    <3> QED BY <3>1 DEF ControlInv
  <2>2. Ctl(t) /\ pc \in [Txn -> PCs] /\ req \in [Txn -> Request]
    BY DEF ControlInv, TypeOK
  <2> USE DEF db, locks, progress, GoTo
  <2>3. CASE RefusalOf(t)
    <3>1. PICK next \in {"read", "refused", "failed"} : Rollback(t, next)
      BY <2>3, RefusalRollsBack
    <3>2. pc'[t] = next /\ work'[t] = NoWork /\ req' = req
      BY <3>1, RollbackForgets
    <3>3. pc[t] # "idle"
      BY <2>3, VictimWaits DEF RefusalOf, ReadRefused, LineGone,
         Insufficient, ReleaseConflict, HeaderConflict, EditConflict,
         ChecksFail, ForeignKeyFails, Crash
    <3> QED BY <2>2, <3>2, <3>3 DEF StatementOfOp, WritesOfOp, NoWork, Final
  <2>4. CASE Begin(t)
    <3>1. pc'[t] = "read" /\ work'[t] = NoWork
      BY <2>2, <2>4 DEF Begin, WritesOfOp
    <3>2. req'[t].op \in {"confirm", "cancel", "edit"}
      BY <2>4, BeginAsks
    <3> QED BY <3>1, <3>2 DEF StatementOfOp, WritesOfOp, NoWork, Final
  <2>5. CASE Read(t)
    BY <2>2, <2>5 DEF Read, AfterRead, StatementOfOp, WritesOfOp, Final
  <2>6. CASE ReadLines(t) \/ Find(t) \/ Lock(t)
    BY <2>2, <2>6 DEF ReadLines, Find, Lock, StatementOfOp, WritesOfOp, Final
  <2>7. CASE Insert(t)
    <3>1. /\ work'[t].rel = work[t].rel /\ work'[t].num = work[t].num
          /\ pc'[t] \in {"counter", "find"} /\ req' = req
      BY <2>2, <2>7, InsertWrites DEF Insert
    <3> QED BY <2>2, <2>7, <3>1 DEF Insert, StatementOfOp, WritesOfOp, Final
  <2>8. CASE Counter(t)
    BY <2>2, <2>8, CounterWrites DEF Counter, StatementOfOp, WritesOfOp, Final
  <2>9. CASE ListHeld(t)
    BY <2>2, <2>9 DEF ListHeld, StatementOfOp, WritesOfOp, Final
  <2>10. CASE Release(t)
    BY <2>2, <2>10, ReleaseWrites DEF Release, StatementOfOp, WritesOfOp, Final
  <2>11. CASE Header(t)
    BY <2>2, <2>11, HeaderWrites DEF Header, StatementOfOp, WritesOfOp, Final
  <2>12. CASE LockDraft(t)
    BY <2>2, <2>12 DEF LockDraft, StatementOfOp, WritesOfOp, Final, NoWork
  <2>13. CASE DeleteLine(t)
    BY <2>2, <2>13, DeleteLineWrites DEF DeleteLine, StatementOfOp, WritesOfOp,
       Final
  <2>14. CASE InsertLines(t)
    BY <2>2, <2>14, InsertLinesWrites DEF InsertLines, StatementOfOp,
       WritesOfOp, Final
  <2>15. CASE Commit(t)
    <3>1. pc'[t] = "answered" /\ work'[t] = NoWork /\ req' = req
      BY <2>15 DEF Commit, Forget, TypeOK
    <3> QED BY <2>2, <2>15, <3>1 DEF Commit, StatementOfOp, WritesOfOp, NoWork,
       Final
  <2> QED BY <1>2, <2>3, <2>4, <2>5, <2>6, <2>7, <2>8, <2>9, <2>10, <2>11, <2>12,
             <2>13, <2>14, <2>15 DEF StepOf, Statement, RefusalOf
<1>3. ASSUME NEW o \in Order, NEW lines \in SUBSET Line, CreateDraft(o, lines)
      PROVE  UNCHANGED <<pc, req, work>>
  BY <1>3 DEF CreateDraft, progress
<1>4. CASE UNCHANGED vars \/ Finished
  BY <1>1, <1>4 DEF vars, progress, Finished
<1> QED BY <1>1, <1>2, <1>3, <1>4 DEF Next, StepOf

-----------------------------------------------------------------------------
(* Versions and numbers *)

\* A step takes no lock away from another transaction.
LEMMA LocksAreKept ==
  ASSUME TypeOK, NEW t \in Txn, StepOf(t), NEW u \in Txn \ {t}
  PROVE  /\ \A o \in Order : orderLock[o] = u => orderLock'[o] = u
         /\ \A b \in Balance : balanceLock[b] = u => balanceLock'[b] = u
         /\ counterLock = u => counterLock' = u
<1> USE DEF TypeOK, locks
<1>0. u # NoTxn
  BY ConstantsAssumption
<1>1. CASE RefusalOf(t) \/ Commit(t)
  BY <1>1, RefusalRollsBack DEF Rollback, Commit, ReleaseLocks, Freed
<1>2. CASE \/ Begin(t) \/ Read(t) \/ ReadLines(t) \/ Find(t) \/ Insert(t)
           \/ ListHeld(t) \/ DeleteLine(t) \/ InsertLines(t)
  BY <1>2 DEF Begin, Read, ReadLines, Find, Insert, ListHeld, DeleteLine,
     InsertLines
<1>3. CASE Lock(t) \/ Release(t)
  BY <1>0, <1>3 DEF Lock, Release, BalanceGrantable, Grantable
<1>4. CASE Counter(t)
  BY <1>0, <1>4 DEF Counter, CounterGrantable, Grantable
<1>5. CASE Header(t) \/ LockDraft(t)
  BY <1>0, <1>5, RowsType DEF Header, LockDraft, Grantable
<1> QED BY <1>1, <1>2, <1>3, <1>4, <1>5 DEF StepOf, Statement, RefusalOf

LEMMA NumberInit == Init => NumberInv
<1> SUFFICES ASSUME Init PROVE NumberInv
  OBVIOUS
<1>1. ASSUME NEW t \in Txn
      PROVE  ReadTheOrder(t) /\ WritesTheOrder(t) /\ HoldsTheNumber(t)
  <2>1. pc[t] = "idle" /\ work[t] = NoWork
    BY DEF Init
  <2> QED BY <2>1 DEF ReadTheOrder, WritesTheOrder, HoldsTheNumber, NoWork
<1>2. \A o \in Order : orders[o].number = 0
  BY DEF Init, NoOrder
<1>3. nextValue = 1
  BY DEF Init
<1>4. NumbersGapless
  BY <1>2, <1>3 DEF NumbersGapless
<1>5. \A o \in Order : orders[o].status = "absent" => orders[o].version = 0
  BY DEF Init, NoOrder
<1> QED BY <1>1, <1>2, <1>4, <1>5 DEF NumberInv

\* The steps that leave the orders and the counter's value as they are.
LEMMA NumberQuietStep ==
  ASSUME TypeOK, ControlInv, NumberInv, NEW t \in Txn, StepOf(t), ~Commit(t)
  PROVE  NumberInv'
<1> DEFINE row == orders[req[t].order]
<1>1. UNCHANGED <<orders, nextValue>>
  <2>1. CASE RefusalOf(t)
    BY <2>1, RefusalRollsBack, RollbackForgets DEF db
  <2>2. CASE ~RefusalOf(t)
    BY <2>2 DEF StepOf, RefusalOf, Statement, db, Begin, Read, ReadLines, Find,
       Lock, Insert, Counter, ListHeld, Release, Header, LockDraft, DeleteLine,
       InsertLines
  <2> QED BY <2>1, <2>2
<1>2. ASSUME NEW u \in Txn \ {t}
      PROVE  (ReadTheOrder(u) /\ WritesTheOrder(u) /\ HoldsTheNumber(u))'
  <2>1. /\ ReadTheOrder(u) /\ WritesTheOrder(u) /\ HoldsTheNumber(u)
        /\ req[u].order \in Order
    BY RowsType DEF NumberInv
  <2>2. /\ pc'[u] = pc[u] /\ req'[u] = req[u] /\ seen'[u] = seen[u]
        /\ work'[u] = work[u]
    BY StepIsLocal DEF OthersStay
  <2>3. /\ orderLock[req[u].order] = u => orderLock'[req[u].order] = u
        /\ counterLock = u => counterLock' = u
    BY <2>1, LocksAreKept
  <2> QED BY <1>1, <2>1, <2>2, <2>3 DEF ReadTheOrder, WritesTheOrder,
          HoldsTheNumber
<1>3. (ReadTheOrder(t) /\ WritesTheOrder(t) /\ HoldsTheNumber(t))'
  <2>1. /\ ReadTheOrder(t) /\ WritesTheOrder(t) /\ HoldsTheNumber(t)
        /\ StatementOfOp(t) /\ WritesOfOp(t)
        /\ pc \in [Txn -> PCs] /\ orderLock \in [Order -> Txn \cup {NoTxn}]
    BY DEF NumberInv, ControlInv, TypeOK
  <2>2. req[t].order \in Order /\ row \in OrderRow /\ seen[t] \in OrderRow
    BY RowsType
  <2> USE DEF db, locks, progress, GoTo
  <2>3. CASE RefusalOf(t)
    <3>1. PICK next \in {"read", "refused", "failed"} : Rollback(t, next)
      BY <2>3, RefusalRollsBack
    <3>2. pc'[t] = next /\ work'[t] = NoWork /\ req' = req
      BY <3>1, RollbackForgets
    <3> QED BY <3>2 DEF ReadTheOrder, WritesTheOrder, HoldsTheNumber, NoWork, Final
  <2>4. CASE Begin(t)
    <3>1. pc'[t] = "read" /\ work'[t] = NoWork
      BY <2>1, <2>4 DEF Begin, WritesOfOp
    <3> QED BY <3>1 DEF ReadTheOrder, WritesTheOrder, HoldsTheNumber, NoWork
  <2>5. CASE Read(t)
    <3>1. /\ seen'[t] = row /\ work' = work /\ req' = req
          /\ pc'[t] \in {"lines", "held", "lockDraft"}
      BY <2>1, <2>5 DEF Read, AfterRead, TypeOK
    <3>2. row.version <= row.version /\ row.status # "absent"
      BY <2>2, <2>5 DEF Read, StatusAllows, CanTransition, OrderRow
    <3>3. req[t].op \in {"confirm", "cancel"} =>
            CanTransition(row.status, TargetStatus(req[t].op))
      BY <2>5 DEF Read, StatusAllows
    <3>4. work[t] = NoWork
      BY <2>1, <2>5 DEF Read, WritesOfOp
    <3> QED BY <1>1, <3>1, <3>2, <3>3, <3>4 DEF ReadTheOrder, WritesTheOrder,
            HoldsTheNumber, NoWork
  <2>6. CASE ReadLines(t) \/ Find(t) \/ Lock(t) \/ ListHeld(t)
    <3>1. /\ UNCHANGED <<seen, work, req, counterLock>>
          /\ pc'[t] \in {"find", "lock", "insert", "release", "header"}
      BY <2>1, <2>6 DEF ReadLines, Find, Lock, ListHeld
    <3>2. pc[t] \notin {"idle", "read"} \cup Final
      BY <2>6 DEF ReadLines, Find, Lock, ListHeld, Final
    <3>3. pc'[t] = "header" => req[t].op # "confirm"
      BY <2>1, <2>6 DEF ReadLines, Find, Lock, ListHeld, StatementOfOp
    <3> QED BY <1>1, <2>1, <3>1, <3>2, <3>3 DEF ReadTheOrder, WritesTheOrder,
            HoldsTheNumber
  <2>7. CASE Insert(t)
    <3>1. /\ UNCHANGED <<seen, req, counterLock>> /\ work'[t].num = work[t].num
          /\ pc'[t] \in {"find", "counter"}
      BY <2>1, <2>7, InsertWrites DEF Insert
    <3>2. pc[t] \notin {"idle", "read"} \cup Final
      BY <2>7 DEF Insert, Final
    <3> QED BY <1>1, <2>1, <3>1, <3>2 DEF ReadTheOrder, WritesTheOrder,
            HoldsTheNumber
  <2>8. CASE Counter(t)
    <3>1. /\ UNCHANGED <<seen, req>> /\ counterLock' = t
          /\ work'[t].num = nextValue /\ pc'[t] = "header"
      BY <2>1, <2>8, CounterWrites DEF Counter
    <3>2. pc[t] \notin {"idle", "read"} \cup Final
      BY <2>8 DEF Counter, Final
    <3>3. nextValue # 0
      BY DEF TypeOK
    <3> QED BY <1>1, <2>1, <3>1, <3>2, <3>3 DEF ReadTheOrder, WritesTheOrder,
            HoldsTheNumber
  <2>9. CASE Release(t)
    <3>1. /\ UNCHANGED <<seen, req, counterLock>> /\ work'[t].num = work[t].num
          /\ pc'[t] \in {"release", "header"} /\ req[t].op = "cancel"
      BY <2>1, <2>9, ReleaseWrites DEF Release, StatementOfOp
    <3>2. pc[t] \notin {"idle", "read"} \cup Final
      BY <2>9 DEF Release, Final
    <3> QED BY <1>1, <2>1, <3>1, <3>2 DEF ReadTheOrder, WritesTheOrder,
            HoldsTheNumber
  <2>10. CASE Header(t)
    <3>1. /\ UNCHANGED <<seen, req, counterLock>> /\ pc'[t] = "commit"
          /\ orderLock'[req[t].order] = t
          /\ work'[t].row = TransitionRow(t) /\ work'[t].num = work[t].num
      BY <2>1, <2>2, <2>10, HeaderWrites DEF Header
    <3>2. pc[t] = "header" /\ pc[t] \notin {"idle", "read"} \cup Final
      BY <2>10 DEF Header, Final
    <3>3. seen[t] = row /\ req[t].op \in {"confirm", "cancel"}
      BY <2>1, <2>10, <3>2 DEF Header, Unmoved, ReadTheOrder, StatementOfOp
    <3>4. CanTransition(row.status, TargetStatus(req[t].op))
      BY <2>1, <3>2, <3>3 DEF ReadTheOrder
    <3>5. req[t].op = "confirm" =>
            /\ row.status = "draft"
            /\ TransitionRow(t).status = "confirmed"
            /\ TransitionRow(t).number = work[t].num
      BY <3>4 DEF CanTransition, TargetStatus, TransitionRow
    <3>6. req[t].op = "cancel" =>
            /\ row.status \in {"draft", "confirmed"}
            /\ TransitionRow(t).status = "cancelled"
            /\ TransitionRow(t).number = row.number
      BY <3>3, <3>4 DEF CanTransition, TargetStatus, TransitionRow
    <3>7. TransitionRow(t).version = row.version + 1
      BY DEF TransitionRow
    <3>8. ReadTheOrder(t)'
      BY <1>1, <2>1, <3>1, <3>2 DEF ReadTheOrder
    <3>9. WritesTheOrder(t)'
      BY <1>1, <3>1, <3>3, <3>5, <3>6, <3>7 DEF WritesTheOrder
    <3>10. HoldsTheNumber(t)'
      BY <1>1, <2>1, <3>1, <3>2 DEF HoldsTheNumber
    <3> QED BY <3>8, <3>9, <3>10
  <2>11. CASE LockDraft(t)
    <3>1. /\ UNCHANGED <<seen, req, counterLock, work>>
          /\ pc'[t] \in {"insertLines", "delete"}
          /\ orderLock'[req[t].order] = t
          /\ row.status = "draft" /\ row.version = req[t].version
      BY <2>1, <2>2, <2>11 DEF LockDraft, DraftUnmoved
    <3>2. pc[t] \notin {"idle", "read"} \cup Final
      BY <2>11 DEF LockDraft, Final
    <3> QED BY <1>1, <2>1, <3>1, <3>2 DEF ReadTheOrder, WritesTheOrder,
            HoldsTheNumber
  <2>12. CASE DeleteLine(t)
    <3>1. /\ UNCHANGED <<seen, req, counterLock, orderLock>>
          /\ work'[t].num = work[t].num
          /\ pc'[t] \in {"insertLines", "delete"}
      BY <2>1, <2>12, DeleteLineWrites DEF DeleteLine
    <3>2. pc[t] = "delete" /\ pc[t] \notin {"idle", "read"} \cup Final
      BY <2>12 DEF DeleteLine, Final
    <3> QED BY <1>1, <2>1, <3>1, <3>2 DEF ReadTheOrder, WritesTheOrder,
            HoldsTheNumber
  <2>13. CASE InsertLines(t)
    <3>1. /\ UNCHANGED <<seen, req, counterLock, orderLock>>
          /\ work'[t].row = EditedRow(row, req[t].lines)
          /\ work'[t].num = work[t].num /\ pc'[t] = "commit"
      BY <2>1, <2>13, InsertLinesWrites DEF InsertLines
    <3>2. /\ pc[t] = "insertLines" /\ pc[t] \notin {"idle", "read"} \cup Final
          /\ req[t].op = "edit"
      BY <2>1, <2>13 DEF InsertLines, Final, StatementOfOp
    <3>3. /\ EditedRow(row, req[t].lines).version = row.version + 1
          /\ EditedRow(row, req[t].lines).status = row.status
          /\ EditedRow(row, req[t].lines).number = row.number
      BY <2>2 DEF EditedRow, OrderRow
    <3>4. ReadTheOrder(t)' /\ HoldsTheNumber(t)'
      BY <1>1, <2>1, <3>1, <3>2 DEF ReadTheOrder, HoldsTheNumber
    <3>5. WritesTheOrder(t)'
      BY <1>1, <2>1, <3>1, <3>2, <3>3 DEF WritesTheOrder
    <3> QED BY <3>4, <3>5
  <2> QED BY <2>3, <2>4, <2>5, <2>6, <2>7, <2>8, <2>9, <2>10, <2>11, <2>12, <2>13
          DEF StepOf, Statement, RefusalOf
<1> QED BY <1>1, <1>2, <1>3 DEF NumberInv, NumbersGapless

\* A new draft has no number, and nobody is working on its order yet.
LEMMA NumberCreateStep ==
  ASSUME TypeOK, NumberInv, NEW o \in Order, NEW lines \in SUBSET Line,
         CreateDraft(o, lines)
  PROVE  NumberInv'
<1>1. /\ UNCHANGED <<pc, seen, work, req, orderLock, counterLock, nextValue>>
      /\ orders[o].status = "absent"
  BY DEF CreateDraft, progress, locks
<1>2. orders'[o].status = "draft" /\ orders'[o].number = orders[o].number
  BY DEF CreateDraft, TypeOK, OrderRow
<1>3. \A p \in Order \ {o} : orders'[p] = orders[p]
  BY DEF CreateDraft, TypeOK
<1>4. ASSUME NEW t \in Txn
      PROVE  (ReadTheOrder(t) /\ WritesTheOrder(t) /\ HoldsTheNumber(t))'
  <2>1. /\ ReadTheOrder(t) /\ WritesTheOrder(t) /\ HoldsTheNumber(t)
        /\ req[t].order \in Order
    BY RowsType DEF NumberInv
  <2>2. HoldsTheNumber(t)'
    BY <1>1, <2>1 DEF HoldsTheNumber
  <2>3. CASE pc[t] \in {"idle", "read"} \cup Final
    <3>1. pc[t] \notin {"delete", "insertLines", "commit"}
      BY <2>3 DEF Final
    <3> QED BY <1>1, <2>2, <2>3, <3>1 DEF ReadTheOrder, WritesTheOrder
  <2>4. CASE pc[t] \notin {"idle", "read"} \cup Final
    <3>1. req[t].order # o
      BY <1>1, <2>1, <2>4 DEF ReadTheOrder
    <3>2. orders'[req[t].order] = orders[req[t].order]
      BY <1>3, <2>1, <3>1
    <3> QED BY <1>1, <2>1, <2>2, <3>2 DEF ReadTheOrder, WritesTheOrder
  <2> QED BY <2>3, <2>4
<1>5. \A p \in Order : orders'[p].number = orders[p].number
  BY <1>2, <1>3
<1>6. \A p \in Order : orders'[p].status \in {"absent", "draft"} =>
                        orders'[p].number = 0
  BY <1>1, <1>2, <1>3 DEF NumberInv
<1>7. NumbersGapless'
  BY <1>1, <1>5 DEF NumberInv, NumbersGapless
<1>8. \A p \in Order : orders'[p].status = "absent" => orders'[p].version = 0
  BY <1>2, <1>3 DEF NumberInv
<1> QED BY <1>4, <1>6, <1>7, <1>8 DEF NumberInv

\* A commit replaces the row under the lock it holds.  A confirmation adds the
\* number nextValue to those issued; the other operations issue none.
LEMMA NumberCommitStep ==
  ASSUME TypeOK, ControlInv, NumberInv, NEW t \in Txn, Commit(t)
  PROVE  NumberInv'
<1> DEFINE o == req[t].order
           new == work[t].row
<1>1. /\ o \in Order /\ new \in OrderRow /\ orders \in [Order -> OrderRow]
      /\ nextValue \in Nat \ {0} /\ work[t].num \in Nat
  BY RowsType DEF TypeOK
<1>2. /\ pc[t] = "commit" /\ orders'[o] = new
      /\ \A p \in Order \ {o} : orders'[p] = orders[p]
      /\ nextValue' = IF work[t].num = 0 THEN nextValue ELSE work[t].num + 1
  BY <1>1 DEF Commit
<1>3. /\ StatementOfOp(t) /\ WritesOfOp(t)
      /\ WritesTheOrder(t) /\ HoldsTheNumber(t)
  BY DEF ControlInv, NumberInv
<1>4. /\ orderLock[o] = t /\ new.version = orders[o].version + 1
      /\ req[t].op \in {"confirm", "cancel", "edit"}
  BY <1>2, <1>3 DEF WritesTheOrder, StatementOfOp
<1>5. req[t].op = "confirm" =>
        /\ orders[o].number = 0 /\ new.status = "confirmed"
        /\ new.number = nextValue /\ nextValue' = nextValue + 1
        /\ counterLock = t
  BY <1>1, <1>2, <1>3 DEF WritesTheOrder, HoldsTheNumber, NumberInv
<1>6. req[t].op # "confirm" =>
        /\ new.number = orders[o].number /\ nextValue' = nextValue
        /\ new.status = "draft" => orders[o].status = "draft"
        /\ new.status # "absent"
  BY <1>2, <1>3, <1>4 DEF WritesTheOrder, WritesOfOp
<1>7. (ReadTheOrder(t) /\ WritesTheOrder(t) /\ HoldsTheNumber(t))'
  <2>1. pc'[t] = "answered" /\ work'[t] = NoWork
    BY DEF Commit, GoTo, Forget, TypeOK
  <2> QED BY <2>1 DEF ReadTheOrder, WritesTheOrder, HoldsTheNumber, NoWork, Final
<1>8. ASSUME NEW u \in Txn \ {t}
      PROVE  (ReadTheOrder(u) /\ WritesTheOrder(u) /\ HoldsTheNumber(u))'
  <2>1. /\ ReadTheOrder(u) /\ WritesTheOrder(u) /\ HoldsTheNumber(u)
        /\ req[u].order \in Order /\ seen[u] \in OrderRow
    BY RowsType DEF NumberInv
  <2>2. /\ pc'[u] = pc[u] /\ req'[u] = req[u] /\ seen'[u] = seen[u]
        /\ work'[u] = work[u]
    BY StepIsLocal DEF OthersStay, StepOf, Statement
  <2>3. /\ orderLock[req[u].order] = u => orderLock'[req[u].order] = u
        /\ counterLock = u => counterLock' = u
    BY <2>1, LocksAreKept DEF StepOf, Statement
  <2>4. HoldsTheNumber(u)'
    <3>1. work[u].num # 0 => nextValue' = nextValue
      BY <1>4, <1>5, <1>6, <2>1 DEF HoldsTheNumber
    <3> QED BY <2>1, <2>2, <2>3, <3>1 DEF HoldsTheNumber
  <2>5. CASE req[u].order # o
    <3>1. orders'[req[u].order] = orders[req[u].order]
      BY <1>2, <2>1, <2>5
    <3> QED BY <2>1, <2>2, <2>3, <2>4, <3>1 DEF ReadTheOrder, WritesTheOrder
  <2>6. CASE req[u].order = o
    <3>1. pc[u] \notin {"delete", "insertLines", "commit"}
      BY <1>4, <2>1, <2>6 DEF WritesTheOrder
    <3>2. WritesTheOrder(u)'
      BY <2>2, <3>1 DEF WritesTheOrder
    <3>3. orders[o].version \in Nat /\ seen[u].version \in Nat
      BY <1>1, <2>1 DEF OrderRow
    <3>4. new.status # "absent"
      BY <1>4, <1>5, <1>6
    <3>5. ReadTheOrder(u)'
      BY <1>2, <1>4, <2>1, <2>2, <2>6, <3>3, <3>4 DEF ReadTheOrder
    <3> QED BY <2>4, <3>2, <3>5
  <2> QED BY <2>5, <2>6
<1>9. \A p \in Order : orders'[p].status \in {"absent", "draft"} =>
                        orders'[p].number = 0
  <2>1. new.status \in {"absent", "draft"} => new.number = 0
    BY <1>1, <1>4, <1>5, <1>6 DEF NumberInv
  <2> QED BY <1>1, <1>2, <2>1 DEF NumberInv
<1>11. \A p \in Order : orders'[p].status = "absent" => orders'[p].version = 0
  BY <1>2, <1>4, <1>5, <1>6 DEF NumberInv
<1>10. NumbersGapless'
  <2>1. CASE req[t].op # "confirm"
    <3>1. \A p \in Order : orders'[p].number = orders[p].number
      BY <1>2, <1>6, <2>1
    <3> QED BY <1>6, <2>1, <3>1 DEF NumberInv, NumbersGapless
  <2>2. CASE req[t].op = "confirm"
    <3>1. \A p \in Order \ {o} : orders'[p].number = orders[p].number
      BY <1>2
    <3>2. \A p \in Order : orders[p].number # 0 =>
            orders[p].number \in 1 .. nextValue - 1
      BY DEF NumberInv, NumbersGapless
    <3>3. \A n \in 1 .. nextValue - 1 : \E p \in Order \ {o} :
            orders[p].number = n
      BY <1>5, <2>2 DEF NumberInv, NumbersGapless
    <3>4. orders'[o].number = nextValue /\ nextValue' = nextValue + 1
      BY <1>2, <1>5, <2>2
    <3>5. {orders'[p].number : p \in Order} \ {0} = 1 .. nextValue' - 1
      <4>1. ASSUME NEW p \in Order, orders'[p].number # 0
            PROVE  orders'[p].number \in 1 .. nextValue' - 1
        BY <1>1, <3>1, <3>2, <3>4, <4>1
      <4>2. ASSUME NEW n \in 1 .. nextValue' - 1
            PROVE  \E p \in Order : orders'[p].number = n
        <5>1. CASE n = nextValue
          BY <1>1, <3>4, <5>1
        <5>2. CASE n # nextValue
          <6>1. n \in 1 .. nextValue - 1
            BY <1>1, <3>4, <5>2
          <6> QED BY <3>1, <3>3, <6>1
        <5> QED BY <5>1, <5>2
      <4>3. 0 \notin 1 .. nextValue' - 1
        BY <1>1, <3>4
      <4> QED BY <4>1, <4>2, <4>3
    <3>6. ASSUME NEW p \in Order, NEW q \in Order,
                 orders'[p].number = orders'[q].number, orders'[p].number # 0
          PROVE  p = q
      <4>1. nextValue \notin 1 .. nextValue - 1
        BY <1>1
      <4>2. CASE p = o /\ q # o
        BY <3>1, <3>2, <3>4, <3>6, <4>1, <4>2
      <4>3. CASE p # o /\ q = o
        BY <3>1, <3>2, <3>4, <3>6, <4>1, <4>3
      <4>4. CASE p # o /\ q # o
        BY <3>1, <3>6, <4>4 DEF NumberInv, NumbersGapless
      <4> QED BY <4>2, <4>3, <4>4
    <3> QED BY <3>5, <3>6 DEF NumbersGapless
  <2> QED BY <2>1, <2>2
<1> QED BY <1>7, <1>8, <1>9, <1>10, <1>11 DEF NumberInv

LEMMA NumberStep == TypeOK /\ ControlInv /\ NumberInv /\ [Next]_vars => NumberInv'
<1> SUFFICES ASSUME TypeOK, ControlInv, NumberInv, [Next]_vars PROVE NumberInv'
  OBVIOUS
<1>1. CASE UNCHANGED vars \/ Finished
  <2>1. UNCHANGED <<pc, seen, work, req, orders, orderLock, counterLock, nextValue>>
    BY <1>1 DEF Finished, vars, db, locks, progress
  <2> QED BY <2>1 DEF NumberInv, ReadTheOrder, WritesTheOrder, HoldsTheNumber,
          NumbersGapless
<1>2. ASSUME NEW t \in Txn, StepOf(t) PROVE NumberInv'
  BY <1>2, NumberQuietStep, NumberCommitStep
<1> QED BY <1>1, <1>2, NumberCreateStep DEF Next, StepOf

\* No number is skipped or given twice, for any number of concurrent requests.
THEOREM NumbersAreGapless == Spec => []NumbersGapless
<1>1. Init => TypeOK /\ ControlInv /\ NumberInv
  BY TypeInit, ControlInit, NumberInit
<1>2. TypeOK /\ ControlInv /\ NumberInv /\ [Next]_vars
        => (TypeOK /\ ControlInv /\ NumberInv)'
  BY TypeStep, ControlStep, NumberStep
<1>3. NumberInv => NumbersGapless
  BY DEF NumberInv
<1> QED BY <1>1, <1>2, <1>3, PTL DEF Spec

\* A header moves one version at a time, and an edit replaces the version its
\* client named: no committed change is lost under another one.
THEOREM NoUpdateIsLost == Spec => EveryWriteBuildsOnTheLast
<1> DEFINE Builds(o) ==
      orders'[o] # orders[o] =>
        /\ orders'[o].version = orders[o].version + 1
        /\ \A t \in Txn : req[t].op = "edit" /\ req[t].order = o
                           /\ pc[t] # pc'[t] /\ pc'[t] = "answered"
                           => req[t].version = orders[o].version
<1>1. ASSUME TypeOK, ControlInv, NumberInv, [Next]_vars, NEW o \in Order
      PROVE  Builds(o)
  <2>1. CASE UNCHANGED vars \/ Finished
    BY <2>1 DEF Finished, vars, db
  <2>2. ASSUME NEW p \in Order, NEW lines \in SUBSET Line, CreateDraft(p, lines)
        PROVE  Builds(o)
    <3>1. orders[p].status = "absent" /\ pc' = pc
      BY <2>2 DEF CreateDraft, progress
    <3>2. orders[p].version = 0 /\ orders'[p].version = 1
      BY <1>1, <2>2, <3>1 DEF CreateDraft, NumberInv, TypeOK, OrderRow
    <3>3. p # o => orders'[o] = orders[o]
      BY <1>1, <2>2 DEF CreateDraft, TypeOK
    <3> QED BY <3>1, <3>2, <3>3
  <2>3. ASSUME NEW t \in Txn, Commit(t) PROVE Builds(o)
    <3>1. /\ o # req[t].order => orders'[o] = orders[o]
          /\ orders'[req[t].order] = work[t].row /\ pc[t] = "commit"
      BY <1>1, <2>3, RowsType DEF Commit, TypeOK
    <3>2. WritesTheOrder(t)
      BY <1>1 DEF NumberInv
    <3>3. \A u \in Txn \ {t} : pc'[u] = pc[u]
      BY <1>1, <2>3, StepIsLocal DEF OthersStay, StepOf, Statement
    <3> QED BY <3>1, <3>2, <3>3 DEF WritesTheOrder
  <2>4. ASSUME NEW t \in Txn, StepOf(t), ~Commit(t) PROVE orders' = orders
    <3>1. CASE RefusalOf(t)
      BY <1>1, <2>4, <3>1, RefusalRollsBack, RollbackForgets DEF db
    <3>2. CASE ~RefusalOf(t)
      BY <2>4, <3>2 DEF StepOf, RefusalOf, Statement, db, Begin, Read,
         ReadLines, Find, Lock, Insert, Counter, ListHeld, Release, Header,
         LockDraft, DeleteLine, InsertLines
    <3> QED BY <3>1, <3>2
  <2> QED BY <1>1, <2>1, <2>2, <2>3, <2>4 DEF Next, StepOf
<1>2. TypeOK /\ ControlInv /\ NumberInv /\ [Next]_vars
        => [\A o \in Order : Builds(o)]_vars
  BY <1>1
<1>3. Init => TypeOK /\ ControlInv /\ NumberInv
  BY TypeInit, ControlInit, NumberInit
<1>4. TypeOK /\ ControlInv /\ NumberInv /\ [Next]_vars
        => (TypeOK /\ ControlInv /\ NumberInv)'
  BY TypeStep, ControlStep, NumberStep
<1> QED BY <1>2, <1>3, <1>4, PTL DEF Spec, EveryWriteBuildsOnTheLast

-----------------------------------------------------------------------------
(* Stock *)

\* There are finitely many reservations to sum over, each of a known quantity.
LEMMA PromisesAreFinite ==
  ASSUME NEW S \in SUBSET Reservation
  PROVE  /\ IsFiniteSet(S) /\ \A r \in S : ReservationQty[r] \in Nat
         /\ Total(S, ReservationQty) \in Nat
<1>1. IsFiniteSet(Reservation)
  BY ConstantsAssumption, FS_Product DEF Reservation
<1>2. IsFiniteSet(S)
  BY <1>1, FS_Subset
<1>3. \A r \in S : ReservationQty[r] \in Nat
  BY ConstantsAssumption DEF Reservation, ReservationQty
<1> QED BY <1>2, <1>3, TotalType

LEMMA PromisedType ==
  ASSUME TypeOK, NEW b
  PROVE  Promised(b) \in SUBSET Reservation
BY DEF TypeOK, Promised, OnBalance, Pending

\* When no reservation is added, no balance has more promised.
LEMMA PromisesShrink ==
  ASSUME TypeOK, NEW b, active' \cup Pending' \subseteq active \cup Pending
  PROVE  /\ Total(Promised(b), ReservationQty)' \in Nat
         /\ Total(Promised(b), ReservationQty) \in Nat
         /\ Total(Promised(b), ReservationQty)' <= Total(Promised(b), ReservationQty)
<1> DEFINE S == Promised(b)'
<1>1. S \in SUBSET Promised(b)
  BY DEF Promised, OnBalance
<1>2. Promised(b) \in SUBSET Reservation
  BY PromisedType
<1>3. S \in SUBSET Reservation
  BY <1>1, <1>2
<1>4. Total(S, ReservationQty) <= Total(Promised(b), ReservationQty)
  <2> HIDE DEF S
  <2>1. IsFiniteSet(Promised(b)) /\ \A r \in Promised(b) : ReservationQty[r] \in Nat
    BY <1>2, PromisesAreFinite
  <2> QED BY <1>1, <2>1, TotalMonotone
<1>5. Total(S, ReservationQty) = Total(Promised(b), ReservationQty)'
  OBVIOUS
<1>6. Total(S, ReservationQty) \in Nat /\ Total(Promised(b), ReservationQty) \in Nat
  <2> HIDE DEF S
  <2> QED BY <1>2, <1>3, PromisesAreFinite
<1> QED BY <1>4, <1>5, <1>6

LEMMA StockInit == Init => StockInv
<1> SUFFICES ASSUME Init PROVE StockInv
  OBVIOUS
<1>1. active = {} /\ \A t \in Txn : pc[t] = "idle" /\ work[t].ins = {}
  BY DEF Init, NoWork
<1>2. ASSUME NEW t \in Txn PROVE OwnsItsInserts(t) /\ HasRoom(t)
  BY <1>1 DEF OwnsItsInserts, HasRoom
<1>3. ASSUME NEW b \in Balance PROVE Total(Promised(b), ReservationQty) <= onHand[b]
  <2>1. Promised(b) = {}
    BY <1>1 DEF Promised, OnBalance, Pending
  <2>2. onHand[b] \in Nat
    BY TypeInit DEF TypeOK
  <2> QED BY <2>1, <2>2, TotalEmpty
<1> QED BY <1>2, <1>3 DEF StockInv

\* Only Insert adds to what is promised.
LEMMA OnlyInsertPromises ==
  ASSUME TypeOK, ControlInv, NEW t \in Txn, StepOf(t), ~Insert(t)
  PROVE  /\ active' \cup Pending' \subseteq active \cup Pending
         /\ active' \subseteq active \cup work[t].ins
         /\ onHand' = onHand
<1>1. \A u \in Txn \ {t} : work'[u] = work[u]
  BY StepIsLocal DEF OthersStay
<1>2. CASE RefusalOf(t)
  <2>1. work'[t] = NoWork /\ active' = active /\ onHand' = onHand
    BY <1>2, RefusalRollsBack, RollbackForgets DEF db
  <2> QED BY <1>1, <2>1 DEF Pending, NoWork
<1>3. CASE Commit(t)
  <2>1. work'[t] = NoWork /\ active' = (active \ work[t].rel) \cup work[t].ins
    BY <1>3 DEF Commit, Forget, TypeOK
  <2>2. onHand' = onHand
    BY <1>3 DEF Commit
  <2>3. work[t].ins \subseteq Pending
    BY RowsType DEF Pending
  <2>4. Pending' \subseteq Pending
    BY <1>1, <2>1 DEF Pending, NoWork
  <2> QED BY <2>1, <2>2, <2>3, <2>4
<1>4. CASE ~RefusalOf(t) /\ ~Commit(t)
  <2>1. active' = active /\ onHand' = onHand
    BY <1>4 DEF StepOf, RefusalOf, Statement, db, Begin, Read, ReadLines, Find,
       Lock, Counter, ListHeld, Release, Header, LockDraft, DeleteLine,
       InsertLines
  <2>2. work'[t].ins = work[t].ins
    <3>1. CASE Counter(t) \/ Release(t) \/ Header(t) \/ DeleteLine(t)
               \/ InsertLines(t)
      BY <3>1, CounterWrites, ReleaseWrites, HeaderWrites, DeleteLineWrites,
         InsertLinesWrites
    <3>2. CASE Begin(t) \/ Read(t) \/ ReadLines(t) \/ Find(t) \/ Lock(t)
               \/ ListHeld(t) \/ LockDraft(t)
      BY <3>2 DEF Begin, Read, ReadLines, Find, Lock, ListHeld, LockDraft
    <3> QED BY <1>4, <3>1, <3>2 DEF StepOf, Statement, RefusalOf
  <2> QED BY <1>1, <2>1, <2>2 DEF Pending
<1> QED BY <1>2, <1>3, <1>4

LEMMA OwnsItsInsertsStep ==
  ASSUME TypeOK, ControlInv, StockInv, NEW t \in Txn, StepOf(t), NEW u \in Txn
  PROVE  OwnsItsInserts(u)'
<1>1. OwnsItsInserts(u) /\ work[u].ins \in SUBSET Reservation
  BY RowsType DEF StockInv
<1>2. \A r \in Reservation : LineBalance[r[2]] \in Balance
  BY ConstantsAssumption DEF Reservation
<1>3. CASE u # t
  <2>1. pc'[u] = pc[u] /\ todo'[u] = todo[u] /\ work'[u] = work[u]
    BY <1>3, StepIsLocal DEF OthersStay
  <2>2. \A b \in Balance : balanceLock[b] = u => balanceLock'[b] = u
    BY <1>3, LocksAreKept
  <2>3. \A r \in active' : r \in active \/ r[1] = t
    <3>1. CASE Insert(t)
      BY <3>1 DEF Insert, db
    <3>2. CASE ~Insert(t)
      BY <3>2, OnlyInsertPromises DEF StockInv, OwnsItsInserts
    <3> QED BY <3>1, <3>2
  <2> QED BY <1>1, <1>2, <1>3, <2>1, <2>2, <2>3 DEF OwnsItsInserts
<1>4. CASE u = t
  <2>1. /\ OwnsItsInserts(t) /\ HasRoom(t) /\ StatementOfOp(t) /\ WritesOfOp(t)
        /\ pc \in [Txn -> PCs] /\ todo \in [Txn -> SUBSET Reservation]
        /\ balanceLock \in [Balance -> Txn \cup {NoTxn}]
        /\ work[t].ins \in SUBSET Reservation
    BY <1>1, <1>4 DEF StockInv, ControlInv, TypeOK
  <2> USE DEF db, locks, progress, GoTo
  <2>2. CASE RefusalOf(t)
    <3>1. PICK next \in {"read", "refused", "failed"} : Rollback(t, next)
      BY <2>2, RefusalRollsBack
    <3>2. pc'[t] = next /\ work'[t].ins = {} /\ active' = active
      BY <3>1, RollbackForgets DEF NoWork
    <3>3. next = "read" => pc[t] \notin Final
      BY <2>2, <3>2, VictimWaits DEF RefusalOf, ReadRefused, LineGone,
         Insufficient, ReleaseConflict, HeaderConflict, EditConflict,
         ChecksFail, ForeignKeyFails, Crash, DeadlockVictim, Refuse, Rollback,
         Final
    <3> QED BY <1>4, <2>1, <3>2, <3>3 DEF OwnsItsInserts, Final
  <2>3. CASE Begin(t) \/ Read(t) \/ ListHeld(t) \/ LockDraft(t)
    <3>1. work'[t].ins = {} /\ active' = active
      BY <2>1, <2>3 DEF Begin, Read, ListHeld, LockDraft, WritesOfOp, NoWork,
         StatementOfOp
    <3>2. pc'[t] \notin {"find", "lock", "insert"} /\ pc[t] \notin Final
      BY <2>1, <2>3 DEF Begin, Read, AfterRead, ListHeld, LockDraft, Final
    <3> QED BY <1>4, <2>1, <3>1, <3>2 DEF OwnsItsInserts
  <2>4. CASE ReadLines(t)
    <3>1. /\ work'[t].ins = {} /\ active' = active /\ pc[t] \notin Final
          /\ todo'[t] = {t} \X LinesOf(req[t].order)
      BY <2>1, <2>4 DEF ReadLines, WritesOfOp, NoWork, Final
    <3> QED BY <1>4, <2>1, <3>1 DEF OwnsItsInserts
  <2>5. CASE Find(t)
    BY <1>4, <2>1, <2>5 DEF Find, OwnsItsInserts, Final
  <2>6. CASE Lock(t)
    <3>1. /\ UNCHANGED <<work, todo, active>> /\ pc[t] = "lock"
          /\ \A b \in Balance : balanceLock[b] = t => balanceLock'[b] = t
      BY <2>1, <2>6 DEF Lock
    <3>2. pc[t] \notin Final
      BY <3>1 DEF Final
    <3> QED BY <1>2, <1>4, <2>1, <3>1, <3>2 DEF OwnsItsInserts
  <2>7. CASE Insert(t)
    <3>1. PICK r \in todo[t] : /\ IsNext(t, r) /\ todo'[t] = todo[t] \ {r}
                              /\ work'[t].ins = work[t].ins \cup {r}
      BY <2>7, InsertWrites
    <3>2. /\ UNCHANGED <<balanceLock, active>> /\ pc[t] = "insert"
          /\ pc'[t] \in {"find", "counter"}
      BY <2>1, <2>7 DEF Insert
    <3>3. r[1] = t /\ balanceLock[LineBalance[r[2]]] = t
      BY <2>1, <3>1, <3>2 DEF OwnsItsInserts, HasRoom
    <3>4. pc[t] \notin Final
      BY <3>2 DEF Final
    <3> QED BY <1>4, <2>1, <3>1, <3>2, <3>3, <3>4 DEF OwnsItsInserts
  <2>8. CASE Counter(t) \/ Header(t)
    <3>1. work'[t].ins = work[t].ins
      BY <2>8, CounterWrites, HeaderWrites
    <3>2. /\ UNCHANGED <<todo, balanceLock, active>>
          /\ pc'[t] \in {"header", "commit"} /\ pc[t] \in {"counter", "header"}
      BY <2>1, <2>8 DEF Counter, Header
    <3> QED BY <1>4, <2>1, <3>1, <3>2 DEF OwnsItsInserts, Final
  <2>9. CASE Release(t) \/ DeleteLine(t) \/ InsertLines(t)
    <3>1. work'[t].ins = {}
      BY <2>1, <2>9, ReleaseWrites, DeleteLineWrites, InsertLinesWrites
         DEF Release, DeleteLine, InsertLines, StatementOfOp, WritesOfOp
    <3>2. /\ active' = active /\ pc[t] \in {"release", "delete", "insertLines"}
          /\ pc'[t] \in {"release", "header", "delete", "insertLines", "commit"}
      BY <2>1, <2>9 DEF Release, DeleteLine, InsertLines
    <3> QED BY <1>4, <2>1, <3>1, <3>2 DEF OwnsItsInserts, Final
  <2>10. CASE Commit(t)
    <3>1. pc'[t] = "answered" /\ work'[t].ins = {}
      BY <2>10 DEF Commit, Forget, NoWork, TypeOK
    <3> QED BY <1>4, <3>1 DEF OwnsItsInserts, Final
  <2> QED BY <2>2, <2>3, <2>4, <2>5, <2>6, <2>7, <2>8, <2>9, <2>10 DEF StepOf,
          Statement, RefusalOf
<1> QED BY <1>3, <1>4

\* What the transaction that may lock a balance sums up there is all that
\* anybody has promised: another one's insert would be under its lock.
LEMMA SumSeesEveryPromise ==
  ASSUME TypeOK, ControlInv, StockInv, NEW t \in Txn, req[t].op = "confirm",
         NEW b \in Balance, BalanceGrantable(t, b)
  PROVE  Reserved(t, b) = Total(Promised(b), ReservationQty)
<1>1. work[t].rel = {} /\ work[t].ins \subseteq Reservation
  BY RowsType DEF ControlInv, WritesOfOp
<1>2. ASSUME NEW r \in Pending, LineBalance[r[2]] = b PROVE r \in work[t].ins
  <2>1. PICK u \in Txn : r \in work[u].ins
    BY <1>2 DEF Pending
  <2>2. balanceLock[b] = u
    BY <1>2, <2>1 DEF StockInv, OwnsItsInserts
  <2>3. u = t
    BY <2>2, ConstantsAssumption DEF BalanceGrantable, Grantable
  <2> QED BY <2>1, <2>3
<1>3. OnBalance((active \ work[t].rel) \cup work[t].ins, b) = Promised(b)
  BY <1>1, <1>2 DEF OnBalance, Promised, Pending
<1> QED BY <1>3 DEF Reserved

\* Insert adds one reservation, and only to the balance it is for.
LEMMA InsertPromises ==
  ASSUME TypeOK, StockInv, NEW t \in Txn, Insert(t)
  PROVE  \E r \in todo[t] :
           /\ IsNext(t, r)
           /\ \A b \in Balance \ {LineBalance[r[2]]} : Promised(b)' = Promised(b)
           /\ Total(Promised(LineBalance[r[2]]), ReservationQty)'
                = Total(Promised(LineBalance[r[2]]), ReservationQty) + LineQty[r[2]]
<1>1. PICK r \in todo[t] : /\ IsNext(t, r) /\ todo'[t] = todo[t] \ {r}
                          /\ work'[t].ins = work[t].ins \cup {r}
  BY InsertWrites
<1>2. r \in Reservation /\ active' = active /\ pc[t] = "insert"
  BY DEF TypeOK, Insert, db
<1>3. \A u \in Txn \ {t} : work'[u] = work[u]
  BY StepIsLocal DEF OthersStay, StepOf, Statement
<1>4. Pending' = Pending \cup {r}
  BY <1>1, <1>2, <1>3 DEF Pending
<1>5. r \notin active \cup Pending
  <2>1. r[1] = t /\ r \notin active
    BY <1>2 DEF StockInv, OwnsItsInserts, Final
  <2>2. ASSUME NEW u \in Txn, r \in work[u].ins PROVE FALSE
    BY <2>1, <2>2 DEF StockInv, OwnsItsInserts
  <2> QED BY <2>1, <2>2 DEF Pending
<1>6. \A b \in Balance \ {LineBalance[r[2]]} : Promised(b)' = Promised(b)
  BY <1>2, <1>4 DEF Promised, OnBalance
<1> DEFINE b == LineBalance[r[2]]
           S == Promised(b)
<1>7. Promised(b)' = S \cup {r} /\ r \notin S
  BY <1>2, <1>4, <1>5 DEF Promised, OnBalance
<1>8. ReservationQty[r] = LineQty[r[2]] /\ S \cup {r} \in SUBSET Reservation
  BY <1>2, PromisedType DEF ReservationQty
<1>9. Total(S \cup {r}, ReservationQty) = Total(S, ReservationQty) + ReservationQty[r]
  <2> HIDE DEF S
  <2>1. IsFiniteSet(S) /\ \A y \in S \cup {r} : ReservationQty[y] \in Nat
    BY <1>8, PromisesAreFinite
  <2> QED BY <1>7, <2>1, TotalAdd
<1>10. Total(Promised(b), ReservationQty)' = Total(S \cup {r}, ReservationQty)
  BY <1>7
<1>11. Total(Promised(LineBalance[r[2]]), ReservationQty)'
         = Total(Promised(LineBalance[r[2]]), ReservationQty) + LineQty[r[2]]
  BY <1>8, <1>9, <1>10
<1> HIDE DEF b, S
<1> QED BY <1>1, <1>6, <1>11

LEMMA HasRoomStep ==
  ASSUME TypeOK, ControlInv, StockInv, NEW t \in Txn, StepOf(t), NEW u \in Txn
  PROVE  HasRoom(u)'
<1>1. HasRoom(u) /\ todo[u] \in SUBSET Reservation
  BY DEF StockInv, TypeOK
<1>2. \A r \in Reservation : LineBalance[r[2]] \in Balance
                            /\ LineQty[r[2]] \in Nat
  BY ConstantsAssumption DEF Reservation
<1>3. \A b \in Balance : onHand[b] \in Nat
  BY DEF TypeOK
<1>4. CASE u # t
  <2>1. pc'[u] = pc[u] /\ todo'[u] = todo[u]
    BY <1>4, StepIsLocal DEF OthersStay
  <2>2. SUFFICES ASSUME pc[u] = "insert", NEW r \in todo[u], IsNext(u, r)
                 PROVE  /\ balanceLock'[LineBalance[r[2]]] = u
                        /\ Total(Promised(LineBalance[r[2]]), ReservationQty)'
                             + LineQty[r[2]] <= onHand'[LineBalance[r[2]]]
    BY <2>1 DEF HasRoom, IsNext
  <2> DEFINE b == LineBalance[r[2]]
  <2>3. /\ b \in Balance /\ balanceLock[b] = u
        /\ Total(Promised(b), ReservationQty) + LineQty[r[2]] <= onHand[b]
    BY <1>1, <1>2, <2>2 DEF HasRoom
  <2>4. balanceLock'[b] = u
    BY <1>4, <2>3, LocksAreKept
  <2>5. CASE Insert(t)
    <3>1. PICK s \in todo[t] : /\ IsNext(t, s)
                              /\ \A c \in Balance \ {LineBalance[s[2]]} :
                                   Promised(c)' = Promised(c)
      BY <2>5, InsertPromises
    <3>2. balanceLock[LineBalance[s[2]]] = t
      BY <2>5, <3>1 DEF Insert, StockInv, HasRoom
    <3>3. Promised(b)' = Promised(b)
      BY <1>4, <2>3, <3>1, <3>2
    <3>4. onHand' = onHand
      BY <2>5 DEF Insert, db
    <3> QED BY <2>3, <2>4, <3>3, <3>4
  <2>6. CASE ~Insert(t)
    <3>1. /\ Total(Promised(b), ReservationQty)' \in Nat
          /\ Total(Promised(b), ReservationQty) \in Nat
          /\ Total(Promised(b), ReservationQty)' <= Total(Promised(b), ReservationQty)
      BY <2>6, OnlyInsertPromises, PromisesShrink
    <3>2. onHand' = onHand /\ LineQty[r[2]] \in Nat /\ onHand[b] \in Nat
      BY <1>1, <1>2, <1>3, <2>2, <2>3, <2>6, OnlyInsertPromises
    <3> HIDE DEF b
    <3> QED BY <2>3, <2>4, <3>1, <3>2 DEF b
  <2> QED BY <2>5, <2>6
<1>5. CASE u = t /\ Lock(t)
  <2>1. PICK r \in todo[t] : /\ IsNext(t, r)
                            /\ BalanceGrantable(t, LineBalance[r[2]])
                            /\ Available(t, LineBalance[r[2]]) >= LineQty[r[2]]
                            /\ balanceLock' = [balanceLock EXCEPT
                                                 ![LineBalance[r[2]]] = t]
    BY <1>5 DEF Lock
  <2> DEFINE b == LineBalance[r[2]]
  <2>2. b \in Balance /\ LineQty[r[2]] \in Nat /\ onHand[b] \in Nat
    BY <1>1, <1>2, <1>3, <1>5, <2>1
  <2>3. UNCHANGED <<active, work, onHand, todo>> /\ pc[t] = "lock"
    BY <1>5 DEF Lock, db
  <2>4. req[t].op = "confirm"
    BY <2>3 DEF ControlInv, StatementOfOp
  <2>5. Reserved(t, b) = Total(Promised(b), ReservationQty)
    BY <2>1, <2>2, <2>4, SumSeesEveryPromise
  <2>6. Total(Promised(b), ReservationQty) \in Nat
    BY PromisedType, PromisesAreFinite
  <2>7. Total(Promised(b), ReservationQty) + LineQty[r[2]] <= onHand[b]
    BY <2>1, <2>2, <2>5, <2>6 DEF Available
  <2>8. Promised(b)' = Promised(b)
    BY <2>3 DEF Promised, OnBalance, Pending
  <2>9. balanceLock'[b] = t
    BY <2>1, <2>2 DEF TypeOK
  <2>10. ASSUME NEW s \in todo'[t], IsNext(t, s)' PROVE s = r
    BY <2>1, <2>3, <2>10 DEF IsNext
  <2>11. /\ balanceLock'[b] = t
         /\ Total(Promised(b), ReservationQty)' + LineQty[r[2]] <= onHand'[b]
    BY <2>3, <2>7, <2>8, <2>9
  <2> QED BY <1>5, <2>10, <2>11 DEF HasRoom
<1>6. CASE u = t /\ ~Lock(t)
  <2>1. pc'[t] # "insert"
    <3> USE DEF GoTo, TypeOK
    <3>1. CASE RefusalOf(t)
      BY <3>1, RefusalRollsBack, RollbackForgets
    <3>2. CASE Begin(t) \/ Read(t) \/ ReadLines(t) \/ Find(t) \/ Insert(t)
               \/ Counter(t) \/ ListHeld(t)
      BY <3>2 DEF Begin, Read, AfterRead, ReadLines, Find, Insert, Counter,
         ListHeld
    <3>3. CASE Release(t) \/ Header(t) \/ LockDraft(t) \/ DeleteLine(t)
               \/ InsertLines(t) \/ Commit(t)
      BY <3>3 DEF Release, Header, LockDraft, DeleteLine, InsertLines, Commit
    <3> QED BY <1>6, <3>1, <3>2, <3>3 DEF StepOf, Statement, RefusalOf
  <2> QED BY <1>6, <2>1 DEF HasRoom
<1> QED BY <1>4, <1>5, <1>6

LEMMA StockStep == TypeOK /\ ControlInv /\ StockInv /\ [Next]_vars => StockInv'
<1> SUFFICES ASSUME TypeOK, ControlInv, StockInv, [Next]_vars PROVE StockInv'
  OBVIOUS
<1>1. CASE UNCHANGED <<onHand, active, balanceLock, pc, todo, work>>
  <2>1. \A b : Promised(b)' = Promised(b)
    BY <1>1 DEF Promised, OnBalance, Pending
  <2>2. ASSUME NEW t \in Txn PROVE OwnsItsInserts(t)' /\ HasRoom(t)'
    BY <1>1, <2>1 DEF StockInv, OwnsItsInserts, HasRoom, IsNext
  <2> QED BY <1>1, <2>1, <2>2 DEF StockInv
<1>2. ASSUME NEW t \in Txn, StepOf(t) PROVE StockInv'
  <2>1. ASSUME NEW b \in Balance
        PROVE  Total(Promised(b), ReservationQty)' <= onHand'[b]
    <3>1. /\ Total(Promised(b), ReservationQty) <= onHand[b]
          /\ onHand[b] \in Nat
      BY DEF StockInv, TypeOK
    <3>2. CASE Insert(t)
      <4>1. PICK r \in todo[t] :
              /\ IsNext(t, r)
              /\ \A c \in Balance \ {LineBalance[r[2]]} : Promised(c)' = Promised(c)
              /\ Total(Promised(LineBalance[r[2]]), ReservationQty)'
                   = Total(Promised(LineBalance[r[2]]), ReservationQty) + LineQty[r[2]]
        BY <3>2, InsertPromises
      <4>2. onHand' = onHand /\ pc[t] = "insert"
        BY <3>2 DEF Insert, db
      <4>3. Total(Promised(LineBalance[r[2]]), ReservationQty) + LineQty[r[2]]
              <= onHand[LineBalance[r[2]]]
        BY <4>1, <4>2 DEF StockInv, HasRoom
      <4>4. CASE b = LineBalance[r[2]]
        BY <4>1, <4>2, <4>3, <4>4
      <4>5. CASE b # LineBalance[r[2]]
        BY <3>1, <4>1, <4>2, <4>5
      <4> QED BY <4>4, <4>5
    <3>3. CASE ~Insert(t)
      <4>1. /\ Total(Promised(b), ReservationQty)' \in Nat
            /\ Total(Promised(b), ReservationQty) \in Nat
            /\ Total(Promised(b), ReservationQty)'
                 <= Total(Promised(b), ReservationQty)
            /\ onHand' = onHand
        BY <1>2, <3>3, OnlyInsertPromises, PromisesShrink
      <4> QED BY <3>1, <4>1
    <3> QED BY <3>2, <3>3
  <2> QED BY <1>2, <2>1, OwnsItsInsertsStep, HasRoomStep DEF StockInv
<1>3. ASSUME NEW o \in Order, NEW lines \in SUBSET Line, CreateDraft(o, lines)
      PROVE  UNCHANGED <<onHand, active, balanceLock, pc, todo, work>>
  BY <1>3 DEF CreateDraft, locks, progress
<1>4. CASE UNCHANGED vars \/ Finished
  BY <1>1, <1>4 DEF vars, db, locks, progress, Finished
<1> QED BY <1>1, <1>2, <1>3, <1>4 DEF Next, StepOf

\* What is committed is part of what is promised.
LEMMA PromisedCoversActive == TypeOK /\ StockInv => NoOversell
<1> SUFFICES ASSUME TypeOK, StockInv, NEW b \in Balance
             PROVE  Total(OnBalance(active, b), ReservationQty) <= onHand[b]
  BY DEF NoOversell
<1> DEFINE S == OnBalance(active, b)
<1>1. S \in SUBSET Promised(b)
  BY DEF OnBalance, Promised
<1>2. Promised(b) \in SUBSET Reservation
  BY PromisedType
<1>3. S \in SUBSET Reservation
  BY <1>1, <1>2
<1>4. /\ Total(Promised(b), ReservationQty) <= onHand[b]
      /\ onHand[b] \in Nat
  BY DEF StockInv, TypeOK
<1> HIDE DEF S
<1>5. Total(S, ReservationQty) <= Total(Promised(b), ReservationQty)
  BY <1>1, <1>2, PromisesAreFinite, TotalMonotone
<1>6. Total(S, ReservationQty) \in Nat /\ Total(Promised(b), ReservationQty) \in Nat
  BY <1>2, <1>3, PromisesAreFinite
<1> QED BY <1>4, <1>5, <1>6 DEF S

\* No balance is ever promised beyond what is on hand, for any number of
\* concurrent confirmations, cancellations and edits.
THEOREM StockIsNeverOversold == Spec => []NoOversell
<1>1. Init => TypeOK /\ ControlInv /\ StockInv
  BY TypeInit, ControlInit, StockInit
<1>2. TypeOK /\ ControlInv /\ StockInv /\ [Next]_vars
        => (TypeOK /\ ControlInv /\ StockInv)'
  BY TypeStep, ControlStep, StockStep
<1>3. TypeOK /\ StockInv => NoOversell
  BY PromisedCoversActive
<1> QED BY <1>1, <1>2, <1>3, PTL DEF Spec

-----------------------------------------------------------------------------
(* The lines of an order and what is reserved for them *)

\* The reservations an order holds.
HeldBy(o) == {r \in active : LineOrder[r[2]] = o}

\* The lines a request brings are of its order, its own, and not there before
\* its commit.
BringsItsLines(t) ==
  /\ req[t].lines \subseteq issued
  /\ \A u \in Txn \ {t} : req[t].lines \cap req[u].lines = {}
  /\ pc[t] # "answered" => req[t].lines \cap live = {}
  /\ req[t].op = "edit" =>
       req[t].lines # {} /\ \A l \in req[t].lines : LineOrder[l] = req[t].order

\* An edit that holds the header's lock has marked for deletion, or still has
\* to, exactly the lines the order has.
ReplacesTheLines(t) ==
  /\ req[t].op # "edit" => work[t].del = {} /\ work[t].add = {}
  /\ req[t].op = "edit" =>
       /\ pc[t] \in {"delete", "insertLines", "commit"} =>
            work[t].del \cup {r[2] : r \in todo[t]} = LinesOf(req[t].order)
       /\ pc[t] \in {"insertLines", "commit"} => todo[t] = {}
       /\ pc[t] = "commit" => work[t].add = req[t].lines

\* A confirmation that still sees the order as it is has reserved, or still has
\* to, exactly the lines the order has; a cancellation has released, or still
\* has to, exactly what it holds.
CoversTheOrder(t) ==
  LET row == orders[req[t].order]
  IN  /\ req[t].op = "confirm" =>
           /\ /\ pc[t] \in {"find", "lock", "insert", "counter", "header", "commit"}
              /\ seen[t] = row
              => {r[2] : r \in work[t].ins \cup todo[t]} = LinesOf(req[t].order)
           /\ pc[t] \in {"counter", "header", "commit"} => todo[t] = {}
      /\ req[t].op = "cancel" =>
           /\ pc[t] \in {"release", "header", "commit"} /\ seen[t] = row
              => work[t].rel \cup todo[t] = HeldBy(req[t].order)
           /\ pc[t] \in {"header", "commit"} => todo[t] = {}

\* The header a transaction is about to commit is made from the one that is there.
WritesItsHeader(t) ==
  LET row == orders[req[t].order]
  IN  pc[t] = "commit" =>
        /\ req[t].op # "edit" => seen[t] = row /\ work[t].row = TransitionRow(t)
        /\ req[t].op = "edit" => work[t].row = EditedRow(row, req[t].lines)

OrdersInv ==
  /\ \A t \in Txn : /\ BringsItsLines(t) /\ ReplacesTheLines(t)
                    /\ CoversTheOrder(t) /\ WritesItsHeader(t)
  /\ live \subseteq issued
  /\ \A o \in Order : orders[o].status = "absent" =>
                       orders[o] = NoOrder /\ LinesOf(o) = {}
  /\ StatusMatchesReservations

LEMMA OrdersInit == Init => OrdersInv
<1> SUFFICES ASSUME Init PROVE OrdersInv
  OBVIOUS
<1>1. ASSUME NEW t \in Txn
      PROVE  /\ BringsItsLines(t) /\ ReplacesTheLines(t)
             /\ CoversTheOrder(t) /\ WritesItsHeader(t)
  <2>1. /\ pc[t] = "idle" /\ req[t].op = "none" /\ work[t] = NoWork
        /\ \A u \in Txn : req[u].lines = {}
    BY DEF Init
  <2> QED BY <2>1 DEF BringsItsLines, ReplacesTheLines, CoversTheOrder,
          WritesItsHeader, NoWork
<1>2. live \subseteq issued
  BY DEF Init
<1>3. ASSUME NEW o \in Order
      PROVE  /\ orders[o].status = "absent" => orders[o] = NoOrder /\ LinesOf(o) = {}
             /\ orders[o].status # "confirmed"
  <2>1. orders[o] = IF LinesOf(o) = {} THEN NoOrder
                    ELSE [NoOrder EXCEPT !.status = "draft", !.version = 1,
                                         !.priced = LinesOf(o)]
    BY DEF Init, LinesOf
  <2> QED BY <2>1 DEF NoOrder
<1>4. StatusMatchesReservations
  BY <1>3 DEF Init, StatusMatchesReservations
<1> QED BY <1>1, <1>2, <1>3, <1>4 DEF OrdersInv

\* Until it commits, a transaction changes nothing that others can see.
LEMMA OnlyCommitWrites ==
  ASSUME TypeOK, NEW t \in Txn, StepOf(t), ~Commit(t)
  PROVE  UNCHANGED db
<1>1. CASE RefusalOf(t)
  BY <1>1, RefusalRollsBack, RollbackForgets
<1>2. CASE ~RefusalOf(t)
  BY <1>2 DEF StepOf, RefusalOf, Statement, Begin, Read, ReadLines, Find,
     Lock, Insert, Counter, ListHeld, Release, Header, LockDraft, DeleteLine,
     InsertLines
<1> QED BY <1>1, <1>2

\* What was asked does not change.
LEMMA AskedOnce ==
  ASSUME TypeOK, NEW t \in Txn, StepOf(t), ~Begin(t)
  PROVE  req' = req /\ issued' = issued
<1>1. CASE RefusalOf(t)
  BY <1>1, RefusalRollsBack DEF Rollback
<1>2. CASE ~RefusalOf(t)
  BY <1>2 DEF StepOf, RefusalOf, Statement, Read, ReadLines, Find, Lock,
     Insert, Counter, ListHeld, Release, Header, LockDraft, DeleteLine,
     InsertLines, Commit
<1> QED BY <1>1, <1>2

\* What a commit does to the rows.
LEMMA CommitWrites ==
  ASSUME TypeOK, NEW t \in Txn, Commit(t)
  PROVE  /\ pc[t] = "commit" /\ pc'[t] = "answered" /\ work'[t] = NoWork
         /\ orders'[req[t].order] = work[t].row
         /\ \A p \in Order \ {req[t].order} : orders'[p] = orders[p]
         /\ live' = (live \ work[t].del) \cup work[t].add
         /\ active' = (active \ work[t].rel) \cup work[t].ins
         /\ onHand' = onHand
BY RowsType DEF Commit, GoTo, Forget, TypeOK

LEMMA BringsItsLinesStep ==
  ASSUME TypeOK, ControlInv, OrdersInv, NEW t \in Txn, StepOf(t), NEW u \in Txn
  PROVE  BringsItsLines(u)'
<1>1. /\ BringsItsLines(u) /\ BringsItsLines(t) /\ live \subseteq issued
      /\ \A v \in Txn : req[v].lines \subseteq issued
  BY DEF OrdersInv, BringsItsLines
<1>2. \A v \in Txn \ {t} : req'[v] = req[v] /\ pc'[v] = pc[v]
  BY StepIsLocal DEF OthersStay
<1>3. CASE Begin(t)
  <2>1. live' = live /\ pc[t] = "idle"
    BY <1>3 DEF Begin, db
  <2>2. CASE u = t
    BY <1>1, <1>2, <1>3, <2>1, <2>2, BeginAsks DEF BringsItsLines
  <2>3. CASE u # t
    BY <1>1, <1>2, <1>3, <2>1, <2>3, BeginAsks DEF BringsItsLines
  <2> QED BY <2>2, <2>3
<1>4. CASE Commit(t)
  <2>1. req' = req /\ issued' = issued
    BY <1>4 DEF Commit
  <2>2. /\ live' = (live \ work[t].del) \cup work[t].add
        /\ pc[t] = "commit" /\ pc'[t] = "answered"
    BY <1>4, CommitWrites
  <2>3. work[t].add \subseteq req[t].lines
    BY <2>2 DEF OrdersInv, ReplacesTheLines
  <2> QED BY <1>1, <1>2, <2>1, <2>2, <2>3 DEF BringsItsLines
<1>5. CASE ~Begin(t) /\ ~Commit(t)
  <2>1. req' = req /\ issued' = issued /\ live' = live
    BY <1>5, AskedOnce, OnlyCommitWrites DEF db
  <2>2. pc[t] # "answered"
    <3>1. CASE RefusalOf(t)
      BY <3>1, VictimWaits DEF RefusalOf, ReadRefused, LineGone, Insufficient,
         ReleaseConflict, HeaderConflict, EditConflict, ChecksFail,
         ForeignKeyFails, Crash, Final
    <3>2. CASE ~RefusalOf(t)
      BY <1>5, <3>2 DEF StepOf, RefusalOf, Statement, Read, ReadLines, Find,
         Lock, Insert, Counter, ListHeld, Release, Header, LockDraft,
         DeleteLine, InsertLines
    <3> QED BY <3>1, <3>2
  <2> QED BY <1>1, <1>2, <2>1, <2>2 DEF BringsItsLines
<1> QED BY <1>3, <1>4, <1>5

\* A commit changes the order of its request, and no other one: neither its
\* header nor its lines nor what it holds.
LEMMA CommitIsLocal ==
  ASSUME TypeOK, ControlInv, OrdersInv, NEW t \in Txn, Commit(t),
         NEW p \in Order, p # req[t].order
  PROVE  orders'[p] = orders[p] /\ LinesOf(p)' = LinesOf(p) /\ HeldBy(p)' = HeldBy(p)
<1> DEFINE o == req[t].order
<1>1. /\ BringsItsLines(t) /\ ReplacesTheLines(t) /\ CoversTheOrder(t)
      /\ WritesItsHeader(t) /\ StatementOfOp(t) /\ WritesOfOp(t)
  BY DEF OrdersInv, ControlInv
<1>2. /\ pc[t] = "commit" /\ orders'[p] = orders[p]
      /\ live' = (live \ work[t].del) \cup work[t].add
      /\ active' = (active \ work[t].rel) \cup work[t].ins
  BY CommitWrites
<1>3. /\ req[t].op \in {"confirm", "cancel", "edit"}
      /\ work[t].ins \in SUBSET Reservation /\ work[t].rel \in SUBSET Reservation
  BY <1>1, <1>2, RowsType DEF StatementOfOp
<1>4. \A l \in work[t].del \cup work[t].add : LineOrder[l] = o
  BY <1>1, <1>2, <1>3 DEF ReplacesTheLines, BringsItsLines, LinesOf
<1>5. \A r \in work[t].ins \cup work[t].rel : LineOrder[r[2]] = o
  <2>1. ASSUME NEW r \in work[t].ins PROVE LineOrder[r[2]] = o
    <3>1. req[t].op = "confirm"
      BY <1>1, <2>1 DEF WritesOfOp
    <3>2. {s[2] : s \in work[t].ins \cup todo[t]} = LinesOf(o)
      BY <1>1, <1>2, <3>1 DEF CoversTheOrder, WritesItsHeader
    <3> QED BY <2>1, <3>2 DEF LinesOf
  <2>2. ASSUME NEW r \in work[t].rel PROVE LineOrder[r[2]] = o
    <3>1. req[t].op # "confirm"
      BY <1>1, <2>2 DEF WritesOfOp
    <3>2. CASE req[t].op = "cancel"
      BY <1>1, <1>2, <2>2, <3>2 DEF CoversTheOrder, WritesItsHeader, HeldBy
    <3>3. CASE req[t].op = "edit"
      BY <1>1, <2>2, <3>3 DEF WritesOfOp
    <3> QED BY <1>3, <3>1, <3>2, <3>3
  <2> QED BY <2>1, <2>2
<1>6. LinesOf(p)' = LinesOf(p)
  BY <1>2, <1>4 DEF LinesOf
<1>7. HeldBy(p)' = HeldBy(p)
  BY <1>2, <1>5 DEF HeldBy
<1> QED BY <1>2, <1>6, <1>7

\* The lines of a transaction that writes, field by field.
LEMMA LineWrites ==
  ASSUME TypeOK, NEW t \in Txn
  PROVE  /\ Insert(t) \/ Counter(t) \/ Release(t) \/ Header(t) =>
              work'[t].del = work[t].del /\ work'[t].add = work[t].add
         /\ DeleteLine(t) => work'[t].add = work[t].add
         /\ InsertLines(t) => work'[t].del = work[t].del
                              /\ work'[t].add = req[t].lines
BY DEF Insert, Counter, Release, Header, DeleteLine, InsertLines, TypeOK, Work

\* Each deletion takes one line off what is still to be deleted.
LEMMA DeleteLineMoves ==
  ASSUME TypeOK, NEW t \in Txn, DeleteLine(t)
  PROVE  /\ work'[t].del \cup {r[2] : r \in todo'[t]}
              = work[t].del \cup {r[2] : r \in todo[t]}
         /\ pc'[t] = IF todo'[t] = {} THEN "insertLines" ELSE "delete"
<1>1. PICK l \in Line : /\ IsNextLine(t, l)
                       /\ work' = [work EXCEPT ![t].del = @ \cup {l}]
                       /\ todo' = [todo EXCEPT ![t] = @ \ {<<t, l>>}]
  BY DEF DeleteLine
<1>2. work'[t].del = work[t].del \cup {l} /\ todo'[t] = todo[t] \ {<<t, l>>}
  BY <1>1 DEF TypeOK, Work
<1>3. <<t, l>> \in todo[t] /\ <<t, l>>[2] = l
  BY <1>1 DEF IsNextLine
<1>4. {r[2] : r \in todo[t]} = {r[2] : r \in todo'[t]} \cup {l}
  BY <1>2, <1>3
<1> QED BY <1>2, <1>4 DEF DeleteLine, GoTo, TypeOK

LEMMA InsertMoves ==
  ASSUME TypeOK, NEW t \in Txn, Insert(t)
  PROVE  /\ work'[t].ins \cup todo'[t] = work[t].ins \cup todo[t]
         /\ pc'[t] = IF todo'[t] = {} THEN "counter" ELSE "find"
<1>1. work'[t].ins \cup todo'[t] = work[t].ins \cup todo[t]
  BY InsertWrites
<1> QED BY <1>1 DEF Insert, GoTo, TypeOK

LEMMA ReleaseMoves ==
  ASSUME TypeOK, NEW t \in Txn, Release(t)
  PROVE  /\ work'[t].rel \cup todo'[t] = work[t].rel \cup todo[t]
         /\ pc'[t] = IF todo'[t] = {} THEN "header" ELSE "release"
<1>1. PICK r \in todo[t] : /\ work' = [work EXCEPT ![t].rel = @ \cup {r}]
                          /\ todo' = [todo EXCEPT ![t] = @ \ {r}]
  BY DEF Release
<1>2. work'[t].rel = work[t].rel \cup {r} /\ todo'[t] = todo[t] \ {r}
  BY <1>1 DEF TypeOK, Work
<1> QED BY <1>2 DEF Release, GoTo, TypeOK

\* What the parts of OrdersInv about one transaction say.
Prepares(t) == ReplacesTheLines(t) /\ CoversTheOrder(t) /\ WritesItsHeader(t)

\* A transaction is not disturbed by the others: a commit on its order under a
\* confirmation or a cancellation leaves what it has seen behind, and an edit
\* has the header locked.
LEMMA OthersStillPrepared ==
  ASSUME TypeOK, ControlInv, NumberInv, OrdersInv, NEW t \in Txn, StepOf(t),
         NEW u \in Txn \ {t}
  PROVE  Prepares(u)'
<1> DEFINE o == req[u].order
<1>1. /\ Prepares(u) /\ ReadTheOrder(u) /\ WritesTheOrder(u) /\ o \in Order
      /\ StatementOfOp(u)
  BY RowsType DEF OrdersInv, Prepares, NumberInv, ControlInv
<1>2. /\ pc'[u] = pc[u] /\ req'[u] = req[u] /\ seen'[u] = seen[u]
      /\ todo'[u] = todo[u] /\ work'[u] = work[u]
  BY StepIsLocal DEF OthersStay
<1>3. CASE /\ orders'[o] = orders[o] /\ LinesOf(o)' = LinesOf(o)
           /\ HeldBy(o)' = HeldBy(o)
  <2>1. TransitionRow(u)' = TransitionRow(u)
    BY <1>2, <1>3 DEF TransitionRow
  <2>2. ReplacesTheLines(u)'
    BY <1>1, <1>2, <1>3 DEF Prepares, ReplacesTheLines
  <2>3. CoversTheOrder(u)'
    BY <1>1, <1>2, <1>3 DEF Prepares, CoversTheOrder
  <2>4. WritesItsHeader(u)'
    BY <1>1, <1>2, <1>3, <2>1 DEF Prepares, WritesItsHeader
  <2> QED BY <2>2, <2>3, <2>4 DEF Prepares
<1>4. CASE ~Commit(t)
  <2>1. UNCHANGED db
    BY <1>4, OnlyCommitWrites
  <2> QED BY <1>2, <1>3, <2>1 DEF db, LinesOf, HeldBy
<1>5. CASE Commit(t) /\ req[t].order # o
  <2>1. \A p \in Order : p # req[t].order =>
          orders'[p] = orders[p] /\ LinesOf(p)' = LinesOf(p) /\ HeldBy(p)' = HeldBy(p)
    BY <1>5, CommitIsLocal
  <2> QED BY <1>1, <1>2, <1>3, <1>5, <2>1 DEF LinesOf, HeldBy
<1>6. CASE Commit(t) /\ req[t].order = o
  <2>1. WritesTheOrder(t) /\ pc[t] = "commit" /\ orders'[o] = work[t].row
    BY <1>6, CommitWrites DEF NumberInv
  <2>2. orderLock[o] = t /\ work[t].row.version = orders[o].version + 1
    BY <1>6, <2>1 DEF WritesTheOrder
  <2>3. pc[u] \notin {"delete", "insertLines", "commit"}
    BY <1>1, <2>2 DEF WritesTheOrder
  <2>4. pc[u] \in {"find", "lock", "insert", "counter", "release", "header"} =>
          seen[u] # orders'[o]
    <3>1. orders[o].version \in Nat /\ seen[u].version \in Nat
      BY <1>1 DEF TypeOK, OrderRow
    <3>2. pc[u] \in {"find", "lock", "insert", "counter", "release", "header"} =>
            seen[u].version <= orders[o].version
      BY <1>1 DEF ReadTheOrder, Final
    <3> QED BY <2>1, <2>2, <3>1, <3>2
  <2>5. ReplacesTheLines(u)'
    BY <1>1, <1>2, <2>3 DEF Prepares, ReplacesTheLines
  <2>6. CoversTheOrder(u)'
    BY <1>1, <1>2, <2>3, <2>4 DEF Prepares, CoversTheOrder
  <2>7. WritesItsHeader(u)'
    BY <1>2, <2>3 DEF WritesItsHeader
  <2> QED BY <2>5, <2>6, <2>7 DEF Prepares
<1> QED BY <1>4, <1>5, <1>6

\* An order of any status holds reservations for lines that exist only.
LEMMA HeldLinesAreLive ==
  ASSUME TypeOK, OrdersInv, NEW o \in Order
  PROVE  HeldBy(o) = {r \in active : LineOrder[r[2]] = o /\ r[2] \in live}
<1>1. \A r \in HeldBy(o) : r[2] \in live
  BY DEF OrdersInv, StatusMatchesReservations, HeldBy, LinesOf
<1> QED BY <1>1 DEF HeldBy

LEMMA SecondOfPairs ==
  ASSUME NEW t, NEW L
  PROVE  {r[2] : r \in {t} \X L} = L
<1>1. \A l \in L : <<t, l>> \in {t} \X L /\ <<t, l>>[2] = l
  OBVIOUS
<1>2. \A r \in {t} \X L : r[2] \in L
  OBVIOUS
<1> QED BY <1>1, <1>2

\* The transaction that makes a step is prepared for its next one.
LEMMA StillPrepared ==
  ASSUME TypeOK, ControlInv, NumberInv, OrdersInv, NEW t \in Txn, StepOf(t)
  PROVE  Prepares(t)'
<1> DEFINE o == req[t].order
           row == orders[o]
<1>1. /\ Prepares(t) /\ ReadTheOrder(t) /\ WritesTheOrder(t) /\ o \in Order
      /\ StatementOfOp(t) /\ WritesOfOp(t)
      /\ pc \in [Txn -> PCs] /\ seen \in [Txn -> OrderRow]
      /\ todo \in [Txn -> SUBSET Reservation] /\ work \in [Txn -> Work]
  BY RowsType DEF OrdersInv, Prepares, NumberInv, ControlInv, TypeOK
<1>2. CASE RefusalOf(t)
  <2>1. PICK next \in {"read", "refused", "failed"} : Rollback(t, next)
    BY <1>2, RefusalRollsBack
  <2>2. pc'[t] = next /\ work'[t] = NoWork
    BY <2>1, RollbackForgets
  <2> QED BY <2>2 DEF Prepares, ReplacesTheLines, CoversTheOrder,
          WritesItsHeader, NoWork
<1>3. CASE Begin(t) \/ Read(t)
  <2>1. /\ pc'[t] \in {"read", "lines", "held", "lockDraft"}
        /\ work'[t] = NoWork
    BY <1>1, <1>3 DEF Begin, Read, GoTo, AfterRead, WritesOfOp
  <2> QED BY <2>1 DEF Prepares, ReplacesTheLines, CoversTheOrder,
          WritesItsHeader, NoWork
<1>4. CASE Commit(t)
  <2>1. pc'[t] = "answered" /\ work'[t] = NoWork
    BY <1>4, CommitWrites
  <2> QED BY <2>1 DEF Prepares, ReplacesTheLines, CoversTheOrder,
          WritesItsHeader, NoWork
<1> SUFFICES ASSUME ~RefusalOf(t), ~Begin(t), ~Read(t), ~Commit(t)
             PROVE  Prepares(t)'
  BY <1>2, <1>3, <1>4
<1>5. /\ UNCHANGED db /\ req' = req
      /\ LinesOf(o)' = LinesOf(o) /\ HeldBy(o)' = HeldBy(o)
  <2>1. UNCHANGED db /\ req' = req
    BY OnlyCommitWrites, AskedOnce
  <2> QED BY <2>1 DEF db, LinesOf, HeldBy
<1>6. orders' = orders /\ seen' = seen
  BY <1>5 DEF db, StepOf, Statement, RefusalOf, ReadLines, Find, Lock, Insert,
     Counter, ListHeld, Release, Header, LockDraft, DeleteLine, InsertLines
<1> USE DEF GoTo
<1>7. CASE ReadLines(t)
  <2>1. /\ pc'[t] = "find" /\ req[t].op = "confirm" /\ work' = work
        /\ work[t] = NoWork /\ todo'[t] = {t} \X LinesOf(o)
    BY <1>1, <1>7 DEF ReadLines, StatementOfOp, WritesOfOp
  <2>2. {r[2] : r \in work'[t].ins \cup todo'[t]} = LinesOf(o)
    <3>1. work'[t].ins \cup todo'[t] = {t} \X LinesOf(o)
      BY <2>1 DEF NoWork
    <3> QED BY <3>1, SecondOfPairs, Zenon
  <2> QED BY <1>5, <1>6, <2>1, <2>2 DEF Prepares, ReplacesTheLines,
          CoversTheOrder, WritesItsHeader, NoWork
<1>8. CASE Find(t) \/ Lock(t)
  <2>1. /\ pc[t] \in {"find", "lock"} /\ pc'[t] \in {"lock", "insert"}
        /\ req[t].op = "confirm" /\ work' = work /\ todo' = todo
    BY <1>1, <1>8 DEF Find, Lock, StatementOfOp
  <2> QED BY <1>1, <1>5, <1>6, <2>1 DEF Prepares, ReplacesTheLines,
          CoversTheOrder, WritesItsHeader
<1>9. CASE Insert(t)
  <2>1. /\ pc[t] = "insert" /\ req[t].op = "confirm"
        /\ work'[t].ins \cup todo'[t] = work[t].ins \cup todo[t]
        /\ pc'[t] = IF todo'[t] = {} THEN "counter" ELSE "find"
        /\ work'[t].del = work[t].del /\ work'[t].add = work[t].add
    BY <1>1, <1>9, InsertMoves, LineWrites DEF Insert, StatementOfOp
  <2> QED BY <1>1, <1>5, <1>6, <2>1 DEF Prepares, ReplacesTheLines,
          CoversTheOrder, WritesItsHeader
<1>10. CASE Counter(t)
  <2>1. /\ pc[t] = "counter" /\ req[t].op = "confirm" /\ pc'[t] = "header"
        /\ work'[t].ins = work[t].ins /\ todo' = todo
        /\ work'[t].del = work[t].del /\ work'[t].add = work[t].add
    BY <1>1, <1>10, CounterWrites, LineWrites DEF Counter, StatementOfOp
  <2> QED BY <1>1, <1>5, <1>6, <2>1 DEF Prepares, ReplacesTheLines,
          CoversTheOrder, WritesItsHeader
<1>11. CASE ListHeld(t)
  <2>1. /\ req[t].op = "cancel" /\ work' = work /\ work[t] = NoWork
        /\ todo'[t] = HeldBy(o)
        /\ pc'[t] = IF todo'[t] = {} THEN "header" ELSE "release"
    BY <1>1, <1>11, HeldLinesAreLive DEF ListHeld, StatementOfOp, WritesOfOp
  <2> QED BY <1>5, <1>6, <2>1 DEF Prepares, ReplacesTheLines,
          CoversTheOrder, WritesItsHeader, NoWork
<1>12. CASE Release(t)
  <2>1. /\ pc[t] = "release" /\ req[t].op = "cancel"
        /\ work'[t].rel \cup todo'[t] = work[t].rel \cup todo[t]
        /\ pc'[t] = IF todo'[t] = {} THEN "header" ELSE "release"
        /\ work'[t].del = work[t].del /\ work'[t].add = work[t].add
    BY <1>1, <1>12, ReleaseMoves, LineWrites DEF Release, StatementOfOp
  <2> QED BY <1>1, <1>5, <1>6, <2>1 DEF Prepares, ReplacesTheLines,
          CoversTheOrder, WritesItsHeader
<1>13. CASE Header(t)
  <2>1. /\ pc[t] = "header" /\ pc'[t] = "commit" /\ todo' = todo
        /\ work'[t].row = TransitionRow(t) /\ work'[t].num = work[t].num
        /\ work'[t].ins = work[t].ins /\ work'[t].rel = work[t].rel
        /\ work'[t].del = work[t].del /\ work'[t].add = work[t].add
        /\ row.version = seen[t].version /\ req[t].op \in {"confirm", "cancel"}
    BY <1>1, <1>13, HeaderWrites, LineWrites DEF Header, Unmoved, StatementOfOp
  <2>2. seen[t] = row
    BY <1>1, <2>1 DEF ReadTheOrder, Final
  <2>3. TransitionRow(t)' = TransitionRow(t)
    BY <1>5, <1>6, <2>1 DEF TransitionRow
  <2>4. ReplacesTheLines(t)'
    BY <1>1, <1>5, <2>1 DEF Prepares, ReplacesTheLines
  <2>5. CoversTheOrder(t)'
    BY <1>1, <1>5, <1>6, <2>1 DEF Prepares, CoversTheOrder
  <2>6. WritesItsHeader(t)'
    BY <1>5, <1>6, <2>1, <2>2, <2>3 DEF WritesItsHeader
  <2> QED BY <2>4, <2>5, <2>6 DEF Prepares
<1>14. CASE LockDraft(t)
  <2>1. /\ req[t].op = "edit" /\ work' = work /\ work[t] = NoWork
        /\ todo'[t] = {t} \X LinesOf(o)
        /\ pc'[t] = IF todo'[t] = {} THEN "insertLines" ELSE "delete"
    BY <1>1, <1>14 DEF LockDraft, StatementOfOp, WritesOfOp
  <2>2. {r[2] : r \in todo'[t]} = LinesOf(o)
    <3>1. todo'[t] = {t} \X LinesOf(o)
      BY <2>1
    <3> QED BY <3>1, SecondOfPairs, Zenon
  <2> QED BY <1>5, <2>1, <2>2 DEF Prepares, ReplacesTheLines,
          CoversTheOrder, WritesItsHeader, NoWork
<1>15. CASE DeleteLine(t)
  <2>1. /\ pc[t] = "delete" /\ req[t].op = "edit"
        /\ work'[t].del \cup {r[2] : r \in todo'[t]}
             = work[t].del \cup {r[2] : r \in todo[t]}
        /\ pc'[t] = IF todo'[t] = {} THEN "insertLines" ELSE "delete"
    BY <1>1, <1>15, DeleteLineMoves DEF DeleteLine, StatementOfOp
  <2> QED BY <1>1, <1>5, <2>1 DEF Prepares, ReplacesTheLines,
          CoversTheOrder, WritesItsHeader
<1>16. CASE InsertLines(t)
  <2>1. /\ pc[t] = "insertLines" /\ pc'[t] = "commit" /\ req[t].op = "edit"
        /\ todo' = todo /\ work'[t].del = work[t].del
        /\ work'[t].add = req[t].lines
        /\ work'[t].row = EditedRow(row, req[t].lines)
    BY <1>1, <1>16, InsertLinesWrites, LineWrites DEF InsertLines, StatementOfOp
  <2>2. EditedRow(row, req[t].lines)' = EditedRow(row, req[t].lines)
    BY <1>5, <1>6
  <2> QED BY <1>1, <1>5, <1>6, <2>1 DEF Prepares, ReplacesTheLines,
          CoversTheOrder, WritesItsHeader
<1> QED BY <1>7, <1>8, <1>9, <1>10, <1>11, <1>12, <1>13, <1>14, <1>15, <1>16
        DEF StepOf, Statement, RefusalOf

\* What StatusMatchesReservations says of one order.
Matches(o) ==
  IF orders[o].status = "confirmed"
  THEN /\ {r[2] : r \in HeldBy(o)} = LinesOf(o)
       /\ \A r, s \in HeldBy(o) : r[2] = s[2] => r = s
  ELSE HeldBy(o) = {}

LEMMA StatusMatchesByOrder == StatusMatchesReservations <=> \A o \in Order : Matches(o)
BY DEF StatusMatchesReservations, Matches, HeldBy

\* What a commit is about to do, by operation.
LEMMA CommitOfConfirm ==
  ASSUME TypeOK, ControlInv, NumberInv, StockInv, OrdersInv, NEW t \in Txn,
         Commit(t), req[t].op = "confirm"
  PROVE  LET o == req[t].order
         IN  /\ orders[o].status = "draft" /\ HeldBy(o) = {}
             /\ orders'[o] = TransitionRow(t) /\ live' = live
             /\ active' = active \cup work[t].ins
             /\ {r[2] : r \in work[t].ins} = LinesOf(o)
             /\ \A r \in work[t].ins : r \in Reservation /\ r[1] = t
             /\ work[t].num = nextValue /\ nextValue' = nextValue + 1
<1> DEFINE o == req[t].order
<1>1. /\ ReplacesTheLines(t) /\ CoversTheOrder(t) /\ WritesItsHeader(t)
      /\ WritesOfOp(t) /\ WritesTheOrder(t) /\ HoldsTheNumber(t)
      /\ OwnsItsInserts(t) /\ Matches(o) /\ nextValue \in Nat \ {0}
      /\ work[t].ins \in SUBSET Reservation
  BY StatusMatchesByOrder, RowsType DEF OrdersInv, ControlInv, NumberInv,
     StockInv, TypeOK
<1>2. /\ pc[t] = "commit" /\ orders'[o] = work[t].row
      /\ live' = (live \ work[t].del) \cup work[t].add
      /\ active' = (active \ work[t].rel) \cup work[t].ins
  BY CommitWrites
<1>3. /\ seen[t] = orders[o] /\ work[t].row = TransitionRow(t)
      /\ orders[o].status = "draft" /\ todo[t] = {}
      /\ work[t].rel = {} /\ work[t].del = {} /\ work[t].add = {}
  BY <1>1, <1>2 DEF WritesItsHeader, WritesTheOrder, CoversTheOrder, WritesOfOp,
     ReplacesTheLines
<1>4. HeldBy(o) = {}
  BY <1>1, <1>3 DEF Matches
<1>5. {r[2] : r \in work[t].ins} = LinesOf(o)
  <2>1. {r[2] : r \in work[t].ins \cup todo[t]} = LinesOf(o)
    BY <1>1, <1>2, <1>3 DEF CoversTheOrder
  <2>2. work[t].ins \cup todo[t] = work[t].ins
    BY <1>3
  <2> QED BY <2>1, <2>2, Zenon
<1>6. work[t].num = nextValue /\ nextValue' = nextValue + 1
  BY <1>1, <1>2 DEF HoldsTheNumber, Commit
<1> QED BY <1>1, <1>2, <1>3, <1>4, <1>5, <1>6 DEF OwnsItsInserts

LEMMA CommitOfCancel ==
  ASSUME TypeOK, ControlInv, NumberInv, OrdersInv, NEW t \in Txn,
         Commit(t), req[t].op = "cancel"
  PROVE  LET o == req[t].order
         IN  /\ orders[o].status \in {"draft", "confirmed"}
             /\ orders'[o] = TransitionRow(t) /\ seen[t] = orders[o]
             /\ live' = live /\ active' = active \ HeldBy(o)
             /\ nextValue' = nextValue
<1> DEFINE o == req[t].order
<1>1. /\ ReplacesTheLines(t) /\ CoversTheOrder(t) /\ WritesItsHeader(t)
      /\ WritesOfOp(t) /\ WritesTheOrder(t)
  BY DEF OrdersInv, ControlInv, NumberInv
<1>2. /\ pc[t] = "commit" /\ orders'[o] = work[t].row
      /\ live' = (live \ work[t].del) \cup work[t].add
      /\ active' = (active \ work[t].rel) \cup work[t].ins
  BY CommitWrites
<1>3. /\ seen[t] = orders[o] /\ work[t].row = TransitionRow(t) /\ todo[t] = {}
      /\ orders[o].status \in {"draft", "confirmed"}
      /\ work[t].ins = {} /\ work[t].del = {} /\ work[t].add = {}
  BY <1>1, <1>2 DEF WritesItsHeader, WritesTheOrder, CoversTheOrder, WritesOfOp,
     ReplacesTheLines
<1>4. work[t].rel = HeldBy(o)
  BY <1>1, <1>2, <1>3 DEF CoversTheOrder
<1>5. nextValue' = nextValue
  BY <1>1 DEF WritesOfOp, Commit
<1> QED BY <1>2, <1>3, <1>4, <1>5

LEMMA CommitOfEdit ==
  ASSUME TypeOK, ControlInv, NumberInv, OrdersInv, NEW t \in Txn,
         Commit(t), req[t].op = "edit"
  PROVE  LET o == req[t].order
         IN  /\ orders[o].status = "draft"
             /\ orders'[o] = EditedRow(orders[o], req[t].lines)
             /\ live' = (live \ LinesOf(o)) \cup req[t].lines
             /\ active' = active /\ nextValue' = nextValue
<1> DEFINE o == req[t].order
<1>1. /\ ReplacesTheLines(t) /\ WritesItsHeader(t)
      /\ WritesOfOp(t) /\ WritesTheOrder(t)
  BY DEF OrdersInv, ControlInv, NumberInv
<1>2. /\ pc[t] = "commit" /\ orders'[o] = work[t].row
      /\ live' = (live \ work[t].del) \cup work[t].add
      /\ active' = (active \ work[t].rel) \cup work[t].ins
  BY CommitWrites
<1>3. /\ work[t].row = EditedRow(orders[o], req[t].lines) /\ todo[t] = {}
      /\ orders[o].status = "draft" /\ work[t].add = req[t].lines
      /\ work[t].ins = {} /\ work[t].rel = {}
  BY <1>1, <1>2 DEF WritesItsHeader, WritesTheOrder, WritesOfOp, ReplacesTheLines
<1>4. work[t].del = LinesOf(o)
  BY <1>1, <1>2, <1>3 DEF ReplacesTheLines
<1>5. nextValue' = nextValue
  BY <1>1 DEF WritesOfOp, Commit
<1> QED BY <1>2, <1>3, <1>4, <1>5

\* The order of the request after its commit.
LEMMA CommitLeavesAMatch ==
  ASSUME TypeOK, ControlInv, NumberInv, StockInv, OrdersInv, NEW t \in Txn,
         Commit(t), NEW o \in Order, o = req[t].order
  PROVE  Matches(o)' /\ orders'[o].status # "absent"
<1>1. req[t].op \in {"confirm", "cancel", "edit"} /\ orders[o] \in OrderRow
  BY CommitWrites, RowsType DEF ControlInv, StatementOfOp
<1>2. CASE req[t].op = "confirm"
  <2>1. /\ HeldBy(o) = {} /\ live' = live /\ active' = active \cup work[t].ins
        /\ {r[2] : r \in work[t].ins} = LinesOf(o)
        /\ \A r \in work[t].ins : r \in Reservation /\ r[1] = t
        /\ orders'[o] = TransitionRow(t)
    BY <1>2, CommitOfConfirm
  <2>2. orders'[o].status = "confirmed"
    BY <1>2, <2>1 DEF TransitionRow, TargetStatus
  <2>3. \A r \in work[t].ins : LineOrder[r[2]] = o
    BY <2>1 DEF LinesOf
  <2>4. HeldBy(o)' = work[t].ins
    BY <2>1, <2>3 DEF HeldBy
  <2>5. LinesOf(o)' = LinesOf(o)
    BY <2>1 DEF LinesOf
  <2>6. \A r, s \in work[t].ins : r[2] = s[2] => r = s
    BY <2>1 DEF Reservation
  <2>7. {r[2] : r \in HeldBy(o)}' = LinesOf(o)'
    BY <2>1, <2>4, <2>5
  <2> QED BY <2>2, <2>4, <2>6, <2>7 DEF Matches
<1>3. CASE req[t].op = "cancel"
  <2>1. active' = active \ HeldBy(o) /\ orders'[o] = TransitionRow(t)
    BY <1>3, CommitOfCancel
  <2>2. orders'[o].status = "cancelled" /\ HeldBy(o)' = {}
    BY <1>3, <2>1 DEF TransitionRow, TargetStatus, HeldBy
  <2> QED BY <2>2 DEF Matches
<1>4. CASE req[t].op = "edit"
  <2>1. /\ orders[o].status = "draft" /\ active' = active
        /\ orders'[o] = EditedRow(orders[o], req[t].lines)
    BY <1>4, CommitOfEdit
  <2>2. HeldBy(o)' = {}
    BY <2>1, StatusMatchesByOrder DEF OrdersInv, Matches, HeldBy
  <2>3. orders'[o].status = "draft"
    BY <1>1, <2>1 DEF EditedRow, OrderRow
  <2> QED BY <2>2, <2>3 DEF Matches
<1> QED BY <1>1, <1>2, <1>3, <1>4

\* The lines of a new draft are new, and nobody is working on its order.
LEMMA OrdersCreateStep ==
  ASSUME TypeOK, NumberInv, OrdersInv, NEW o \in Order,
         NEW lines \in SUBSET Line, CreateDraft(o, lines)
  PROVE  OrdersInv'
<1>1. /\ UNCHANGED <<pc, seen, todo, work, req, active>>
      /\ orders[o].status = "absent" /\ lines \cap issued = {}
      /\ \A l \in lines : LineOrder[l] = o
      /\ live' = live \cup lines /\ issued' = issued \cup lines
  BY DEF CreateDraft, progress
<1>2. orders'[o].status = "draft"
  BY DEF CreateDraft, TypeOK, OrderRow
<1>3. \A p \in Order \ {o} : orders'[p] = orders[p] /\ LinesOf(p)' = LinesOf(p)
  BY <1>1 DEF CreateDraft, TypeOK, LinesOf
<1>4. \A p \in Order : HeldBy(p)' = HeldBy(p)
  BY <1>1 DEF HeldBy
<1>5. live' \subseteq issued'
  BY <1>1 DEF OrdersInv
<1>6. ASSUME NEW t \in Txn PROVE BringsItsLines(t)'
  BY <1>1 DEF OrdersInv, BringsItsLines
<1>7. ASSUME NEW t \in Txn PROVE Prepares(t)'
  <2>1. /\ Prepares(t) /\ ReadTheOrder(t) /\ req[t].order \in Order
    BY RowsType DEF OrdersInv, Prepares, NumberInv
  <2>2. CASE pc[t] \in {"idle", "read"} \cup Final
    <3>1. pc[t] \notin {"find", "lock", "insert", "counter", "release", "header",
                        "delete", "insertLines", "commit"}
      BY <2>2 DEF Final
    <3> QED BY <1>1, <2>1, <3>1 DEF Prepares, ReplacesTheLines,
            CoversTheOrder, WritesItsHeader
  <2>3. CASE pc[t] \notin {"idle", "read"} \cup Final
    <3> DEFINE q == req[t].order
    <3>1. q \in Order \ {o} /\ q' = q
      BY <1>1, <2>1, <2>3 DEF ReadTheOrder
    <3>2. orders'[q] = orders[q] /\ LinesOf(q)' = LinesOf(q) /\ HeldBy(q)' = HeldBy(q)
      BY <1>3, <1>4, <3>1
    <3>3. TransitionRow(t)' = TransitionRow(t)
      BY <1>1, <3>2 DEF TransitionRow
    <3>4. ReplacesTheLines(t)'
      BY <1>1, <2>1, <3>2 DEF Prepares, ReplacesTheLines
    <3>5. CoversTheOrder(t)'
      BY <1>1, <2>1, <3>2 DEF Prepares, CoversTheOrder
    <3>6. WritesItsHeader(t)'
      BY <1>1, <2>1, <3>2, <3>3 DEF Prepares, WritesItsHeader
    <3> QED BY <3>4, <3>5, <3>6 DEF Prepares
  <2> QED BY <2>2, <2>3
<1>8. ASSUME NEW p \in Order
      PROVE  /\ orders'[p].status = "absent" => orders'[p] = NoOrder /\ LinesOf(p)' = {}
             /\ Matches(p)'
  <2>1. Matches(p) /\ Matches(o)
    BY StatusMatchesByOrder DEF OrdersInv
  <2>2. CASE p = o
    BY <1>1, <1>2, <1>4, <2>1, <2>2 DEF Matches
  <2>3. CASE p # o
    BY <1>3, <1>4, <2>1, <2>3 DEF OrdersInv, Matches
  <2> QED BY <2>2, <2>3
<1>9. StatusMatchesReservations'
  BY <1>8 DEF StatusMatchesReservations, Matches, HeldBy
<1> QED BY <1>5, <1>6, <1>7, <1>8, <1>9 DEF OrdersInv, Prepares

LEMMA OrdersStep ==
  TypeOK /\ ControlInv /\ NumberInv /\ StockInv /\ OrdersInv /\ [Next]_vars
    => OrdersInv'
<1> SUFFICES ASSUME TypeOK, ControlInv, NumberInv, StockInv, OrdersInv, [Next]_vars
             PROVE  OrdersInv'
  OBVIOUS
<1>1. CASE UNCHANGED vars \/ Finished
  <2>1. UNCHANGED <<pc, seen, todo, work, req, issued, orders, live, active>>
    BY <1>1 DEF Finished, vars, db, progress
  <2> QED BY <2>1 DEF OrdersInv, BringsItsLines, ReplacesTheLines, CoversTheOrder,
          WritesItsHeader, TransitionRow, LinesOf, HeldBy,
          StatusMatchesReservations
<1>2. ASSUME NEW t \in Txn, StepOf(t) PROVE OrdersInv'
  <2>1. ASSUME NEW u \in Txn PROVE BringsItsLines(u)' /\ Prepares(u)'
    BY <1>2, BringsItsLinesStep, StillPrepared, OthersStillPrepared
  <2>2. live' \subseteq issued'
    <3>1. CASE Commit(t)
      <4>1. /\ live' = (live \ work[t].del) \cup work[t].add
            /\ pc[t] = "commit" /\ issued' = issued
        BY <3>1, CommitWrites DEF Commit
      <4>2. work[t].add \subseteq issued
        BY <4>1 DEF OrdersInv, ReplacesTheLines, BringsItsLines
      <4> QED BY <4>1, <4>2 DEF OrdersInv
    <3>2. CASE ~Commit(t)
      <4>1. live' = live /\ issued \subseteq issued'
        BY <1>2, <3>2, OnlyCommitWrites, AskedOnce, BeginAsks DEF db
      <4> QED BY <4>1 DEF OrdersInv
    <3> QED BY <3>1, <3>2
  <2>3. ASSUME NEW p \in Order
        PROVE  /\ orders'[p].status = "absent" => orders'[p] = NoOrder /\ LinesOf(p)' = {}
               /\ Matches(p)'
    <3>1. Matches(p)
      BY StatusMatchesByOrder DEF OrdersInv
    <3>2. CASE Commit(t) /\ p = req[t].order
      BY <3>2, CommitLeavesAMatch
    <3>3. CASE Commit(t) /\ p # req[t].order
      <4>1. orders'[p] = orders[p] /\ LinesOf(p)' = LinesOf(p) /\ HeldBy(p)' = HeldBy(p)
        BY <3>3, CommitIsLocal
      <4> QED BY <3>1, <4>1 DEF Matches, OrdersInv
    <3>4. CASE ~Commit(t)
      <4>1. orders' = orders /\ live' = live /\ active' = active
        BY <1>2, <3>4, OnlyCommitWrites DEF db
      <4> QED BY <3>1, <4>1 DEF Matches, OrdersInv, LinesOf, HeldBy
    <3> QED BY <3>2, <3>3, <3>4
  <2>4. StatusMatchesReservations'
    BY <2>3 DEF StatusMatchesReservations, Matches, HeldBy
  <2> QED BY <2>1, <2>2, <2>3, <2>4 DEF OrdersInv, Prepares
<1> QED BY <1>1, <1>2, OrdersCreateStep DEF Next, StepOf

\* Everything that is needed at once.
IInv == TypeOK /\ ControlInv /\ NumberInv /\ StockInv /\ OrdersInv

LEMMA IInvHolds == Spec => []IInv
<1>1. Init => IInv
  BY TypeInit, ControlInit, NumberInit, StockInit, OrdersInit DEF IInv
<1>2. IInv /\ [Next]_vars => IInv'
  BY TypeStep, ControlStep, NumberStep, StockStep, OrdersStep DEF IInv
<1> QED BY <1>1, <1>2, PTL DEF Spec

\* A confirmed order holds one reservation for each of its lines, and every
\* other order none, for any number of overlapping requests.
THEOREM ConfirmedOrdersAreReserved == Spec => []StatusMatchesReservations
<1>1. IInv => StatusMatchesReservations
  BY DEF IInv, OrdersInv
<1> QED BY <1>1, IInvHolds, PTL

-----------------------------------------------------------------------------
(* Every transaction is atomic: OrderFulfilment implements OrderBook *)

\* The lines a set of reservations is for.
LinesIn(R) == {r[2] : r \in R}

\* No line is reserved twice, so its name is enough for its reservation.
LineNamesReservation ==
  active \subseteq Reservation /\ \A r, s \in active : r[2] = s[2] => r = s

LEMMA LinesNameReservations ==
  TypeOK /\ StatusMatchesReservations => LineNamesReservation
<1> SUFFICES ASSUME TypeOK, StatusMatchesReservations,
                    NEW r \in active, NEW s \in active, r[2] = s[2]
             PROVE  r = s
  BY DEF LineNamesReservation, TypeOK
<1> DEFINE o == LineOrder[r[2]]
<1>1. o \in Order
  BY ConstantsAssumption DEF TypeOK, Reservation
<1>2. r \in HeldBy(o) /\ s \in HeldBy(o)
  BY DEF HeldBy
<1> HIDE DEF o
<1> QED BY <1>1, <1>2, StatusMatchesByOrder DEF Matches

\* Each instance of a module has sums of its own: they are the same sums.
LEMMA TotalOfBook ==
  ASSUME NEW S, NEW qty
  PROVE  OrderBookInstance!Total(S, qty) = Total(S, qty)
BY Zenon DEF Total, Units, Cardinality, OrderBookInstance!Total,
         OrderBookInstance!Units, OrderBookInstance!Cardinality

\* What OrderBook sums over lines is what OrderFulfilment sums over rows.
LEMMA PromisedByName ==
  ASSUME NEW R \in SUBSET Reservation, \A r, s \in R : r[2] = s[2] => r = s,
         NEW b
  PROVE  OrderBookInstance!PromisedOn(b, LinesIn(R))
           = Total(OnBalance(R, b), ReservationQty)
<1> DEFINE S == OnBalance(R, b)
           f == [r \in S |-> r[2]]
<1>1. S \in SUBSET Reservation
  BY DEF OnBalance
<1>2. f \in [S -> Line] /\ \A r, s \in S : f[r] = f[s] => r = s
  BY <1>1 DEF Reservation, OnBalance
<1>3. \A r \in S : LineQty[f[r]] = ReservationQty[r]
  BY <1>1 DEF ReservationQty
<1>4. IsFiniteSet(S) /\ \A r \in S : ReservationQty[r] \in Nat
  <2> HIDE DEF S
  <2> QED BY <1>1, PromisesAreFinite
<1>5. Total({f[r] : r \in S}, LineQty) = Total(S, ReservationQty)
  <2> HIDE DEF S, f
  <2> QED BY <1>2, <1>3, <1>4, TotalRenamed
<1>6. {f[r] : r \in S} = {l \in LinesIn(R) : LineBalance[l] = b}
  BY DEF LinesIn, OnBalance
<1> HIDE DEF f
<1>7. Total({l \in LinesIn(R) : LineBalance[l] = b}, LineQty) = Total(S, ReservationQty)
  BY <1>5, <1>6, Zenon
<1> QED BY <1>7, TotalOfBook, Zenon DEF OrderBookInstance!PromisedOn, S

\* A row is known by its columns.
LEMMA SameColumns ==
  ASSUME NEW r \in OrderRow, NEW s \in OrderRow,
         r.status = s.status, r.version = s.version, r.number = s.number,
         r.priced = s.priced
  PROVE  r = s
BY DEF OrderRow

LEMMA EditedRowColumns ==
  ASSUME NEW row \in OrderRow, NEW lines \in SUBSET Line
  PROVE  /\ EditedRow(row, lines).status = row.status
         /\ EditedRow(row, lines).version = row.version + 1
         /\ EditedRow(row, lines).number = row.number
         /\ EditedRow(row, lines).priced = lines
BY DEF EditedRow, OrderRow

\* The rows both modules write, each in its own words.
LEMMA EditedIsDraft ==
  ASSUME NEW row \in OrderRow, NEW lines \in SUBSET Line,
         row.status = "draft", row.number = 0
  PROVE  EditedRow(row, lines) = OrderBookInstance!Draft(row.version + 1, lines)
<1>1. row.version + 1 \in Nat
  BY DEF OrderRow
<1>2. OrderBookInstance!Draft(row.version + 1, lines) \in OrderRow
  BY <1>1 DEF OrderBookInstance!Draft, OrderRow, Statuses
<1>3. EditedRow(row, lines) \in OrderRow
  BY EditedRowType
<1> QED BY <1>2, <1>3, EditedRowColumns, SameColumns DEF OrderBookInstance!Draft

LEMMA NewRowIsDraft ==
  ASSUME NEW row \in OrderRow, row = NoOrder, NEW lines \in SUBSET Line
  PROVE  [row EXCEPT !.status = "draft", !.version = 1, !.priced = lines]
           = OrderBookInstance!Draft(1, lines)
<1> DEFINE s == [row EXCEPT !.status = "draft", !.version = 1, !.priced = lines]
<1>1. s \in OrderRow
  BY DEF OrderRow, Statuses
<1>2. s.status = "draft" /\ s.version = 1 /\ s.number = row.number /\ s.priced = lines
  BY DEF OrderRow
<1>3. row.number = 0
  BY DEF NoOrder
<1> HIDE DEF s
<1>4. OrderBookInstance!Draft(1, lines) \in OrderRow
  BY DEF OrderBookInstance!Draft, OrderRow, Statuses
<1>5. s = OrderBookInstance!Draft(1, lines)
  BY <1>1, <1>2, <1>3, <1>4, SameColumns DEF OrderBookInstance!Draft
<1> QED BY <1>5 DEF s

LEMMA ConfirmedRow ==
  ASSUME NEW row \in OrderRow, NEW n \in Nat
  PROVE  [status |-> "confirmed", version |-> row.version + 1, number |-> n,
          priced |-> row.priced]
           = [row EXCEPT !.status = "confirmed", !.number = n, !.version = @ + 1]
<1>1. row.version + 1 \in Nat
  BY DEF OrderRow
<1> DEFINE s == [row EXCEPT !.status = "confirmed", !.number = n, !.version = @ + 1]
           r == [status |-> "confirmed", version |-> row.version + 1,
                 number |-> n, priced |-> row.priced]
<1>2. s \in OrderRow /\ r \in OrderRow
  BY <1>1 DEF OrderRow, Statuses
<1>3. /\ s.status = "confirmed" /\ s.number = n /\ s.version = row.version + 1
      /\ s.priced = row.priced
  BY DEF OrderRow
<1>4. /\ r.status = "confirmed" /\ r.number = n /\ r.version = row.version + 1
      /\ r.priced = row.priced
  OBVIOUS
<1> HIDE DEF s, r
<1>5. s = r
  BY <1>2, <1>3, <1>4, SameColumns
<1> QED BY <1>5 DEF s, r

LEMMA CancelledRow ==
  ASSUME NEW row \in OrderRow
  PROVE  [status |-> "cancelled", version |-> row.version + 1,
          number |-> row.number, priced |-> row.priced]
           = [row EXCEPT !.status = "cancelled", !.version = @ + 1]
<1>1. row.version + 1 \in Nat
  BY DEF OrderRow
<1> DEFINE s == [row EXCEPT !.status = "cancelled", !.version = @ + 1]
           r == [status |-> "cancelled", version |-> row.version + 1,
                 number |-> row.number, priced |-> row.priced]
<1>2. s \in OrderRow /\ r \in OrderRow
  BY <1>1 DEF OrderRow, Statuses
<1>3. /\ s.status = "cancelled" /\ s.number = row.number
      /\ s.version = row.version + 1 /\ s.priced = row.priced
  BY DEF OrderRow
<1>4. /\ r.status = "cancelled" /\ r.number = row.number
      /\ r.version = row.version + 1 /\ r.priced = row.priced
  OBVIOUS
<1> HIDE DEF s, r
<1>5. s = r
  BY <1>2, <1>3, <1>4, SameColumns
<1> QED BY <1>5 DEF s, r

\* A row updated in place is the row replaced.
LEMMA ConfirmedInPlace ==
  ASSUME NEW f \in [Order -> OrderRow], NEW o \in Order, NEW n
  PROVE  [f EXCEPT ![o].status = "confirmed", ![o].number = n,
                   ![o].version = @ + 1]
           = [f EXCEPT ![o] = [f[o] EXCEPT !.status = "confirmed",
                                           !.number = n, !.version = @ + 1]]
OBVIOUS

LEMMA CancelledInPlace ==
  ASSUME NEW f \in [Order -> OrderRow], NEW o \in Order
  PROVE  [f EXCEPT ![o].status = "cancelled", ![o].version = @ + 1]
           = [f EXCEPT ![o] = [f[o] EXCEPT !.status = "cancelled",
                                           !.version = @ + 1]]
OBVIOUS

LEMMA BookInit == Init => OrderBookInstance!Init
<1> SUFFICES ASSUME Init PROVE OrderBookInstance!Init
  OBVIOUS
<1>1. /\ onHand \in [Balance -> StockLevels] /\ live = InitialLines
      /\ {r[2] : r \in active} = {} /\ nextValue = 1
  BY DEF Init
<1>2. \A o \in Order : OrderBookInstance!LinesOf(o)
                         = {l \in InitialLines : LineOrder[l] = o}
  BY <1>1 DEF OrderBookInstance!LinesOf
<1> DEFINE lines(o) == {l \in InitialLines : LineOrder[l] = o}
           fresh(o) == [NoOrder EXCEPT !.status = "draft", !.version = 1,
                                       !.priced = lines(o)]
<1>3. \A o \in Order : fresh(o) = OrderBookInstance!Draft(1, lines(o))
  <2> SUFFICES ASSUME NEW o \in Order
               PROVE  fresh(o) = OrderBookInstance!Draft(1, lines(o))
    OBVIOUS
  <2>1. lines(o) \in SUBSET Line
    BY ConstantsAssumption
  <2> HIDE DEF lines
  <2> QED BY <2>1, NothingWritten, NewRowIsDraft
<1>5. orders = [o \in Order |-> IF lines(o) = {} THEN NoOrder ELSE fresh(o)]
  BY DEF Init
<1>6. NoOrder = OrderBookInstance!Absent
  BY DEF NoOrder, OrderBookInstance!Absent
<1>7. \A o \in Order : OrderBookInstance!LinesOf(o) = lines(o)
  BY <1>2
<1> HIDE DEF lines, fresh
<1>4. orders = [o \in Order |->
                  IF OrderBookInstance!LinesOf(o) = {} THEN OrderBookInstance!Absent
                  ELSE OrderBookInstance!Draft(1, OrderBookInstance!LinesOf(o))]
  BY <1>3, <1>5, <1>6, <1>7
<1> QED BY <1>1, <1>4 DEF OrderBookInstance!Init

\* What the abstract confirmation asks for, and what it leaves.
Sound == NoOversell /\ LineNamesReservation

LEMMA IInvIsSound == IInv => Sound
BY PromisedCoversActive, LinesNameReservations DEF IInv, OrdersInv, Sound

\* The steps that write: each is the operation its request asked for.
LEMMA BookCreate ==
  ASSUME IInv, NEW o \in Order, NEW lines \in SUBSET Line, CreateDraft(o, lines)
  PROVE  OrderBookInstance!Create(o, lines)
<1>1. /\ orders \in [Order -> OrderRow] /\ live \subseteq issued
      /\ orders[o] = NoOrder
  BY DEF IInv, TypeOK, OrdersInv, CreateDraft
<1>2. orders' = [orders EXCEPT ![o] = OrderBookInstance!Draft(1, lines)]
  <2>1. [orders[o] EXCEPT !.status = "draft", !.version = 1, !.priced = lines]
          = OrderBookInstance!Draft(1, lines)
    BY <1>1, NewRowIsDraft
  <2> QED BY <2>1 DEF CreateDraft
<1> QED BY <1>1, <1>2 DEF CreateDraft, OrderBookInstance!Create,
        OrderBookInstance!Absent, NoOrder

LEMMA BookConfirm ==
  ASSUME IInv, Sound', NEW t \in Txn, Commit(t), req[t].op = "confirm",
         NEW o, o = req[t].order
  PROVE  OrderBookInstance!Confirm(o)
<1>1. /\ orders[o].status = "draft"
      /\ orders'[o] = TransitionRow(t) /\ live' = live
      /\ active' = active \cup work[t].ins
      /\ {r[2] : r \in work[t].ins} = LinesOf(o)
      /\ work[t].num = nextValue /\ nextValue' = nextValue + 1
      /\ onHand' = onHand
  BY CommitOfConfirm, CommitWrites DEF IInv
<1>2. /\ orders \in [Order -> OrderRow] /\ o \in Order
      /\ orders' = [orders EXCEPT ![o] = work[t].row]
  BY RowsType DEF IInv, TypeOK, Commit
<1>3. TransitionRow(t) = [status |-> "confirmed", version |-> orders[o].version + 1,
                          number |-> nextValue, priced |-> orders[o].priced]
  BY <1>1 DEF TransitionRow, TargetStatus
<1>4. TransitionRow(t) = [orders[o] EXCEPT !.status = "confirmed",
                            !.number = nextValue, !.version = @ + 1]
  <2>1. nextValue \in Nat /\ orders[o] \in OrderRow
    BY <1>2 DEF IInv, TypeOK
  <2> QED BY <1>3, <2>1, ConfirmedRow
<1>5. orders' = [orders EXCEPT ![o].status = "confirmed", ![o].number = nextValue,
                               ![o].version = @ + 1]
  <2>1. orders' = [orders EXCEPT ![o] = [orders[o] EXCEPT
                      !.status = "confirmed", !.number = nextValue, !.version = @ + 1]]
    BY <1>1, <1>2, <1>4
  <2>2. [orders EXCEPT ![o].status = "confirmed", ![o].number = nextValue,
                       ![o].version = @ + 1]
          = [orders EXCEPT ![o] = [orders[o] EXCEPT !.status = "confirmed",
                             !.number = nextValue, !.version = @ + 1]]
    BY <1>2, ConfirmedInPlace
  <2> QED BY <2>1, <2>2, Zenon
<1>6. OrderBookInstance!LinesOf(o) = LinesOf(o)
  BY DEF OrderBookInstance!LinesOf, LinesOf
<1>7. LinesIn(active') = {r[2] : r \in active} \cup LinesOf(o)
  BY <1>1 DEF LinesIn
<1>8. ASSUME NEW b \in Balance
      PROVE  OrderBookInstance!PromisedOn(b, LinesIn(active')) <= onHand[b]
  <2>1. Total(OnBalance(active', b), ReservationQty) <= onHand[b]
    BY <1>1 DEF Sound, NoOversell, OnBalance
  <2>2. /\ active' \in SUBSET Reservation
        /\ \A r, s \in active' : r[2] = s[2] => r = s
    BY DEF Sound, LineNamesReservation
  <2> QED BY <2>1, <2>2, PromisedByName
<1> QED BY <1>1, <1>5, <1>6, <1>7, <1>8 DEF OrderBookInstance!Confirm, LinesIn

LEMMA BookCancel ==
  ASSUME IInv, NEW t \in Txn, Commit(t), req[t].op = "cancel",
         NEW o, o = req[t].order
  PROVE  OrderBookInstance!Cancel(o)
<1>1. /\ orders[o].status \in {"draft", "confirmed"}
      /\ orders'[o] = TransitionRow(t) /\ seen[t] = orders[o]
      /\ live' = live /\ active' = active \ HeldBy(o)
      /\ nextValue' = nextValue /\ onHand' = onHand
  BY CommitOfCancel, CommitWrites DEF IInv
<1>2. /\ orders \in [Order -> OrderRow] /\ o \in Order
      /\ orders' = [orders EXCEPT ![o] = work[t].row]
  BY RowsType DEF IInv, TypeOK, Commit
<1>3. TransitionRow(t) = [status |-> "cancelled", version |-> orders[o].version + 1,
                          number |-> orders[o].number, priced |-> orders[o].priced]
  BY <1>1 DEF TransitionRow, TargetStatus
<1>4. TransitionRow(t) = [orders[o] EXCEPT !.status = "cancelled", !.version = @ + 1]
  <2>1. orders[o] \in OrderRow
    BY <1>2
  <2> QED BY <1>3, <2>1, CancelledRow
<1>5. orders' = [orders EXCEPT ![o].status = "cancelled", ![o].version = @ + 1]
  <2>1. orders' = [orders EXCEPT ![o] = [orders[o] EXCEPT
                      !.status = "cancelled", !.version = @ + 1]]
    BY <1>1, <1>2, <1>4
  <2>2. [orders EXCEPT ![o].status = "cancelled", ![o].version = @ + 1]
          = [orders EXCEPT ![o] = [orders[o] EXCEPT !.status = "cancelled",
                                                    !.version = @ + 1]]
    BY <1>2, CancelledInPlace
  <2> QED BY <2>1, <2>2, Zenon
<1>6. {r[2] : r \in active'} = {r[2] : r \in active} \ LinesOf(o)
  <2>1. \A r \in active : r \in HeldBy(o) <=> r[2] \in LinesOf(o)
    BY <1>2, HeldLinesAreLive DEF IInv, HeldBy, LinesOf
  <2> QED BY <1>1, <2>1
<1>7. OrderBookInstance!LinesOf(o) = LinesOf(o)
  BY DEF OrderBookInstance!LinesOf, LinesOf
<1> QED BY <1>1, <1>5, <1>6, <1>7 DEF OrderBookInstance!Cancel

LEMMA BookEdit ==
  ASSUME IInv, NEW t \in Txn, Commit(t), req[t].op = "edit",
         NEW o, o = req[t].order, NEW lines, lines = req[t].lines
  PROVE  OrderBookInstance!Edit(o, lines)
<1>1. /\ orders[o].status = "draft"
      /\ orders'[o] = EditedRow(orders[o], lines)
      /\ live' = (live \ LinesOf(o)) \cup lines
      /\ active' = active /\ nextValue' = nextValue /\ onHand' = onHand
  BY CommitOfEdit, CommitWrites DEF IInv
<1>2. /\ orders \in [Order -> OrderRow] /\ o \in Order
      /\ orders' = [orders EXCEPT ![o] = work[t].row]
      /\ orders[o].number = 0
  BY <1>1, RowsType DEF IInv, TypeOK, Commit, NumberInv
<1>3. orders' = [orders EXCEPT ![o] = EditedRow(orders[o], lines)]
  BY <1>1, <1>2
<1>4. orders' = [orders EXCEPT ![o] = OrderBookInstance!Draft(@.version + 1, lines)]
  <2>1. orders[o] \in OrderRow /\ lines \in SUBSET Line
    BY <1>2, RowsType DEF IInv
  <2>2. EditedRow(orders[o], lines)
          = OrderBookInstance!Draft(orders[o].version + 1, lines)
    BY <1>1, <1>2, <2>1, EditedIsDraft
  <2> QED BY <1>2, <1>3, <2>2
<1>5. /\ lines # {} /\ lines \cap live = {}
      /\ \A l \in lines : LineOrder[l] = o
  BY CommitWrites DEF IInv, OrdersInv, BringsItsLines
<1>6. OrderBookInstance!LinesOf(o) = LinesOf(o)
  BY DEF OrderBookInstance!LinesOf, LinesOf
<1> QED BY <1>1, <1>4, <1>5, <1>6 DEF OrderBookInstance!Edit

LEMMA BookStep ==
  IInv /\ Sound' /\ [Next]_vars => [OrderBookInstance!Next]_(OrderBookInstance!vars)
<1> SUFFICES ASSUME IInv, Sound', [Next]_vars
             PROVE  OrderBookInstance!Next \/ UNCHANGED OrderBookInstance!vars
  OBVIOUS
<1>1. CASE UNCHANGED db
  BY <1>1 DEF db, OrderBookInstance!vars
<1>2. CASE UNCHANGED vars \/ Finished
  BY <1>1, <1>2 DEF Finished, vars
<1>3. ASSUME NEW o \in Order, NEW lines \in SUBSET Line, CreateDraft(o, lines)
      PROVE  OrderBookInstance!Next
  BY <1>3, BookCreate DEF OrderBookInstance!Next
<1>4. ASSUME NEW t \in Txn, Commit(t) PROVE OrderBookInstance!Next
  <2>1. /\ req[t].op \in {"confirm", "cancel", "edit"}
        /\ req[t].order \in Order /\ req[t].lines \in SUBSET Line
    BY <1>4, CommitWrites, RowsType DEF IInv, ControlInv, StatementOfOp
  <2>2. PICK o \in Order : o = req[t].order
    BY <2>1, Zenon
  <2>3. PICK lines \in SUBSET Line : lines = req[t].lines
    BY <2>1, Zenon
  <2>4. \/ OrderBookInstance!Confirm(o) \/ OrderBookInstance!Cancel(o)
        \/ OrderBookInstance!Edit(o, lines)
    BY <1>4, <2>1, <2>2, <2>3, BookConfirm, BookCancel, BookEdit
  <2> QED BY <2>4, Zenon DEF OrderBookInstance!Next
<1>5. ASSUME NEW t \in Txn, StepOf(t), ~Commit(t) PROVE UNCHANGED db
  BY <1>5, OnlyCommitWrites DEF IInv
<1> QED BY <1>1, <1>2, <1>3, <1>4, <1>5 DEF Next, StepOf

\* Whatever requests overlap, what becomes visible is a sequence of atomic
\* creations, edits, confirmations and cancellations, each of which found the
\* stock it needed and took the next number.
THEOREM TransactionsAreAtomic == Spec => ImplementsOrderBook
<1>1. Init => OrderBookInstance!Init
  BY BookInit
<1>2. IInv /\ Sound' /\ [Next]_vars
        => [OrderBookInstance!Next]_(OrderBookInstance!vars)
  BY BookStep
<1> QED BY <1>1, <1>2, IInvHolds, IInvIsSound, PTL DEF Spec, ImplementsOrderBook,
        OrderBookInstance!Spec

-----------------------------------------------------------------------------
(* No deadlock without an edit *)

\* What a confirmation or a cancellation holds while it waits: balances, up to
\* the one it is at in lock order; then the counter; then, when nothing is left
\* to wait for, the header.
TakesInOrder(t) ==
  /\ pc[t] = "idle" => req[t].op = "none"
  /\ req[t].op # "edit" =>
    /\ \A b \in Balance : balanceLock[b] = t =>
         /\ pc[t] \in {"find", "lock", "insert", "release", "counter", "header",
                      "commit"}
         /\ \A r \in todo[t] : BalanceRank[b] <= BalanceRank[LineBalance[r[2]]]
    /\ counterLock = t => pc[t] \in {"header", "commit"}
    /\ \A o \in Order : orderLock[o] = t => pc[t] = "commit"
    /\ \A l \in Line : lineLock[l] # t

LocksInv == \A t \in Txn : TakesInOrder(t)

\* Of finitely many sets one has none of the others inside it.
LEMMA NoEndlessDescent ==
  ASSUME NEW F, IsFiniteSet(F), NEW C \in SUBSET SUBSET F,
         \A X \in C : \E Y \in C : Y \subseteq X /\ Y # X
  PROVE  C = {}
<1> SUFFICES ASSUME C # {} PROVE FALSE
  OBVIOUS
<1>1. IsWellFoundedOn(StrictSubsetOrdering(F), FiniteSubsetsOf(F))
  BY FS_StrictSubsetOrderingWellFounded
<1>2. C \subseteq FiniteSubsetsOf(F)
  <2>1. \A X \in C : X \in SUBSET F /\ IsFiniteSet(X)
    BY FS_Subset
  <2> QED BY <2>1 DEF FiniteSubsetsOf
<1>3. PICK X \in C : \A Y \in C : <<Y, X>> \notin StrictSubsetOrdering(F)
  BY <1>1, <1>2, WFMin
<1>4. PICK Y \in C : Y \subseteq X /\ Y # X
  OBVIOUS
<1>5. <<Y, X>> \in StrictSubsetOrdering(F)
  BY <1>4 DEF StrictSubsetOrdering
<1> QED BY <1>3, <1>5

\* Lock order, on lines.
LEMMA LockOrderIsTotal ==
  /\ \A l, m \in Line : InLockOrder(l, m) \/ InLockOrder(m, l)
  /\ \A l, m, n \in Line : InLockOrder(l, m) /\ InLockOrder(m, n) => InLockOrder(l, n)
  /\ \A l, m \in Line : InLockOrder(l, m) =>
       BalanceRank[LineBalance[l]] <= BalanceRank[LineBalance[m]]
<1>1. \A l \in Line : LineNo[l] \in Nat /\ BalanceRank[LineBalance[l]] \in Nat
  BY ConstantsAssumption
<1> QED BY <1>1 DEF InLockOrder

\* A sort has a first.
LEMMA SomeIsFirst ==
  ASSUME NEW T \in SUBSET Reservation, T # {}
  PROVE  \E r \in T : \A s \in T : InLockOrder(r[2], s[2])
<1> DEFINE before(r) == {s \in T : ~InLockOrder(r[2], s[2])}
           C == {before(r) : r \in T}
<1> SUFFICES ASSUME \A r \in T : \E s \in T : ~InLockOrder(r[2], s[2])
             PROVE  FALSE
  OBVIOUS
<1>1. \A r \in T : r[2] \in Line
  BY DEF Reservation
<1>2. ASSUME NEW r \in T
      PROVE  \E s \in T : before(s) \subseteq before(r) /\ before(s) # before(r)
  <2>1. PICK s \in T : ~InLockOrder(r[2], s[2])
    OBVIOUS
  <2>2. /\ \A u \in T : ~InLockOrder(s[2], u[2]) => ~InLockOrder(r[2], u[2])
        /\ InLockOrder(s[2], s[2])
    BY <1>1, <2>1, LockOrderIsTotal
  <2> QED BY <2>1, <2>2
<1>3. C \in SUBSET SUBSET T /\ C # {}
  OBVIOUS
<1>4. IsFiniteSet(T)
  BY PromisesAreFinite
<1>5. \A X \in C : \E Y \in C : Y \subseteq X /\ Y # X
  <2> SUFFICES ASSUME NEW r \in T
               PROVE  \E Y \in C : Y \subseteq before(r) /\ Y # before(r)
    OBVIOUS
  <2>1. PICK s \in T : before(s) \subseteq before(r) /\ before(s) # before(r)
    BY <1>2
  <2> QED BY <2>1
<1> HIDE DEF C
<1> QED BY <1>3, <1>4, <1>5, NoEndlessDescent

\* What the sort puts first comes first.
LEMMA NextIsFirst ==
  ASSUME TypeOK, NEW t \in Txn, NEW r \in todo[t], IsNext(t, r)
  PROVE  /\ \A u \in todo[t] : InLockOrder(r[2], u[2])
         /\ \A u \in todo[t] : BalanceRank[LineBalance[r[2]]]
                                <= BalanceRank[LineBalance[u[2]]]
<1>1. todo[t] \in SUBSET Reservation
  BY DEF TypeOK
<1>2. \E s \in todo[t] : \A u \in todo[t] : InLockOrder(s[2], u[2])
  BY <1>1, SomeIsFirst
<1>3. \A u \in todo[t] : InLockOrder(r[2], u[2])
  BY <1>2, Zenon DEF IsNext
<1>4. \A u \in todo[t] : u[2] \in Line
  BY <1>1 DEF Reservation
<1> QED BY <1>3, <1>4, LockOrderIsTotal

\* A step of one transaction gives no lock to another.
LEMMA LocksAreOnesOwn ==
  ASSUME TypeOK, NEW t \in Txn, StepOf(t), NEW u \in Txn \ {t}
  PROVE  /\ \A b \in Balance : balanceLock'[b] = u => balanceLock[b] = u
         /\ counterLock' = u => counterLock = u
         /\ \A o \in Order : orderLock'[o] = u => orderLock[o] = u
         /\ \A l \in Line : lineLock'[l] = u => lineLock[l] = u
<1> USE DEF TypeOK, locks
<1>0. u # NoTxn
  BY ConstantsAssumption
<1>1. CASE RefusalOf(t) \/ Commit(t)
  BY <1>0, <1>1, RefusalRollsBack DEF Rollback, Commit, ReleaseLocks, Freed
<1>2. CASE \/ Begin(t) \/ Read(t) \/ ReadLines(t) \/ Find(t) \/ Insert(t)
           \/ ListHeld(t) \/ InsertLines(t)
  BY <1>2 DEF Begin, Read, ReadLines, Find, Insert, ListHeld, InsertLines
<1>3. CASE Lock(t) \/ Release(t)
  BY <1>3 DEF Lock, Release
<1>4. CASE Counter(t)
  BY <1>4 DEF Counter
<1>5. CASE Header(t) \/ LockDraft(t)
  BY <1>5, RowsType DEF Header, LockDraft
<1>6. CASE DeleteLine(t)
  BY <1>6 DEF DeleteLine
<1> QED BY <1>1, <1>2, <1>3, <1>4, <1>5, <1>6 DEF StepOf, Statement, RefusalOf

LEMMA LocksInit == Init => LocksInv
<1> SUFFICES ASSUME Init, NEW t \in Txn PROVE TakesInOrder(t)
  BY DEF LocksInv
<1> QED BY ConstantsAssumption DEF Init, TakesInOrder

LEMMA LocksStep == TypeOK /\ ControlInv /\ LocksInv /\ [Next]_vars => LocksInv'
<1> SUFFICES ASSUME TypeOK, ControlInv, LocksInv, [Next]_vars PROVE LocksInv'
  OBVIOUS
<1>1. CASE UNCHANGED <<locks, pc, req, todo>>
  BY <1>1 DEF LocksInv, TakesInOrder, locks
<1>2. ASSUME NEW t \in Txn, StepOf(t) PROVE LocksInv'
  <2>1. ASSUME NEW u \in Txn \ {t} PROVE TakesInOrder(u)'
    <3>1. TakesInOrder(u)
      BY DEF LocksInv
    <3>2. pc'[u] = pc[u] /\ req'[u] = req[u] /\ todo'[u] = todo[u]
      BY <1>2, StepIsLocal DEF OthersStay
    <3> QED BY <1>2, <3>1, <3>2, LocksAreOnesOwn DEF TakesInOrder
  <2> SUFFICES TakesInOrder(t)'
    BY <2>1 DEF LocksInv
  <2>2. TakesInOrder(t) /\ StatementOfOp(t)
    BY DEF LocksInv, ControlInv
  <2>3. t # NoTxn
    BY ConstantsAssumption
  <2> USE DEF TypeOK, locks, GoTo
  <2>4. CASE RefusalOf(t) \/ Commit(t)
    <3>1. ReleaseLocks(t)
      BY <2>4, RefusalRollsBack DEF Rollback, Commit
    <3>2. pc'[t] # "idle"
      BY <2>4, RefusalRollsBack DEF Rollback, Commit
    <3> QED BY <2>3, <3>1, <3>2 DEF ReleaseLocks, Freed, TakesInOrder
  <2>5. CASE Begin(t)
    <3>1. pc[t] = "idle" /\ UNCHANGED locks
      BY <2>5 DEF Begin
    <3>2. req[t].op # "edit"
      BY <2>2, <2>5 DEF Begin, TakesInOrder
    <3>3. pc'[t] = "read"
      BY <2>5 DEF Begin
    <3> QED BY <2>2, <3>1, <3>2, <3>3 DEF TakesInOrder
  <2>6. CASE Read(t) \/ ReadLines(t) \/ Find(t) \/ ListHeld(t)
    BY <2>2, <2>6 DEF Read, AfterRead, ReadLines, Find, ListHeld, TakesInOrder
  <2>7. CASE Insert(t)
    BY <2>2, <2>7 DEF Insert, TakesInOrder
  <2>8. CASE Lock(t)
    BY <2>2, <2>8, NextIsFirst DEF Lock, TakesInOrder
  <2>9. CASE Release(t)
    BY <2>2, <2>9, NextIsFirst DEF Release, TakesInOrder
  <2>10. CASE Counter(t)
    BY <2>2, <2>10 DEF Counter, TakesInOrder
  <2>11. CASE Header(t)
    BY <2>2, <2>11 DEF Header, TakesInOrder
  <2>12. CASE LockDraft(t) \/ DeleteLine(t) \/ InsertLines(t)
    BY <2>2, <2>12 DEF LockDraft, DeleteLine, InsertLines, StatementOfOp, TakesInOrder
  <2> QED BY <1>2, <2>4, <2>5, <2>6, <2>7, <2>8, <2>9, <2>10, <2>11, <2>12
          DEF StepOf, Statement, RefusalOf
<1>3. ASSUME NEW o \in Order, NEW lines \in SUBSET Line, CreateDraft(o, lines)
      PROVE  UNCHANGED <<locks, pc, req, todo>>
  BY <1>3 DEF CreateDraft, progress
<1>4. CASE UNCHANGED vars \/ Finished
  BY <1>1, <1>4 DEF vars, progress, Finished
<1> QED BY <1>1, <1>2, <1>3, <1>4 DEF Next, StepOf

\* In a circle of waits each would wait for a balance, held by one that waits for
\* a later one: the lines above what is waited for would get fewer and fewer.
LEMMA NoCircleOfWaits ==
  TypeOK /\ ControlInv /\ LocksInv => DeadlockNeedsAnEdit
<1> SUFFICES ASSUME TypeOK, ControlInv, LocksInv,
                    NEW C \in SUBSET {t \in Txn : req[t].op # "edit"}, C # {},
                    \A t \in C : BlockedBy(t) \cap C # {}
             PROVE  FALSE
  BY DEF DeadlockNeedsAnEdit
<1>1. \A t \in C : t \in Txn /\ req[t].op # "edit" /\ StatementOfOp(t) /\ TakesInOrder(t)
  BY DEF ControlInv, LocksInv
<1>2. \A t \in C : pc[t] # "commit"
  BY DEF BlockedBy
<1>3. ASSUME NEW t \in C PROVE pc[t] # "header"
  <2> SUFFICES ASSUME pc[t] = "header" PROVE FALSE
    OBVIOUS
  <2>1. PICK u \in C : orderLock[req[t].order] = u
    BY DEF BlockedBy
  <2> QED BY <1>1, <1>2, <2>1, RowsType DEF TakesInOrder
<1>4. ASSUME NEW t \in C PROVE pc[t] # "counter"
  <2> SUFFICES ASSUME pc[t] = "counter" PROVE FALSE
    OBVIOUS
  <2>1. PICK u \in C : counterLock = u
    BY DEF BlockedBy
  <2> QED BY <1>1, <1>2, <1>3, <2>1 DEF TakesInOrder
<1>5. ASSUME NEW t \in C PROVE pc[t] # "insert"
  <2> SUFFICES ASSUME pc[t] = "insert" PROVE FALSE
    OBVIOUS
  <2>1. PICK u \in C, r \in todo[t] : lineLock[r[2]] = u
    BY DEF BlockedBy
  <2>2. r[2] \in Line
    BY <1>1, <2>1 DEF TypeOK, Reservation
  <2> QED BY <1>1, <2>1, <2>2 DEF TakesInOrder
<1>6. ASSUME NEW t \in C PROVE pc[t] \in {"lock", "release"}
  <2>1. pc[t] \notin {"lockDraft", "delete"}
    BY <1>1 DEF StatementOfOp
  <2> QED BY <1>3, <1>4, <1>5, <2>1 DEF BlockedBy
<1> DEFINE Rank(l) == BalanceRank[LineBalance[l]]
           WaitsAt(t, r, u) == /\ r \in todo[t] /\ IsNext(t, r)
                               /\ balanceLock[LineBalance[r[2]]] = u /\ u # t
           Above(r) == {l \in Line : Rank(r[2]) < Rank(l)}
           Waiting == {r \in Reservation : \E t \in C, u \in C : WaitsAt(t, r, u)}
<1>7. ASSUME NEW t \in C PROVE \E r \in Waiting, u \in C : WaitsAt(t, r, u)
  <2>1. PICK u \in C : u \in BlockedBy(t)
    OBVIOUS
  <2>2. PICK r \in todo[t] : IsNext(t, r) /\ balanceLock[LineBalance[r[2]]] = u
    BY <1>6, <2>1 DEF BlockedBy
  <2>3. u # t
    BY <2>1 DEF BlockedBy
  <2>4. r \in Reservation
    BY <1>1 DEF TypeOK
  <2> QED BY <2>2, <2>3, <2>4
<1>8. \A r \in Reservation : r[2] \in Line /\ Rank(r[2]) \in Nat
  BY ConstantsAssumption DEF Reservation
<1>r. \A l \in Line : Rank(l) \in Nat
  BY ConstantsAssumption
<1>9. ASSUME NEW r \in Waiting
      PROVE  \E s \in Waiting : Above(s) \subseteq Above(r) /\ Above(s) # Above(r)
  <2>1. PICK t \in C, u \in C : WaitsAt(t, r, u)
    OBVIOUS
  <2>2. PICK s \in Waiting, v \in C : WaitsAt(u, s, v)
    BY <1>7
  <2>3. Rank(r[2]) <= Rank(s[2])
    <3>1. LineBalance[r[2]] \in Balance
      BY <1>8, ConstantsAssumption
    <3> QED BY <1>1, <2>1, <2>2, <3>1 DEF TakesInOrder
  <2>4. Rank(r[2]) # Rank(s[2])
    <3>1. LineBalance[r[2]] # LineBalance[s[2]]
      BY <2>1, <2>2
    <3> QED BY <1>8, <3>1, ConstantsAssumption
  <2>5. r[2] \in Line /\ s[2] \in Line
    BY <1>8
  <2>6. Rank(r[2]) < Rank(s[2])
    <3>1. Rank(r[2]) \in Nat /\ Rank(s[2]) \in Nat
      BY <1>8
    <3> HIDE DEF Rank
    <3> QED BY <2>3, <2>4, <3>1
  <2> HIDE DEF Rank, Waiting
  <2>7. Above(s) \subseteq Above(r) /\ s[2] \in Above(r) /\ s[2] \notin Above(s)
    BY <1>r, <2>5, <2>6
  <2> HIDE DEF Above
  <2> QED BY <2>7
<1> DEFINE Sets == {Above(r) : r \in Waiting}
<1>10. Sets \in SUBSET SUBSET Line /\ Sets # {}
  <2>1. Waiting # {}
    BY <1>7
  <2> HIDE DEF Waiting
  <2> QED BY <2>1
<1>11. \A X \in Sets : \E Y \in Sets : Y \subseteq X /\ Y # X
  <2> HIDE DEF Above, Waiting
  <2> QED BY <1>9
<1>12. IsFiniteSet(Line)
  BY ConstantsAssumption
<1> HIDE DEF Sets
<1> QED BY <1>10, <1>11, <1>12, NoEndlessDescent

\* However many requests confirm and cancel however many orders at once, some
\* one of those that wait waits for none of the others: only an edit, which takes
\* the header first, can close a circle.
THEOREM OnlyEditsDeadlock == Spec => []DeadlockNeedsAnEdit
<1>1. Init => TypeOK /\ ControlInv /\ LocksInv
  BY TypeInit, ControlInit, LocksInit
<1>2. TypeOK /\ ControlInv /\ LocksInv /\ [Next]_vars
        => (TypeOK /\ ControlInv /\ LocksInv)'
  BY TypeStep, ControlStep, LocksStep
<1> QED BY <1>1, <1>2, NoCircleOfWaits, PTL DEF Spec
=============================================================================
