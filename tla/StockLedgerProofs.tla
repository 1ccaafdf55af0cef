-------------------------- MODULE StockLedgerProofs --------------------------
(***************************************************************************)
(* For any set of transactions, movements and balances: the balances of    *)
(* module StockLedger are the sums of its movements, the version check of  *)
(* record() never fails, and no transactions wait for each other.          *)
(*                                                                         *)
(* The invariant that carries both properties follows a movement through   *)
(* its transaction: until it is inserted it is nowhere, between the insert *)
(* and the update the row of its balance is locked, and from then on the   *)
(* row its transaction wrote is the sum of what was committed and what the *)
(* transaction did.  Sums of two sets of movements are never split: a row  *)
(* is compared with the movements of its own balance, which a commit of    *)
(* another transaction does not change.                                    *)
(***************************************************************************)
EXTENDS StockLedger, QuantitiesProofs

\* A transaction ended well, lost everything, or is at work.
Working(t) == pc[t] \notin Ended

\* What t has inserted and folded into the balance.
Done(t) == ownMovements[t] \ (IF pc[t] = "update" THEN {line[t]} ELSE {})

On(S, b) == {l \in S : BalanceOf[l] = b}

\* Where the movements of a transaction are.
LinesFor(t) ==
  /\ left[t] \subseteq LinesOf[t]
  /\ ownMovements[t] \subseteq LinesOf[t] \ left[t]
  /\ pc[t] # "committed" => movements \cap LinesOf[t] = {}
  /\ ~Working(t) => ownMovements[t] = {}
  /\ pc[t] \in {"ensure", "lock", "move", "update"} =>
       line[t] \in LinesOf[t] \ left[t]
  /\ pc[t] \in {"ensure", "lock", "move"} => line[t] \notin ownMovements[t]
  /\ pc[t] = "update" => line[t] \in ownMovements[t]

Lines == \A t \in Txn : LinesFor(t)

\* Who may have written a row.
RowsFor(t) ==
  /\ \A b \in Balance : lock[b] = t => Working(t)
  /\ \A l \in Done(t) : lock[BalanceOf[l]] = t /\ Written(BalanceOf[l])
  /\ pc[t] \in {"move", "update"} =>
       lock[At(t)] = t /\ expected[t] = SeenVersion(t, At(t))

Rows ==
  /\ \A b \in Balance : Written(b) => lock[b] # None
  /\ \A t \in Txn : RowsFor(t)

\* What the rows say.
Committed(b) == onHand[b] = Fold(movements, b) /\ (version[b] = 0 => onHand[b] = 0)

Writes(t, b) ==
  lock[b] = t /\ Written(b) => ownOnHand[b] = Fold(movements \cup Done(t), b)

Sums == \A b \in Balance : Committed(b) /\ \A t \in Txn : Writes(t, b)

IInv == TypeOK /\ Lines /\ Rows /\ Sums

\* Balances are locked upwards: what t has locked is not above what it is at, and
\* that is not above what is left to it.
OrderedFor(t) ==
  /\ \A b \in Balance : lock[b] = t =>
       /\ \A l \in left[t] : BalanceRank[b] <= BalanceRank[BalanceOf[l]]
       /\ pc[t] \in {"ensure", "lock"} => BalanceRank[b] <= BalanceRank[At(t)]
  /\ pc[t] \in {"ensure", "lock", "move", "update"} =>
       \A l \in left[t] : BalanceRank[At(t)] <= BalanceRank[BalanceOf[l]]

Ordered == \A t \in Txn : OrderedFor(t)
-----------------------------------------------------------------------------
(* Sums *)

LEMMA Magnitudes ==
  ASSUME NEW S \in SUBSET Line, NEW b \in Balance
  PROVE  /\ IsFiniteSet(In(S, b)) /\ IsFiniteSet(Out(S, b))
         /\ \A l \in Line : Magnitude[l] \in Nat
         /\ Total(In(S, b), Magnitude) \in Nat /\ Total(Out(S, b), Magnitude) \in Nat
<1>1. IsFiniteSet(In(S, b)) /\ IsFiniteSet(Out(S, b))
  <2>1. IsFiniteSet(S)
    BY FS_Subset, LedgerAssumption
  <2>2. In(S, b) \in SUBSET S /\ Out(S, b) \in SUBSET S
    BY DEF In, Out
  <2> QED BY <2>1, <2>2, FS_Subset
<1>2. \A l \in Line : Magnitude[l] \in Nat
  BY LedgerAssumption DEF Magnitude
<1>3. In(S, b) \subseteq Line /\ Out(S, b) \subseteq Line
  BY DEF In, Out
<1> QED BY <1>1, <1>2, <1>3, TotalType

LEMMA FoldType ==
  ASSUME NEW S \in SUBSET Line, NEW b \in Balance
  PROVE  Fold(S, b) \in Int
BY Magnitudes DEF Fold

\* A fold looks at the movements of its balance only.
LEMMA FoldSame ==
  ASSUME NEW S \in SUBSET Line, NEW T \in SUBSET Line, NEW b \in Balance,
         On(S, b) = On(T, b)
  PROVE  Fold(S, b) = Fold(T, b)
<1>1. \A l : l \in S /\ BalanceOf[l] = b <=> l \in T /\ BalanceOf[l] = b
  BY DEF On
<1>2. In(S, b) = In(T, b) /\ Out(S, b) = Out(T, b)
  BY <1>1 DEF In, Out
<1> QED BY <1>2 DEF Fold

LEMMA FoldEmpty ==
  ASSUME NEW S \in SUBSET Line, NEW b \in Balance, On(S, b) = {}
  PROVE  Fold(S, b) = 0
<1>1. In(S, b) = {} /\ Out(S, b) = {}
  BY DEF In, Out, On
<1> QED BY <1>1, TotalEmpty DEF Fold

\* One more movement on the balance adds its quantity, of either sign.
LEMMA FoldAdd ==
  ASSUME NEW S \in SUBSET Line, NEW l \in Line, l \notin S, NEW b \in Balance,
         BalanceOf[l] = b
  PROVE  Fold(S \cup {l}, b) = Fold(S, b) + Quantity[l]
<1>1. Quantity[l] \in Int /\ Quantity[l] # 0
  BY LedgerAssumption
<1>2. /\ IsFiniteSet(In(S, b)) /\ IsFiniteSet(Out(S, b))
      /\ Total(In(S, b), Magnitude) \in Nat /\ Total(Out(S, b), Magnitude) \in Nat
      /\ \A k \in Line : Magnitude[k] \in Nat
  BY Magnitudes
<1>3. In(S, b) \subseteq Line /\ Out(S, b) \subseteq Line
  BY DEF In, Out
<1>4. CASE Quantity[l] > 0
  <2>1. In(S \cup {l}, b) = In(S, b) \cup {l} /\ Out(S \cup {l}, b) = Out(S, b)
    BY <1>1, <1>4 DEF In, Out
  <2>2. l \notin In(S, b)
    BY DEF In
  <2>3. Total(In(S, b) \cup {l}, Magnitude) = Total(In(S, b), Magnitude) + Magnitude[l]
    BY <1>2, <1>3, <2>2, TotalAdd
  <2>4. Magnitude[l] = Quantity[l]
    BY <1>4 DEF Magnitude
  <2>5. Fold(S \cup {l}, b)
          = (Total(In(S, b), Magnitude) + Quantity[l]) - Total(Out(S, b), Magnitude)
    BY <2>1, <2>3, <2>4, Zenon DEF Fold
  <2>6. Fold(S, b) = Total(In(S, b), Magnitude) - Total(Out(S, b), Magnitude)
    BY Zenon DEF Fold
  <2> QED BY <1>1, <1>2, <2>5, <2>6
<1>5. CASE ~(Quantity[l] > 0)
  <2>1. Out(S \cup {l}, b) = Out(S, b) \cup {l} /\ In(S \cup {l}, b) = In(S, b)
    BY <1>1, <1>5 DEF In, Out
  <2>2. l \notin Out(S, b)
    BY DEF Out
  <2>3. Total(Out(S, b) \cup {l}, Magnitude) = Total(Out(S, b), Magnitude) + Magnitude[l]
    BY <1>2, <1>3, <2>2, TotalAdd
  <2>4. Magnitude[l] = -Quantity[l]
    BY <1>5 DEF Magnitude
  <2>5. Fold(S \cup {l}, b)
          = Total(In(S, b), Magnitude) - (Total(Out(S, b), Magnitude) + -Quantity[l])
    BY <2>1, <2>3, <2>4, Zenon DEF Fold
  <2>6. Fold(S, b) = Total(In(S, b), Magnitude) - Total(Out(S, b), Magnitude)
    BY Zenon DEF Fold
  <2> QED BY <1>1, <1>2, <2>5, <2>6
<1> QED BY <1>4, <1>5

-----------------------------------------------------------------------------
(* Types *)

LEMMA TypeInit == Init => TypeOK
BY LedgerAssumption DEF Init, TypeOK

LEMMA SeenType ==
  ASSUME TypeOK, NEW t \in Txn, NEW b \in Balance
  PROVE  SeenVersion(t, b) \in Nat /\ SeenOnHand(t, b) \in Int
BY DEF TypeOK, SeenVersion, SeenOnHand

LEMMA TypeStep == TypeOK /\ Lines /\ [Next]_vars => TypeOK'
<1> SUFFICES ASSUME TypeOK, Lines, [Next]_vars PROVE TypeOK'
  OBVIOUS
<1>1. CASE UNCHANGED vars
  BY <1>1 DEF TypeOK, vars, rows, own
<1>2. ASSUME NEW t \in Txn, Begin(t) PROVE TypeOK'
  <2>1. InLockOrder(t) \subseteq Line
    BY DEF InLockOrder, TypeOK
  <2> QED BY <1>2, <2>1 DEF Begin, Go, TypeOK, rows, own
<1>3. ASSUME NEW t \in Txn, pc[t] \in {"ensure", "lock", "move", "update"}
      PROVE  At(t) \in Balance /\ line[t] \in Line
  BY <1>3, LedgerAssumption DEF At, Lines, LinesFor, TypeOK
<1>4. ASSUME NEW t \in Txn, EnsureRow(t) PROVE TypeOK'
  <2>1. At(t) \in Balance
    BY <1>3, <1>4 DEF EnsureRow
  <2> QED BY <1>4, <2>1 DEF EnsureRow, Go, TypeOK, rows
<1>5. ASSUME NEW t \in Txn, LockRow(t) PROVE TypeOK'
  <2>1. At(t) \in Balance /\ SeenVersion(t, At(t)) \in Nat
    BY <1>3, <1>5, SeenType DEF LockRow
  <2> QED BY <1>5, <2>1 DEF LockRow, Go, TypeOK, rows, own
<1>6. ASSUME NEW t \in Txn, InsertMovement(t) PROVE TypeOK'
  <2>1. line[t] \in Line
    BY <1>3, <1>6 DEF InsertMovement
  <2> QED BY <1>6, <2>1 DEF InsertMovement, Go, TypeOK, rows
<1>7. ASSUME NEW t \in Txn, UpdateBalance(t) PROVE TypeOK'
  <2>1. At(t) \in Balance /\ line[t] \in Line
    BY <1>3, <1>7 DEF UpdateBalance
  <2>2. NewOnHand(t) \in Int
    BY <2>1, SeenType, LedgerAssumption DEF NewOnHand
  <2>3. expected[t] + 1 \in Nat
    BY DEF TypeOK
  <2> QED BY <1>7, <2>1, <2>2, <2>3 DEF UpdateBalance, Go, TypeOK, rows
<1>8. ASSUME NEW t \in Txn, NEW how \in Ended, Ends(t, how)
      PROVE  /\ ownMovements' \in [Txn -> SUBSET Line]
             /\ ownOnHand' \in [Balance -> Int] /\ ownVersion' \in [Balance -> Nat]
             /\ lock' \in [Balance -> Txn \cup {None}]
             /\ pc' \in [Txn -> Ended \cup {"next", "ensure", "lock", "move", "update"}]
             /\ line' \in [Txn -> Line \cup {None}]
             /\ left' \in [Txn -> SUBSET Line] /\ expected' \in [Txn -> Nat]
  <2>1. ownMovements' \in [Txn -> SUBSET Line]
    BY <1>8 DEF Ends, TypeOK
  <2>2. ownOnHand' \in [Balance -> Int] /\ ownVersion' \in [Balance -> Nat]
    BY <1>8 DEF Ends, TypeOK
  <2>3. lock' \in [Balance -> Txn \cup {None}]
    BY <1>8 DEF Ends, TypeOK
  <2>4. pc' \in [Txn -> Ended \cup {"next", "ensure", "lock", "move", "update"}]
    BY <1>8 DEF Ends, Go, TypeOK
  <2> QED BY <1>8, <2>1, <2>2, <2>3, <2>4 DEF Ends, TypeOK
<1>9. ASSUME NEW t \in Txn, Commit(t) PROVE TypeOK'
  <2>1. movements' \in SUBSET Line
    BY <1>9 DEF Commit, TypeOK
  <2>2. onHand' \in [Balance -> Int] /\ version' \in [Balance -> Nat]
    BY <1>9 DEF Commit, TypeOK
  <2>3. "committed" \in Ended /\ Ends(t, "committed")
    BY <1>9 DEF Commit, Ended
  <2> QED BY <1>8, <2>1, <2>2, <2>3 DEF TypeOK
<1>10. ASSUME NEW t \in Txn, Rollback(t) PROVE TypeOK'
  <2>1. "rolled back" \in Ended /\ Ends(t, "rolled back")
    BY <1>10 DEF Rollback, Ended
  <2>2. /\ movements' \in SUBSET Line
        /\ onHand' \in [Balance -> Int] /\ version' \in [Balance -> Nat]
    BY <1>10 DEF Rollback, rows, TypeOK
  <2> QED BY <1>8, <2>1, <2>2 DEF TypeOK
<1> QED BY <1>1, <1>2, <1>4, <1>5, <1>6, <1>7, <1>9, <1>10 DEF Next, Statement

-----------------------------------------------------------------------------
(* The lines *)

LEMMA LinesInit == Init => Lines
BY LedgerAssumption DEF Init, Lines, LinesFor, Working, Ended

\* Nothing a statement of t does concerns the lines of another transaction.
LEMMA LinesOfOthers ==
  ASSUME TypeOK, Lines, NEW t \in Txn, NEW u \in Txn, u # t,
         pc'[u] = pc[u], line'[u] = line[u], left'[u] = left[u],
         ownMovements'[u] = ownMovements[u],
         movements' \in {movements, movements \cup ownMovements[t]}
  PROVE  LinesFor(u)'
<1>1. ownMovements[t] \cap LinesOf[u] = {}
  <2>1. ownMovements[t] \subseteq LinesOf[t]
    BY DEF Lines, LinesFor
  <2> QED BY <2>1, LedgerAssumption
<1>2. LinesFor(u)
  BY DEF Lines
<1> QED BY <1>1, <1>2 DEF LinesFor, Working

LEMMA LinesStep == TypeOK /\ Lines /\ [Next]_vars => Lines'
<1> SUFFICES ASSUME TypeOK, Lines, [Next]_vars PROVE Lines'
  OBVIOUS
<1>1. CASE UNCHANGED vars
  BY <1>1 DEF Lines, LinesFor, Working, vars, rows, own
<1>2. ASSUME NEW t \in Txn, Statement(t) \/ Commit(t) \/ Rollback(t) PROVE Lines'
  <2>1. ASSUME NEW u \in Txn, u # t PROVE LinesFor(u)'
    <3>1. /\ pc'[u] = pc[u] /\ line'[u] = line[u] /\ left'[u] = left[u]
          /\ ownMovements'[u] = ownMovements[u]
          /\ movements' \in {movements, movements \cup ownMovements[t]}
      BY <1>2, <2>1 DEF Statement, Begin, EnsureRow, LockRow, InsertMovement,
        UpdateBalance, Commit, Rollback, Ends, Go, TypeOK, rows, own
    <3> QED BY <2>1, <3>1, LinesOfOthers
  <2>2. LinesFor(t)
    BY DEF Lines
  <2>3. LinesFor(t)'
    <3>1. CASE Begin(t)
      <4>1. PICK l \in left[t] : line' = [line EXCEPT ![t] = l]
                                 /\ left' = [left EXCEPT ![t] = @ \ {l}]
        BY <3>1 DEF Begin, InLockOrder
      <4>2. /\ line'[t] = l /\ left'[t] = left[t] \ {l}
            /\ pc[t] = "next" /\ pc'[t] = "ensure"
            /\ UNCHANGED <<movements, ownMovements>>
        BY <3>1, <4>1 DEF Begin, Go, TypeOK, rows, own
      <4> QED BY <2>2, <4>1, <4>2 DEF LinesFor, Working, Ended
    <3>2. CASE EnsureRow(t) \/ LockRow(t) \/ UpdateBalance(t)
      BY <2>2, <3>2 DEF EnsureRow, LockRow, UpdateBalance, Go, LinesFor, Working, Ended,
        TypeOK, rows, own
    <3>3. CASE InsertMovement(t)
      BY <2>2, <3>3 DEF InsertMovement, Go, LinesFor, Working, Ended, TypeOK, rows
    <3>4. CASE Commit(t) \/ Rollback(t)
      BY <2>2, <3>4 DEF Commit, Rollback, Ends, Go, LinesFor, Working, Ended, TypeOK, rows
    <3> QED BY <1>2, <3>1, <3>2, <3>3, <3>4 DEF Statement
  <2> QED BY <2>1, <2>3 DEF Lines
<1> QED BY <1>1, <1>2 DEF Next

-----------------------------------------------------------------------------
(* The rows *)

LEMMA RowsInit == Init => Rows
BY LedgerAssumption DEF Init, Rows, RowsFor, Written, Done, Working, Ended

\* The balance a transaction is at.
LEMMA AtBalance ==
  ASSUME TypeOK, Lines, NEW t \in Txn, pc[t] \in {"ensure", "lock", "move", "update"}
  PROVE  At(t) \in Balance /\ line[t] \in Line
<1>1. line[t] \in LinesOf[t]
  BY DEF Lines, LinesFor
<1> QED BY <1>1, LedgerAssumption DEF At

LEMMA DoneLines ==
  ASSUME TypeOK, NEW t \in Txn
  PROVE  Done(t) \in SUBSET Line /\ \A l \in Done(t) : BalanceOf[l] \in Balance
BY LedgerAssumption DEF TypeOK, Done

\* A transaction that holds a row keeps it, and what it saw of it, while others
\* do anything.
LEMMA RowsOfOthers ==
  ASSUME TypeOK, Lines, Rows, NEW t \in Txn, NEW u \in Txn, u # t,
         Statement(t) \/ Commit(t) \/ Rollback(t)
  PROVE  RowsFor(u)'
<1>1. /\ pc'[u] = pc[u] /\ line'[u] = line[u] /\ expected'[u] = expected[u]
      /\ ownMovements'[u] = ownMovements[u]
  BY DEF Statement, Begin, EnsureRow, LockRow, InsertMovement,
    UpdateBalance, Commit, Rollback, Ends, Go, TypeOK, rows, own
<1>2. ASSUME NEW b \in Balance, lock[b] = u
      PROVE  /\ lock'[b] = u /\ ownVersion'[b] = ownVersion[b]
             /\ version'[b] = version[b]
  <2>1. u # None
    BY LedgerAssumption
  <2>2. CASE Begin(t) \/ InsertMovement(t)
    BY <1>2, <2>2 DEF Begin, InsertMovement, rows, own
  <2>3. CASE EnsureRow(t)
    BY <1>2, <2>1, <2>3, AtBalance DEF EnsureRow, TypeOK, rows
  <2>4. CASE LockRow(t)
    BY <1>2, <2>1, <2>4, AtBalance DEF LockRow, Granted, TypeOK, rows, own
  <2>5. CASE UpdateBalance(t)
    BY <1>2, <2>1, <2>5, AtBalance DEF UpdateBalance, Granted, TypeOK, rows
  <2>6. CASE Commit(t) \/ Rollback(t)
    BY <1>2, <2>1, <2>6 DEF Commit, Rollback, Ends, TypeOK, rows
  <2> QED BY <2>2, <2>3, <2>4, <2>5, <2>6 DEF Statement
<1>3. ASSUME NEW b \in Balance, lock'[b] = u PROVE lock[b] = u
  <2>1. u # None
    BY LedgerAssumption
  <2> QED BY <1>3, <2>1 DEF Statement, Begin, EnsureRow, LockRow, InsertMovement,
    UpdateBalance, Commit, Rollback, Ends, TypeOK, rows, own
<1>4. RowsFor(u)
  BY DEF Rows
<1>5. \A b \in Balance : lock'[b] = u => Working(u)'
  BY <1>1, <1>3, <1>4 DEF RowsFor, Working
<1>6. Done(u)' = Done(u)
  BY <1>1 DEF Done
<1>7. \A l \in Done(u) : (lock[BalanceOf[l]] = u /\ Written(BalanceOf[l]))'
  BY <1>2, <1>4, DoneLines DEF RowsFor, Written
<1>8. ASSUME pc'[u] \in {"move", "update"}
      PROVE  (lock[At(u)] = u /\ expected[u] = SeenVersion(u, At(u)))'
  <2>1. pc[u] \in {"move", "update"} /\ At(u)' = At(u)
    BY <1>1, <1>8 DEF At
  <2>2. At(u) \in Balance /\ lock[At(u)] = u /\ expected[u] = SeenVersion(u, At(u))
    BY <1>4, <2>1, AtBalance DEF RowsFor
  <2>3. /\ lock'[At(u)] = u /\ ownVersion'[At(u)] = ownVersion[At(u)]
        /\ version'[At(u)] = version[At(u)]
    BY <1>2, <2>2
  <2> QED BY <1>1, <2>1, <2>2, <2>3 DEF SeenVersion, Written
<1> QED BY <1>5, <1>6, <1>7, <1>8 DEF RowsFor

LEMMA RowsOfItself ==
  ASSUME TypeOK, Lines, Rows, NEW t \in Txn, Statement(t) \/ Commit(t) \/ Rollback(t)
  PROVE  RowsFor(t)'
<1>1. RowsFor(t) /\ LinesFor(t) /\ t # None
  BY LedgerAssumption DEF Rows, Lines
<1>2. CASE Begin(t)
  <2>1. /\ pc[t] = "next" /\ pc'[t] = "ensure"
        /\ UNCHANGED <<movements, version, ownMovements, ownVersion, lock>>
    BY <1>2 DEF Begin, Go, TypeOK, rows, own
  <2>2. Done(t)' = Done(t)
    BY <2>1 DEF Done
  <2> QED BY <1>1, <2>1, <2>2 DEF RowsFor, Working, Ended, Written
<1>3. CASE EnsureRow(t)
  <2>1. At(t) \in Balance
    BY <1>3, AtBalance DEF EnsureRow
  <2>2. pc[t] = "ensure" /\ pc'[t] = "lock" /\ UNCHANGED ownMovements
    BY <1>3 DEF EnsureRow, Go, TypeOK
  <2>3. Done(t)' = Done(t)
    BY <2>2 DEF Done
  <2>4. \A b \in Balance : lock[b] = t /\ Written(b) => lock'[b] = t /\ Written(b)'
    BY <1>3, <2>1 DEF EnsureRow, Written, TypeOK
  <2>5. \A l \in Done(t) : (lock[BalanceOf[l]] = t /\ Written(BalanceOf[l]))'
    BY <1>1, <2>4, DoneLines DEF RowsFor
  <2> QED BY <2>2, <2>3, <2>5 DEF RowsFor, Working, Ended
<1>4. CASE LockRow(t)
  <2>1. At(t) \in Balance /\ At(t)' = At(t)
    BY <1>4, AtBalance DEF LockRow, At
  <2>2. /\ pc[t] = "lock" /\ pc'[t] = "move"
        /\ expected'[t] = SeenVersion(t, At(t))
        /\ UNCHANGED <<version, ownMovements, ownVersion>>
    BY <1>4 DEF LockRow, Go, TypeOK, rows, own
  <2>3. Done(t)' = Done(t)
    BY <2>2 DEF Done
  <2>4. \A b \in Balance : lock[b] = t => lock'[b] = t
    BY <1>4, <2>1 DEF LockRow, TypeOK
  <2>5. \A l \in Done(t) : (lock[BalanceOf[l]] = t /\ Written(BalanceOf[l]))'
    BY <1>1, <2>2, <2>4, DoneLines DEF RowsFor, Written
  <2>6. lock'[At(t)] = t
    BY <1>4, <2>1 DEF LockRow, TypeOK
  <2>7. SeenVersion(t, At(t))' = SeenVersion(t, At(t))
    <3>1. CASE lock[At(t)] = t
      BY <2>1, <2>2, <2>6, <3>1 DEF SeenVersion, Written
    <3>2. CASE lock[At(t)] # t
      <4>1. lock[At(t)] = None
        BY <1>4, <3>2 DEF LockRow, Granted
      <4>2. ~Written(At(t))
        BY <2>1, <4>1 DEF Rows
      <4> QED BY <2>1, <2>2, <4>1, <4>2 DEF SeenVersion, Written
    <3> QED BY <3>1, <3>2
  <2> QED BY <2>1, <2>2, <2>3, <2>5, <2>6, <2>7 DEF RowsFor, Working, Ended
<1>5. CASE InsertMovement(t)
  <2>1. /\ pc[t] = "move" /\ pc'[t] = "update"
        /\ UNCHANGED <<version, ownVersion, lock, line, expected>>
    BY <1>5 DEF InsertMovement, Go, TypeOK, rows
  <2>2. Done(t)' = Done(t)
    <3>1. ownMovements'[t] = ownMovements[t] \cup {line[t]}
      BY <1>5 DEF InsertMovement, TypeOK
    <3> QED BY <1>1, <2>1, <3>1 DEF Done, LinesFor
  <2>3. At(t)' = At(t) /\ SeenVersion(t, At(t))' = SeenVersion(t, At(t))
    BY <2>1 DEF At, SeenVersion, Written
  <2> QED BY <1>1, <2>1, <2>2, <2>3 DEF RowsFor, Working, Ended, Written
<1>6. CASE UpdateBalance(t)
  <2>1. At(t) \in Balance
    BY <1>6, AtBalance DEF UpdateBalance
  <2>2. pc[t] = "update" /\ pc'[t] = "next" /\ UNCHANGED <<ownMovements, line>>
    BY <1>6 DEF UpdateBalance, Go, TypeOK
  <2>3. Done(t)' \subseteq Done(t) \cup {line[t]}
    BY <2>2 DEF Done
  <2>4. \A b \in Balance : lock[b] = t /\ Written(b) => lock'[b] = t /\ Written(b)'
    BY <1>6, <2>1 DEF UpdateBalance, Written, TypeOK
  <2>5. lock'[At(t)] = t /\ ownVersion'[At(t)] > 0
    <3>1. expected[t] \in Nat
      BY DEF TypeOK
    <3> QED BY <1>6, <2>1, <3>1 DEF UpdateBalance, TypeOK
  <2>6. ASSUME NEW l \in Done(t)'
        PROVE  lock'[BalanceOf[l]] = t /\ ownVersion'[BalanceOf[l]] > 0
    <3>1. CASE l \in Done(t)
      BY <1>1, <2>4, <3>1, DoneLines DEF RowsFor, Written
    <3>2. CASE l = line[t]
      BY <2>5, <3>2 DEF At
    <3> QED BY <2>3, <3>1, <3>2
  <2>7. \A l \in Done(t)' : (lock[BalanceOf[l]] = t /\ Written(BalanceOf[l]))'
    BY <2>6 DEF Written
  <2> QED BY <2>2, <2>7 DEF RowsFor, Working, Ended
<1>7. CASE Commit(t) \/ Rollback(t)
  <2>1. pc'[t] \in Ended /\ ownMovements'[t] = {}
    BY <1>7 DEF Commit, Rollback, Ends, Go, Ended, TypeOK
  <2>2. ASSUME NEW b \in Balance PROVE lock'[b] # t
    BY <1>1, <1>7 DEF Commit, Rollback, Ends
  <2>3. Done(t)' = {}
    BY <2>1 DEF Done
  <2> QED BY <2>1, <2>2, <2>3 DEF RowsFor, Ended
<1> QED BY <1>2, <1>3, <1>4, <1>5, <1>6, <1>7 DEF Statement

LEMMA RowsStep == TypeOK /\ Lines /\ Rows /\ [Next]_vars => Rows'
<1> SUFFICES ASSUME TypeOK, Lines, Rows, [Next]_vars PROVE Rows'
  OBVIOUS
<1>1. CASE UNCHANGED vars
  <2>1. \A t \in Txn : RowsFor(t)'
    BY <1>1 DEF Rows, RowsFor, Done, Written, Working, SeenVersion, At, vars, rows, own
  <2>2. \A b \in Balance : Written(b)' => lock'[b] # None
    BY <1>1 DEF Rows, Written, vars, own
  <2> QED BY <2>1, <2>2 DEF Rows
<1>2. ASSUME NEW t \in Txn, Statement(t) \/ Commit(t) \/ Rollback(t) PROVE Rows'
  <2>1. \A u \in Txn : RowsFor(u)'
    BY <1>2, RowsOfOthers, RowsOfItself
  <2>2. ASSUME NEW b \in Balance, Written(b)' PROVE lock'[b] # None
    <3>0. t # None
      BY LedgerAssumption
    <3>1. CASE Begin(t) \/ InsertMovement(t)
      BY <2>2, <3>1 DEF Begin, InsertMovement, Rows, Written, rows, own
    <3>2. CASE EnsureRow(t)
      BY <2>2, <3>0, <3>2, AtBalance DEF EnsureRow, Rows, Written, TypeOK
    <3>3. CASE LockRow(t)
      BY <2>2, <3>0, <3>3, AtBalance DEF LockRow, Rows, Written, TypeOK, own
    <3>4. CASE UpdateBalance(t)
      BY <2>2, <3>0, <3>4, AtBalance DEF UpdateBalance, Rows, Written, TypeOK
    <3>5. CASE Commit(t) \/ Rollback(t)
      <4>1. /\ lock'[b] = IF lock[b] = t THEN None ELSE lock[b]
            /\ ownVersion'[b] = IF lock[b] = t THEN 0 ELSE ownVersion[b]
        BY <3>5 DEF Commit, Rollback, Ends
      <4> QED BY <2>2, <4>1 DEF Rows, Written
    <3> QED BY <1>2, <3>1, <3>2, <3>3, <3>4, <3>5 DEF Statement
  <2> QED BY <2>1, <2>2 DEF Rows
<1> QED BY <1>1, <1>2 DEF Next

-----------------------------------------------------------------------------
(* The sums *)

LEMMA SumsInit == Init => Sums
<1> SUFFICES ASSUME Init PROVE Sums
  OBVIOUS
<1>1. ASSUME NEW b \in Balance PROVE Committed(b)
  <2>1. Fold({}, b) = 0
    BY FoldEmpty DEF On
  <2> QED BY <2>1 DEF Init, Committed
<1>2. ASSUME NEW b \in Balance, NEW t \in Txn PROVE Writes(t, b)
  BY DEF Init, Writes, Written
<1> QED BY <1>1, <1>2 DEF Sums

\* A movement of t that counts is on a row that t has locked.
LEMMA DoneElsewhere ==
  ASSUME TypeOK, Rows, NEW t \in Txn, NEW b \in Balance, ~(lock[b] = t /\ Written(b))
  PROVE  On(Done(t), b) = {}
BY DEF Rows, RowsFor, On

LEMMA CommittedStep ==
  ASSUME TypeOK, Lines, Rows, Sums, NEW t \in Txn,
         Statement(t) \/ Commit(t) \/ Rollback(t), NEW b \in Balance
  PROVE  Committed(b)'
<1>1. CASE ~Commit(t)
  BY <1>1 DEF Statement, Begin, EnsureRow, LockRow, InsertMovement, UpdateBalance,
    Rollback, rows, Sums, Committed
<1>2. CASE Commit(t)
  <2>1. Done(t) = ownMovements[t] /\ movements' = movements \cup Done(t)
    BY <1>2 DEF Commit, Done
  <2>2. movements \in SUBSET Line /\ Done(t) \in SUBSET Line
    BY DoneLines DEF TypeOK
  <2>3. CASE lock[b] = t /\ Written(b)
    <3>1. onHand'[b] = ownOnHand[b] /\ version'[b] = ownVersion[b] /\ ownVersion[b] > 0
      BY <1>2, <2>3 DEF Commit, Written
    <3> QED BY <2>1, <2>3, <3>1 DEF Sums, Committed, Writes
  <2>4. CASE ~(lock[b] = t /\ Written(b))
    <3>1. onHand'[b] = onHand[b] /\ version'[b] = version[b]
      BY <1>2, <2>4 DEF Commit
    <3>2. On(movements', b) = On(movements, b)
      BY <2>1, <2>4, DoneElsewhere DEF On
    <3>3. Fold(movements', b) = Fold(movements, b)
      BY <2>1, <2>2, <3>2, FoldSame
    <3> QED BY <3>1, <3>3 DEF Sums, Committed
  <2> QED BY <2>3, <2>4
<1> QED BY <1>1, <1>2

\* What t does leaves what another transaction has written of a row as it was.
LEMMA WritesOfOthers ==
  ASSUME TypeOK, Lines, Rows, Sums, NEW t \in Txn,
         Statement(t) \/ Commit(t) \/ Rollback(t), NEW b \in Balance,
         NEW u \in Txn, u # t
  PROVE  Writes(u, b)'
<1> SUFFICES ASSUME lock'[b] = u, Written(b)'
             PROVE  ownOnHand'[b] = Fold(movements' \cup Done(u)', b)
  BY DEF Writes
<1>1. /\ pc'[u] = pc[u] /\ line'[u] = line[u] /\ ownMovements'[u] = ownMovements[u]
      /\ movements' \in {movements, movements \cup Done(t)}
      /\ u # None /\ t # None
  BY LedgerAssumption DEF Statement, Begin, EnsureRow, LockRow, InsertMovement,
    UpdateBalance, Commit, Rollback, Ends, Go, Done, TypeOK, rows, own
<1>2. /\ lock[b] = u /\ ownVersion'[b] = ownVersion[b]
      /\ ownOnHand'[b] = ownOnHand[b]
  <2>1. CASE Begin(t) \/ InsertMovement(t)
    BY <2>1 DEF Begin, InsertMovement, rows, own
  <2>2. CASE EnsureRow(t)
    BY <1>1, <2>2, AtBalance DEF EnsureRow, TypeOK
  <2>3. CASE LockRow(t)
    BY <1>1, <2>3, AtBalance DEF LockRow, TypeOK, own
  <2>4. CASE UpdateBalance(t)
    BY <1>1, <2>4, AtBalance DEF UpdateBalance, TypeOK
  <2>5. CASE Commit(t) \/ Rollback(t)
    <3>1. /\ lock'[b] = IF lock[b] = t THEN None ELSE lock[b]
          /\ ownVersion'[b] = IF lock[b] = t THEN 0 ELSE ownVersion[b]
          /\ ownOnHand'[b] = IF lock[b] = t THEN 0 ELSE ownOnHand[b]
      BY <2>5 DEF Commit, Rollback, Ends
    <3> QED BY <1>1, <3>1
  <2> QED BY <2>1, <2>2, <2>3, <2>4, <2>5 DEF Statement
<1>3. Done(u)' = Done(u)
  BY <1>1 DEF Done
<1>4. ownOnHand[b] = Fold(movements \cup Done(u), b)
  BY <1>2 DEF Sums, Writes, Written
<1>5. On(movements' \cup Done(u), b) = On(movements \cup Done(u), b)
  <2>1. On(Done(t), b) = {}
    BY <1>2, DoneElsewhere
  <2> QED BY <1>1, <2>1 DEF On
<1>6. /\ movements \cup Done(u) \in SUBSET Line
      /\ movements' \cup Done(u) \in SUBSET Line
  BY <1>1, DoneLines DEF TypeOK
<1>7. Fold(movements' \cup Done(u), b) = Fold(movements \cup Done(u), b)
  BY <1>5, <1>6, FoldSame
<1> QED BY <1>2, <1>3, <1>4, <1>7

LEMMA WritesOfItself ==
  ASSUME TypeOK, Lines, Rows, Sums, NEW t \in Txn,
         Statement(t) \/ Commit(t) \/ Rollback(t), NEW b \in Balance
  PROVE  Writes(t, b)'
<1>0. t # None /\ movements \cup Done(t) \in SUBSET Line
  BY LedgerAssumption, DoneLines DEF TypeOK
<1>1. CASE Begin(t)
  <2>1. /\ pc[t] = "next" /\ pc'[t] = "ensure"
        /\ UNCHANGED <<movements, ownMovements, ownOnHand, ownVersion, lock>>
    BY <1>1 DEF Begin, Go, TypeOK, rows, own
  <2>2. Done(t)' = Done(t)
    BY <2>1 DEF Done
  <2> QED BY <2>1, <2>2 DEF Sums, Writes, Written
<1>2. CASE EnsureRow(t)
  <2>1. /\ At(t) \in Balance /\ pc[t] = "ensure" /\ pc'[t] = "lock"
        /\ UNCHANGED <<movements, ownMovements>>
    BY <1>2, AtBalance DEF EnsureRow, Go, TypeOK, rows
  <2>2. Done(t)' = Done(t)
    BY <2>1 DEF Done
  <2>3. CASE b = At(t) /\ version[b] = 0 /\ lock[b] = None /\ ownOnHand'[b] = 0
    <3>1. On(movements \cup Done(t), b) = On(movements, b)
      <4>1. On(Done(t), b) = {}
        BY <1>0, <2>3, DoneElsewhere
      <4> QED BY <4>1 DEF On
    <3>2. Fold(movements \cup Done(t), b) = Fold(movements, b)
      BY <1>0, <3>1, FoldSame
    <3>3. Fold(movements, b) = 0
      BY <2>3 DEF Sums, Committed
    <3> QED BY <2>1, <2>2, <2>3, <3>2, <3>3 DEF Writes
  <2>4. CASE lock'[b] = lock[b] /\ ownOnHand'[b] = ownOnHand[b]
               /\ ownVersion'[b] = ownVersion[b]
    BY <2>1, <2>2, <2>4 DEF Sums, Writes, Written
  <2>5. \/ b = At(t) /\ version[b] = 0 /\ lock[b] = None /\ ownOnHand'[b] = 0
        \/ lock'[b] = lock[b] /\ ownOnHand'[b] = ownOnHand[b]
             /\ ownVersion'[b] = ownVersion[b]
    BY <1>2, <2>1 DEF EnsureRow, TypeOK
  <2> QED BY <2>3, <2>4, <2>5
<1>3. CASE LockRow(t)
  <2>1. /\ At(t) \in Balance /\ pc[t] = "lock" /\ pc'[t] = "move"
        /\ UNCHANGED <<movements, ownMovements, ownOnHand, ownVersion>>
    BY <1>3, AtBalance DEF LockRow, Go, TypeOK, rows, own
  <2>2. Done(t)' = Done(t)
    BY <2>1 DEF Done
  <2>3. Written(b) /\ lock'[b] = t => lock[b] = t
    BY <1>0, <1>3, <2>1 DEF LockRow, Granted, Rows, TypeOK
  <2> QED BY <2>1, <2>2, <2>3 DEF Sums, Writes, Written
<1>4. CASE InsertMovement(t)
  <2>1. /\ pc[t] = "move" /\ pc'[t] = "update"
        /\ ownMovements'[t] = ownMovements[t] \cup {line[t]}
        /\ UNCHANGED <<movements, ownOnHand, ownVersion, lock, line>>
    BY <1>4 DEF InsertMovement, Go, TypeOK, rows
  <2>2. Done(t)' = Done(t)
    BY <2>1 DEF Done, Lines, LinesFor
  <2> QED BY <2>1, <2>2 DEF Sums, Writes, Written
<1>5. CASE UpdateBalance(t)
  <2>1. /\ At(t) \in Balance /\ line[t] \in Line /\ pc[t] = "update" /\ pc'[t] = "next"
        /\ UNCHANGED <<movements, ownMovements, line>>
    BY <1>5, AtBalance DEF UpdateBalance, Go, TypeOK, rows
  <2>2. Done(t)' = Done(t) \cup {line[t]} /\ line[t] \notin Done(t)
    BY <2>1 DEF Done, Lines, LinesFor
  <2>3. line[t] \notin movements
    BY <2>1 DEF Lines, LinesFor
  <2>4. CASE b = At(t)
    <3>1. lock[b] = t
      BY <2>1, <2>4 DEF Rows, RowsFor
    <3>2. SeenOnHand(t, b) = Fold(movements \cup Done(t), b)
      <4>1. CASE Written(b)
        BY <3>1, <4>1 DEF SeenOnHand, Sums, Writes
      <4>2. CASE ~Written(b)
        <5>1. On(movements \cup Done(t), b) = On(movements, b)
          <6>1. On(Done(t), b) = {}
            BY <4>2, DoneElsewhere
          <6> QED BY <6>1 DEF On
        <5>2. Fold(movements \cup Done(t), b) = Fold(movements, b)
          BY <1>0, <5>1, FoldSame
        <5> QED BY <4>2, <5>2 DEF SeenOnHand, Sums, Committed
      <4> QED BY <4>1, <4>2
    <3>3. ownOnHand'[b] = SeenOnHand(t, b) + Quantity[line[t]]
      BY <1>5, <2>4 DEF UpdateBalance, NewOnHand, TypeOK
    <3>4. Fold((movements \cup Done(t)) \cup {line[t]}, b)
            = Fold(movements \cup Done(t), b) + Quantity[line[t]]
      BY <1>0, <2>1, <2>2, <2>3, <2>4, FoldAdd DEF At
    <3>5. movements' \cup Done(t)' = (movements \cup Done(t)) \cup {line[t]}
      BY <2>1, <2>2
    <3> QED BY <3>2, <3>3, <3>4, <3>5 DEF Writes
  <2>5. CASE b # At(t)
    <3>1. /\ lock'[b] = lock[b] /\ ownOnHand'[b] = ownOnHand[b]
          /\ ownVersion'[b] = ownVersion[b]
      BY <1>5, <2>1, <2>5 DEF UpdateBalance, TypeOK
    <3>2. On(movements' \cup Done(t)', b) = On(movements \cup Done(t), b)
      BY <2>1, <2>2, <2>5 DEF On, At
    <3>3. Fold(movements' \cup Done(t)', b) = Fold(movements \cup Done(t), b)
      BY <1>0, <2>1, <2>2, <3>2, FoldSame
    <3> QED BY <3>1, <3>3 DEF Sums, Writes, Written
  <2> QED BY <2>4, <2>5
<1>6. CASE Commit(t) \/ Rollback(t)
  <2>1. lock'[b] # t
    BY <1>0, <1>6 DEF Commit, Rollback, Ends
  <2> QED BY <2>1 DEF Writes
<1> QED BY <1>1, <1>2, <1>3, <1>4, <1>5, <1>6 DEF Statement

LEMMA SumsStep == TypeOK /\ Lines /\ Rows /\ Sums /\ [Next]_vars => Sums'
<1> SUFFICES ASSUME TypeOK, Lines, Rows, Sums, [Next]_vars PROVE Sums'
  OBVIOUS
<1>1. CASE UNCHANGED vars
  <2>1. \A b \in Balance : Committed(b)' /\ \A t \in Txn : Writes(t, b)'
    BY <1>1 DEF Sums, Committed, Writes, Done, Written, vars, rows, own
  <2> QED BY <2>1 DEF Sums
<1>2. ASSUME NEW t \in Txn, Statement(t) \/ Commit(t) \/ Rollback(t) PROVE Sums'
  <2>1. \A b \in Balance : Committed(b)'
    BY <1>2, CommittedStep
  <2>2. \A b \in Balance : \A u \in Txn : Writes(u, b)'
    BY <1>2, WritesOfOthers, WritesOfItself
  <2> QED BY <2>1, <2>2 DEF Sums
<1> QED BY <1>1, <1>2 DEF Next

LEMMA IInvInit == Init => IInv
BY TypeInit, LinesInit, RowsInit, SumsInit DEF IInv

LEMMA IInvStep == IInv /\ [Next]_vars => IInv'
BY TypeStep, LinesStep, RowsStep, SumsStep DEF IInv

LEMMA Inductive == Spec => []IInv
BY IInvInit, IInvStep, PTL DEF Spec

\* Every variable keeps its type, for any number of transactions and movements.
THEOREM TypeCorrect == Spec => []TypeOK
<1>1. IInv => TypeOK
  BY DEF IInv
<1> QED BY <1>1, Inductive, PTL

\* Whatever any number of transactions record at once, and wherever they fail,
\* each balance is the sum of the movements that were committed.
THEOREM BalancesAreSums == Spec => []BalanceIsTheSum
<1>1. IInv => BalanceIsTheSum
  BY DEF IInv, Sums, Committed, BalanceIsTheSum
<1> QED BY <1>1, Inductive, PTL

\* The row a movement is about to update is the one that was read with its lock:
\* the version check of record() never fails.
THEOREM VersionsHold == Spec => []VersionAsLocked
<1>1. IInv => VersionAsLocked
  BY DEF IInv, Rows, RowsFor, VersionAsLocked
<1> QED BY <1>1, Inductive, PTL

-----------------------------------------------------------------------------
(* No deadlock *)

LEMMA OrderedInit == Init => Ordered
BY LedgerAssumption DEF Init, Ordered, OrderedFor

LEMMA OrderedStep == IInv /\ Ordered /\ [Next]_vars => Ordered'
<1> SUFFICES ASSUME TypeOK, Lines, Ordered, [Next]_vars PROVE Ordered'
  BY DEF IInv
<1>1. CASE UNCHANGED vars
  BY <1>1 DEF Ordered, OrderedFor, At, vars, own
<1>2. ASSUME NEW t \in Txn, Statement(t) \/ Commit(t) \/ Rollback(t) PROVE Ordered'
  <2>0. /\ \A u \in Txn : OrderedFor(u) /\ u # None
        /\ \A l \in Line : BalanceOf[l] \in Balance
        /\ \A b \in Balance : BalanceRank[b] \in Nat
        /\ \A u \in Txn : left[u] \subseteq Line
    BY LedgerAssumption DEF Ordered, TypeOK
  <2>1. ASSUME NEW u \in Txn, u # t PROVE OrderedFor(u)'
    <3>1. pc'[u] = pc[u] /\ line'[u] = line[u] /\ left'[u] = left[u]
      BY <1>2, <2>1 DEF Statement, Begin, EnsureRow, LockRow, InsertMovement,
        UpdateBalance, Commit, Rollback, Ends, Go, TypeOK, rows, own
    <3>2. \A b \in Balance : lock'[b] = u => lock[b] = u
      BY <1>2, <2>0, <2>1 DEF Statement, Begin, EnsureRow, LockRow, InsertMovement,
        UpdateBalance, Commit, Rollback, Ends, TypeOK, rows, own
    <3> QED BY <2>0, <3>1, <3>2 DEF OrderedFor, At
  <2>2. OrderedFor(t)'
    <3>1. CASE Begin(t)
      <4>1. PICK l \in InLockOrder(t) : /\ line' = [line EXCEPT ![t] = l]
                                        /\ left' = [left EXCEPT ![t] = @ \ {l}]
        BY <3>1 DEF Begin
      <4>2. /\ line'[t] = l /\ left'[t] = left[t] \ {l} /\ pc'[t] = "ensure"
            /\ lock' = lock
        BY <3>1, <4>1 DEF Begin, Go, TypeOK, own
      <4>3. l \in left[t] /\ \A k \in left[t] :
              BalanceRank[BalanceOf[l]] <= BalanceRank[BalanceOf[k]]
        BY DEF InLockOrder
      <4> QED BY <2>0, <4>2, <4>3 DEF OrderedFor, At
    <3>2. CASE EnsureRow(t) \/ LockRow(t) \/ UpdateBalance(t)
      <4>1. /\ pc[t] \in {"ensure", "lock", "update"}
            /\ pc'[t] \in {"lock", "move", "next"}
            /\ UNCHANGED <<line, left>>
            /\ At(t) \in Balance
        BY <3>2, AtBalance DEF EnsureRow, LockRow, UpdateBalance, Go, TypeOK
      <4>2. \A b \in Balance : lock'[b] = t => lock[b] = t \/ b = At(t)
        BY <3>2, <4>1 DEF EnsureRow, LockRow, UpdateBalance, TypeOK
      <4>3. \A l \in left[t] : BalanceRank[At(t)] <= BalanceRank[BalanceOf[l]]
        BY <2>0, <4>1 DEF OrderedFor
      <4>4. ASSUME NEW b \in Balance, lock'[b] = t
            PROVE  /\ \A l \in left[t] : BalanceRank[b] <= BalanceRank[BalanceOf[l]]
                   /\ pc'[t] = "lock" => BalanceRank[b] <= BalanceRank[At(t)]
        <5>1. pc'[t] = "lock" => pc[t] = "ensure"
          BY <3>2 DEF EnsureRow, LockRow, UpdateBalance, Go, TypeOK
        <5>2. BalanceRank[At(t)] \in Nat
          BY <2>0, <4>1
        <5> QED BY <2>0, <4>2, <4>3, <4>4, <5>1, <5>2 DEF OrderedFor
      <4> QED BY <4>1, <4>3, <4>4 DEF OrderedFor, At
    <3>3. CASE InsertMovement(t)
      <4>1. /\ pc[t] = "move" /\ pc'[t] = "update"
            /\ UNCHANGED <<line, left, lock>>
        BY <3>3 DEF InsertMovement, Go, TypeOK
      <4> QED BY <2>0, <4>1 DEF OrderedFor, At
    <3>4. CASE Commit(t) \/ Rollback(t)
      <4>1. pc'[t] \in Ended
        BY <3>4 DEF Commit, Rollback, Ends, Go, Ended, TypeOK
      <4>2. \A b \in Balance : lock'[b] # t
        BY <2>0, <3>4 DEF Commit, Rollback, Ends
      <4> QED BY <4>1, <4>2 DEF OrderedFor, Ended
    <3> QED BY <1>2, <3>1, <3>2, <3>3, <3>4 DEF Statement
  <2> QED BY <2>1, <2>2 DEF Ordered
<1> QED BY <1>1, <1>2 DEF Next

\* In a circle each would wait for a balance, held by one that waits for a higher
\* one: the movements above what is waited for would get fewer and fewer.
LEMMA NoCircle == IInv /\ Ordered => NoLedgerDeadlock
<1> SUFFICES ASSUME TypeOK, Lines, Ordered, NEW S \in (SUBSET Txn) \ {{}},
                    \A t \in S : \E u \in S : WaitsFor(t, u)
             PROVE  FALSE
  BY DEF NoLedgerDeadlock, IInv
<1> DEFINE Above(t) == {l \in Line : BalanceRank[At(t)] < BalanceRank[BalanceOf[l]]}
<1>0. /\ \A l \in Line : BalanceRank[BalanceOf[l]] \in Nat
      /\ \A t \in S : At(t) \in Balance /\ line[t] \in Line /\ BalanceRank[At(t)] \in Nat
                      /\ pc[t] \in {"ensure", "lock"}
  <2>1. \A t \in S : pc[t] \in {"ensure", "lock"}
    BY DEF WaitsFor
  <2>2. \A t \in S : At(t) \in Balance /\ line[t] \in Line
    BY <2>1, AtBalance
  <2> QED BY <2>1, <2>2, LedgerAssumption
<1>1. ASSUME NEW t \in S
      PROVE  \E u \in S : Above(u) \subseteq Above(t) /\ Above(u) # Above(t)
  <2>1. PICK u \in S : WaitsFor(t, u)
    OBVIOUS
  <2>2. PICK v \in S : WaitsFor(u, v)
    OBVIOUS
  <2>3. lock[At(t)] = u /\ lock[At(u)] = v /\ u # v
    BY <2>1, <2>2 DEF WaitsFor
  <2>4. BalanceRank[At(t)] <= BalanceRank[At(u)]
    BY <1>0, <2>3 DEF Ordered, OrderedFor
  <2>5. BalanceRank[At(t)] < BalanceRank[At(u)]
    <3>1. At(t) # At(u)
      BY <2>3
    <3>2. BalanceRank[At(t)] # BalanceRank[At(u)]
      BY <1>0, <3>1, LedgerAssumption
    <3> QED BY <1>0, <2>4, <3>2
  <2>6. Above(u) \subseteq Above(t)
    BY <1>0, <2>5
  <2>7. line[u] \in Above(t) /\ line[u] \notin Above(u)
    BY <1>0, <2>5 DEF At
  <2> QED BY <2>6, <2>7
<1> DEFINE Sets == {Above(t) : t \in S}
<1>2. IsWellFoundedOn(StrictSubsetOrdering(Line), FiniteSubsetsOf(Line))
  BY FS_StrictSubsetOrderingWellFounded
<1>3. Sets \subseteq FiniteSubsetsOf(Line) /\ Sets # {}
  <2>1. ASSUME NEW t \in S PROVE Above(t) \in FiniteSubsetsOf(Line)
    <3>1. Above(t) \in SUBSET Line
      OBVIOUS
    <3> HIDE DEF Above
    <3>2. IsFiniteSet(Above(t))
      BY <3>1, FS_Subset, LedgerAssumption
    <3> QED BY <3>1, <3>2 DEF FiniteSubsetsOf
  <2>2. S # {}
    OBVIOUS
  <2> HIDE DEF Above
  <2>3. \A t \in S : Above(t) \in FiniteSubsetsOf(Line)
    BY <2>1
  <2> QED BY <2>2, <2>3
<1>4. PICK X \in Sets : \A Y \in Sets : <<Y, X>> \notin StrictSubsetOrdering(Line)
  <2> HIDE DEF Sets
  <2> QED BY <1>2, <1>3, WFMin
<1>5. PICK t \in S : X = Above(t)
  OBVIOUS
<1>6. PICK u \in S : Above(u) \subseteq Above(t) /\ Above(u) # Above(t)
  BY <1>1
<1>7. <<Above(u), Above(t)>> \in StrictSubsetOrdering(Line)
  BY <1>6 DEF StrictSubsetOrdering
<1> QED BY <1>4, <1>5, <1>7

\* However many transactions move however many balances, some one of those that
\* wait waits for none of the others.
THEOREM LedgerNeverDeadlocks == Spec => []NoLedgerDeadlock
<1>1. Spec => [](IInv /\ Ordered)
  BY IInvInit, IInvStep, OrderedInit, OrderedStep, PTL DEF Spec
<1> QED BY <1>1, NoCircle, PTL
=============================================================================
