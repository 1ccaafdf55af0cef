----------------------------- MODULE StockLedger -----------------------------
(***************************************************************************)
(* The stock ledger: movements, which are only ever added, and a balance   *)
(* per product and warehouse that folds them                               *)
(* (src/apps/api/src/database/repositories/inventory.repository.ts).       *)
(*                                                                         *)
(* Several transactions record movements at once, each over several        *)
(* balances.  A movement takes four statements: the balance row is made    *)
(* unless it exists, it is locked, the movement is inserted, the balance   *)
(* is updated under the version that was read with the lock.  Statements   *)
(* of different transactions interleave, at READ COMMITTED; a transaction  *)
(* may fail or lose its connection after any of them.                      *)
(***************************************************************************)
EXTENDS Quantities

CONSTANTS
  Txn, Line,
  Balance,       \* (product, warehouse)
  LinesOf,       \* the movements a transaction records
  BalanceOf, Quantity,
  BalanceRank,   \* the position of a balance in lock order (byBalanceKey)
  None

\* stock_movements_quantity_check: a movement of nothing is not one.  The keys of
\* two balances differ, and so do their positions.
ASSUME LedgerAssumption ==
  /\ IsFiniteSet(Line) /\ None \notin Txn
  /\ LinesOf \in [Txn -> SUBSET Line]
  /\ \A t, u \in Txn : t # u => LinesOf[t] \cap LinesOf[u] = {}
  /\ BalanceOf \in [Line -> Balance]
  /\ Quantity \in [Line -> Int \ {0}]
  /\ BalanceRank \in [Balance -> Nat]
  /\ \A b, c \in Balance : BalanceRank[b] = BalanceRank[c] => b = c

VARIABLES
  movements,   \* stock_movements, as committed
  onHand, version,   \* stock_balances, as committed; version 0 for no row
  ownMovements,      \* what a transaction has inserted and not committed
  ownOnHand, ownVersion,  \* a row as its lock holder has written it, else 0 for none
  lock,        \* who has locked the row of a balance, or is making it
  pc,          \* "next", "ensure", "lock", "move", "update", or how it ended
  line,        \* the movement being recorded
  left,        \* those still to be recorded
  expected     \* the version read with the lock

rows == <<movements, onHand, version>>
own == <<ownMovements, ownOnHand, ownVersion>>
vars == <<rows, own, lock, pc, line, left, expected>>

Ended == {"committed", "rolled back"}

TypeOK ==
  /\ movements \in SUBSET Line
  /\ onHand \in [Balance -> Int] /\ version \in [Balance -> Nat]
  /\ ownMovements \in [Txn -> SUBSET Line]
  /\ ownOnHand \in [Balance -> Int] /\ ownVersion \in [Balance -> Nat]
  /\ lock \in [Balance -> Txn \cup {None}]
  /\ pc \in [Txn -> Ended \cup {"next", "ensure", "lock", "move", "update"}]
  /\ line \in [Txn -> Line \cup {None}]
  /\ left \in [Txn -> SUBSET Line]
  /\ expected \in [Txn -> Nat]

Init ==
  /\ movements = {}
  /\ onHand = [b \in Balance |-> 0] /\ version = [b \in Balance |-> 0]
  /\ ownMovements = [t \in Txn |-> {}]
  /\ ownOnHand = [b \in Balance |-> 0] /\ ownVersion = [b \in Balance |-> 0]
  /\ lock = [b \in Balance |-> None]
  /\ pc = [t \in Txn |-> "next"]
  /\ line = [t \in Txn |-> None]
  /\ left = LinesOf
  /\ expected = [t \in Txn |-> 0]

-----------------------------------------------------------------------------
(* What a statement sees *)

At(t) == BalanceOf[line[t]]

Written(b) == ownVersion[b] > 0

\* A row as a transaction sees it: as it wrote it, or as it was committed.
SeenVersion(t, b) ==
  IF lock[b] = t /\ Written(b) THEN ownVersion[b] ELSE version[b]
SeenOnHand(t, b) ==
  IF lock[b] = t /\ Written(b) THEN ownOnHand[b] ELSE onHand[b]

\* Wrong: in the order of the document.
AnyLine(t) == left[t]

\* inLockOrder
InLockOrder(t) ==
  {l \in left[t] : \A k \in left[t] : BalanceRank[BalanceOf[l]] <= BalanceRank[BalanceOf[k]]}

Granted(t, b) == lock[b] \in {t, None}

Go(t, where) == pc' = [pc EXCEPT ![t] = where]

-----------------------------------------------------------------------------
(* record, statement by statement *)

Begin(t) ==
  /\ pc[t] = "next"
  /\ \E l \in InLockOrder(t) :
       /\ line' = [line EXCEPT ![t] = l]
       /\ left' = [left EXCEPT ![t] = @ \ {l}]
  /\ Go(t, "ensure")
  /\ UNCHANGED <<rows, own, lock, expected>>

\* Insert, on conflict do nothing.  A row that exists is not waited for; one
\* that another transaction is making is.
EnsureRow(t) ==
  LET b == At(t) IN
  /\ pc[t] = "ensure"
  /\ \/ /\ version[b] > 0 \/ (lock[b] = t /\ Written(b))
        /\ UNCHANGED <<lock, ownOnHand, ownVersion>>
     \/ /\ version[b] = 0 /\ lock[b] = None
        /\ lock' = [lock EXCEPT ![b] = t]
        /\ ownVersion' = [ownVersion EXCEPT ![b] = 1]
        /\ ownOnHand' = [ownOnHand EXCEPT ![b] = 0]
  /\ Go(t, "lock")
  /\ UNCHANGED <<rows, ownMovements, line, left, expected>>

\* SELECT ... FOR UPDATE: the latest version, once its lock is granted.
LockRow(t) ==
  LET b == At(t) IN
  /\ pc[t] = "lock" /\ Granted(t, b)
  /\ lock' = [lock EXCEPT ![b] = t]
  /\ expected' = [expected EXCEPT ![t] = SeenVersion(t, b)]
  /\ Go(t, "move")
  /\ UNCHANGED <<rows, own, line, left>>

InsertMovement(t) ==
  /\ pc[t] = "move"
  /\ ownMovements' = [ownMovements EXCEPT ![t] = @ \cup {line[t]}]
  /\ Go(t, "update")
  /\ UNCHANGED <<rows, ownOnHand, ownVersion, lock, line, left, expected>>

\* Wrong: the balance is the movement's quantity over what was committed.
OverCommitted(t) == onHand[At(t)] + Quantity[line[t]]

\* on_hand + quantity, computed from the locked row.
NewOnHand(t) == SeenOnHand(t, At(t)) + Quantity[line[t]]

UpdateBalance(t) ==
  LET b == At(t) IN
  /\ pc[t] = "update" /\ SeenVersion(t, b) = expected[t] /\ Granted(t, b)
  /\ lock' = [lock EXCEPT ![b] = t]
  /\ ownOnHand' = [ownOnHand EXCEPT ![b] = NewOnHand(t)]
  /\ ownVersion' = [ownVersion EXCEPT ![b] = expected[t] + 1]
  /\ Go(t, "next")
  /\ UNCHANGED <<rows, ownMovements, line, left, expected>>

-----------------------------------------------------------------------------
(* The end of a transaction *)

Ends(t, how) ==
  /\ lock' = [b \in Balance |-> IF lock[b] = t THEN None ELSE lock[b]]
  /\ ownOnHand' = [b \in Balance |-> IF lock[b] = t THEN 0 ELSE ownOnHand[b]]
  /\ ownVersion' = [b \in Balance |-> IF lock[b] = t THEN 0 ELSE ownVersion[b]]
  /\ ownMovements' = [ownMovements EXCEPT ![t] = {}]
  /\ Go(t, how)
  /\ UNCHANGED <<line, left, expected>>

Commit(t) ==
  /\ pc[t] = "next" /\ left[t] = {}
  /\ movements' = movements \cup ownMovements[t]
  /\ onHand' = [b \in Balance |->
       IF lock[b] = t /\ Written(b) THEN ownOnHand[b] ELSE onHand[b]]
  /\ version' = [b \in Balance |->
       IF lock[b] = t /\ Written(b) THEN ownVersion[b] ELSE version[b]]
  /\ Ends(t, "committed")

\* A statement fails (the version check among them), the deadlock detector ends
\* the transaction, or its connection is lost.
Rollback(t) ==
  /\ pc[t] \notin Ended
  /\ UNCHANGED rows
  /\ Ends(t, "rolled back")

Statement(t) ==
  \/ Begin(t) \/ EnsureRow(t) \/ LockRow(t)
  \/ InsertMovement(t) \/ UpdateBalance(t)

Next == \E t \in Txn : Statement(t) \/ Commit(t) \/ Rollback(t)

Spec == Init /\ [][Next]_vars

-----------------------------------------------------------------------------
(* Properties *)

In(S, b) == {l \in S : BalanceOf[l] = b /\ Quantity[l] > 0}
Out(S, b) == {l \in S : BalanceOf[l] = b /\ Quantity[l] < 0}
Magnitude == [l \in Line |-> IF Quantity[l] > 0 THEN Quantity[l] ELSE -Quantity[l]]
Fold(S, b) == Total(In(S, b), Magnitude) - Total(Out(S, b), Magnitude)

\* Whatever is recorded at once, and whatever of it fails, the balance that can
\* be read is the sum of the movements that can be read.  (record: the movement
\* and the balance belong to one transaction; onHand + quantity from the locked
\* row.)
BalanceIsTheSum == \A b \in Balance : onHand[b] = Fold(movements, b)

\* The version check never fails, "which is exactly what makes it a useful
\* assertion": the row does not change between the lock and the update.
VersionAsLocked ==
  \A t \in Txn : pc[t] \in {"move", "update"} => expected[t] = SeenVersion(t, At(t))

\* t waits for a row that u holds.
WaitsFor(t, u) ==
  /\ t # u /\ pc[t] \in {"ensure", "lock"} /\ lock[At(t)] = u
  /\ pc[t] = "ensure" => version[At(t)] = 0

\* However the movements of several transactions overlap, one of any of them can
\* go on.  (inLockOrder)
NoLedgerDeadlock ==
  \A S \in (SUBSET Txn) \ {{}} : \E t \in S : \A u \in S : ~WaitsFor(t, u)
=============================================================================
