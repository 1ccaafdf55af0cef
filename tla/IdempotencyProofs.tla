-------------------------- MODULE IdempotencyProofs --------------------------
(***************************************************************************)
(* Theorems about Idempotency, for every set of transmissions, keys and    *)
(* requests, every retention and every schedule of sweeps.                 *)
(***************************************************************************)
EXTENDS Idempotency, TLAPS

-----------------------------------------------------------------------------
(* Type correctness *)

LEMMA TypeInit == Init => TypeOK
<1> SUFFICES ASSUME Init PROVE TypeOK
  OBVIOUS
<1>1. (CHOOSE r \in Request : TRUE) \in Request
  <2>0. PICK k \in Key, f \in Fingerprint : TRUE
    BY ConstantsAssumption
  <2>1. [key |-> k, fingerprint |-> f] \in Request
    BY DEF Request
  <2> QED BY <2>1
<1>2. 1 \in 1 .. MaxAttempts
  BY ConstantsAssumption
<1> QED BY <1>1, <1>2 DEF Init, TypeOK, PCs

LEMMA TypeStep == TypeOK /\ [Next]_vars => TypeOK'
<1> SUFFICES ASSUME TypeOK, [Next]_vars PROVE TypeOK'
  OBVIOUS
<1>1. /\ Retention \in Nat /\ Moments \subseteq Nat /\ MaxAttempts \in Nat
      /\ KeyCompany \in [Key -> Company]
  BY ConstantsAssumption
<1>2. ASSUME NEW t \in Txn, Arrive(t) PROVE TypeOK'
  <2>1. PICK k \in Key : \E f \in Asks[k] :
          req' = [req EXCEPT ![t] = [key |-> k, fingerprint |-> f]]
    BY <1>2 DEF Arrive
  <2>2. PICK f \in Asks[k] :
          req' = [req EXCEPT ![t] = [key |-> k, fingerprint |-> f]]
    BY <2>1
  <2>3. [key |-> k, fingerprint |-> f] \in Request
    BY <2>1, ConstantsAssumption DEF Request
  <2>4. req' \in [Txn -> Request]
    BY <2>2, <2>3 DEF TypeOK
  <2> QED BY <1>2, <2>4 DEF Arrive, TypeOK, PCs, committed, locks, sweep
<1>3. ASSUME NEW t \in Txn, Start(t) PROVE TypeOK'
  BY <1>3, <1>1 DEF Start, TypeOK, PCs, committed, locks, sweep
<1>4. ASSUME NEW t \in Txn, Claim(t) PROVE TypeOK'
  BY <1>4 DEF Claim, TypeOK, PCs, committed, sweep
<1>5. ASSUME NEW t \in Txn, ClaimDeclined(t) PROVE TypeOK'
  BY <1>5 DEF ClaimDeclined, TypeOK, PCs, committed, locks, sweep
<1>6. ASSUME NEW t \in Txn, Replay(t) PROVE TypeOK'
  <2>1. record[req[t].key] \in Txn
    BY <1>6 DEF Replay, TypeOK, Request
  <2>2. answer' \in [Txn -> Txn \cup {NoTxn}]
    BY <1>6, <2>1 DEF Replay, TypeOK
  <2> QED BY <1>6, <2>2 DEF Replay, End, TypeOK, PCs, Final, committed, sweep,
             ReleaseAll
<1>7. ASSUME NEW t \in Txn, Conflict(t) PROVE TypeOK'
  BY <1>7 DEF Conflict, End, TypeOK, PCs, Final, committed, sweep, ReleaseAll
<1>8. ASSUME NEW t \in Txn, ClaimedByNobody(t) PROVE TypeOK'
  BY <1>8 DEF ClaimedByNobody, End, TypeOK, PCs, Final, committed, sweep,
     ReleaseAll
<1>9. ASSUME NEW t \in Txn, Operate(t) PROVE TypeOK'
  BY <1>9 DEF Operate, TypeOK, PCs, committed, sweep
<1>10. ASSUME NEW t \in Txn, AlreadyDone(t) PROVE TypeOK'
  BY <1>10 DEF AlreadyDone, End, TypeOK, PCs, Final, committed, sweep,
     ReleaseAll
<1>11. ASSUME NEW t \in Txn, OperationRefuses(t) PROVE TypeOK'
  BY <1>11 DEF OperationRefuses, End, TypeOK, PCs, Final, committed, sweep,
     ReleaseAll
<1>12. ASSUME NEW t \in Txn, DeadlockVictim(t) PROVE TypeOK'
  BY <1>12, <1>1 DEF DeadlockVictim, End, TypeOK, PCs, Final, committed, sweep,
     ReleaseAll
<1>13. ASSUME NEW t \in Txn, Complete(t) PROVE TypeOK'
  BY <1>13 DEF Complete, TypeOK, PCs, committed, locks, sweep
<1>14. ASSUME NEW t \in Txn, Commit(t) PROVE TypeOK'
  BY <1>14 DEF Commit, TypeOK, PCs, Final, sweep, committed, ReleaseAll
<1>15. ASSUME NEW t \in Txn, Crash(t) PROVE TypeOK'
  BY <1>15 DEF Crash, TypeOK, PCs, Final, committed, sweep, ReleaseAll
<1>16. CASE Tick
  BY <1>16 DEF Tick, TypeOK, committed, locks, sweep
<1>17. CASE SweepStarts
  BY <1>17, <1>1 DEF SweepStarts, TypeOK, committed, locks
<1>18. CASE SweepFails
  BY <1>18 DEF SweepFails, TypeOK, committed, locks
<1>19. ASSUME NEW c \in Company, SweepCompany(c) PROVE TypeOK'
  BY <1>19 DEF SweepCompany, Removable, TypeOK, locks
<1>20. CASE Finished \/ UNCHANGED vars
  BY <1>20 DEF Finished, vars, TypeOK, committed, locks, sweep
<1> QED
  BY <1>2, <1>3, <1>4, <1>5, <1>6, <1>7, <1>8, <1>9, <1>10, <1>11,
     <1>12, <1>13, <1>14, <1>15, <1>16, <1>17, <1>18, <1>19, <1>20
     DEF Next, Statement

\* The database and the transmissions stay of their types.
THEOREM TypeCorrect == Spec => []TypeOK
<1> QED BY TypeInit, TypeStep, PTL DEF Spec

-----------------------------------------------------------------------------
(* Who has claimed what *)

Holding == {"operate", "complete", "commit"}

\* A key that is held is held by the one transmission between its claim and its
\* end, and is not on record; a key on record names a transmission that
\* committed under it.
KeyInv ==
  /\ \A k \in Key : keyHolder[k] # NoTxn =>
       /\ pc[keyHolder[k]] \in Holding
       /\ req[keyHolder[k]].key = k
       /\ record[k] = NoTxn
  /\ \A t \in Txn : pc[t] \in Holding => keyHolder[req[t].key] = t
  /\ \A k \in Key : record[k] # NoTxn =>
       record[k] \in performed /\ req[record[k]].key = k
  /\ \A t \in performed : pc[t] = "answered"

LEMMA KeyInit == Init => KeyInv
BY DEF Init, KeyInv, Holding

LEMMA RequestsType ==
  TypeOK => \A t \in Txn : req[t].key \in Key /\ req[t].fingerprint \in Fingerprint
BY DEF TypeOK, Request

LEMMA KeyStep == TypeOK /\ KeyInv /\ [Next]_vars => KeyInv'
<1> SUFFICES ASSUME TypeOK, KeyInv, [Next]_vars PROVE KeyInv'
  OBVIOUS
<1>1. /\ NoTxn \notin Txn
      /\ \A t \in Txn : req[t].key \in Key /\ req[t].fingerprint \in Fingerprint
  BY ConstantsAssumption, RequestsType
<1>2. ASSUME NEW t \in Txn, Arrive(t) PROVE KeyInv'
  BY <1>2 DEF Arrive, KeyInv, Holding, ClaimDecided, committed, locks
<1>3. ASSUME NEW t \in Txn, Start(t) PROVE KeyInv'
  BY <1>3 DEF Start, KeyInv, Holding, ClaimDecided, committed, locks
<1>4. ASSUME NEW t \in Txn, Claim(t) PROVE KeyInv'
  BY <1>4, <1>1 DEF Claim, KeyInv, Holding, TypeOK, ClaimDecided, committed
<1>5. ASSUME NEW t \in Txn, ClaimDeclined(t) PROVE KeyInv'
  BY <1>5 DEF ClaimDeclined, KeyInv, Holding, ClaimDecided, committed, locks
<1>6. ASSUME NEW t \in Txn, Replay(t) PROVE KeyInv'
  BY <1>6, <1>1 DEF Replay, End, KeyInv, Holding, ClaimDecided, committed,
     TypeOK, ReleaseAll
<1>7. ASSUME NEW t \in Txn, Conflict(t) PROVE KeyInv'
  BY <1>7, <1>1 DEF Conflict, End, KeyInv, Holding, ClaimDecided, committed,
     TypeOK, ReleaseAll
<1>8. ASSUME NEW t \in Txn, ClaimedByNobody(t) PROVE KeyInv'
  BY <1>8, <1>1 DEF ClaimedByNobody, End, KeyInv, Holding, ClaimDecided,
     committed, TypeOK, ReleaseAll
<1>9. ASSUME NEW t \in Txn, Operate(t) PROVE KeyInv'
  BY <1>9 DEF Operate, KeyInv, Holding, ClaimDecided, committed
<1>10. ASSUME NEW t \in Txn, AlreadyDone(t) PROVE KeyInv'
  BY <1>10, <1>1 DEF AlreadyDone, End, KeyInv, Holding, TypeOK, ClaimDecided,
     committed, ReleaseAll
<1>11. ASSUME NEW t \in Txn, OperationRefuses(t) PROVE KeyInv'
  BY <1>11, <1>1 DEF OperationRefuses, End, KeyInv, Holding, TypeOK,
     ClaimDecided, committed, ReleaseAll
<1>12. ASSUME NEW t \in Txn, DeadlockVictim(t) PROVE KeyInv'
  BY <1>12, <1>1 DEF DeadlockVictim, End, KeyInv, Holding, TypeOK,
     ClaimDecided, committed, ReleaseAll
<1>13. ASSUME NEW t \in Txn, Complete(t) PROVE KeyInv'
  BY <1>13 DEF Complete, KeyInv, Holding, ClaimDecided, committed, locks
<1>14. ASSUME NEW t \in Txn, Commit(t) PROVE KeyInv'
  BY <1>14, <1>1 DEF Commit, KeyInv, Holding, TypeOK, ClaimDecided, committed,
     ReleaseAll
<1>15. ASSUME NEW t \in Txn, Crash(t) PROVE KeyInv'
  <2>1. t \notin performed
    BY <1>15 DEF Crash, KeyInv, Final
  <2> QED BY <1>15, <1>1, <2>1 DEF Crash, KeyInv, Holding, TypeOK, committed,
             ReleaseAll
<1>16. CASE Tick
  BY <1>16 DEF Tick, KeyInv, Holding, ClaimDecided, committed, locks
<1>17. CASE SweepStarts
  BY <1>17 DEF SweepStarts, KeyInv, Holding, ClaimDecided, committed, locks
<1>18. CASE SweepFails
  BY <1>18 DEF SweepFails, KeyInv, Holding, ClaimDecided, committed, locks
<1>19. ASSUME NEW c \in Company, SweepCompany(c) PROVE KeyInv'
  BY <1>19 DEF SweepCompany, Removable, KeyInv, Holding, ClaimDecided, locks
<1>20. CASE Finished \/ UNCHANGED vars
  BY <1>20 DEF Finished, vars, KeyInv, Holding, ClaimDecided, committed, locks
<1> QED
  BY <1>2, <1>3, <1>4, <1>5, <1>6, <1>7, <1>8, <1>9, <1>10, <1>11,
     <1>12, <1>13, <1>14, <1>15, <1>16, <1>17, <1>18, <1>19, <1>20
     DEF Next, Statement

-----------------------------------------------------------------------------
(* Once in a window *)

\* An effect whose record is gone is out of its window, and whoever holds the
\* key claimed it after every earlier window under it had closed.
WindowInv ==
  /\ \A t \in performed : record[req[t].key] = t \/ clock >= expires[t]
  /\ \A t \in Txn : pc[t] \in Holding =>
       \A u \in performed : req[u].key = req[t].key => claimedAt[t] >= expires[u]
  /\ AtMostOncePerWindow

LEMMA WindowInit == Init => WindowInv
BY DEF Init, WindowInv, AtMostOncePerWindow, Holding

LEMMA WindowStep == TypeOK /\ KeyInv /\ WindowInv /\ [Next]_vars => WindowInv'
<1> SUFFICES ASSUME TypeOK, KeyInv, WindowInv, [Next]_vars PROVE WindowInv'
  OBVIOUS
<1>1. /\ NoTxn \notin Txn
      /\ \A t \in Txn : req[t].key \in Key /\ req[t].fingerprint \in Fingerprint
  BY ConstantsAssumption, RequestsType
<1>2. ASSUME NEW t \in Txn, Arrive(t) PROVE WindowInv'
  BY <1>2 DEF Arrive, WindowInv, AtMostOncePerWindow, KeyInv, Holding,
     ClaimDecided, committed
<1>3. ASSUME NEW t \in Txn, Start(t) PROVE WindowInv'
  BY <1>3 DEF Start, WindowInv, AtMostOncePerWindow, KeyInv, Holding,
     ClaimDecided, committed
<1>4. ASSUME NEW t \in Txn, Claim(t) PROVE WindowInv'
  BY <1>4, <1>1 DEF Claim, WindowInv, AtMostOncePerWindow, KeyInv, Holding,
     TypeOK, ClaimDecided, committed
<1>5. ASSUME NEW t \in Txn, ClaimDeclined(t) PROVE WindowInv'
  BY <1>5 DEF ClaimDeclined, WindowInv, AtMostOncePerWindow, KeyInv, Holding,
     ClaimDecided, committed
<1>6. ASSUME NEW t \in Txn, Replay(t) PROVE WindowInv'
  BY <1>6 DEF Replay, End, WindowInv, AtMostOncePerWindow, KeyInv, Holding,
     ClaimDecided, committed
<1>7. ASSUME NEW t \in Txn, Conflict(t) PROVE WindowInv'
  BY <1>7 DEF Conflict, End, WindowInv, AtMostOncePerWindow, KeyInv, Holding,
     ClaimDecided, committed
<1>8. ASSUME NEW t \in Txn, ClaimedByNobody(t) PROVE WindowInv'
  BY <1>8 DEF ClaimedByNobody, End, WindowInv, AtMostOncePerWindow, KeyInv,
     Holding, ClaimDecided, committed
<1>9. ASSUME NEW t \in Txn, Operate(t) PROVE WindowInv'
  BY <1>9 DEF Operate, WindowInv, AtMostOncePerWindow, KeyInv, Holding,
     ClaimDecided, committed
<1>10. ASSUME NEW t \in Txn, AlreadyDone(t) PROVE WindowInv'
  <2>1. t \notin performed
    BY <1>10 DEF AlreadyDone, KeyInv
  <2>2. /\ UNCHANGED <<record, performed, req, clock>>
        /\ \A u \in Txn \ {t} : UNCHANGED <<pc[u], expires[u], claimedAt[u]>>
        /\ pc'[t] \notin Holding
    BY <1>10 DEF AlreadyDone, End, TypeOK, Holding, committed
  <2>3. performed \subseteq Txn
    BY DEF TypeOK
  <2> QED BY <2>1, <2>2, <2>3 DEF WindowInv, AtMostOncePerWindow
<1>11. ASSUME NEW t \in Txn, OperationRefuses(t) PROVE WindowInv'
  <2>1. t \notin performed
    BY <1>11 DEF OperationRefuses, KeyInv
  <2>2. /\ UNCHANGED <<record, performed, req, clock>>
        /\ \A u \in Txn \ {t} : UNCHANGED <<pc[u], expires[u], claimedAt[u]>>
        /\ pc'[t] \notin Holding
    BY <1>11 DEF OperationRefuses, End, TypeOK, Holding, committed
  <2>3. performed \subseteq Txn
    BY DEF TypeOK
  <2> QED BY <2>1, <2>2, <2>3 DEF WindowInv, AtMostOncePerWindow
<1>12. ASSUME NEW t \in Txn, DeadlockVictim(t) PROVE WindowInv'
  <2>1. t \notin performed
    BY <1>12 DEF DeadlockVictim, KeyInv
  <2>2. /\ UNCHANGED <<record, performed, req, clock>>
        /\ \A u \in Txn \ {t} : UNCHANGED <<pc[u], expires[u], claimedAt[u]>>
        /\ pc'[t] \notin Holding
    BY <1>12 DEF DeadlockVictim, End, TypeOK, Holding, committed
  <2>3. performed \subseteq Txn
    BY DEF TypeOK
  <2> QED BY <2>1, <2>2, <2>3 DEF WindowInv, AtMostOncePerWindow
<1>13. ASSUME NEW t \in Txn, Complete(t) PROVE WindowInv'
  BY <1>13 DEF Complete, WindowInv, AtMostOncePerWindow, KeyInv, Holding,
     ClaimDecided, committed
<1>14. ASSUME NEW t \in Txn, Commit(t) PROVE WindowInv'
  BY <1>14, <1>1 DEF Commit, WindowInv, AtMostOncePerWindow, KeyInv, Holding,
     TypeOK, ClaimDecided
<1>15. ASSUME NEW t \in Txn, Crash(t) PROVE WindowInv'
  BY <1>15 DEF Crash, WindowInv, AtMostOncePerWindow, KeyInv, Holding, TypeOK,
     ClaimDecided, committed
<1>16. CASE Tick
  BY <1>16 DEF Tick, WindowInv, AtMostOncePerWindow, KeyInv, Holding, TypeOK,
     ClaimDecided, committed
<1>17. CASE SweepStarts
  BY <1>17 DEF SweepStarts, WindowInv, AtMostOncePerWindow, KeyInv, Holding,
     ClaimDecided, committed
<1>18. CASE SweepFails
  BY <1>18 DEF SweepFails, WindowInv, AtMostOncePerWindow, KeyInv, Holding,
     ClaimDecided, committed
<1>19. ASSUME NEW c \in Company, SweepCompany(c) PROVE WindowInv'
  BY <1>19, <1>1 DEF SweepCompany, Removable, WindowInv, AtMostOncePerWindow,
     KeyInv, Holding, TypeOK, ClaimDecided
<1>20. CASE Finished \/ UNCHANGED vars
  BY <1>20 DEF Finished, vars, WindowInv, AtMostOncePerWindow, KeyInv, Holding,
     ClaimDecided, committed
<1> QED
  BY <1>2, <1>3, <1>4, <1>5, <1>6, <1>7, <1>8, <1>9, <1>10, <1>11,
     <1>12, <1>13, <1>14, <1>15, <1>16, <1>17, <1>18, <1>19, <1>20
     DEF Next, Statement

\* A request takes effect once until its record expires, however often it is
\* transmitted, for any number of overlapping transmissions, failures, retries
\* and sweeps.
THEOREM OncePerWindow == Spec => []AtMostOncePerWindow
<1>1. Init => TypeOK /\ KeyInv /\ WindowInv
  BY TypeInit, KeyInit, WindowInit
<1>2. TypeOK /\ KeyInv /\ WindowInv /\ [Next]_vars => (TypeOK /\ KeyInv /\ WindowInv)'
  BY TypeStep, KeyStep, WindowStep
<1>3. WindowInv => AtMostOncePerWindow
  BY DEF WindowInv
<1> QED BY <1>1, <1>2, <1>3, PTL DEF Spec

\* A record outlives its window, whatever moment a sweep is given.
THEOREM LiveRecordsStay == Spec => NoLiveRecordForgotten
<1>1. TypeOK /\ KeyInv /\ [Next]_vars =>
        [\A k \in Key :
           record[k] # NoTxn /\ record'[k] # record[k] => clock >= expires[record[k]]]_vars
  <2> SUFFICES ASSUME TypeOK, KeyInv, Next, NEW k \in Key,
                      record[k] # NoTxn, record'[k] # record[k]
               PROVE  clock >= expires[record[k]]
    OBVIOUS
  <2>1. CASE \E t \in Txn : Commit(t)
    <3>1. NoTxn \notin Txn
      BY ConstantsAssumption
    <3> QED BY <2>1, <3>1 DEF Commit, KeyInv, Holding
  <2>2. CASE \E c \in Company : SweepCompany(c)
    BY <2>2 DEF SweepCompany, Removable
  <2>3. ASSUME NEW t \in Txn, Statement(t), ~Commit(t) PROVE UNCHANGED record
    BY <2>3 DEF Statement, Start, Claim, ClaimDeclined, Replay, Conflict,
       ClaimedByNobody, Operate, AlreadyDone, Complete, committed
  <2>4. ASSUME NEW t \in Txn, Arrive(t) \/ OperationRefuses(t) \/ DeadlockVictim(t) \/ Crash(t)
        PROVE UNCHANGED record
    BY <2>4 DEF Arrive, OperationRefuses, DeadlockVictim, Crash, committed
  <2>5. Tick \/ SweepStarts \/ SweepFails \/ Finished => UNCHANGED record
    BY DEF Tick, SweepStarts, SweepFails, Finished, vars, committed
  <2> QED BY <2>1, <2>2, <2>3, <2>4, <2>5 DEF Next
<1>2. Init => TypeOK /\ KeyInv
  BY TypeInit, KeyInit
<1>3. TypeOK /\ KeyInv /\ [Next]_vars => (TypeOK /\ KeyInv)'
  BY TypeStep, KeyStep
<1> QED BY <1>1, <1>2, <1>3, PTL DEF Spec, NoLiveRecordForgotten

-----------------------------------------------------------------------------
(* Guarded requests *)

\* The row of a guarded request is held by whoever has changed it and not yet
\* ended, and nobody had changed it before.
TargetInv ==
  /\ \A f \in Fingerprint : targetHolder[f] # NoTxn =>
       /\ pc[targetHolder[f]] \in {"complete", "commit"}
       /\ req[targetHolder[f]].fingerprint = f
  /\ \A t \in Txn :
       pc[t] \in {"complete", "commit"} /\ req[t].fingerprint \in Guarded =>
         /\ targetHolder[req[t].fingerprint] = t
         /\ \A u \in performed : req[u].fingerprint # req[t].fingerprint
  /\ GuardedOnce

LEMMA TargetInit == Init => TargetInv
BY DEF Init, TargetInv, GuardedOnce

LEMMA TargetStep == TypeOK /\ KeyInv /\ TargetInv /\ [Next]_vars => TargetInv'
<1> SUFFICES ASSUME TypeOK, KeyInv, TargetInv, [Next]_vars PROVE TargetInv'
  OBVIOUS
<1>1. /\ NoTxn \notin Txn
      /\ \A t \in Txn : req[t].key \in Key /\ req[t].fingerprint \in Fingerprint
  BY ConstantsAssumption, RequestsType
<1>2. ASSUME NEW t \in Txn, Arrive(t) PROVE TargetInv'
  BY <1>2 DEF Arrive, TargetInv, GuardedOnce, KeyInv, Holding, TargetGranted,
     StillApplies, committed, locks
<1>3. ASSUME NEW t \in Txn, Start(t) PROVE TargetInv'
  BY <1>3 DEF Start, TargetInv, GuardedOnce, KeyInv, Holding, TargetGranted,
     StillApplies, committed, locks
<1>4. ASSUME NEW t \in Txn, Claim(t) PROVE TargetInv'
  BY <1>4 DEF Claim, TargetInv, GuardedOnce, KeyInv, Holding, TargetGranted,
     StillApplies, committed
<1>5. ASSUME NEW t \in Txn, ClaimDeclined(t) PROVE TargetInv'
  BY <1>5 DEF ClaimDeclined, TargetInv, GuardedOnce, KeyInv, Holding,
     TargetGranted, StillApplies, committed, locks
<1>6. ASSUME NEW t \in Txn, Replay(t) PROVE TargetInv'
  BY <1>6, <1>1 DEF Replay, End, TargetInv, GuardedOnce, KeyInv, Holding,
     TargetGranted, StillApplies, committed, TypeOK, ReleaseAll
<1>7. ASSUME NEW t \in Txn, Conflict(t) PROVE TargetInv'
  BY <1>7, <1>1 DEF Conflict, End, TargetInv, GuardedOnce, KeyInv, Holding,
     TargetGranted, StillApplies, committed, TypeOK, ReleaseAll
<1>8. ASSUME NEW t \in Txn, ClaimedByNobody(t) PROVE TargetInv'
  BY <1>8, <1>1 DEF ClaimedByNobody, End, TargetInv, GuardedOnce, KeyInv,
     Holding, TargetGranted, StillApplies, committed, TypeOK, ReleaseAll
<1>9. ASSUME NEW t \in Txn, Operate(t) PROVE TargetInv'
  BY <1>9, <1>1 DEF Operate, TargetInv, GuardedOnce, KeyInv, Holding, TypeOK,
     TargetGranted, StillApplies, committed
<1>10. ASSUME NEW t \in Txn, AlreadyDone(t) PROVE TargetInv'
  BY <1>10, <1>1 DEF AlreadyDone, End, TargetInv, GuardedOnce, KeyInv, Holding,
     TargetGranted, StillApplies, committed, TypeOK, ReleaseAll
<1>11. ASSUME NEW t \in Txn, OperationRefuses(t) PROVE TargetInv'
  BY <1>11, <1>1 DEF OperationRefuses, End, TargetInv, GuardedOnce, KeyInv,
     Holding, TargetGranted, StillApplies, committed, TypeOK, ReleaseAll
<1>12. ASSUME NEW t \in Txn, DeadlockVictim(t) PROVE TargetInv'
  BY <1>12 DEF DeadlockVictim, End, TargetInv, GuardedOnce, KeyInv, Holding,
     TypeOK, TargetGranted, StillApplies, committed, ReleaseAll
<1>13. ASSUME NEW t \in Txn, Complete(t) PROVE TargetInv'
  BY <1>13 DEF Complete, TargetInv, GuardedOnce, KeyInv, Holding,
     TargetGranted, StillApplies, committed, locks
<1>14. ASSUME NEW t \in Txn, Commit(t) PROVE TargetInv'
  BY <1>14, <1>1 DEF Commit, TargetInv, GuardedOnce, KeyInv, Holding, TypeOK,
     TargetGranted, StillApplies, committed, ReleaseAll
<1>15. ASSUME NEW t \in Txn, Crash(t) PROVE TargetInv'
  BY <1>15, <1>1 DEF Crash, TargetInv, GuardedOnce, KeyInv, Holding, TypeOK,
     TargetGranted, StillApplies, committed, ReleaseAll
<1>16. CASE Tick
  BY <1>16 DEF Tick, TargetInv, GuardedOnce, KeyInv, Holding, TargetGranted,
     StillApplies, committed, locks
<1>17. CASE SweepStarts
  BY <1>17 DEF SweepStarts, TargetInv, GuardedOnce, KeyInv, Holding,
     TargetGranted, StillApplies, committed, locks
<1>18. CASE SweepFails
  BY <1>18 DEF SweepFails, TargetInv, GuardedOnce, KeyInv, Holding,
     TargetGranted, StillApplies, committed, locks
<1>19. ASSUME NEW c \in Company, SweepCompany(c) PROVE TargetInv'
  BY <1>19 DEF SweepCompany, Removable, TargetInv, GuardedOnce, KeyInv,
     Holding, TargetGranted, StillApplies, locks
<1>20. CASE Finished \/ UNCHANGED vars
  BY <1>20 DEF Finished, vars, TargetInv, GuardedOnce, KeyInv, Holding,
     TargetGranted, StillApplies, committed, locks
<1> QED
  BY <1>2, <1>3, <1>4, <1>5, <1>6, <1>7, <1>8, <1>9, <1>10, <1>11,
     <1>12, <1>13, <1>14, <1>15, <1>16, <1>17, <1>18, <1>19, <1>20
     DEF Next, Statement

\* A request its state machine guards takes effect once, under however many
\* keys it comes.
THEOREM GuardedRequestsHappenOnce == Spec => []GuardedOnce
<1>1. Init => TypeOK /\ KeyInv /\ TargetInv
  BY TypeInit, KeyInit, TargetInit
<1>2. TypeOK /\ KeyInv /\ TargetInv /\ [Next]_vars => (TypeOK /\ KeyInv /\ TargetInv)'
  BY TypeStep, KeyStep, TargetStep
<1>3. TargetInv => GuardedOnce
  BY DEF TargetInv
<1> QED BY <1>1, <1>2, <1>3, PTL DEF Spec

-----------------------------------------------------------------------------
(* Answers *)

\* A stored response is the storing transmission's own.
AnswerInv ==
  /\ \A t \in Txn : pc[t] = "commit" => answer[t] = t
  /\ AnswersAreTrue

LEMMA AnswerInit == Init => AnswerInv
BY DEF Init, AnswerInv, AnswersAreTrue

LEMMA AnswerStep == TypeOK /\ KeyInv /\ AnswerInv /\ [Next]_vars => AnswerInv'
<1> SUFFICES ASSUME TypeOK, KeyInv, AnswerInv, [Next]_vars PROVE AnswerInv'
  OBVIOUS
<1>1. /\ NoTxn \notin Txn
      /\ \A t \in Txn : req[t].key \in Key /\ req[t].fingerprint \in Fingerprint
  BY ConstantsAssumption, RequestsType
<1>0. \A r, s \in Request : r.key = s.key /\ r.fingerprint = s.fingerprint => r = s
  BY DEF Request
<1>2. ASSUME NEW t \in Txn, Arrive(t) PROVE AnswerInv'
  BY <1>2, <1>0 DEF Arrive, AnswerInv, AnswersAreTrue, KeyInv, Holding,
     SameRequest, committed
<1>3. ASSUME NEW t \in Txn, Start(t) PROVE AnswerInv'
  BY <1>3, <1>0 DEF Start, AnswerInv, AnswersAreTrue, KeyInv, Holding,
     SameRequest, committed
<1>4. ASSUME NEW t \in Txn, Claim(t) PROVE AnswerInv'
  BY <1>4, <1>0 DEF Claim, AnswerInv, AnswersAreTrue, KeyInv, Holding,
     SameRequest, committed
<1>5. ASSUME NEW t \in Txn, ClaimDeclined(t) PROVE AnswerInv'
  BY <1>5, <1>0 DEF ClaimDeclined, AnswerInv, AnswersAreTrue, KeyInv, Holding,
     SameRequest, committed
<1>6. ASSUME NEW t \in Txn, Replay(t) PROVE AnswerInv'
  BY <1>6, <1>0, <1>1 DEF Replay, End, AnswerInv, AnswersAreTrue, KeyInv,
     Holding, TypeOK, SameRequest, committed
<1>7. ASSUME NEW t \in Txn, Conflict(t) PROVE AnswerInv'
  BY <1>7, <1>0 DEF Conflict, End, AnswerInv, AnswersAreTrue, KeyInv, Holding,
     SameRequest, committed
<1>8. ASSUME NEW t \in Txn, ClaimedByNobody(t) PROVE AnswerInv'
  BY <1>8, <1>0 DEF ClaimedByNobody, End, AnswerInv, AnswersAreTrue, KeyInv,
     Holding, SameRequest, committed
<1>9. ASSUME NEW t \in Txn, Operate(t) PROVE AnswerInv'
  BY <1>9, <1>0 DEF Operate, AnswerInv, AnswersAreTrue, KeyInv, Holding,
     SameRequest, committed
<1>10. ASSUME NEW t \in Txn, AlreadyDone(t) PROVE AnswerInv'
  BY <1>10, <1>0 DEF AlreadyDone, End, AnswerInv, AnswersAreTrue, KeyInv,
     Holding, SameRequest, committed
<1>11. ASSUME NEW t \in Txn, OperationRefuses(t) PROVE AnswerInv'
  BY <1>11, <1>0 DEF OperationRefuses, End, AnswerInv, AnswersAreTrue, KeyInv,
     Holding, SameRequest, committed
<1>12. ASSUME NEW t \in Txn, DeadlockVictim(t) PROVE AnswerInv'
  BY <1>12, <1>0 DEF DeadlockVictim, End, AnswerInv, AnswersAreTrue, KeyInv,
     Holding, TypeOK, SameRequest, committed
<1>13. ASSUME NEW t \in Txn, Complete(t) PROVE AnswerInv'
  BY <1>13, <1>0 DEF Complete, AnswerInv, AnswersAreTrue, KeyInv, Holding,
     TypeOK, SameRequest, committed
<1>14. ASSUME NEW t \in Txn, Commit(t) PROVE AnswerInv'
  BY <1>14, <1>0 DEF Commit, AnswerInv, AnswersAreTrue, KeyInv, Holding,
     SameRequest
<1>15. ASSUME NEW t \in Txn, Crash(t) PROVE AnswerInv'
  BY <1>15, <1>0 DEF Crash, AnswerInv, AnswersAreTrue, KeyInv, Holding, TypeOK,
     SameRequest, committed
<1>16. CASE Tick
  BY <1>16, <1>0 DEF Tick, AnswerInv, AnswersAreTrue, KeyInv, Holding,
     SameRequest, committed
<1>17. CASE SweepStarts
  BY <1>17, <1>0 DEF SweepStarts, AnswerInv, AnswersAreTrue, KeyInv, Holding,
     SameRequest, committed
<1>18. CASE SweepFails
  BY <1>18, <1>0 DEF SweepFails, AnswerInv, AnswersAreTrue, KeyInv, Holding,
     SameRequest, committed
<1>19. ASSUME NEW c \in Company, SweepCompany(c) PROVE AnswerInv'
  BY <1>19, <1>0 DEF SweepCompany, Removable, AnswerInv, AnswersAreTrue,
     KeyInv, Holding, SameRequest
<1>20. CASE Finished \/ UNCHANGED vars
  BY <1>20 DEF Finished, vars, AnswerInv, AnswersAreTrue, KeyInv, Holding,
     SameRequest, committed
<1> QED
  BY <1>2, <1>3, <1>4, <1>5, <1>6, <1>7, <1>8, <1>9, <1>10, <1>11,
     <1>12, <1>13, <1>14, <1>15, <1>16, <1>17, <1>18, <1>19, <1>20
     DEF Next, Statement

\* Every answer describes a committed effect of the very request it answers.
THEOREM AnswersDescribeEffects == Spec => []AnswersAreTrue
<1>1. Init => TypeOK /\ KeyInv /\ AnswerInv
  BY TypeInit, KeyInit, AnswerInit
<1>2. TypeOK /\ KeyInv /\ AnswerInv /\ [Next]_vars => (TypeOK /\ KeyInv /\ AnswerInv)'
  BY TypeStep, KeyStep, AnswerStep
<1>3. AnswerInv => AnswersAreTrue
  BY DEF AnswerInv
<1> QED BY <1>1, <1>2, <1>3, PTL DEF Spec
=============================================================================
