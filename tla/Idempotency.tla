----------------------------- MODULE Idempotency -----------------------------
(***************************************************************************)
(* Idempotency keys: runIdempotently inside the transaction of a request,  *)
(* the retries of withSerializationRetry around it, and the sweep that     *)
(* removes expired records.                                                *)
(*                                                                         *)
(* A transmission (Txn) is one HTTP request as the server sees it.  The    *)
(* client that gets no answer transmits again with the same key, so any    *)
(* number of transmissions may carry one key, at any time and overlapping. *)
(*                                                                         *)
(* Abstractions.                                                           *)
(*  - A Key stands for the whole unique key of idempotency_records: tenant,*)
(*    company, user, endpoint and the client's value.  Asks[k] are the     *)
(*    requests that endpoint can be sent.                                  *)
(*  - A record is named by the transmission that claimed its key; what it  *)
(*    stores is that transmission's fingerprint, expiry and response.      *)
(*  - What an operation does belongs to other modules.  Here it commits an *)
(*    effect or refuses.  A guarded one changes the status or the version  *)
(*    of an existing row, so it waits for that row and then refuses what   *)
(*    was already done; creating a document has nothing to refuse by.      *)
(*  - The application and the database share one clock.                    *)
(***************************************************************************)
EXTENDS Integers, FiniteSets

CONSTANTS
  Txn, NoTxn,
  Key, Company, KeyCompany,
  Fingerprint,   \* what a client can ask for
  Asks,          \* the fingerprints that can come with a key
  Guarded,       \* requests for which the state machine refuses a repetition
  Retention,     \* RETENTION_HOURS
  Horizon,       \* bound of the clock
  Moments,       \* what the caller of a sweep may pass as now
  MaxAttempts    \* MAX_ATTEMPTS of withSerializationRetry

ASSUME ConstantsAssumption ==
  /\ NoTxn \notin Txn
  /\ KeyCompany \in [Key -> Company]
  /\ Asks \in [Key -> SUBSET Fingerprint]
  /\ Guarded \subseteq Fingerprint
  /\ Retention \in Nat \ {0}
  /\ Horizon \in Nat
  /\ Moments \subseteq Nat
  /\ MaxAttempts \in Nat \ {0}
  /\ Key # {} /\ Fingerprint # {}

VARIABLES
  \* committed
  record,        \* idempotency_records, by key: who claimed it
  performed,     \* the transmissions whose operation took effect
  \* locks: the uncommitted index entry of a key, the row an operation changes
  keyHolder, targetHolder,
  \* transmissions
  pc, req,
  expires,       \* expiresAt, computed when runIdempotently starts
  claimedAt,     \* when the key was claimed
  answer,        \* whose effect the answer describes
  attempt,
  \* the sweep
  cutoff, pending,
  clock

committed == <<record, performed>>
locks == <<keyHolder, targetHolder>>
sweep == <<cutoff, pending>>
vars == <<committed, locks, pc, req, expires, claimedAt, answer, attempt, sweep,
          clock>>

Final == {"answered", "refused", "failed"}

PCs == {"idle", "start", "claim", "find", "operate", "complete", "commit"} \cup Final

Request == [key : Key, fingerprint : Fingerprint]

TypeOK ==
  /\ record \in [Key -> Txn \cup {NoTxn}]
  /\ performed \subseteq Txn
  /\ keyHolder \in [Key -> Txn \cup {NoTxn}]
  /\ targetHolder \in [Fingerprint -> Txn \cup {NoTxn}]
  /\ pc \in [Txn -> PCs]
  /\ req \in [Txn -> Request]
  /\ expires \in [Txn -> Nat]
  /\ claimedAt \in [Txn -> Nat]
  /\ answer \in [Txn -> Txn \cup {NoTxn}]
  /\ attempt \in [Txn -> 1 .. MaxAttempts]
  /\ cutoff \in Nat
  /\ pending \subseteq Company
  /\ clock \in Nat

Init ==
  /\ record = [k \in Key |-> NoTxn]
  /\ performed = {}
  /\ keyHolder = [k \in Key |-> NoTxn]
  /\ targetHolder = [f \in Fingerprint |-> NoTxn]
  /\ pc = [t \in Txn |-> "idle"]
  /\ req = [t \in Txn |-> CHOOSE r \in Request : TRUE]
  /\ expires = [t \in Txn |-> 0]
  /\ claimedAt = [t \in Txn |-> 0]
  /\ answer = [t \in Txn |-> NoTxn]
  /\ attempt = [t \in Txn |-> 1]
  /\ cutoff = 0
  /\ pending = {}
  /\ clock = 0

-----------------------------------------------------------------------------
(* Conditions of the statements *)

\* Wrong: only a committed record is a conflict, a claim in flight is not.
NeverWaits(t) == TRUE

\* INSERT .. ON CONFLICT DO NOTHING waits for whoever has inserted the key and
\* not yet ended.
ClaimDecided(t) == keyHolder[req[t].key] = NoTxn

\* Wrong: whatever the key is on record for is replayed.
AnyRequest(t) == TRUE

\* The comparison that tells a replay from a conflict.
SameRequest(t) == req[record[req[t].key]].fingerprint = req[t].fingerprint

\* Wrong: the row is changed without comparing it with what was read.
Unconditional(t) == TRUE

\* The guarded UPDATE of an operation: it waits for its row, then its WHERE
\* clause is evaluated on what is committed.
StillApplies(t) ==
  req[t].fingerprint \in Guarded =>
    \A u \in performed : req[u].fingerprint # req[t].fingerprint

TargetGranted(t) == targetHolder[req[t].fingerprint] \in {NoTxn, t}

\* deleteExpired's predicate, and the restrictive policy of migration 0011:
\* the database compares with its own clock whatever the caller passed.
Removable(k) == expires[record[k]] <= cutoff /\ expires[record[k]] <= clock

-----------------------------------------------------------------------------
(* A transmission *)

\* A request arrives, new or again.
Arrive(t) ==
  /\ pc[t] = "idle"
  /\ \E k \in Key : \E f \in Asks[k] :
       req' = [req EXCEPT ![t] = [key |-> k, fingerprint |-> f]]
  /\ pc' = [pc EXCEPT ![t] = "start"]
  /\ UNCHANGED <<committed, locks, expires, claimedAt, answer, attempt, sweep,
                 clock>>

\* runIdempotently is entered: the expiry is fixed before the key is claimed,
\* and again by every retry.
Start(t) ==
  /\ pc[t] = "start"
  /\ expires' = [expires EXCEPT ![t] = clock + Retention]
  /\ pc' = [pc EXCEPT ![t] = "claim"]
  /\ UNCHANGED <<committed, locks, req, claimedAt, answer, attempt, sweep, clock>>

Claim(t) ==
  /\ pc[t] = "claim"
  /\ ClaimDecided(t)
  /\ record[req[t].key] = NoTxn
  /\ keyHolder' = [keyHolder EXCEPT ![req[t].key] = t]
  /\ claimedAt' = [claimedAt EXCEPT ![t] = clock]
  /\ pc' = [pc EXCEPT ![t] = "operate"]
  /\ UNCHANGED <<committed, targetHolder, req, expires, answer, attempt, sweep,
                 clock>>

\* The key is on record: nothing is inserted.
ClaimDeclined(t) ==
  /\ pc[t] = "claim"
  /\ ClaimDecided(t)
  /\ record[req[t].key] # NoTxn
  /\ pc' = [pc EXCEPT ![t] = "find"]
  /\ UNCHANGED <<committed, locks, req, expires, claimedAt, answer, attempt,
                 sweep, clock>>

\* COMMIT and ROLLBACK both give every lock back.
ReleaseAll(t) ==
  /\ keyHolder' = [k \in Key |-> IF keyHolder[k] = t THEN NoTxn ELSE keyHolder[k]]
  /\ targetHolder' = [f \in Fingerprint |->
                        IF targetHolder[f] = t THEN NoTxn ELSE targetHolder[f]]

\* A transaction that has committed nothing ends, and what it knew is gone.
End(t, how) ==
  /\ ReleaseAll(t)
  /\ pc' = [pc EXCEPT ![t] = how]
  /\ expires' = [expires EXCEPT ![t] = 0]
  /\ claimedAt' = [claimedAt EXCEPT ![t] = 0]
  /\ UNCHANGED <<req, sweep, clock>>

\* The record is read by a later statement than the claim, and its response is
\* the answer.
Replay(t) ==
  /\ pc[t] = "find"
  /\ record[req[t].key] # NoTxn
  /\ SameRequest(t)
  /\ answer' = [answer EXCEPT ![t] = record[req[t].key]]
  /\ End(t, "answered")
  /\ UNCHANGED <<committed, attempt>>

\* IdempotencyConflictError.
Conflict(t) ==
  /\ pc[t] = "find"
  /\ record[req[t].key] # NoTxn
  /\ ~SameRequest(t)
  /\ End(t, "refused")
  /\ UNCHANGED <<committed, answer, attempt>>

\* "An idempotency key was claimed by nobody": the record that declined the
\* claim is gone when it is read.
ClaimedByNobody(t) ==
  /\ pc[t] = "find"
  /\ record[req[t].key] = NoTxn
  /\ End(t, "failed")
  /\ UNCHANGED <<committed, answer, attempt>>

\* The operation writes.
Operate(t) ==
  /\ pc[t] = "operate"
  /\ TargetGranted(t)
  /\ StillApplies(t)
  /\ targetHolder' = IF req[t].fingerprint \in Guarded
                     THEN [targetHolder EXCEPT ![req[t].fingerprint] = t]
                     ELSE targetHolder
  /\ pc' = [pc EXCEPT ![t] = "complete"]
  /\ UNCHANGED <<committed, keyHolder, req, expires, claimedAt, answer, attempt,
                 sweep, clock>>

\* The operation finds its work done; the claim rolls back with it.
AlreadyDone(t) ==
  /\ pc[t] = "operate"
  /\ TargetGranted(t)
  /\ ~StillApplies(t)
  /\ End(t, "refused")
  /\ UNCHANGED <<committed, answer, attempt>>

\* It refuses for a reason of its own, before it waits for anybody.
OperationRefuses(t) ==
  /\ pc[t] = "operate"
  /\ End(t, "refused")
  /\ UNCHANGED <<committed, answer, attempt>>

\* A statement of the operation is the victim of a deadlock over rows that are
\* not in this module: everything is rolled back, the claim included, and tried
\* again.
DeadlockVictim(t) ==
  /\ pc[t] = "operate"
  /\ IF attempt[t] < MaxAttempts
     THEN End(t, "start") /\ attempt' = [attempt EXCEPT ![t] = @ + 1]
     ELSE End(t, "failed") /\ UNCHANGED attempt
  /\ UNCHANGED <<committed, answer>>

\* complete: the response is stored in the row nobody else can see yet.
Complete(t) ==
  /\ pc[t] = "complete"
  /\ answer' = [answer EXCEPT ![t] = t]
  /\ pc' = [pc EXCEPT ![t] = "commit"]
  /\ UNCHANGED <<committed, locks, req, expires, claimedAt, attempt, sweep, clock>>

\* The effect and the record become visible together.
Commit(t) ==
  /\ pc[t] = "commit"
  /\ record' = [record EXCEPT ![req[t].key] = t]
  /\ performed' = performed \cup {t}
  /\ ReleaseAll(t)
  /\ pc' = [pc EXCEPT ![t] = "answered"]
  /\ UNCHANGED <<req, expires, claimedAt, answer, attempt, sweep, clock>>

\* The connection or the process is lost before the COMMIT.
Crash(t) ==
  /\ pc[t] \notin Final \cup {"idle"}
  /\ answer' = [answer EXCEPT ![t] = NoTxn]
  /\ expires' = [expires EXCEPT ![t] = 0]
  /\ claimedAt' = [claimedAt EXCEPT ![t] = 0]
  /\ ReleaseAll(t)
  /\ pc' = [pc EXCEPT ![t] = "failed"]
  /\ UNCHANGED <<committed, req, attempt, sweep, clock>>

-----------------------------------------------------------------------------
(* Time and the sweep *)

Tick ==
  /\ clock < Horizon
  /\ clock' = clock + 1
  /\ UNCHANGED <<committed, locks, pc, req, expires, claimedAt, answer, attempt,
                 sweep>>

\* sweep(now): whatever moment the caller passes, one for all companies.
SweepStarts ==
  /\ pending = {}
  /\ cutoff' \in Moments
  /\ pending' = Company
  /\ UNCHANGED <<committed, locks, pc, req, expires, claimedAt, answer, attempt,
                 clock>>

\* One company is one transaction.  It sees, and so deletes, committed records.
SweepCompany(c) ==
  /\ c \in pending
  /\ record' = [k \in Key |->
                  IF KeyCompany[k] = c /\ record[k] # NoTxn /\ Removable(k)
                  THEN NoTxn ELSE record[k]]
  /\ pending' = pending \ {c}
  /\ cutoff' = IF pending' = {} THEN 0 ELSE cutoff
  /\ UNCHANGED <<performed, locks, pc, req, expires, claimedAt, answer, attempt,
                 clock>>

\* The sweep fails; the companies it has done stay done.
SweepFails ==
  /\ pending # {}
  /\ pending' = {}
  /\ cutoff' = 0
  /\ UNCHANGED <<committed, locks, pc, req, expires, claimedAt, answer, attempt,
                 clock>>

Statement(t) ==
  \/ Start(t) \/ Claim(t) \/ ClaimDeclined(t)
  \/ Replay(t) \/ Conflict(t) \/ ClaimedByNobody(t)
  \/ Operate(t) \/ AlreadyDone(t)
  \/ Complete(t) \/ Commit(t)

Finished == (\A t \in Txn : pc[t] \in Final) /\ UNCHANGED vars

Next ==
  \/ \E t \in Txn : Arrive(t) \/ Statement(t) \/ OperationRefuses(t)
                    \/ DeadlockVictim(t) \/ Crash(t)
  \/ Tick
  \/ SweepStarts \/ SweepFails \/ \E c \in Company : SweepCompany(c)
  \/ Finished

Spec == Init /\ [][Next]_vars

-----------------------------------------------------------------------------
(* Properties *)

\* However often a request is transmitted under one key, however the copies
\* overlap, fail and are retried, it takes effect once until the record
\* expires: a second effect was claimed after the expiry of the first.
AtMostOncePerWindow ==
  \A t, u \in performed :
    t # u /\ req[t].key = req[u].key =>
      claimedAt[t] >= expires[u] \/ claimedAt[u] >= expires[t]

\* An answer is never made up: it describes an effect that is committed and
\* that the same request under the same key had, even when the record was
\* found after the claim was declined and may have been replaced in between.
AnswersAreTrue ==
  \A t \in Txn :
    pc[t] = "answered" =>
      /\ answer[t] \in performed
      /\ req[answer[t]] = req[t]

\* The same intent under two keys (two windows of one user, a key that was
\* regenerated, a key that expired) still takes effect once when its state
\* machine guards it.
GuardedOnce ==
  \A t, u \in performed :
    req[t].fingerprint \in Guarded /\ req[t].fingerprint = req[u].fingerprint
      => t = u

\* A record is not forgotten, or replaced, before its window has closed, not
\* even by a sweep that was given a moment in the future.
NoLiveRecordForgotten ==
  [][\A k \in Key :
       record[k] # NoTxn /\ record'[k] # record[k] => clock >= expires[record[k]]]_vars
=============================================================================
