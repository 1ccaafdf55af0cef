---------------------------- MODULE LoginThrottle ----------------------------
(***************************************************************************)
(* The throttle of the login: AuthenticationService.login as the           *)
(* statements of overlapping transactions, on the rows of auth_throttle.   *)
(*                                                                         *)
(* One transaction reads whether the account and the address are locked,   *)
(* verifies the password, which takes long on purpose, and then records a  *)
(* failure on both rows or opens a session and clears both.  Two clocks    *)
(* meet here: a lock is read against the clock of the application, and     *)
(* everything that is written uses now() of PostgreSQL, which is when the  *)
(* transaction began.  The two are taken to agree; a transaction lasts     *)
(* MaxAge ticks at most, which is what keeps them close.                   *)
(*                                                                         *)
(* A Login is one request.  An unknown account and a disabled one take the *)
(* path of a wrong password.                                               *)
(***************************************************************************)
EXTENDS Integers, FiniteSets, Quantities

CONSTANTS
  Login,           \* as many as are under way at once
  MaxLogins,       \* bound: how many arrive
  Account, Address,
  MaxAttempts,     \* AUTH_MAX_ATTEMPTS
  Window,          \* AUTH_WINDOW_MINUTES
  Lockout,         \* AUTH_LOCKOUT_MINUTES
  MaxAge,          \* bound: how long a login may take
  Horizon          \* bound of the clock

\* The environment asks for 3 attempts or more; the first failure of a scope
\* never locks it, so 1 would not do.
ASSUME ConstantsAssumption ==
  /\ MaxLogins \in Nat
  /\ Account # {} /\ Address # {} /\ Account \cap Address = {}
  /\ MaxAttempts \in Nat /\ MaxAttempts >= 2
  /\ Window \in Nat \ {0} /\ Lockout \in Nat \ {0}
  /\ MaxAge \in Nat /\ Horizon \in Nat

VARIABLES
  throttle,   \* auth_throttle, by scope: failure_count, window_started_at, locked_until
  pc, req,
  begun,      \* now() of the transaction of a login
  done,       \* the scopes its loop has been through
  written,    \* the rows it has written, and keeps locked, until it ends
  clock,
  arrivals,   \* how many logins have begun
  misses,     \* history: committed failures that left a scope open since it was
              \* last cleared, by moment
  lockedAt    \* history: when a lock was last committed

vars == <<throttle, pc, req, begun, done, written, clock, arrivals, misses, lockedAt>>

-----------------------------------------------------------------------------
(* Rows *)

Scope == Account \cup Address

Moment == 0 .. Horizon

\* Before every moment: no lock, no failure.
Never == -1

Row == [count : Nat, start : Int, until : Int]

\* A scope that nobody has failed on has no row.
NoRow == [count |-> 0, start |-> Never, until |-> Never]

Request == [account : Account, address : Address]

PCs == {"idle", "check", "verify", "record", "clear", "reject", "authenticate"}

TypeOK ==
  /\ throttle \in [Scope -> Row]
  /\ pc \in [Login -> PCs]
  /\ req \in [Login -> Request]
  /\ begun \in [Login -> Moment]
  /\ done \in [Login -> SUBSET Scope]
  /\ written \in [Login -> [Scope -> Row]]
  /\ clock \in Moment
  /\ arrivals \in 0 .. MaxLogins
  /\ misses \in [Scope -> [Moment -> Nat]]
  /\ lockedAt \in [Scope -> Moment \cup {Never}]

Init ==
  /\ throttle = [s \in Scope |-> NoRow]
  /\ pc = [l \in Login |-> "idle"]
  /\ req = [l \in Login |-> CHOOSE r \in Request : TRUE]
  /\ begun = [l \in Login |-> 0]
  /\ done = [l \in Login |-> {}]
  /\ written = [l \in Login |-> [s \in Scope |-> NoRow]]
  /\ clock = 0
  /\ arrivals = 0
  /\ misses = [s \in Scope |-> [m \in Moment |-> 0]]
  /\ lockedAt = [s \in Scope |-> Never]

ScopesOf(l) == {req[l].account, req[l].address}

\* Wrong: some logins begin with the address.
AnyOrder(l, s) == s \in ScopesOf(l) \ done[l]

\* checkLocked, recordFailure and the clearing all take the account first.
IsNext(l, s) ==
  /\ s \in ScopesOf(l) \ done[l]
  /\ s \in Address => req[l].account \in done[l]

\* toStatus: a lock whose time has passed is not a lock.
InForce(row, now) == row.until > now

\* windowElapsed.
Elapsed(row, now) == row.start < now - Window

\* failure_count of the row that recordFailure leaves.
nextCount(row, now) == IF row = NoRow \/ Elapsed(row, now) THEN 1 ELSE row.count + 1

ReachesLimit(row, now) == nextCount(row, now) >= MaxAttempts

\* recordFailure: the insert of a first failure, or the one update that counts,
\* moves the window and locks.
WithFailure(row, now) ==
  [count |-> nextCount(row, now),
   start |-> IF row = NoRow \/ Elapsed(row, now) THEN now ELSE row.start,
   until |-> IF ReachesLimit(row, now) THEN now + Lockout ELSE row.until]

\* Wrong: whoever knows the password ends a lock.
AnyRow(row, now) == row # NoRow

\* The WHERE clause of clearOnSuccess: a lock in force is left alone.
Clearable(row, now) == row # NoRow /\ row.until <= now

Cleared(now) == [count |-> 0, start |-> now, until |-> Never]

\* Wrong: the row is read, and then written.
NeverWaits(l, s) == TRUE

\* An upsert waits for whoever has written the row and not ended.
RowGranted(l, s) == \A k \in Login \ {l} : written[k][s] = NoRow

-----------------------------------------------------------------------------
(* A login *)

Begin(l) ==
  /\ pc[l] = "idle"
  /\ arrivals < MaxLogins
  /\ arrivals' = arrivals + 1
  /\ \E r \in Request : req' = [req EXCEPT ![l] = r]
  /\ begun' = [begun EXCEPT ![l] = clock]
  /\ pc' = [pc EXCEPT ![l] = "check"]
  /\ UNCHANGED <<throttle, done, written, clock, misses, lockedAt>>

\* The loop over the two scopes goes on, or it has been through both.
Advance(l, s, here, next) ==
  IF done[l] \cup {s} = ScopesOf(l)
  THEN /\ pc' = [pc EXCEPT ![l] = next]
       /\ done' = [done EXCEPT ![l] = {}]
  ELSE /\ pc' = [pc EXCEPT ![l] = here]
       /\ done' = [done EXCEPT ![l] = @ \cup {s}]

\* status() of a scope: no lock in force.
Check(l) ==
  /\ pc[l] = "check"
  /\ \E s \in Scope :
       /\ IsNext(l, s)
       /\ ~InForce(throttle[s], clock)
       /\ Advance(l, s, "check", "verify")
  /\ UNCHANGED <<throttle, req, begun, written, clock, arrivals, misses,
                 lockedAt>>

\* The request is answered or lost, and what it held in memory is gone.
End(l) ==
  /\ pc' = [pc EXCEPT ![l] = "idle"]
  /\ req' = [req EXCEPT ![l] = CHOOSE r \in Request : TRUE]
  /\ begun' = [begun EXCEPT ![l] = 0]
  /\ done' = [done EXCEPT ![l] = {}]

\* A lock in force: audited, committed and answered; no row of the throttle is
\* written.
RejectLocked(l) ==
  /\ pc[l] = "check"
  /\ \E s \in Scope : IsNext(l, s) /\ InForce(throttle[s], clock)
  /\ End(l)
  /\ UNCHANGED <<throttle, written, clock, arrivals, misses,
                 lockedAt>>

\* The password is verified, against a decoy if there is no such account.  A
\* right one opens a session, which only this transaction can name.
Verify(l) ==
  /\ pc[l] = "verify"
  /\ \E next \in {"clear", "record"} : pc' = [pc EXCEPT ![l] = next]
  /\ UNCHANGED <<throttle, req, begun, done, written, clock, arrivals, misses,
                 lockedAt>>

Write(l, s, row) ==
  /\ RowGranted(l, s)
  /\ written' = [written EXCEPT ![l][s] = row]

RecordFailure(l) ==
  /\ pc[l] = "record"
  /\ \E s \in Scope :
       /\ IsNext(l, s)
       /\ Write(l, s, WithFailure(throttle[s], begun[l]))
       /\ Advance(l, s, "record", "reject")
  /\ UNCHANGED <<throttle, req, begun, clock, arrivals, misses, lockedAt>>

ClearOnSuccess(l) ==
  /\ pc[l] = "clear"
  /\ \E s \in Scope :
       /\ IsNext(l, s)
       /\ Clearable(throttle[s], begun[l])
       /\ Write(l, s, Cleared(begun[l]))
       /\ Advance(l, s, "clear", "authenticate")
  /\ UNCHANGED <<throttle, req, begun, clock, arrivals, misses, lockedAt>>

\* No row matches: nothing is written, and nobody is waited for.
NothingToClear(l) ==
  /\ pc[l] = "clear"
  /\ \E s \in Scope :
       /\ IsNext(l, s)
       /\ ~Clearable(throttle[s], begun[l])
       /\ Advance(l, s, "clear", "authenticate")
  /\ UNCHANGED <<throttle, req, begun, written, clock, arrivals, misses,
                 lockedAt>>

Release(l) == written' = [written EXCEPT ![l] = [s \in Scope |-> NoRow]]

Wrote(l, s) == written[l][s] # NoRow

\* The attempts that have left a scope open, after a login has committed.
MissesAfter(l, s) ==
  IF ~Wrote(l, s) THEN misses[s]
  ELSE IF pc[l] = "authenticate" THEN [m \in Moment |-> 0]
  ELSE IF written[l][s].count >= MaxAttempts THEN misses[s]
  ELSE [misses[s] EXCEPT ![begun[l]] = @ + 1]

\* COMMIT: what was written is seen, with the audit entry and the session.
Commit(l) ==
  /\ pc[l] \in {"reject", "authenticate"}
  /\ throttle' = [s \in Scope |-> IF Wrote(l, s) THEN written[l][s] ELSE throttle[s]]
  /\ misses' = [s \in Scope |-> MissesAfter(l, s)]
  /\ lockedAt' = [s \in Scope |->
       IF Wrote(l, s) /\ written[l][s].count >= MaxAttempts THEN clock
       ELSE lockedAt[s]]
  /\ Release(l)
  /\ End(l)
  /\ UNCHANGED <<clock, arrivals>>

\* The process or the connection ends, anywhere: everything is rolled back, the
\* failure that was being recorded too.
Crash(l) ==
  /\ pc[l] # "idle"
  /\ Release(l)
  /\ End(l)
  /\ UNCHANGED <<throttle, clock, arrivals, misses, lockedAt>>

Active == {l \in Login : pc[l] # "idle"}

\* Bound: no login is more than MaxAge behind the clock.
Tick ==
  /\ clock < Horizon
  /\ \A l \in Active : clock - begun[l] < MaxAge
  /\ clock' = clock + 1
  /\ UNCHANGED <<throttle, pc, req, begun, done, written, arrivals, misses, lockedAt>>

Finished ==
  /\ Active = {} /\ arrivals = MaxLogins
  /\ UNCHANGED vars

Statement(l) ==
  \/ Check(l)
  \/ RejectLocked(l)
  \/ Verify(l)
  \/ RecordFailure(l)
  \/ ClearOnSuccess(l)
  \/ NothingToClear(l)
  \/ Commit(l)

Next ==
  \/ \E l \in Login : Begin(l) \/ Statement(l) \/ Crash(l)
  \/ Tick
  \/ Finished

Spec == Init /\ [][Next]_vars

-----------------------------------------------------------------------------
(* Properties *)

\* However many logins overlap, and although all of them may have found the
\* scope open, the failures that leave it open stay below the limit of the
\* window they are counted in.  Windows follow each other and do not slide, so
\* a span as long as a window, less what a login may lag behind, meets two.
AttemptsBounded ==
  \A s \in Scope : \A m \in Moment :
    Total({k \in Moment : m <= k /\ k <= m + Window - MaxAge}, misses[s])
      <= 2 * (MaxAttempts - 1)

\* Once a lock is committed nobody gets past the check until it has been
\* served: no right password, no later failure and no new window ends it
\* sooner.  It is counted from the beginning of the login that set it, so it
\* may be shorter by what that login took.
LockoutIsServed ==
  [][\A l \in Login : \A s \in ScopesOf(l) :
       (/\ pc[l] = "check" /\ s \notin done[l]
        /\ (s \in done'[l] \/ pc'[l] = "verify"))
         => lockedAt[s] = Never \/ clock >= lockedAt[s] + Lockout - MaxAge]_vars

\* A login that is at a statement for a row which another has written.
WaitsFor(l, k) ==
  /\ pc[l] \in {"record", "clear"} /\ k # l
  /\ \E s \in Scope :
       /\ IsNext(l, s) /\ Wrote(k, s)
       /\ pc[l] = "clear" => Clearable(throttle[s], begun[l])

\* Logins that share both an account and an address never wait for each other:
\* rows are taken in one order.  Nothing retries a login that was chosen as the
\* victim of a deadlock, and its failure would go uncounted.
NoLoginDeadlock ==
  \A S \in SUBSET Active : S # {} =>
    \E l \in S : \A k \in S : ~WaitsFor(l, k)
=============================================================================
