------------------------ MODULE AuthenticationProofs ------------------------
(***************************************************************************)
(* Theorems about authentication: of LoginThrottle, for every set of       *)
(* logins, accounts and addresses, and every limit, window, lock and       *)
(* delay; of BrowserSession, for every number of tabs, people, companies   *)
(* and sessions, and any order of the answers.                             *)
(***************************************************************************)
EXTENDS LoginThrottle, BrowserSession, QuantitiesProofs

-----------------------------------------------------------------------------
(* Rows *)

LEMMA ScopesDiffer ==
  ASSUME TypeOK, NEW l \in Login
  PROVE  /\ req[l].account \in Account /\ req[l].address \in Address
         /\ req[l].account \notin Address /\ req[l].address \notin Account
         /\ req[l].account # req[l].address
         /\ ScopesOf(l) \in SUBSET Scope
BY ConstantsAssumption DEF TypeOK, Request, ScopesOf, Scope

LEMMA NoRowType == NoRow \in Row
BY DEF NoRow, Row, Never

\* What a login writes on a scope is a row, and never the absence of one.
LEMMA WrittenType ==
  ASSUME NEW row \in Row, NEW now \in Moment
  PROVE  /\ WithFailure(row, now) \in Row /\ WithFailure(row, now) # NoRow
         /\ Cleared(now) \in Row /\ Cleared(now) # NoRow
<1>1. now \in Nat /\ Lockout \in Nat
  BY ConstantsAssumption DEF Moment
<1>2. nextCount(row, now) \in Nat /\ nextCount(row, now) # 0
  BY DEF nextCount, Row
<1>3. /\ WithFailure(row, now) \in Row
      /\ WithFailure(row, now).count # 0
  BY <1>1, <1>2 DEF WithFailure, Row
<1>4. Cleared(now) \in Row /\ Cleared(now).start # Never
  BY <1>1 DEF Cleared, Row, Never
<1> QED BY <1>3, <1>4 DEF NoRow

LEMMA WriteType ==
  ASSUME NEW f \in [Login -> [Scope -> Row]], NEW l \in Login, NEW s \in Scope,
         NEW row \in Row
  PROVE  /\ [f EXCEPT ![l][s] = row] \in [Login -> [Scope -> Row]]
         /\ \A k \in Login, r \in Scope :
              [f EXCEPT ![l][s] = row][k][r]
                = IF k = l /\ r = s THEN row ELSE f[k][r]
OBVIOUS

LEMMA AdvanceType ==
  ASSUME TypeOK, NEW l \in Login, NEW s \in Scope, NEW here \in PCs, NEW next \in PCs,
         Advance(l, s, here, next)
  PROVE  pc' \in [Login -> PCs] /\ done' \in [Login -> SUBSET Scope]
<1>1. pc \in [Login -> PCs] /\ done \in [Login -> SUBSET Scope]
  BY DEF TypeOK
<1>2. done[l] \cup {s} \in SUBSET Scope
  BY <1>1
<1>3. CASE done[l] \cup {s} = ScopesOf(l)
  <2>1. pc' = [pc EXCEPT ![l] = next] /\ done' = [done EXCEPT ![l] = {}]
    BY <1>3 DEF Advance
  <2> QED BY <1>1, <2>1
<1>4. CASE done[l] \cup {s} # ScopesOf(l)
  <2>1. pc' = [pc EXCEPT ![l] = here] /\ done' = [done EXCEPT ![l] = done[l] \cup {s}]
    BY <1>4 DEF Advance
  <2> QED BY <1>1, <1>2, <2>1
<1> QED BY <1>3, <1>4

\* There is a request to fall back to.
LEMMA DefaultType == (CHOOSE r \in Request : TRUE) \in Request
<1>1. PICK a \in Account, b \in Address : TRUE
  BY ConstantsAssumption
<1>2. [account |-> a, address |-> b] \in Request
  BY DEF Request
<1> HIDE DEF Request
<1> QED BY <1>2

LEMMA EndType ==
  ASSUME TypeOK, NEW l \in Login, End(l)
  PROVE  /\ pc' \in [Login -> PCs] /\ req' \in [Login -> Request]
         /\ begun' \in [Login -> Moment] /\ done' \in [Login -> SUBSET Scope]
<1>1. (CHOOSE r \in Request : TRUE) \in Request
  BY DefaultType
<1>2. 0 \in Moment
  BY ConstantsAssumption DEF Moment
<1> HIDE DEF Request
<1> QED BY <1>1, <1>2 DEF TypeOK, End, PCs

LEMMA ReleaseType ==
  ASSUME TypeOK, NEW l \in Login, Release(l)
  PROVE  written' \in [Login -> [Scope -> Row]]
BY NoRowType DEF TypeOK, Release

LEMMA MissesType ==
  ASSUME TypeOK, NEW l \in Login, NEW s \in Scope
  PROVE  MissesAfter(l, s) \in [Moment -> Nat]
<1>1. misses[s] \in [Moment -> Nat] /\ begun[l] \in Moment
  BY DEF TypeOK
<1> QED BY <1>1 DEF MissesAfter

-----------------------------------------------------------------------------
(* Types *)

LEMMA TypeInit == Init => TypeOK
<1>1. (CHOOSE r \in Request : TRUE) \in Request
  BY DefaultType
<1>2. 0 \in Moment /\ 0 \in 0 .. MaxLogins
  BY ConstantsAssumption DEF Moment
<1> QED BY <1>1, <1>2, NoRowType DEF Init, TypeOK, PCs

LEMMA TypeStep == TypeOK /\ [Next]_vars => TypeOK'
<1> SUFFICES ASSUME TypeOK, [Next]_vars PROVE TypeOK'
  OBVIOUS
<1> USE DEF Moment
<1>1. ASSUME NEW l \in Login, Begin(l) PROVE TypeOK'
  <2>1. arrivals + 1 \in 0 .. MaxLogins
    BY <1>1, ConstantsAssumption DEF TypeOK, Begin
  <2> QED BY <1>1, <2>1 DEF TypeOK, Begin, PCs
<1>2. ASSUME NEW l \in Login, Check(l) PROVE TypeOK'
  <2>1. pc' \in [Login -> PCs] /\ done' \in [Login -> SUBSET Scope]
    BY <1>2, AdvanceType DEF Check, PCs
  <2> QED BY <1>2, <2>1 DEF TypeOK, Check
<1>3. ASSUME NEW l \in Login, RejectLocked(l) PROVE TypeOK'
  BY <1>3, EndType DEF TypeOK, RejectLocked
<1>4. ASSUME NEW l \in Login, Verify(l) PROVE TypeOK'
  BY <1>4 DEF TypeOK, Verify, PCs
<1>5. ASSUME NEW l \in Login, RecordFailure(l) PROVE TypeOK'
  <2>1. PICK s \in Scope : /\ Write(l, s, WithFailure(throttle[s], begun[l]))
                           /\ Advance(l, s, "record", "reject")
    BY <1>5 DEF RecordFailure
  <2>2. throttle[s] \in Row /\ begun[l] \in Moment
    BY DEF TypeOK
  <2>3. written' \in [Login -> [Scope -> Row]]
    BY <2>1, <2>2, WrittenType, WriteType DEF TypeOK, Write
  <2>4. pc' \in [Login -> PCs] /\ done' \in [Login -> SUBSET Scope]
    BY <2>1, AdvanceType DEF PCs
  <2> QED BY <1>5, <2>3, <2>4 DEF TypeOK, RecordFailure
<1>6. ASSUME NEW l \in Login, ClearOnSuccess(l) PROVE TypeOK'
  <2>1. PICK s \in Scope : /\ Write(l, s, Cleared(begun[l]))
                           /\ Advance(l, s, "clear", "authenticate")
    BY <1>6 DEF ClearOnSuccess
  <2>2. throttle[s] \in Row /\ begun[l] \in Moment
    BY DEF TypeOK
  <2>3. written' \in [Login -> [Scope -> Row]]
    BY <2>1, <2>2, WrittenType, WriteType DEF TypeOK, Write
  <2>4. pc' \in [Login -> PCs] /\ done' \in [Login -> SUBSET Scope]
    BY <2>1, AdvanceType DEF PCs
  <2> QED BY <1>6, <2>3, <2>4 DEF TypeOK, ClearOnSuccess
<1>7. ASSUME NEW l \in Login, NothingToClear(l) PROVE TypeOK'
  <2>1. pc' \in [Login -> PCs] /\ done' \in [Login -> SUBSET Scope]
    BY <1>7, AdvanceType DEF NothingToClear, PCs
  <2> QED BY <1>7, <2>1 DEF TypeOK, NothingToClear
<1>8. ASSUME NEW l \in Login, Commit(l) PROVE TypeOK'
  <2>1. throttle' \in [Scope -> Row]
    BY <1>8 DEF TypeOK, Commit
  <2>2. misses' \in [Scope -> [Moment -> Nat]]
    BY <1>8, MissesType DEF Commit
  <2>3. lockedAt' \in [Scope -> Moment \cup {Never}]
    BY <1>8 DEF TypeOK, Commit
  <2> QED BY <1>8, <2>1, <2>2, <2>3, EndType, ReleaseType DEF TypeOK, Commit
<1>9. ASSUME NEW l \in Login, Crash(l) PROVE TypeOK'
  BY <1>9, EndType, ReleaseType DEF TypeOK, Crash
<1>10. CASE Tick
  <2>1. clock + 1 \in 0 .. Horizon
    BY <1>10, ConstantsAssumption DEF TypeOK, Tick
  <2> QED BY <1>10, <2>1 DEF TypeOK, Tick
<1>11. CASE UNCHANGED vars
  BY <1>11 DEF TypeOK, vars
<1> QED BY <1>1, <1>2, <1>3, <1>4, <1>5, <1>6, <1>7, <1>8, <1>9, <1>10, <1>11
        DEF Next, Statement, Finished

\* Every variable keeps its type, however many logins overlap.
THEOREM TypeCorrect == Spec => []TypeOK
BY TypeInit, TypeStep, PTL DEF Spec

-----------------------------------------------------------------------------
(* What a login holds *)

Looping == {"check", "record", "clear"}

\* No login is further behind the clock than MaxAge.
Paced == \A l \in Login :
  pc[l] # "idle" => begun[l] <= clock /\ clock <= begun[l] + MaxAge

\* A loop that goes on has been through the account alone.
AccountFirst == \A l \in Login :
  /\ done[l] \in SUBSET {req[l].account}
  /\ pc[l] \notin Looping => done[l] = {}

\* What a login has written is of its scopes, is what its password decided, and
\* is still derived from the row that is committed: nobody else can have
\* changed it.
WritesAreCurrent == \A l \in Login : \A s \in Scope :
  Wrote(l, s) =>
    /\ s \in ScopesOf(l)
    /\ \/ pc[l] = "record" /\ s \in done[l]
       \/ pc[l] = "reject"
       \/ pc[l] = "clear" /\ s \in done[l]
       \/ pc[l] = "authenticate"
    /\ pc[l] \in {"record", "reject"} =>
         written[l][s] = WithFailure(throttle[s], begun[l])
    /\ pc[l] \in {"clear", "authenticate"} =>
         /\ written[l][s] = Cleared(begun[l])
         /\ Clearable(throttle[s], begun[l])

\* The row lock: one login has written a row that is not yet committed.
OneWriter == \A l, k \in Login : \A s \in Scope :
  Wrote(l, s) /\ Wrote(k, s) => l = k

ControlInv == Paced /\ AccountFirst /\ WritesAreCurrent /\ OneWriter

\* A lock that was committed stands until it has been served, less what the
\* login that set it was behind.
LocksStand == \A s \in Scope :
  \/ lockedAt[s] = Never
  \/ clock >= lockedAt[s] + Lockout - MaxAge
  \/ throttle[s].until >= lockedAt[s] + Lockout - MaxAge

From(m) == {k \in Moment : m <= k}

\* The failures a window may still hold: no more than were counted, and never
\* as many as the limit.
Counted(s) == IF throttle[s].count < MaxAttempts - 1 THEN throttle[s].count
              ELSE MaxAttempts - 1

\* Failures since the window of a row began were counted in it, those of the
\* window before it stayed below the limit, and none is later than the window.
WindowsInv == \A s \in Scope :
  /\ throttle[s].start <= clock
  /\ throttle[s] = NoRow => \A k \in Moment : misses[s][k] = 0
  /\ \A k \in Moment : k > throttle[s].start + Window => misses[s][k] = 0
  /\ \A m \in Int : m >= throttle[s].start =>
       Total(From(m), misses[s]) <= Counted(s)
  /\ \A m \in Int : m >= throttle[s].start - Window =>
       Total(From(m), misses[s]) <= MaxAttempts - 1 + Counted(s)

LEMMA ControlInit == Init => ControlInv
BY ConstantsAssumption DEF Init, ControlInv, Paced, AccountFirst, WritesAreCurrent, OneWriter,
   Wrote, Looping

\* The clock and the beginnings of logins.
LEMMA PacedStep == TypeOK /\ Paced /\ [Next]_vars => Paced'
<1> SUFFICES ASSUME TypeOK, Paced, [Next]_vars PROVE Paced'
  OBVIOUS
<1>0. MaxAge \in Nat /\ clock \in Int /\ \A l \in Login : begun[l] \in Int
  BY ConstantsAssumption DEF TypeOK, Moment
<1>1. ASSUME NEW l \in Login, Begin(l) PROVE Paced'
  BY <1>0, <1>1 DEF TypeOK, Paced, Begin
<1>2. ASSUME NEW l \in Login, Check(l) \/ RecordFailure(l) \/ ClearOnSuccess(l)
                                \/ NothingToClear(l)
      PROVE Paced'
  <2>1. /\ clock' = clock /\ begun' = begun /\ pc[l] # "idle"
        /\ \A k \in Login \ {l} : pc'[k] = pc[k]
    BY <1>2 DEF TypeOK, Check, RecordFailure, ClearOnSuccess, NothingToClear, Advance
  <2> QED BY <2>1 DEF Paced
<1>3. ASSUME NEW l \in Login, RejectLocked(l) \/ Commit(l) \/ Crash(l) PROVE Paced'
  BY <1>0, <1>3 DEF TypeOK, Paced, RejectLocked, Commit, Crash, End
<1>4. ASSUME NEW l \in Login, Verify(l) PROVE Paced'
  BY <1>4 DEF TypeOK, Paced, Verify
<1>5. CASE Tick
  BY <1>0, <1>5 DEF TypeOK, Paced, Tick, Active
<1>6. CASE UNCHANGED vars
  BY <1>6 DEF Paced, vars
<1> QED BY <1>1, <1>2, <1>3, <1>4, <1>5, <1>6 DEF Next, Statement, Finished

\* A step of a loop: which scope comes next, and what the loop has then been
\* through.
LEMMA LoopStep ==
  ASSUME TypeOK, AccountFirst, NEW l \in Login, NEW s \in Scope, IsNext(l, s),
         NEW here \in Looping, NEW next \in PCs, Advance(l, s, here, next)
  PROVE  /\ \A k \in Login \ {l} : pc'[k] = pc[k] /\ done'[k] = done[k]
         /\ s \in ScopesOf(l)
         /\ \/ /\ s = req[l].account /\ done[l] = {}
               /\ pc'[l] = here /\ done'[l] = {s}
            \/ /\ s = req[l].address /\ done[l] = {req[l].account}
               /\ pc'[l] = next /\ done'[l] = {}
<1>1. /\ req[l].account \notin Address /\ req[l].account # req[l].address
      /\ req[l].address \in Address
  BY ScopesDiffer
<1>2. /\ pc \in [Login -> PCs] /\ done \in [Login -> SUBSET Scope]
      /\ done[l] \in SUBSET {req[l].account}
  BY DEF TypeOK, AccountFirst
<1>3. s \in ScopesOf(l) \ done[l] /\ (s \in Address => req[l].account \in done[l])
  BY DEF IsNext
<1>4. CASE s = req[l].account
  <2>0. done[l] = {}
    BY <1>2, <1>3, <1>4
  <2>1. done[l] = {} /\ done[l] \cup {s} # ScopesOf(l)
    BY <1>1, <1>4, <2>0 DEF ScopesOf
  <2>2. pc' = [pc EXCEPT ![l] = here] /\ done' = [done EXCEPT ![l] = done[l] \cup {s}]
    BY <2>1 DEF Advance
  <2> QED BY <1>2, <1>3, <1>4, <2>1, <2>2
<1>5. CASE s = req[l].address
  <2>1. done[l] = {req[l].account} /\ done[l] \cup {s} = ScopesOf(l)
    BY <1>1, <1>2, <1>3, <1>5 DEF ScopesOf
  <2>2. pc' = [pc EXCEPT ![l] = next] /\ done' = [done EXCEPT ![l] = {}]
    BY <2>1 DEF Advance
  <2> QED BY <1>2, <1>3, <1>5, <2>1, <2>2
<1> QED BY <1>3, <1>4, <1>5 DEF ScopesOf

LEMMA AccountFirstStep == TypeOK /\ AccountFirst /\ [Next]_vars => AccountFirst'
<1> SUFFICES ASSUME TypeOK, AccountFirst, [Next]_vars PROVE AccountFirst'
  OBVIOUS
<1> USE DEF Looping
<1>1. ASSUME NEW l \in Login, Begin(l) PROVE AccountFirst'
  <2>1. pc[l] = "idle" /\ done' = done
    BY <1>1 DEF Begin
  <2>2. done[l] = {}
    BY <2>1 DEF AccountFirst
  <2>3. \A k \in Login \ {l} : pc'[k] = pc[k] /\ req'[k] = req[k]
    BY <1>1 DEF TypeOK, Begin
  <2> QED BY <2>1, <2>2, <2>3 DEF AccountFirst
<1>2. ASSUME NEW l \in Login, NEW s \in Scope, IsNext(l, s), req' = req,
             NEW here \in Looping, NEW next \in PCs \ Looping, Advance(l, s, here, next)
      PROVE AccountFirst'
  <2>1. /\ \A k \in Login \ {l} : pc'[k] = pc[k] /\ done'[k] = done[k]
        /\ \/ done'[l] = {req[l].account} /\ pc'[l] = here
           \/ done'[l] = {} /\ pc'[l] = next
    BY <1>2, LoopStep
  <2> QED BY <1>2, <2>1 DEF AccountFirst
<1>3. ASSUME NEW l \in Login,
             Check(l) \/ RecordFailure(l) \/ ClearOnSuccess(l) \/ NothingToClear(l)
      PROVE AccountFirst'
  <2>1. {"verify", "reject", "authenticate"} \in SUBSET (PCs \ Looping)
    BY DEF PCs
  <2> QED BY <1>2, <1>3, <2>1 DEF Check, RecordFailure, ClearOnSuccess, NothingToClear
<1>4. ASSUME NEW l \in Login, RejectLocked(l) \/ Commit(l) \/ Crash(l) PROVE AccountFirst'
  <2>1. End(l)
    BY <1>4 DEF RejectLocked, Commit, Crash
  <2>2. /\ \A k \in Login \ {l} : /\ pc'[k] = pc[k] /\ done'[k] = done[k]
                                  /\ req'[k] = req[k]
        /\ pc'[l] = "idle" /\ done'[l] = {}
    BY <2>1 DEF TypeOK, End
  <2> QED BY <2>2 DEF AccountFirst
<1>5. ASSUME NEW l \in Login, Verify(l) PROVE AccountFirst'
  <2>1. /\ \A k \in Login \ {l} : pc'[k] = pc[k]
        /\ pc[l] = "verify" /\ done' = done /\ req' = req
    BY <1>5 DEF TypeOK, Verify
  <2> QED BY <2>1 DEF AccountFirst
<1>6. CASE Tick
  BY <1>6 DEF AccountFirst, Tick
<1>7. CASE UNCHANGED vars
  BY <1>7 DEF AccountFirst, vars
<1> QED BY <1>1, <1>3, <1>4, <1>5, <1>6, <1>7 DEF Next, Statement, Finished

\* The row lock of PostgreSQL: an upsert waits for whoever has written the row.
LEMMA OneWriterStep == TypeOK /\ OneWriter /\ [Next]_vars => OneWriter'
<1> SUFFICES ASSUME TypeOK, OneWriter, [Next]_vars PROVE OneWriter'
  OBVIOUS
<1>1. ASSUME NEW l \in Login, NEW s \in Scope, NEW row \in Row, Write(l, s, row)
      PROVE OneWriter'
  <2>1. \A k \in Login \ {l} : ~Wrote(k, s)
    BY <1>1 DEF Write, RowGranted, Wrote
  <2>2. \A k \in Login, r \in Scope :
          written'[k][r] = IF k = l /\ r = s THEN row ELSE written[k][r]
    BY <1>1, WriteType DEF TypeOK, Write
  <2> QED BY <2>1, <2>2 DEF OneWriter, Wrote
<1>2. ASSUME NEW l \in Login, RecordFailure(l) \/ ClearOnSuccess(l) PROVE OneWriter'
  <2>1. \A s \in Scope : throttle[s] \in Row
    BY DEF TypeOK
  <2>2. begun[l] \in Moment
    BY DEF TypeOK
  <2> QED BY <1>1, <1>2, <2>1, <2>2, WrittenType DEF RecordFailure, ClearOnSuccess
<1>3. ASSUME NEW l \in Login, Commit(l) \/ Crash(l) PROVE OneWriter'
  <2>1. /\ \A k \in Login \ {l} : written'[k] = written[k]
        /\ \A s \in Scope : written'[l][s] = NoRow
    BY <1>3 DEF TypeOK, Commit, Crash, Release
  <2> QED BY <2>1 DEF OneWriter, Wrote
<1>4. CASE written' = written
  BY <1>4 DEF OneWriter, Wrote
<1> QED BY <1>2, <1>3, <1>4 DEF Next, Statement, Finished, Begin, Check, RejectLocked,
        Verify, NothingToClear, Tick, vars

LEMMA WritesStep ==
  TypeOK /\ AccountFirst /\ WritesAreCurrent /\ OneWriter /\ [Next]_vars => WritesAreCurrent'
<1> SUFFICES ASSUME TypeOK, AccountFirst, WritesAreCurrent, OneWriter, [Next]_vars
             PROVE  WritesAreCurrent'
  OBVIOUS
\* What is asked of the write of one login on one scope.
<1> DEFINE Current(k, r) ==
      /\ r \in ScopesOf(k)
      /\ \/ pc[k] = "record" /\ r \in done[k]
         \/ pc[k] = "reject"
         \/ pc[k] = "clear" /\ r \in done[k]
         \/ pc[k] = "authenticate"
      /\ pc[k] \in {"record", "reject"} =>
           written[k][r] = WithFailure(throttle[r], begun[k])
      /\ pc[k] \in {"clear", "authenticate"} =>
           /\ written[k][r] = Cleared(begun[k])
           /\ Clearable(throttle[r], begun[k])
<1>0. \A k \in Login : \A r \in Scope : Wrote(k, r) => Current(k, r)
  BY DEF WritesAreCurrent
<1>q. ASSUME \A k \in Login : \A r \in Scope : Wrote(k, r)' => Current(k, r)'
      PROVE  WritesAreCurrent'
  BY <1>q DEF WritesAreCurrent
\* A login that did nothing keeps what it has written.
<1>s. ASSUME NEW k \in Login, NEW r \in Scope, Wrote(k, r)', written'[k] = written[k],
             pc'[k] = pc[k], done'[k] = done[k], req'[k] = req[k],
             begun'[k] = begun[k], throttle'[r] = throttle[r]
      PROVE  Current(k, r)'
  <2>1. Wrote(k, r)
    BY <1>s DEF Wrote
  <2>2. Current(k, r)
    BY <1>0, <2>1
  <2>3. ScopesOf(k)' = ScopesOf(k)
    BY <1>s DEF ScopesOf
  <2> QED BY <1>s, <2>2, <2>3
<1>1. ASSUME NEW l \in Login, Begin(l) PROVE WritesAreCurrent'
  <2>1. /\ written' = written /\ throttle' = throttle /\ done' = done
        /\ pc[l] = "idle"
        /\ \A k \in Login \ {l} : pc'[k] = pc[k] /\ req'[k] = req[k] /\ begun'[k] = begun[k]
    BY <1>1 DEF TypeOK, Begin
  <2>2. \A r \in Scope : ~Wrote(l, r)
    BY <1>0, <2>1
  <2>3. \A r \in Scope : ~Wrote(l, r)'
    BY <2>1, <2>2 DEF Wrote
  <2> HIDE DEF Current
  <2> QED BY <1>q, <1>s, <2>1, <2>3
\* The next write of a loop, made by the password that was verified.
<1>w. ASSUME NEW l \in Login, NEW s \in Scope, IsNext(l, s), NEW row \in Row,
             Write(l, s, row), req' = req, begun' = begun, throttle' = throttle,
             \/ /\ pc[l] = "record" /\ row = WithFailure(throttle[s], begun[l])
                /\ Advance(l, s, "record", "reject")
             \/ /\ pc[l] = "clear" /\ row = Cleared(begun[l])
                /\ Clearable(throttle[s], begun[l])
                /\ Advance(l, s, "clear", "authenticate")
      PROVE  WritesAreCurrent'
  <2>1. \A k \in Login, r \in Scope :
          written'[k][r] = IF k = l /\ r = s THEN row ELSE written[k][r]
    BY <1>w, WriteType DEF TypeOK, Write
  <2>2. {"record", "clear"} \in SUBSET Looping /\ {"reject", "authenticate"} \in SUBSET PCs
    BY DEF Looping, PCs
  <2>3. /\ \A k \in Login \ {l} : pc'[k] = pc[k] /\ done'[k] = done[k]
        /\ s \in ScopesOf(l)
        /\ \/ pc[l] = "record" /\ pc'[l] = "record" /\ done'[l] = {s} /\ done[l] = {}
           \/ pc[l] = "record" /\ pc'[l] = "reject"
           \/ pc[l] = "clear" /\ pc'[l] = "clear" /\ done'[l] = {s} /\ done[l] = {}
           \/ pc[l] = "clear" /\ pc'[l] = "authenticate"
    BY <1>w, <2>2, LoopStep
  <2>4. ScopesOf(l)' = ScopesOf(l)
    BY <1>w DEF ScopesOf
  <2>5. ASSUME NEW r \in Scope, Wrote(l, r)' PROVE Current(l, r)'
    <3>1. CASE r = s
      <4>1. written'[l][s] = row
        BY <2>1
      <4>2. /\ WithFailure(throttle'[s], begun'[l]) = WithFailure(throttle[s], begun[l])
            /\ Cleared(begun'[l]) = Cleared(begun[l])
            /\ Clearable(throttle'[s], begun'[l]) = Clearable(throttle[s], begun[l])
        BY <1>w
      <4>3. Current(l, s)'
        BY <1>w, <2>3, <2>4, <4>1, <4>2
      <4> QED BY <3>1, <4>3
    <3>2. CASE r # s
      <4>1. Wrote(l, r) /\ written'[l][r] = written[l][r]
        BY <2>1, <2>5, <3>2 DEF Wrote
      <4>2. Current(l, r)
        BY <1>0, <4>1
      <4> QED BY <1>w, <2>3, <2>4, <4>1, <4>2
    <3> QED BY <3>1, <3>2
  <2>6. ASSUME NEW k \in Login \ {l}, NEW r \in Scope, Wrote(k, r)' PROVE Current(k, r)'
    <3>1. written'[k] = written[k]
      BY <1>w DEF TypeOK, Write
    <3> HIDE DEF Current
    <3> QED BY <1>s, <1>w, <2>3, <2>6, <3>1
  <2> HIDE DEF Current
  <2> QED BY <1>q, <2>5, <2>6
<1>2. ASSUME NEW l \in Login, RecordFailure(l) \/ ClearOnSuccess(l) PROVE WritesAreCurrent'
  <2>1. begun[l] \in Moment /\ \A s \in Scope : throttle[s] \in Row
    BY DEF TypeOK
  <2>2. CASE RecordFailure(l)
    <3>1. PICK s \in Scope : /\ IsNext(l, s)
                             /\ Write(l, s, WithFailure(throttle[s], begun[l]))
                             /\ Advance(l, s, "record", "reject")
      BY <2>2 DEF RecordFailure
    <3>2. WithFailure(throttle[s], begun[l]) \in Row
      BY <2>1, WrittenType
    <3>3. pc[l] = "record" /\ req' = req /\ begun' = begun /\ throttle' = throttle
      BY <2>2 DEF RecordFailure
    <3> HIDE DEF Current
    <3> QED BY <1>w, <3>1, <3>2, <3>3
  <2>3. CASE ClearOnSuccess(l)
    <3>1. PICK s \in Scope : /\ IsNext(l, s)
                             /\ Clearable(throttle[s], begun[l])
                             /\ Write(l, s, Cleared(begun[l]))
                             /\ Advance(l, s, "clear", "authenticate")
      BY <2>3 DEF ClearOnSuccess
    <3>2. Cleared(begun[l]) \in Row
      BY <2>1, WrittenType
    <3>3. pc[l] = "clear" /\ req' = req /\ begun' = begun /\ throttle' = throttle
      BY <2>3 DEF ClearOnSuccess
    <3> HIDE DEF Current
    <3> QED BY <1>w, <3>1, <3>2, <3>3
  <2> QED BY <1>2, <2>2, <2>3
<1>3. ASSUME NEW l \in Login, Check(l) \/ Verify(l) PROVE WritesAreCurrent'
  <2>1. /\ written' = written /\ throttle' = throttle /\ req' = req /\ begun' = begun
        /\ pc[l] \in {"check", "verify"}
        /\ \A k \in Login \ {l} : pc'[k] = pc[k] /\ done'[k] = done[k]
    BY <1>3 DEF TypeOK, Check, Verify, Advance
  <2>2. \A r \in Scope : ~Wrote(l, r)
    BY <1>0, <2>1
  <2>3. \A r \in Scope : ~Wrote(l, r)'
    BY <2>1, <2>2 DEF Wrote
  <2> HIDE DEF Current
  <2> QED BY <1>q, <1>s, <2>1, <2>3
<1>4. ASSUME NEW l \in Login, NothingToClear(l) PROVE WritesAreCurrent'
  <2>1. PICK s \in Scope : IsNext(l, s) /\ Advance(l, s, "clear", "authenticate")
    BY <1>4 DEF NothingToClear
  <2>2. /\ written' = written /\ throttle' = throttle /\ req' = req /\ begun' = begun
        /\ pc[l] = "clear"
    BY <1>4 DEF NothingToClear
  <2>3. "clear" \in Looping /\ "authenticate" \in PCs
    BY DEF Looping, PCs
  <2>4. /\ \A k \in Login \ {l} : pc'[k] = pc[k] /\ done'[k] = done[k]
        /\ \/ pc'[l] = "clear" /\ done[l] = {}
           \/ pc'[l] = "authenticate"
    BY <2>1, <2>3, LoopStep
  <2>5. ASSUME NEW r \in Scope, Wrote(l, r)' PROVE Current(l, r)'
    <3>1. Wrote(l, r)
      BY <2>2, <2>5 DEF Wrote
    <3>2. Current(l, r)
      BY <1>0, <3>1
    <3>3. ScopesOf(l)' = ScopesOf(l)
      BY <2>2 DEF ScopesOf
    <3> QED BY <2>2, <2>4, <3>2, <3>3
  <2> HIDE DEF Current
  <2> QED BY <1>q, <1>s, <2>2, <2>4, <2>5
<1>5. ASSUME NEW l \in Login, RejectLocked(l) PROVE WritesAreCurrent'
  <2>1. /\ written' = written /\ throttle' = throttle /\ pc[l] = "check"
        /\ \A k \in Login \ {l} : /\ pc'[k] = pc[k] /\ done'[k] = done[k]
                                  /\ req'[k] = req[k] /\ begun'[k] = begun[k]
    BY <1>5 DEF TypeOK, RejectLocked, End
  <2>2. \A r \in Scope : ~Wrote(l, r)
    BY <1>0, <2>1
  <2>3. \A r \in Scope : ~Wrote(l, r)'
    BY <2>1, <2>2 DEF Wrote
  <2> HIDE DEF Current
  <2> QED BY <1>q, <1>s, <2>1, <2>3
<1>6. ASSUME NEW l \in Login, Commit(l) \/ Crash(l) PROVE WritesAreCurrent'
  <2>1. /\ \A r \in Scope : written'[l][r] = NoRow
        /\ \A k \in Login \ {l} : /\ pc'[k] = pc[k] /\ done'[k] = done[k]
                                  /\ req'[k] = req[k] /\ begun'[k] = begun[k]
                                  /\ written'[k] = written[k]
        /\ \A r \in Scope : ~Wrote(l, r) => throttle'[r] = throttle[r]
    BY <1>6 DEF TypeOK, Commit, Crash, End, Release
  <2>2. \A r \in Scope : ~Wrote(l, r)'
    BY <2>1 DEF Wrote
  <2>3. \A k \in Login \ {l} : \A r \in Scope : Wrote(k, r)' => throttle'[r] = throttle[r]
    BY <2>1 DEF OneWriter, Wrote
  <2> HIDE DEF Current
  <2> QED BY <1>q, <1>s, <2>1, <2>2, <2>3
<1>7. CASE Tick \/ UNCHANGED vars
  <2>1. /\ written' = written /\ throttle' = throttle /\ pc' = pc /\ req' = req
        /\ done' = done /\ begun' = begun
    BY <1>7 DEF Tick, vars
  <2> HIDE DEF Current
  <2> QED BY <1>q, <1>s, <2>1
<1> QED BY <1>1, <1>2, <1>3, <1>4, <1>5, <1>6, <1>7 DEF Next, Statement, Finished

LEMMA ControlStep == TypeOK /\ ControlInv /\ [Next]_vars => ControlInv'
BY PacedStep, AccountFirstStep, WritesStep, OneWriterStep DEF ControlInv

LEMMA ControlHolds == Spec => [](TypeOK /\ ControlInv)
<1>1. TypeOK /\ ControlInv /\ [Next]_vars => (TypeOK /\ ControlInv)'
  BY TypeStep, ControlStep
<1> QED BY TypeInit, ControlInit, <1>1, PTL DEF Spec

-----------------------------------------------------------------------------
(* Deadlock *)

\* A login that waits and that another waits for has written its account and
\* waits for the address; whoever has written the address is through.
LEMMA ChainsAreShort ==
  ASSUME TypeOK, AccountFirst, WritesAreCurrent,
         NEW l \in Login, NEW k \in Login, NEW j \in Login, NEW i \in Login,
         WaitsFor(l, k), WaitsFor(k, j), WaitsFor(j, i)
  PROVE  FALSE
<1>1. /\ pc[k] \in {"record", "clear"} /\ pc[j] \in {"record", "clear"}
  BY DEF WaitsFor
<1>2. PICK s \in Scope : Wrote(k, s)
  BY DEF WaitsFor
<1>3. PICK r \in Scope : IsNext(k, r) /\ Wrote(j, r)
  BY DEF WaitsFor
<1>4. s \in done[k] /\ done[k] \in SUBSET {req[k].account}
  BY <1>1, <1>2 DEF WritesAreCurrent, AccountFirst
<1>5. r \in done[j] /\ done[j] \in SUBSET {req[j].account}
  BY <1>1, <1>3 DEF WritesAreCurrent, AccountFirst
<1>6. r = req[k].address
  BY <1>3, <1>4 DEF IsNext, ScopesOf
<1>7. r \in Address /\ r \in Account
  BY <1>5, <1>6, ScopesDiffer
<1> QED BY <1>7, ConstantsAssumption

\* The account before the address is enough: there is no circle, whatever the
\* logins share.
THEOREM LoginsNeverDeadlock == Spec => []NoLoginDeadlock
<1>1. TypeOK /\ ControlInv => NoLoginDeadlock
  <2> SUFFICES ASSUME TypeOK, ControlInv, NEW S \in SUBSET Active, S # {},
                      \A l \in S : \E k \in S : WaitsFor(l, k)
               PROVE  FALSE
    BY DEF NoLoginDeadlock
  <2>1. \A l \in S : l \in Login
    BY DEF Active
  <2>2. PICK l \in S : TRUE
    OBVIOUS
  <2>3. PICK k \in S : WaitsFor(l, k)
    BY <2>2
  <2>4. PICK j \in S : WaitsFor(k, j)
    BY <2>3
  <2>5. PICK i \in S : WaitsFor(j, i)
    BY <2>4
  <2> QED BY <2>1, <2>3, <2>4, <2>5, ChainsAreShort DEF ControlInv
<1> QED BY <1>1, ControlHolds, PTL

-----------------------------------------------------------------------------
(* Locks *)

\* What a commit leaves of a scope that the login has written: one failure more
\* on the row as it was committed, or a row that no lock kept from being
\* cleared.
LEMMA CommitEffect ==
  ASSUME TypeOK, ControlInv, NEW l \in Login, Commit(l), NEW s \in Scope
  PROVE  LET now == begun[l]
             row == throttle[s]
         IN  /\ now \in Moment /\ row \in Row /\ now <= clock /\ clock <= now + MaxAge
             /\ clock' = clock
             /\ \/ /\ ~Wrote(l, s)
                   /\ throttle'[s] = row /\ misses'[s] = misses[s]
                   /\ lockedAt'[s] = lockedAt[s]
                \/ /\ throttle'[s] = Cleared(now) /\ Clearable(row, now)
                   /\ misses'[s] = [m \in Moment |-> 0]
                   /\ lockedAt'[s] = lockedAt[s]
                \/ /\ throttle'[s] = WithFailure(row, now)
                   /\ ReachesLimit(row, now)
                   /\ misses'[s] = misses[s]
                   /\ lockedAt'[s] = clock
                \/ /\ throttle'[s] = WithFailure(row, now)
                   /\ ~ReachesLimit(row, now)
                   /\ misses'[s] = [misses[s] EXCEPT ![now] = @ + 1]
                   /\ lockedAt'[s] = lockedAt[s]
<1> DEFINE now == begun[l]
           row == throttle[s]
<1>1. /\ pc[l] \in {"reject", "authenticate"}
      /\ throttle'[s] = IF Wrote(l, s) THEN written[l][s] ELSE row
      /\ misses'[s] = MissesAfter(l, s)
      /\ lockedAt'[s] = IF Wrote(l, s) /\ written[l][s].count >= MaxAttempts THEN clock
                        ELSE lockedAt[s]
      /\ clock' = clock
  BY DEF Commit
<1>2. now \in Moment /\ row \in Row /\ now <= clock /\ clock <= now + MaxAge
  BY <1>1 DEF TypeOK, ControlInv, Paced
<1>3. CASE ~Wrote(l, s)
  BY <1>1, <1>2, <1>3 DEF MissesAfter
<1>4. CASE Wrote(l, s) /\ pc[l] = "authenticate"
  <2>1. written[l][s] = Cleared(now) /\ Clearable(row, now)
    BY <1>4 DEF ControlInv, WritesAreCurrent
  <2>2. ~(written[l][s].count >= MaxAttempts)
    BY <2>1, ConstantsAssumption DEF Cleared
  <2> QED BY <1>1, <1>2, <1>4, <2>1, <2>2 DEF MissesAfter
<1>5. CASE Wrote(l, s) /\ pc[l] = "reject"
  <2>1. written[l][s] = WithFailure(row, now)
    BY <1>5 DEF ControlInv, WritesAreCurrent
  <2>2. written[l][s].count >= MaxAttempts <=> ReachesLimit(row, now)
    BY <2>1 DEF WithFailure, ReachesLimit
  <2> HIDE DEF now, row
  <2>3. misses'[s] = IF ReachesLimit(row, now) THEN misses[s]
                     ELSE [misses[s] EXCEPT ![now] = @ + 1]
    BY <1>1, <1>5, <2>2 DEF MissesAfter, now
  <2> QED BY <1>1, <1>2, <1>5, <2>1, <2>2, <2>3 DEF now, row
<1> QED BY <1>1, <1>3, <1>4, <1>5

\* Steps other than a commit change no row, and no history of one.
LEMMA OnlyCommits ==
  ASSUME TypeOK, [Next]_vars
  PROVE  \/ \E l \in Login : Commit(l)
         \/ /\ throttle' = throttle /\ misses' = misses /\ lockedAt' = lockedAt
            /\ clock <= clock'
<1>1. clock \in Int
  BY DEF TypeOK, Moment
<1> QED BY <1>1 DEF Next, Statement, Finished, Begin, Check, RejectLocked, Verify,
    RecordFailure, ClearOnSuccess, NothingToClear, Crash, Tick, vars

LEMMA Numbers ==
  ASSUME TypeOK, NEW s \in Scope
  PROVE  /\ clock \in Int /\ lockedAt[s] \in Int
         /\ throttle[s].count \in Nat /\ throttle[s].start \in Int
         /\ throttle[s].until \in Int
<1>1. clock \in Moment /\ lockedAt[s] \in Moment \cup {Never} /\ throttle[s] \in Row
  BY DEF TypeOK
<1>2. Moment \in SUBSET Int /\ Never \in Int
  BY DEF Moment, Never
<1> QED BY <1>1, <1>2 DEF Row

LEMMA LocksInit == Init => LocksStand
BY DEF Init, LocksStand

LEMMA LocksStep == TypeOK /\ ControlInv /\ LocksStand /\ [Next]_vars => LocksStand'
<1> SUFFICES ASSUME TypeOK, ControlInv, LocksStand, [Next]_vars, NEW s \in Scope
             PROVE  \/ lockedAt'[s] = Never
                    \/ clock' >= lockedAt'[s] + Lockout - MaxAge
                    \/ throttle'[s].until >= lockedAt'[s] + Lockout - MaxAge
  BY DEF LocksStand
<1>1. /\ clock \in Int /\ Lockout \in Nat /\ MaxAge \in Nat
      /\ lockedAt[s] \in Int /\ throttle[s].until \in Int
  BY ConstantsAssumption, Numbers
<1>0. clock' \in Int
  BY TypeStep DEF TypeOK, Moment
<1>2. \/ lockedAt[s] = Never
      \/ clock >= lockedAt[s] + Lockout - MaxAge
      \/ throttle[s].until >= lockedAt[s] + Lockout - MaxAge
  BY DEF LocksStand
<1>3. CASE throttle' = throttle /\ lockedAt' = lockedAt /\ clock <= clock'
  BY <1>0, <1>1, <1>2, <1>3
<1>4. ASSUME NEW l \in Login, Commit(l)
      PROVE  \/ lockedAt'[s] = Never
             \/ clock' >= lockedAt'[s] + Lockout - MaxAge
             \/ throttle'[s].until >= lockedAt'[s] + Lockout - MaxAge
  <2> DEFINE now == begun[l]
             row == throttle[s]
  <2>0. now \in Moment /\ now <= clock /\ clock <= now + MaxAge /\ clock' = clock
    BY <1>4, CommitEffect
  <2>1. now \in Int /\ now <= clock /\ clock <= now + MaxAge /\ clock' = clock
    BY <2>0 DEF Moment
  <2>2. \/ throttle'[s] = row /\ lockedAt'[s] = lockedAt[s]
        \/ Clearable(row, now) /\ lockedAt'[s] = lockedAt[s]
        \/ /\ throttle'[s] = WithFailure(row, now) /\ ReachesLimit(row, now)
           /\ lockedAt'[s] = clock
        \/ /\ throttle'[s] = WithFailure(row, now) /\ ~ReachesLimit(row, now)
           /\ lockedAt'[s] = lockedAt[s]
    BY <1>4, CommitEffect
  <2>3. row.until \in Int
    BY <1>1
  <2> HIDE DEF now
  <2> QED BY <1>1, <1>2, <2>1, <2>2, <2>3 DEF Clearable, WithFailure
<1> QED BY <1>3, <1>4, OnlyCommits

\* Nobody gets past the check of a scope before its lock has been served.
THEOREM LocksAreServed == Spec => LockoutIsServed
<1> DEFINE Past(l, s) == /\ pc[l] = "check" /\ s \notin done[l]
                         /\ (s \in done'[l] \/ pc'[l] = "verify")
           Served(s) == lockedAt[s] = Never \/ clock >= lockedAt[s] + Lockout - MaxAge
\* The step is the check of that scope, which found no lock in force.
<1>1. ASSUME TypeOK, AccountFirst, [Next]_vars, NEW l \in Login, NEW s \in ScopesOf(l),
             Past(l, s)
      PROVE  ~InForce(throttle[s], clock)
  <2>1. CASE Check(l)
    <3>1. PICK r \in Scope : /\ IsNext(l, r) /\ ~InForce(throttle[r], clock)
                             /\ Advance(l, r, "check", "verify")
      BY <2>1 DEF Check
    <3>2. "check" \in Looping /\ "verify" \in PCs
      BY DEF Looping, PCs
    <3>3. \/ /\ r = req[l].account /\ pc'[l] = "check" /\ done'[l] = {r}
          \/ /\ r = req[l].address /\ pc'[l] = "verify" /\ done'[l] = {}
             /\ done[l] = {req[l].account}
      BY <1>1, <3>1, <3>2, LoopStep
    <3>4. s = r
      BY <1>1, <3>3 DEF ScopesOf
    <3> QED BY <3>1, <3>4
  <2>2. CASE ~Check(l)
    <3>1. ASSUME NEW k \in Login, k # l,
                 Begin(k) \/ Statement(k) \/ Crash(k)
          PROVE  pc'[l] = pc[l] /\ done'[l] = done[l]
      <4>1. ASSUME Check(k) \/ RecordFailure(k) \/ ClearOnSuccess(k) \/ NothingToClear(k)
            PROVE  pc'[l] = pc[l] /\ done'[l] = done[l]
        BY <1>1, <3>1, <4>1 DEF TypeOK, Check, RecordFailure, ClearOnSuccess, NothingToClear, Advance
      <4>2. ASSUME RejectLocked(k) \/ Commit(k) \/ Crash(k)
            PROVE  pc'[l] = pc[l] /\ done'[l] = done[l]
        BY <1>1, <3>1, <4>2 DEF TypeOK, RejectLocked, Commit, Crash, End
      <4>3. ASSUME Begin(k) \/ Verify(k) PROVE pc'[l] = pc[l] /\ done'[l] = done[l]
        BY <1>1, <3>1, <4>3 DEF TypeOK, Begin, Verify
      <4> QED BY <3>1, <4>1, <4>2, <4>3 DEF Statement
    <3>2. ASSUME RejectLocked(l) \/ Crash(l)
          PROVE  pc'[l] = "idle" /\ done'[l] = {}
      <4>1. End(l) /\ pc \in [Login -> PCs] /\ done \in [Login -> SUBSET Scope]
        BY <1>1, <3>2 DEF TypeOK, RejectLocked, Crash
      <4> QED BY <4>1 DEF End
    <3>3. ~(Begin(l) \/ Verify(l) \/ RecordFailure(l) \/ ClearOnSuccess(l)
             \/ NothingToClear(l) \/ Commit(l))
      BY <1>1 DEF Begin, Verify, RecordFailure, ClearOnSuccess, NothingToClear, Commit
    <3>4. ASSUME Tick \/ UNCHANGED vars PROVE pc' = pc /\ done' = done
      BY <3>4 DEF Tick, vars
    <3>5. \/ \E k \in Login : k # l /\ (Begin(k) \/ Statement(k) \/ Crash(k))
          \/ RejectLocked(l) \/ Crash(l) \/ Tick \/ UNCHANGED vars
      BY <1>1, <2>2, <3>3 DEF Next, Statement, Finished
    <3> QED BY <1>1, <3>1, <3>2, <3>4, <3>5
  <2> QED BY <2>1, <2>2
<1>2. ASSUME TypeOK, LocksStand, NEW s \in Scope, ~InForce(throttle[s], clock)
      PROVE  Served(s)
  <2>1. /\ clock \in Int /\ Lockout \in Nat /\ MaxAge \in Nat
        /\ lockedAt[s] \in Int /\ throttle[s].until \in Int
    BY <1>2, ConstantsAssumption, Numbers
  <2> QED BY <1>2, <2>1 DEF LocksStand, InForce
<1>3. TypeOK /\ ControlInv /\ LocksStand /\ [Next]_vars
        => \A l \in Login : \A s \in ScopesOf(l) : Past(l, s) => Served(s)
  <2> SUFFICES ASSUME TypeOK, ControlInv, LocksStand, [Next]_vars, NEW l \in Login,
                      NEW s \in ScopesOf(l), Past(l, s)
               PROVE  Served(s)
    OBVIOUS
  <2>1. s \in Scope
    BY ScopesDiffer
  <2> HIDE DEF Past, Served
  <2> QED BY <1>1, <1>2, <2>1 DEF ControlInv
<1>4. TypeOK /\ ControlInv /\ LocksStand /\ [Next]_vars
        => [\A l \in Login : \A s \in ScopesOf(l) : Past(l, s) => Served(s)]_vars
  BY <1>3
<1>5. TypeOK /\ ControlInv /\ LocksStand /\ [Next]_vars => LocksStand'
  BY LocksStep
<1> QED BY <1>4, <1>5, LocksInit, ControlHolds, PTL DEF Spec, LockoutIsServed

-----------------------------------------------------------------------------
(* Attempts *)

LEMMA MomentsAreFinite ==
  ASSUME NEW m
  PROVE  /\ IsFiniteSet(Moment) /\ Moment \in SUBSET Nat
         /\ From(m) \in SUBSET Moment /\ IsFiniteSet(From(m))
<1>1. 0 \in Int /\ Horizon \in Int
  BY ConstantsAssumption
<1>2. IsFiniteSet(0 .. Horizon)
  BY <1>1, FS_Interval
<1>3. IsFiniteSet(Moment) /\ Moment \in SUBSET Nat
  BY <1>1, <1>2 DEF Moment
<1>4. From(m) \in SUBSET Moment
  BY DEF From
<1> QED BY <1>3, <1>4, FS_Subset

LEMMA CountedType ==
  ASSUME TypeOK, NEW s \in Scope
  PROVE  Counted(s) \in Nat /\ Counted(s) <= MaxAttempts - 1
<1>1. throttle[s].count \in Nat /\ MaxAttempts \in Nat /\ MaxAttempts >= 2
  BY Numbers, ConstantsAssumption
<1> QED BY <1>1 DEF Counted

\* How a recorded failure moves the sums over the history of a scope.
LEMMA OneMoreMiss ==
  ASSUME TypeOK, NEW s \in Scope, NEW now \in Moment, NEW S \in SUBSET Moment,
         misses'[s] = [misses[s] EXCEPT ![now] = @ + 1]
  PROVE  /\ Total(S, misses[s]) \in Nat
         /\ Total(S, misses'[s]) = IF now \in S THEN Total(S, misses[s]) + 1
                                   ELSE Total(S, misses[s])
<1>1. misses[s] \in [Moment -> Nat]
  BY DEF TypeOK
<1>2. IsFiniteSet(S)
  BY MomentsAreFinite, FS_Subset
<1>3. \A k \in S : misses[s][k] \in Nat
  BY <1>1
<1>4. /\ \A k \in S \ {now} : misses'[s][k] = misses[s][k]
      /\ misses'[s][now] = misses[s][now] + 1
  BY <1>1
<1>5. Total(S, misses[s]) \in Nat
  BY <1>2, <1>3, TotalType
<1>6. Total(S, misses'[s]) = IF now \in S THEN Total(S, misses[s]) + 1
                             ELSE Total(S, misses[s])
  <2> DEFINE before == misses[s]
             after == misses'[s]
  <2>1. /\ \A k \in S : before[k] \in Nat
        /\ \A k \in S \ {now} : after[k] = before[k]
        /\ now \in S => after[now] = before[now] + 1
    BY <1>3, <1>4
  <2> HIDE DEF before, after
  <2>2. Total(S, after) = IF now \in S THEN Total(S, before) + 1 ELSE Total(S, before)
    BY <1>2, <2>1, TotalOneMore
  <2> QED BY <2>2 DEF before, after
<1> QED BY <1>5, <1>6

LEMMA WindowsInit == Init => WindowsInv
<1> SUFFICES ASSUME Init, NEW s \in Scope
             PROVE  /\ throttle[s].start <= clock
                    /\ \A k \in Moment : misses[s][k] = 0
                    /\ Counted(s) = 0
                    /\ \A m \in Int : Total(From(m), misses[s]) = 0
  BY ConstantsAssumption DEF WindowsInv
<1>1. throttle[s] = NoRow /\ clock = 0 /\ \A k \in Moment : misses[s][k] = 0
  BY DEF Init
<1>2. Counted(s) = 0 /\ throttle[s].start <= clock
  BY <1>1, ConstantsAssumption DEF Counted, NoRow, Never
<1>3. ASSUME NEW m \in Int PROVE Total(From(m), misses[s]) = 0
  BY <1>1, TotalOfNothing DEF From
<1> QED BY <1>1, <1>2, <1>3

LEMMA WindowsStep == TypeOK /\ ControlInv /\ WindowsInv /\ [Next]_vars => WindowsInv'
<1> SUFFICES ASSUME TypeOK, ControlInv, WindowsInv, [Next]_vars PROVE WindowsInv'
  OBVIOUS
<1> DEFINE Windows(s) ==
      /\ throttle[s].start <= clock
      /\ throttle[s] = NoRow => \A k \in Moment : misses[s][k] = 0
      /\ \A k \in Moment : k > throttle[s].start + Window => misses[s][k] = 0
      /\ \A m \in Int : m >= throttle[s].start =>
           Total(From(m), misses[s]) <= Counted(s)
      /\ \A m \in Int : m >= throttle[s].start - Window =>
           Total(From(m), misses[s]) <= MaxAttempts - 1 + Counted(s)
<1> SUFFICES ASSUME NEW s \in Scope PROVE Windows(s)'
  BY DEF WindowsInv
<1>0. Windows(s)
  BY DEF WindowsInv
<1>1. /\ MaxAttempts \in Nat /\ MaxAttempts >= 2 /\ Window \in Nat /\ MaxAge \in Nat
      /\ Lockout \in Nat
  BY ConstantsAssumption
<1>2. /\ clock \in Int /\ throttle[s].count \in Nat /\ throttle[s].start \in Int
      /\ throttle[s].until \in Int
  BY Numbers
<1>3. TypeOK'
  BY TypeStep
<1>4. clock' \in Int
  BY <1>3 DEF TypeOK, Moment
<1>5. Moment \in SUBSET Int
  BY DEF Moment
<1>k. ASSUME throttle'[s] = throttle[s], misses'[s] = misses[s], clock <= clock'
      PROVE  Windows(s)'
  <2>1. Counted(s)' = Counted(s)
    BY <1>k DEF Counted
  <2> QED BY <1>0, <1>2, <1>4, <1>k, <2>1
<1>6. ASSUME NEW l \in Login, Commit(l) PROVE Windows(s)'
  <2> DEFINE now == begun[l]
             row == throttle[s]
  <2>1. /\ now \in Moment /\ row \in Row /\ now <= clock /\ clock <= now + MaxAge
        /\ clock' = clock
    BY <1>6, CommitEffect
  <2>2. now \in Int /\ now >= 0
    BY <2>1 DEF Moment
  <2>3. CASE throttle'[s] = row /\ misses'[s] = misses[s]
    BY <1>2, <1>k, <2>1, <2>3
  <2>4. CASE /\ throttle'[s] = Cleared(now)
             /\ misses'[s] = [m \in Moment |-> 0]
    <3>1. \A k \in Moment : misses'[s][k] = 0
      BY <2>4
    <3>2. throttle'[s].start = now /\ throttle'[s].count = 0
      BY <2>4 DEF Cleared
    <3>3. Counted(s)' = 0
      BY <1>1, <3>2 DEF Counted
    <3>4. \A m \in Int : Total(From(m), misses'[s]) = 0
      BY <3>1, TotalOfNothing DEF From
    <3> HIDE DEF now
    <3> QED BY <1>1, <2>1, <3>1, <3>2, <3>3, <3>4
  <2>5. CASE /\ throttle'[s] = WithFailure(row, now) /\ ReachesLimit(row, now)
             /\ misses'[s] = misses[s]
    <3> HIDE DEF now
    <3>1. ~(row = NoRow \/ Elapsed(row, now))
      BY <1>1, <2>5 DEF ReachesLimit, nextCount
    <3>2. throttle'[s].start = row.start /\ throttle'[s].count = row.count + 1
      BY <2>5, <3>1 DEF WithFailure, nextCount
    <3>3. throttle'[s].count >= MaxAttempts
      BY <2>5 DEF WithFailure, ReachesLimit
    <3>4. Counted(s)' = MaxAttempts - 1
      BY <1>1, <1>2, <3>2, <3>3 DEF Counted
    <3>5. Counted(s) \in Nat /\ Counted(s) <= Counted(s)'
      BY <3>4, CountedType
    <3>6. \A m \in Int : Total(From(m), misses[s]) \in Nat
      <4> TAKE m \in Int
      <4>1. \A k \in From(m) : misses[s][k] \in Nat
        BY DEF TypeOK, From
      <4> QED BY <4>1, MomentsAreFinite, TotalType
    <3>7. throttle'[s] # NoRow
      BY <1>1, <3>3 DEF NoRow
    <3> QED BY <1>0, <1>1, <1>2, <2>1, <2>5, <3>2, <3>4, <3>5, <3>6, <3>7
  <2>6. CASE /\ throttle'[s] = WithFailure(row, now) /\ ~ReachesLimit(row, now)
             /\ misses'[s] = [misses[s] EXCEPT ![now] = @ + 1]
    <3> HIDE DEF now
    <3>1. ASSUME NEW m \in Int
          PROVE  /\ Total(From(m), misses[s]) \in Nat
                 /\ Total(From(m), misses'[s]) \in Nat
                 /\ Total(From(m), misses'[s]) <= Total(From(m), misses[s]) + 1
      BY <2>1, <2>6, MomentsAreFinite, OneMoreMiss
    <3>2. \A k \in Moment \ {now} : misses'[s][k] = misses[s][k]
      BY <2>6 DEF TypeOK
    <3>3. throttle'[s] # NoRow
      BY <1>2, <2>1, <2>6, WrittenType
    <3>4. Counted(s) \in Nat /\ Counted(s) <= MaxAttempts - 1
      BY CountedType
    \* The first failure of a window: the row counts it alone.
    <3>5. CASE row = NoRow \/ Elapsed(row, now)
      <4>1. throttle'[s].start = now /\ throttle'[s].count = 1
        BY <2>6, <3>5 DEF WithFailure, nextCount
      <4>2. Counted(s)' = 1
        BY <1>1, <4>1 DEF Counted
      <4>3. ASSUME NEW k \in Moment, k >= now PROVE misses[s][k] = 0
        <5>1. CASE row = NoRow
          BY <1>0, <5>1
        <5>2. CASE Elapsed(row, now)
          <6>1. k > row.start + Window
            BY <1>1, <1>2, <1>5, <2>2, <4>3, <5>2 DEF Elapsed
          <6> QED BY <1>0, <6>1
        <5> QED BY <3>5, <5>1, <5>2
      <4>4. ASSUME NEW k \in Moment, k > now PROVE misses'[s][k] = 0
        <5>1. k >= now /\ k # now
          BY <1>5, <2>2, <4>4
        <5> QED BY <3>2, <4>3, <5>1
      <4>5. ASSUME NEW m \in Int, m >= now PROVE Total(From(m), misses'[s]) <= 1
        <5>1. \A k \in From(m) : misses[s][k] = 0
          BY <1>5, <2>2, <4>3, <4>5 DEF From
        <5>2. Total(From(m), misses[s]) = 0
          BY <5>1, TotalOfNothing
        <5> QED BY <3>1, <5>2
      <4>6. ASSUME NEW m \in Int, m >= now - Window
            PROVE  Total(From(m), misses'[s]) <= MaxAttempts - 1 + 1
        <5>1. CASE row = NoRow
          <6>1. \A k \in From(m) : misses[s][k] = 0
            BY <1>0, <5>1 DEF From
          <6>2. Total(From(m), misses[s]) = 0
            BY <6>1, TotalOfNothing
          <6> QED BY <1>1, <3>1, <6>2
        <5>2. CASE Elapsed(row, now)
          <6>1. m >= row.start
            BY <1>1, <1>2, <2>2, <4>6, <5>2 DEF Elapsed
          <6>2. Total(From(m), misses[s]) <= Counted(s)
            BY <1>0, <6>1
          <6> QED BY <1>1, <3>1, <3>4, <6>2
        <5> QED BY <3>5, <5>1, <5>2
      <4>7. \A k \in Moment : k > now + Window => misses'[s][k] = 0
        BY <1>1, <1>5, <2>2, <4>4
      <4> QED BY <2>1, <3>3, <4>1, <4>2, <4>5, <4>6, <4>7
    \* One more in the window: the row counts it as the history does.
    <3>6. CASE ~(row = NoRow \/ Elapsed(row, now))
      <4>1. throttle'[s].start = row.start /\ throttle'[s].count = row.count + 1
        BY <2>6, <3>6 DEF WithFailure, nextCount
      <4>2. row.count + 1 < MaxAttempts
        BY <1>1, <1>2, <2>6, <3>6 DEF ReachesLimit, nextCount
      <4>3. Counted(s)' = Counted(s) + 1
        BY <1>1, <1>2, <4>1, <4>2 DEF Counted
      <4>4. now <= row.start + Window
        BY <1>1, <1>2, <2>2, <3>6 DEF Elapsed
      <4>5. ASSUME NEW k \in Moment, k > row.start + Window PROVE misses'[s][k] = 0
        <5>1. misses[s][k] = 0
          BY <1>0, <4>5
        <5>2. k # now
          BY <1>1, <1>2, <1>5, <2>2, <4>4, <4>5
        <5> QED BY <3>2, <5>1, <5>2
      <4>6. ASSUME NEW m \in Int, m >= row.start
            PROVE  Total(From(m), misses'[s]) <= Counted(s) + 1
        <5>1. Total(From(m), misses[s]) <= Counted(s)
          BY <1>0, <4>6
        <5> QED BY <3>1, <3>4, <5>1
      <4>7. ASSUME NEW m \in Int, m >= row.start - Window
            PROVE  Total(From(m), misses'[s]) <= MaxAttempts - 1 + (Counted(s) + 1)
        <5>1. Total(From(m), misses[s]) <= MaxAttempts - 1 + Counted(s)
          BY <1>0, <4>7
        <5> QED BY <1>1, <3>1, <3>4, <5>1
      <4> QED BY <1>0, <2>1, <3>3, <4>1, <4>3, <4>5, <4>6, <4>7
    <3> QED BY <3>5, <3>6
  <2> HIDE DEF Windows
  <2> QED BY <1>6, CommitEffect, <2>3, <2>4, <2>5, <2>6
<1> HIDE DEF Windows
<1> QED BY <1>k, <1>6, OnlyCommits

LEMMA AttemptsInit == Init => AttemptsBounded
<1> SUFFICES ASSUME Init, NEW s \in Scope, NEW m \in Moment
             PROVE  Total({k \in Moment : m <= k /\ k <= m + Window - MaxAge}, misses[s])
                      <= 2 * (MaxAttempts - 1)
  BY DEF AttemptsBounded
<1> DEFINE S == {k \in Moment : m <= k /\ k <= m + Window - MaxAge}
<1>1. \A k \in S : misses[s][k] = 0
  BY DEF Init
<1> HIDE DEF S
<1>2. Total(S, misses[s]) = 0
  BY <1>1, TotalOfNothing
<1>3. 0 <= 2 * (MaxAttempts - 1)
  BY ConstantsAssumption
<1> QED BY <1>2, <1>3 DEF S

LEMMA AttemptsStep ==
  TypeOK /\ ControlInv /\ WindowsInv' /\ AttemptsBounded /\ [Next]_vars => AttemptsBounded'
<1> SUFFICES ASSUME TypeOK, ControlInv, WindowsInv', AttemptsBounded, [Next]_vars,
                    NEW s \in Scope, NEW m \in Moment
             PROVE  Total({k \in Moment : m <= k /\ k <= m + Window - MaxAge}, misses'[s])
                      <= 2 * (MaxAttempts - 1)
  BY DEF AttemptsBounded
<1> DEFINE S == {k \in Moment : m <= k /\ k <= m + Window - MaxAge}
<1>0. Total(S, misses[s]) <= 2 * (MaxAttempts - 1)
  BY DEF AttemptsBounded
<1>1. /\ MaxAttempts \in Nat /\ MaxAttempts >= 2 /\ Window \in Nat /\ MaxAge \in Nat
      /\ m \in Int
  BY ConstantsAssumption DEF Moment
<1>2. S \in SUBSET Moment /\ S \in SUBSET From(m)
  BY DEF From
<1>3. ASSUME NEW l \in Login, Commit(l)
      PROVE  Total(S, misses'[s]) <= 2 * (MaxAttempts - 1)
  <2> DEFINE now == begun[l]
  <2>1. now \in Moment /\ clock <= now + MaxAge /\ clock' = clock
    BY <1>3, CommitEffect
  <2>2. \/ misses'[s] = misses[s]
        \/ misses'[s] = [k \in Moment |-> 0]
        \/ misses'[s] = [misses[s] EXCEPT ![now] = @ + 1]
    BY <1>3, CommitEffect
  <2>3. CASE misses'[s] = misses[s]
    BY <1>0, <2>3
  <2>4. CASE misses'[s] = [k \in Moment |-> 0]
    <3>1. \A k \in S : misses'[s][k] = 0
      BY <1>2, <2>4
    <3> HIDE DEF S
    <3>2. Total(S, misses'[s]) = 0
      BY <3>1, TotalOfNothing
    <3> QED BY <1>1, <3>2
  <2>5. CASE misses'[s] = [misses[s] EXCEPT ![now] = @ + 1] /\ now \notin S
    <3> HIDE DEF S, now
    <3>1. Total(S, misses'[s]) = Total(S, misses[s])
      BY <1>2, <2>1, <2>5, OneMoreMiss
    <3> QED BY <1>0, <3>1
  \* The window of the row reaches no further back than the span that is looked
  \* at, so it and the one before it bound the sum.
  <2>6. CASE now \in S
    <3>1. TypeOK'
      BY TypeStep
    <3>2. /\ throttle'[s].start \in Int /\ clock \in Int /\ now \in Int
          /\ Counted(s)' \in Nat /\ Counted(s)' <= MaxAttempts - 1
      <4>1. throttle'[s] \in Row
        BY <3>1 DEF TypeOK
      <4>2. throttle'[s].count \in Nat /\ throttle'[s].start \in Int
        BY <4>1 DEF Row
      <4>3. clock \in Int /\ now \in Int
        BY <2>1 DEF TypeOK, Moment
      <4>4. Counted(s)' \in Nat /\ Counted(s)' <= MaxAttempts - 1
        BY <1>1, <4>2 DEF Counted
      <4> QED BY <4>2, <4>3, <4>4
    <3>3. /\ throttle'[s].start <= clock'
          /\ m >= throttle'[s].start - Window =>
               Total(From(m), misses'[s]) <= MaxAttempts - 1 + Counted(s)'
      BY <1>1 DEF WindowsInv
    <3>4. now <= m + Window - MaxAge
      BY <2>6
    <3> HIDE DEF now
    <3>5. m >= throttle'[s].start - Window
      BY <1>1, <2>1, <3>2, <3>3, <3>4
    <3>6. \A k \in From(m) : misses'[s][k] \in Nat
      BY <3>1 DEF TypeOK, From
    <3> HIDE DEF S
    <3>7. Total(S, misses'[s]) <= Total(From(m), misses'[s])
      BY <1>2, <3>6, MomentsAreFinite, TotalMonotone
    <3>8. Total(From(m), misses'[s]) \in Nat
      BY <3>6, MomentsAreFinite, TotalType
    <3>9. Total(S, misses'[s]) \in Nat
      <4>1. IsFiniteSet(S)
        BY <1>2, MomentsAreFinite, FS_Subset
      <4> QED BY <1>2, <3>6, <4>1, TotalType
    <3> QED BY <1>1, <3>2, <3>3, <3>5, <3>7, <3>8, <3>9
  <2> HIDE DEF S
  <2> QED BY <2>2, <2>3, <2>4, <2>5, <2>6
<1>4. ASSUME misses' = misses PROVE Total(S, misses'[s]) <= 2 * (MaxAttempts - 1)
  BY <1>0, <1>4
<1> HIDE DEF S
<1>5. (\E l \in Login : Commit(l)) \/ misses' = misses
  BY OnlyCommits
<1>6. Total(S, misses'[s]) <= 2 * (MaxAttempts - 1)
  BY <1>3, <1>4, <1>5
<1> QED BY <1>6 DEF S

\* The committed failures that left a scope open stay below two limits in any
\* span as long as a window, less what a login may lag behind.
THEOREM AttemptsAreBounded == Spec => []AttemptsBounded
<1>1. TypeOK /\ ControlInv /\ WindowsInv /\ [Next]_vars => WindowsInv'
  BY WindowsStep
<1>2. Spec => []WindowsInv
  BY <1>1, WindowsInit, ControlHolds, PTL DEF Spec
<1>3. TypeOK /\ ControlInv /\ WindowsInv' /\ AttemptsBounded /\ [Next]_vars
        => AttemptsBounded'
  BY AttemptsStep
<1> QED BY <1>2, <1>3, AttemptsInit, ControlHolds, PTL DEF Spec

-----------------------------------------------------------------------------
(* The browser: the invariant *)

\* A query, by its parts.
ARows(rows) ==
  rows = [data |-> rows.data, asked |-> rows.asked, last |-> rows.last,
          failed |-> rows.failed, fetch |-> rows.fetch]

\* The parts of a tab that the steps change.
APage(p) ==
  /\ p = [me |-> p.me, rows |-> p.rows, visit |-> p.visit, panel |-> p.panel,
          pending |-> p.pending, busy |-> p.busy, attempted |-> p.attempted,
          invoice |-> p.invoice, since |-> p.since, gone |-> p.gone]
  /\ ARows(p.rows)
  /\ p.rows.asked \in Nat /\ p.rows.fetch \in Nat /\ p.since \in Nat

ACall(c) ==
  /\ c = [n |-> c.n, tab |-> c.tab, kind |-> c.kind, arg |-> c.arg, key |-> c.key,
          sid |-> c.sid, csrf |-> c.csrf, status |-> c.status, body |-> c.body,
          writes |-> c.writes, heard |-> c.heard]
  /\ c.n \in Nat \ {0} /\ c.tab \in Tab
  /\ c.kind \in {"me", "order", "login", "logout", "switch"} \cup Commands
  /\ c.kind = "invoice" => c.key = <<"invoice", c.arg>>
  /\ c.kind = "login" => c.arg \in User \cup {None}

ASession == [user : User \cup {None}, company : Company \cup {None}, live : BOOLEAN]

BrowserShape ==
  /\ sessions \in [Sid -> ASession]
  /\ \A s \in Sid : sessions[s].live => sessions[s].user \in User
  /\ order = [status |-> order.status, invoices |-> order.invoices]
  /\ DOMAIN jar = {"sid", "csrf"}
  /\ \A c \in calls : ACall(c)
  /\ page = [t \in Tab |-> page[t]]
  /\ \A t \in Tab : APage(page[t])
  /\ sent \in Nat

\* The order that a tab has, or waits for, was asked for after it last left somebody.
Fresh(p, n) ==
  /\ p.since <= n
  /\ p.rows.fetch # 0 => p.rows.fetch > p.since
  /\ p.rows.data # None => p.rows.asked > p.since

RowsFresh == \A t \in Tab : Fresh(page[t], sent)

\* A session id that the browser was handed is that of a session that was opened.
Known(sid) == sid = None \/ (sid \in Sid /\ sessions[sid].user \in User)

CookiesKnown(writes) ==
  /\ DOMAIN writes \subseteq {"sid", "csrf"}
  /\ "sid" \in DOMAIN writes => Known(writes["sid"])

SidsKnown ==
  /\ Known(jar["sid"])
  /\ \A c \in calls : Known(c.sid) /\ CookiesKnown(c.writes)

\* A session of which a sign-out was answered, or is shown, is over.
IsOver(sid) == Known(sid) /\ (sid # None => ~sessions[sid].live)

SignOutsOver ==
  /\ \A c \in calls : c.kind = "logout" /\ c.status = 204 => IsOver(c.sid)
  /\ \A t \in Tab : \A s \in page[t].gone : IsOver(s)

\* An invoice is on record under the person and the visit it was raised by and from.
InvoicesRecorded ==
  \A i \in order.invoices : \E r \in records :
    r.id = [user |-> i.by, key |-> <<"invoice", i.visit>>]

BrowserInv ==
  /\ BrowserShape /\ RowsFresh /\ SidsKnown /\ SignOutsOver
  /\ InvoicesRecorded /\ OneInvoicePerVisit

\* A step of a tab that moves nothing the invariant speaks of.
Alike(q, p) == APage(q) /\ q.rows = p.rows /\ q.since = p.since /\ q.gone = p.gone

LEMMA PageParts ==
  ASSUME NEW p, APage(p), NEW x
  PROVE  /\ Alike(p, p)
         /\ Alike([p EXCEPT !.me = x], p)
         /\ Alike([p EXCEPT !.visit = x], p)
         /\ Alike([p EXCEPT !.panel = x], p)
         /\ Alike([p EXCEPT !.pending = x], p)
         /\ Alike([p EXCEPT !.busy = x], p)
         /\ Alike([p EXCEPT !.attempted = x], p)
         /\ Alike([p EXCEPT !.invoice = x], p)
BY DEF Alike, APage

LEMMA AlikeTwice ==
  ASSUME NEW p, NEW q, NEW r, Alike(p, q), Alike(q, r)
  PROVE  Alike(p, r)
BY DEF Alike

LEMMA BrowserInitInv == BrowserInit => BrowserInv
<1> SUFFICES ASSUME BrowserInit PROVE BrowserInv
  OBVIOUS
<1>1. APage(NoPage) /\ Fresh(NoPage, 0) /\ NoPage.gone = {}
  BY DEF APage, ARows, Fresh, NoPage, NoQuery
<1>2. /\ order = [status |-> order.status, invoices |-> order.invoices] /\ order.invoices = {}
      /\ calls = {} /\ sent = 0
  BY DEF BrowserInit
<1>3. Unused \in ASession /\ ~Unused.live
  BY DEF Unused, ASession
<1>4. CASE /\ sessions = [s \in Sid |-> Unused]
           /\ jar = [sid |-> None, csrf |-> None]
           /\ page = [t \in Tab |-> NoPage]
  <2>1. BrowserShape /\ RowsFresh
    BY <1>1, <1>2, <1>3, <1>4 DEF BrowserShape, RowsFresh
  <2> QED BY <1>1, <1>2, <1>4, <2>1
          DEF BrowserInv, SidsKnown, Known, SignOutsOver, InvoicesRecorded, OneInvoicePerVisit
<1>5. ASSUME NEW u \in AtWork, NEW c \in Companies[u],
             sessions = [s \in Sid |->
               IF s = 1 THEN [user |-> u, company |-> c, live |-> TRUE] ELSE Unused],
             jar = [sid |-> 1, csrf |-> csrfTokenFor(1)],
             page = [t \in Tab |->
               [NoPage EXCEPT !.me.data = [sid |-> 1, user |-> u, company |-> c]]]
      PROVE  BrowserInv
  <2> DEFINE first == [NoPage EXCEPT !.me.data = [sid |-> 1, user |-> u, company |-> c]]
             opened == [user |-> u, company |-> c, live |-> TRUE]
  <2>1. APage(first) /\ Fresh(first, 0) /\ first.gone = {}
    <3>1. first = [NoPage EXCEPT !.me = [NewSession EXCEPT !.data = [sid |-> 1, user |-> u, company |-> c]]]
      BY DEF NoPage
    <3>2. Alike(first, NoPage)
      BY <1>1, <3>1, PageParts
    <3> QED BY <1>1, <3>2 DEF Alike, Fresh
  <2>2. u \in User /\ c \in Company
    BY BrowserAssumption
  <2>3. opened \in ASession /\ opened.user = u /\ opened.live
    BY <2>2 DEF ASession
  <2>4. page = [t \in Tab |-> first]
    BY <1>5
  <2>5. sessions = [s \in Sid |-> IF s = 1 THEN opened ELSE Unused]
    BY <1>5
  <2> HIDE DEF first, opened
  <2>6. BrowserShape /\ RowsFresh
    <3>1. sessions \in [Sid -> ASession]
      BY <1>3, <2>3, <2>5
    <3>2. \A s \in Sid : sessions[s].live => sessions[s].user \in User
      BY <1>3, <2>2, <2>3, <2>5
    <3>3. DOMAIN jar = {"sid", "csrf"}
      BY <1>5
    <3> QED BY <1>2, <2>1, <2>4, <3>1, <3>2, <3>3 DEF BrowserShape, RowsFresh
  <2>7. SidsKnown
    BY <1>2, <1>5, <2>2, <2>3, <2>5, BrowserAssumption DEF SidsKnown, Known, Sid
  <2> QED BY <1>2, <2>1, <2>4, <2>6, <2>7
          DEF BrowserInv, SignOutsOver, InvoicesRecorded, OneInvoicePerVisit
<1> QED BY <1>4, <1>5 DEF BrowserInit

-----------------------------------------------------------------------------
(* The browser: what a tab makes of an answer *)

LEMMA RenderedAlike ==
  ASSUME NEW t, NEW p, APage(p)
  PROVE  Alike(Rendered(t, p), p)
<1> DEFINE same == View(p) = View(page[t])
           open == same /\ p.visit # 0
           p1 == [p EXCEPT !.visit = IF open THEN @ ELSE 0]
           p2 == [p1 EXCEPT !.panel = IF open THEN @ ELSE 0]
           p3 == [p2 EXCEPT !.pending = IF open THEN @ ELSE NoPage.pending]
           p4 == [p3 EXCEPT !.busy = IF same THEN @ ELSE 0]
           p5 == [p4 EXCEPT !.attempted = same /\ @]
<1>1. Rendered(t, p) = p5
  BY DEF Rendered
<1>2. Alike(p1, p)
  BY PageParts
<1> HIDE DEF p1
<1>3. Alike(p2, p1)
  <2>1. APage(p1)
    BY <1>2 DEF Alike
  <2> QED BY <2>1, PageParts
<1> HIDE DEF p2
<1>4. Alike(p3, p2)
  <2>1. APage(p2)
    BY <1>3 DEF Alike
  <2> QED BY <2>1, PageParts
<1> HIDE DEF p3
<1>5. Alike(p4, p3)
  <2>1. APage(p3)
    BY <1>4 DEF Alike
  <2> QED BY <2>1, PageParts
<1> HIDE DEF p4
<1>6. Alike(p5, p4)
  <2>1. APage(p4)
    BY <1>5 DEF Alike
  <2> QED BY <2>1, PageParts
<1> HIDE DEF p5
<1> QED BY <1>1, <1>2, <1>3, <1>4, <1>5, <1>6 DEF Alike

\* A tab that took an answer: what it shows is still fresh, and what it was told is
\* over is what the answer said.
Taken(q, p, c) ==
  /\ APage(q) /\ Fresh(q, sent)
  /\ \/ q.gone = p.gone
     \/ q.gone = p.gone \cup {c.sid} /\ c.kind = "logout" /\ c.status = 204

LEMMA AlikeTaken ==
  ASSUME NEW p, NEW q, NEW c, Fresh(p, sent), Alike(q, p)
  PROVE  Taken(q, p, c)
BY DEF Alike, Taken, Fresh

LEMMA RowsParts ==
  ASSUME NEW p, APage(p), NEW rows, ARows(rows), rows.asked \in Nat, rows.fetch \in Nat
  PROVE  /\ APage([p EXCEPT !.rows = rows]) /\ [p EXCEPT !.rows = rows].rows = rows
         /\ [p EXCEPT !.rows = rows].since = p.since /\ [p EXCEPT !.rows = rows].gone = p.gone
BY DEF APage, ARows

LEMMA RowsFailed ==
  ASSUME NEW rows, ARows(rows), NEW x
  PROVE  /\ ARows([rows EXCEPT !.failed = x, !.fetch = 0])
         /\ [rows EXCEPT !.failed = x, !.fetch = 0].data = rows.data
         /\ [rows EXCEPT !.failed = x, !.fetch = 0].asked = rows.asked
         /\ [rows EXCEPT !.failed = x, !.fetch = 0].fetch = 0
<1>1. PICK d, a, l, f, g : rows = [data |-> d, asked |-> a, last |-> l, failed |-> f, fetch |-> g]
  BY DEF ARows
<1>2. [rows EXCEPT !.failed = x] = [data |-> d, asked |-> a, last |-> l, failed |-> x, fetch |-> g]
  BY <1>1
<1>3. [[data |-> d, asked |-> a, last |-> l, failed |-> x, fetch |-> g] EXCEPT !.fetch = 0]
        = [data |-> d, asked |-> a, last |-> l, failed |-> x, fetch |-> 0]
  OBVIOUS
<1>4. [rows EXCEPT !.failed = x, !.fetch = 0]
        = [data |-> d, asked |-> a, last |-> l, failed |-> x, fetch |-> 0]
  BY <1>2, <1>3
<1>5. rows.data = d /\ rows.asked = a
  BY <1>1
<1> QED BY <1>4, <1>5 DEF ARows

LEMMA RowsSet ==
  ASSUME NEW rows, ARows(rows), NEW x, NEW n
  PROVE  /\ ARows(setOrder(rows, x, n))
         /\ rows.data = None => setOrder(rows, x, n).data = None
         /\ setOrder(rows, x, n).asked = rows.asked
         /\ setOrder(rows, x, n).fetch = rows.fetch
<1>1. CASE rows.data = None
  BY <1>1 DEF setOrder
<1>2. CASE rows.data # None
  <2>1. PICK d, a, l, f, g : rows = [data |-> d, asked |-> a, last |-> l, failed |-> f, fetch |-> g]
    BY DEF ARows
  <2>2. [rows EXCEPT !.data = x] = [data |-> x, asked |-> a, last |-> l, failed |-> f, fetch |-> g]
    BY <2>1
  <2>3. [[data |-> x, asked |-> a, last |-> l, failed |-> f, fetch |-> g] EXCEPT !.last = n]
          = [data |-> x, asked |-> a, last |-> n, failed |-> f, fetch |-> g]
    OBVIOUS
  <2>4. \A y : [[data |-> x, asked |-> a, last |-> n, failed |-> f, fetch |-> g] EXCEPT !.failed = y]
                = [data |-> x, asked |-> a, last |-> n, failed |-> y, fetch |-> g]
    OBVIOUS
  <2>5. PICK y : setOrder(rows, x, n) = [[[rows EXCEPT !.data = x] EXCEPT !.last = n] EXCEPT !.failed = y]
    BY <1>2 DEF setOrder
  <2>6. setOrder(rows, x, n) = [data |-> x, asked |-> a, last |-> n, failed |-> y, fetch |-> g]
    BY <2>2, <2>3, <2>4, <2>5
  <2> QED BY <1>2, <2>1, <2>6 DEF ARows
<1> QED BY <1>1, <1>2

LEMMA RowsFetch ==
  ASSUME NEW rows, ARows(rows), NEW y
  PROVE  /\ ARows([rows EXCEPT !.fetch = y])
         /\ [rows EXCEPT !.fetch = y].data = rows.data
         /\ [rows EXCEPT !.fetch = y].asked = rows.asked
         /\ [rows EXCEPT !.fetch = y].fetch = y
<1>1. PICK d, a, l, f, g : rows = [data |-> d, asked |-> a, last |-> l, failed |-> f, fetch |-> g]
  BY DEF ARows
<1>2. [rows EXCEPT !.fetch = y] = [data |-> d, asked |-> a, last |-> l, failed |-> f, fetch |-> y]
  BY <1>1
<1> QED BY <1>1, <1>2 DEF ARows

LEMMA OrderTaken ==
  ASSUME NEW p, APage(p), Fresh(p, sent), NEW c, c.n \in Nat \ {0}, sent \in Nat
  PROVE  Taken(orderAnswered(p, c), p, c)
<1>1. CASE p.rows.fetch # c.n
  BY <1>1, PageParts, AlikeTaken DEF orderAnswered
<1>2. CASE p.rows.fetch = c.n /\ c.status = 200
  <2> DEFINE rows == [data |-> c.body.status, asked |-> c.n, last |-> c.n,
                      failed |-> FALSE, fetch |-> 0]
             q == [p EXCEPT !.rows = rows]
  <2>1. orderAnswered(p, c) = q
    BY <1>2 DEF orderAnswered
  <2>2. rows.asked = c.n /\ rows.fetch = 0 /\ ARows(rows) /\ rows.asked \in Nat /\ rows.fetch \in Nat
    BY DEF ARows
  <2> HIDE DEF rows
  <2>3. APage(q) /\ q.rows = rows /\ q.since = p.since /\ q.gone = p.gone
    BY <2>2, RowsParts
  <2> HIDE DEF q
  <2> QED BY <1>2, <2>1, <2>2, <2>3 DEF Taken, Fresh
<1>3. CASE p.rows.fetch = c.n /\ c.status # 200
  <2>1. PICK x : orderAnswered(p, c) = [p EXCEPT !.rows = [p.rows EXCEPT !.failed = x, !.fetch = 0]]
    <3>1. orderAnswered(p, c) = [p EXCEPT !.rows = [p.rows EXCEPT !.failed = TRUE, !.fetch = 0]]
      BY <1>3 DEF orderAnswered, APage
    <3> QED BY <3>1
  <2> DEFINE rows == [p.rows EXCEPT !.failed = x, !.fetch = 0]
             q == [p EXCEPT !.rows = rows]
  <2>2. ARows(p.rows) /\ p.rows.asked \in Nat
    BY DEF APage
  <2>3. rows.data = p.rows.data /\ rows.asked = p.rows.asked /\ rows.fetch = 0 /\ ARows(rows)
    BY <2>2, RowsFailed
  <2> HIDE DEF rows
  <2>4. APage(q) /\ q.rows = rows /\ q.since = p.since /\ q.gone = p.gone
    BY <2>2, <2>3, RowsParts
  <2>5. orderAnswered(p, c) = q
    BY <2>1 DEF rows
  <2> HIDE DEF q
  <2>6. Fresh(q, sent)
    BY <2>3, <2>4 DEF Fresh
  <2> QED BY <2>4, <2>5, <2>6 DEF Taken
<1> QED BY <1>1, <1>2, <1>3

LEMMA LeftTaken ==
  ASSUME NEW p, APage(p), NEW c, NEW me, sent \in Nat
  PROVE  LET q == [setMe(clearDataQueries(p), me) EXCEPT !.since = sent]
         IN  APage(q) /\ Fresh(q, sent) /\ q.gone = p.gone
<1> DEFINE p1 == clearDataQueries(p)
           p2 == setMe(p1, me)
           q == [p2 EXCEPT !.since = sent]
<1>1. APage(p1) /\ p1.rows = NoQuery /\ p1.gone = p.gone
  <2>1. ARows(NoQuery) /\ NoQuery.asked \in Nat /\ NoQuery.fetch \in Nat
    BY DEF ARows, NoQuery
  <2> DEFINE p0 == [p EXCEPT !.rows = NoQuery]
  <2>2. APage(p0) /\ p0.rows = NoQuery /\ p0.gone = p.gone
    BY <2>1, RowsParts
  <2>3. p1 = [p0 EXCEPT !.invoice = 0]
    BY DEF clearDataQueries
  <2> HIDE DEF p0, p1
  <2>4. Alike([p0 EXCEPT !.invoice = 0], p0)
    BY <2>2, PageParts
  <2> QED BY <2>2, <2>3, <2>4 DEF Alike
<1> HIDE DEF p1
<1>2. Alike(p2, p1)
  <2>1. p2 = [p1 EXCEPT !.me = [p1.me EXCEPT !.data = me, !.failed = FALSE]]
    BY <1>1 DEF setMe, APage
  <2> QED BY <1>1, <2>1, PageParts
<1> HIDE DEF p2
<1>3. APage(q) /\ q.rows = NoQuery /\ q.gone = p.gone /\ q.since = sent
  BY <1>1, <1>2 DEF Alike, APage
<1>4. NoQuery.fetch = 0 /\ NoQuery.data = None
  BY DEF NoQuery
<1> HIDE DEF q
<1>5. APage(q) /\ Fresh(q, sent) /\ q.gone = p.gone
  BY <1>3, <1>4 DEF Fresh
<1> QED BY <1>5 DEF q, p2, p1

LEMMA SignOutTaken ==
  ASSUME NEW p, APage(p), Fresh(p, sent), NEW c, c.kind = "logout", sent \in Nat
  PROVE  Taken(signOutAnswered(p, c), p, c)
<1>1. CASE c.status = 204
  <2> DEFINE p1 == [setMe(clearDataQueries(p), Nobody) EXCEPT !.since = sent]
  <2>1. APage(p1) /\ Fresh(p1, sent) /\ p1.gone = p.gone
    BY LeftTaken
  <2>2. signOutAnswered(p, c) = [p1 EXCEPT !.gone = @ \cup {c.sid}]
    BY <1>1 DEF signOutAnswered, SignedOut
  <2> HIDE DEF p1
  <2>3. LET q == [p1 EXCEPT !.gone = @ \cup {c.sid}]
        IN  APage(q) /\ q.rows = p1.rows /\ q.since = p1.since /\ q.gone = p.gone \cup {c.sid}
    BY <2>1 DEF APage
  <2> QED BY <1>1, <2>1, <2>2, <2>3 DEF Taken, Fresh
<1>2. CASE c.status # 204
  BY <1>2, PageParts, AlikeTaken DEF signOutAnswered
<1> QED BY <1>1, <1>2

LEMMA SwitchTaken ==
  ASSUME NEW p, APage(p), Fresh(p, sent), NEW c, sent \in Nat
  PROVE  Taken(switchAnswered(p, c), p, c)
<1> DEFINE p1 == [p EXCEPT !.busy = IF @ = c.n THEN 0 ELSE @]
<1>1. Alike(p1, p)
  BY PageParts
<1>2. switchAnswered(p, c) =
        IF c.status = 200 THEN [setMe(clearDataQueries(p1), c.body) EXCEPT !.since = sent] ELSE p1
  BY DEF switchAnswered
<1> HIDE DEF p1
<1>3. CASE c.status = 200
  BY <1>1, <1>2, <1>3, LeftTaken DEF Alike, Taken
<1>4. CASE c.status # 200
  BY <1>1, <1>2, <1>4, AlikeTaken
<1> QED BY <1>3, <1>4

LEMMA MeAlike ==
  ASSUME NEW p, APage(p), NEW c
  PROVE  Alike([meAnswered(p, c) EXCEPT !.busy = IF @ = c.n THEN 0 ELSE @], p)
<1>1. \E x : meAnswered(p, c) = p \/ meAnswered(p, c) = [p EXCEPT !.me = x]
  <2>1. CASE p.me.fetch # c.n
    BY <2>1 DEF meAnswered
  <2>2. CASE p.me.fetch = c.n /\ c.status = 200
    BY <2>2 DEF meAnswered
  <2>3. CASE p.me.fetch = c.n /\ c.status = 401
    BY <2>3 DEF meAnswered
  <2>4. CASE p.me.fetch = c.n /\ c.status \notin {200, 401}
    <3>1. meAnswered(p, c) = [p EXCEPT !.me = [p.me EXCEPT !.failed = TRUE, !.fetch = 0]]
      BY <2>4 DEF meAnswered, APage
    <3> QED BY <3>1
  <2> QED BY <2>1, <2>2, <2>3, <2>4
<1>2. Alike(meAnswered(p, c), p)
  BY <1>1, PageParts
<1>3. Alike([meAnswered(p, c) EXCEPT !.busy = IF @ = c.n THEN 0 ELSE @], meAnswered(p, c))
  <2>1. APage(meAnswered(p, c))
    BY <1>2 DEF Alike
  <2> QED BY <2>1, PageParts
<1> QED BY <1>2, <1>3, AlikeTwice

LEMMA SignInAlike ==
  ASSUME NEW p, APage(p), NEW c, NEW n
  PROVE  Alike(signInAnswered(p, c, n), p)
<1> DEFINE p1 == [p EXCEPT !.me = [p.me EXCEPT !.fetch = n]]
           p2 == [p1 EXCEPT !.busy = IF @ = c.n THEN n ELSE @]
<1>1. CASE c.status = 204
  <2>1. signInAnswered(p, c, n) = p2
    BY <1>1 DEF signInAnswered, APage
  <2>2. Alike(p1, p)
    BY PageParts
  <2> HIDE DEF p1
  <2>3. Alike(p2, p1)
    <3>1. APage(p1)
      BY <2>2 DEF Alike
    <3> QED BY <3>1, PageParts
  <2> QED BY <2>1, <2>2, <2>3, AlikeTwice
<1>2. CASE c.status # 204
  BY <1>2, PageParts DEF signInAnswered
<1> QED BY <1>1, <1>2

LEMMA CommandTaken ==
  ASSUME NEW p, APage(p), Fresh(p, sent), NEW c, sent \in Nat
  PROVE  Taken(commandAnswered(p, c), p, c)
<1> DEFINE mine == p.pending[c.kind] = c.n
           p1 == [p EXCEPT !.pending = [p.pending EXCEPT ![c.kind] = IF mine THEN 0 ELSE @]]
           rows == setOrder(p1.rows, c.body.status, c.n)
           p2 == [p1 EXCEPT !.rows = rows]
           p3 == [p2 EXCEPT !.panel = IF mine /\ c.kind = "cancel" THEN 0 ELSE @]
           p4 == [p1 EXCEPT !.visit = 0]
           p5 == [p4 EXCEPT !.invoice = c.n]
<1>1. Alike(p1, p)
  BY PageParts
<1>2. p1 = [p EXCEPT !.pending[c.kind] = IF mine THEN 0 ELSE @]
  BY DEF APage
<1>3. commandAnswered(p, c) \in {p1, p3, p5}
  <2>1. CASE c.status # 200
    BY <1>2, <2>1 DEF commandAnswered
  <2>2. CASE c.status = 200 /\ c.kind = "invoice"
    BY <1>2, <2>2 DEF commandAnswered
  <2>3. CASE c.status = 200 /\ c.kind # "invoice"
    BY <1>2, <2>3 DEF commandAnswered
  <2> QED BY <2>1, <2>2, <2>3
<1> HIDE DEF p1
<1>4. APage(p1) /\ ARows(p1.rows) /\ p1.rows.asked \in Nat /\ p1.rows.fetch \in Nat
  BY <1>1 DEF Alike, APage
<1>5. Alike(p5, p)
  <2>1. Alike(p4, p1)
    BY <1>4, PageParts
  <2> HIDE DEF p4
  <2>2. Alike(p5, p4)
    <3>1. APage(p4)
      BY <2>1 DEF Alike
    <3> QED BY <3>1, PageParts
  <2> QED BY <1>1, <2>1, <2>2, AlikeTwice
<1>6. /\ ARows(rows) /\ rows.asked = p.rows.asked /\ rows.fetch = p.rows.fetch
      /\ rows.data # None => p.rows.data # None
  <2>1. p1.rows = p.rows
    BY <1>1 DEF Alike
  <2> QED BY <1>4, <2>1, RowsSet
<1> HIDE DEF rows
<1>7. APage(p2) /\ p2.rows = rows /\ p2.since = p.since /\ p2.gone = p.gone
  <2>1. rows.asked \in Nat /\ rows.fetch \in Nat
    BY <1>1, <1>4, <1>6 DEF Alike
  <2>2. APage(p2) /\ p2.rows = rows /\ p2.since = p1.since /\ p2.gone = p1.gone
    BY <1>4, <1>6, <2>1, RowsParts
  <2> QED BY <1>1, <2>2 DEF Alike
<1> HIDE DEF p2
<1>8. Alike(p3, p2)
  BY <1>7, PageParts
<1> HIDE DEF p3, p5
<1>9. Taken(p3, p, c)
  BY <1>6, <1>7, <1>8 DEF Taken, Fresh, Alike
<1> QED BY <1>1, <1>3, <1>5, <1>9, AlikeTaken

LEMMA SettledTaken ==
  ASSUME BrowserInv, NEW t \in Tab, NEW c, ACall(c)
  PROVE  Taken(Rendered(t, Settled(page[t], c)), page[t], c)
<1> DEFINE p == page[t]
           q == Settled(p, c)
<1>1. APage(p) /\ Fresh(p, sent) /\ sent \in Nat /\ c.n \in Nat \ {0}
  BY DEF BrowserInv, BrowserShape, RowsFresh, ACall
<1> HIDE DEF p
<1>2. Taken(q, p, c)
  <2>1. CASE c.kind = "me"
    <3>1. q = [meAnswered(p, c) EXCEPT !.busy = IF @ = c.n THEN 0 ELSE @]
      BY <2>1 DEF Settled, Commands
    <3> QED BY <1>1, <2>1, <3>1, MeAlike, AlikeTaken
  <2>2. CASE c.kind = "order"
    <3>1. q = orderAnswered(p, c)
      BY <2>2 DEF Settled, Commands
    <3> QED BY <1>1, <2>2, <3>1, OrderTaken
  <2>3. CASE c.kind = "logout"
    <3>1. q = signOutAnswered(p, c)
      BY <2>3 DEF Settled, Commands
    <3> QED BY <1>1, <2>3, <3>1, SignOutTaken
  <2>4. CASE c.kind = "switch"
    <3>1. q = switchAnswered(p, c)
      BY <2>4 DEF Settled, Commands
    <3> QED BY <1>1, <2>4, <3>1, SwitchTaken
  <2>5. CASE c.kind = "login"
    <3>1. q = signInAnswered(p, c, sent + 1)
      BY <2>5 DEF Settled, Commands
    <3> QED BY <1>1, <2>5, <3>1, SignInAlike, AlikeTaken
  <2>6. CASE c.kind \in Commands
    <3>1. q = commandAnswered(p, c)
      BY <2>6 DEF Settled, Commands
    <3> QED BY <1>1, <3>1, CommandTaken
  <2> QED BY <2>1, <2>2, <2>3, <2>4, <2>5, <2>6 DEF ACall
<1> HIDE DEF q
<1>3. Alike(Rendered(t, q), q)
  BY <1>2, RenderedAlike DEF Taken
<1>4. Taken(Rendered(t, q), p, c)
  BY <1>2, <1>3 DEF Taken, Alike, Fresh
<1> QED BY <1>4 DEF p, q

-----------------------------------------------------------------------------
(* The browser: steps *)

\* The sessions of the server: those opened stay so, those that are over stay over.
SessionsMove ==
  /\ sessions' \in [Sid -> ASession]
  /\ \A s \in Sid : /\ sessions'[s].live => sessions'[s].user \in User
                    /\ sessions[s].user \in User =>
                         /\ sessions'[s].user \in User
                         /\ ~sessions[s].live => ~sessions'[s].live

LEMMA StillKnown ==
  ASSUME BrowserShape, SessionsMove \/ sessions' = sessions
  PROVE  /\ BrowserShape => SessionsMove
         /\ \A sid : Known(sid) => Known(sid)'
         /\ \A writes : CookiesKnown(writes) => CookiesKnown(writes)'
         /\ \A sid : IsOver(sid) => IsOver(sid)'
<1>1. SessionsMove
  BY DEF BrowserShape, SessionsMove
<1> QED BY <1>1 DEF SessionsMove, Known, CookiesKnown, IsOver

LEMMA UsersNamed == \A u \in User : u # None
BY BrowserAssumption

\* A step of a tab: what it shows is still fresh, and nothing more is said to be over.
Moved(q, p) == APage(q) /\ Fresh(q, sent') /\ q.gone = p.gone

\* A call that is made now.
NewCall(c) == ACall(c) /\ c.sid = jar["sid"] /\ c.writes = NoCookies /\ c.status = 0

LEMMA AlikeMoved ==
  ASSUME BrowserInv, NEW t \in Tab, NEW q, Alike(q, page[t]), sent' \in {sent, sent + 1}
  PROVE  Moved(q, page[t])
<1>1. APage(page[t]) /\ Fresh(page[t], sent) /\ sent \in Nat
  BY DEF BrowserInv, BrowserShape, RowsFresh
<1>2. page[t].since \in Nat
  BY <1>1 DEF APage
<1> QED BY <1>1, <1>2 DEF Alike, Moved, Fresh

LEMMA AsksMoved ==
  ASSUME BrowserInv, NEW t \in Tab, sent' = sent + 1
  PROVE  Moved([page[t] EXCEPT !.rows = [page[t].rows EXCEPT !.fetch = sent + 1]], page[t])
<1> DEFINE p == page[t]
           rows == [p.rows EXCEPT !.fetch = sent + 1]
           q == [p EXCEPT !.rows = rows]
<1>1. APage(p) /\ Fresh(p, sent) /\ sent \in Nat
  BY DEF BrowserInv, BrowserShape, RowsFresh
<1> HIDE DEF p
<1>2. ARows(p.rows) /\ p.rows.asked \in Nat /\ sent + 1 \in Nat /\ p.since \in Nat
  BY <1>1 DEF APage
<1>3. ARows(rows) /\ rows.data = p.rows.data /\ rows.asked = p.rows.asked /\ rows.fetch = sent + 1
  BY <1>2, RowsFetch
<1> HIDE DEF rows
<1>4. rows.asked \in Nat /\ rows.fetch \in Nat
  BY <1>2, <1>3
<1>5. APage(q) /\ q.rows = rows /\ q.since = p.since /\ q.gone = p.gone
  BY <1>1, <1>3, <1>4, RowsParts
<1> HIDE DEF q
<1>6. Fresh(q, sent')
  BY <1>1, <1>2, <1>3, <1>5 DEF Fresh
<1>7. Moved(q, p)
  BY <1>5, <1>6 DEF Moved
<1> QED BY <1>7 DEF q, rows, p

\* A step of one tab, at which the server rests.
LEMMA PageStep ==
  ASSUME BrowserInv, UNCHANGED server,
         NEW t \in Tab, NEW q, APage(q), Fresh(q, sent'), \A s \in q.gone : IsOver(s),
         page' = [page EXCEPT ![t] = q], sent' \in {sent, sent + 1},
         DOMAIN jar' = {"sid", "csrf"}, Known(jar'["sid"]),
         \A d \in calls' : /\ ACall(d) /\ Known(d.sid) /\ CookiesKnown(d.writes)
                           /\ d.kind = "logout" /\ d.status = 204 => IsOver(d.sid)
  PROVE  BrowserInv'
<1>1. BrowserShape /\ sent \in Nat /\ page = [u \in Tab |-> page[u]]
  BY DEF BrowserInv, BrowserShape
<1>2. sessions' = sessions /\ order' = order /\ records' = records
  BY DEF server
<1>3. \A x : /\ Known(x)' <=> Known(x)
             /\ CookiesKnown(x)' <=> CookiesKnown(x)
             /\ IsOver(x)' <=> IsOver(x)
  BY <1>2 DEF Known, CookiesKnown, IsOver
<1>4. /\ page' = [u \in Tab |-> page'[u]] /\ page'[t] = q
      /\ \A u \in Tab \ {t} : page'[u] = page[u]
  BY <1>1
<1>5. \A u \in Tab : APage(page'[u]) /\ Fresh(page'[u], sent') /\ \A s \in page'[u].gone : IsOver(s)
  <2>1. ASSUME NEW u \in Tab \ {t}
        PROVE  APage(page[u]) /\ Fresh(page[u], sent') /\ \A s \in page[u].gone : IsOver(s)
    <3>1. /\ APage(page[u]) /\ Fresh(page[u], sent) /\ page[u].since \in Nat
          /\ \A s \in page[u].gone : IsOver(s)
      BY DEF BrowserInv, BrowserShape, RowsFresh, APage, SignOutsOver
    <3> QED BY <1>1, <3>1 DEF Fresh
  <2> QED BY <1>4, <2>1
<1>6. BrowserShape' /\ RowsFresh'
  BY <1>1, <1>2, <1>4, <1>5 DEF BrowserShape, RowsFresh
<1>7. SidsKnown' /\ SignOutsOver'
  BY <1>3, <1>5 DEF SidsKnown, SignOutsOver
<1>8. InvoicesRecorded' /\ OneInvoicePerVisit'
  BY <1>2 DEF BrowserInv, InvoicesRecorded, OneInvoicePerVisit
<1> QED BY <1>6, <1>7, <1>8 DEF BrowserInv

LEMMA NewCallKnown ==
  ASSUME BrowserInv, NEW d, d \in calls \/ NewCall(d)
  PROVE  /\ ACall(d) /\ Known(d.sid) /\ CookiesKnown(d.writes)
         /\ d.kind = "logout" /\ d.status = 204 => IsOver(d.sid)
<1>1. CookiesKnown(NoCookies)
  BY DEF CookiesKnown, NoCookies
<1> QED BY <1>1 DEF BrowserInv, BrowserShape, SidsKnown, SignOutsOver, NewCall

LEMMA TabStep ==
  ASSUME BrowserInv, UNCHANGED server, NEW t \in Tab, NEW p, Moved(p, page[t]),
         page' = [page EXCEPT ![t] = p],
         jar' = jar, sent' \in {sent, sent + 1},
         \A d \in calls' : d \in calls \/ NewCall(d)
  PROVE  BrowserInv'
<1>1. APage(p) /\ Fresh(p, sent') /\ p.gone = page[t].gone
  BY DEF Moved
<1>2. \A s \in p.gone : IsOver(s)
  BY <1>1 DEF BrowserInv, SignOutsOver
<1>3. DOMAIN jar' = {"sid", "csrf"} /\ Known(jar'["sid"])
  BY DEF BrowserInv, BrowserShape, SidsKnown
<1>4. \A d \in calls' : /\ ACall(d) /\ Known(d.sid) /\ CookiesKnown(d.writes)
                        /\ d.kind = "logout" /\ d.status = 204 => IsOver(d.sid)
  BY NewCallKnown
<1> QED BY <1>1, <1>2, <1>3, <1>4, PageStep

LEMMA SendStep ==
  ASSUME BrowserInv, NEW t \in Tab, NEW kind, NEW arg, NEW key, NEW p,
         Send(t, kind, arg, key, p),
         kind \in {"me", "order", "login", "logout", "switch"} \cup Commands,
         kind = "invoice" => key = <<"invoice", arg>>,
         kind = "login" => arg \in User \cup {None},
         sent' = sent + 1 => Moved(p, page[t])
  PROVE  BrowserInv'
<1> DEFINE c == request(sent + 1, t, kind, arg, key, jar)
<1>1. /\ sent' = sent + 1 /\ calls' = calls \cup {c} /\ page' = [page EXCEPT ![t] = p]
      /\ jar' = jar /\ UNCHANGED server
  BY DEF Send
<1>2. sent \in Nat
  BY DEF BrowserInv, BrowserShape
<1>3. NewCall(c)
  BY <1>2 DEF ACall, request, NewCall
<1> HIDE DEF c
<1>4. \A d \in calls' : d \in calls \/ NewCall(d)
  BY <1>1, <1>3
<1>5. Moved(p, page[t]) /\ sent' \in {sent, sent + 1}
  BY <1>1
<1> QED BY <1>1, <1>4, <1>5, TabStep

\* Calls other than invoices and fetches of the order.
LEMMA AlikeSendStep ==
  ASSUME BrowserInv, NEW t \in Tab, NEW kind, NEW arg, NEW key, NEW p,
         Send(t, kind, arg, key, p),
         kind \in {"me", "order", "login", "logout", "switch"} \cup Commands,
         kind = "invoice" => key = <<"invoice", arg>>,
         kind = "login" => arg \in User \cup {None},
         Alike(p, page[t])
  PROVE  BrowserInv'
<1>1. sent' = sent + 1 => Moved(p, page[t])
  BY AlikeMoved
<1> QED BY <1>1, SendStep

LEMMA StayStep ==
  ASSUME BrowserInv, NEW t \in Tab, NEW p, Alike(p, page[t]),
         page' = [page EXCEPT ![t] = p],
         UNCHANGED <<server, jar, calls, sent>>
  PROVE  BrowserInv'
<1>1. Moved(p, page[t])
  BY AlikeMoved
<1>2. UNCHANGED server /\ jar' = jar /\ sent' \in {sent, sent + 1} /\ \A d \in calls' : d \in calls \/ NewCall(d)
  OBVIOUS
<1> QED BY <1>1, <1>2, TabStep

LEMMA PageOf == ASSUME BrowserInv, NEW t \in Tab PROVE APage(page[t]) /\ page = [u \in Tab |-> page[u]]
BY DEF BrowserInv, BrowserShape

LEMMA TabSteps ==
  ASSUME BrowserInv, NEW t \in Tab,
         \/ AskMe(t) \/ SignOut(t) \/ Open(t) \/ Leave(t) \/ AskOrder(t)
         \/ Confirm(t) \/ CreateInvoice(t) \/ Cancel(t) \/ OpenPanel(t) \/ KeepOrder(t)
         \/ \E who \in User \cup {None} : SignIn(t, who)
         \/ \E c \in Company : SwitchCompany(t, c) \/ EnterOnlyCompany(t, c)
  PROVE  BrowserInv'
<1> DEFINE p == page[t]
<1>0. APage(p) /\ page = [u \in Tab |-> page[u]]
  BY PageOf
<1>1. CASE AskMe(t)
  <2>1. Send(t, "me", None, None, [p EXCEPT !.me = [p.me EXCEPT !.fetch = sent + 1]])
    BY <1>0, <1>1 DEF AskMe, APage
  <2>2. Alike([p EXCEPT !.me = [p.me EXCEPT !.fetch = sent + 1]], p)
    BY <1>0, PageParts
  <2> QED BY <2>1, <2>2, AlikeSendStep
<1>2. CASE SignOut(t)
  <2>1. Send(t, "logout", None, None, p) /\ Alike(p, p)
    BY <1>0, <1>2, PageParts DEF SignOut
  <2> QED BY <2>1, AlikeSendStep
<1>3. CASE Open(t)
  <2> DEFINE q == [p EXCEPT !.visit = visits + 1]
  <2>1. page' = [page EXCEPT ![t] = [q EXCEPT !.invoice = 0]] /\ UNCHANGED <<server, jar, calls, sent>>
    BY <1>0, <1>3 DEF Open
  <2>2. Alike(q, p)
    BY <1>0, PageParts
  <2> HIDE DEF q
  <2>3. Alike([q EXCEPT !.invoice = 0], q)
    BY <2>2, PageParts DEF Alike
  <2>4. Alike([q EXCEPT !.invoice = 0], p)
    BY <2>2, <2>3, AlikeTwice
  <2> QED BY <2>1, <2>4, StayStep
<1>4. CASE Leave(t)
  <2> DEFINE q == [p EXCEPT !.visit = 0]
  <2>1. page' = [page EXCEPT ![t] = Rendered(t, q)] /\ UNCHANGED <<server, jar, calls, sent>>
    BY <1>0, <1>4 DEF Leave, bounds
  <2>2. Alike(q, p)
    BY <1>0, PageParts
  <2> HIDE DEF q
  <2>3. Alike(Rendered(t, q), q)
    BY <2>2, RenderedAlike DEF Alike
  <2>4. Alike(Rendered(t, q), p)
    BY <2>2, <2>3, AlikeTwice
  <2> QED BY <2>1, <2>4, StayStep
<1>5. CASE AskOrder(t)
  <2> DEFINE q == [p EXCEPT !.rows = [p.rows EXCEPT !.fetch = sent + 1]]
  <2>1. Send(t, "order", None, None, q)
    BY <1>0, <1>5 DEF AskOrder, APage
  <2>2. sent' = sent + 1 => Moved(q, p)
    BY AsksMoved
  <2> HIDE DEF q
  <2> QED BY <2>1, <2>2, SendStep
<1>6. ASSUME NEW kind \in Commands, NEW statuses, Press(t, kind, statuses) PROVE BrowserInv'
  <2> DEFINE q == [p EXCEPT !.pending = [p.pending EXCEPT ![kind] = sent + 1]]
  <2>1. Send(t, kind, p.visit, KeyOf(t, kind), q)
    BY <1>0, <1>6 DEF Press, APage
  <2>2. Alike(q, p)
    BY <1>0, PageParts
  <2>3. kind = "invoice" => KeyOf(t, kind) = <<"invoice", p.visit>>
    BY DEF KeyOf
  <2>4. kind # "login"
    BY <1>6 DEF Commands
  <2> HIDE DEF q, p
  <2> QED BY <2>1, <2>2, <2>3, <2>4, AlikeSendStep DEF p
<1>7. CASE Confirm(t) \/ CreateInvoice(t) \/ Cancel(t)
  BY <1>6, <1>7 DEF Confirm, CreateInvoice, Cancel, Commands
<1>8. CASE OpenPanel(t)
  <2>1. page' = [page EXCEPT ![t] = [p EXCEPT !.panel = sent + 1]] /\ UNCHANGED <<server, jar, calls, sent>>
    BY <1>0, <1>8 DEF OpenPanel, bounds
  <2>2. Alike([p EXCEPT !.panel = sent + 1], p)
    BY <1>0, PageParts
  <2> QED BY <2>1, <2>2, StayStep
<1>9. CASE KeepOrder(t)
  <2>1. page' = [page EXCEPT ![t] = [p EXCEPT !.panel = 0]] /\ UNCHANGED <<server, jar, calls, sent>>
    BY <1>0, <1>9 DEF KeepOrder, bounds
  <2>2. Alike([p EXCEPT !.panel = 0], p)
    BY <1>0, PageParts
  <2> QED BY <2>1, <2>2, StayStep
<1>10. ASSUME NEW who \in User \cup {None}, SignIn(t, who) PROVE BrowserInv'
  <2>1. Send(t, "login", who, None, [p EXCEPT !.busy = sent + 1])
    BY <1>10 DEF SignIn
  <2>2. Alike([p EXCEPT !.busy = sent + 1], p)
    BY <1>0, PageParts
  <2> QED BY <1>10, <2>1, <2>2, AlikeSendStep
<1>11. ASSUME NEW c \in Company, SwitchCompany(t, c) PROVE BrowserInv'
  <2>1. Send(t, "switch", c, None, [p EXCEPT !.busy = sent + 1])
    BY <1>11 DEF SwitchCompany
  <2>2. Alike([p EXCEPT !.busy = sent + 1], p)
    BY <1>0, PageParts
  <2> QED BY <2>1, <2>2, AlikeSendStep
<1>12. ASSUME NEW c \in Company, EnterOnlyCompany(t, c) PROVE BrowserInv'
  <2>1. PICK x : Send(t, "switch", c, None, [[p EXCEPT !.attempted = x] EXCEPT !.busy = sent + 1])
    <3>1. Send(t, "switch", c, None, [[p EXCEPT !.attempted = TRUE] EXCEPT !.busy = sent + 1])
      BY <1>12 DEF EnterOnlyCompany
    <3> QED BY <3>1
  <2> DEFINE q == [p EXCEPT !.attempted = x]
  <2>2. Alike(q, p)
    BY <1>0, PageParts
  <2> HIDE DEF q
  <2>3. Alike([q EXCEPT !.busy = sent + 1], q)
    BY <2>2, PageParts DEF Alike
  <2>4. Alike([q EXCEPT !.busy = sent + 1], p)
    BY <2>2, <2>3, AlikeTwice
  <2>5. Send(t, "switch", c, None, [q EXCEPT !.busy = sent + 1])
    BY <2>1 DEF q
  <2> QED BY <2>4, <2>5, AlikeSendStep
<1> QED BY <1>1, <1>2, <1>3, <1>4, <1>5, <1>7, <1>8, <1>9, <1>10, <1>11, <1>12

-----------------------------------------------------------------------------
(* The browser: the server *)

\* What the steps ask of a call that was changed.
CallLike(d, c) == ACall(d) /\ d.kind = c.kind /\ d.sid = c.sid

LEMMA CallStatus ==
  ASSUME NEW c, ACall(c), NEW x, NEW d, d = [c EXCEPT !.status = x]
  PROVE  CallLike(d, c) /\ d.status = x /\ d.writes = c.writes
BY DEF ACall, CallLike

LEMMA CallHeard ==
  ASSUME NEW c, ACall(c), NEW x, NEW d, d = [c EXCEPT !.heard = x]
  PROVE  CallLike(d, c) /\ d.status = c.status /\ d.writes = c.writes
BY DEF ACall, CallLike

LEMMA CallBody ==
  ASSUME NEW c, ACall(c), NEW x, NEW d, d = [c EXCEPT !.body = x]
  PROVE  CallLike(d, c) /\ d.status = c.status
BY DEF ACall, CallLike

WithAnswer(c, status, body, writes) ==
  [c EXCEPT !.status = status, !.body = body, !.writes = writes]

LEMMA AnsweredCall ==
  ASSUME NEW c, ACall(c), NEW status, NEW body, NEW writes, NEW d,
         d = WithAnswer(c, status, body, writes)
  PROVE  CallLike(d, c) /\ d.status = status /\ d.writes = writes
<1>1. PICK c1 : c1 = [c EXCEPT !.status = status]
  OBVIOUS
<1>2. PICK c2 : c2 = [c1 EXCEPT !.body = body]
  OBVIOUS
<1>3. d = [c2 EXCEPT !.writes = writes]
  BY <1>1, <1>2 DEF WithAnswer
<1>4. CallLike(c1, c) /\ c1.status = status
  BY <1>1, CallStatus
<1>5. CallLike(c2, c1) /\ c2.status = status
  <2>1. ACall(c1)
    BY <1>4 DEF CallLike
  <2> QED BY <1>2, <1>4, <2>1, CallBody
<1>6. CallLike(d, c2) /\ d.status = status /\ d.writes = writes
  <2>1. ACall(c2)
    BY <1>5 DEF CallLike
  <2>2. CallLike(d, c2) /\ d.status = c2.status /\ d.writes = writes
    BY <1>3, <2>1 DEF ACall, CallLike
  <2> QED BY <1>5, <2>2
<1> QED BY <1>4, <1>5, <1>6 DEF CallLike

\* The server answers a call.
LEMMA AnswerStep ==
  ASSUME BrowserInv, NEW c \in calls, NEW status, NEW body, NEW writes,
         Answered(c, status, body, writes),
         SessionsMove, UNCHANGED <<jar, page, sent>>,
         CookiesKnown(writes)', c.kind = "logout" /\ status = 204 => IsOver(c.sid)',
         order' = [status |-> order'.status, invoices |-> order'.invoices],
         InvoicesRecorded', OneInvoicePerVisit'
  PROVE  BrowserInv'
<1>0. PICK d : d = WithAnswer(c, status, body, writes)
  OBVIOUS
<1>1. BrowserShape
  BY DEF BrowserInv
<1>2. /\ \A sid : Known(sid) => Known(sid)'
      /\ \A x : CookiesKnown(x) => CookiesKnown(x)'
      /\ \A sid : IsOver(sid) => IsOver(sid)'
  BY <1>1, StillKnown
<1>3. ACall(c)
  BY DEF BrowserInv, BrowserShape
<1>4. ACall(d) /\ d.kind = c.kind /\ d.sid = c.sid /\ d.writes = writes /\ d.status = status
  <2>1. CallLike(d, c) /\ d.status = status /\ d.writes = writes
    BY <1>0, <1>3, AnsweredCall
  <2> QED BY <2>1 DEF CallLike
<1>5. \A e \in calls' : e \in calls \/ e = d
  BY <1>0 DEF Answered, WithAnswer
<1>6. \A e \in calls' : ACall(e)
  BY <1>4, <1>5 DEF BrowserInv, BrowserShape
<1>7. BrowserShape'
  BY <1>1, <1>6 DEF BrowserShape, SessionsMove
<1>8. RowsFresh'
  BY DEF BrowserInv, RowsFresh
<1>9. SidsKnown'
  <2>1. Known(jar["sid"]) /\ \A e \in calls : Known(e.sid) /\ CookiesKnown(e.writes)
    BY DEF BrowserInv, SidsKnown
  <2>2. \A e \in calls' : Known(e.sid)' /\ CookiesKnown(e.writes)'
    BY <1>2, <1>4, <1>5, <2>1
  <2>3. Known(jar["sid"])'
    BY <1>2, <2>1
  <2> QED BY <2>2, <2>3 DEF SidsKnown
<1>10. SignOutsOver'
  <2>1. /\ \A e \in calls : e.kind = "logout" /\ e.status = 204 => IsOver(e.sid)
        /\ \A t \in Tab : \A s \in page[t].gone : IsOver(s)
    BY DEF BrowserInv, SignOutsOver
  <2>2. \A e \in calls' : e.kind = "logout" /\ e.status = 204 => IsOver(e.sid)'
    BY <1>2, <1>4, <1>5, <2>1
  <2> QED BY <1>2, <2>1, <2>2 DEF SignOutsOver
<1> QED BY <1>7, <1>8, <1>9, <1>10 DEF BrowserInv

\* What a refused or a safe call leaves.
LEMMA RestStep ==
  ASSUME BrowserInv, NEW c \in calls, NEW status, NEW body, NEW writes,
         Answered(c, status, body, writes),
         UNCHANGED <<server, jar, page, sent>>,
         DOMAIN writes \subseteq {"csrf"}, c.kind # "logout" \/ status # 204
  PROVE  BrowserInv'
<1>1. BrowserShape /\ InvoicesRecorded /\ OneInvoicePerVisit
  BY DEF BrowserInv
<1>2. SessionsMove
  BY <1>1 DEF BrowserShape, SessionsMove, server
<1>3. CookiesKnown(writes)'
  BY DEF CookiesKnown
<1>4. /\ order' = [status |-> order'.status, invoices |-> order'.invoices]
      /\ InvoicesRecorded' /\ OneInvoicePerVisit'
  BY <1>1 DEF BrowserShape, InvoicesRecorded, OneInvoicePerVisit, server
<1>5. UNCHANGED <<jar, page, sent>>
  OBVIOUS
<1> QED BY <1>2, <1>3, <1>4, <1>5, AnswerStep

LEMMA SessionStep ==
  ASSUME BrowserInv, NEW c \in calls, NEW status, NEW body, NEW writes,
         Answered(c, status, body, writes),
         SessionsMove, UNCHANGED <<order, records, jar, page, sent>>,
         CookiesKnown(writes)', c.kind = "logout" /\ status = 204 => IsOver(c.sid)'
  PROVE  BrowserInv'
<1>1. BrowserShape /\ InvoicesRecorded /\ OneInvoicePerVisit
  BY DEF BrowserInv
<1>2. /\ order' = [status |-> order'.status, invoices |-> order'.invoices]
      /\ InvoicesRecorded' /\ OneInvoicePerVisit'
  BY <1>1 DEF BrowserShape, InvoicesRecorded, OneInvoicePerVisit
<1>3. UNCHANGED <<jar, page, sent>>
  OBVIOUS
<1> QED BY <1>2, <1>3, AnswerStep

LEMMA NoCookiesKnown == DOMAIN NoCookies \subseteq {"csrf"} /\ CookiesKnown(NoCookies) /\ CookiesKnown(NoCookies)'
BY DEF NoCookies, CookiesKnown

LEMMA ServeSessionStep ==
  ASSUME BrowserInv, NEW c \in calls, ServeSession(c)
  PROVE  BrowserInv'
<1>1. /\ ACall(c) /\ Known(c.sid) /\ sessions \in [Sid -> ASession]
      /\ \A s \in Sid : sessions[s].live => sessions[s].user \in User
  BY DEF BrowserInv, BrowserShape, SidsKnown
<1>2. UNCHANGED <<order, records, jar, page, sent>>
  BY DEF ServeSession, bounds
<1>3. ASSUME UNCHANGED sessions, NEW status, status # 204, Answered(c, status, None, NoCookies)
      PROVE  BrowserInv'
  BY <1>2, <1>3, NoCookiesKnown, RestStep DEF server
<1>4. CASE canActivate(c) /\ c.kind = "login"
  <2>1. ServeLogin(c)
    BY <1>4 DEF ServeSession
  <2>2. CASE c.arg = None
    BY <1>3, <2>1, <2>2 DEF ServeLogin
  <2>3. CASE c.arg # None
    <3>1. PICK s \in Sid :
            /\ sessions[s] = Unused
            /\ sessions' = [sessions EXCEPT ![s] = [user |-> c.arg, company |-> None, live |-> TRUE]]
            /\ Answered(c, 204, None, [sid |-> s, csrf |-> csrfTokenFor(s)])
      BY <2>1, <2>3 DEF ServeLogin
    <3>2. PICK x \in BOOLEAN : sessions' = [sessions EXCEPT ![s] = [user |-> c.arg, company |-> None, live |-> x]]
      BY <3>1
    <3> DEFINE opened == [user |-> c.arg, company |-> None, live |-> x]
    <3>3. c.arg \in User /\ opened \in ASession /\ opened.user \in User
      BY <1>1, <1>4, <2>3 DEF ACall, ASession
    <3>4. sessions' = [sessions EXCEPT ![s] = opened]
      BY <3>2
    <3>5. sessions[s].user \notin User
      BY <3>1, BrowserAssumption DEF Unused
    <3> HIDE DEF opened
    <3>6. /\ sessions' \in [Sid -> ASession] /\ sessions'[s] = opened
          /\ \A r \in Sid \ {s} : sessions'[r] = sessions[r]
      BY <1>1, <3>3, <3>4
    <3>7. SessionsMove
      BY <1>1, <3>3, <3>5, <3>6 DEF SessionsMove
    <3>8. CookiesKnown([sid |-> s, csrf |-> csrfTokenFor(s)])'
      BY <3>3, <3>6 DEF CookiesKnown, Known
    <3> QED BY <1>2, <1>4, <3>1, <3>7, <3>8, SessionStep
  <2> QED BY <2>2, <2>3
<1>5. CASE canActivate(c) /\ c.kind = "logout"
  <2>1. /\ sessions' = [s \in Sid |-> IF s = c.sid THEN [sessions[s] EXCEPT !.live = FALSE] ELSE sessions[s]]
        /\ Answered(c, 204, None, [sid |-> None, csrf |-> None])
    BY <1>5 DEF ServeSession, Logout
  <2>2. \A s \in Sid : LET over == [sessions[s] EXCEPT !.live = FALSE]
                       IN  over \in ASession /\ over.user = sessions[s].user /\ ~over.live
    BY <1>1 DEF ASession
  <2>3. SessionsMove
    BY <1>1, <2>1, <2>2 DEF SessionsMove
  <2>4. CookiesKnown([sid |-> None, csrf |-> None])'
    BY DEF CookiesKnown, Known
  <2>5. IsOver(c.sid)'
    BY <1>1, <2>1, <2>2, BrowserAssumption DEF IsOver, Known
  <2> QED BY <1>2, <2>1, <2>3, <2>4, <2>5, SessionStep
<1>6. CASE canActivate(c) /\ c.kind = "switch" /\ Live(c)
  <2>1. Switch(c)
    BY <1>6 DEF ServeSession
  <2>2. CASE c.arg \in Companies[sessions[c.sid].user]
    <3>1. /\ sessions' = [sessions EXCEPT ![c.sid].company = c.arg]
          /\ Answered(c, 200, MeView(c.sid), NoCookies)
      BY <2>1, <2>2 DEF Switch
    <3>2. c.sid \in Sid /\ sessions[c.sid].user \in User
      BY <1>1, <1>6 DEF Known, Live
    <3>3. c.arg \in Company
      BY <2>2, <3>2, BrowserAssumption
    <3> DEFINE entered == [sessions[c.sid] EXCEPT !.company = c.arg]
    <3>4. entered \in ASession /\ entered.user = sessions[c.sid].user /\ entered.live = sessions[c.sid].live
      BY <1>1, <3>2, <3>3 DEF ASession
    <3>5. sessions' = [sessions EXCEPT ![c.sid] = entered]
      BY <3>1
    <3> HIDE DEF entered
    <3>6. SessionsMove
      BY <1>1, <3>2, <3>4, <3>5 DEF SessionsMove
    <3> QED BY <1>2, <1>6, <3>1, <3>6, NoCookiesKnown, SessionStep
  <2>3. CASE c.arg \notin Companies[sessions[c.sid].user]
    BY <1>3, <2>1, <2>3 DEF Switch
  <2> QED BY <2>2, <2>3
<1>7. CASE ~canActivate(c)
  <2>1. UNCHANGED sessions /\ Answered(c, 403, None, NoCookies)
    BY <1>7 DEF ServeSession
  <2> QED BY <1>3, <2>1
<1>8. CASE canActivate(c) /\ c.kind = "switch" /\ ~Live(c)
  BY <1>3, <1>8 DEF ServeSession
<1> QED BY <1>4, <1>5, <1>6, <1>7, <1>8 DEF ServeSession

LEMMA ServeReadStep ==
  ASSUME BrowserInv, NEW c \in calls, ServeMe(c) \/ ServeOrder(c)
  PROVE  BrowserInv'
<1>1. DOMAIN issueIfMissing(c) \subseteq {"csrf"}
  BY DEF issueIfMissing, NoCookies
<1>2. UNCHANGED <<server, jar, page, sent>> /\ c.kind # "logout"
  BY DEF ServeMe, ServeOrder, server, bounds
<1>3. \E status, body : Answered(c, status, body, issueIfMissing(c))
  BY DEF ServeMe, ServeOrder
<1> QED BY <1>1, <1>2, <1>3, RestStep

LEMMA ServeCommandStep ==
  ASSUME BrowserInv, NEW c \in calls, ServeCommand(c)
  PROVE  BrowserInv'
<1> DEFINE inHome == Live(c) /\ sessions[c.sid].company = Home
           replays == {r \in records : r.id = Record(c)}
<1>1. ACall(c) /\ BrowserShape /\ InvoicesRecorded /\ OneInvoicePerVisit
  BY DEF BrowserInv, BrowserShape
<1>2. UNCHANGED <<sessions, jar, page, sent>> /\ c.kind \in Commands /\ c.kind # "logout"
  BY DEF ServeCommand, bounds, Commands
<1>3. ASSUME UNCHANGED <<order, records>>, NEW status, NEW body, Answered(c, status, body, NoCookies)
      PROVE  BrowserInv'
  BY <1>2, <1>3, NoCookiesKnown, RestStep DEF server
<1>4. CASE canActivate(c) /\ inHome /\ replays = {} /\ order.status \in Allowed[c.kind]
  <2>1. /\ order' = Effect(c)
        /\ records' = records \cup {[id |-> Record(c), body |-> [status |-> order'.status]]}
        /\ Answered(c, 200, [status |-> order'.status], NoCookies)
    BY <1>4 DEF ServeCommand
  <2> DEFINE i == [visit |-> c.arg, by |-> sessions[c.sid].user, call |-> c.n]
             kept == [id |-> Record(c), body |-> [status |-> order'.status]]
  <2>2. /\ order' = [status |-> order'.status, invoices |-> order'.invoices]
        /\ \/ order'.invoices = order.invoices
           \/ c.kind = "invoice" /\ order'.invoices = order.invoices \cup {i}
    <3>1. CASE c.kind = "confirm"
      BY <1>1, <2>1, <3>1 DEF Effect, BrowserShape
    <3>2. CASE c.kind = "cancel"
      BY <1>1, <2>1, <3>2 DEF Effect, BrowserShape
    <3>3. CASE c.kind = "invoice"
      BY <1>1, <2>1, <3>3 DEF Effect, BrowserShape
    <3> QED BY <1>2, <3>1, <3>2, <3>3 DEF Commands
  <2>3. records' = records \cup {kept} /\ kept.id = Record(c)
    BY <2>1
  <2>4. /\ i.visit = c.arg /\ i.by = sessions[c.sid].user
        /\ c.kind = "invoice" => Record(c) = [user |-> i.by, key |-> <<"invoice", i.visit>>]
    BY <1>1 DEF Record, ACall
  <2> HIDE DEF i, kept
  <2>5. InvoicesRecorded'
    BY <1>1, <2>2, <2>3, <2>4 DEF InvoicesRecorded
  <2>6. c.kind = "invoice" => \A j \in order.invoices : ~(j.visit = i.visit /\ j.by = i.by)
    <3> SUFFICES ASSUME c.kind = "invoice", NEW j \in order.invoices, j.visit = i.visit, j.by = i.by
                 PROVE  FALSE
      OBVIOUS
    <3>1. PICK r \in records : r.id = [user |-> j.by, key |-> <<"invoice", j.visit>>]
      BY <1>1 DEF InvoicesRecorded
    <3>2. r.id = Record(c)
      BY <2>4, <3>1
    <3> QED BY <1>4, <3>2
  <2>7. OneInvoicePerVisit'
    BY <1>1, <2>2, <2>6 DEF OneInvoicePerVisit
  <2>8. SessionsMove
    BY <1>1, <1>2 DEF SessionsMove, BrowserShape
  <2> QED BY <1>2, <2>1, <2>2, <2>5, <2>7, <2>8, NoCookiesKnown, AnswerStep
<1>5. CASE ~canActivate(c)
  BY <1>3, <1>5 DEF ServeCommand
<1>6. CASE canActivate(c) /\ ~Live(c)
  BY <1>3, <1>6 DEF ServeCommand
<1>7. CASE canActivate(c) /\ Live(c) /\ ~inHome
  BY <1>3, <1>7 DEF ServeCommand
<1>8. CASE canActivate(c) /\ inHome /\ replays # {}
  <2>1. \E r \in replays : UNCHANGED <<order, records>> /\ Answered(c, 200, r.body, NoCookies)
    BY <1>8 DEF ServeCommand
  <2> QED BY <1>3, <2>1
<1>9. CASE canActivate(c) /\ inHome /\ replays = {} /\ order.status \notin Allowed[c.kind]
  BY <1>3, <1>9 DEF ServeCommand
<1> QED BY <1>4, <1>5, <1>6, <1>7, <1>8, <1>9

LEMMA EndSessionStep ==
  ASSUME BrowserInv, NEW s \in Sid, EndSession(s)
  PROVE  BrowserInv'
<1>1. BrowserShape /\ UNCHANGED <<order, records, jar, calls, page, sent>>
  BY DEF BrowserInv, EndSession, bounds
<1> DEFINE over == [sessions[s] EXCEPT !.live = FALSE]
<1>2. over \in ASession /\ over.user = sessions[s].user /\ ~over.live
  BY <1>1 DEF BrowserShape, ASession
<1>3. sessions' = [sessions EXCEPT ![s] = over]
  BY DEF EndSession
<1> HIDE DEF over
<1>4. SessionsMove
  BY <1>1, <1>2, <1>3 DEF SessionsMove, BrowserShape
<1>5. /\ \A x : Known(x) => Known(x)'
      /\ \A x : CookiesKnown(x) => CookiesKnown(x)'
      /\ \A x : IsOver(x) => IsOver(x)'
  BY <1>1, <1>4, StillKnown
<1>6. BrowserShape' /\ RowsFresh'
  BY <1>1, <1>4 DEF BrowserInv, BrowserShape, RowsFresh, SessionsMove
<1>7. SidsKnown' /\ SignOutsOver'
  BY <1>1, <1>5 DEF BrowserInv, SidsKnown, SignOutsOver
<1>8. InvoicesRecorded' /\ OneInvoicePerVisit'
  BY <1>1 DEF BrowserInv, InvoicesRecorded, OneInvoicePerVisit
<1> QED BY <1>6, <1>7, <1>8 DEF BrowserInv

-----------------------------------------------------------------------------
(* The browser: answers that arrive, and connections that fail *)

LEMMA DeliverStep ==
  ASSUME BrowserInv, NEW c \in calls, Deliver(c)
  PROVE  BrowserInv'
<1> DEFINE t == c.tab
           q == Rendered(t, Settled(page[t], c))
           asks == request(sent + 1, t, "me", None, None, jar')
<1>1. /\ ACall(c) /\ Known(c.sid) /\ CookiesKnown(c.writes) /\ sent \in Nat
      /\ DOMAIN jar = {"sid", "csrf"} /\ Known(jar["sid"]) /\ page = [u \in Tab |-> page[u]]
  BY DEF BrowserInv, BrowserShape, SidsKnown
<1>2. t \in Tab
  BY <1>1 DEF ACall
<1>3. /\ UNCHANGED server /\ jar' = Written(c.writes)
      /\ \/ sent' = sent + 1 /\ calls' = (calls \ {c}) \cup {asks}
         \/ sent' = sent /\ calls' = calls \ {c}
  BY DEF Deliver
<1>4. page' = [page EXCEPT ![t] = q]
  BY <1>1, <1>2 DEF Deliver
<1>5. Taken(q, page[t], c)
  BY <1>1, <1>2, SettledTaken
<1> HIDE DEF q
<1>6. APage(q) /\ Fresh(q, sent')
  <2>1. q.since \in Nat
    BY <1>5 DEF Taken, APage
  <2> QED BY <1>1, <1>3, <1>5, <2>1 DEF Taken, Fresh
<1>7. \A s \in q.gone : IsOver(s)
  <2>1. /\ \A s \in page[t].gone : IsOver(s)
        /\ c.kind = "logout" /\ c.status = 204 => IsOver(c.sid)
    BY <1>2 DEF BrowserInv, SignOutsOver
  <2> QED BY <1>5, <2>1 DEF Taken
<1>8. DOMAIN jar' = {"sid", "csrf"} /\ Known(jar'["sid"])
  BY <1>1, <1>3 DEF CookiesKnown, Written
<1>9. asks \in calls' => /\ ACall(asks) /\ Known(asks.sid) /\ CookiesKnown(asks.writes)
                         /\ asks.kind # "logout"
  <2>1. CookiesKnown(NoCookies)
    BY NoCookiesKnown
  <2> QED BY <1>1, <1>2, <1>8, <2>1 DEF ACall, request, Commands
<1> HIDE DEF asks
<1>10. \A d \in calls' : /\ ACall(d) /\ Known(d.sid) /\ CookiesKnown(d.writes)
                         /\ d.kind = "logout" /\ d.status = 204 => IsOver(d.sid)
  BY <1>3, <1>9, NewCallKnown
<1>11. sent' \in {sent, sent + 1}
  BY <1>3
<1> HIDE DEF t
<1> QED BY <1>2, <1>3, <1>4, <1>6, <1>7, <1>8, <1>10, <1>11, PageStep

LEMMA FailStep ==
  ASSUME BrowserInv, NEW c \in calls, Fail(c)
  PROVE  BrowserInv'
<1> DEFINE t == c.tab
<1>1. PICK told : told = [c EXCEPT !.status = 500]
  OBVIOUS
<1>2. PICK left : /\ left.kind = c.kind /\ left.sid = c.sid /\ left.status = c.status
                  /\ left.writes = c.writes /\ ACall(left)
                  /\ calls' \subseteq calls \cup {left}
  <2>1. PICK x : calls' = (calls \ {c}) \cup
                   {d \in {[c EXCEPT !.heard = x]} : c.status = 0 /\ c.kind \notin {"me", "order"}}
    <3>1. calls' = (calls \ {c}) \cup
            {d \in {[c EXCEPT !.heard = FALSE]} : c.status = 0 /\ c.kind \notin {"me", "order"}}
      BY DEF Fail
    <3> QED BY <3>1
  <2>2. PICK left : left = [c EXCEPT !.heard = x]
    OBVIOUS
  <2>3. ACall(c)
    BY DEF BrowserInv, BrowserShape
  <2>4. CallLike(left, c) /\ left.status = c.status /\ left.writes = c.writes
    BY <2>2, <2>3, CallHeard, Zenon
  <2>5. calls' \subseteq calls \cup {left}
    BY <2>1, <2>2
  <2> QED BY <2>4, <2>5 DEF CallLike
<1> DEFINE q == Rendered(t, Settled(page[t], told))
<1>3. ACall(c) /\ sent \in Nat /\ page = [u \in Tab |-> page[u]]
  BY DEF BrowserInv, BrowserShape
<1>4. CallLike(told, c) /\ told.status = 500
  BY <1>1, <1>3, CallStatus
<1>5. t \in Tab
  BY <1>3 DEF ACall
<1>6. UNCHANGED server /\ jar' = jar /\ sent' = sent
  BY DEF Fail
<1>7. page' = [page EXCEPT ![t] = q]
  BY <1>1, <1>3, <1>5 DEF Fail
<1>8. Taken(q, page[t], told)
  <2>1. ACall(told)
    BY <1>4 DEF CallLike
  <2> QED BY <1>5, <2>1, SettledTaken
<1> HIDE DEF q
<1>9. APage(q) /\ Fresh(q, sent') /\ \A s \in q.gone : IsOver(s)
  <2>1. APage(q) /\ Fresh(q, sent) /\ q.gone = page[t].gone
    BY <1>4, <1>8 DEF Taken
  <2> QED BY <1>5, <1>6, <2>1 DEF BrowserInv, SignOutsOver
<1>10. DOMAIN jar' = {"sid", "csrf"} /\ Known(jar'["sid"])
  BY <1>6 DEF BrowserInv, BrowserShape, SidsKnown
<1>11. \A d \in calls' : /\ ACall(d) /\ Known(d.sid) /\ CookiesKnown(d.writes)
                         /\ d.kind = "logout" /\ d.status = 204 => IsOver(d.sid)
  <2>1. \A d \in calls : /\ ACall(d) /\ Known(d.sid) /\ CookiesKnown(d.writes)
                         /\ d.kind = "logout" /\ d.status = 204 => IsOver(d.sid)
    BY NewCallKnown
  <2> QED BY <1>2, <2>1
<1> HIDE DEF t
<1>12. sent' \in {sent, sent + 1}
  BY <1>6
<1> QED BY <1>5, <1>6, <1>7, <1>9, <1>10, <1>11, <1>12, PageStep

LEMMA BrowserStepInv == BrowserInv /\ [BrowserNext]_browserVars => BrowserInv'
<1> SUFFICES ASSUME BrowserInv, [BrowserNext]_browserVars PROVE BrowserInv'
  OBVIOUS
<1>1. CASE UNCHANGED browserVars
  BY <1>1 DEF browserVars, server, bounds, BrowserInv, BrowserShape, RowsFresh, SidsKnown, Known,
              CookiesKnown, SignOutsOver, IsOver, InvoicesRecorded, OneInvoicePerVisit
<1>2. CASE BrowserNext
  BY <1>2, TabSteps, ServeSessionStep, ServeReadStep, ServeCommandStep, DeliverStep, FailStep,
     EndSessionStep DEF BrowserNext
<1> QED BY <1>1, <1>2

\* The invariant of the browser at the service, for any number of tabs, sessions
\* and calls: what a tab waits for is younger than its last leave, what was signed
\* out is over, and every invoice is on record.
THEOREM BrowserInvHolds == BrowserSpec => []BrowserInv
BY BrowserInitInv, BrowserStepInv, PTL DEF BrowserSpec

\* An order that a tab holds was fetched by a call made after the tab last signed out
\* or entered another company, whenever reads are answered and whatever the answers of
\* confirm and cancel write into it (clearDataQueries, answers to removed queries,
\* setQueryData of what is cached).
THEOREM FetchedSinceTheLeave == BrowserSpec => []NothingFetchedBeforeIsShown
<1>1. BrowserInv => NothingFetchedBeforeIsShown
  BY DEF BrowserInv, RowsFresh, Fresh, NothingFetchedBeforeIsShown
<1> QED BY <1>1, BrowserInvHolds, PTL

\* A person raises at most one invoice from a visit to an order, whatever becomes of
\* the answers (createFromOrder under withIdempotency, and the key of the screen).
THEOREM OneInvoice == BrowserSpec => []OneInvoicePerVisit
<1>1. BrowserInv => OneInvoicePerVisit
  BY DEF BrowserInv
<1> QED BY <1>1, BrowserInvHolds, PTL

\* A session that a tab was told it had signed out of is over at the server, and
\* stays so (logout, and the page's signOut).
THEOREM SignOutsEndSessions == BrowserSpec => []SignedOutIsEnded
<1>1. BrowserInv => SignedOutIsEnded
  BY BrowserAssumption DEF BrowserInv, SignOutsOver, IsOver, SignedOutIsEnded
<1> QED BY <1>1, BrowserInvHolds, PTL
=============================================================================
