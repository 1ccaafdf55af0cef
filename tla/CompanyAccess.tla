---------------------------- MODULE CompanyAccess ----------------------------
(***************************************************************************)
(* From a cookie to an effect: the sessions, the company a session is in,  *)
(* the guard in front of every handler, and the handlers that change who   *)
(* may do what.                                                            *)
(*                                                                         *)
(* One request is a chain of transactions of its own each: the session is  *)
(* validated, the company is resolved, the permission is read, the handler *)
(* resolves the company again and then does its work.  Between any two of  *)
(* them the session may be revoked or entered elsewhere, the membership    *)
(* may end, the role may be taken away.  What is read in one transaction   *)
(* and used in a later one is kept with the request.                       *)
(*                                                                         *)
(* A statement of a transaction after which it does nothing that others    *)
(* can be ordered against is one action with its commit.  "work" is any    *)
(* handler behind RequirePermission; those of orders and invoices are      *)
(* modules of their own.  A refusal of any kind ends the request.          *)
(***************************************************************************)
EXTENDS Tenancy

CONSTANTS
  Session, SessionUser,
  Request,           \* as many as are under way at once
  MaxRequests,       \* bound: how many arrive
  MaxChanges,        \* bound: how often a membership is suspended or restored
  AdminUsers,        \* the permission admin:users
  Asked,             \* what requests ask for
  Founding,          \* the roles the companies were provisioned with
  Idle, Absolute,    \* SESSION_IDLE_MINUTES, SESSION_ABSOLUTE_MINUTES
  MaxAge,            \* bound: how long a request may take
  Horizon            \* bound of the clock

Ask ==
  [kind : {"work", "assign", "remove", "switch"}, session : Session,
   permission : Permission, company : Company, membership : Membership, key : RoleKey]

ASSUME ConstantsAssumption ==
  /\ SessionUser \in [Session -> User]
  /\ AdminUsers \in Permission
  /\ Asked \subseteq Ask /\ Asked # {} /\ Membership # {}
  /\ \A q \in Asked : q.kind \in {"assign", "remove"} => q.permission = AdminUsers
  /\ Founding \subseteq Assignment
  /\ \A a \in Founding :
       MemberCompany[a.membership] = a.company /\ RoleCompany[a.role] = a.company
  /\ Idle \in Nat \ {0} /\ Absolute \in Nat /\ Idle <= Absolute
  /\ MaxRequests \in Nat /\ MaxChanges \in Nat /\ MaxAge \in Nat /\ Horizon \in Nat

VARIABLES
  sessions,    \* sessions
  active,      \* the memberships whose status is active
  assigned,    \* membership_roles
  pc, req,
  readAt,      \* now of validate()
  principal,   \* the company of the principal attached to the request
  membership,  \* the membership of its context
  held,        \* actorGrants of assignRole
  clock, arrivals, changes,
  seen         \* history: what a request has been entitled to since it began

work == <<pc, req, readAt, principal, membership, held>>
bounds == <<arrivals, changes>>
vars == <<sessions, active, assigned, work, clock, bounds, seen>>

-----------------------------------------------------------------------------
(* Rows *)

Never == -1

SessionRow ==
  [company : Company \cup {None}, idle : Int, absolute : Int, revoked : Int]

\* A session that was not created yet.
NoSession == [company |-> None, idle |-> Never, absolute |-> Never, revoked |-> Never]

\* newSessionWindow, and a session that has entered no company.
NewSession(now) ==
  [company |-> None, idle |-> now + Idle, absolute |-> now + Absolute, revoked |-> Never]

\* extendIdleWindow
extendIdleWindow(row, now) ==
  IF now + Idle > row.absolute THEN row.absolute ELSE now + Idle

\* evaluateSession
Live(row, now) == row.revoked = Never /\ now < row.absolute /\ now < row.idle

\* The predicate of touch, setActiveCompany, revoke and revokeAllForUser.
Unrevoked(row) == row # NoSession /\ row.revoked = Never

\* Wrong: the window slides whatever has become of the session.
touchedAlways(row, now) == [row EXCEPT !.idle = extendIdleWindow(row, now)]

\* touch: the idle window slides, of a session that has not been revoked.
touched(row, now) ==
  IF Unrevoked(row) THEN [row EXCEPT !.idle = extendIdleWindow(row, now)] ELSE row

NoAsk == CHOOSE q \in Asked : TRUE

PCs == {"idle", "touch", "context", "can", "again", "work", "grants",
        "assign", "remove", "own", "verify", "enter"}

Entitlement == {"session", "member", "permission", "role", "target"}

NoMember == CHOOSE m \in Membership : TRUE

TypeOK ==
  /\ sessions \in [Session -> SessionRow]
  /\ active \subseteq Membership
  /\ assigned \subseteq Assignment
  /\ pc \in [Request -> PCs]
  /\ req \in [Request -> Ask]
  /\ readAt \in [Request -> Nat]
  /\ principal \in [Request -> Company \cup {None}]
  /\ membership \in [Request -> Membership]
  /\ held \in [Request -> SUBSET Permission]
  /\ clock \in Nat /\ arrivals \in Nat /\ changes \in Nat
  /\ seen \in [Request -> SUBSET Entitlement]

\* Sessions may have been opened and companies entered before.
Init ==
  /\ sessions \in [Session -> {NoSession} \cup
       {[NewSession(0) EXCEPT !.company = c] : c \in Company}]
  /\ \A s \in Session : sessions[s].company # None =>
       \E m \in Membership :
         MemberUser[m] = SessionUser[s] /\ MemberCompany[m] = sessions[s].company
  /\ active = Membership
  /\ assigned = Founding
  /\ pc = [r \in Request |-> "idle"]
  /\ req = [r \in Request |-> NoAsk]
  /\ readAt = [r \in Request |-> 0]
  /\ principal = [r \in Request |-> None]
  /\ membership = [r \in Request |-> NoMember]
  /\ held = [r \in Request |-> {}]
  /\ clock = 0 /\ arrivals = 0 /\ changes = 0
  /\ seen = [r \in Request |-> {}]

-----------------------------------------------------------------------------
(* The request between its transactions *)

UserOf(r) == SessionUser[req[r].session]

\* What a user holds in a company, by whatever roles.
Authority(user, company) ==
  UNION {Grants[a.role] : a \in {b \in assigned :
    /\ MemberUser[b.membership] = user /\ MemberCompany[b.membership] = company
    /\ RoleCompany[b.role] = company}}

Needs(r) ==
  CASE req[r].kind = "switch" -> {"session", "target"}
    [] req[r].kind = "assign" -> {"session", "member", "permission", "role"}
    [] OTHER -> {"session", "member", "permission"}

\* What is true now of a request that is under way.
Entitled(r) ==
  LET held_now == Authority(UserOf(r), principal[r])
      member(company) == \E m \in active :
        MemberUser[m] = UserOf(r) /\ MemberCompany[m] = company
      true(e) ==
        CASE e = "session" -> Live(sessions[req[r].session], clock)
          [] e = "member" -> member(principal[r])
          [] e = "permission" -> req[r].permission \in held_now
          [] e = "role" -> \A k \in Role :
               KeyOf[k] = req[r].key /\ RoleCompany[k] = principal[r]
                 => Grants[k] \subseteq held_now
          [] e = "target" -> member(req[r].company)
  IN  IF pc[r] = "idle" THEN {} ELSE {e \in Needs(r) : true(e)}

\* What is true before a step is seen by every request that is not over with it.
Observe ==
  seen' = [r \in Request |->
            IF pc'[r] = "idle" THEN {} ELSE seen[r] \cup Entitled(r)]

ScopeOf(r) == actorScope(principal[r], UserOf(r))

GoTo(r, at) == pc' = [pc EXCEPT ![r] = at] /\ Observe

\* Answered, refused or lost: what the request held is gone.
End(r) ==
  /\ GoTo(r, "idle")
  /\ req' = [req EXCEPT ![r] = NoAsk]
  /\ readAt' = [readAt EXCEPT ![r] = 0]
  /\ principal' = [principal EXCEPT ![r] = None]
  /\ membership' = [membership EXCEPT ![r] = NoMember]
  /\ held' = [held EXCEPT ![r] = {}]

rows == <<sessions, active, assigned>>

Refuse(r) ==
  /\ End(r)
  /\ UNCHANGED <<rows, clock, bounds>>

\* validate: the session is found and it is live.  The guard attaches the
\* company it has now.
Validate(r) ==
  /\ pc[r] = "idle" /\ arrivals < MaxRequests
  /\ \E q \in Asked :
       /\ Live(sessions[q.session], clock)
       /\ req' = [req EXCEPT ![r] = q]
       /\ principal' = [principal EXCEPT ![r] = sessions[q.session].company]
  /\ readAt' = [readAt EXCEPT ![r] = clock]
  /\ arrivals' = arrivals + 1
  /\ GoTo(r, "touch")
  /\ UNCHANGED <<rows, membership, held, clock, changes>>

\* validate: the idle window slides, from the moment that was read, unless the
\* session has been revoked since.  The request goes on either way.
Touch(r) ==
  /\ pc[r] = "touch"
  /\ sessions' = [sessions EXCEPT ![req[r].session] = touched(@, readAt[r])]
  /\ GoTo(r, IF req[r].kind = "switch" THEN "own" ELSE "context")
  /\ UNCHANGED <<active, assigned, req, readAt, principal, membership, held, clock, bounds>>

\* Wrong: the company of the session is believed.
Believed(r) == {m \in Membership : MemberCompany[m] = principal[r]}

\* currentContext: a membership of the user, in force, in the principal's company.
currentContext(r) ==
  IF principal[r] = None THEN {}
  ELSE contextFor(listOwn(principalScope(UserOf(r)), active), principal[r])

\* The guard, and then the controller (contextOf), resolves the company.
Context(r) ==
  /\ pc[r] \in {"context", "again"}
  /\ \E m \in currentContext(r) : membership' = [membership EXCEPT ![r] = m]
  /\ GoTo(r, IF pc[r] = "context" THEN "can"
             ELSE IF req[r].kind = "assign" THEN "grants" ELSE req[r].kind)
  /\ UNCHANGED <<rows, req, readAt, principal, held, clock, bounds>>

NoContext(r) ==
  /\ pc[r] \in {"context", "again"} /\ currentContext(r) = {}
  /\ Refuse(r)

grantsFor(r) == listPermissionsForMembership(ScopeOf(r), membership[r], assigned)

\* can: the permission the route declares is among the grants.
Can(r) ==
  /\ pc[r] = "can" /\ req[r].permission \in grantsFor(r)
  /\ GoTo(r, "again")
  /\ UNCHANGED <<rows, req, readAt, principal, membership, held, clock, bounds>>

Cannot(r) ==
  /\ pc[r] = "can" /\ req[r].permission \notin grantsFor(r)
  /\ Refuse(r)

\* A handler does what its route is for.
Work(r) ==
  /\ pc[r] = "work"
  /\ Refuse(r)

-----------------------------------------------------------------------------
(* Roles of members *)

\* assignRole: the grants of the actor, in a transaction of their own.
ReadGrants(r) ==
  /\ pc[r] = "grants"
  /\ held' = [held EXCEPT ![r] = grantsFor(r)]
  /\ GoTo(r, "assign")
  /\ UNCHANGED <<rows, req, readAt, principal, membership, clock, bounds>>

\* Wrong: whoever administers users may give any role.
AnyRole(r, role) == TRUE

\* Nothing is granted that the actor does not hold.
Covered(r, role) == listPermissionsForRole(ScopeOf(r), role) \subseteq held[r]

\* The role its key names in the company, and a membership of the company.
Assignments(r) ==
  {[membership |-> req[r].membership, role |-> k, company |-> principal[r]] :
    k \in {l \in rolesNamed(ScopeOf(r), req[r].key) :
             findMembership(ScopeOf(r), req[r].membership)}}

\* assignRole: on conflict, nothing; audited.
Assign(r) ==
  /\ pc[r] = "assign"
  /\ \E a \in Assignments(r) :
       Covered(r, a.role) /\ assigned' = assigned \cup {a}
  /\ End(r)
  /\ UNCHANGED <<sessions, active, clock, bounds>>

\* not_found and would_escalate
AssignRefused(r) ==
  /\ pc[r] = "assign"
  /\ \A a \in Assignments(r) : ~Covered(r, a.role)
  /\ Refuse(r)

\* removeRole
RemoveRole(r) ==
  /\ pc[r] = "remove"
  /\ assigned' = assigned \ Assignments(r)
  /\ End(r)
  /\ UNCHANGED <<sessions, active, clock, bounds>>

-----------------------------------------------------------------------------
(* Sessions *)

\* switchCompany: the memberships of the user name the tenant of the company.
Own(r) ==
  /\ pc[r] = "own"
  /\ \E m \in contextFor(listOwn(principalScope(UserOf(r)), active), req[r].company) :
       membership' = [membership EXCEPT ![r] = m]
  /\ GoTo(r, "verify")
  /\ UNCHANGED <<rows, req, readAt, principal, held, clock, bounds>>

Target(r) == actorScope(req[r].company, UserOf(r))

\* switchCompany: the check that counts, in the transaction that writes.
Verify(r) ==
  /\ pc[r] = "verify" /\ findOwnForActiveCompany(Target(r), active) # {}
  /\ GoTo(r, "enter")
  /\ UNCHANGED <<rows, req, readAt, principal, membership, held, clock, bounds>>

NotAMember(r) ==
  /\ \/ pc[r] = "own"
        /\ contextFor(listOwn(principalScope(UserOf(r)), active), req[r].company) = {}
     \/ pc[r] = "verify" /\ findOwnForActiveCompany(Target(r), active) = {}
  /\ Refuse(r)

\* switchCompany: setActiveCompany, of a session that has not been revoked.
Enter(r) ==
  LET s == req[r].session IN
  /\ pc[r] = "enter"
  /\ sessions' = IF Unrevoked(sessions[s])
                 THEN [sessions EXCEPT ![s].company = Target(r).company]
                 ELSE sessions
  /\ End(r)
  /\ UNCHANGED <<active, assigned, clock, bounds>>

\* login: a session that has entered no company.
Login(s) ==
  /\ sessions[s] = NoSession
  /\ sessions' = [sessions EXCEPT ![s] = NewSession(clock)]
  /\ UNCHANGED <<active, assigned, work, clock, bounds>>
  /\ Observe

Revoked(S) ==
  [s \in Session |-> IF s \in S /\ Unrevoked(sessions[s])
                     THEN [sessions[s] EXCEPT !.revoked = clock]
                     ELSE sessions[s]]

\* logout, with the token of any session, live or not; or revokeAllSessionsForUser.
Revoke ==
  /\ \E u \in User :
       LET own == {s \in Session : SessionUser[s] = u}
       IN  \E S \in {own} \cup {{s} : s \in own} : sessions' = Revoked(S)
  /\ UNCHANGED <<active, assigned, work, clock, bounds>>
  /\ Observe

-----------------------------------------------------------------------------
(* The rest *)

\* External: no code of the repository suspends or restores a membership.
MembershipChanges ==
  /\ changes < MaxChanges
  /\ changes' = changes + 1
  /\ \E m \in Membership :
       active' = IF m \in active THEN active \ {m} ELSE active \cup {m}
  /\ UNCHANGED <<sessions, assigned, work, clock, arrivals>>
  /\ Observe

\* The process or the connection ends between two transactions of a request.
Crash(r) ==
  /\ pc[r] # "idle"
  /\ Refuse(r)

\* Bound: no request is more than MaxAge behind the clock.
Tick ==
  /\ clock < Horizon
  /\ \A r \in Request : pc[r] # "idle" => clock - readAt[r] < MaxAge
  /\ clock' = clock + 1
  /\ UNCHANGED <<rows, work, bounds>>
  /\ Observe

Step(r) ==
  \/ Validate(r) \/ Touch(r)
  \/ Context(r) \/ NoContext(r) \/ Can(r) \/ Cannot(r) \/ Work(r)
  \/ ReadGrants(r) \/ Assign(r) \/ AssignRefused(r) \/ RemoveRole(r)
  \/ Own(r) \/ Verify(r) \/ NotAMember(r) \/ Enter(r)
  \/ Crash(r)

Next ==
  \/ \E r \in Request : Step(r)
  \/ \E s \in Session : Login(s)
  \/ Revoke
  \/ MembershipChanges
  \/ Tick

Spec == Init /\ [][Next]_vars

-----------------------------------------------------------------------------
(* Properties *)

\* r has its effect in this step.
Acts(r) ==
  /\ pc[r] # "idle" /\ pc'[r] = "idle"
  /\ \/ pc[r] = "work"
     \/ pc[r] \in {"assign", "remove"} /\ assigned' # assigned
     \/ pc[r] = "enter" /\ sessions' # sessions

\* Whatever a request does, each thing it needed was true at some moment since
\* it arrived: the session was live, the user was a member of the company it
\* acts in, held the permission of the route there, and held all that a role it
\* gave away grants.  (AccessGuard.canActivate, assignRole, switchCompany.)
ActsWhileEntitled ==
  [][\A r \in Request : Acts(r) => Needs(r) \subseteq seen[r] \cup Entitled(r)]_vars

\* A session only comes closer to its end: the absolute end is fixed and bounds
\* the idle end, and once revoked nothing revives it, whatever was read of it
\* before.  (touch, setActiveCompany, revoke; extendIdleWindow.)  A session that
\* has expired is not one that was revoked: setActiveCompany may still write it.
SessionsOnlyEnd ==
  [][\A s \in Session : sessions[s] # NoSession =>
       /\ sessions'[s].absolute = sessions[s].absolute
       /\ sessions'[s].idle <= sessions[s].absolute
       /\ sessions[s].revoked # Never => sessions'[s] = sessions[s]]_vars

\* What is held in a company, by all its users.
Exercised(company) == UNION {Authority(u, company) : u \in User}

Provisioned(company) ==
  UNION {Grants[a.role] : a \in {b \in Founding : b.company = company}}

\* No sequence of assignments brings a permission into a company that none of
\* those it was provisioned with held there.  (assignRole refuses to escalate.)
AuthorityNeverGrows ==
  \A c \in Company : Exercised(c) \subseteq Provisioned(c)
=============================================================================
