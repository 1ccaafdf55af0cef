---------------------------- MODULE CompanyProofs ----------------------------
(***************************************************************************)
(* For any number of requests, users, companies and roles: what requests   *)
(* do they were entitled to, no permission enters a company through an     *)
(* assignment, and sessions only come closer to their end.  For any        *)
(* migrations, runners, seeds and dataset: the recorded history is what    *)
(* was executed, and a company that is there is whole.                     *)
(*                                                                         *)
(* The invariant of access says, for each place a request can be at, what  *)
(* it has been shown to be entitled to: a thing that is true of a request  *)
(* now is recorded by the next step, whoever takes it, and is not          *)
(* forgotten before the request ends.  That of setting up says what is     *)
(* between two commits: what the runner that holds the lock may still      *)
(* apply, and how much of its transaction a seed has inserted.             *)
(***************************************************************************)
EXTENDS CompanyAccess, Setup, SequenceTheorems, WellFoundedInduction, TLAPS

-----------------------------------------------------------------------------
(* Access to a company *)


\* Past its guard's first transaction, a request has a company and the membership
\* of its user there.
Placed ==
  \A r \in Request :
    pc[r] \in {"can", "again", "work", "grants", "assign", "remove"} =>
      /\ principal[r] \in Company
      /\ MemberUser[membership[r]] = UserOf(r)
      /\ MemberCompany[membership[r]] = principal[r]

\* The end of a session that exists, and of its idle window.
Windows ==
  \A s \in Session : sessions[s] # NoSession => sessions[s].idle <= sessions[s].absolute

\* An assignment is of one company, and grants nothing new there; nor does what
\* a request has read.
Contained ==
  /\ \A a \in assigned :
       /\ MemberCompany[a.membership] = a.company /\ RoleCompany[a.role] = a.company
       /\ Grants[a.role] \subseteq Provisioned(a.company)
  /\ \A r \in Request : pc[r] = "assign" => held[r] \subseteq Provisioned(principal[r])

Knows(r, e) == e \in seen[r] \cup Entitled(r)

\* What has been established of a request by the time it is where it is.
Shown ==
  \A r \in Request :
    /\ pc[r] # "idle" => Knows(r, "session")
    /\ pc[r] \in {"can", "again", "work", "grants", "assign", "remove"} => Knows(r, "member")
    /\ pc[r] \in {"again", "work", "grants", "assign", "remove"} => Knows(r, "permission")
    /\ pc[r] = "assign" =>
         ((\A k \in Role : KeyOf[k] = req[r].key /\ RoleCompany[k] = principal[r]
             => Grants[k] \subseteq held[r]) => Knows(r, "role"))
    /\ pc[r] \in {"verify", "enter"} => Knows(r, "target")

\* Where requests of a kind go.
Tracks ==
  \A r \in Request :
    /\ pc[r] \in {"work"} => req[r].kind = "work"
    /\ pc[r] \in {"grants", "assign"} => req[r].kind = "assign"
    /\ pc[r] \in {"remove"} => req[r].kind = "remove"
    /\ pc[r] \in {"own", "verify", "enter"} => req[r].kind = "switch"
    /\ pc[r] \in {"context", "can", "again"} => req[r].kind # "switch"

IInv == TypeOK /\ Placed /\ Windows /\ Contained /\ Tracks /\ Shown

-----------------------------------------------------------------------------
(* What the queries return *)

\* A context is a membership in force, of the user, in the principal's company.
LEMMA ContextIs ==
  ASSUME TypeOK, NEW r \in Request, NEW m \in currentContext(r)
  PROVE  /\ m \in active /\ m \in Membership
         /\ MemberUser[m] = UserOf(r) /\ MemberCompany[m] = principal[r]
         /\ principal[r] \in Company
<1>1. principal[r] # None /\ principal[r] \in Company
  BY DEF currentContext, TypeOK
<1>2. m \in contextFor(listOwn(principalScope(UserOf(r)), active), principal[r])
  BY <1>1 DEF currentContext
<1> QED BY <1>1, <1>2 DEF contextFor, listOwn, principalScope, TypeOK

\* The same, of the company a session is to be entered in.
LEMMA TargetIs ==
  ASSUME TypeOK, NEW r \in Request, findOwnForActiveCompany(Target(r), active) # {}
  PROVE  \E m \in active :
           MemberUser[m] = UserOf(r) /\ MemberCompany[m] = req[r].company
BY DEF findOwnForActiveCompany, Target, actorScope, InScope

\* A grant read by the guard is one of an assignment of the membership in the company.
LEMMA GrantIs ==
  ASSUME TypeOK, NEW r \in Request, NEW p \in grantsFor(r)
  PROVE  \E a \in assigned :
           /\ a.membership = membership[r] /\ a.company = principal[r]
           /\ RoleCompany[a.role] = principal[r] /\ p \in Grants[a.role]
<1> DEFINE own == {b \in assigned :
      /\ b.membership = membership[r]
      /\ CompanyPolicy(ScopeOf(r), b.company) /\ InScope(ScopeOf(r), b.company)}
<1>1. PICK a \in own : p \in listPermissionsForRole(ScopeOf(r), a.role)
  BY DEF grantsFor, listPermissionsForMembership
<1>2. InScope(ScopeOf(r), RoleCompany[a.role]) /\ p \in Grants[a.role]
  BY <1>1 DEF listPermissionsForRole
<1>3. ScopeOf(r).company = principal[r]
  BY DEF ScopeOf, actorScope
<1> QED BY <1>1, <1>2, <1>3 DEF InScope

LEMMA AuthorityIs ==
  ASSUME NEW u, NEW c, NEW a \in assigned,
         MemberUser[a.membership] = u, MemberCompany[a.membership] = c,
         RoleCompany[a.role] = c, NEW p \in Grants[a.role]
  PROVE  p \in Authority(u, c)
<1>1. a \in {b \in assigned :
        /\ MemberUser[b.membership] = u /\ MemberCompany[b.membership] = c
        /\ RoleCompany[b.role] = c}
  OBVIOUS
<1> QED BY <1>1 DEF Authority

\* What the guard reads is what the user holds in the company.
LEMMA GrantsAreAuthority ==
  ASSUME TypeOK, NEW r \in Request,
         MemberUser[membership[r]] = UserOf(r), MemberCompany[membership[r]] = principal[r]
  PROVE  grantsFor(r) \subseteq Authority(UserOf(r), principal[r])
<1> SUFFICES ASSUME NEW p \in grantsFor(r)
             PROVE  p \in Authority(UserOf(r), principal[r])
  OBVIOUS
<1>1. PICK a \in assigned :
        /\ a.membership = membership[r] /\ a.company = principal[r]
        /\ RoleCompany[a.role] = principal[r] /\ p \in Grants[a.role]
  BY GrantIs
<1> QED BY <1>1, AuthorityIs

\* An assignment a request may write is of its company, on every side.
LEMMA AssignmentIs ==
  ASSUME TypeOK, NEW r \in Request, principal[r] \in Company, NEW a \in Assignments(r)
  PROVE  /\ a \in Assignment /\ a.company = principal[r]
         /\ MemberCompany[a.membership] = a.company /\ RoleCompany[a.role] = a.company
         /\ KeyOf[a.role] = req[r].key
         /\ Covered(r, a.role) => Grants[a.role] \subseteq held[r]
<1>1. PICK k \in rolesNamed(ScopeOf(r), req[r].key) :
        /\ a = [membership |-> req[r].membership, role |-> k, company |-> principal[r]]
        /\ findMembership(ScopeOf(r), req[r].membership)
  BY DEF Assignments
<1>2. /\ k \in Role /\ KeyOf[k] = req[r].key
      /\ CompanyPolicy(ScopeOf(r), RoleCompany[k]) /\ InScope(ScopeOf(r), RoleCompany[k])
  BY <1>1 DEF rolesNamed
<1>3. listPermissionsForRole(ScopeOf(r), k) = Grants[k]
  BY <1>2 DEF listPermissionsForRole
<1>4. MemberCompany[req[r].membership] = principal[r] /\ RoleCompany[k] = principal[r]
  BY <1>1, <1>2 DEF findMembership, InScope, ScopeOf, actorScope
<1>5. req[r].membership \in Membership
  BY DEF TypeOK, Ask
<1>6. a \in Assignment
  BY <1>1, <1>2, <1>5 DEF Assignment
<1> QED BY <1>1, <1>2, <1>3, <1>4, <1>6 DEF Covered

-----------------------------------------------------------------------------
(* What counts as being entitled *)

LEMMA SessionCounts ==
  ASSUME NEW r \in Request, pc[r] # "idle", Live(sessions[req[r].session], clock)
  PROVE  "session" \in Entitled(r)
BY DEF Entitled, Needs

LEMMA MemberCounts ==
  ASSUME NEW r \in Request, pc[r] # "idle", req[r].kind # "switch", NEW m \in active,
         MemberUser[m] = UserOf(r), MemberCompany[m] = principal[r]
  PROVE  "member" \in Entitled(r)
BY DEF Entitled, Needs

LEMMA PermissionCounts ==
  ASSUME NEW r \in Request, pc[r] # "idle", req[r].kind # "switch",
         req[r].permission \in Authority(UserOf(r), principal[r])
  PROVE  "permission" \in Entitled(r)
BY DEF Entitled, Needs

LEMMA RoleCounts ==
  ASSUME NEW r \in Request, pc[r] # "idle", req[r].kind = "assign",
         \A k \in Role : KeyOf[k] = req[r].key /\ RoleCompany[k] = principal[r]
           => Grants[k] \subseteq Authority(UserOf(r), principal[r])
  PROVE  "role" \in Entitled(r)
BY DEF Entitled, Needs

LEMMA TargetCounts ==
  ASSUME NEW r \in Request, pc[r] # "idle", req[r].kind = "switch", NEW m \in active,
         MemberUser[m] = UserOf(r), MemberCompany[m] = req[r].company
  PROVE  "target" \in Entitled(r)
BY DEF Entitled, Needs

\* Nothing is forgotten of a request that is not over.
LEMMA Remembered ==
  ASSUME Observe, NEW r \in Request, pc'[r] # "idle", NEW e, Knows(r, e)
  PROVE  Knows(r, e)'
BY DEF Observe, Knows

-----------------------------------------------------------------------------
(* Types *)

LEMMA NoAskIsOne == NoAsk \in Asked /\ NoAsk \in Ask
BY ConstantsAssumption DEF NoAsk

LEMMA NoMemberIsOne == NoMember \in Membership
BY ConstantsAssumption DEF NoMember

LEMMA NewSessionTyped ==
  ASSUME NEW now \in Nat, NEW c \in Company \cup {None}
  PROVE  /\ NewSession(now) \in SessionRow
         /\ [NewSession(now) EXCEPT !.company = c] \in SessionRow
         /\ NewSession(now).idle <= NewSession(now).absolute
         /\ [NewSession(now) EXCEPT !.company = c].idle
              <= [NewSession(now) EXCEPT !.company = c].absolute
         /\ NewSession(now).absolute # Never
BY ConstantsAssumption DEF NewSession, SessionRow, Never

LEMMA NoSessionTyped == NoSession \in SessionRow /\ NoSession.company = None
BY DEF NoSession, SessionRow, Never

LEMMA RowKept ==
  ASSUME NEW row \in SessionRow, NEW i \in Int, NEW c \in Company \cup {None}
  PROVE  /\ [row EXCEPT !.idle = i] \in SessionRow
         /\ [row EXCEPT !.company = c] \in SessionRow
         /\ [row EXCEPT !.revoked = i] \in SessionRow
         /\ [row EXCEPT !.idle = i].absolute = row.absolute
         /\ [row EXCEPT !.idle = i].idle = i
         /\ [row EXCEPT !.company = c].absolute = row.absolute
         /\ [row EXCEPT !.company = c].idle = row.idle
         /\ [row EXCEPT !.revoked = i].absolute = row.absolute
         /\ [row EXCEPT !.revoked = i].idle = row.idle
BY DEF SessionRow

LEMMA OneRowChanged ==
  ASSUME TypeOK, NEW s \in Session, NEW i \in Int, NEW c \in Company \cup {None}
 
        PROVE  /\ [sessions EXCEPT ![s].idle = i] = [sessions EXCEPT ![s] = [@ EXCEPT !.idle = i]]
         /\ [sessions EXCEPT ![s].company = c]
              = [sessions EXCEPT ![s] = [@ EXCEPT !.company = c]]
         /\ [sessions EXCEPT ![s].idle = i] \in [Session -> SessionRow]
         /\ [sessions EXCEPT ![s].company = c] \in [Session -> SessionRow]
<1>1. sessions[s] \in SessionRow
  BY DEF TypeOK
<1>2. [sessions[s] EXCEPT !.idle = i] \in SessionRow
  BY <1>1, RowKept
<1>3. [sessions[s] EXCEPT !.company = c] \in SessionRow
  BY <1>1, RowKept
<1> QED BY <1>2, <1>3 DEF TypeOK

LEMMA Extended ==
  ASSUME NEW row \in SessionRow, NEW now \in Nat
 
        PROVE  extendIdleWindow(row, now) \in Int /\ extendIdleWindow(row, now) <= row.absolute
BY ConstantsAssumption DEF SessionRow, extendIdleWindow

-----------------------------------------------------------------------------
(* Initially *)

LEMMA InitInv == Init => IInv
<1> SUFFICES ASSUME Init PROVE IInv
  OBVIOUS
<1>1. ASSUME NEW s \in Session
      PROVE  sessions[s] \in SessionRow
             /\ (sessions[s] # NoSession => sessions[s].idle <= sessions[s].absolute)
  <2>1. CASE sessions[s] = NoSession
    BY <2>1, NoSessionTyped
  <2>2. ASSUME NEW c \in Company, sessions[s] = [NewSession(0) EXCEPT !.company = c]
       
              PROVE  sessions[s] \in SessionRow /\ sessions[s].idle <= sessions[s].absolute
    <3>1. c \in Company \cup {None} /\ 0 \in Nat
      OBVIOUS
    <3>2. /\ [NewSession(0) EXCEPT !.company = c] \in SessionRow
          /\ [NewSession(0) EXCEPT !.company = c].idle
               <= [NewSession(0) EXCEPT !.company = c].absolute
      BY <3>1, NewSessionTyped
    <3> QED BY <2>2, <3>2
  <2> QED BY <2>1, <2>2 DEF Init
<1>2. sessions \in [Session -> SessionRow]
  BY <1>1 DEF Init
<1>3. TypeOK
  BY <1>2, NoAskIsOne, NoMemberIsOne, ConstantsAssumption DEF Init, TypeOK, PCs
<1>4. Placed /\ Shown /\ Tracks
  BY DEF Init, Placed, Shown, Tracks
<1>5. Windows
  BY <1>1 DEF Windows
<1>6. Contained
  <2>1. ASSUME NEW a \in Founding
        PROVE Grants[a.role] \subseteq Provisioned(a.company)
    BY DEF Provisioned
  <2> QED BY <2>1, ConstantsAssumption DEF Init, Contained
<1> QED BY <1>3, <1>4, <1>5, <1>6 DEF IInv

-----------------------------------------------------------------------------
(* Types are kept *)

LEMMA ObserveTyped ==
  ASSUME TypeOK, Observe
  PROVE  seen' \in [Request -> SUBSET Entitlement]
<1>1. ASSUME NEW r \in Request PROVE Entitled(r) \subseteq Entitlement
  <2>1. Needs(r) \subseteq Entitlement
    BY DEF Needs, Entitlement
  <2> QED BY <2>1 DEF Entitled
<1> QED BY <1>1 DEF Observe, TypeOK

WorkTyped ==
  /\ pc \in [Request -> PCs]
  /\ req \in [Request -> Ask]
  /\ readAt \in [Request -> Nat]
  /\ principal \in [Request -> Company \cup {None}]
  /\ membership \in [Request -> Membership]
  /\ held \in [Request -> SUBSET Permission]
  /\ seen \in [Request -> SUBSET Entitlement]

LEMMA EndTyped ==
  ASSUME TypeOK, NEW r \in Request, End(r)
  PROVE  WorkTyped'
<1>1. seen' \in [Request -> SUBSET Entitlement]
  BY ObserveTyped DEF End, GoTo
<1> QED BY <1>1, NoAskIsOne, NoMemberIsOne DEF End, GoTo, TypeOK, WorkTyped, PCs

\* A request that goes on.
LEMMA GoesOnTyped ==
  ASSUME TypeOK, NEW r \in Request, NEW where \in PCs, GoTo(r, where),
         req' \in [Request -> Ask], readAt' \in [Request -> Nat],
         principal' \in [Request -> Company \cup {None}],
         membership' \in [Request -> Membership],
         held' \in [Request -> SUBSET Permission]
  PROVE  WorkTyped'
<1>1. seen' \in [Request -> SUBSET Entitlement]
  BY ObserveTyped DEF GoTo
<1> QED BY <1>1 DEF GoTo, TypeOK, WorkTyped

LEMMA StaysTyped ==
  ASSUME TypeOK, Observe, UNCHANGED work
  PROVE  WorkTyped'
<1>1. seen' \in [Request -> SUBSET Entitlement]
  BY ObserveTyped
<1> QED BY <1>1 DEF TypeOK, WorkTyped, work

LEMMA AskTyped ==
  ASSUME NEW q \in Asked
  PROVE  q \in Ask /\ q.session \in Session /\ q.company \in Company
BY ConstantsAssumption DEF Ask

LEMMA RequestTyped ==
  ASSUME TypeOK, NEW r \in Request
  PROVE  /\ req[r].session \in Session /\ req[r].company \in Company
         /\ req[r].kind \in {"work", "assign", "remove", "switch"}
         /\ sessions[req[r].session] \in SessionRow
BY DEF TypeOK, Ask

LEMMA TypesKept ==
  ASSUME TypeOK, Placed, Tracks, [Next]_vars
  PROVE  TypeOK'
<1>0. WorkTyped
  BY DEF TypeOK, WorkTyped
<1>a. CASE UNCHANGED vars
  BY <1>a DEF TypeOK, vars, work, bounds
<1>b. ASSUME NEW r \in Request, Refuse(r) PROVE TypeOK'
  BY <1>b, EndTyped DEF Refuse, TypeOK, WorkTyped, rows, bounds
<1>1. ASSUME NEW r \in Request, Validate(r) PROVE TypeOK'
  <2>1. PICK q \in Asked :
          /\ req' = [req EXCEPT ![r] = q]
          /\ principal' = [principal EXCEPT ![r] = sessions[q.session].company]
    BY <1>1 DEF Validate
  <2>2. q \in Ask /\ sessions[q.session].company \in Company \cup {None}
    BY AskTyped DEF TypeOK, SessionRow
  <2>3. WorkTyped'
    BY <1>1, <2>1, <2>2, GoesOnTyped DEF Validate, TypeOK, PCs
  <2> QED BY <1>1, <2>3 DEF Validate, TypeOK, WorkTyped, rows
<1>2. ASSUME NEW r \in Request, Touch(r) PROVE TypeOK'
  <2>1. WorkTyped'
    BY <1>2, GoesOnTyped DEF Touch, TypeOK, PCs
  <2>2. readAt[r] \in Nat
    BY DEF TypeOK
  <2>3. sessions' \in [Session -> SessionRow]
    <3> DEFINE s == req[r].session
               i == extendIdleWindow(sessions[s], readAt[r])
    <3>1. s \in Session /\ sessions[s] \in SessionRow
      BY RequestTyped
    <3>2. i \in Int
      BY <2>2, <3>1, Extended
    <3>3. None \in Company \cup {None}
      OBVIOUS
    <3>4. [sessions EXCEPT ![s].idle = i] \in [Session -> SessionRow]
      <4> HIDE DEF s, i
      <4> QED BY <3>1, <3>2, <3>3, OneRowChanged
    <3>5. sessions' = [sessions EXCEPT ![s].idle = i] \/ sessions' = sessions
      <4>1. sessions' = [sessions EXCEPT ![s] = touched(sessions[s], readAt[r])]
        BY <1>2, <3>1 DEF Touch
      <4>2. touched(sessions[s], readAt[r]) \in {[sessions[s] EXCEPT !.idle = i], sessions[s]}
        BY DEF touched
      <4> HIDE DEF s, i
      <4> QED BY <3>1, <4>1, <4>2 DEF TypeOK
    <3> QED BY <3>4, <3>5 DEF TypeOK
  <2> QED BY <1>2, <2>1, <2>3 DEF Touch, TypeOK, WorkTyped, bounds
<1>3. ASSUME NEW r \in Request, Context(r) PROVE TypeOK'
  <2>1. PICK m \in currentContext(r) : membership' = [membership EXCEPT ![r] = m]
    BY <1>3 DEF Context
  <2>2. m \in Membership
    BY ContextIs
  <2>3. ASSUME pc[r] = "again"
        PROVE req[r].kind \in {"work", "assign", "remove"}
    BY <2>3, RequestTyped DEF Tracks
  <2>4. CASE pc[r] = "context"
    BY <1>3, <2>1, <2>2, <2>4, GoesOnTyped DEF Context, TypeOK, WorkTyped, PCs,
       rows, bounds
  <2>5. CASE pc[r] = "again"
    <3>1. PICK where \in PCs : GoTo(r, where)
      BY <1>3, <2>3, <2>5 DEF Context, PCs
    <3>2. WorkTyped'
      BY <1>3, <2>1, <2>2, <3>1, GoesOnTyped DEF Context, TypeOK
    <3> QED BY <1>3, <3>2 DEF Context, TypeOK, WorkTyped, rows, bounds
  <2> QED BY <1>3, <2>4, <2>5 DEF Context
<1>4. ASSUME NEW r \in Request, Can(r) PROVE TypeOK'
  <2>1. WorkTyped'
    BY <1>4, GoesOnTyped DEF Can, TypeOK, PCs
  <2> QED BY <1>4, <2>1 DEF Can, TypeOK, WorkTyped, rows, bounds
<1>5. ASSUME NEW r \in Request, ReadGrants(r) PROVE TypeOK'
  <2>1. grantsFor(r) \subseteq Permission
    BY GrantIs, TenancyAssumption DEF TypeOK, Assignment
  <2>2. WorkTyped'
    BY <1>5, <2>1, GoesOnTyped DEF ReadGrants, TypeOK, PCs
  <2> QED BY <1>5, <2>2 DEF ReadGrants, TypeOK, WorkTyped, rows, bounds
<1>6. ASSUME NEW r \in Request, Assign(r) PROVE TypeOK'
  <2>1. principal[r] \in Company
    BY <1>6 DEF Assign, Placed
  <2>2. assigned' \subseteq Assignment
    BY <1>6, <2>1, AssignmentIs DEF Assign, TypeOK
  <2> QED BY <1>6, <2>2, EndTyped DEF Assign, TypeOK, WorkTyped, bounds
<1>7. ASSUME NEW r \in Request, RemoveRole(r) PROVE TypeOK'
  BY <1>7, EndTyped DEF RemoveRole, TypeOK, WorkTyped, bounds
<1>8. ASSUME NEW r \in Request, Own(r) PROVE TypeOK'
  <2>1. PICK m \in contextFor(listOwn(principalScope(UserOf(r)), active), req[r].company) :
          membership' = [membership EXCEPT ![r] = m]
    BY <1>8 DEF Own
  <2>2. m \in Membership
    BY DEF contextFor, listOwn, TypeOK
  <2>3. WorkTyped'
    BY <1>8, <2>1, <2>2, GoesOnTyped DEF Own, TypeOK, PCs
  <2> QED BY <1>8, <2>3 DEF Own, TypeOK, WorkTyped, rows, bounds
<1>9. ASSUME NEW r \in Request, Verify(r) PROVE TypeOK'
  <2>1. WorkTyped'
    BY <1>9, GoesOnTyped DEF Verify, TypeOK, PCs
  <2> QED BY <1>9, <2>1 DEF Verify, TypeOK, WorkTyped, rows, bounds
<1>10. ASSUME NEW r \in Request, Enter(r) PROVE TypeOK'
  <2>1. Target(r).company = req[r].company
    BY DEF Target, actorScope
  <2>2. sessions' \in [Session -> SessionRow]
    <3> DEFINE s == req[r].session
               c == req[r].company
    <3>1. s \in Session /\ c \in Company \cup {None} /\ 0 \in Int
      BY RequestTyped
    <3>2. [sessions EXCEPT ![s].company = c] \in [Session -> SessionRow]
      <4> HIDE DEF s, c
      <4> QED BY <3>1, OneRowChanged
    <3>3. sessions' = [sessions EXCEPT ![s].company = c] \/ sessions' = sessions
      BY <1>10, <2>1 DEF Enter
    <3> QED BY <3>2, <3>3 DEF TypeOK
  <2> QED BY <1>10, <2>2, EndTyped DEF Enter, TypeOK, WorkTyped, bounds
<1>11. ASSUME NEW s \in Session, Login(s) PROVE TypeOK'
  <2>1. NewSession(clock) \in SessionRow
    BY NewSessionTyped DEF TypeOK
  <2>2. sessions' \in [Session -> SessionRow]
    BY <1>11, <2>1 DEF Login, TypeOK
  <2> QED BY <1>11, <2>2, StaysTyped DEF Login, TypeOK, WorkTyped, bounds
<1>12. ASSUME Revoke PROVE TypeOK'
  <2>1. ASSUME NEW S PROVE Revoked(S) \in [Session -> SessionRow]
    <3>1. ASSUME NEW s \in Session
          PROVE [sessions[s] EXCEPT !.revoked = clock] \in SessionRow
      <4>1. sessions[s] \in SessionRow /\ clock \in Int /\ None \in Company \cup {None}
        BY DEF TypeOK
      <4> QED BY <4>1, RowKept
    <3> QED BY <3>1 DEF Revoked, TypeOK
  <2> QED BY <1>12, <2>1, StaysTyped DEF Revoke, TypeOK, WorkTyped, bounds
<1>13. ASSUME MembershipChanges PROVE TypeOK'
  <2>1. active' \subseteq Membership
    BY <1>13 DEF MembershipChanges, TypeOK
  <2> QED BY <1>13, <2>1, StaysTyped DEF MembershipChanges, TypeOK, WorkTyped
<1>14. ASSUME Tick PROVE TypeOK'
  BY <1>14, StaysTyped DEF Tick, TypeOK, WorkTyped, rows, bounds
<1> QED
  BY <1>a, <1>b, <1>1, <1>2, <1>3, <1>4, <1>5, <1>6, <1>7, <1>8, <1>9, <1>10,
     <1>11,
     <1>12, <1>13, <1>14
  DEF Next, Step, NoContext, Cannot, Work, AssignRefused, NotAMember, Crash

-----------------------------------------------------------------------------
(* Requests move on their own *)

Same(r) ==
  /\ pc'[r] = pc[r] /\ req'[r] = req[r] /\ principal'[r] = principal[r]
  /\ membership'[r] = membership[r] /\ held'[r] = held[r]
  /\ pc[r] # "idle" => \A e : Knows(r, e) => Knows(r, e)'

\* A step is the request's own, or leaves it where it is.
LEMMA OwnOrSame ==
  ASSUME TypeOK, [Next]_vars, NEW r \in Request
  PROVE  Step(r) \/ Same(r)
<1>1. CASE UNCHANGED vars
  <2>1. UNCHANGED <<sessions, active, assigned, pc, req, principal, membership, held, clock, seen>>
    BY <1>1 DEF vars, work
  <2>2. UserOf(r)' = UserOf(r) /\ Needs(r)' = Needs(r)
    BY <2>1 DEF UserOf, Needs
  <2>3. Authority(UserOf(r), principal[r])' = Authority(UserOf(r), principal[r])
    BY <2>1 DEF Authority, UserOf
  <2>4. Entitled(r)' = Entitled(r)
    BY <2>1, <2>2, <2>3 DEF Entitled, Live
  <2> QED BY <2>1, <2>4 DEF Same, Knows
<1>2. ASSUME NEW q \in Request, Step(q), q # r PROVE Same(r)
  <2>1. /\ Observe
        /\ pc'[r] = pc[r] /\ req'[r] = req[r] /\ principal'[r] = principal[r]
        /\ membership'[r] = membership[r] /\ held'[r] = held[r]
    BY <1>2 DEF Step, Validate, Touch, Context, NoContext, Can, Cannot, Work,
       ReadGrants,
       Assign, AssignRefused, RemoveRole, Own, Verify, NotAMember, Enter, Crash, Refuse, End,
       GoTo, TypeOK
  <2> QED BY <2>1, Remembered DEF Same
<1>3. ASSUME Observe, UNCHANGED work PROVE Same(r)
  <2>1. /\ pc'[r] = pc[r] /\ req'[r] = req[r] /\ principal'[r] = principal[r]
        /\ membership'[r] = membership[r] /\ held'[r] = held[r]
    BY <1>3 DEF work
  <2> QED BY <1>3, <2>1, Remembered DEF Same
<1> QED
  BY <1>1, <1>2, <1>3 DEF Next, Login, Revoke, MembershipChanges, Tick

\* A request's step ends it, or is one of these.
LEMMA GoesOnOrEnds ==
  ASSUME TypeOK, NEW r \in Request, Step(r)
  PROVE  \/ pc'[r] = "idle"
         \/ /\ Observe
            /\ pc'[r] # "idle"
            /\ \/ Validate(r) \/ Touch(r) \/ Context(r) \/ Can(r) \/ ReadGrants(r)
               \/ Own(r) \/ Verify(r)
<1>1. ASSUME End(r) PROVE pc'[r] = "idle"
  BY <1>1 DEF End, GoTo, TypeOK
<1> QED
  BY <1>1 DEF Step, Validate, Touch, Context, NoContext, Can, Cannot, Work,
     ReadGrants,
     Assign, AssignRefused, RemoveRole, Own, Verify, NotAMember, Enter, Crash, Refuse,
     GoTo, TypeOK

LEMMA TracksKept ==
  ASSUME TypeOK, Tracks, [Next]_vars
  PROVE  Tracks'
<1> SUFFICES ASSUME NEW r \in Request, pc'[r] # "idle"
             PROVE
    /\ pc'[r] \in {"work"} => req'[r].kind = "work"
    /\ pc'[r] \in {"grants", "assign"} => req'[r].kind = "assign"
    /\ pc'[r] \in {"remove"} => req'[r].kind = "remove"
    /\ pc'[r] \in {"own", "verify", "enter"} => req'[r].kind = "switch"
    /\ pc'[r] \in {"context", "can", "again"} => req'[r].kind # "switch"
  BY DEF Tracks
<1>1. CASE Same(r)
  BY <1>1 DEF Same, Tracks
<1>2. CASE Validate(r) \/ Touch(r) \/ Can(r) \/ ReadGrants(r) \/ Own(r) \/ Verify(r)
  BY <1>2 DEF Tracks, TypeOK, Validate, Touch, Can, ReadGrants, Own, Verify,
     GoTo
<1>3. CASE Context(r)
  <2>1. req[r].kind \in {"work", "assign", "remove"} /\ req' = req
    BY <1>3, RequestTyped DEF Tracks, Context
  <2>2. CASE pc[r] = "context"
    BY <1>3, <2>1, <2>2 DEF Context, GoTo, TypeOK
  <2>3. CASE pc[r] = "again"
    BY <1>3, <2>1, <2>3 DEF Context, GoTo, TypeOK
  <2> QED BY <1>3, <2>2, <2>3 DEF Context
<1> QED BY <1>1, <1>2, <1>3, OwnOrSame, GoesOnOrEnds

LEMMA PlacedKept ==
  ASSUME TypeOK, Placed, [Next]_vars
  PROVE  Placed'
<1> SUFFICES ASSUME NEW r \in Request,
                    pc'[r] \in {"can", "again", "work", "grants", "assign", "remove"}
             PROVE  /\ principal'[r] \in Company
                    /\ MemberUser[membership'[r]] = SessionUser[req'[r].session]
                    /\ MemberCompany[membership'[r]] = principal'[r]
  BY DEF Placed, UserOf
<1>1. CASE Same(r)
  BY <1>1 DEF Same, Placed, UserOf
<1>2. CASE Validate(r) \/ Touch(r) \/ Own(r) \/ Verify(r)
  BY <1>2 DEF Validate, Touch, Own, Verify, GoTo, TypeOK
<1>3. CASE Can(r) \/ ReadGrants(r)
  BY <1>3 DEF Can, ReadGrants, Placed, UserOf
<1>4. CASE Context(r)
  <2>1. PICK m \in currentContext(r) : membership' = [membership EXCEPT ![r] = m]
    BY <1>4 DEF Context
  <2> QED BY <1>4, <2>1, ContextIs DEF Context, UserOf, TypeOK
<1> QED BY <1>1, <1>2, <1>3, <1>4, OwnOrSame, GoesOnOrEnds

-----------------------------------------------------------------------------
(* What was shown stays shown *)

\* What has to be known of a request, by where it is.
ShownOf(r) ==
  /\ pc[r] # "idle" => Knows(r, "session")
  /\ pc[r] \in {"can", "again", "work", "grants", "assign", "remove"} => Knows(r, "member")
  /\ pc[r] \in {"again", "work", "grants", "assign", "remove"} => Knows(r, "permission")
  /\ pc[r] = "assign" =>
       ((\A k \in Role : KeyOf[k] = req[r].key /\ RoleCompany[k] = principal[r]
           => Grants[k] \subseteq held[r]) => Knows(r, "role"))
  /\ pc[r] \in {"verify", "enter"} => Knows(r, "target")

LEMMA ShownKept ==
  ASSUME TypeOK, Placed, Tracks, Shown, [Next]_vars
  PROVE  Shown'
<1> SUFFICES ASSUME NEW r \in Request PROVE ShownOf(r)'
  BY DEF Shown, ShownOf
<1>0. ShownOf(r)
  BY DEF Shown, ShownOf
<1>1. CASE Same(r)
  BY <1>0, <1>1 DEF Same, ShownOf
<1>2. CASE pc'[r] = "idle"
  BY <1>2 DEF ShownOf
<1>3. CASE /\ Observe /\ pc'[r] # "idle"
           /\ \/ Validate(r) \/ Touch(r) \/ Context(r) \/ Can(r) \/ ReadGrants(r)
              \/ Own(r) \/ Verify(r)
  <2>0. \A e : Knows(r, e) => Knows(r, e)'
    BY <1>3, Remembered
  <2>1. CASE Validate(r)
    <3>1. Live(sessions[req[r].session], clock)'
      BY <2>1 DEF Validate, Live, TypeOK, rows
    <3>2. "session" \in Needs(r)'
      BY DEF Needs
    <3>3. "session" \in Entitled(r)'
      BY <1>3, <3>1, <3>2 DEF Entitled
    <3> QED BY <2>1, <3>3 DEF Validate, GoTo, TypeOK, ShownOf, Knows
  <2>2. CASE Touch(r)
    BY <1>0, <2>0, <2>2 DEF Touch, GoTo, TypeOK, ShownOf
  <2>3. CASE Context(r)
    <3>1. CASE pc[r] = "context"
      <4>1. PICK m \in currentContext(r) : TRUE
        BY <2>3 DEF Context
      <4>2. req[r].kind # "switch"
        BY <3>1 DEF Tracks
      <4>3. "member" \in Entitled(r)
        BY <3>1, <4>1, <4>2, ContextIs, MemberCounts
      <4>4. Knows(r, "member")
        BY <4>3 DEF Knows
      <4>5. pc'[r] = "can"
        BY <2>3, <3>1 DEF Context, GoTo, TypeOK
      <4> QED BY <1>0, <2>0, <3>1, <4>4, <4>5 DEF ShownOf
    <3>2. CASE pc[r] = "again"
      <4>1. pc'[r] \in {"grants", "work", "remove"}
        BY <2>3, <3>2, RequestTyped DEF Context, GoTo, TypeOK, Tracks
      <4> QED BY <1>0, <2>0, <3>2, <4>1 DEF ShownOf
    <3> QED BY <2>3, <3>1, <3>2 DEF Context
  <2>4. CASE Can(r)
    <3>1. req[r].permission \in Authority(UserOf(r), principal[r]) /\ req[r].kind # "switch"
      BY <2>4, GrantsAreAuthority DEF Can, Placed, Tracks
    <3>2. Knows(r, "permission")
      BY <2>4, <3>1, PermissionCounts DEF Can, Knows
    <3> QED BY <1>0, <2>0, <2>4, <3>2 DEF Can, GoTo, TypeOK, ShownOf
  <2>5. CASE ReadGrants(r)
    <3>1. grantsFor(r) \subseteq Authority(UserOf(r), principal[r]) /\ req[r].kind = "assign"
      BY <2>5, GrantsAreAuthority DEF ReadGrants, Placed, Tracks
    <3>2. held'[r] = grantsFor(r) /\ req' = req /\ principal' = principal
      BY <2>5 DEF ReadGrants, TypeOK
    <3>3. ASSUME \A k \in Role : KeyOf[k] = req'[r].key /\ RoleCompany[k] = principal'[r]
                   => Grants[k] \subseteq held'[r]
          PROVE  Knows(r, "role")
      <4>1. \A k \in Role : KeyOf[k] = req[r].key /\ RoleCompany[k] = principal[r]
              => Grants[k] \subseteq Authority(UserOf(r), principal[r])
        BY <3>1, <3>2, <3>3
      <4> QED BY <2>5, <3>1, <4>1, RoleCounts DEF ReadGrants, Knows
    <3>4. pc[r] = "grants" /\ pc'[r] = "assign"
      BY <2>5 DEF ReadGrants, GoTo, TypeOK
    <3> QED BY <1>0, <2>0, <3>3, <3>4 DEF ShownOf
  <2>6. CASE Own(r)
    <3>1. PICK m \in contextFor(listOwn(principalScope(UserOf(r)), active), req[r].company) :
            TRUE
      BY <2>6 DEF Own
    <3>2. m \in active /\ MemberUser[m] = UserOf(r) /\ MemberCompany[m] = req[r].company
      BY <3>1 DEF contextFor, listOwn, principalScope
    <3>3. req[r].kind = "switch"
      BY <2>6 DEF Own, Tracks
    <3>4. Knows(r, "target")
      BY <2>6, <3>2, <3>3, TargetCounts DEF Own, Knows
    <3> QED BY <1>0, <2>0, <2>6, <3>4 DEF Own, GoTo, TypeOK, ShownOf
  <2>7. CASE Verify(r)
    <3>1. PICK m \in active : MemberUser[m] = UserOf(r) /\ MemberCompany[m] = req[r].company
      BY <2>7, TargetIs DEF Verify
    <3>2. req[r].kind = "switch"
      BY <2>7 DEF Verify, Tracks
    <3>3. Knows(r, "target")
      BY <2>7, <3>1, <3>2, TargetCounts DEF Verify, Knows
    <3> QED BY <1>0, <2>0, <2>7, <3>3 DEF Verify, GoTo, TypeOK, ShownOf
  <2> QED BY <1>3, <2>1, <2>2, <2>3, <2>4, <2>5, <2>6, <2>7
<1> QED BY <1>1, <1>2, <1>3, OwnOrSame, GoesOnOrEnds

-----------------------------------------------------------------------------
(* Assignments *)

LEMMA AssignedBy ==
  ASSUME [Next]_vars
  PROVE  \/ assigned' = assigned
         \/ \E r \in Request : Assign(r) \/ RemoveRole(r)
BY DEF Next, Step, Validate, Touch, Context, NoContext, Can, Cannot, Work,
   ReadGrants,
   AssignRefused, Own, Verify, NotAMember, Enter, Crash, Refuse, Login, Revoke,
   MembershipChanges, Tick, vars, rows

LEMMA ContainedKept ==
  ASSUME TypeOK, Placed, Contained, [Next]_vars
  PROVE  Contained'
<1>1. ASSUME NEW r \in Request, Assign(r), NEW a \in assigned'
     
            PROVE  /\ MemberCompany[a.membership] = a.company /\ RoleCompany[a.role] = a.company
             /\ Grants[a.role] \subseteq Provisioned(a.company)
  <2>1. principal[r] \in Company /\ held[r] \subseteq Provisioned(principal[r])
    BY <1>1 DEF Assign, Placed, Contained
  <2>2. PICK b \in Assignments(r) : Covered(r, b.role) /\ assigned' = assigned \cup {b}
    BY <1>1 DEF Assign
  <2> QED BY <1>1, <2>1, <2>2, AssignmentIs DEF Contained
<1>2. \A a \in assigned' :
        /\ MemberCompany[a.membership] = a.company /\ RoleCompany[a.role] = a.company
        /\ Grants[a.role] \subseteq Provisioned(a.company)
  BY <1>1, AssignedBy DEF RemoveRole, Contained
<1>3. ASSUME NEW r \in Request, pc'[r] = "assign"
      PROVE  held'[r] \subseteq Provisioned(principal'[r])
  <2>1. CASE Same(r)
    BY <1>3, <2>1 DEF Same, Contained
  <2>2. CASE ReadGrants(r)
    <3>1. held'[r] = grantsFor(r) /\ principal' = principal
      BY <2>2 DEF ReadGrants, TypeOK
    <3>2. grantsFor(r) \subseteq Provisioned(principal[r])
      BY GrantIs DEF Contained
    <3> QED BY <3>1, <3>2
  <2>3. CASE Validate(r) \/ Touch(r) \/ Can(r) \/ Own(r) \/ Verify(r)
    BY <1>3, <2>3 DEF Validate, Touch, Can, Own, Verify, GoTo, TypeOK
  <2>4. CASE Context(r)
    <3>1. pc[r] = "again" => pc'[r] \in {"grants", req[r].kind}
      BY <2>4 DEF Context, GoTo, TypeOK
    <3>2. pc[r] = "again" /\ req[r].kind = "assign" => pc'[r] = "grants"
      BY <2>4 DEF Context, GoTo, TypeOK
    <3>3. ASSUME pc[r] = "context" PROVE pc'[r] = "can"
      BY <2>4, <3>3 DEF Context, GoTo, TypeOK
    <3> QED BY <1>3, <2>4, <3>1, <3>2, <3>3 DEF Context
  <2> QED BY <1>3, <2>1, <2>2, <2>3, <2>4, OwnOrSame, GoesOnOrEnds
<1> QED BY <1>2, <1>3 DEF Contained

-----------------------------------------------------------------------------
(* Sessions *)

\* What a step may do to a session that exists.
OnlyEnds(s) ==
  sessions[s] # NoSession =>
    /\ sessions'[s].absolute = sessions[s].absolute
    /\ sessions'[s].idle <= sessions[s].absolute
    /\ sessions[s].revoked # Never => sessions'[s] = sessions[s]

\* A session is as it was, or new, or one of these has touched it.
LEMMA SessionsBy ==
  ASSUME [Next]_vars
  PROVE  \/ sessions' = sessions
         \/ \E r \in Request : Touch(r) \/ Enter(r)
         \/ \E s \in Session : Login(s)
         \/ Revoke
BY DEF Next, Step, Validate, Context, NoContext, Can, Cannot, Work, ReadGrants,
   Assign,
   AssignRefused, RemoveRole, Own, Verify, NotAMember, Crash, Refuse, MembershipChanges,
   Tick, vars, rows

LEMMA SessionStep ==
  ASSUME TypeOK, Windows, [Next]_vars, NEW s \in Session
 
        PROVE  OnlyEnds(s) /\ (sessions'[s] # NoSession => sessions'[s].idle <= sessions'[s].absolute)
<1>0. sessions[s] \in SessionRow /\ None \in Company \cup {None} /\ 0 \in Int
  BY DEF TypeOK
<1>1. CASE sessions'[s] = sessions[s]
  BY <1>1 DEF OnlyEnds, Windows
<1>2. ASSUME NEW r \in Request, Touch(r), sessions'[s] # sessions[s]
      PROVE  /\ OnlyEnds(s) /\ sessions'[s].idle <= sessions'[s].absolute
  <2> DEFINE i == extendIdleWindow(sessions[s], readAt[r])
  <2>0. sessions' = [sessions EXCEPT ![req[r].session] = touched(@, readAt[r])]
    BY <1>2 DEF Touch
  <2>1. s = req[r].session /\ Unrevoked(sessions[s])
    BY <1>2, <2>0 DEF touched, TypeOK
  <2>2. i \in Int /\ i <= sessions[s].absolute
    BY <1>0, Extended DEF TypeOK
  <2>5. sessions'[s] = [sessions[s] EXCEPT !.idle = i]
    BY <2>0, <2>1 DEF touched, TypeOK
  <2> HIDE DEF i
  <2>6. sessions'[s].idle = i /\ sessions'[s].absolute = sessions[s].absolute
    BY <1>0, <2>2, <2>5, RowKept
  <2> QED BY <2>1, <2>2, <2>6 DEF OnlyEnds, Unrevoked
<1>3. ASSUME NEW r \in Request, Enter(r), sessions'[s] # sessions[s]
      PROVE  /\ OnlyEnds(s) /\ sessions'[s].idle <= sessions'[s].absolute
  <2> DEFINE c == req[r].company
  <2>1. s = req[r].session /\ Unrevoked(sessions[s]) /\ c \in Company \cup {None}
    BY <1>3, RequestTyped DEF Enter, TypeOK
  <2>2. Target(r).company = c
    BY DEF Target, actorScope
  <2>3. sessions' = [sessions EXCEPT ![s].company = c]
    BY <1>3, <2>1, <2>2 DEF Enter
  <2> HIDE DEF c
  <2>4. sessions' = [sessions EXCEPT ![s] = [@ EXCEPT !.company = c]]
    BY <1>0, <2>1, <2>3, OneRowChanged
  <2>5. sessions'[s] = [sessions[s] EXCEPT !.company = c]
    BY <2>4 DEF TypeOK
  <2>6. sessions'[s].idle = sessions[s].idle /\ sessions'[s].absolute = sessions[s].absolute
    BY <1>0, <2>1, <2>5, RowKept
  <2> QED BY <2>1, <2>6 DEF OnlyEnds, Unrevoked, Windows
<1>4. ASSUME NEW u \in Session, Login(u), sessions'[s] # sessions[s]
      PROVE  /\ OnlyEnds(s) /\ sessions'[s].idle <= sessions'[s].absolute
  <2>1. s = u /\ sessions[s] = NoSession /\ sessions'[s] = NewSession(clock)
    BY <1>4 DEF Login, TypeOK
  <2>2. clock \in Nat
    BY DEF TypeOK
  <2> QED BY <1>0, <2>1, <2>2, NewSessionTyped DEF OnlyEnds
<1>5. ASSUME Revoke, sessions'[s] # sessions[s]
      PROVE  /\ OnlyEnds(s) /\ sessions'[s].idle <= sessions'[s].absolute
  <2>1. PICK S : sessions' = Revoked(S)
    BY <1>5 DEF Revoke
  <2>2. Unrevoked(sessions[s]) /\ sessions'[s] = [sessions[s] EXCEPT !.revoked = clock]
    BY <1>5, <2>1 DEF Revoked
  <2>3. clock \in Int
    BY DEF TypeOK
  <2>4. sessions'[s].idle = sessions[s].idle /\ sessions'[s].absolute = sessions[s].absolute
    BY <1>0, <2>2, <2>3, RowKept
  <2> QED BY <2>2, <2>4 DEF OnlyEnds, Unrevoked, Windows
<1> QED BY <1>1, <1>2, <1>3, <1>4, <1>5, SessionsBy

-----------------------------------------------------------------------------
(* The invariant *)

LEMMA InvHolds == Spec => []IInv
<1>1. IInv /\ [Next]_vars => IInv'
  <2> SUFFICES ASSUME IInv, [Next]_vars PROVE IInv'
    OBVIOUS
  <2>1. TypeOK' /\ Placed' /\ Tracks' /\ Shown' /\ Contained'
    BY TypesKept, PlacedKept, TracksKept, ShownKept, ContainedKept DEF IInv
  <2>2. Windows'
    BY SessionStep DEF IInv, Windows
  <2> QED BY <2>1, <2>2 DEF IInv
<1> QED BY <1>1, InitInv, PTL DEF Spec

\* Every state is well formed, of whatever requests, users and companies.
THEOREM TypeCorrect == Spec => []TypeOK
<1>1. IInv => TypeOK
  BY DEF IInv
<1> QED BY <1>1, InvHolds, PTL

\* A session only comes closer to its end.
THEOREM SessionsEnd == Spec => SessionsOnlyEnd
<1>1. IInv /\ [Next]_vars =>
        [\A s \in Session : sessions[s] # NoSession =>
           /\ sessions'[s].absolute = sessions[s].absolute
           /\ sessions'[s].idle <= sessions[s].absolute
           /\ sessions[s].revoked # Never => sessions'[s] = sessions[s]]_vars
  BY SessionStep DEF IInv, OnlyEnds
<1> QED BY <1>1, InvHolds, PTL DEF Spec, SessionsOnlyEnd

\* No permission comes into a company that no role of its founding held there.
THEOREM AuthorityContained == Spec => []AuthorityNeverGrows
<1>1. IInv => AuthorityNeverGrows
  <2> SUFFICES ASSUME Contained, NEW c \in Company, NEW u \in User, NEW p \in Authority(u, c)
               PROVE  p \in Provisioned(c)
    BY DEF IInv, AuthorityNeverGrows, Exercised
  <2>1. PICK a \in assigned : RoleCompany[a.role] = c /\ p \in Grants[a.role]
    BY DEF Authority
  <2> QED BY <2>1 DEF Contained
<1> QED BY <1>1, InvHolds, PTL

\* Whatever a request does, each thing it needed was true since it arrived.
THEOREM EntitledWhenActing == Spec => ActsWhileEntitled
<1>1. ASSUME IInv, Next, NEW r \in Request, Acts(r)
      PROVE  Needs(r) \subseteq seen[r] \cup Entitled(r)
  <2>0. TypeOK /\ ShownOf(r) /\ Step(r)
    BY <1>1, OwnOrSame DEF IInv, Shown, ShownOf, Acts, Same
  <2>1. CASE pc[r] = "work"
    <3>1. Needs(r) = {"session", "member", "permission"}
      BY <1>1, <2>1 DEF IInv, Tracks, Needs
    <3> QED BY <2>0, <2>1, <3>1 DEF ShownOf, Knows
  <2>2. CASE pc[r] = "remove"
    <3>1. Needs(r) = {"session", "member", "permission"}
      BY <1>1, <2>2 DEF IInv, Tracks, Needs
    <3> QED BY <2>0, <2>2, <3>1 DEF ShownOf, Knows
  <2>3. CASE pc[r] = "enter"
    <3>1. Needs(r) = {"session", "target"}
      BY <1>1, <2>3 DEF IInv, Tracks, Needs
    <3> QED BY <2>0, <2>3, <3>1 DEF ShownOf, Knows
  <2>4. CASE pc[r] = "assign" /\ assigned' # assigned
    <3>1. Needs(r) = {"session", "member", "permission", "role"}
      BY <1>1, <2>4 DEF IInv, Tracks, Needs
    <3>2. Assign(r)
      BY <2>0, <2>4 DEF Step, Validate, Touch, Context, NoContext, Can, Cannot,
         Work,
         ReadGrants, AssignRefused, RemoveRole, Own, Verify, NotAMember, Enter, Crash,
         Refuse, rows
    <3>3. PICK a \in Assignments(r) : Covered(r, a.role)
      BY <3>2 DEF Assign
    <3>4. principal[r] \in Company
      BY <1>1, <2>4 DEF IInv, Placed
    <3>5. /\ KeyOf[a.role] = req[r].key /\ RoleCompany[a.role] = principal[r]
          /\ Grants[a.role] \subseteq held[r] /\ a.role \in Role
      BY <2>0, <3>3, <3>4, AssignmentIs DEF Assignment
    <3>6. \A k \in Role : KeyOf[k] = req[r].key /\ RoleCompany[k] = principal[r]
            => Grants[k] \subseteq held[r]
      BY <3>5, KeysAreUnique
    <3> QED BY <2>0, <2>4, <3>1, <3>6 DEF ShownOf, Knows
  <2> QED BY <1>1, <2>1, <2>2, <2>3, <2>4 DEF Acts
<1>2. IInv /\ [Next]_vars =>
        [\A r \in Request : Acts(r) => Needs(r) \subseteq seen[r] \cup Entitled(r)]_vars
  BY <1>1
<1> QED BY <1>2, InvHolds, PTL DEF Spec, ActsWhileEntitled

-----------------------------------------------------------------------------
(* Migration runners *)

\* Between taking the lock and leaving, a runner holds it.
Held == \A r \in Runner : rpc[r] \in {"read", "apply", "commit"} => lock = r

\* What a runner has planned is of its own files, is not applied, and comes after
\* everything that is.
Planned ==
  \A r \in Runner :
    rpc[r] \in {"apply", "commit"} =>
      /\ pending[r] \subseteq Files(r) \ Applied
      /\ \A v \in pending[r], w \in Applied : w < v
      /\ rpc[r] = "commit" => pending[r] # {}

RunnerInv == RunnerTypeOK /\ Held /\ Planned /\ HistoryIsTheRecord

LEMMA LowestIsLowest ==
  ASSUME NEW r \in Runner, pending[r] \subseteq Version, pending[r] # {}
  PROVE  Lowest(r) \in pending[r] /\ \A w \in pending[r] : Lowest(r) <= w
<1>1. pending[r] \in SUBSET Nat
  BY RunnersAssumption
<1>2. \E v \in pending[r] : \A w \in pending[r] : v <= w
  <2>1. PICK v \in pending[r] : \A w \in pending[r] : ~(<<w, v>> \in OpToRel(<, Nat))
    BY <1>1, NatLessThanWellFounded, WFMin
  <2>2. \A w \in pending[r] : v \in Nat /\ w \in Nat /\ ~(w < v)
    BY <1>1, <2>1 DEF OpToRel
  <2> QED BY <2>2
<1> QED BY <1>2 DEF Lowest

LEMMA RunnerInitInv == RunnerInit => RunnerInv
<1> SUFFICES ASSUME RunnerInit PROVE RunnerInv
  OBVIOUS
<1>1. RunnerTypeOK
  <2>1. table \in BOOLEAN
    BY Zenon DEF RunnerInit
  <2>2. executed \in Seq(Version \X Checksum)
    BY DEF RunnerInit
  <2> QED BY <2>1, <2>2 DEF RunnerInit, RunnerTypeOK, Nothing, Ended
<1>2. Applied = {}
  BY DEF RunnerInit, Applied, Nothing
<1>3. Held /\ Planned
  BY DEF RunnerInit, Held, Planned
<1>4. HistoryIsTheRecord
  BY <1>2 DEF RunnerInit, HistoryIsTheRecord
<1> QED BY <1>1, <1>3, <1>4 DEF RunnerInv

\* A runner moves, or takes or lets go the lock, and nothing is applied.
LEMMA LeavesInv ==
  ASSUME RunnerInv, NEW r \in Runner, NEW how \in Ended, Leaves(r, how),
         UNCHANGED <<record, executed>>, table' \in BOOLEAN
  PROVE  RunnerInv'
<1>1. /\ rpc' = [rpc EXCEPT ![r] = how] /\ pending' = [pending EXCEPT ![r] = {}]
      /\ lock' = IF lock = r THEN Absent ELSE lock
  BY DEF Leaves
<1>2. how \notin {"read", "apply", "commit"}
  BY DEF Ended
<1>3. RunnerTypeOK'
  BY <1>1 DEF RunnerInv, RunnerTypeOK
<1>4. /\ rpc \in [Runner -> Ended \cup {"start", "lock", "read", "apply", "commit"}]
      /\ pending \in [Runner -> SUBSET Version]
  BY DEF RunnerInv, RunnerTypeOK
<1>5. \A q \in Runner :
        rpc'[q] \in {"read", "apply", "commit"} =>
          q # r /\ rpc'[q] = rpc[q] /\ pending'[q] = pending[q]
  BY <1>1, <1>2, <1>4
<1>6. Held'
  BY <1>1, <1>5 DEF RunnerInv, Held
<1>7. Applied' = Applied /\ \A q : Files(q)' = Files(q)
  BY DEF Applied, Files
<1>8. Planned'
  BY <1>5, <1>7 DEF RunnerInv, Planned
<1>9. HistoryIsTheRecord'
  BY <1>7 DEF RunnerInv, HistoryIsTheRecord
<1> QED BY <1>3, <1>6, <1>8, <1>9 DEF RunnerInv

LEMMA MovesInv ==
  ASSUME RunnerInv, NEW r \in Runner, NEW where,
         where \in {"lock", "read", "apply", "commit"},
         rpc' = [rpc EXCEPT ![r] = where], UNCHANGED <<record, executed>>, table' \in BOOLEAN,
         pending' \in [Runner -> SUBSET Version],
         \A q \in Runner \ {r} : pending'[q] = pending[q],
         lock' \in Runner \cup {Absent}, lock' = lock \/ lock = Absent,
         where # "lock" => lock' = r,
         where \in {"apply", "commit"} =>
           /\ pending'[r] \subseteq Files(r) \ Applied
           /\ \A v \in pending'[r], w \in Applied : w < v
           /\ where = "commit" => pending'[r] # {}
  PROVE  RunnerInv'
<1>1. rpc \in [Runner -> Ended \cup {"start", "lock", "read", "apply", "commit"}]
  BY DEF RunnerInv, RunnerTypeOK
<1>2. RunnerTypeOK'
  BY <1>1 DEF RunnerInv, RunnerTypeOK
<1>3. rpc'[r] = where /\ \A q \in Runner \ {r} : rpc'[q] = rpc[q]
  BY <1>1
<1>4. Held'
  BY <1>3, RunnersAssumption DEF RunnerInv, Held
<1>5. Applied' = Applied /\ \A q : Files(q)' = Files(q)
  BY DEF Applied, Files
<1>6. Planned'
  BY <1>3, <1>5 DEF RunnerInv, Planned
<1>7. HistoryIsTheRecord'
  BY <1>5 DEF RunnerInv, HistoryIsTheRecord
<1> QED BY <1>2, <1>4, <1>6, <1>7 DEF RunnerInv

LEMMA CommitInv ==
  ASSUME RunnerInv, NEW r \in Runner, Commit(r)
  PROVE  RunnerInv'
<1> DEFINE v == Lowest(r)
           c == FilesOf[r][v]
<1>1. /\ rpc[r] = "commit" /\ v \notin Applied
      /\ record' = [record EXCEPT ![v] = c] /\ executed' = Append(executed, <<v, c>>)
      /\ pending' = [pending EXCEPT ![r] = pending[r] \ {v}]
      /\ rpc' = [rpc EXCEPT ![r] = "apply"] /\ UNCHANGED <<table, lock>>
  BY DEF Commit, RunnerInv, RunnerTypeOK
<1>2. /\ record \in [Version -> Checksum \cup {Absent}] /\ executed \in Seq(Version \X Checksum)
      /\ rpc \in [Runner -> Ended \cup {"start", "lock", "read", "apply", "commit"}]
      /\ pending \in [Runner -> SUBSET Version]
      /\ Version \subseteq Nat /\ Absent \notin Checksum
      /\ FilesOf[r] \in [Version -> Checksum \cup {Absent}]
  BY RunnersAssumption DEF RunnerInv, RunnerTypeOK
<1>3. /\ pending[r] \subseteq Files(r) \ Applied /\ pending[r] # {}
      /\ \A x \in pending[r], w \in Applied : w < x
      /\ lock = r
  BY <1>1 DEF RunnerInv, Planned, Held
<1>4. v \in pending[r] /\ \A w \in pending[r] : v <= w
  BY <1>2, <1>3, LowestIsLowest
<1>5. v \in Version /\ v \in Files(r) /\ c \in Checksum
  BY <1>2, <1>3, <1>4 DEF Files
<1> HIDE DEF v, c
<1>6. Applied' = Applied \cup {v}
  BY <1>1, <1>2, <1>5 DEF Applied
<1>7. RunnerTypeOK'
  BY <1>1, <1>2, <1>5, AppendProperties DEF RunnerInv, RunnerTypeOK
<1>8. Held'
  BY <1>1, <1>2, <1>3 DEF RunnerInv, Held
<1>9. Planned'
  <2>1. \A q \in Runner \ {r} : rpc'[q] \notin {"apply", "commit"}
    BY <1>1, <1>2, <1>3 DEF RunnerInv, Held
  <2>2. /\ pending'[r] = pending[r] \ {v} /\ rpc'[r] = "apply" /\ Files(r)' = Files(r)
    BY <1>1, <1>2 DEF Files
  <2>3. \A x \in pending'[r] : v < x
    <3>1. \A x \in pending[r] : x \in Nat /\ v \in Nat /\ v <= x
      BY <1>2, <1>4
    <3> QED BY <2>2, <3>1
  <2> QED BY <1>3, <1>6, <2>1, <2>2, <2>3 DEF Planned
<1>10. HistoryIsTheRecord'
  <2> DEFINE n == Len(executed)
  <2>1. /\ n \in Nat /\ Len(executed') = n + 1 /\ executed'[n + 1] = <<v, c>>
        /\ \A i \in 1 .. n : executed'[i] = executed[i] /\ executed[i] \in Version \X Checksum
    BY <1>1, <1>2, <1>5, AppendProperties, ElementOfSeq, LenProperties
  <2>2. /\ \A i, j \in 1 .. n : i < j => executed[i][1] < executed[j][1]
        /\ {executed[i] : i \in 1 .. n} = {<<w, record[w]>> : w \in Applied}
    BY DEF RunnerInv, HistoryIsTheRecord
  <2> HIDE DEF n
  <2>3. \A i \in 1 .. n : executed[i][1] \in Applied
    BY <2>2
  <2>4. \A i \in 1 .. n : executed[i][1] < v
    BY <1>3, <1>4, <2>3
  <2>5. \A i, j \in 1 .. n + 1 : i < j => executed'[i][1] < executed'[j][1]
    <3> SUFFICES ASSUME NEW i \in 1 .. n + 1, NEW j \in 1 .. n + 1, i < j
                 PROVE  executed'[i][1] < executed'[j][1]
      OBVIOUS
    <3>1. i \in 1 .. n
      BY <2>1
    <3>2. CASE j = n + 1
      BY <2>1, <2>4, <3>1, <3>2
    <3>3. CASE j \in 1 .. n
      BY <2>1, <2>2, <3>1, <3>3
    <3> QED BY <2>1, <3>2, <3>3
  <2>6. {executed'[i] : i \in 1 .. n + 1} = {<<w, record'[w]>> : w \in Applied'}
    <3>1. {executed'[i] : i \in 1 .. n + 1} = {executed[i] : i \in 1 .. n} \cup {<<v, c>>}
      <4>1. \A i \in 1 .. n + 1 : i \in 1 .. n \/ i = n + 1
        BY <2>1
      <4>2. \A i \in 1 .. n : i \in 1 .. n + 1
        BY <2>1
      <4>3. n + 1 \in 1 .. n + 1
        BY <2>1
      <4> QED BY <2>1, <4>1, <4>2, <4>3
    <3>2. {<<w, record'[w]>> : w \in Applied'} = {<<w, record[w]>> : w \in Applied} \cup {<<v, c>>}
      <4>1. record'[v] = c /\ \A w \in Applied : record'[w] = record[w]
        BY <1>1, <1>2, <1>5 DEF Applied
      <4> QED BY <1>6, <4>1
    <3> QED BY <2>2, <3>1, <3>2
  <2> QED BY <2>1, <2>5, <2>6 DEF HistoryIsTheRecord
<1> QED BY <1>7, <1>8, <1>9, <1>10 DEF RunnerInv

LEMMA RunnerStepInv ==
  ASSUME RunnerInv, NEW r \in Runner, RunnerStep(r)
  PROVE  RunnerInv'
<1>1. /\ table \in BOOLEAN /\ lock \in Runner \cup {Absent}
      /\ pending \in [Runner -> SUBSET Version]
      /\ rpc \in [Runner -> Ended \cup {"start", "lock", "read", "apply", "commit"}]
      /\ {"done", "refused", "failed"} = Ended
  BY DEF RunnerInv, RunnerTypeOK, Ended
<1>2. CASE Connect(r)
  BY <1>1, <1>2, MovesInv DEF Connect
<1>3. CASE Lock(r)
  BY <1>1, <1>3, MovesInv DEF Lock, LockGranted
<1>4. CASE RefusePlan(r)
  BY <1>1, <1>4, LeavesInv DEF RefusePlan, Read
<1>5. CASE NothingToDo(r)
  BY <1>1, <1>5, LeavesInv DEF NothingToDo, Read
<1>6. CASE Plan(r)
  <2>1. /\ rpc[r] = "read" /\ UNCHANGED <<record, executed, lock>> /\ table' \in BOOLEAN
        /\ pending' = [pending EXCEPT ![r] = Pending(r)]
        /\ rpc' = [rpc EXCEPT ![r] = "apply"]
    BY <1>1, <1>6 DEF Plan, Read
  <2>2. lock = r
    BY <2>1 DEF RunnerInv, Held
  <2>3. Pending(r) = Files(r) \ Applied /\ Files(r) \subseteq Version
    BY DEF Pending, Files
  <2>4. \A v \in Pending(r), w \in Applied : w < v
    <3>1. \A v \in Pending(r), w \in Applied : ~(v < w)
      BY <1>6 DEF Plan, Refusal, OutOfOrder
    <3>2. \A v \in Pending(r), w \in Applied : v \in Nat /\ w \in Nat /\ v # w
      BY <2>3, RunnersAssumption DEF Applied
    <3> QED BY <3>1, <3>2
  <2>5. /\ pending' \in [Runner -> SUBSET Version] /\ pending'[r] = Pending(r)
        /\ \A q \in Runner \ {r} : pending'[q] = pending[q]
    BY <1>1, <2>1, <2>3
  <2> QED BY <1>1, <2>1, <2>2, <2>3, <2>4, <2>5, MovesInv
<1>7. CASE Apply(r)
  <2>1. /\ rpc[r] = "apply" /\ pending[r] # {}
        /\ UNCHANGED <<record, executed, table, lock, pending>>
        /\ rpc' = [rpc EXCEPT ![r] = "commit"]
    BY <1>7 DEF Apply
  <2>2. /\ lock = r /\ pending[r] \subseteq Files(r) \ Applied
        /\ \A v \in pending[r], w \in Applied : w < v
    BY <2>1 DEF RunnerInv, Held, Planned
  <2> QED BY <1>1, <2>1, <2>2, MovesInv
<1>8. CASE Commit(r)
  BY <1>8, CommitInv
<1>9. CASE Finish(r)
  BY <1>1, <1>9, LeavesInv DEF Finish
<1>10. CASE Fail(r)
  BY <1>1, <1>10, LeavesInv DEF Fail
<1> QED BY <1>2, <1>3, <1>4, <1>5, <1>6, <1>7, <1>8, <1>9, <1>10 DEF RunnerStep, Advance

LEMMA RunnerUnchangedInv == ASSUME RunnerInv, UNCHANGED runnerVars PROVE RunnerInv'
BY DEF RunnerInv, RunnerTypeOK, Held, Planned, HistoryIsTheRecord, Applied, Files, runnerVars

-----------------------------------------------------------------------------
(* What a seed writes *)

\* The strings, with the tables' names: no prover knows that a literal is a string.
Word == STRING \cup {"tenants", "users", "companies", "roles", "document_number_sequences",
                     "accounts", "company_posting_accounts", "memberships",
                     "membership_roles", "warehouses", "products", "stock_movements"}

\* A row is a sequence of words, a transaction one of rows.
ARow == Seq(Word)
ATransaction == Seq(ARow)


LEMMA ConcatIsUnion ==
  ASSUME NEW S, NEW a \in Seq(S), NEW b \in Seq(S)
  PROVE  /\ a \o b \in Seq(S) /\ ToSet(a \o b) = ToSet(a) \cup ToSet(b)
         /\ Len(a \o b) = Len(a) + Len(b)
<1>1. Range(a \o b) = Range(a) \cup Range(b)
  BY RangeConcatenation
<1>2. \A f : Range(f) = ToSet(f)
  BY DEF Range, ToSet
<1> QED BY <1>1, <1>2, ConcatProperties

LEMMA Prepended ==
  ASSUME NEW S, NEW a \in S, NEW b \in Seq(S)
  PROVE  /\ <<a>> \o b \in Seq(S) /\ Len(<<a>> \o b) = 1 + Len(b) /\ (<<a>> \o b)[1] = a
         /\ \A i \in 2 .. 1 + Len(b) : (<<a>> \o b)[i] = b[i - 1]
OBVIOUS

LEMMA PairIsASeq == ASSUME NEW S, NEW a \in S, NEW b \in S PROVE <<a, b>> \in Seq(S)
OBVIOUS

LEMMA TripleIsASeq ==
  ASSUME NEW S, NEW a \in S, NEW b \in S, NEW c \in S PROVE <<a, b, c>> \in Seq(S)
OBVIOUS

LEMMA QuadrupleIsASeq ==
  ASSUME NEW S, NEW a \in S, NEW b \in S, NEW c \in S, NEW d \in S PROVE <<a, b, c, d>> \in Seq(S)
OBVIOUS

LEMMA FunctionIsASeq ==
  ASSUME NEW S, NEW n \in Nat, NEW f \in [1 .. n -> S]
  PROVE  f \in Seq(S)
BY SeqDef

LEMMA RowsOfTable ==
  ASSUME NEW name \in Word, NEW c \in Word, NEW keys \in Seq(Word)
  PROVE  /\ Rows(name, c, keys) \in ATransaction
         /\ \A row \in ToSet(Rows(name, c, keys)) : row[1] = name
<1>1. keys \in [1 .. Len(keys) -> Word] /\ Len(keys) \in Nat
  BY LenProperties
<1>2. \A i \in 1 .. Len(keys) : <<name, c, keys[i]>> \in ARow
  BY <1>1, TripleIsASeq DEF ARow
<1>3. Rows(name, c, keys) \in [1 .. Len(keys) -> ARow]
  BY <1>1, <1>2 DEF Rows
<1>4. Rows(name, c, keys) \in ATransaction
  BY <1>1, <1>3, FunctionIsASeq DEF ATransaction
<1>5. \A row \in ToSet(Rows(name, c, keys)) : row[1] = name
  BY DEF Rows, ToSet
<1> QED BY <1>4, <1>5

\* A transaction that sets up no company, and one that sets up c.
NoCompany(T) == T \in ATransaction /\ \A row \in ToSet(T) : row[1] # "companies"

LEMMA NoCompanyConcat ==
  ASSUME NEW a, NEW b, NoCompany(a), NoCompany(b)
  PROVE  NoCompany(a \o b)
BY ConcatIsUnion DEF NoCompany, ATransaction

LEMMA RowsNoCompany ==
  ASSUME NEW name \in Word, name # "companies", NEW c \in Word, NEW keys \in Seq(Word)
  PROVE  NoCompany(Rows(name, c, keys))
BY RowsOfTable DEF NoCompany

LEMMA OneRow ==
  ASSUME NEW row, row \in ARow
  PROVE  <<row>> \in ATransaction /\ ToSet(<<row>>) = {row} /\ Len(<<row>>) = 1
BY DEF ATransaction, ToSet

LEMMA OneTransaction ==
  ASSUME NEW T, T \in ATransaction
  PROVE  <<T>> \in Seq(ATransaction) /\ ToSet(<<T>>) = {T} /\ Len(<<T>>) = 1
BY DEF ToSet

LEMMA DatasetTyped ==
  /\ DEMO_TENANTS \in Seq(Word) /\ DEMO_USERS \in Seq(Word) /\ demoCompanies \in Seq(Word)
  /\ ROLE_TEMPLATES \in Seq(Word) /\ DEFAULT_CHART \in Seq(Word)
  /\ POSTING_PURPOSES \in Seq(Word) /\ SEQUENCES \in Seq(Word)
  /\ ADMINISTRATOR_ROLE_KEY \in Word
  /\ \A c \in ToSet(demoCompanies) :
       /\ c \in Word /\ Administrator[c] \in Word
       /\ Members[c] \in Seq(Word \X Word) /\ Products[c] \in Seq(Word)
<1>1. /\ DEMO_TENANTS \in Seq(STRING) /\ DEMO_USERS \in Seq(STRING) /\ demoCompanies \in Seq(STRING)
      /\ ROLE_TEMPLATES \in Seq(STRING) /\ DEFAULT_CHART \in Seq(STRING)
      /\ POSTING_PURPOSES \in Seq(STRING) /\ SEQUENCES \in Seq(STRING)
  BY DatasetAssumption
<1>2. \A s \in Seq(STRING) : s \in Seq(Word) /\ ToSet(s) \subseteq Word
  <2>1. STRING \subseteq Word
    BY DEF Word
  <2> SUFFICES ASSUME NEW s \in Seq(STRING) PROVE s \in Seq(Word) /\ ToSet(s) \subseteq Word
    OBVIOUS
  <2>2. s \in [1 .. Len(s) -> Word] /\ Len(s) \in Nat
    BY <2>1, LenProperties
  <2>3. s \in Seq(Word)
    BY <2>2, FunctionIsASeq
  <2> QED BY <2>2, <2>3 DEF ToSet
<1>3. ADMINISTRATOR_ROLE_KEY \in Word
  BY <1>1, <1>2, DatasetAssumption
<1>4. ASSUME NEW c \in ToSet(demoCompanies)
      PROVE  /\ c \in Word /\ Administrator[c] \in Word
             /\ Members[c] \in Seq(Word \X Word) /\ Products[c] \in Seq(Word)
  <2>1. STRING \subseteq Word
    BY DEF Word
  <2>2. /\ Administrator[c] \in STRING /\ Products[c] \in Seq(STRING)
        /\ Members[c] \in Seq(STRING \X STRING)
    BY DatasetAssumption
  <2>3. Members[c] \in [1 .. Len(Members[c]) -> Word \X Word] /\ Len(Members[c]) \in Nat
    <3>1. \A who : who \in STRING \X STRING => who \in Word \X Word
      BY <2>1, Zenon
    <3>2. Members[c] \in [1 .. Len(Members[c]) -> STRING \X STRING] /\ Len(Members[c]) \in Nat
      BY <2>2, LenProperties
    <3> DEFINE S == STRING \X STRING
               W == Word \X Word
    <3>3. Members[c] \in [1 .. Len(Members[c]) -> S] /\ \A who : who \in S => who \in W
      BY <3>1, <3>2
    <3> HIDE DEF S, W
    <3>4. Members[c] \in [1 .. Len(Members[c]) -> W]
      BY <3>3
    <3> QED BY <3>2, <3>4 DEF W
  <2>4. Members[c] \in Seq(Word \X Word)
    BY <2>3, FunctionIsASeq
  <2>5. c \in Word
    BY <1>1, <1>2
  <2> QED BY <1>2, <2>1, <2>2, <2>4, <2>5
<1>5. /\ DEMO_TENANTS \in Seq(Word) /\ DEMO_USERS \in Seq(Word) /\ demoCompanies \in Seq(Word)
      /\ ROLE_TEMPLATES \in Seq(Word) /\ DEFAULT_CHART \in Seq(Word)
      /\ POSTING_PURPOSES \in Seq(Word) /\ SEQUENCES \in Seq(Word)
  BY <1>1, <1>2
<1> QED BY <1>3, <1>4, <1>5

LEMMA NoCompanyBefore ==
  ASSUME NEW a \in Seq(ATransaction), \A T \in ToSet(a) : NoCompany(T), Len(a) \in Nat,
         NEW b \in Seq(ATransaction), \A T \in ToSet(b) : NoCompany(T), Len(b) = 1
  PROVE  /\ a \o b \in Seq(ATransaction) /\ Len(a \o b) > 0
         /\ \A T \in ToSet(a \o b) : NoCompany(T)
<1>1. /\ a \o b \in Seq(ATransaction) /\ ToSet(a \o b) = ToSet(a) \cup ToSet(b)
      /\ Len(a \o b) = Len(a) + Len(b)
  BY ConcatIsUnion
<1> QED BY <1>1

LEMMA FirstTransactions ==
  LET first == createTenants \o createAccounts
  IN  first \in Seq(ATransaction) /\ Len(first) > 0 /\ \A T \in ToSet(first) : NoCompany(T)
<1>1. createTenants \in Seq(ATransaction) /\ \A T \in ToSet(createTenants) : NoCompany(T)
  <2>1. DEMO_TENANTS \in [1 .. Len(DEMO_TENANTS) -> Word] /\ Len(DEMO_TENANTS) \in Nat
    BY DatasetTyped, LenProperties
  <2>2. \A i \in 1 .. Len(DEMO_TENANTS) : NoCompany(<<<<"tenants", DEMO_TENANTS[i]>>>>)
    <3>1. \A i \in 1 .. Len(DEMO_TENANTS) : <<"tenants", DEMO_TENANTS[i]>> \in ARow
      BY <2>1, PairIsASeq DEF ARow, Word
    <3> QED BY <3>1, OneRow DEF NoCompany
  <2>3. createTenants \in [1 .. Len(DEMO_TENANTS) -> ATransaction]
    BY <2>1, <2>2 DEF createTenants, NoCompany
  <2>4. createTenants \in Seq(ATransaction)
    BY <2>1, <2>3, FunctionIsASeq
  <2>5. \A T \in ToSet(createTenants) : NoCompany(T)
    BY <2>1, <2>2 DEF createTenants, ToSet
  <2> QED BY <2>4, <2>5
<1>2. /\ createAccounts \in Seq(ATransaction) /\ Len(createAccounts) = 1
      /\ \A T \in ToSet(createAccounts) : NoCompany(T)
  <2> DEFINE users == [i \in DOMAIN DEMO_USERS |-> <<"users", DEMO_USERS[i]>>]
  <2>1. DEMO_USERS \in [1 .. Len(DEMO_USERS) -> Word] /\ Len(DEMO_USERS) \in Nat
    BY DatasetTyped, LenProperties
  <2>2. users \in [1 .. Len(DEMO_USERS) -> ARow]
    <3>1. \A i \in 1 .. Len(DEMO_USERS) : <<"users", DEMO_USERS[i]>> \in ARow
      BY <2>1, PairIsASeq DEF ARow, Word
    <3> QED BY <2>1, <3>1
  <2>3. users \in ATransaction
    BY <2>1, <2>2, FunctionIsASeq DEF ATransaction
  <2>4. \A row \in ToSet(users) : row[1] = "users"
    BY <2>1 DEF ToSet
  <2>5. createAccounts = <<users>>
    BY DEF createAccounts
  <2> HIDE DEF users
  <2> QED BY <2>3, <2>4, <2>5, OneTransaction DEF NoCompany
<1>3. Len(createTenants) \in Nat
  BY <1>1, LenProperties
<1> QED BY <1>1, <1>2, <1>3, NoCompanyBefore

LEMMA NeededRows ==
  ASSUME NEW c \in ToSet(demoCompanies)
  PROVE  /\ configuration(c) \o accounting(c) \o admit(c) \in ATransaction
         /\ ToSet(configuration(c) \o accounting(c) \o admit(c)) = Needed(c)
         /\ \A d : <<"companies", d>> \in Needed(c) => d = c
<1>1. c \in Word /\ Administrator[c] \in Word
  BY DatasetTyped
<1>2. /\ NoCompany(seedDefaultRoles(c)) /\ NoCompany(provisionSequences(c))
      /\ NoCompany(provisionChartOfAccounts(c)) /\ NoCompany(provisionPostingAccounts(c))
  <2>1. {"roles", "document_number_sequences", "accounts", "company_posting_accounts"}
          \subseteq Word \ {"companies"}
    BY DEF Word
  <2>2. NoCompany(seedDefaultRoles(c))
    BY <1>1, <2>1, DatasetTyped, RowsNoCompany DEF seedDefaultRoles
  <2>3. NoCompany(provisionSequences(c))
    BY <1>1, <2>1, DatasetTyped, RowsNoCompany DEF provisionSequences
  <2>4. NoCompany(provisionChartOfAccounts(c))
    BY <1>1, <2>1, DatasetTyped, RowsNoCompany DEF provisionChartOfAccounts
  <2>5. NoCompany(provisionPostingAccounts(c))
    BY <1>1, <2>1, DatasetTyped, RowsNoCompany DEF provisionPostingAccounts
  <2> QED BY <2>2, <2>3, <2>4, <2>5
<1>3. NoCompany(accounting(c))
  BY <1>2, NoCompanyConcat DEF accounting
<1>4. NoCompany(admit(c))
  <2>1. /\ <<"memberships", c, Administrator[c]>> \in ARow
        /\ <<"membership_roles", c, Administrator[c], ADMINISTRATOR_ROLE_KEY>> \in ARow
    BY <1>1, DatasetTyped, TripleIsASeq, QuadrupleIsASeq DEF ARow, Word
  <2>2. admit(c) \in ATransaction
    BY <2>1, PairIsASeq DEF admit, ATransaction
  <2>3. ToSet(admit(c)) = {<<"memberships", c, Administrator[c]>>,
                           <<"membership_roles", c, Administrator[c], ADMINISTRATOR_ROLE_KEY>>}
    BY DEF admit, ToSet
  <2> QED BY <2>2, <2>3 DEF NoCompany
<1>5. /\ configuration(c) \in ATransaction
      /\ \A row \in ToSet(configuration(c)) : row[1] = "companies" => row = <<"companies", c>>
  <2> DEFINE new == <<<<"companies", c>>>>
             rest == seedDefaultRoles(c) \o provisionSequences(c)
  <2>1. new \in ATransaction /\ ToSet(new) = {<<"companies", c>>}
    <3>1. <<"companies", c>> \in ARow
      BY <1>1, PairIsASeq DEF ARow, Word
    <3> QED BY <3>1, OneRow
  <2>2. NoCompany(rest)
    BY <1>2, NoCompanyConcat
  <2>3. configuration(c) = new \o rest
    <3>1. configuration(c) = (new \o seedDefaultRoles(c)) \o provisionSequences(c)
      BY DEF configuration
    <3>2. /\ new \in Seq(ARow) /\ seedDefaultRoles(c) \in Seq(ARow)
          /\ provisionSequences(c) \in Seq(ARow)
      BY <1>2, <2>1 DEF NoCompany, ATransaction
    <3> HIDE DEF new
    <3> QED BY <3>1, <3>2, ConcatAssociative
  <2> HIDE DEF new, rest
  <2>4. configuration(c) \in ATransaction /\ ToSet(configuration(c)) = ToSet(new) \cup ToSet(rest)
    BY <2>1, <2>2, <2>3, ConcatIsUnion DEF NoCompany, ATransaction
  <2> QED BY <2>1, <2>2, <2>4 DEF NoCompany
<1>6. /\ configuration(c) \o accounting(c) \in ATransaction
      /\ ToSet(configuration(c) \o accounting(c)) = ToSet(configuration(c)) \cup ToSet(accounting(c))
  BY <1>3, <1>5, ConcatIsUnion DEF NoCompany, ATransaction
<1>7. /\ (configuration(c) \o accounting(c)) \o admit(c) \in ATransaction
      /\ ToSet((configuration(c) \o accounting(c)) \o admit(c)) = Needed(c)
  <2> DEFINE most == configuration(c) \o accounting(c)
  <2>1. /\ most \in Seq(ARow) /\ admit(c) \in Seq(ARow)
        /\ ToSet(most) = ToSet(configuration(c)) \cup ToSet(accounting(c))
    BY <1>4, <1>6 DEF NoCompany, ATransaction
  <2> HIDE DEF most
  <2>2. most \o admit(c) \in Seq(ARow) /\ ToSet(most \o admit(c)) = ToSet(most) \cup ToSet(admit(c))
    BY <2>1, ConcatIsUnion
  <2> QED BY <2>1, <2>2 DEF ATransaction, Needed, most
<1>8. ASSUME NEW d, <<"companies", d>> \in Needed(c) PROVE d = c
  <2>1. PICK row : row = <<"companies", d>> /\ row \in Needed(c)
    BY <1>8
  <2>2. row[1] = "companies" /\ row[2] = d
    BY <2>1
  <2>3. row \in ToSet(configuration(c))
    BY <1>3, <1>4, <2>1, <2>2 DEF Needed, NoCompany
  <2>4. row = <<"companies", c>>
    BY <1>5, <2>2, <2>3
  <2> QED BY <2>2, <2>4
<1> QED BY <1>7, <1>8

LEMMA Provisioning ==
  ASSUME NEW c \in ToSet(demoCompanies)
  PROVE  /\ provision(c) \in Seq(ATransaction) /\ Len(provision(c)) = 1
         /\ \A T \in ToSet(provision(c)) : ToSet(T) = Needed(c)
<1> DEFINE T == configuration(c) \o accounting(c) \o admit(c)
<1>1. T \in ATransaction /\ ToSet(T) = Needed(c)
  BY NeededRows
<1>2. provision(c) = <<T>>
  BY DEF provision
<1> HIDE DEF T
<1> QED BY <1>1, <1>2, OneTransaction

LEMMA FurtherMembers ==
  ASSUME NEW c \in ToSet(demoCompanies)
  PROVE  admitMembers(c) \in Seq(ATransaction) /\ \A T \in ToSet(admitMembers(c)) : NoCompany(T)
<1> DEFINE who == [i \in DOMAIN Members[c] |-> Members[c][i][1]]
           role == [i \in DOMAIN Members[c] |->
                      <<<<"membership_roles", c, Members[c][i][1], Members[c][i][2]>>>>]
           N == Len(Members[c])
<1>1. c \in Word /\ Members[c] \in Seq(Word \X Word)
  BY DatasetTyped
<1>2. N \in Nat /\ DOMAIN Members[c] = 1 .. N
      /\ \A i \in 1 .. N : Members[c][i][1] \in Word /\ Members[c][i][2] \in Word
  <2>1. Members[c] \in [1 .. N -> Word \X Word] /\ N \in Nat
    BY <1>1, LenProperties
  <2>2. \A i \in 1 .. N : Members[c][i] \in Word \X Word
    BY <2>1
  <2> QED BY <2>1, <2>2
<1> HIDE DEF N
<1>3. who \in Seq(Word)
  BY <1>2, FunctionIsASeq
<1>4. NoCompany(Rows("memberships", c, who))
  <2>1. "memberships" \in Word /\ "memberships" # "companies"
    BY DEF Word
  <2> HIDE DEF who
  <2> QED BY <1>1, <1>3, <2>1, RowsNoCompany
<1>5. \A i \in 1 .. N : NoCompany(role[i])
  <2> SUFFICES ASSUME NEW i \in 1 .. N PROVE NoCompany(role[i])
    OBVIOUS
  <2>1. <<"membership_roles", c, Members[c][i][1], Members[c][i][2]>> \in ARow
    BY <1>1, <1>2, QuadrupleIsASeq DEF ARow, Word
  <2>2. i \in DOMAIN Members[c]
    BY <1>2
  <2>3. role[i] = <<<<"membership_roles", c, Members[c][i][1], Members[c][i][2]>>>>
    BY <2>2, Zenon
  <2>4. PICK row : row = <<"membership_roles", c, Members[c][i][1], Members[c][i][2]>>
    OBVIOUS
  <2>5. row \in ARow /\ row[1] # "companies" /\ role[i] = <<row>>
    <3>1. row \in ARow /\ role[i] = <<row>>
      BY <2>1, <2>3, <2>4, Zenon
    <3> QED BY <2>4, <3>1
  <2> HIDE DEF role
  <2> QED BY <2>5, OneRow DEF NoCompany
<1>6. DOMAIN role = 1 .. N
  BY <1>2
<1> HIDE DEF role
<1>7. role \in Seq(ATransaction)
  <2>1. \A i \in 1 .. N : role[i] \in ATransaction
    BY <1>5 DEF NoCompany
  <2>2. role = [i \in 1 .. N |-> role[i]]
    BY <1>6 DEF role
  <2>3. role \in [1 .. N -> ATransaction]
    BY <2>1, <2>2
  <2> QED BY <1>2, <2>3, FunctionIsASeq
<1>8. \A T \in ToSet(role) : NoCompany(T)
  BY <1>5, <1>6 DEF ToSet
<1>9. /\ <<Rows("memberships", c, who)>> \in Seq(ATransaction)
      /\ \A T \in ToSet(<<Rows("memberships", c, who)>>) : NoCompany(T)
  <2> DEFINE ms == Rows("memberships", c, who)
  <2>1. ms \in ATransaction /\ NoCompany(ms)
    BY <1>4 DEF NoCompany
  <2> HIDE DEF ms
  <2> QED BY <2>1, OneTransaction DEF ms
<1>10. admitMembers(c) = IF who = <<>> THEN <<>> ELSE <<Rows("memberships", c, who)>> \o role
  BY DEF admitMembers, role
<1>11. /\ <<>> \in Seq(ATransaction) /\ ToSet(<<>>) = {}
  BY DEF ToSet
<1>12. /\ <<Rows("memberships", c, who)>> \o role \in Seq(ATransaction)
       /\ \A T \in ToSet(<<Rows("memberships", c, who)>> \o role) : NoCompany(T)
  <2> DEFINE one == <<Rows("memberships", c, who)>>
  <2>1. one \in Seq(ATransaction) /\ \A T \in ToSet(one) : NoCompany(T)
    BY <1>9
  <2> HIDE DEF one
  <2>2. one \o role \in Seq(ATransaction) /\ ToSet(one \o role) = ToSet(one) \cup ToSet(role)
    BY <1>7, <2>1, ConcatIsUnion
  <2>3. one \o role \in Seq(ATransaction) /\ \A T \in ToSet(one \o role) : NoCompany(T)
    BY <1>8, <2>1, <2>2
  <2> QED BY <2>3 DEF one
<1> HIDE DEF who
<1>13. CASE who = <<>>
  BY <1>10, <1>11, <1>13
<1>14. CASE who # <<>>
  BY <1>10, <1>12, <1>14
<1> QED BY <1>13, <1>14

LEMMA OpeningStock ==
  ASSUME NEW c \in ToSet(demoCompanies)
  PROVE  LET load == loadMasterDataAndOpeningStock(c)
         IN  load \in Seq(ATransaction) /\ \A T \in ToSet(load) : NoCompany(T)
<1> DEFINE w == <<<<"warehouses", c>>>>
           p == Rows("products", c, Products[c])
           m == Rows("stock_movements", c, Products[c])
<1>1. c \in Word /\ Products[c] \in Seq(Word)
  BY DatasetTyped
<1>2. NoCompany(w)
  <2>1. <<"warehouses", c>> \in ARow
    BY <1>1, PairIsASeq DEF ARow, Word
  <2> QED BY <2>1, OneRow DEF NoCompany
<1>3. NoCompany(p) /\ NoCompany(m)
  <2>1. {"products", "stock_movements"} \subseteq Word \ {"companies"}
    BY DEF Word
  <2> QED BY <1>1, <2>1, RowsNoCompany
<1>4. loadMasterDataAndOpeningStock(c) = <<w \o p \o m>>
  BY DEF loadMasterDataAndOpeningStock
<1> HIDE DEF w, p, m
<1>5. NoCompany((w \o p) \o m)
  <2>1. NoCompany(w \o p)
    BY <1>2, <1>3, NoCompanyConcat
  <2> QED BY <1>3, <2>1, NoCompanyConcat
<1> DEFINE T == (w \o p) \o m
<1>6. T \in ATransaction /\ NoCompany(T) /\ loadMasterDataAndOpeningStock(c) = <<T>>
  BY <1>4, <1>5 DEF NoCompany
<1> HIDE DEF T
<1> QED BY <1>6, OneTransaction

\* A transaction that sets up a company sets up all of it.
Whole(T) ==
  /\ T \in ATransaction
  /\ \A c \in ToSet(demoCompanies) : <<"companies", c>> \in ToSet(T) => Needed(c) \subseteq ToSet(T)

LEMMA NoCompanyIsWhole == ASSUME NEW T, NoCompany(T) PROVE Whole(T)
<1>1. \A c : <<"companies", c>>[1] = "companies"
  OBVIOUS
<1> QED BY <1>1 DEF NoCompany, Whole

LEMMA Building ==
  ASSUME NEW c \in ToSet(demoCompanies)
  PROVE  /\ building(c) \in Seq(ATransaction) /\ Len(building(c)) > 0
         /\ \A T \in ToSet(building(c)) : Whole(T)
<1> DEFINE a == provision(c)
           b == admitMembers(c)
           d == loadMasterDataAndOpeningStock(c)
<1>1. a \in Seq(ATransaction) /\ Len(a) = 1 /\ \A T \in ToSet(a) : ToSet(T) = Needed(c)
  BY Provisioning
<1>2. b \in Seq(ATransaction) /\ \A T \in ToSet(b) : Whole(T)
  BY FurtherMembers, NoCompanyIsWhole
<1>3. d \in Seq(ATransaction) /\ \A T \in ToSet(d) : Whole(T)
  BY OpeningStock, NoCompanyIsWhole
<1>4. building(c) = (a \o b) \o d
  BY DEF building
<1>5. \A T \in ToSet(a) : Whole(T)
  <2>1. \A T \in ToSet(a) : T \in ATransaction
    <3> HIDE DEF a
    <3>1. \A i \in 1 .. Len(a) : a[i] \in ATransaction
      BY <1>1
    <3>2. DOMAIN a = 1 .. Len(a)
      BY <1>1
    <3> QED BY <3>1, <3>2 DEF ToSet
  <2> QED BY <1>1, <2>1, NeededRows DEF Whole
<1> HIDE DEF a, b, d
<1>6. /\ a \o b \in Seq(ATransaction) /\ ToSet(a \o b) = ToSet(a) \cup ToSet(b)
      /\ Len(a \o b) = Len(a) + Len(b)
  BY <1>1, <1>2, ConcatIsUnion
<1> DEFINE ab == a \o b
<1>7. /\ ab \in Seq(ATransaction) /\ ToSet(ab) = ToSet(a) \cup ToSet(b)
      /\ Len(ab) = Len(a) + Len(b) /\ building(c) = ab \o d
  BY <1>4, <1>6
<1> HIDE DEF ab
<1>8. /\ building(c) \in Seq(ATransaction) /\ ToSet(building(c)) = ToSet(ab) \cup ToSet(d)
      /\ Len(building(c)) = Len(ab) + Len(d)
  BY <1>3, <1>7, ConcatIsUnion
<1>9. Len(b) \in Nat /\ Len(d) \in Nat
  BY <1>2, <1>3, LenProperties
<1> QED BY <1>1, <1>2, <1>3, <1>5, <1>7, <1>8, <1>9

LEMMA ProgramParts ==
  /\ Program \in Seq(Seq(ATransaction))
  /\ \A i \in DOMAIN Program : Len(Program[i]) > 0 /\ \A T \in ToSet(Program[i]) : Whole(T)
<1> DEFINE first == createTenants \o createAccounts
           rest == [i \in DOMAIN demoCompanies |-> building(demoCompanies[i])]
           N == Len(demoCompanies)
           Part(p) == /\ p \in Seq(ATransaction) /\ Len(p) > 0
                      /\ \A T \in ToSet(p) : Whole(T)
<1>1. Part(first)
  BY FirstTransactions, NoCompanyIsWhole
<1>2. N \in Nat /\ DOMAIN demoCompanies = 1 .. N
  BY DatasetTyped, LenProperties
<1>3. \A i \in 1 .. N : demoCompanies[i] \in ToSet(demoCompanies)
  BY <1>2 DEF ToSet
<1> HIDE DEF N
<1>4. \A i \in 1 .. N : rest[i] = building(demoCompanies[i]) /\ Part(rest[i])
  <2>1. \A i \in 1 .. N : rest[i] = building(demoCompanies[i])
    BY <1>2
  <2>2. \A i \in 1 .. N : Part(building(demoCompanies[i]))
    BY <1>3, Building
  <2> HIDE DEF Part, rest
  <2> QED BY <2>1, <2>2
<1>5. DOMAIN rest = 1 .. N
  BY <1>2
<1>6. Program = <<first>> \o rest
  BY DEF Program
<1> HIDE DEF first
<1>7. rest \in Seq(Seq(ATransaction))
  <2>1. rest \in [1 .. N -> Seq(ATransaction)]
    <3>1. \A i \in 1 .. N : rest[i] \in Seq(ATransaction)
      BY <1>4
    <3>2. rest = [i \in 1 .. N |-> rest[i]]
      BY <1>2
    <3> HIDE DEF rest
    <3> QED BY <3>1, <3>2
  <2> HIDE DEF rest
  <2> QED BY <1>2, <2>1, FunctionIsASeq
<1> HIDE DEF rest
<1>10. Len(rest) = N
  BY <1>2, <1>5, <1>7
<1>11. /\ Program \in Seq(Seq(ATransaction)) /\ Len(Program) = 1 + N
       /\ Program[1] = first
       /\ \A i \in 2 .. 1 + N : Program[i] = rest[i - 1]
  <2>1. first \in Seq(ATransaction) /\ Program = <<first>> \o rest
    BY <1>1, <1>6
  <2> QED BY <1>7, <1>10, <2>1, Prepended
<1>12. \A i \in 1 .. 1 + N : Part(Program[i])
  <2> SUFFICES ASSUME NEW i \in 1 .. 1 + N PROVE Part(Program[i])
    OBVIOUS
  <2> HIDE DEF Part
  <2>1. CASE i = 1
    BY <1>1, <1>11, <2>1
  <2>2. CASE i # 1
    <3>1. i \in 2 .. 1 + N /\ i - 1 \in 1 .. N
      BY <1>2, <2>2
    <3> QED BY <1>4, <1>11, <3>1
  <2> QED BY <2>1, <2>2
<1>13. DOMAIN Program = 1 .. 1 + N
  BY <1>11, LenProperties
<1> QED BY <1>11, <1>12, <1>13

-----------------------------------------------------------------------------
(* Seeds *)

\* A transaction of the program, or the place after all of them.
InProgram(place) ==
  /\ place \in Nat \X Nat /\ place[1] >= 1
  /\ place[1] <= Len(Program) => place[2] \in 1 .. Len(Program[place[1]])

\* What a seed has inserted is the rows of its transaction up to where it is.
InsertsInOrder(s) ==
  /\ spc[s] \in {"tenants", "present", "absent"} => written[s] = {} /\ stmt[s] = 1
  /\ Writing(s) =>
       /\ stmt[s] \in 1 .. Len(Transaction(s)) + 1
       /\ written[s] = {Transaction(s)[i] : i \in 1 .. stmt[s] - 1}

\* What is stored came in whole transactions.
StoredTogether ==
  \A row \in stored : \E T \in Transactions : row \in ToSet(T) /\ ToSet(T) \subseteq stored

SeedInv ==
  /\ SeedTypeOK
  /\ \A s \in Seed : InProgram(at[s]) /\ InsertsInOrder(s)
  /\ StoredTogether

LEMMA OfTheProgram ==
  ASSUME NEW place, InProgram(place), place[1] <= Len(Program)
  PROVE  LET T == Program[place[1]][place[2]]
         IN  /\ T \in Transactions /\ Len(T) \in Nat
             /\ ToSet(T) = {T[i] : i \in 1 .. Len(T)} /\ ToSet(T) \subseteq Everything
<1> DEFINE part == Program[place[1]]
           T == part[place[2]]
<1>1. place[1] \in DOMAIN Program
  <2>1. Len(Program) \in Nat /\ DOMAIN Program = 1 .. Len(Program)
    BY ProgramParts, LenProperties
  <2> QED BY <2>1 DEF InProgram
<1>2. part \in Seq(ATransaction) /\ \A t \in ToSet(part) : Whole(t)
  BY <1>1, ProgramParts
<1>3. place[2] \in 1 .. Len(part)
  BY DEF InProgram
<1> HIDE DEF part
<1>4. T \in ATransaction /\ T \in ToSet(part)
  BY <1>2, <1>3 DEF ToSet
<1>5. T \in Transactions
  BY <1>1, <1>4 DEF Transactions, part
<1> HIDE DEF T
<1>6. Len(T) \in Nat /\ DOMAIN T = 1 .. Len(T)
  BY <1>4, LenProperties DEF ATransaction
<1> QED BY <1>5, <1>6 DEF Everything, ToSet, T, part

LEMMA TheNextIsOfTheProgram ==
  ASSUME NEW place, InProgram(place), place[1] <= Len(Program)
  PROVE  InProgram(After(place))
<1>1. Len(Program) \in Nat /\ DOMAIN Program = 1 .. Len(Program)
  BY ProgramParts, LenProperties
<1>2. \A i \in 1 .. Len(Program) : Len(Program[i]) \in Nat \ {0}
  <2> SUFFICES ASSUME NEW i \in 1 .. Len(Program) PROVE Len(Program[i]) \in Nat \ {0}
    OBVIOUS
  <2>1. Program[i] \in Seq(ATransaction) /\ Len(Program[i]) > 0
    <3>1. Program[i] \in Seq(ATransaction)
      BY ProgramParts, ElementOfSeq
    <3> QED BY <1>1, <3>1, ProgramParts
  <2> QED BY <2>1, LenProperties
<1>3. place[1] \in 1 .. Len(Program) /\ place[1] \in Nat /\ place[2] \in Nat
      /\ place[2] \in 1 .. Len(Program[place[1]])
  BY <1>1 DEF InProgram
<1>4. CASE place[2] < Len(Program[place[1]])
  <2>1. After(place) = <<place[1], place[2] + 1>>
    BY <1>4 DEF After
  <2>2. PICK p, q : p = place[1] /\ q = place[2] + 1
    OBVIOUS
  <2>3. p \in Nat /\ q \in Nat /\ p >= 1 /\ q \in 1 .. Len(Program[p]) /\ After(place) = <<p, q>>
    BY <1>2, <1>3, <1>4, <2>1, <2>2
  <2> QED BY <2>3 DEF InProgram
<1>5. CASE ~(place[2] < Len(Program[place[1]]))
  <2>1. After(place) = <<place[1] + 1, 1>>
    BY <1>5 DEF After
  <2>2. PICK p : p = place[1] + 1
    OBVIOUS
  <2>3. p \in Nat /\ p >= 1 /\ After(place) = <<p, 1>>
    BY <1>3, <2>1, <2>2
  <2>4. p <= Len(Program) => 1 \in 1 .. Len(Program[p])
    BY <1>1, <1>2, <2>3
  <2> QED BY <2>3, <2>4 DEF InProgram
<1> QED BY <1>4, <1>5

LEMMA SeedInitInv == SeedInit => SeedInv
<1> SUFFICES ASSUME SeedInit PROVE SeedInv
  OBVIOUS
<1>1. SeedTypeOK
  BY DEF SeedInit, SeedTypeOK, SeedEnded
<1>2. ASSUME NEW s \in Seed PROVE InProgram(at[s]) /\ InsertsInOrder(s)
  <2>1. Len(Program) > 0 => Len(Program[1]) \in Nat \ {0}
    <3> SUFFICES ASSUME Len(Program) > 0 PROVE Len(Program[1]) \in Nat \ {0}
      OBVIOUS
    <3>1. 1 \in DOMAIN Program
      BY ProgramParts, LenProperties
    <3>2. Program[1] \in Seq(ATransaction) /\ Len(Program[1]) > 0
      BY <3>1, ProgramParts
    <3> QED BY <3>2, LenProperties
  <2>2. Len(Program) \in Nat
    BY ProgramParts, LenProperties
  <2>3. at[s] = <<1, 1>>
    BY DEF SeedInit
  <2>4. InProgram(at[s])
    BY <2>1, <2>2, <2>3 DEF InProgram
  <2>5. InsertsInOrder(s)
    BY DEF SeedInit, InsertsInOrder, Writing
  <2> QED BY <2>4, <2>5
<1> QED BY <1>1, <1>2 DEF SeedInv, SeedInit, StoredTogether

\* A seed's step says nothing of another.
LEMMA OtherSeeds ==
  ASSUME NEW t, InsertsInOrder(t),
         spc'[t] = spc[t], written'[t] = written[t], at'[t] = at[t], stmt'[t] = stmt[t]
  PROVE  InsertsInOrder(t)'
BY DEF InsertsInOrder, Writing, Transaction

LEMMA StopsInv ==
  ASSUME SeedInv, NEW s \in Seed, NEW how \in SeedEnded, Stops(s, how)
  PROVE  SeedInv'
<1>1. /\ spc' = [spc EXCEPT ![s] = how] /\ written' = [written EXCEPT ![s] = {}]
      /\ UNCHANGED <<stored, at, stmt>>
  BY DEF Stops
<1>2. /\ spc \in [Seed -> SeedEnded \cup {"tenants", "present", "absent", "write"}]
      /\ written \in [Seed -> SUBSET Everything]
  BY DEF SeedInv, SeedTypeOK
<1>3. SeedTypeOK'
  BY <1>1, <1>2 DEF SeedInv, SeedTypeOK
<1>4. spc'[s] = how /\ how \notin {"tenants", "present", "absent", "write"}
  BY <1>1, <1>2 DEF SeedEnded
<1>5. ASSUME NEW t \in Seed PROVE InProgram(at[t])' /\ InsertsInOrder(t)'
  <2>1. InProgram(at[t]) /\ InsertsInOrder(t)
    BY DEF SeedInv
  <2>2. InProgram(at[t])'
    BY <1>1, <2>1 DEF InProgram
  <2>3. CASE t = s
    BY <1>4, <2>2, <2>3 DEF InsertsInOrder, Writing
  <2>4. CASE t # s
    BY <1>1, <1>2, <2>1, <2>2, <2>4, OtherSeeds
  <2> QED BY <2>3, <2>4
<1> QED BY <1>1, <1>3, <1>5 DEF SeedInv, StoredTogether

\* Looking, a seed has written nothing.
LEMMA LooksInv ==
  ASSUME SeedInv, NEW s \in Seed, spc[s] \in {"tenants", "present", "absent"},
         NEW where \in {"present", "absent", "write"}, GoOn(s, where)
  PROVE  SeedInv'
<1>1. spc' = [spc EXCEPT ![s] = where] /\ UNCHANGED <<stored, written, at, stmt>>
  BY DEF GoOn
<1>2. /\ spc \in [Seed -> SeedEnded \cup {"tenants", "present", "absent", "write"}]
      /\ SeedTypeOK'
  BY <1>1 DEF SeedInv, SeedTypeOK
<1>3. ASSUME NEW t \in Seed PROVE InProgram(at[t])' /\ InsertsInOrder(t)'
  <2>1. InProgram(at[t]) /\ InsertsInOrder(t)
    BY DEF SeedInv
  <2>2. InProgram(at[t])'
    BY <1>1, <2>1 DEF InProgram
  <2>3. CASE t = s
    <3>1. written'[s] = {} /\ stmt'[s] = 1
      BY <1>1, <2>1, <2>3 DEF InsertsInOrder
    <3>2. ASSUME Writing(s)' PROVE Len(Transaction(s)') \in Nat
      BY <2>2, <2>3, <3>2, OfTheProgram DEF Writing, Transaction
    <3>3. ASSUME Writing(s)'
          PROVE  /\ stmt'[s] \in 1 .. Len(Transaction(s)') + 1
                 /\ written'[s] = {Transaction(s)'[i] : i \in 1 .. stmt'[s] - 1}
      BY <3>1, <3>2, <3>3
    <3>4. InsertsInOrder(s)'
      BY <3>1, <3>3 DEF InsertsInOrder
    <3> QED BY <2>2, <2>3, <3>4
  <2>4. CASE t # s
    BY <1>1, <1>2, <2>1, <2>2, <2>4, OtherSeeds
  <2> QED BY <2>3, <2>4
<1> QED BY <1>1, <1>2, <1>3 DEF SeedInv, StoredTogether

LEMMA InsertInv ==
  ASSUME SeedInv, NEW s \in Seed, Insert(s)
  PROVE  SeedInv'
<1> DEFINE T == Transaction(s)
           n == stmt[s]
<1>1. /\ Writing(s) /\ n <= Len(T)
      /\ written' = [written EXCEPT ![s] = @ \cup {T[n]}]
      /\ stmt' = [stmt EXCEPT ![s] = @ + 1]
      /\ UNCHANGED <<stored, spc, at>>
  BY DEF Insert, Row
<1>2. /\ written \in [Seed -> SUBSET Everything] /\ stmt \in [Seed -> Nat]
      /\ InProgram(at[s]) /\ InsertsInOrder(s)
  BY DEF SeedInv, SeedTypeOK
<1>3. Len(T) \in Nat /\ ToSet(T) = {T[i] : i \in 1 .. Len(T)} /\ ToSet(T) \subseteq Everything
  BY <1>1, <1>2, OfTheProgram DEF Writing, Transaction
<1>4. n \in 1 .. Len(T) + 1 /\ written[s] = {T[i] : i \in 1 .. n - 1}
  BY <1>1, <1>2 DEF InsertsInOrder
<1>5. n \in 1 .. Len(T) /\ n \in Nat
  BY <1>1, <1>2, <1>3, <1>4
<1>6. written'[s] = written[s] \cup {T[n]} /\ stmt'[s] = n + 1
  BY <1>1, <1>2
<1>7. T' = T
  BY <1>1 DEF Transaction
<1> HIDE DEF T, n
<1>8. T[n] \in Everything
  BY <1>3, <1>5
<1>9. SeedTypeOK'
  BY <1>1, <1>2, <1>8 DEF SeedInv, SeedTypeOK
<1>10. InsertsInOrder(s)'
  <2>1. {T[i] : i \in 1 .. n - 1} \cup {T[n]} = {T[i] : i \in 1 .. n}
    BY <1>5
  <2>2. stmt'[s] \in 1 .. Len(T) + 1 /\ stmt'[s] - 1 = n /\ stmt'[s] # 1
    BY <1>3, <1>5, <1>6
  <2>3. written'[s] = {T[i] : i \in 1 .. stmt'[s] - 1}
    BY <1>4, <1>6, <2>1, <2>2
  <2>4. spc'[s] = "write"
    BY <1>1 DEF Writing
  <2> QED BY <1>7, <2>2, <2>3, <2>4 DEF InsertsInOrder, T
<1>11. ASSUME NEW t \in Seed PROVE InProgram(at[t])' /\ InsertsInOrder(t)'
  <2>1. InProgram(at[t]) /\ InsertsInOrder(t)
    BY DEF SeedInv
  <2>2. InProgram(at[t])'
    BY <1>1, <2>1 DEF InProgram
  <2>3. CASE t # s
    BY <1>1, <1>2, <2>1, <2>2, <2>3, OtherSeeds
  <2> QED BY <1>10, <2>2, <2>3
<1> QED BY <1>1, <1>9, <1>11 DEF SeedInv, StoredTogether

LEMMA CommitSeedInv ==
  ASSUME SeedInv, NEW s \in Seed, CommitSeed(s)
  PROVE  SeedInv'
<1> DEFINE T == Transaction(s)
<1>1. /\ Writing(s) /\ stmt[s] > Len(T)
      /\ stored' = stored \cup written[s]
      /\ written' = [written EXCEPT ![s] = {}]
      /\ at' = [at EXCEPT ![s] = After(@)]
      /\ stmt' = [stmt EXCEPT ![s] = 1]
      /\ spc' = spc
  BY DEF CommitSeed
<1>2. /\ written \in [Seed -> SUBSET Everything] /\ stmt \in [Seed -> Nat]
      /\ at \in [Seed -> Nat \X Nat] /\ stored \subseteq Everything
      /\ InProgram(at[s]) /\ InsertsInOrder(s)
  BY DEF SeedInv, SeedTypeOK
<1>3. /\ T \in Transactions /\ Len(T) \in Nat
      /\ ToSet(T) = {T[i] : i \in 1 .. Len(T)} /\ ToSet(T) \subseteq Everything
  BY <1>1, <1>2, OfTheProgram DEF Writing, Transaction
<1>4. stmt[s] \in 1 .. Len(T) + 1 /\ written[s] = {T[i] : i \in 1 .. stmt[s] - 1}
  BY <1>1, <1>2 DEF InsertsInOrder
<1>5. stored' = stored \cup ToSet(T)
  <2> HIDE DEF T
  <2>1. stmt[s] - 1 = Len(T)
    BY <1>1, <1>2, <1>3, <1>4
  <2> QED BY <1>1, <1>3, <1>4, <2>1
<1>6. InProgram(After(at[s]))
  BY <1>1, <1>2, TheNextIsOfTheProgram DEF Writing
<1>7. After(at[s]) \in Nat \X Nat
  BY <1>6 DEF InProgram
<1> HIDE DEF T
<1>8. SeedTypeOK'
  <2>1. stored' \subseteq Everything
    BY <1>2, <1>3, <1>5
  <2>2. at' \in [Seed -> Nat \X Nat]
    BY <1>1, <1>2, <1>7
  <2>3. written' \in [Seed -> SUBSET Everything] /\ stmt' \in [Seed -> Nat]
    BY <1>1, <1>2
  <2> QED BY <1>1, <2>1, <2>2, <2>3 DEF SeedInv, SeedTypeOK
<1>9. ASSUME NEW t \in Seed PROVE InProgram(at[t])' /\ InsertsInOrder(t)'
  <2>1. InProgram(at[t]) /\ InsertsInOrder(t)
    BY DEF SeedInv
  <2>2. CASE t = s
    <3>1. written'[s] = {} /\ stmt'[s] = 1 /\ at'[s] = After(at[s]) /\ spc'[s] = "write"
      BY <1>1, <1>2 DEF Writing
    <3>2. InProgram(at'[s])
      BY <1>6, <3>1
    <3>3. ASSUME Writing(s)' PROVE Len(Transaction(s)') \in Nat
      BY <3>2, <3>3, OfTheProgram DEF Writing, Transaction
    <3>4. {Transaction(s)'[i] : i \in 1 .. 1 - 1} = {}
      OBVIOUS
    <3> QED BY <2>2, <3>1, <3>2, <3>3, <3>4 DEF InsertsInOrder
  <2>3. CASE t # s
    <3>1. /\ spc'[t] = spc[t] /\ written'[t] = written[t] /\ at'[t] = at[t] /\ stmt'[t] = stmt[t]
      BY <1>1, <1>2, <2>3
    <3> QED BY <2>1, <3>1, OtherSeeds
  <2> QED BY <2>2, <2>3
<1>10. StoredTogether'
  <2> SUFFICES ASSUME NEW row \in stored'
               PROVE  \E t \in Transactions : row \in ToSet(t) /\ ToSet(t) \subseteq stored'
    BY DEF StoredTogether
  <2>1. CASE row \in stored
    BY <1>5, <2>1 DEF SeedInv, StoredTogether
  <2>2. CASE row \in ToSet(T)
    BY <1>3, <1>5, <2>2
  <2> QED BY <1>5, <2>1, <2>2
<1> QED BY <1>8, <1>9, <1>10 DEF SeedInv

LEMMA SeedStepInv ==
  ASSUME SeedInv, NEW s \in Seed, SeedAdvance(s) \/ CrashSeed(s)
  PROVE  SeedInv'
<1>1. "refused" \in SeedEnded /\ "failed" \in SeedEnded /\ "reported" \in SeedEnded
  BY DEF SeedEnded
<1>2. CASE LookForTenants(s)
  <2>1. PICK where \in {"present", "absent"} : GoOn(s, where)
    BY <1>2 DEF LookForTenants
  <2>2. spc[s] \in {"tenants", "present", "absent"}
    BY <1>2 DEF LookForTenants
  <2> QED BY <2>1, <2>2, LooksInv
<1>3. CASE LookForAccounts(s)
  <2>1. spc[s] \in {"tenants", "present", "absent"}
    BY <1>3 DEF LookForAccounts
  <2>2. Stops(s, "refused") \/ GoOn(s, "write")
    BY <1>3 DEF LookForAccounts
  <2>3. PICK where \in {"present", "absent", "write"} : where = "write"
    OBVIOUS
  <2>4. PICK how \in SeedEnded : how = "refused"
    BY <1>1
  <2>5. Stops(s, how) \/ GoOn(s, where)
    BY <2>2, <2>3, <2>4
  <2> QED BY <2>1, <2>5, LooksInv, StopsInv
<1>4. CASE Insert(s)
  BY <1>4, InsertInv
<1>5. CASE Throw(s) \/ NoTable(s) \/ Report(s) \/ CrashSeed(s)
  <2>1. Stops(s, "failed") \/ Stops(s, "reported")
    BY <1>5 DEF Throw, NoTable, Report, CrashSeed
  <2>2. PICK how \in SeedEnded : Stops(s, how)
    BY <1>1, <2>1
  <2> QED BY <2>2, StopsInv
<1>6. CASE CommitSeed(s)
  BY <1>6, CommitSeedInv
<1> QED BY <1>2, <1>3, <1>4, <1>5, <1>6 DEF SeedAdvance

LEMMA SeedUnchangedInv == ASSUME SeedInv, UNCHANGED seedVars PROVE SeedInv'
<1>1. stored' = stored /\ written' = written /\ spc' = spc /\ at' = at /\ stmt' = stmt
  BY DEF seedVars
<1>2. SeedTypeOK' /\ StoredTogether'
  BY <1>1 DEF SeedInv, SeedTypeOK, StoredTogether
<1>3. ASSUME NEW t \in Seed PROVE InProgram(at[t])' /\ InsertsInOrder(t)'
  <2>1. InProgram(at[t]) /\ InsertsInOrder(t)
    BY DEF SeedInv
  <2> QED BY <1>1, <2>1, OtherSeeds
<1> QED BY <1>2, <1>3 DEF SeedInv

LEMMA WholeInStore == SeedInv => CompaniesAreWhole
<1> SUFFICES ASSUME SeedInv, NEW c \in ToSet(demoCompanies), <<"companies", c>> \in stored
             PROVE  Needed(c) \subseteq stored
  BY DEF CompaniesAreWhole
<1>1. PICK T \in Transactions : <<"companies", c>> \in ToSet(T) /\ ToSet(T) \subseteq stored
  BY DEF SeedInv, StoredTogether
<1>2. Whole(T)
  BY ProgramParts DEF Transactions
<1> QED BY <1>1, <1>2 DEF Whole

-----------------------------------------------------------------------------
(* Setting up *)

SetupInv == RunnerInv /\ SeedInv

\* What is between two commits stays as the invariant says: the runner that holds
\* the lock has only newer migrations of its own tree to apply, and a seed has
\* inserted exactly a beginning of its transaction.  (runMigrations, seed)
THEOREM SetupInvHolds == SetupSpec => []SetupInv
<1>1. SetupInit => SetupInv
  BY RunnerInitInv, SeedInitInv DEF SetupInit, SetupInv
<1>2. SetupInv /\ [SetupNext]_setupVars => SetupInv'
  <2> SUFFICES ASSUME SetupInv, [SetupNext]_setupVars PROVE SetupInv'
    OBVIOUS
  <2>1. RunnerInv /\ SeedInv
    BY DEF SetupInv
  <2>2. CASE UNCHANGED setupVars
    <3>1. UNCHANGED runnerVars /\ UNCHANGED seedVars
      BY <2>2 DEF setupVars
    <3> QED BY <2>1, <3>1, RunnerUnchangedInv, SeedUnchangedInv DEF SetupInv
  <2>3. ASSUME NEW r \in Runner, RunnerStep(r), UNCHANGED seedVars PROVE SetupInv'
    BY <2>1, <2>3, RunnerStepInv, SeedUnchangedInv DEF SetupInv
  <2>4. ASSUME NEW s \in Seed, SeedAdvance(s) \/ CrashSeed(s), UNCHANGED runnerVars
        PROVE  SetupInv'
    BY <2>1, <2>4, RunnerUnchangedInv, SeedStepInv DEF SetupInv
  <2> QED BY <2>2, <2>3, <2>4 DEF SetupNext
<1> QED BY <1>1, <1>2, PTL DEF SetupSpec

\* The recorded history is what was executed, in ascending order and nothing
\* twice, whatever runners of whatever trees are started at once and wherever one
\* of them crashes.  (run)
THEOREM HistoryKept == SetupSpec => []HistoryIsTheRecord
<1>1. SetupInv => HistoryIsTheRecord
  BY DEF SetupInv, RunnerInv
<1> QED BY <1>1, SetupInvHolds, PTL

\* Every company that is there has its roles, sequences, chart, posting accounts
\* and administrator, however many seeds of whatever dataset run, on however much
\* of the schema, and wherever one fails or crashes.  (provision)
THEOREM CompaniesWhole == SetupSpec => []CompaniesAreWhole
<1>1. SetupInv => CompaniesAreWhole
  BY WholeInStore DEF SetupInv
<1> QED BY <1>1, SetupInvHolds, PTL

=============================================================================
