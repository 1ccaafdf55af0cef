--------------------------- MODULE BrowserSession ---------------------------
(***************************************************************************)
(* A browser at the service: its cookies, what its tabs believe of the     *)
(* session, and what they keep of the documents they fetched.              *)
(*                                                                         *)
(* The cookies are shared by the tabs and change when an answer arrives,   *)
(* in whatever order answers arrive.  A tab learns who it is by asking     *)
(* /me; its queries and its mutations overlap, and what was asked for one  *)
(* person or company may be answered after the tab has moved on.  A call   *)
(* may be given up by the browser and still reach the server.              *)
(*                                                                         *)
(* The documents are one order, which belongs to the company Home and is   *)
(* confirmed, cancelled and invoiced from its screen.  Everybody holds     *)
(* the permissions that takes; who holds which is in CompanyAccess, what   *)
(* the commands do in OrderFulfilment and InvoicePosting.                  *)
(***************************************************************************)
EXTENDS Integers, TLC

CONSTANTS
  Tab,
  User, Company, None,
  Unknown, Nobody,  \* /me before anything is known, and when nobody is signed in
  Random,           \* a forgery token that is bound to no session
  Companies,        \* the companies each person is a member of
  AtWork,           \* the people who may be found at work
  Home,             \* the company of the order
  MaxSessions,      \* bounds: sessions opened,
  MaxCalls,         \* calls made by hand or by a query,
  MaxVisits,        \* visits to the screen of the order,
  MaxFailures       \* connections that fail

Sid == 1 .. MaxSessions

ASSUME BrowserAssumption ==
  /\ None \notin User /\ None \notin Company /\ None \notin Sid
  /\ Unknown # Nobody
  /\ Companies \in [User -> SUBSET Company]
  /\ Home \in Company /\ AtWork \subseteq User
  /\ MaxSessions \in Nat \ {0} /\ MaxCalls \in Nat /\ MaxVisits \in Nat /\ MaxFailures \in Nat

VARIABLES
  sessions,    \* the server: its sessions,
  order,       \* the order; history: of each invoice the visit, the person, the call,
  records,     \* idempotency records
  jar,         \* the cookies of the browser
  calls,       \* calls under way
  page,        \* the tabs
  sent, visits, failures

server == <<sessions, order, records>>
bounds == <<sent, visits, failures>>
browserVars == <<server, jar, calls, page, bounds>>

-----------------------------------------------------------------------------
(* What the server keeps, and what the browser does *)

Unused == [user |-> None, company |-> None, live |-> FALSE]

\* A forgery token is known by the session it is derived from.  The header and
\* the cookie are read together.
csrfTokenFor(s) == s

Commands == {"confirm", "cancel", "invoice"}

\* A query: what it holds, the call that fetched it, the last call whose answer
\* was written into it, whether its last fetch failed, and the fetch it waits for
\* (0: none).
NoQuery == [data |-> None, asked |-> 0, last |-> 0, failed |-> FALSE, fetch |-> 0]

NewSession == [data |-> Unknown, failed |-> FALSE, fetch |-> 0]

\* A tab: the session and the order as it knows them, the visit to the screen of
\* the order, the panel that asks before cancelling, the calls its buttons wait
\* for, the invoice whose screen is in the URL (the call that raised it, 0: none).
\* History: the call at which it last left a person or a company, and the
\* sessions it was told it had signed out of.
NoPage ==
  [me |-> NewSession, rows |-> NoQuery,
   visit |-> 0, panel |-> 0, pending |-> [k \in Commands |-> 0],
   busy |-> 0, attempted |-> FALSE, invoice |-> 0,
   since |-> 0, gone |-> {}]

\* A browser that was just started, or one in which somebody has been at work.
BrowserInit ==
  /\ \/ /\ sessions = [s \in Sid |-> Unused]
        /\ jar = [sid |-> None, csrf |-> None]
        /\ page = [t \in Tab |-> NoPage]
     \/ \E u \in AtWork : \E c \in Companies[u] :
          /\ sessions = [s \in Sid |->
               IF s = 1 THEN [user |-> u, company |-> c, live |-> TRUE] ELSE Unused]
          /\ jar = [sid |-> 1, csrf |-> csrfTokenFor(1)]
          /\ page = [t \in Tab |->
               [NoPage EXCEPT !.me.data = [sid |-> 1, user |-> u, company |-> c]]]
  /\ order \in [status : {"draft", "confirmed"}, invoices : {{}}]
  /\ records = {}
  /\ calls = {}
  /\ sent = 0 /\ visits = 0 /\ failures = 0

-----------------------------------------------------------------------------
(* What a tab shows *)

\* SessionGate over the state of the session.
View(p) ==
  CASE p.me.failed -> "error"
    [] ~p.me.failed /\ p.me.data = Unknown -> "loading"
    [] ~p.me.failed /\ p.me.data = Nobody -> "sign in"
    [] ~p.me.failed /\ p.me.data \notin {Unknown, Nobody} ->
         IF p.me.data.company = None THEN "choose" ELSE "app"

\* What is no longer rendered loses its state; the URL and the cache do not.
Rendered(t, p) ==
  LET same == View(p) = View(page[t])
      open == same /\ p.visit # 0
  IN  [p EXCEPT !.visit = IF open THEN @ ELSE 0,
                !.panel = IF open THEN @ ELSE 0,
                !.pending = IF open THEN @ ELSE NoPage.pending,
                !.busy = IF same THEN @ ELSE 0,
                !.attempted = same /\ @]

\* The screen of the order with the order on it.
Drawn(t, statuses) ==
  /\ View(page[t]) = "app" /\ page[t].visit # 0
  /\ ~page[t].rows.failed /\ page[t].rows.data \in statuses

-----------------------------------------------------------------------------
(* Sending *)

NoCookies == [x \in {} |-> None]

\* The transport: cookies as they are now, the token in a header if the call
\* mutates.
request(n, t, kind, arg, key, cookies) ==
  [n |-> n, tab |-> t, kind |-> kind, arg |-> arg, key |-> key,
   sid |-> cookies.sid, csrf |-> cookies.csrf,
   status |-> 0, body |-> None, writes |-> NoCookies, heard |-> TRUE]

Send(t, kind, arg, key, p) ==
  /\ sent < MaxCalls
  /\ sent' = sent + 1
  /\ calls' = calls \cup {request(sent + 1, t, kind, arg, key, jar)}
  /\ page' = [page EXCEPT ![t] = p]
  /\ UNCHANGED <<server, jar, visits, failures>>

\* /me is asked on mount, on focus, and when the person tries again.
AskMe(t) ==
  /\ page[t].me.fetch = 0
  /\ Send(t, "me", None, None, [page[t] EXCEPT !.me.fetch = sent + 1])

\* The email and password of some person, or of none.
SignIn(t, who) ==
  /\ View(page[t]) = "sign in" /\ page[t].busy = 0
  /\ Send(t, "login", who, None, [page[t] EXCEPT !.busy = sent + 1])

\* From the top bar, and from the screen of a person without a company.
SignOut(t) ==
  /\ \/ View(page[t]) = "app"
     \/ View(page[t]) = "choose" /\ Companies[page[t].me.data.user] = {}
  /\ Send(t, "logout", None, None, page[t])

\* From the top bar, or from the list when no company is entered.
SwitchCompany(t, c) ==
  /\ View(page[t]) \in {"app", "choose"}
  /\ c \in Companies[page[t].me.data.user] \ {page[t].me.data.company}
  /\ page[t].busy = 0
  /\ Send(t, "switch", c, None, [page[t] EXCEPT !.busy = sent + 1])

\* The only company there is, entered once.
EnterOnlyCompany(t, c) ==
  /\ View(page[t]) = "choose" /\ ~page[t].attempted
  /\ Companies[page[t].me.data.user] = {c}
  /\ Send(t, "switch", c, None, [page[t] EXCEPT !.attempted = TRUE, !.busy = sent + 1])

\* The order is opened: a visit, and its keys.
Open(t) ==
  /\ View(page[t]) = "app" /\ page[t].visit = 0 /\ visits < MaxVisits
  /\ visits' = visits + 1
  /\ page' = [page EXCEPT ![t] = [@ EXCEPT !.visit = visits + 1, !.invoice = 0]]
  /\ UNCHANGED <<server, jar, calls, sent, failures>>

Leave(t) ==
  /\ page[t].visit # 0
  /\ page' = [page EXCEPT ![t] = Rendered(t, [@ EXCEPT !.visit = 0])]
  /\ UNCHANGED <<server, jar, calls, bounds>>

\* The order is fetched when its screen is mounted, and again.
AskOrder(t) ==
  /\ page[t].visit # 0 /\ page[t].rows.fetch = 0
  /\ Send(t, "order", None, None, [page[t] EXCEPT !.rows.fetch = sent + 1])

\* Wrong: a key for every press.
KeyOfPress(t, kind) == <<kind, -sent>>

\* newIdempotencyKey, made for the visit or when the panel was opened.
KeyOf(t, kind) ==
  IF kind = "cancel" THEN <<kind, page[t].panel>> ELSE <<kind, page[t].visit>>

Press(t, kind, statuses) ==
  /\ Drawn(t, statuses) /\ page[t].pending[kind] = 0
  /\ Send(t, kind, page[t].visit, KeyOf(t, kind),
          [page[t] EXCEPT !.pending[kind] = sent + 1])

Confirm(t) == Press(t, "confirm", {"draft"})
CreateInvoice(t) == Press(t, "invoice", {"confirmed"})
Cancel(t) ==
  page[t].panel # 0 /\ Press(t, "cancel", {"draft", "confirmed", "cancelled"})

\* The panel that asks before cancelling; the key is made when it opens.
OpenPanel(t) ==
  /\ Drawn(t, {"draft", "confirmed"})
  /\ page[t].panel = 0 /\ page[t].pending["cancel"] = 0
  /\ page' = [page EXCEPT ![t].panel = sent + 1]
  /\ UNCHANGED <<server, jar, calls, bounds>>

KeepOrder(t) ==
  /\ page[t].panel # 0 /\ page[t].pending["cancel"] = 0
  /\ page' = [page EXCEPT ![t].panel = 0]
  /\ UNCHANGED <<server, jar, calls, bounds>>

-----------------------------------------------------------------------------
(* The server *)

Answered(c, status, body, writes) ==
  calls' = (calls \ {c}) \cup
    (IF c.heard THEN {[c EXCEPT !.status = status, !.body = body, !.writes = writes]}
                ELSE {})

\* A safe call is where the page picks up the token it will need.
Expected(c) == IF c.sid # None THEN csrfTokenFor(c.sid)
               ELSE IF c.csrf # None THEN c.csrf ELSE Random

issueIfMissing(c) ==
  IF c.csrf = Expected(c) THEN NoCookies ELSE [csrf |-> Expected(c)]

\* CsrfGuard: the token of the header is that of the cookie, and that of the
\* session if there is one.  Our own pages have our own origin.
canActivate(c) ==
  c.csrf # None /\ (c.sid # None => c.csrf = csrfTokenFor(c.sid))

Live(c) == c.sid # None /\ sessions[c.sid].live

\* describe(): what the session is now.
MeView(s) == [sid |-> s, user |-> sessions'[s].user, company |-> sessions'[s].company]

ServeLogin(c) ==
  IF c.arg = None
  THEN UNCHANGED sessions /\ Answered(c, 401, None, NoCookies)
  ELSE \E s \in Sid :
         /\ sessions[s] = Unused /\ \A r \in Sid : r < s => sessions[r] # Unused
         /\ sessions' = [sessions EXCEPT ![s] = [user |-> c.arg, company |-> None, live |-> TRUE]]
         /\ Answered(c, 204, None, [sid |-> s, csrf |-> csrfTokenFor(s)])

Logout(c) ==
  /\ sessions' = [s \in Sid |-> IF s = c.sid THEN [sessions[s] EXCEPT !.live = FALSE] ELSE sessions[s]]
  /\ Answered(c, 204, None, [sid |-> None, csrf |-> None])

Switch(c) ==
  IF c.arg \in Companies[sessions[c.sid].user]
  THEN /\ sessions' = [sessions EXCEPT ![c.sid].company = c.arg]
       /\ Answered(c, 200, MeView(c.sid), NoCookies)
  ELSE UNCHANGED sessions /\ Answered(c, 404, None, NoCookies)

ServeSession(c) ==
  /\ c.status = 0 /\ c.kind \in {"login", "logout", "switch"}
  /\ CASE ~canActivate(c) -> UNCHANGED sessions /\ Answered(c, 403, None, NoCookies)
       [] canActivate(c) /\ c.kind = "login" -> ServeLogin(c)
       [] canActivate(c) /\ c.kind = "logout" -> Logout(c)
       [] canActivate(c) /\ c.kind = "switch" ->
            IF Live(c) THEN Switch(c) ELSE UNCHANGED sessions /\ Answered(c, 401, None, NoCookies)
  /\ UNCHANGED <<order, records, jar, page, bounds>>

ServeMe(c) ==
  /\ c.status = 0 /\ c.kind = "me"
  /\ UNCHANGED sessions
  /\ IF Live(c) THEN Answered(c, 200, MeView(c.sid), issueIfMissing(c))
                ELSE Answered(c, 401, None, issueIfMissing(c))
  /\ UNCHANGED <<order, records, jar, page, bounds>>

\* Another company's order is not found.
ServeOrder(c) ==
  /\ c.status = 0 /\ c.kind = "order"
  /\ CASE ~Live(c) -> Answered(c, 401, None, issueIfMissing(c))
       [] Live(c) /\ sessions[c.sid].company # Home -> Answered(c, 404, None, issueIfMissing(c))
       [] Live(c) /\ sessions[c.sid].company = Home ->
            Answered(c, 200, [status |-> order.status], issueIfMissing(c))
  /\ UNCHANGED <<server, jar, page, bounds>>

\* confirm, cancel and createFromOrder, on an order with something to invoice.
Allowed == [confirm |-> {"draft"}, cancel |-> {"draft", "confirmed"}, invoice |-> {"confirmed"}]

Effect(c) ==
  CASE c.kind = "confirm" -> [order EXCEPT !.status = "confirmed"]
    [] c.kind = "cancel" -> [order EXCEPT !.status = "cancelled"]
    [] c.kind = "invoice" ->
         [order EXCEPT !.invoices =
            @ \cup {[visit |-> c.arg, by |-> sessions[c.sid].user, call |-> c.n]}]

\* withIdempotency: one record per user, company, endpoint and key.
Record(c) == [user |-> sessions[c.sid].user, key |-> c.key]

ServeCommand(c) ==
  /\ c.status = 0 /\ c.kind \in Commands
  /\ LET refuse(status) == UNCHANGED <<order, records>> /\ Answered(c, status, None, NoCookies)
         inHome == Live(c) /\ sessions[c.sid].company = Home
         replays == {r \in records : r.id = Record(c)}
     IN  CASE ~canActivate(c) -> refuse(403)
           [] canActivate(c) /\ ~Live(c) -> refuse(401)
           [] canActivate(c) /\ Live(c) /\ ~inHome -> refuse(404)
           [] canActivate(c) /\ inHome /\ replays # {} ->
                \E r \in replays :
                  UNCHANGED <<order, records>> /\ Answered(c, 200, r.body, NoCookies)
           [] canActivate(c) /\ inHome /\ replays = {}
                /\ order.status \notin Allowed[c.kind] -> refuse(409)
           [] canActivate(c) /\ inHome /\ replays = {}
                /\ order.status \in Allowed[c.kind] ->
                /\ order' = Effect(c)
                /\ records' = records \cup {[id |-> Record(c), body |-> [status |-> order'.status]]}
                /\ Answered(c, 200, [status |-> order'.status], NoCookies)
  /\ UNCHANGED <<sessions, jar, page, bounds>>

\* A session expires, or is revoked: nobody can tell before a call is served.
EndSession(s) ==
  /\ sessions[s].live /\ \E c \in calls : c.sid = s /\ c.status = 0
  /\ sessions' = [sessions EXCEPT ![s].live = FALSE]
  /\ UNCHANGED <<order, records, jar, calls, page, bounds>>

-----------------------------------------------------------------------------
(* What the page makes of an answer *)

\* Wrong: a fetch that is under way is not part of what is dropped.
KeptFetch(p) ==
  [p EXCEPT !.rows = [NoQuery EXCEPT !.fetch = p.rows.fetch], !.invoice = 0]

\* removeQueries: an answer to a query that was removed finds nobody.  Calls that
\* mutate are not queries.
clearDataQueries(p) == [p EXCEPT !.rows = NoQuery, !.invoice = 0]

setMe(p, me) == [p EXCEPT !.me.data = me, !.me.failed = FALSE]

\* Only the fetch a query waits for is heard.
meAnswered(p, c) ==
  CASE p.me.fetch # c.n -> p
    [] p.me.fetch = c.n /\ c.status = 200 ->
         [p EXCEPT !.me = [data |-> c.body, failed |-> FALSE, fetch |-> 0]]
    [] p.me.fetch = c.n /\ c.status = 401 ->
         [p EXCEPT !.me = [data |-> Nobody, failed |-> FALSE, fetch |-> 0]]
    [] p.me.fetch = c.n /\ c.status \notin {200, 401} ->
         [p EXCEPT !.me.failed = TRUE, !.me.fetch = 0]

orderAnswered(p, c) ==
  CASE p.rows.fetch # c.n -> p
    [] p.rows.fetch = c.n /\ c.status = 200 ->
         [p EXCEPT !.rows = [data |-> c.body.status, asked |-> c.n, last |-> c.n,
                             failed |-> FALSE, fetch |-> 0]]
    [] p.rows.fetch = c.n /\ c.status # 200 ->
         [p EXCEPT !.rows.failed = TRUE, !.rows.fetch = 0]

\* setQueryData of the order: what is cached takes the status, and is no failure.
setOrder(rows, status, n) ==
  IF rows.data = None THEN rows
  ELSE [rows EXCEPT !.data = status, !.last = n, !.failed = FALSE]

\* onSuccess of the three mutations of the screen, which is called whatever the
\* tab shows by then: an invoice is put into the cache and the tab goes to its
\* screen, which draws what is cached; of the order what is cached takes the
\* status; the panel closes.
commandAnswered(p, c) ==
  LET mine == p.pending[c.kind] = c.n
      p1 == [p EXCEPT !.pending[c.kind] = IF mine THEN 0 ELSE @]
  IN  CASE c.status # 200 -> p1
        [] c.status = 200 /\ c.kind = "invoice" -> [p1 EXCEPT !.visit = 0, !.invoice = c.n]
        [] c.status = 200 /\ c.kind # "invoice" ->
             [p1 EXCEPT !.rows = setOrder(@, c.body.status, c.n),
                        !.panel = IF mine /\ c.kind = "cancel" THEN 0 ELSE @]

SignedOut(p, c) ==
  [setMe(clearDataQueries(p), Nobody) EXCEPT !.since = sent, !.gone = @ \cup {c.sid}]

\* Wrong: the sign-in form is shown whatever the server said.
signOutSettled(p, c) == SignedOut(p, c)

signOutAnswered(p, c) == IF c.status = 204 THEN SignedOut(p, c) ELSE p

switchAnswered(p, c) ==
  LET p1 == [p EXCEPT !.busy = IF @ = c.n THEN 0 ELSE @]
  IN  IF c.status = 200
      THEN [setMe(clearDataQueries(p1), c.body) EXCEPT !.since = sent]
      ELSE p1

\* Who signed in is asked again, and an earlier question is dropped.
signInAnswered(p, c, n) ==
  IF c.status = 204
  THEN [p EXCEPT !.me.fetch = n, !.busy = IF @ = c.n THEN n ELSE @]
  ELSE [p EXCEPT !.busy = IF @ = c.n THEN 0 ELSE @]

Settled(p, c) ==
  CASE c.kind = "me" -> [meAnswered(p, c) EXCEPT !.busy = IF @ = c.n THEN 0 ELSE @]
    [] c.kind = "order" -> orderAnswered(p, c)
    [] c.kind = "logout" -> signOutAnswered(p, c)
    [] c.kind = "switch" -> switchAnswered(p, c)
    [] c.kind = "login" -> signInAnswered(p, c, sent + 1)
    [] c.kind \in Commands -> commandAnswered(p, c)

\* Set-Cookie.
Written(writes) ==
  [k \in DOMAIN jar |-> IF k \in DOMAIN writes THEN writes[k] ELSE jar[k]]

Deliver(c) ==
  /\ c.status # 0
  /\ jar' = Written(c.writes)
  /\ page' = [page EXCEPT ![c.tab] = Rendered(c.tab, Settled(@, c))]
  /\ IF c.kind = "login" /\ c.status = 204
     THEN /\ sent' = sent + 1
          /\ calls' = (calls \ {c}) \cup
               {request(sent + 1, c.tab, "me", None, None, jar')}
     ELSE UNCHANGED sent /\ calls' = calls \ {c}
  /\ UNCHANGED <<server, visits, failures>>

\* The connection fails: the page is told, the server may be reached yet (which
\* makes no difference to a read).
Fail(c) ==
  /\ c.heard /\ failures < MaxFailures
  /\ failures' = failures + 1
  /\ page' = [page EXCEPT ![c.tab] = Rendered(c.tab, Settled(@, [c EXCEPT !.status = 500]))]
  /\ calls' = (calls \ {c}) \cup 
       {d \in {[c EXCEPT !.heard = FALSE]} : c.status = 0 /\ c.kind \notin {"me", "order"}}
  /\ UNCHANGED <<server, jar, sent, visits>>

-----------------------------------------------------------------------------

BrowserNext ==
  \/ \E t \in Tab :
       \/ AskMe(t) \/ SignOut(t) \/ Open(t) \/ Leave(t) \/ AskOrder(t)
       \/ Confirm(t) \/ CreateInvoice(t) \/ Cancel(t) \/ OpenPanel(t) \/ KeepOrder(t)
       \/ \E who \in User \cup {None} : SignIn(t, who)
       \/ \E c \in Company : SwitchCompany(t, c) \/ EnterOnlyCompany(t, c)
  \/ \E c \in calls :
       \/ ServeSession(c) \/ ServeMe(c) \/ ServeOrder(c) \/ ServeCommand(c)
       \/ Deliver(c) \/ Fail(c)
  \/ \E s \in Sid : EndSession(s)

BrowserSpec == BrowserInit /\ [][BrowserNext]_browserVars

-----------------------------------------------------------------------------
(* Properties *)

\* Once a tab has signed out or entered another company, no document that was
\* fetched before is shown in it, also when the answer comes later; and the late
\* answer of a command brings none back, it writes into what was fetched since
\* (clearDataQueries before setMe, fetches of a removed query, setQueryData).
NothingFetchedBeforeIsShown ==
  \A t \in Tab : page[t].rows.data # None => page[t].rows.asked > page[t].since

\* What session.tsx says of that: "no screen can render the new company's header
\* over the old company's rows".  Whatever a signed-in tab has on the screen was
\* asked for, and last written by what was asked for, since it last left a person
\* or a company.  (The answers of commands are heard whenever they come.)
NothingOlderIsShown ==
  \A t \in Tab : View(page[t]) = "app" =>
    /\ page[t].rows.data # None => page[t].rows.last > page[t].since
    /\ page[t].invoice # 0 => page[t].invoice > page[t].since

\* However often a person presses Create invoice in one visit, and whatever
\* becomes of the answers, a company switch or a session in between: one invoice.
\* (Of two people there may be two: the key is held per person, and the cookies
\* may change under a screen that stays.)
OneInvoicePerVisit ==
  \A i, j \in order.invoices : i.visit = j.visit /\ i.by = j.by => i = j

\* A tab that shows the sign-in form because Sign out was pressed has ended that
\* session at the server.
SignedOutIsEnded ==
  \A t \in Tab : \A s \in page[t].gone \cap Sid : ~sessions[s].live
=============================================================================
