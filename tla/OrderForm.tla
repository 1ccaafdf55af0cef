----------------------------- MODULE OrderForm -----------------------------
(***************************************************************************)
(* The form a draft is entered in, from the pickers' master data to the    *)
(* order the server writes: the page for a new order and the page for one  *)
(* that exists share it.  Each visit to a page has one idempotency key,    *)
(* written here as the number of the visit.                                *)
(*                                                                         *)
(* The form sends what was typed.  Before that it reads the text as a      *)
(* JavaScript number; the server reads it as a decimal, which is stricter. *)
(* An answer may be lost and the button pressed again, the form may be     *)
(* changed while a request is under way, and another tab may move the      *)
(* session to another company.  The page for an order that exists fills    *)
(* the form from the query cache when it mounts, and takes the version     *)
(* from the cache again at each press of Save.  A success is not shown: it *)
(* moves the screen to the order it names, which is drawn from the cache.  *)
(*                                                                         *)
(* Left out: prices and totals, of which the form has none; the dates,     *)
(* which are passed on unread once there is one; other users' edits of the *)
(* same order, refetches that fail and what a screen then draws, which are *)
(* DraftEditing's and DocumentReading's; the key's row under concurrent    *)
(* requests, which is Idempotency's: a request is served in one step.      *)
(***************************************************************************)
EXTENDS Integers, FiniteSets, Sequences

CONSTANTS
  Missing,       \* nothing chosen, nothing read, no form on the screen
  Company,
  Master,        \* the rows of customers, products and warehouses, by identifier
  BaseCurrency,  \* of each company
  FirstOrder,    \* a draft from before
  MaxVisits, MaxTouches, MaxPresses, MaxUnanswered, MaxSwitches

\* warehouses_company_default_key
ASSUME MasterAssumption ==
  \A m, n \in DOMAIN Master :
    /\ Master[m].isDefault /\ Master[n].isDefault
    /\ Master[m].company = Master[n].company
    => m = n

\* The row of an order, with the visit that made it, and its lines.
StoredLine == [product : DOMAIN Master, quantity : {2}, discount : {0, 2}]

Stored == [company : Company, version : Nat, visit : Nat, customer : DOMAIN Master,
           warehouse : DOMAIN Master, lines : Seq(StoredLine)]

\* What names nothing is no row, no company and no figure; and the draft from
\* before is one that this form can have made, of rows of its own company
\* (sales_orders_customer_fkey and its like).
ASSUME FormAssumption ==
  /\ Missing \notin DOMAIN Master \cup Int \cup Stored
  /\ FirstOrder \in Stored /\ FirstOrder.visit = 0
  /\ Master[FirstOrder.customer].company = FirstOrder.company
  /\ Master[FirstOrder.warehouse].company = FirstOrder.company
  /\ \A i \in DOMAIN FirstOrder.lines :
       Master[FirstOrder.lines[i].product].company = FirstOrder.company

VARIABLES
  company,       \* the company the session acts in
  options,       \* the company whose master data the pickers hold
  queried,       \* the query cache: each order as it was last read
  form,          \* what the form on the screen holds, and for comparison whether
                 \* it was touched and the row it began from
  visits, touches, presses, unanswered, switches,
  wire,          \* requests on their way to the server
  pressed,       \* presses the browser has no answer to, with what they sent and
                 \* the form they were made in
  replies,       \* answers on their way back
  drafts,        \* the orders of the database
  records,       \* its idempotency records
  went           \* history: the order the last success moved the screen to, the row
                 \* it was answered with, and the press

formVars == <<company, options, queried, form, visits, touches, presses, unanswered,
              switches, wire, pressed, replies, drafts, records, went>>
----------------------------------------------------------------------------
(* Texts, and the two ways they are read. *)

Typed == {"", "0", "2", "1e3"}

\* Number(text): scientific notation is a number, and so is nothing at all.
Number == [t \in Typed |-> CASE t = "2" -> 2 [] t = "1e3" -> 1000 [] OTHER -> 0]

\* String(number), of the numbers a stored line may have.
String(n) == CHOOSE t \in Typed \ {""} : Number[t] = n

\* parseDecimal: digits only, so an exponent is refused.
parseDecimal == [t \in Typed |-> IF t \in {"0", "2"} THEN Number[t] ELSE Missing]
----------------------------------------------------------------------------
(* Master data, read under the scope of one company. *)

listForCompany(table, co) ==
  {m \in DOMAIN Master : Master[m].table = table /\ Master[m].company = co}

active(rows) == {m \in rows : Master[m].status = "active"}

\* What a picker offers, given the company its rows were read under.
Offered(table, co) == active(listForCompany(table, co))

\* findById under the scope, of a row that may still be used.
Usable(table, id, co) == id \in Offered(table, co)

\* The default warehouse is set during a render, whenever there is none.
Rendered(f, co) ==
  LET default == {w \in Offered("warehouses", co) : Master[w].isDefault}
  IN  IF f.warehouse = Missing /\ default # {}
        THEN [f EXCEPT !.warehouse = CHOOSE w \in default : TRUE]
        ELSE f
----------------------------------------------------------------------------
(* The form. *)

emptyLine == [product |-> Missing, quantity |-> "", discount |-> ""]

Blank ==
  [visit |-> visits + 1, order |-> 0, touched |-> FALSE, was |-> Missing,
   customer |-> Missing, warehouse |-> Missing,
   lines |-> <<emptyLine>>]

\* Of the order as the cache has it.  A discount of zero is shown as none.
startingValues(o) ==
  [visit |-> visits + 1, order |-> o, touched |-> FALSE, was |-> queried[o],
   customer |-> queried[o].customer, warehouse |-> queried[o].warehouse,
   lines |-> [i \in DOMAIN queried[o].lines |->
                LET line == queried[o].lines[i] IN
                [product |-> line.product,
                 quantity |-> String(line.quantity),
                 discount |-> IF line.discount = 0 THEN "" ELSE String(line.discount)]]]

updateLine(f, i) ==
       {[f EXCEPT !.lines[i].product = p] :
          p \in Offered("products", options)}
  \cup {[f EXCEPT !.lines[i].quantity = t] : t \in Typed}
  \cup {[f EXCEPT !.lines[i].discount = t] : t \in Typed}

\* The forms that one gesture makes of f.  Of the pickers only the warehouse's is
\* put back to nothing.
Gestures(f) ==
       {[f EXCEPT !.customer = c] : c \in Offered("customers", options)}
  \cup {[f EXCEPT !.warehouse = w] : w \in Offered("warehouses", options) \cup {Missing}}
  \cup {[f EXCEPT !.lines = Append(@, emptyLine)]}
  \cup (IF Len(f.lines) = 1 THEN {}
        ELSE {[f EXCEPT !.lines = SubSeq(@, 1, i - 1) \o SubSeq(@, i + 1, Len(@))] :
                i \in DOMAIN f.lines})
  \cup UNION {updateLine(f, i) : i \in DOMAIN f.lines}

LineProblem(line) ==
  \/ line.product = Missing
  \/ line.quantity = ""
  \/ Number[line.quantity] <= 0
  \/ line.discount # "" /\ Number[line.discount] \notin 0..100

problems(f) ==
  \/ f.customer = Missing
  \/ f.warehouse = Missing
  \/ \E i \in DOMAIN f.lines : LineProblem(f.lines[i])

\* The body of the request, and with the order what its fingerprint is taken of.
\* The version is the cached order's when the button is pressed, whatever the form
\* began from.
Body(f) ==
  [order |-> f.order, version |-> IF f.order = 0 THEN 0 ELSE queried[f.order].version,
   customer |-> f.customer, warehouse |-> f.warehouse, lines |-> f.lines]
----------------------------------------------------------------------------
(* The server. *)

\* price: what it asks of a line, and the line it becomes.
CanBePriced(line, co) ==
  /\ parseDecimal[line.quantity] # Missing /\ parseDecimal[line.quantity] > 0
  /\ line.discount = "" \/ parseDecimal[line.discount] \in 0..100
  /\ Usable("products", line.product, co)
  /\ Master[line.product].currency = BaseCurrency[co]

price(line) ==
  [product |-> line.product, quantity |-> parseDecimal[line.quantity],
   discount |-> IF line.discount = "" THEN 0 ELSE parseDecimal[line.discount]]

Orderable(body, co) ==
  /\ Usable("customers", body.customer, co)
  /\ Usable("warehouses", body.warehouse, co)
  /\ \A i \in DOMAIN body.lines : CanBePriced(body.lines[i], co)

\* The row a body becomes.
Draft(body, co, version, visit) ==
  [company |-> co, version |-> version, visit |-> visit,
   customer |-> body.customer, warehouse |-> body.warehouse,
   lines |-> [i \in DOMAIN body.lines |-> price(body.lines[i])]]

\* Wrong: a key is answered whatever it comes with.
SameKey(record, r) == TRUE

\* The fingerprint of the record is the request's.
SameRequest(record, r) == record.body = r.body

\* Wrong: a key is made for each press.
PressKey(r) == r.press

\* The idempotency key of a request, made when the form opens.
VisitKey(r) == r.visit

\* The record of a key, if the scope's company has one.
RecordOf(key) == {k \in records : k.company = company /\ k.key = key}

\* The body was saved as a row: that and the number of the order are the answer.
Remember(r, o, row) ==
  records' = records \cup {[company |-> company, key |-> VisitKey(r), body |-> r.body,
                            order |-> o, row |-> row]}

\* An answer nobody waits for is dropped.
Respond(r, outcome, o, row) ==
  /\ wire' = wire \ {r}
  /\ replies' = IF \E w \in pressed : w.press = r.press
                  THEN replies \cup {[press |-> r.press, visit |-> r.visit,
                                      outcome |-> outcome, order |-> o, row |-> row]}
                  ELSE replies
  /\ UNCHANGED <<company, options, form, visits, touches, presses, unanswered,
                 switches, pressed, went>>

\* The key is known: its answer again, if the body is the same.
Replay(r) ==
  \E k \in RecordOf(VisitKey(r)) :
    /\ IF SameRequest(k, r) THEN Respond(r, "done", k.order, k.row)
                            ELSE Respond(r, "refused", 0, Missing)
    /\ UNCHANGED <<drafts, records, queried>>

create(r) ==
  /\ RecordOf(VisitKey(r)) = {} /\ r.body.order = 0 /\ Orderable(r.body, company)
  /\ LET row == Draft(r.body, company, 1, r.visit) IN
       /\ drafts' = Append(drafts, row)
       /\ queried' = Append(queried, Missing)
       /\ Remember(r, Len(drafts) + 1, row)
       /\ Respond(r, "done", Len(drafts) + 1, row)

\* The order is found under the scope, and the version is the one the caller sent.
update(r) ==
  /\ RecordOf(VisitKey(r)) = {} /\ r.body.order # 0
  /\ drafts[r.body.order].company = company
  /\ Orderable(r.body, company)
  /\ LET existing == drafts[r.body.order]
         row == Draft(r.body, company, existing.version + 1, existing.visit)
     IN  IF existing.version = r.body.version
           THEN /\ drafts' = [drafts EXCEPT ![r.body.order] = row]
                /\ Remember(r, r.body.order, row)
                /\ Respond(r, "done", r.body.order, row)
           ELSE Respond(r, "moved", 0, Missing) /\ UNCHANGED <<drafts, records>>
  /\ UNCHANGED queried

\* Nothing is kept of a refusal, the claim of the key included.
Refuse(r) ==
  /\ RecordOf(VisitKey(r)) = {}
  /\ \/ ~Orderable(r.body, company)
     \/ r.body.order # 0 /\ drafts[r.body.order].company # company
  /\ Respond(r, "refused", 0, Missing)
  /\ UNCHANGED <<drafts, records, queried>>
----------------------------------------------------------------------------
(* The browser. *)

OpenForm(f) ==
  /\ form = Missing /\ visits < MaxVisits
  /\ visits' = visits + 1
  /\ form' = Rendered(f, options)
  /\ UNCHANGED <<company, options, queried, touches, presses, unanswered, switches, wire,
                 pressed, replies, drafts, records, went>>

SalesOrderCreatePage == OpenForm(Blank)

\* The form mounts once the cache has the order, of whatever age and company.
SalesOrderEditPage ==
  \E o \in DOMAIN drafts : queried[o] # Missing /\ OpenForm(startingValues(o))

\* The query of an order is answered, for the first time or again, under the form
\* or not.
getOrder ==
  /\ \E o \in DOMAIN drafts :
       /\ drafts[o].company = company /\ queried[o] # drafts[o]
       /\ queried' = [queried EXCEPT ![o] = drafts[o]]
  /\ UNCHANGED <<company, options, form, visits, touches, presses, unanswered,
                 switches, wire, pressed, replies, drafts, records, went>>

\* The pickers' queries are answered, for the first time or again.
Fetched ==
  /\ form # Missing /\ options # company
  /\ options' = company
  /\ form' = Rendered(form, company)
  /\ UNCHANGED <<company, queried, visits, touches, presses, unanswered, switches, wire,
                 pressed, replies, drafts, records, went>>

\* A gesture; nothing is disabled while a request is under way.
Enter ==
  /\ form # Missing /\ touches < MaxTouches
  /\ \E f \in Gestures(form) \ {form} :
       form' = Rendered([f EXCEPT !.touched = TRUE], options)
  /\ touches' = touches + 1
  /\ UNCHANGED <<company, options, queried, visits, presses, unanswered, switches, wire,
                 pressed, replies, drafts, records, went>>

submit ==
  /\ form # Missing /\ presses < MaxPresses
  /\ ~\E w \in pressed : w.visit = form.visit
  /\ ~problems(form)
  /\ presses' = presses + 1
  /\ pressed' = pressed \cup {[press |-> presses + 1, visit |-> form.visit,
                               entered |-> form, body |-> Body(form)]}
  /\ wire' = wire \cup {[press |-> presses + 1, visit |-> form.visit,
                         body |-> Body(form)]}
  /\ UNCHANGED <<company, options, queried, form, visits, touches, unanswered, switches,
                 replies, drafts, records, went>>

\* The connection fails before or after the server has the request, or only seems
\* to: the request may be served yet.
Unanswered ==
  /\ unanswered < MaxUnanswered
  /\ unanswered' = unanswered + 1
  /\ \E w \in pressed :
       /\ pressed' = pressed \ {w}
       /\ replies' = {a \in replies : a.press # w.press}
       /\ wire' \in {wire, {r \in wire : r.press # w.press}}
  /\ UNCHANGED <<company, options, queried, form, visits, touches, presses, switches,
                 drafts, records, went>>

\* A success navigates to the order it names, wherever the user has gone since, and
\* puts nothing in the cache; a version that moved draws the conflict in place of
\* the form; any other refusal leaves the form.
FormAnswered ==
  \E a \in replies, w \in pressed :
    /\ a.press = w.press
    /\ replies' = replies \ {a}
    /\ pressed' = pressed \ {w}
    /\ form' = IF a.outcome = "done"
                 \/ (a.outcome = "moved" /\ form # Missing /\ form.visit = a.visit)
                 THEN Missing ELSE form
    /\ went' = IF a.outcome = "done"
                 THEN [order |-> a.order, row |-> a.row, press |-> w] ELSE went
    /\ UNCHANGED <<company, options, queried, visits, touches, presses, unanswered,
                   switches, wire, drafts, records>>

LeaveForm ==
  /\ form # Missing
  /\ form' = Missing
  /\ UNCHANGED <<company, options, queried, visits, touches, presses, unanswered,
                 switches, wire, pressed, replies, drafts, records, went>>

\* Another tab of the same session moves to another company.
SwitchElsewhere ==
  /\ switches < MaxSwitches
  /\ company' \in Company \ {company}
  /\ switches' = switches + 1
  /\ UNCHANGED <<options, queried, form, visits, touches, presses, unanswered, wire,
                 pressed, replies, drafts, records, went>>
----------------------------------------------------------------------------
FormInit ==
  /\ company = FirstOrder.company
  /\ options = Missing /\ form = Missing /\ went = Missing
  /\ visits = 0 /\ touches = 0 /\ presses = 0 /\ unanswered = 0 /\ switches = 0
  /\ wire = {} /\ pressed = {} /\ replies = {} /\ records = {}
  /\ drafts = <<FirstOrder>> /\ queried = <<Missing>>

FormNext ==
  \/ SalesOrderCreatePage \/ SalesOrderEditPage \/ getOrder
  \/ Fetched \/ Enter \/ submit \/ Unanswered \/ FormAnswered \/ LeaveForm
  \/ SwitchElsewhere
  \/ \E r \in wire : Replay(r) \/ create(r) \/ update(r) \/ Refuse(r)

FormSpec == FormInit /\ [][FormNext]_formVars
----------------------------------------------------------------------------
(* What must hold. *)

\* One visit to the form makes one order, however often the button is pressed and
\* answers are lost, whatever is changed in between, and whatever company the
\* session has been moved to: SalesOrderCreatePage's key, and findById, which
\* knows no row of another company.  A key is held per company, so a second order
\* is possible, in another company, of a form in which everything has been
\* entered anew from that company's rows.
OneOrderPerForm ==
  \A o, p \in DOMAIN drafts :
    drafts[o].visit = drafts[p].visit /\ drafts[o].visit # 0 /\ o # p =>
      /\ drafts[o].company # drafts[p].company
      /\ drafts[o].customer # drafts[p].customer
      /\ drafts[o].warehouse # drafts[p].warehouse
      /\ \A i \in DOMAIN drafts[o].lines, j \in DOMAIN drafts[p].lines :
           drafts[o].lines[i].product # drafts[p].lines[j].product

\* A success moves the screen to this form's order, and what was saved of it is what
\* the form said when the button was pressed: a replayed answer is one to the same
\* entry, and no text is read as another number than the form took it for.  An order
\* saved from a form that nobody touched is left as it was, if Save found in the
\* cache the version the form began from: startingValues and price undo each other.
SavedIsWhatWasEntered ==
  went # Missing =>
    LET entered == went.press.entered IN
    /\ went.order \in DOMAIN drafts
    /\ IF entered.order = 0 THEN drafts[went.order].visit = entered.visit
                            ELSE went.order = entered.order
    /\ went.row.customer = entered.customer
    /\ went.row.warehouse = entered.warehouse
    /\ went.row.lines =
         [i \in DOMAIN entered.lines |->
            LET line == entered.lines[i] IN
            [product |-> line.product, quantity |-> Number[line.quantity],
             discount |-> Number[line.discount]]]
    /\ ~entered.touched /\ went.press.body.version = entered.was.version =>
         went.row = [entered.was EXCEPT !.version = @ + 1]
============================================================================
