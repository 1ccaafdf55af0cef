--------------------------- MODULE DocumentReading ---------------------------
(***************************************************************************)
(* Reading one document while others write it: a sales order or a customer *)
(* invoice, its lines, its history and what its posting left in the        *)
(* ledger.                                                                 *)
(*                                                                         *)
(* Writers commit as a whole; a read is several statements, each of which  *)
(* sees what is committed when it runs.  A screen keeps its reads in a     *)
(* cache, may be the start of an edit, finishes the document with its own  *)
(* button and decides what to read again.  Requests and answers are lost,  *)
(* late and overtaken.                                                     *)
(*                                                                         *)
(* Lines are represented by the version that wrote them, what a table      *)
(* keeps about the document by what happened to it.  Inside a write: see   *)
(* OrderFulfilment and InvoicePosting; the form of an edit and its answer: *)
(* DraftEditing; the rest of the screen of an order: BrowserSession.       *)
(***************************************************************************)
EXTENDS Integers, Sequences

CONSTANTS
  None,
  MaxEdits, MaxReads, MaxCalls, MaxLost   \* bounds: edits saved, rounds of reads
                                          \* of the screen, presses of its button,
                                          \* messages lost

ASSUME ReadingAssumption ==
  /\ MaxEdits \in Nat /\ MaxReads \in Nat /\ MaxCalls \in Nat /\ MaxLost \in Nat
  /\ None \notin {"draft", "confirmed", "posted", "cancelled"}
  /\ None \notin [status : {"draft", "confirmed", "posted", "cancelled", None},
                  version : Nat, lines : Nat,
                  list : SUBSET {"confirmed", "posted", "cancelled", "entry"}]

VARIABLES
  kind,       \* which of the two documents this is
  doc,        \* its header row, and the version that wrote its lines
  entries,    \* journal_entries and
  events,     \* audit_events about it
  succeeded,  \* whether the key of the screen has succeeded
  reads,      \* reads under way
  query,      \* the cache of the screen
  call,       \* the presses of its button
  waiting,    \* the press it waits for, 0 if none
  told,       \* history: what was on screen when it heard that it had finished
  begun, lost \* counters

server == <<kind, doc, entries, events, succeeded>>
screen == <<query, call, waiting, told>>
readingVars == <<server, reads, screen, begun, lost>>

-----------------------------------------------------------------------------
(* What is read *)

Finished == IF kind = "order" THEN "confirmed" ELSE "posted"

\* A screen has a panel for each; the journal is read for an invoice only.
Panels == IF kind = "order" THEN {"view", "trail"} ELSE {"view", "trail", "journal"}

\* Wrong: the lines first, the header they belong to after them.
LinesFirst == <<"lines", "header">>

\* The statements of every read, one at a time on one connection.  The names of
\* customers, users, orders and accounts are looked up after these.
readInOrder == <<"header", "lines">>
readInInvoice == <<"header", "lines">>
orderTrail == <<"exists", "events">>
invoiceTrail == <<"exists", "events">>
postingJournal == <<"exists", "entries">>

Statements(what) ==
  IF kind = "order"
  THEN IF what = "view" THEN readInOrder ELSE orderTrail
  ELSE IF what = "view" THEN readInInvoice
       ELSE IF what = "trail" THEN invoiceTrail ELSE postingJournal

Unread == [status |-> None, version |-> 0, lines |-> 0, list |-> {}]

\* What each statement adds to what was seen.
findById(seen) == [seen EXCEPT !.status = doc.status, !.version = doc.version]
listLines(seen) == [seen EXCEPT !.lines = doc.lines]
listForEntity(seen) == [seen EXCEPT !.list = events]
listForSourceDocument(seen) == [seen EXCEPT !.list = entries]

See(statement, seen) ==
  CASE statement = "exists" -> seen
    [] statement = "header" -> findById(seen)
    [] statement = "lines" -> listLines(seen)
    [] statement = "events" -> listForEntity(seen)
    [] statement = "entries" -> listForSourceDocument(seen)

read(what) ==
  [what |-> what, rest |-> Statements(what), seen |-> Unread]

-----------------------------------------------------------------------------
(* The cache of the screen *)

NoQuery == [data |-> None, tried |-> FALSE, failed |-> FALSE]

Fetches(q) == {r \in reads : r.what = q}

\* Wrong: a fetch under way is always as good as a new one.
NotFetching(S) == {q \in S : Fetches(q) = {}}

\* Those of S that begin to fetch when they are invalidated: a query that holds
\* data drops the fetch it has under way, one that holds none keeps it.
Refetched(S) == {q \in S : query[q].data # None \/ Fetches(q) = {}}

\* A query that has data keeps showing it, and its last error, until an answer
\* comes.
Fetching(q) == [q EXCEPT !.tried = FALSE, !.failed = @ /\ q.data # None]

\* invalidateQueries of the queries in S, over the cache c.  Nobody waits any
\* more for what was dropped.
invalidate(c, S) ==
  LET again == Refetched(S)
  IN  /\ begun < MaxReads
      /\ begun' = begun + 1
      /\ query' = [q \in DOMAIN c |-> IF q \in again THEN Fetching(c[q]) ELSE c[q]]
      /\ reads' = (reads \ UNION {Fetches(q) : q \in again})
                     \cup {read(q) : q \in again}

\* Wrong: the invoice alone.
ExactMatch == IF kind = "order" THEN {"trail"} ELSE {"view"}

\* The keys beneath the key of an invoice; the history of an order, whose screen
\* does not read the order again.
PrefixMatch == IF kind = "order" THEN {"trail"} ELSE Panels

\* The screen was just opened.
ReadingInit ==
  /\ kind \in {"order", "invoice"}
  /\ doc = [status |-> "draft", version |-> 1, lines |-> 1]
  /\ entries = {} /\ events = {} /\ succeeded = FALSE
  /\ query = [q \in Panels |-> NoQuery]
  /\ reads = {read(q) : q \in Panels}
  /\ call = [n \in 1 .. MaxCalls |-> "none"]
  /\ waiting = 0 /\ told = {}
  /\ begun = 1 /\ lost = 0

-----------------------------------------------------------------------------
(* The server reads *)

Statement(r) ==
  /\ r.rest # <<>>
  /\ reads' = (reads \ {r})
       \cup {[r EXCEPT !.rest = Tail(@), !.seen = See(Head(r.rest), @)]}
  /\ UNCHANGED <<server, screen, begun, lost>>

-----------------------------------------------------------------------------
(* The server writes *)

\* The header, guarded by the version that was read; what is kept about it.
applyTransition(status) == doc' = [doc EXCEPT !.status = status, !.version = @ + 1]
append(event) == events' = events \cup {event}
record(entry) == entries' = entries \cup {entry}

\* Confirming and posting: one commit for the document and for what is kept
\* about it.
Finish ==
  /\ applyTransition(Finished)
  /\ append(Finished)
  /\ IF kind = "invoice" THEN record("entry") ELSE entries' = entries

\* A colleague saves an edit of a draft.
OthersEdit ==
  /\ doc.status = "draft" /\ doc.version <= MaxEdits
  /\ doc' = [doc EXCEPT !.version = @ + 1, !.lines = doc.version + 1]
  /\ UNCHANGED <<kind, entries, events, succeeded, reads, screen, begun, lost>>

\* A colleague confirms or posts.
OthersFinish ==
  /\ doc.status = "draft"
  /\ Finish
  /\ UNCHANGED <<kind, succeeded, reads, screen, begun, lost>>

\* A colleague cancels an order: an event, and the draft or the promise ends.
OthersCancel ==
  /\ kind = "order" /\ doc.status \in {"draft", "confirmed"}
  /\ applyTransition("cancelled")
  /\ append("cancelled")
  /\ UNCHANGED <<kind, entries, succeeded, reads, screen, begun, lost>>

-----------------------------------------------------------------------------
(* The screen reads *)

\* A query that is stale or in error is asked again; the time it takes to be
\* stale may always have passed.
Ask(q) ==
  /\ begun < MaxReads /\ Fetches(q) = {}
  /\ begun' = begun + 1
  /\ query' = [query EXCEPT ![q] = Fetching(@)]
  /\ reads' = reads \cup {read(q)}
  /\ UNCHANGED <<server, call, waiting, told, lost>>

Deliver(r) ==
  /\ r.rest = <<>>
  /\ reads' = reads \ {r}
  /\ query' = [query EXCEPT ![r.what] = [NoQuery EXCEPT !.data = r.seen]]
  /\ UNCHANGED <<server, call, waiting, told, begun, lost>>

\* A request or its answer is lost: it is tried once more, then in error.
LoseRead(r) ==
  /\ lost < MaxLost
  /\ lost' = lost + 1
  /\ IF query[r.what].tried
     THEN /\ query' = [query EXCEPT ![r.what].failed = TRUE]
          /\ reads' = reads \ {r}
     ELSE /\ query' = [query EXCEPT ![r.what].tried = TRUE]
          /\ reads' = (reads \ {r}) \cup {read(r.what)}
  /\ UNCHANGED <<server, call, waiting, told, begun>>

-----------------------------------------------------------------------------
(* The button of the screen *)

\* The status on screen; a re-read that failed leaves what was there.
ShownStatus == IF query["view"].data = None THEN None ELSE query["view"].data.status

Press ==
  /\ ShownStatus = "draft" /\ waiting = 0
  /\ \E n \in 1 .. MaxCalls :
       /\ call[n] = "none" /\ \A m \in 1 .. n - 1 : call[m] # "none"
       /\ call' = [call EXCEPT ![n] = "sent"]
       /\ waiting' = n
  /\ UNCHANGED <<server, reads, query, told, begun, lost>>

\* The command, once for one key whatever the number of presses.
Serve(n) ==
  /\ call[n] = "sent"
  /\ IF succeeded \/ doc.status = "draft"
     THEN call' = [call EXCEPT ![n] = "done"] /\ succeeded' = TRUE
     ELSE call' = [call EXCEPT ![n] = "refused"] /\ succeeded' = succeeded
  /\ IF ~succeeded /\ doc.status = "draft" THEN Finish ELSE UNCHANGED <<doc, entries, events>>
  /\ UNCHANGED <<kind, reads, query, waiting, told, begun, lost>>

\* The browser gives up; what it sent may still be served.
StopWaiting ==
  /\ waiting # 0 /\ lost < MaxLost
  /\ waiting' = 0 /\ lost' = lost + 1
  /\ UNCHANGED <<server, reads, query, call, told, begun>>

\* Success: the status from the answer, then the queries beneath the key.
onSuccess ==
  /\ waiting # 0 /\ call[waiting] = "done"
  /\ waiting' = 0
  /\ told' = {q \in Panels : query[q].data # None}
  /\ invalidate([query EXCEPT !["view"].data.status = Finished, !["view"].failed = FALSE],
                PrefixMatch)
  /\ UNCHANGED <<server, call, lost>>

\* A refusal of an invoice says that it changed, and reads it again.
onError ==
  /\ waiting # 0 /\ call[waiting] = "refused"
  /\ waiting' = 0
  /\ IF kind = "invoice" THEN invalidate(query, PrefixMatch)
     ELSE UNCHANGED <<query, reads, begun>>
  /\ UNCHANGED <<server, call, told, lost>>

-----------------------------------------------------------------------------
ReadingNext ==
  \/ \E r \in reads : Statement(r) \/ Deliver(r) \/ LoseRead(r)
  \/ OthersEdit \/ OthersFinish \/ OthersCancel
  \/ \E q \in Panels : Ask(q)
  \/ Press \/ (\E n \in 1 .. MaxCalls : Serve(n)) \/ StopWaiting
  \/ onSuccess \/ onError

ReadingSpec == ReadingInit /\ [][ReadingNext]_readingVars

-----------------------------------------------------------------------------
(* What the screen says beneath its header *)

Panel(q) ==
  IF query[q].data = None
  THEN IF Fetches(q) # {} THEN "loading" ELSE "problem"
  ELSE IF query[q].failed THEN "problem"
  ELSE IF query[q].data.list # {} THEN "listed"
  ELSE IF ShownStatus = "draft" THEN "begins later" ELSE "nothing recorded"

-----------------------------------------------------------------------------
(* Properties *)

\* An edit is accepted of a draft that still has the version it was read with.
Accepted(view) == doc.status = "draft" /\ doc.version = view.version

\* A view of the API that an edit would be accepted from has the lines that the
\* edit replaces: a read may be torn between two versions, but never so that the
\* version check passes over lines that the view did not have.  (What a form that
\* is mounted over such a view sends later is in DraftEditing.)
SavedOverWhatWasShown ==
  LET view == query["view"].data
  IN  view # None /\ ShownStatus = "draft" /\ Accepted(view) => view.lines = doc.lines

\* An invoice that was shown as posted is never shown as a draft again, however
\* late the answers to older reads come (a draft offers the button again).
PostedStaysShown ==
  [][kind = "invoice" /\ ShownStatus = "posted" => ShownStatus' = "posted"]_readingVars

\* Once the screen has heard that its own button finished the document, a panel
\* that was on screen then, and fetches nothing now, does not say that nothing
\* was recorded: it lists the event or the entry, or says why it cannot.
PanelsTellThePosting ==
  \A q \in told \ {"view"} : Fetches(q) = {} => Panel(q) # "nothing recorded"

=============================================================================
