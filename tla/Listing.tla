------------------------------ MODULE Listing ------------------------------
(***************************************************************************)
(* A list, a page at a time: the sales orders of the API, or one of the    *)
(* lists of fixtures.                                                      *)
(*                                                                         *)
(* The search, the order and the page are kept in the URL, which is also   *)
(* the key of a cache; the rows of a page and the figures beside it are    *)
(* two statements of the API, between which others may write, and one step *)
(* over fixtures, which nobody writes.  Until the answer for a new URL is  *)
(* there the screen keeps what it last had, with the buttons that belong   *)
(* to it.                                                                  *)
(*                                                                         *)
(* One filter stands for the search term and the filters, which are        *)
(* treated alike; the columns are a document's number and others, in which *)
(* rows are alike.  Inside the writes: see OrderFulfilment.                *)
(***************************************************************************)
EXTENDS Naturals, Sequences, FiniteSets, SequencesExt, FiniteSetsExt, ListScreens

CONSTANTS
  Order,                \* what may be listed, numbers in the order of the
                        \* identifiers or of the fixtures
  OrderDate, Total,     \* a date, and any other figure, on each of them
  PageSize,
  Nowhere,              \* no answer
  MaxWrites, MaxAsks    \* bounds: writes of others, fetches of the screen

ASSUME ListAssumption ==
  /\ Order \subseteq Nat /\ IsFiniteSet(Order)
  /\ OrderDate \in [Order -> Nat] /\ Total \in [Order -> Nat]
  /\ PageSize \in Nat \ {0}
  /\ MaxWrites \in Nat /\ MaxAsks \in Nat

VARIABLES
  list,             \* which list this is
  salesOrders,      \* status and number of those created
  url,              \* what the screen is asked to show
  cache,            \* the answers the browser holds
  asks,             \* the fetches under way and the rows they have read
  refused,          \* the keys whose last fetch failed
  previous,         \* the answer last shown
  writes, asked     \* counters

listVars == <<list, salesOrders, url, cache, asks, refused, previous, writes, asked>>

-----------------------------------------------------------------------------
(* The statements of the API *)

AllStatuses == "any"

Matching(q) ==
  {o \in DOMAIN salesOrders : q.status \in {AllStatuses, salesOrders[o].status}}

\* What is sorted by.  A draft has no number, and NULL sorts as the largest.
NoNumber == 1000
Sortable(q, o) == IF q.sortBy = "docNumber" THEN salesOrders[o].docNumber ELSE OrderDate[o]

\* The order of a column the service does not know is the order of the fixtures.
Known(q) == q.sortBy \in ListScreens[list].sorts

\* Wrong: rows that sort alike come in any order.
Primary(q, o, p) ==
  IF q.sortDir = "asc" THEN Sortable(q, o) <= Sortable(q, p) ELSE Sortable(q, o) >= Sortable(q, p)

\* ORDER BY primary, id; and sort, which is stable.
OrderBy(q, o, p) ==
  IF Known(q)
  THEN Primary(q, o, p) /\ (Sortable(q, o) = Sortable(q, p) => o <= p)
  ELSE o <= p

\* The sequences a statement with that ORDER BY may return.
Sorted(q) ==
  {s \in SetToSeqs(Matching(q)) : \A i, j \in DOMAIN s : i < j => OrderBy(q, s[i], s[j])}

Least(a, b) == IF a < b THEN a ELSE b

\* LIMIT pageSize OFFSET (page - 1) * pageSize.
Slice(s, page) == SubSeq(s, (page - 1) * PageSize + 1, Least(page * PageSize, Len(s)))

\* The figures cover all that matches.
Aggregates(q) ==
  [total |-> Cardinality(Matching(q)), value |-> MapThenSumSet(LAMBDA o : Total[o], Matching(q))]

-----------------------------------------------------------------------------
(* The browser *)

Defaults ==
  LET screen == ListScreens[list].screen IN
  [status |-> AllStatuses, sortBy |-> screen.sortBy, sortDir |-> screen.sortDir, page |-> 1]

\* queryKeys.salesOrders: the list's parameters are the key.
Key(u) == u

\* useQuery with keepPreviousData.
Displayed(u) ==
  IF Key(u) \in DOMAIN cache THEN cache[Key(u)]
  ELSE IF Key(u) \in refused THEN Nowhere ELSE previous

LastPage(answer) ==
  LET pages == (answer.total + PageSize - 1) \div PageSize IN IF pages = 0 THEN 1 ELSE pages

\* The query of the screen comes to u: what is cached is shown, and read again
\* if it is more than thirty seconds old; what is not is fetched.
Observe(u, before) ==
  LET k == Key(u) IN
  /\ url' = u
  /\ previous' = IF k \in DOMAIN cache THEN cache[k] ELSE before
  /\ \/ /\ k \in DOMAIN cache \cup DOMAIN asks
        /\ UNCHANGED <<asks, refused, asked>>
     \/ /\ k \notin DOMAIN asks
        /\ asked < MaxAsks /\ asked' = asked + 1
        /\ asks' = asks @@ (k :> [rows |-> Nowhere, url |-> u, since |-> 0])
        /\ refused' = refused \ {k}
  /\ UNCHANGED <<list, salesOrders, cache, writes>>

\* A change of the parameters in the URL.
Go(u) == u # url /\ Observe(u, previous)

\* A patch that does not name a page goes to the first.
ResetPage(patch) == [patch EXCEPT !.page = 1]

\* useListParams.
setFilter(status) == Go(ResetPage([url EXCEPT !.status = status]))
setSort(column, dir) == Go([url EXCEPT !.sortBy = column, !.sortDir = dir])
setPage(page) == Go([url EXCEPT !.page = page])
clearAll == url.status # AllStatuses /\ Go(Defaults)

\* The header of a column.
SortBy(column) ==
  setSort(column, IF url.sortBy = column /\ url.sortDir = "asc" THEN "desc" ELSE "asc")

\* The buttons below the table belong to the answer that is shown.
PreviousPage ==
  LET data == Displayed(url) IN
  data # Nowhere /\ data.page > 1 /\ setPage(data.page - 1)
NextPage ==
  LET data == Displayed(url) IN
  data # Nowhere /\ data.page < LastPage(data) /\ setPage(data.page + 1)

\* An order is opened, and the list again: with the browser's back button, or by
\* a link that has no parameters.
ComeBack == \E u \in {url, Defaults} : Observe(u, Nowhere)

-----------------------------------------------------------------------------
(* Requests *)

\* The first statement: the rows of the page.
rowsOf(k) ==
  /\ k \in DOMAIN asks /\ asks[k].rows = Nowhere
  /\ \E s \in Sorted(asks[k].url) :
       asks' = [asks EXCEPT ![k].rows = Slice(s, asks[k].url.page), ![k].since = writes]
  /\ UNCHANGED <<list, salesOrders, url, cache, refused, previous, writes, asked>>

\* The second, the figures; and the answer, which is kept under its key.
Answered(k) ==
  /\ k \in DOMAIN asks /\ asks[k].rows # Nowhere
  /\ LET a == asks[k]
         figures == Aggregates(a.url)
         answer == [rows |-> a.rows, total |-> figures.total, value |-> figures.value,
                    page |-> a.url.page, of |-> a.url, seen |-> <<a.since, writes>>]
     IN  /\ cache' = (k :> answer) @@ cache
         /\ previous' = IF k = Key(url) THEN answer ELSE previous
  /\ asks' = Restrict(asks, DOMAIN asks \ {k})
  /\ UNCHANGED <<list, salesOrders, url, refused, writes, asked>>

\* Neither the request nor its retry is answered; fixtures always are.
Fails(k) ==
  /\ list = "salesOrders" /\ k \in DOMAIN asks
  /\ asks' = Restrict(asks, DOMAIN asks \ {k})
  /\ refused' = refused \cup {k}
  /\ UNCHANGED <<list, salesOrders, url, cache, previous, writes, asked>>

-----------------------------------------------------------------------------
(* Others *)

Write(o, status, docNumber) ==
  /\ list = "salesOrders" /\ writes < MaxWrites /\ writes' = writes + 1
  /\ salesOrders' = (o :> [status |-> status, docNumber |-> docNumber]) @@ salesOrders
  /\ UNCHANGED <<list, url, cache, asks, refused, previous, asked>>

Numbers == {salesOrders[o].docNumber : o \in DOMAIN salesOrders} \ {NoNumber}

OtherCreates(o) == o \notin DOMAIN salesOrders /\ Write(o, "draft", NoNumber)
OtherConfirms(o) ==
  /\ o \in DOMAIN salesOrders /\ salesOrders[o].status = "draft"
  /\ Write(o, "confirmed", Cardinality(Numbers) + 1)
OtherCancels(o) ==
  /\ o \in DOMAIN salesOrders /\ salesOrders[o].status # "cancelled"
  /\ Write(o, "cancelled", salesOrders[o].docNumber)

-----------------------------------------------------------------------------
(* The specification *)

\* Drafts, or fixtures of which one is not; and the first page being read.
ListInit ==
  /\ list \in DOMAIN ListScreens
  /\ IF list = "salesOrders"
     THEN \E drafts \in SUBSET Order :
            salesOrders = [o \in drafts |-> [status |-> "draft", docNumber |-> NoNumber]]
     ELSE salesOrders =
            [o \in Order |-> [status |-> IF o = 1 THEN "draft" ELSE "confirmed", docNumber |-> o]]
  /\ url = Defaults
  /\ cache = <<>> /\ refused = {} /\ previous = Nowhere
  /\ asks = (Key(url) :> [rows |-> Nowhere, url |-> url, since |-> 0])
  /\ writes = 0 /\ asked = 1

\* The headers that sort, of those that are alike only the first; and some of the
\* values of a filter.
Columns ==
  LET screen == ListScreens[list].screen IN
  screen.sortable \cap ({"docNumber", screen.sortBy} \cup Unserved(list))
Statuses == {"draft", "confirmed"}

ListNext ==
  \/ \E status \in Statuses \cup {AllStatuses} : setFilter(status)
  \/ \E column \in Columns : SortBy(column)
  \/ clearAll \/ PreviousPage \/ NextPage \/ ComeBack
  \/ \E k \in DOMAIN asks : rowsOf(k) \/ Answered(k) \/ Fails(k)
  \/ \E o \in Order : OtherCreates(o) \/ OtherConfirms(o) \/ OtherCancels(o)

ListSpec == ListInit /\ [][ListNext]_listVars

-----------------------------------------------------------------------------
(* Properties *)

\* The answers for the pages of one list, all of them read after the last write.
Pages(u) ==
  {a \in {cache[k] : k \in DOMAIN cache} :
     /\ [a.of EXCEPT !.page = u.page] = u
     /\ a.seen = <<writes, writes>>}

\* Whoever turns all the pages of a list while nothing is written sees every
\* row that matches on exactly one of them, in the order of the column that was
\* asked for where the service knows it, and beside every page the number and the
\* value of them all.
TurningThePages ==
  \A k \in DOMAIN cache :
    LET first == cache[k]
        pages == Pages(first.of)
        seen == FoldLeft(LAMBDA s, t : s \o t, <<>>,
                  [n \in 1 .. LastPage(first) |->
                     (CHOOSE a \in pages : a.page = n).rows])
    IN  (first \in pages /\ \A n \in 1 .. LastPage(first) : \E a \in pages : a.page = n)
        => /\ Len(seen) = Cardinality(ToSet(seen))
           /\ ToSet(seen) = Matching(first.of)
           /\ \A i, j \in DOMAIN seen :
                i < j /\ Known(first.of) => Primary(first.of, seen[i], seen[j])
           /\ \A a \in pages :
                /\ a.total = Len(seen)
                /\ a.value = MapThenSumSet(LAMBDA o : Total[o], ToSet(seen))
=============================================================================
