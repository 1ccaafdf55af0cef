# ERPn in TLA+

ERPn is an order-to-cash system: a NestJS API over PostgreSQL
(`apps/api`) and a React client (`apps/web`). Its hard part is not any single
formula but that everything is a short database transaction among others:
confirming an order reserves stock, takes a number and writes a header in five
or more statements; the default isolation level is READ COMMITTED, so each of
those statements may see a different database; requests are retransmitted,
transactions are retried, connections break, and browsers hold copies that are
behind. These modules model that part statement by statement, check it with TLC
on small instances, and prove the main results with TLAPS for every size.

Paths below are relative to `src/`. `PROJECT.json` maps every definition to the
lines it translates, and lists runs, mutants, hazards, findings and theorems.

1. [The system](#1-the-system)
2. [Modules](#2-modules)
3. [Runs](#3-runs)
4. [Fairness](#4-fairness)
5. [What is proved](#5-what-is-proved)
6. [Where code and words differ](#6-where-code-and-words-differ)
7. [What is not modelled](#7-what-is-not-modelled)
8. [Plan](#8-plan)

## 1. The system

### 1.1 How a request runs

A browser sends a request with a session cookie, a CSRF token and, for a write,
an `Idempotency-Key`. The guards check the three; then the handler runs its work
in

    withSerializationRetry(        http/serialization-retry.ts   up to 3 attempts on 40001 / 40P01
      uow.run(scope,               database/unit-of-work.ts      BEGIN ... COMMIT, ROLLBACK on throw
        runIdempotently(...)       http/idempotency.ts           claim the key or replay
          -> confirm / cancel / edit / create / raise / post
             -> audit.append, complete(key)

so the claim of the key, the effect, the audit line and the stored answer commit
together or not at all. Components interact through rows and row locks only;
there is no message queue and no shared memory. The background work is one
hourly sweep of expired idempotency records.

### 1.2 Components

For each: the state it keeps, its operations, what is hard, what makes it
correct, and the modules that say so. `PROJECT.json` has the status of each.

| Component | State | Operations | What is hard | What makes it correct | Modules |
|---|---|---|---|---|---|
| Sales orders `sales/` | `sales_orders` (status, version, number, totals), `sales_order_lines` | create, edit a draft, confirm, cancel | edits delete and insert the lines a confirmation is reserving; header written last; status read before the locks | status agrees with reservations; no update lost; one step of the order book per commit | OrderFulfilment, OrderBook |
| Reservations and availability `inventory/` | `stock_reservations`, `stock_balances` | reserve under the balance lock, release | the sum is read after the lock, in another statement; lock order over several products | never more reserved than on hand; each line of a confirmed order held exactly once | OrderFulfilment |
| Stock ledger | `stock_movements`, `stock_balances` | record | the row of a balance may have to be made first; several movements per transaction | the balance is the sum of the movements; nobody waits in a circle | StockLedger |
| Document numbering | `document_number_sequences` | allocate, provision | a rollback must give the number back; one row everybody needs | no gap, no duplicate | OrderFulfilment, InvoicePosting, DemoSeed |
| Unit of work and retry | a connection, session settings | run, retry | what the failed attempt read must not survive; what a scope lets a query see | every request ends; the retry starts from nothing | OrderFulfilment, Idempotency, Tenancy |
| Idempotency keys `http/idempotency*.ts` | `idempotency_records` | claim, find, complete, deleteExpired | claim and find are two statements; expiry; one key in flight twice; a key that rolls back | at most one effect per key and window; a replayed answer is true | Idempotency |
| Customer invoices `billing/` | `customer_invoices`, lines, `sales_order_lines.invoiced_quantity` | raise, edit, post | drafts claim nothing, so postings race for one remainder; the header is read before the locks | never over-invoiced; ledger equals document; one step of the invoice book per commit | InvoicePosting, InvoiceBook |
| Journal | `journal_entries`, `journal_lines` | record, read | the deferred trigger sees the entry at commit | debits equal credits; one entry per source | InvoicePosting, InvoiceArithmetic |
| Invoice arithmetic, decimals, tax rate | none | `billedAmounts`, `priceOrder`, decimal operations | rounding per line and per part against rounding of the whole | accepted documents make accepted entries; bounded drift | Decimals, InvoiceArithmetic |
| Chart of accounts, posting accounts | `accounts`, `posting_accounts` | provision, resolve | a missing account refuses every posting | provisioned whole with the company | DemoSeed |
| Editing a sales order `apps/web` | query cache, form, a key per visit, requests in flight | open, refetch, save, retry, leave | copies that are behind; late answers; a retry after a refetch | one change per visit; success only for what was saved | DraftEditing, OrderForm |
| Creating and confirming an order, the list `apps/web` | form, pickers, cache, URL | enter, confirm, cancel, page through | a key per screen; the form changes under a pending request; answers for another page | one order per form; what is shown after it is what was entered | OrderForm, BrowserSession, DocumentReading, Listing |
| Session and routing `apps/web` | cookies, `me`, query cache | sign in, sign out, switch company | answers that arrive after the session has moved on; several tabs | nothing fetched before is shown after a switch or a sign-out | BrowserSession, AccessSurface |
| Authentication `auth/` | `sessions`, `users` | login, validate and touch, logout, revoke | several requests touch one session that is being revoked | a session never outlives its end | CompanyAccess, LoginThrottle |
| Authentication throttle | `auth_throttle` | status, recordFailure, clear | the status is read before the password is checked and recorded after; two rows | failures in a window are bounded; a lock is served | LoginThrottle |
| Identity | `sessions.active_company_id` | me, switchCompany | the company changes between two transactions of one request | a session acts in a company it is a member of | CompanyAccess, Tenancy |
| Authorization `authorization/` | roles, role assignments | guards, assign, remove | what the actor holds is read in an earlier transaction | nobody acts who was not entitled; no assignment brings a new permission in | CompanyAccess, AccessSurface |
| Forgery protection | a cookie | issue, verify | the token is bound to a session the browser may have left | a token belongs to its session | BrowserSession |
| Company provisioning | companies, memberships, roles, counters, accounts | provision, admit | repeated and interrupted | a company is whole or absent | DemoSeed |
| Migrator | `schema_migrations`, advisory lock | plan, apply | several start at once, with different files; a run fails half way | the schema is what is recorded, in order | Migrator, Setup |
| Demo seed | everything | seed | a sequence of separate transactions | whole companies, and it ends | DemoSeed, Setup |
| Master data, audit log, configuration, schema, CI, other screens | | reads, appends, validation | | see section 7 | AccessSurface, Listing, OrderForm in part |

### 1.3 Interactions

* *Edit against confirm.* An edit of a draft locks the header, deletes the lines
  and inserts new ones. A confirmation reads header and lines without a lock,
  locks balances, inserts reservations (each takes FOR KEY SHARE on its line
  through the foreign key), takes the counter, and only then meets the header.
  They conflict late, on the version of the header or on a line that is gone,
  and each may hold what the other waits for.
* *Confirm against confirm / cancel.* Serialised per balance by
  `availabilityForUpdate`, which locks the balance row in one statement and sums
  the reservations in the next.
* *Post against post.* Serialised per order line by the guarded UPDATE
  `consumeInvoicedQuantity`, then by the counter, then by the header's version.
* *Post against cancel.* Not serialised at all (section 6).
* *Operation against retransmission.* The claim of a key waits for an
  uncommitted claim of the same key and then declines or inserts.
* *Sweep against claim.* The sweep may remove the record between the declined
  claim and the read that looks for it (section 6).
* *Login against login.* Both read the throttle before either has recorded its
  failure; they meet at the rows, the account's first.
* *Guard against administration.* A request is let through by one transaction and
  does its work in a later one; roles, memberships and the session itself may
  change between them.
* *Browser against database.* The version a save sends comes from the cache at
  the moment of saving, the text from the form at the moment of mounting.
* *Runner against runner, seed against runner.* Migration runners meet at an
  advisory lock; a seed takes none and finds the tables that are there.

## 2. Modules

| Module | Kind | What it models |
|---|---|---|
| `Quantities` | operators | `Total`, the sum of a quantity over a set of rows |
| `OrderBook` | abstract specification | what orders, reservations and numbers promise: each operation one step |
| `OrderFulfilment` | specification | the same, as statements of overlapping transactions; implements `OrderBook` |
| `StockLedger` | specification | movements and balances, as statements of overlapping transactions |
| `Idempotency` | specification | keys, transmissions, retries, expiry, sweep |
| `InvoiceBook` | abstract specification | raise, edit, post, each one step |
| `InvoicePosting` | specification | the same as statements; implements `InvoiceBook` |
| `Decimals` | operators | `shared/decimal.ts`: integers at a scale |
| `InvoiceArithmetic` | specification | one order priced, billed in parts and posted, with its rounding |
| `LoginThrottle` | specification | overlapping logins on the two rows of the throttle |
| `Tenancy` | operators | scopes, settings, row policies and the repositories' predicates |
| `CompanyAccess` | specification | sessions, guards and role assignments as chains of transactions |
| `AccessSurface` | operators | the catalogue, the default roles, the routes, the screens, their buttons and their links |
| `Migrator`, `DemoSeed` | components of `Setup` | migration runners; seeds with provisioning |
| `Setup` | specification | runners and seeds on one database |
| `DraftEditing` | specification | browsers with caches, the network, and the edit endpoint |
| `BrowserSession` | specification | cookies, tabs, the session and the screen of an order |
| `DocumentReading`, `Listing`, `OrderForm` | specifications | one screen each: a document, a list, the order form; `ListScreens` has the fourteen lists' columns |
| `MC*` | instances | the constants of the runs; `MCScreens` composes the three screens, `MCBooks` the ledger and the invoice arithmetic |
| `*Proofs` | proofs | section 5 |

### 2.1 The transaction pattern

`OrderFulfilment`, `Idempotency`, `InvoicePosting`, `StockLedger`, `LoginThrottle`
and `CompanyAccess` share one pattern.

* `Txn` (`Login`, `Request`) is a set of requests. `pc[t]` is the statement
  request `t` is at; its ends have names of their own.
* One action is one SQL statement that another transaction can be ordered
  against. Two statements are merged only where nobody can write between them
  what the second reads; the module says so where it happens. The one case that
  is not a single SELECT: `availabilityForUpdate` locks a balance row and then
  sums its reservations. Whoever adds to that sum holds the lock, and a release
  only lowers it while holding the lock too, so nothing is lost by one action.
* A statement sees what is *committed* when it runs (READ COMMITTED), plus its
  own writes. Uncommitted writes are in `work[t]` (`written`, `own...`); a commit
  publishes them.
* A row lock is a variable from rows to holders; a statement that needs a lock
  another transaction holds is not enabled. Locks go at commit or rollback.
* A thrown error and the rollback it causes are one action: nobody can see
  between them. `Crash` is a rollback at any point with no answer. Refusals
  that depend on parts outside the module (permissions, master data, posting
  accounts) are `ChecksFail`, which may or may not happen.
* An order of processing that the code fixes by sorting (`lock-order.ts`) is
  fixed by a rank constant, so `IsNext(t, r)` picks the same row the loop would.

### 2.2 OrderFulfilment

| In the module | In the code |
|---|---|
| `orders`, `live` | rows of `sales_orders`, `sales_order_lines` |
| `active`, `released` | `stock_reservations` with `released_at` null or set |
| `onHand`, `nextValue` | `stock_balances.on_hand`, the counter |
| `balanceLock`, `orderLock`, `lineLock`, `counterLock`, `LineSharers` | row locks; the FOR KEY SHARE of the foreign key |
| `CreateDraft` | `createIn`, one transaction nobody can be ordered against |
| `Read`, `ReadRefused` | the first read of the header and its status check |
| `ReadLines`, `Find`, `LineGone`, `Lock`, `Insufficient`, `Insert`, `ForeignKeyFails`, `Counter` | `confirmSalesOrder`: lines, locks in order, `reserveForOrderLine`, `allocate` |
| `ListHeld`, `Release`, `ReleaseConflict` | `cancelSalesOrder`: releasing what is held |
| `Header`, `HeaderConflict` | `applyTransition`: the versioned update |
| `LockDraft`, `EditConflict`, `DeleteLine`, `InsertLines` | `updateDraftIn` |
| `Commit`, `Crash`, `DeadlockVictim`, `ChecksFail` | the end of the unit of work, and the retry around it |

Abstractions: a line id stands for its row (rows are inserted and deleted, never
updated, by these operations), the order's warehouse is part of the line's
balance, prices are the set of lines they were computed over (`priced`), two
lines of one order on one balance are taken in line order. A retry of an edit
takes the same line ids again, which only the ids could tell apart. `no_lines`
is not an action: no draft without lines can be created. Stock on hand never
changes while the server runs, because the only caller of the ledger is the
seed. `Asks` and `Documents` bound what requests may ask for and what sets of
lines a client may send; the proofs leave both open.

### 2.3 StockLedger

`record()` in four statements per movement (`EnsureRow`, `LockRow`,
`InsertMovement`, `UpdateBalance`), several movements per transaction in lock
order. `ownMovements`, `ownOnHand`, `ownVersion` are what is written and not
committed; `version` 0 is a row that is not there. The new balance is the
movement's quantity over the row as the transaction sees it, its own earlier
movements included (`NewOnHand`); the mutant `OverCommitted` computes it over what
is committed only. On hand may go negative, as migration 0008 says: nothing here
refuses an issue.

### 2.4 Idempotency

`record[k]` is the committed record of a key (named by the transmission that
made it), `keyHolder[k]` the uncommitted insert others wait for, `expires` and
`claimedAt` its times, `performed` the history of effects. `Arrive` is an HTTP
request, `Start` the beginning of an attempt (the moment `expires_at` is computed
from), `Claim` and `ClaimDeclined` are `ON CONFLICT DO NOTHING`, `Replay`,
`Conflict` and `ClaimedByNobody` what `find` leads to, `Operate`, `AlreadyDone`
and `OperationRefuses` the operation, `Complete` and `Commit` the rest.
`SweepStarts`, `SweepCompany`, `SweepFails` are the hourly expiry: a cutoff and
then one transaction per company, each limited by the policy of migration 0011
to records that have expired by the *database's* clock, whatever cutoff is
passed. `Moments` contains a moment in the future for that reason.

An operation is *guarded* when its row can tell that it was done (confirm,
cancel, edit by version, post) and unguarded when it only creates. The
application and the database share a clock.

### 2.5 InvoicePosting and InvoiceArithmetic

`invoices`, `bills`, `lineRate` are the document, its lines and the tax rate they
were derived at; `invoiced` is `invoiced_quantity` of the order lines; `journal`
the entries. A posting is `Read`, `ReadLines`, `Check` (the unlocked re-read of
the orders), `Consume` per line in id order or `Exceeded`, `Counter`, `Header`,
`CommitPosting`; an edit is `Read`, `Derive`, `LockDraft`, `CommitEdit`.

`RaiseDraft` is one step, because its rows cannot be named by anyone before it
commits; `CancelOrder` is one step, because it writes nothing an invoice
operation writes and what a posting reads of it is one status. The tax rate of a
company is changed by nothing in the repository; `RateMoves` is external and lets
it change between a draft and its posting; `inForce` is the history of the rates
since a posting arrived. There is no retry action: no two of
these operations can deadlock (`NoPostingDeadlock`) and nothing runs at
SERIALIZABLE, so the retry has nothing to act on.

Money is exact in `InvoicePosting`. `InvoiceArithmetic` has the rounding: every
column is an integer at its scale (`Decimals`), every part of an order is rounded
for itself, every line for itself, the tax on the rounded subtotal. It bills one
order in parts, one draft at a time, and posts through `Coherent`,
`SomethingToPost` and the trigger's `EntryAccepted`. Its names differ from those of
`InvoicePosting` (`DeriveDraft`, `StandardRateMoves`, `ArithmeticSpec`), because one
module proves about both.

### 2.6 LoginThrottle

`login()` with both rows of `auth_throttle`: `Check` (the unlocked status of
account and address), `RejectLocked`, `Verify` (the slow password check),
`RecordFailure` or `ClearOnSuccess` per row, `Commit`. `begun` is PostgreSQL's
`now()`, the beginning of the transaction, from which everything written is
computed; a lock is read against the clock. `MaxAge` bounds how far the two are
apart. `misses` and `lockedAt` are histories.

### 2.7 Tenancy, CompanyAccess, AccessSurface

`Tenancy` is two layers of set filters: the row policies that read the settings
of a connection, and the predicates of the repositories, which repeat them.
`CompanyAccess` runs a request through them: `Validate`, `Touch`, `Context`,
`Can`, then the handler, which resolves its company `again` and does `Work`, or
`ReadGrants` and `Assign`, or `RemoveRole`; a switch is `Own`, `Verify`, `Enter`. Each
is a transaction of its own, and `Revoke`, `MembershipChanges`, `Login` and the
clock move between them. `seen` records what the request was entitled to since it
began. `AccessSurface` has the facts that are written down in several places and
must agree: what a route asks for (`Declared`), what a screen asks for (`Guard`),
what the browser draws for a permission (`NavItems`, `Buttons`) and for everybody
(`Links`), and what roles hold.

### 2.8 Migrator, DemoSeed, Setup

A runner: `Connect`, `Lock`, `Read`, `RefusePlan` (a missing or changed file, or one
out of order) or `Plan`, then `Apply` and `Commit` per migration, `Finish`, and
`Fail` anywhere. A seed: `Program` is its parts (the tenants and accounts, then each
company), a part is a sequence of transactions and each of these a sequence of
inserts, `at` and `stmt` say which it is at; `Fits` is keys and foreign keys, with
the role a grant needs (`GrantingRole`), `Blocked` an uncommitted row of another
seed. `Setup` puts both on one database, where a table exists from the migration
that makes it.

### 2.9 DraftEditing

One order, several users, each with `cache` (the query state), `page` (whether
the screen is mounted), `base` (the version the mounted form was filled from),
`outcome` (the mutation's state), and a network of `calls` and `answers` that may
be delayed past the moment the browser gives up. `Render` is the important
helper: a form that is mounted keeps what `useState` was given first, whatever
the cache becomes, unless an error of the query replaces it. `Open` makes the
visit's key. `Save` is the endpoint's whole transaction, whose inner
interleavings are in `OrderFulfilment` and `Idempotency`. A refetch may happen at
any time (mount of a stale query, reconnect) and is split into the server's read
and the delivery. A conflict found after the order was confirmed may be answered
as either of the two refusals, because the endpoint asks in two statements. Keys
do not expire within a behaviour.

### 2.10 The screens

`BrowserSession`: the cookies (`jar`) are shared by the tabs and change when an
answer arrives, in whatever order answers do; a call carries the cookies of the
moment it is sent and the header of the tab's token. `View`, `Rendered` and
`Drawn` are what a tab draws from what it believes; `Settled` and `Deliver` what
an answer does to the cache and to the session. The answer of a fetch is heard
only while its query waits for it; the answer of a command is heard whenever it
comes (`commandAnswered`): confirm and cancel write the status into the order that
is cached by then, and the answer of Create invoice puts the invoice into the cache
and takes the tab to its screen (`page.invoice`). `rows.asked` is the call the cached
order was fetched by, `rows.last` the call that last wrote into it, `since` the call
the tab last left a person or a company with.

`DocumentReading`: a read is its statements (`Statements`), a cache entry is
fetched, kept or invalidated (`ExactMatch`, `PrefixMatch`), a document is
finished by the screen's own button or by others. Lines are represented by the
version that wrote them.

`Listing`: `Sorted`, `Slice`, `Aggregates` and `LastPage` are the pure part, the
URL and the kept previous answer the rest.

`OrderForm`: what a field holds is text; `Number` is the browser's reading of it and
`Draft` what the server makes of the body. A visit has one key; the form may be
changed while its request is pending, the answer may be lost, another tab may move
the session to another company. `queried` is the query cache: `getOrder` fetches into
it at any moment, also behind an open form; `startingValues` fills a form from it
once, and `Body` takes the version from it at each press of Save. A success writes
nothing into the cache; it moves the screen to the order it names (`went`), which is
drawn from the cache, the old one included.

## 3. Runs

Every run but `browser_late` and `drafts_overwritten` passes with no error. State
counts are of distinct states, with the symmetry stated in the cfg. Type invariants
were checked by TLC on these instances and, in the modules of section 5, are proved
(`TypeCorrect`); the runs are spent on the other properties.

| Run | Instance | Properties | Shows |
|---|---|---|---|
| `fulfilment` | 3 requests, 2 orders with lines on 2 balances in opposite order and one on a balance of its own, 2 on hand, 2 attempts, one order created and edited during the run; fair; 51,004 states | `NoOversell`, `StatusMatchesReservations`, `NumbersGapless`, `DeadlockNeedsAnEdit`, `ImplementsOrderBook`, `EveryRequestEnds`, `EveryWriteBuildsOnTheLast` | no interleaving, crash or retry oversells, tears an order from its reservations, spends a number or overwrites what it has not seen; deadlocks need an edit and are resolved; each commit is one step of the order book; every request ends |
| `books` | two components that share nothing, side by side in one of their states or the other's: 3 transactions of one to three movements over 2 balances, one of them twice on one balance; an order of 2 lines, scales 1 and 2, billed in two parts, quantities with written zeros, prices that come to halves of the last place, discounts up to the whole, rate 0 or 19%; 94,752 states | `BalanceIsTheSum`, `NoLedgerDeadlock`, `EntryIsAccepted`, `DriftBounded`, `BilledWholeIsAsOrdered` | the balance that can be read is the sum of the movements that can be read; rows are locked in one order; every document posting lets through makes an entry the ledger takes; parts drift from the whole by half a unit each at most; a line billed whole has its order's figures |
| `idempotency` | 2 transmissions, 3 keys of 2 companies, unguarded and guarded requests, 2 attempts, retention 1, clock to 2, sweeps told the moment 1 or 9; 577,045 states | `AtMostOncePerWindow`, `AnswersAreTrue`, `GuardedOnce` | one effect per key and window, also with a sweep whose clock is wrong; a new or an expired key does not repeat a guarded operation; answers describe what happened |
| `invoices` | 2 requests, 2 invoices, an order with a line of two units and one of one, rates 0 and 1; 391,704 states | `NeverOverInvoiced`, `LedgerMatchesDocuments`, `NoPostingDeadlock`, `ImplementsInvoiceBook` | drafts that claim one remainder twice are never both posted; an entry equals the lines of its invoice, at a rate the company had since the posting was asked for; nobody deadlocks; each commit is one step of the invoice book |
| `throttle` | 3 logins at once, 4 in all, of one account from 2 addresses, limit 2, window 2, lockout 2, clock to 3, a login up to 1 behind; 472,610 states | `AttemptsBounded`, `NoLoginDeadlock`, `LockoutIsServed` | although all of them may have found the scope open, the failures that count stay bounded; a lock is served; rows are taken in one order |
| `access` | 2 requests of 2 users in 2 companies of 2 tenants, 1 membership change, idle 2, absolute 3, clock to 3; 1,081,391 states | `AuthorityNeverGrows`, `ActsWhileEntitled`, `SessionsOnlyEnd` | nobody acts without having been entitled since the request arrived; no assignment brings a new permission into a company; a session never outlives its end |
| `setup` | 3 runners with different directories, one of them a dry run, 3 migrations, 2 seeds, six roles; fair; 169,230 states | `HistoryIsTheRecord`, `SeededRolesWork`, `CompaniesAreWhole`, `EverythingEnds` | the schema is what is recorded, in order; a company is whole or absent; what the browser draws for the permissions of its roles opens and is not refused; runners and seeds end |
| `browser` | 1 tab, 2 people one of whom is at work, 2 companies, 2 sessions, 4 calls, 1 visit, 1 failed connection; 1,458,251 states | `NothingFetchedBeforeIsShown`, `OneInvoicePerVisit`, `SignedOutIsEnded` | no document fetched before a sign-out or a switch is shown after it; a person invoices an order once in a visit; a tab that says it is signed out has ended the session |
| `browser_late` | the same without failures; ends in the violation it is there to show | `NothingOlderIsShown` | section 6 |
| `reading` | one of three screens: a document with 1 edit of others, 3 rounds of reads, 2 presses, 1 lost message; a list of 3 rows, two of one date, pages of 2, 1 write, 3 fetches; a form with 2 visits, 3 touches, 2 presses, 1 lost answer, 1 switch; 1,691,122 states | `SavedOverWhatWasShown`, `PanelsTellThePosting`, `PostedStaysShown`, `TurningThePages`, `OneOrderPerForm`, `SavedIsWhatWasEntered` | a view the API served never has older lines than its version, so that an edit checked against it replaces no lines it did not have (what a form does with a view is `drafts_overwritten`); a posted invoice is not shown as a draft again and panels on screen tell the posting; turning the pages shows every row once; one order comes of a form in a company, and what is saved is what was entered |
| `drafts` | 2 users with one visit each, one of whom saves twice; 1,187,369 states | `SavedOncePerVisit`, `ToldSavedWasSaved` | a visit changes the order at most once; success is reported only for what was saved |
| `drafts_overwritten` | the same, one save each; ends in the violation it is there to show | `NoSilentOverwrite` | section 6 |

Every property of a passing run is shown to be sensitive to the code by a mutant
(`LedgerMatchesDocuments` by two, one of which drops `tax_rate_changed`)
in `PROJECT.json`: an operator in the same module, marked *Wrong* there, that
changes a mapped definition the way a plausible bug would (the balance not locked,
the version not compared, the number not returned, ...); with it, TLC finds the
property violated.

### Why these bounds

* *Requests.* A violation of the invariants of stock and numbering needs two
  transactions that overlap and at most a third that changes what both have read;
  three gives confirm, cancel and edit at once. What each may ask (`Asks`) is
  chosen so that two confirmations, two edits, two cancellations and every mixed
  pair meet on an order. The other runs use two or three, which is enough for
  every pair of statements to be ordered both ways; the safety results of these
  modules are proved for any number (section 5).
* *Orders, lines and balances.* Two balances in opposite line order are what the
  lock order is there for; quantities 2 and 1 over 2 on hand make one order fit
  alone but not beside another. `Documents` are three sets of lines for the second
  order: the first is created, the others replace it, with other products.
* *Attempts.* `MAX_ATTEMPTS` is 3 in the code and 2 here: a first attempt, a
  retry and a failure are the three cases the code distinguishes.
* *Clocks.* With retention 1, a horizon of 2 lets a record expire, be swept, and a
  new one live. A throttle of limit, window and lockout 2 up to 3 lets a window end
  and be followed by another, and a lock be set and served. With idle 2, absolute 3
  and a clock to 3, a session that is used slides its window, the second slide is cut
  to the absolute end, and either expiry can be the one that ends a session; a
  request that found a session valid may come to touch it after its window or after
  its end. `MaxAge` 1 is the least that makes a transaction's `now()` differ from the
  clock.
* *Scales.* Amounts have one place less than prices, as in the code, and operands
  are chosen for their rounding, not for their size.
* *Screens.* Two presses are what a retransmission needs, one lost message what
  makes one necessary, and two pages are enough for a page to be behind.
* *History.* `performed`, `issued`, `saves`, `misses` only grow with requests, so
  the instances are finite without a state constraint.
* *Symmetry* is over interchangeable values in runs without liveness, and never
  over lines that have ranks.

Deadlock checking is on wherever a finished system has the explicit step
`Finished`, so every other stop is an error. It is off where the system may stop:
users may stop pressing buttons (`drafts`, `browser`, `reading`), nobody may ask
for more (`access`, `books`), and runners, seeds and transactions of the
ledger have all ended (`setup`, `books`; that runners and seeds end is
`EverythingEnds`, that no transaction waits in a circle `NoLedgerDeadlock`).

## 4. Fairness

Only two specifications assume any, for the two liveness properties.

`OrderFulfilment.FairSpec`: `WF(Statement(t))` for every request: a statement that
can run is run. That is the database executing what the server has sent and Node
resuming a handler whose query has answered; it is per request, because
connections do not wait for each other except through locks, and weak, because a
waiting statement keeps its place until the lock is free. A lock that is taken and
released again and again by others could starve a waiter under weak fairness only;
the number of requests is finite in the instances, and PostgreSQL queues waiters,
so nothing stronger is assumed. `WF(DeadlockVictim(t))` is PostgreSQL's deadlock
detector, which always ends one member of a cycle. Nothing is assumed of `Begin`,
`CreateDraft`, `ChecksFail` or `Crash`.

`SetupSpec`: `WF` of each runner's and each seed's next statement, for the same
reason. Nothing is assumed of their failures.

## 5. What is proved

The proofs are for every value of the constants that satisfies the module's
assumption (`ConstantsAssumption`, `ArithmeticAssumption`, `FormAssumption`,
`ReadingAssumption`, `BrowserAssumption`, `RunnersAssumption`, `DatasetAssumption`;
TLC evaluates each in the runs of its module): any number of requests, orders,
invoices, keys, users, logins, attempts, tabs, runners, seeds and companies. The
assumptions say what the values are (numbers, strings, sequences of them) and that
the value for "none" is not one of the others; they bound nothing. Where a sum or a
wait-for argument needs it, the set of lines is finite. Components that share no
state share a proof module when they are close.

**Sums** (`QuantitiesProofs`). `Total` counts units, so that its laws follow from
those of cardinality without induction: `TotalType`, `TotalEmpty`, `TotalAdd` (a
new row adds its quantity), `TotalMonotone` (fewer rows never sum to more),
`TotalRenamed` (a bijection of the rows keeps the sum), `TotalCongruence`,
`TotalOfNothing`, `TotalOneMore`.

**Orders** (`OrderFulfilmentProofs`). One invariant, `IInv`, of five parts.

* `TypeCorrect`.
* `NumbersAreGapless`, `NoUpdateIsLost`. `NumbersGapless` is not inductive: a
  transaction that holds a number has written nothing yet. `ControlInv` says which
  statement a transaction may be at with which locks, `NumberInv` that the
  transaction between counter and commit holds the counter and the *next* number,
  and that a header about to be replaced still has the version its transaction
  started from.
* `StockIsNeverOversold`. The committed reservations say nothing about two
  transactions that have both inserted and not committed. `StockInv` counts what is
  *promised*, active or pending, and says it has room on the balance, and that
  whoever has a pending insert holds the balance. The sum a transaction computes
  under the lock sees every promise (`SumSeesEveryPromise`), because nobody else
  can have a pending one; that is the reason the lock is taken in a statement
  before the sum.
* `ConfirmedOrdersAreReserved` (`StatusMatchesReservations`). A confirmation reads
  its lines long before it may commit, and an edit may replace them meanwhile.
  `OrdersInv` therefore speaks of the header too: *as long as the header is the one
  that was read*, what a confirmation has inserted or has still to do are exactly
  the order's lines, what a cancellation has released or has still to do exactly
  the order's reservations; an edit that holds the header has deleted or has still
  to delete exactly the lines; and lines a request brings are nobody else's. The
  versioned update makes the condition true at the commit.
* `TransactionsAreAtomic` (`ImplementsOrderBook`). From `IInv`, every commit is the
  step of `OrderBook` of its kind: it finds the status, lines, stock and next number
  the abstract step asks for, and leaves the same; every other statement is a
  stutter. The sums differ in form (reservations here, lines there);
  `TotalRenamed` identifies them.
* `OnlyEditsDeadlock` (`DeadlockNeedsAnEdit`). `LocksInv` says what a confirmation
  or a cancellation holds at each statement: balances below what it still wants,
  then the counter, and a header only when it waits for nothing. In a circle
  without an edit nobody waits for a header or the counter, so all wait for
  balances, each held by one that waits for a higher one; sets of the balances
  above what is waited for would fall for ever in a finite set
  (`NoEndlessDescent`).

**Stock ledger** (`StockLedgerProofs`). `TypeCorrect`; `BalancesAreSums`:
`Lines`, `Rows` and `Sums` follow each movement through its transaction, and the
row a transaction wrote is the sum of what is committed and what it did itself;
`VersionsHold`: the version check of the update never fails, because of the lock;
`LedgerNeverDeadlocks`: `Ordered`, rows are locked upwards.

**Idempotency** (`IdempotencyProofs`).

* `TypeCorrect`; `LiveRecordsStay`, which follows from the step itself.
* `OncePerWindow`: `KeyInv` (a held key is held by one transmission and not on
  record; a record names a committed transmission) and `WindowInv` (an earlier
  effect of the key is on record still, or its window is over).
* `GuardedRequestsHappenOnce`: `TargetInv`, whoever is between the operation and
  its commit holds the row, and no committed effect of the request exists.
* `AnswersDescribeEffects`: `AnswerInv`.

**Invoices** (`InvoiceProofs`).

* `TypeCorrect`.
* `PostingsNeverDeadlock`. `ControlInv` ties every lock to the statement its
  holder is at, and says that what a posting has taken ranks below what it has
  yet to take. A circle cannot contain a transaction at its commit, so none at a
  header, so none at the counter: all wait for lines, each line held by one that
  waits for a higher one.
* `NumbersHaveNoGap`, `PostedStaysAsItIs`, `LedgerIsTrue`. `HeaderInv`: versions only
  rise, so a header that still has the version that was read *is* the one that was
  read; at the commit it cannot change any more. `TotalsInv`: headers have the totals
  of their lines. Together, the entry written from a header read at the start equals
  the lines at the end, although edits may come between the two reads. `InForceInv`:
  the rate of the lines a posting read is one the company had since the posting
  arrived, from its check on; only a draft changes its rate (`TaxedStep`).
* `NothingIsOverInvoiced`. `BillInv`: what was read to be billed is what the
  invoice bills as long as the version is the one read. `TakenInv`: what a posting
  has taken is locked and still remains. With `TotalAdd`, one commit adds to the
  sum over posted invoices exactly what it adds to `invoiced_quantity`.
* `PostingsAreAtomic` (`ImplementsInvoiceBook`). `BookInv` collects the above and
  adds `AbsentInv` (an invoice that is not there has no lines and version 0) and
  `CheckedInv` (a posting past its checks has something to post); with it a commit
  of a posting is `Post` of the book, of an edit its `Edit`, and nothing else is
  visible.

**Invoice arithmetic** (`InvoiceProofs`, second part). For any two scales, the
smaller that of amounts; `PowersAssumption` gives the prover the laws of powers of
ten for the exponents that occur, since `tenTo` is `10^n`. `FiguresAre` is the lemma
the rest hangs on: `billedAmounts` and `price` both come to `Figures`, one function
of the *columns* of a row, because zeros written at the end of a quantity multiply
what is rounded and the power it is rounded to alike (`RoundedAlike`).
`ArithmeticInvHolds` is the invariant: every stored row has the figures of its own
columns, and a draft bills at what was agreed.

* `TheCopiesAgree` (`BilledWholeIsAsOrdered`): then equal columns have equal figures.
* `DriftStaysBounded` (`DriftBounded`): a rounding errs by half a unit at most
  (`HalfAUnit`), and each part adds one (`PartAdds`).
* `EntriesAreAccepted` (`EntryIsAccepted`): a line whose subtotal rounds to nothing
  has no tax, so a total above zero has a subtotal above zero (`TaxedIsCharged`); two
  rows, or three when there is tax, then balance (`BalancedEntry`).

**Logins** (`AuthenticationProofs`, first part).

* `TypeCorrect`.
* `LoginsNeverDeadlock`. `AccountFirst`: a login that still goes through its rows
  has been through its account alone, so a chain of waiting logins has two links at
  most.
* `LocksAreServed` (`LockoutIsServed`). `WritesAreCurrent`: what a login has
  written and not committed is still derived from the row that is committed, as
  `OneWriter` keeps everybody else from it. `LocksStand`: the committed
  `locked_until` is not before the last lock's end, less what the login that set
  it was behind; neither a later failure nor a right password can
  take it below that.
* `AttemptsAreBounded` (`AttemptsBounded`). A scope that is open bounds nothing by
  itself, because any number of logins may have found it open. `WindowsInv` bounds
  the failures since the row's window began by its count, and those since a window
  before that by one limit more; the count only stays below the limit until the
  lock is set, and a lock in force counts no further.

**Sessions and authority** (`CompanyProofs`, first part). `TypeCorrect`;
`EntitledWhenActing` (`ActsWhileEntitled`): `Shown` says for each place a request
can be at what it has been shown to be entitled to, `Tracks` and `Placed` which
requests get there and with which company; `SessionsEnd` (`SessionsOnlyEnd`) from
`Windows`; `AuthorityContained` (`AuthorityNeverGrows`) from `Contained`, which
covers the grants a request has read and not used yet.

**Setting up** (`CompanyProofs`, second part). `SetupInvHolds`, of two invariants
that share no variable.

* `HistoryKept` (`HistoryIsTheRecord`). Between reading the record and the last
  commit, other runners may come and be lost; nothing but the lock keeps the plan
  true. `Held` says who has the lock at each statement, `Planned` that what its
  holder has yet to apply is of its own tree, unapplied, and newer than everything
  applied; so a commit appends in ascending order and never fails on the key.
* `CompaniesWhole` (`CompaniesAreWhole`). `InsertsInOrder`: what a seed has inserted
  and not committed is its transaction up to the statement it is at. With it a commit
  adds a whole transaction, and `StoredTogether` is kept: every row that is stored
  came with the other rows of some transaction. What remains is about the program
  and not its steps: `ProgramParts`, by `Provisioning`, `FurtherMembers` and
  `OpeningStock`, that the one transaction that names a company is the one with its
  roles, sequences, chart, posting accounts and administrator. A schema that lacks
  tables, a refused insert, a second seed and a crash all end a seed between commits.

**The edit screen** (`ScreensProofs`, first part).

* `TypeCorrect`.
* `OneSavePerVisit`, `SuccessIsTrue`: `RecordInv`, every save is on record under
  its visit's key, every success on its way or shown is of a save on record.
* `ConflictPageIsTrue`: `VersionInv` (nobody holds a version from the future),
  `LastCallInv` (a visit has at most one call the browser still waits for, and it is
  the last), `ConflictInv`: once a visit is told of a conflict its key is *dead*,
  every call under it carries a version that is behind for good.

**The form** (`ScreensProofs`, second part). `FormInvHolds`.

* `OneOrder` (`OneOrderPerForm`). `FormKept`: an order a visit made is on record
  under the visit's key *and its company*, because keys are held per company. A form
  that is submitted again after the session has moved is therefore not known by its
  key, and a second order does come of the visit when everything in the form has been
  picked again from the other company's rows; `FormOwn`, an order names rows of its
  own company only, is what makes the two share nothing. The property says exactly
  that. The second order takes more touches than the three of the run `reading`, so
  this case is covered by the theorem alone.
* `SavedIsEntered` (`SavedIsWhatWasEntered`). `FormPaired`: a press and its request
  carry what was entered; `FormRecorded`: a remembered success has an order and a row
  that came of the body it was remembered for (`CameOf`), so a replay to the same body
  tells of that; `FormQueried`: the cache holds rows the orders were at some time
  (`SameOrder`: the company and the visit of an order never change); `FormBegun`: a
  form that nobody touched says what the row it began from said. Nothing compares the
  version of the form with the version that is sent, because the page does not: the
  clause about an untouched form is for a press whose version is the one the form
  began with, and the other case is what `NoSilentOverwrite` shows.

**A document that others write** (`ScreensProofs`, third part). `ReadingInvHolds`.

* `SavedOver` (`SavedOverWhatWasShown`). The header is read before the lines, so a
  view may have the old version and new lines, never the new version and old lines:
  `ViewsWhole`, with what a read has seen so far (`Rests` says which statements it
  still has), and `DraftLines`.
* `PanelsTell` (`PanelsTellThePosting`). `Final`: a success that any tab will hear of
  is in the document and in the ledger; `PanelsTold`: a panel that was on screen then
  has been asked for since, and each answer that is complete has the entry.
* `PostedStays` (`PostedStaysShown`). `PostedKnown`: once `posted` is shown, every
  read under way has still its header to read, or has read it as posted.

**The browser at the service** (`AuthenticationProofs`, second part).
`BrowserInvHolds`.

* `FetchedSinceTheLeave` (`NothingFetchedBeforeIsShown`). `RowsFresh`: also the fetch
  a tab waits for is younger than its last leave, because clearing the cache forgets
  the fetch and not only the data; and the answer of confirm or cancel writes only into
  an order that is cached. It says nothing of the invoice that a late answer brings
  (section 6).
* `SignOutsEndSessions` (`SignedOutIsEnded`). `SidsKnown`: every session id in a
  cookie, a call or an answer is of a session that was opened, so no later sign-in
  opens it again; `SignOutsOver`: the session of an answered sign-out is over.
* `OneInvoice` (`OneInvoicePerVisit`). `InvoicesRecorded`: an invoice is on record
  under the person it was raised by and the key of the visit. The key is held per
  person, and the property says so: a screen that stays open while another tab signs
  in as a colleague sends the visit's key as the colleague's (section 6).

**Only model-checked**

* *Liveness under fairness*: `EveryRequestEnds` and `EverythingEnds`.
* *Induction over data*: `TurningThePages`; its sorting by repeated choice and its
  pages are recursive in the number of rows.
* *A statement about one table*: `SeededRolesWork` quantifies over the tables of
  `AccessSurface`, which TLC evaluates; there is no larger instance of it. It speaks of
  what is drawn for a permission: items and buttons. Links are drawn for everybody, so
  it follows those that open and does not ask that all do (section 6).

## 6. Where code and words differ

Two have a run whose counterexample is the scenario; the quotes are in
`PROJECT.json`.

* `NoSilentOverwrite`: a refetch behind an open edit form moves the version that will
  be sent and not what the form holds, so another user's edit is replaced without a
  conflict.
* `NothingOlderIsShown`: clearing the cache at a switch or a sign-out drops queries, not
  commands under way. The answer of Create invoice that comes after a switch puts the
  invoice of the company that was left on the screen of the one that was entered
  (`SalesOrderDetailPage.tsx:158-162`), although `session.tsx:122-124` says that no
  screen can show one company's rows under another's header; the answers of confirm and
  cancel write into an order fetched since.

Observed while reading and modelling, and not the subject of a run:

*Transactions.*

* An edit holds the header and wants the lines, while a confirmation holds the
  lines (through the foreign key of its reservations) and wants the header.
  `lock-order.ts:11` and `docs/ARCHITECTURE.md:1235` say the lock order makes a deadlock
  impossible; it does so without edits (`OnlyEditsDeadlock`). The retry resolves it
  (`EveryRequestEnds`).
* A confirmation takes the counter (`confirm-sales-order.ts:225`) and then the
  header (`:230`), for which it may have to wait, although
  `post-customer-invoice.ts:29-33` says that the counter is the last lock
  everywhere.
* An order cancelled between a posting's re-read and its commit is billed
  (`post-customer-invoice.ts:204-209`). The comments at 238 and 247 say that
  posting a re-read draft derives its lines at the new rate; reading derives
  nothing, only an edit does.
* The branch of `idempotency.ts:104-106` called unreachable is reached when the
  sweep removes an expired record between the declined claim and the read.
* Remainders so small that they round to nothing can never be posted.
* A login is not wrapped in `withSerializationRetry`. A login that began earlier
  and commits later may move `locked_until` back by as much as it was behind; the
  claim of `authentication.service.ts:173-174` does not hold for a lock that is set
  after the check. The "rolling window" of migration 0002 (line 28) restarts, and the
  sweep its line 48 mentions does not exist.
* A touch computed from an older read can shorten the idle window or extend one
  that has just ended; a request found valid goes on after its session is revoked.
  `administration.controller.ts:194-195` "cannot fail in practice" can, when the
  membership ends after the guard. Removing a role does not ask for the last
  administrator. `implementations.ts:930-931` says that an expired session must not
  acquire a company; the WHERE clause asks for `revoked_at` only, and so does a
  touch.
* `sales.repository.ts:195` says three statements; there are two. The page and the
  figures of a list may disagree, and a document read during a write may be torn;
  only the version check protects an edit.

*Browser, orders.*

* After one's own save the cache has the old order for 30 seconds (`App.tsx:24`),
  which is what the screen the save leads to draws; editing again is refused, and
  shown as somebody else's change. A retry after a refetch carries another version
  under the same key, has another fingerprint, and is refused as a reuse of the key
  although the first transmission was applied (`SalesOrderEditPage.tsx:58-71`). So is
  a new order that is edited after a lost answer: that form can never be submitted.
  So are a cancellation retried with another reason and an invoice retried after
  midnight.
* `refusalText.tsx` says "Nothing was changed" for answers of 500 and above, which a
  client that lost the answer to a COMMIT cannot know.
* The key of a form is held per company. After a lost answer, a form that is entered
  anew because another tab moved the session to another company makes a second order,
  there (`OneOrderPerForm` allows exactly this).
* `SalesOrderForm.tsx:143-151` says that the default warehouse "never fights an edit
  that cleared it"; the next render sets it again. Fields stay editable while a save
  is pending, and such edits are lost on success. The form takes numbers ("1e3",
  "+5") that `parseDecimal` refuses. An edit of an order that names an archived row
  shows an empty picker.
* The answer of a form or a button may arrive on another screen: it navigates away,
  writes into the cache of the order shown since, or leaves "confirmed" over a
  later "cancelled". A read begun before a confirmation and answered after it shows
  the draft again; a panel first fetched during a posting may say "No journal entry
  recorded." (`CustomerInvoiceDetailPage.tsx:90-91`).
* `InvoicesPage.tsx:102` and `BillsPage.tsx:102` offer to sort by a status that
  their services do not know. After a change of filter the Next button belongs to
  the previous answer (`useListParams.ts:56-58`). A list that fails to load says that
  nothing matches. The value of a list sums every currency and is drawn as USD.

*Browser, session.*

* A sign-in after a sign-out in the same tab is refused for want of a forgery token
  (`csrf.guard.ts:119-122`), and shown as "do not match an account". A lost answer to
  a sign-in leaves a session nobody holds, and so does signing in over another tab's.
* The key of Create invoice is held per person. A screen that is left open while
  another tab signs in as a colleague may raise a second draft of the same order
  (`OneInvoicePerVisit` is per person; that they are never both posted is
  `NeverOverInvoiced`).
* When a session ends other than by Sign out the data cache is kept
  (`session.tsx:110-113`); a second tab shows its old rows under the new header
  until they are refetched (`:121-124`). `client.ts` says a 401 is answered by the
  sign-in screen, which only `/me` does.
* `AdminPages.tsx:154` says that no single role can raise and approve a purchase
  order; administrator and manager can. `authorization/permissions.ts` says that the
  warehouse cannot see a price, but `sales:view` serves those of orders.
* *Links that lead to the notice that a screen is closed.* Nothing checks what a link
  leads to. The activity log in the header of every screen (`AppShell.tsx:251-257`) is
  closed to sales, purchasing and warehouse; the customer of an order
  (`SalesOrderDetailPage.tsx:420-424, 588-593`) to the warehouse; of the links of the
  dashboard, purchase orders and payments to sales; sales orders, customers, invoices,
  bills and payments to purchasing; customers, invoices, bills and payments to the
  warehouse. `Protected` puts the notice there and asks for nothing. The gross margin of
  the dashboard links to `/reports`, which is no screen (`dashboard.service.ts:84`).
* The links of an order to its customer and its products lead to screens of sample
  data, which do not know them; `CustomerInvoiceDetailPage.tsx:287-288` gives that as
  the reason to draw no such link.

## 7. What is not modelled

* *Configuration, health probes, start-up, build and deployment*: no decision
  depends on earlier state. *Presentation, logging, wording, formatting of numbers
  and dates, charts, reports and the figures of the dashboard*: no property is about
  them.
* *The connection pool*; *column declarations*. Keys, foreign keys, policies and
  triggers are modelled where the code relies on them.
* *SERIALIZABLE*: no code path asks for it; 40001 cannot occur.
* *Grants and master data inside OrderFulfilment and InvoicePosting*: they may
  refuse at any time (`ChecksFail`); which roles may do what is in `CompanyAccess`
  and `AccessSurface`.
* *Operations nobody calls*: archiving master data, revoking all sessions of a
  user, revoking a permission, renaming. They would be actions that cannot happen.
* *The migrator's refusal of a superuser, the reset of the demo, the demo's
  customers and audit events*, which no other row names.
* *Tokens, hashes and fingerprints* are values: two are equal exactly when they are
  of the same thing.

## 8. Plan

Done, in the order in which an error would cost most: orders and stock with the
order book; idempotency; invoices with the invoice book and their arithmetic; the
edit screen; the throttle; sessions, guards and roles; the ledger; migrations,
provisioning and the seed; the browser's session, screens, lists and forms. Proved
for every size: every safety property the runs check, except the pages of a list
and the tables of roles (section 5).

Left, most important first:

* The trial balance and the general ledger as sums over the entries of
  `InvoicePosting`, and the inventory valuation over those of `StockLedger`, when
  the API serves them; today they are fixtures of the browser.
* The administration of master data, when it has a caller.
