---------------------------- MODULE DraftEditing ----------------------------
(***************************************************************************)
(* Editing one sales order draft from several browsers: the edit screen,   *)
(* its query cache, the idempotency key of each visit to it, and the       *)
(* endpoint's version check.                                               *)
(*                                                                         *)
(* The endpoint's transaction is one step here: what overlapping           *)
(* transactions may do is in OrderFulfilment (versions) and Idempotency    *)
(* (keys).  What is left is everything around it: a cached order that is   *)
(* behind the database, a refetch that answers while a form is open, a     *)
(* request that the browser gave up on and that arrives later.             *)
(*                                                                         *)
(* What a user entered is one Text.  Permissions and the rules on lines    *)
(* are left out: they refuse whatever the version is.                      *)
(***************************************************************************)
EXTENDS Naturals

CONSTANTS
  User,
  Text,         \* what a form may be filled in with
  Visits,       \* how often each user opens the screen
  Attempts      \* how often each of them presses Save

ASSUME ConstantsAssumption == Visits \in [User -> Nat] /\ Attempts \in [User -> Nat]

VARIABLES
  order,      \* the row: version and status
  recorded,   \* idempotency_records: the fingerprint a key succeeded with
  cache,      \* the browser's query state for this order
  fetched,    \* an answer to a GET on its way to the cache
  page,       \* whether the edit screen is mounted
  visit,      \* how many times it has been: each mount makes one key
  attempt,    \* how often this mount has pressed Save
  base,       \* the version the mounted form was filled from, 0 with no form
  outcome,    \* the state of the visit's mutation
  calls,      \* PUTs on their way to the server
  listening,  \* calls whose browser still waits
  answers,    \* answers on their way back
  saves       \* history: the calls that changed the order

client == <<cache, fetched, page, visit, attempt, base, outcome>>
network == <<calls, listening, answers>>
vars == <<order, recorded, client, network, saves>>

-----------------------------------------------------------------------------
Order == [version : Nat, status : {"draft", "confirmed"}]

\* version 0 stands for nothing cached; failed is a refetch that ended in error.
Cached == [version : Nat, status : {"draft", "confirmed"}, failed : BOOLEAN]
Empty == [version |-> 0, status |-> "draft", failed |-> FALSE]
Nothing == [version |-> 0, status |-> "draft"]

Key == UNION {{u} \X (1 .. Visits[u]) : u \in User}
Fingerprint == [version : Nat, text : Text]

KeyOf(c) == <<c.user, c.visit>>
Call == {c \in [user : User, visit : Nat, attempt : Nat, version : Nat, text : Text] :
           KeyOf(c) \in Key}
FingerprintOf(c) == [version |-> c.version, text |-> c.text]

Outcome == {"none", "pending", "error", "refused", "keyReuse", "conflict"}
Answer == [call : Call, kind : {"saved", "refused", "keyReuse", "conflict"}]

\* Which of SalesOrderEditPage's returns is the form: not the error, not the
\* skeleton, not the page of an order that is no draft, not the conflict.
FormShown(u) ==
  /\ page[u] = "open"
  /\ cache[u].version # 0 /\ ~cache[u].failed
  /\ cache[u].status = "draft"
  /\ outcome[u] # "conflict"

TypeOK ==
  /\ order \in Order
  /\ recorded \in [Key -> SUBSET Fingerprint]
  /\ cache \in [User -> Cached]
  /\ fetched \in [User -> Order \cup {Nothing}]
  /\ page \in [User -> {"away", "open"}]
  /\ visit \in [User -> Nat] /\ \A u \in User : visit[u] <= Visits[u]
  /\ attempt \in [User -> Nat] /\ \A u \in User : attempt[u] <= Attempts[u]
  /\ base \in [User -> Nat]
  /\ outcome \in [User -> Outcome]
  /\ calls \subseteq Call /\ listening \subseteq Call
  /\ answers \subseteq Answer
  /\ saves \subseteq Call
  /\ \A u \in User : base[u] # 0 <=> FormShown(u)

Init ==
  /\ order = [version |-> 1, status |-> "draft"]
  /\ recorded = [k \in Key |-> {}]
  /\ cache = [u \in User |-> Empty]
  /\ fetched = [u \in User |-> Nothing]
  /\ page = [u \in User |-> "away"]
  /\ visit = [u \in User |-> 0]
  /\ attempt = [u \in User |-> 0]
  /\ base = [u \in User |-> 0]
  /\ outcome = [u \in User |-> "none"]
  /\ calls = {} /\ listening = {} /\ answers = {}
  /\ saves = {}

-----------------------------------------------------------------------------
(* Rendering *)

\* A form that appears is filled from the cached order, and useState keeps what
\* it was filled with for as long as it stays mounted.
Render(u) ==
  base' = [base EXCEPT ![u] = IF ~FormShown(u)' THEN 0
                              ELSE IF @ # 0 THEN @ ELSE cache'[u].version]

-----------------------------------------------------------------------------
(* The query *)

\* GET, as the server answers it.
FetchReads(u) ==
  /\ fetched[u] = Nothing
  /\ fetched' = [fetched EXCEPT ![u] = order]
  /\ UNCHANGED <<order, recorded, cache, page, visit, attempt, base, outcome, network,
                 saves>>

\* The answer fills the cache, mounted or not.
FetchDelivered(u) ==
  /\ fetched[u] # Nothing
  /\ cache' = [cache EXCEPT ![u] = [version |-> fetched[u].version,
                                    status |-> fetched[u].status, failed |-> FALSE]]
  /\ fetched' = [fetched EXCEPT ![u] = Nothing]
  /\ UNCHANGED <<page, visit, attempt, outcome>>
  /\ Render(u)
  /\ UNCHANGED <<order, recorded, network, saves>>

\* A GET and its one retry fail: the data stays and the query is in error.
FetchFails(u) ==
  /\ cache[u].version # 0 /\ ~cache[u].failed
  /\ cache' = [cache EXCEPT ![u].failed = TRUE]
  /\ fetched' = [fetched EXCEPT ![u] = Nothing]
  /\ UNCHANGED <<page, visit, attempt, outcome>>
  /\ Render(u)
  /\ UNCHANGED <<order, recorded, network, saves>>

\* An unused query is collected.
CacheExpires(u) ==
  /\ page[u] = "away" /\ fetched[u] = Nothing /\ cache[u] # Empty
  /\ cache' = [cache EXCEPT ![u] = Empty]
  /\ UNCHANGED <<order, recorded, fetched, page, visit, attempt, base, outcome, network,
                 saves>>

-----------------------------------------------------------------------------
(* The screen *)

\* Mounting makes a key.
Open(u) ==
  /\ page[u] = "away" /\ visit[u] < Visits[u]
  /\ page' = [page EXCEPT ![u] = "open"]
  /\ visit' = [visit EXCEPT ![u] = @ + 1]
  /\ attempt' = [attempt EXCEPT ![u] = 0]
  /\ outcome' = [outcome EXCEPT ![u] = "none"]
  /\ UNCHANGED <<cache, fetched>>
  /\ Render(u)
  /\ UNCHANGED <<order, recorded, network, saves>>

\* Cancel, or any link of the application.
Leave(u) ==
  /\ page[u] = "open"
  /\ page' = [page EXCEPT ![u] = "away"]
  /\ UNCHANGED <<cache, fetched, visit, attempt, outcome>>
  /\ Render(u)
  /\ UNCHANGED <<order, recorded, network, saves>>

\* Save.  The version sent is the query's, not the form's.
Submit(u, text) ==
  /\ base[u] # 0 /\ outcome[u] # "pending" /\ attempt[u] < Attempts[u]
  /\ attempt' = [attempt EXCEPT ![u] = @ + 1]
  /\ outcome' = [outcome EXCEPT ![u] = "pending"]
  /\ LET c == [user |-> u, visit |-> visit[u], attempt |-> attempt[u] + 1,
               version |-> cache[u].version, text |-> text]
     IN  calls' = calls \cup {c} /\ listening' = listening \cup {c}
  /\ UNCHANGED <<order, recorded, cache, fetched, page, visit, base, answers, saves>>

\* Only the call of the mounted screen has its outcome shown.
Shown(c, result) ==
  IF page[c.user] = "open" /\ visit[c.user] = c.visit
  THEN outcome' = [outcome EXCEPT ![c.user] = result]
  ELSE UNCHANGED outcome

\* The connection fails or times out, before or after the server has acted.
GiveUp(c) ==
  /\ c \in listening
  /\ listening' = listening \ {c}
  /\ answers' = {a \in answers : a.call # c}
  /\ Shown(c, "error")
  /\ UNCHANGED <<cache, fetched, page, visit, attempt>>
  /\ Render(c.user)
  /\ UNCHANGED <<order, recorded, calls, saves>>

\* onSuccess goes to the saved order from wherever the user is by then, and
\* leaves the cache as it is.
DeliverSaved(a) ==
  /\ a \in answers /\ a.kind = "saved"
  /\ answers' = answers \ {a} /\ listening' = listening \ {a.call}
  /\ page' = [page EXCEPT ![a.call.user] = "away"]
  /\ UNCHANGED <<cache, fetched, visit, attempt, outcome>>
  /\ Render(a.call.user)
  /\ UNCHANGED <<order, recorded, calls, saves>>

\* A 409 that carries the order replaces the form; any other refusal is shown
\* above it.
DeliverRefusal(a) ==
  /\ a \in answers /\ a.kind # "saved"
  /\ answers' = answers \ {a} /\ listening' = listening \ {a.call}
  /\ Shown(a.call, a.kind)
  /\ UNCHANGED <<cache, fetched, page, visit, attempt>>
  /\ Render(a.call.user)
  /\ UNCHANGED <<order, recorded, calls, saves>>

-----------------------------------------------------------------------------
(* The endpoint *)

\* updateDraft's WHERE clause.
Current(c) == order.status = "draft" /\ c.version = order.version

\* Wrong: any earlier success is replayed.
ReplayAnything(c) == IF recorded[KeyOf(c)] # {} THEN {"saved"} ELSE {}

\* Wrong: no key is remembered.
NoKeys(c) == {}

\* What runIdempotently answers without running the operation.
Remembered(c) ==
  IF recorded[KeyOf(c)] = {} THEN {}
  ELSE {IF FingerprintOf(c) \in recorded[KeyOf(c)] THEN "saved" ELSE "keyReuse"}

\* updateDraftIn: an order it reads as confirmed is not a draft, one that was
\* confirmed or edited after that read is a conflict.
Refusals == IF order.status = "draft" THEN {"conflict"} ELSE {"refused", "conflict"}

Reply(c, kind) ==
  /\ calls' = calls \ {c}
  /\ answers' = answers \cup
                  {a \in {[call |-> c, kind |-> kind]} : c \in listening}
  /\ UNCHANGED <<client, listening>>

\* PUT /sales-orders/:id changes the draft and remembers its answer.
Save(c) ==
  /\ c \in calls /\ Remembered(c) = {} /\ Current(c)
  /\ order' = [order EXCEPT !.version = @ + 1]
  /\ recorded' = [recorded EXCEPT ![KeyOf(c)] = {FingerprintOf(c)}]
  /\ saves' = saves \cup {c}
  /\ Reply(c, "saved")

\* It answers from what it remembers.
Recall(c) ==
  /\ c \in calls
  /\ \E kind \in Remembered(c) : Reply(c, kind)
  /\ UNCHANGED <<order, recorded, saves>>

\* It refuses, and its claim on the key rolls back with the rest.
RefuseSave(c) ==
  /\ c \in calls /\ Remembered(c) = {} /\ ~Current(c)
  /\ \E kind \in Refusals : Reply(c, kind)
  /\ UNCHANGED <<order, recorded, saves>>

\* Somebody confirms the order.
Confirm ==
  /\ order.status = "draft"
  /\ order' = [version |-> order.version + 1, status |-> "confirmed"]
  /\ UNCHANGED <<recorded, client, network, saves>>

-----------------------------------------------------------------------------

Next ==
  \/ \E u \in User :
       \/ FetchReads(u) \/ FetchDelivered(u) \/ FetchFails(u) \/ CacheExpires(u)
       \/ Open(u) \/ Leave(u)
       \/ \E text \in Text : Submit(u, text)
  \/ \E c \in calls : Save(c) \/ Recall(c) \/ RefuseSave(c)
  \/ \E c \in listening : GiveUp(c)
  \/ \E a \in answers : DeliverSaved(a) \/ DeliverRefusal(a)
  \/ Confirm

Spec == Init /\ [][Next]_vars

-----------------------------------------------------------------------------
(* Properties *)

\* One visit to the screen changes the order at most once, however often Save
\* is pressed, answers are lost and the version that is sent moves in between.
SavedOncePerVisit ==
  \A c, d \in saves : KeyOf(c) = KeyOf(d) => c = d

\* A user who is told that the order was saved had exactly that text applied to
\* the version that was sent, by this visit, even when the answer is a replay.
ToldSavedWasSaved ==
  \A a \in answers : a.kind = "saved" =>
    \E c \in saves : KeyOf(c) = KeyOf(a.call) /\ FingerprintOf(c) = FingerprintOf(a.call)

\* "Nothing you entered has been applied", on the conflict page, is true, and
\* no call of the visit that is still under way makes it false.
ConflictAppliedNothing ==
  \A u \in User :
    page[u] = "open" /\ outcome[u] = "conflict"
      => \A c \in saves : KeyOf(c) # <<u, visit[u]>>

\* sales.repository.ts:294-296: two people editing one draft cannot overwrite
\* each other silently.  No save replaces a version later than the one its form,
\* still mounted, was filled from.
NoSilentOverwrite ==
  [][\A c \in saves' \ saves :
       base[c.user] # 0 /\ visit[c.user] = c.visit => c.version <= base[c.user]]_vars
=============================================================================
