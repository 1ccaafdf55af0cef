---------------------------- MODULE ScreensProofs ----------------------------
(***************************************************************************)
(* What the screens of the web application guarantee: an edit of an order  *)
(* (DraftEditing) for any number of users, texts, visits and attempts; the *)
(* form an order is entered in (OrderForm) for any master data, touches,   *)
(* companies and messages lost; a document that is read while others write *)
(* it (DocumentReading) for any number of edits, rounds of reads, presses  *)
(* and messages lost.                                                      *)
(*                                                                         *)
(* The three share no state: each has its types, its invariant, one lemma  *)
(* for each of its steps, and then what follows.                           *)
(***************************************************************************)
EXTENDS DraftEditing, OrderForm, DocumentReading, SequenceTheorems, TLAPS

-----------------------------------------------------------------------------
(* An edit of an order: types *)

\* A screen that is open has made its key.
Mounted == \A u \in User : page[u] = "open" => visit[u] # 0

TypeInv == TypeOK /\ Mounted

LEMMA KeyType ==
  ASSUME NEW u \in User, NEW n \in 1 .. Visits[u]
  PROVE  <<u, n>> \in Key
BY DEF Key

LEMMA CallType ==
  ASSUME NEW c \in Call
  PROVE  /\ c.user \in User /\ c.visit \in Nat /\ c.attempt \in Nat
         /\ c.version \in Nat /\ c.text \in Text
         /\ KeyOf(c) \in Key /\ KeyOf(c) = <<c.user, c.visit>>
         /\ FingerprintOf(c) \in Fingerprint
BY DEF Call, KeyOf, FingerprintOf, Fingerprint

LEMMA TypeInit == Init => TypeInv
BY ConstantsAssumption
   DEF Init, TypeInv, TypeOK, Mounted, Order, Cached, Empty, Nothing, Outcome, FormShown

LEMMA SubmitType ==
  ASSUME TypeInv, NEW u \in User, NEW text \in Text, Submit(u, text)
  PROVE  [user |-> u, visit |-> visit[u], attempt |-> attempt[u] + 1,
          version |-> cache[u].version, text |-> text] \in Call
<1> DEFINE c == [user |-> u, visit |-> visit[u], attempt |-> attempt[u] + 1,
                 version |-> cache[u].version, text |-> text]
<1>1. page[u] = "open"
  BY DEF Submit, TypeInv, TypeOK, FormShown
<1>2. visit[u] \in 1 .. Visits[u]
  BY <1>1, ConstantsAssumption DEF TypeInv, TypeOK, Mounted
<1>3. KeyOf(c) \in Key
  BY <1>2, KeyType DEF KeyOf
<1>4. c \in [user : User, visit : Nat, attempt : Nat, version : Nat, text : Text]
  BY DEF TypeInv, TypeOK, Cached
<1> QED BY <1>3, <1>4 DEF Call

\* A counter stays within its bounds.
LEMMA StaysBounded ==
  ASSUME NEW bound \in [User -> Nat],
         NEW f \in [User -> Nat], \A v \in User : f[v] <= bound[v],
         NEW u \in User, NEW n \in Nat, n <= bound[u]
  PROVE  /\ [f EXCEPT ![u] = n] \in [User -> Nat]
         /\ \A v \in User : [f EXCEPT ![u] = n][v] <= bound[v]
OBVIOUS

\* Render decides base so that there is one exactly while a form is shown.
LEMMA RenderType ==
  ASSUME TypeInv, NEW u \in User, Render(u), cache' \in [User -> Cached],
         \A v \in User \ {u} : FormShown(v)' = FormShown(v)
  PROVE  /\ base' \in [User -> Nat]
         /\ \A v \in User : base'[v] # 0 <=> FormShown(v)'
<1>1. cache'[u].version \in Nat
  BY DEF Cached
<1>2. FormShown(u)' => cache'[u].version # 0
  BY DEF FormShown
<1>3. base \in [User -> Nat] /\ \A v \in User : base[v] # 0 <=> FormShown(v)
  BY DEF TypeInv, TypeOK
<1> QED BY <1>1, <1>2, <1>3 DEF Render

LEMMA TypeStep == TypeInv /\ [Next]_vars => TypeInv'
<1> SUFFICES ASSUME TypeInv, [Next]_vars PROVE TypeInv'
  OBVIOUS
<1>1. ASSUME NEW u \in User, FetchReads(u) PROVE TypeInv'
  BY <1>1 DEF FetchReads, TypeInv, TypeOK, Mounted, network, FormShown
<1>2. ASSUME NEW u \in User, FetchDelivered(u) PROVE TypeInv'
  <2>1. cache' \in [User -> Cached]
    BY <1>2 DEF FetchDelivered, TypeInv, TypeOK, Cached, Order
  <2>2. \A v \in User \ {u} : FormShown(v)' = FormShown(v)
    BY <1>2 DEF FetchDelivered, TypeInv, TypeOK, FormShown
  <2>3. /\ base' \in [User -> Nat]
        /\ \A v \in User : base'[v] # 0 <=> FormShown(v)'
    BY <1>2, <2>1, <2>2, RenderType DEF FetchDelivered
  <2> QED BY <1>2, <2>1, <2>3 DEF FetchDelivered, TypeInv, TypeOK, Mounted, network
<1>3. ASSUME NEW u \in User, FetchFails(u) PROVE TypeInv'
  <2>1. cache' \in [User -> Cached]
    BY <1>3 DEF FetchFails, TypeInv, TypeOK, Cached
  <2>2. \A v \in User \ {u} : FormShown(v)' = FormShown(v)
    BY <1>3 DEF FetchFails, TypeInv, TypeOK, FormShown
  <2>3. /\ base' \in [User -> Nat]
        /\ \A v \in User : base'[v] # 0 <=> FormShown(v)'
    BY <1>3, <2>1, <2>2, RenderType DEF FetchFails
  <2> QED BY <1>3, <2>1, <2>3 DEF FetchFails, TypeInv, TypeOK, Mounted, network
<1>4. ASSUME NEW u \in User, CacheExpires(u) PROVE TypeInv'
  <2>1. cache' \in [User -> Cached]
    BY <1>4 DEF CacheExpires, TypeInv, TypeOK, Cached, Empty
  <2>2. \A v \in User : FormShown(v)' = FormShown(v)
    BY <1>4 DEF CacheExpires, TypeInv, TypeOK, FormShown
  <2> QED BY <1>4, <2>1, <2>2 DEF CacheExpires, TypeInv, TypeOK, Mounted, network
<1>5. ASSUME NEW u \in User, Open(u) PROVE TypeInv'
  <2>1. \A v \in User \ {u} : FormShown(v)' = FormShown(v)
    BY <1>5 DEF Open, TypeInv, TypeOK, FormShown
  <2>2. /\ base' \in [User -> Nat]
        /\ \A v \in User : base'[v] # 0 <=> FormShown(v)'
    BY <1>5, <2>1, RenderType DEF Open, TypeInv, TypeOK
  <2>3. visit' \in [User -> Nat] /\ \A v \in User : visit'[v] <= Visits[v]
    <3>1. visit \in [User -> Nat] /\ \A v \in User : visit[v] <= Visits[v]
      BY DEF TypeInv, TypeOK
    <3>2. visit[u] < Visits[u] /\ visit' = [visit EXCEPT ![u] = visit[u] + 1]
      BY <1>5 DEF Open
    <3>3. visit[u] + 1 \in Nat /\ Visits \in [User -> Nat] /\ Visits[u] \in Nat
      BY <3>1, ConstantsAssumption
    <3>4. visit[u] + 1 <= Visits[u]
      BY <3>1, <3>2, <3>3
    <3> QED BY <3>1, <3>2, <3>3, <3>4, StaysBounded
  <2>4. attempt' \in [User -> Nat] /\ \A v \in User : attempt'[v] <= Attempts[v]
    <3>1. attempt \in [User -> Nat] /\ \A v \in User : attempt[v] <= Attempts[v]
      BY DEF TypeInv, TypeOK
    <3>2. attempt' = [attempt EXCEPT ![u] = 0]
      BY <1>5 DEF Open
    <3>3. Attempts \in [User -> Nat] /\ 0 <= Attempts[u]
      BY ConstantsAssumption
    <3> QED BY <3>1, <3>2, <3>3, StaysBounded
  <2>5. Mounted'
    BY <1>5 DEF Open, TypeInv, TypeOK, Mounted
  <2> QED BY <1>5, <2>2, <2>3, <2>4, <2>5 DEF Open, TypeInv, TypeOK, network, Outcome
<1>6. ASSUME NEW u \in User, Leave(u) PROVE TypeInv'
  <2>1. \A v \in User \ {u} : FormShown(v)' = FormShown(v)
    BY <1>6 DEF Leave, TypeInv, TypeOK, FormShown
  <2>2. /\ base' \in [User -> Nat]
        /\ \A v \in User : base'[v] # 0 <=> FormShown(v)'
    BY <1>6, <2>1, RenderType DEF Leave, TypeInv, TypeOK
  <2> QED BY <1>6, <2>2 DEF Leave, TypeInv, TypeOK, Mounted, network
<1>7. ASSUME NEW u \in User, NEW text \in Text, Submit(u, text) PROVE TypeInv'
  <2>1. calls' \subseteq Call /\ listening' \subseteq Call
    BY <1>7, SubmitType DEF Submit, TypeInv, TypeOK
  <2>2. \A v \in User : FormShown(v)' = FormShown(v)
    BY <1>7 DEF Submit, TypeInv, TypeOK, FormShown
  <2>3. attempt' \in [User -> Nat] /\ \A v \in User : attempt'[v] <= Attempts[v]
    <3>1. attempt \in [User -> Nat] /\ \A v \in User : attempt[v] <= Attempts[v]
      BY DEF TypeInv, TypeOK
    <3>2. attempt[u] < Attempts[u] /\ attempt' = [attempt EXCEPT ![u] = attempt[u] + 1]
      BY <1>7 DEF Submit
    <3>3. attempt[u] + 1 \in Nat /\ Attempts \in [User -> Nat] /\ Attempts[u] \in Nat
      BY <3>1, ConstantsAssumption
    <3>4. attempt[u] + 1 <= Attempts[u]
      BY <3>1, <3>2, <3>3
    <3> QED BY <3>1, <3>2, <3>3, <3>4, StaysBounded
  <2> QED BY <1>7, <2>1, <2>2, <2>3 DEF Submit, TypeInv, TypeOK, Mounted, Outcome
<1>8. ASSUME NEW c \in calls, Save(c) PROVE TypeInv'
  <2>1. c \in Call
    BY DEF TypeInv, TypeOK
  <2>2. order' \in Order
    BY <1>8 DEF Save, TypeInv, TypeOK, Order
  <2>3. recorded' \in [Key -> SUBSET Fingerprint]
    BY <1>8, <2>1, CallType DEF Save, TypeInv, TypeOK
  <2>4. answers' \subseteq Answer
    BY <1>8, <2>1 DEF Save, Reply, TypeInv, TypeOK, Answer
  <2> QED BY <1>8, <2>1, <2>2, <2>3, <2>4
          DEF Save, Reply, TypeInv, TypeOK, Mounted, client, FormShown
<1>9. ASSUME NEW c \in calls, Recall(c) \/ RefuseSave(c) PROVE TypeInv'
  <2>1. c \in Call
    BY DEF TypeInv, TypeOK
  <2>2. PICK how \in {"saved", "refused", "keyReuse", "conflict"} : Reply(c, how)
    BY <1>9 DEF Recall, Remembered, RefuseSave, Refusals
  <2>3. answers' \subseteq Answer
    BY <2>1, <2>2 DEF Reply, TypeInv, TypeOK, Answer
  <2>4. UNCHANGED <<order, recorded, saves>>
    BY <1>9 DEF Recall, RefuseSave
  <2> QED BY <2>2, <2>3, <2>4 DEF Reply, TypeInv, TypeOK, Mounted, client, FormShown
<1>10. ASSUME NEW c \in listening, GiveUp(c) PROVE TypeInv'
  <2>1. c.user \in User
    BY CallType DEF TypeInv, TypeOK
  <2>2. outcome' \in [User -> Outcome]
    BY <1>10 DEF GiveUp, Shown, TypeInv, TypeOK, Outcome
  <2>3. \A v \in User \ {c.user} : FormShown(v)' = FormShown(v)
    BY <1>10 DEF GiveUp, Shown, TypeInv, TypeOK, FormShown
  <2>4. /\ base' \in [User -> Nat]
        /\ \A v \in User : base'[v] # 0 <=> FormShown(v)'
    BY <1>10, <2>1, <2>3, RenderType DEF GiveUp, TypeInv, TypeOK
  <2> QED BY <1>10, <2>2, <2>4 DEF GiveUp, TypeInv, TypeOK, Mounted
<1>11. ASSUME NEW a \in answers, DeliverSaved(a) PROVE TypeInv'
  <2>1. a.call.user \in User
    BY CallType DEF TypeInv, TypeOK, Answer
  <2>2. \A v \in User \ {a.call.user} : FormShown(v)' = FormShown(v)
    BY <1>11 DEF DeliverSaved, TypeInv, TypeOK, FormShown
  <2>3. /\ base' \in [User -> Nat]
        /\ \A v \in User : base'[v] # 0 <=> FormShown(v)'
    BY <1>11, <2>1, <2>2, RenderType DEF DeliverSaved, TypeInv, TypeOK
  <2> QED BY <1>11, <2>3 DEF DeliverSaved, TypeInv, TypeOK, Mounted
<1>12. ASSUME NEW a \in answers, DeliverRefusal(a) PROVE TypeInv'
  <2>1. a.call.user \in User
    BY CallType DEF TypeInv, TypeOK, Answer
  <2>2. outcome' \in [User -> Outcome]
    BY <1>12 DEF DeliverRefusal, Shown, TypeInv, TypeOK, Outcome, Answer
  <2>3. \A v \in User \ {a.call.user} : FormShown(v)' = FormShown(v)
    BY <1>12 DEF DeliverRefusal, Shown, TypeInv, TypeOK, FormShown
  <2>4. /\ base' \in [User -> Nat]
        /\ \A v \in User : base'[v] # 0 <=> FormShown(v)'
    BY <1>12, <2>1, <2>3, RenderType DEF DeliverRefusal, TypeInv, TypeOK
  <2> QED BY <1>12, <2>2, <2>4 DEF DeliverRefusal, TypeInv, TypeOK, Mounted
<1>13. CASE Confirm
  BY <1>13 DEF Confirm, TypeInv, TypeOK, Mounted, Order, client, network, FormShown
<1>14. CASE UNCHANGED vars
  BY <1>14 DEF vars, client, network, TypeInv, TypeOK, Mounted, FormShown
<1> QED
  BY <1>1, <1>2, <1>3, <1>4, <1>5, <1>6, <1>7, <1>8, <1>9, <1>10, <1>11, <1>12,
     <1>13, <1>14 DEF Next

\* Every variable keeps its type, whatever is sent, lost and refetched; in
\* particular there is a version a form was filled from exactly while a form is
\* shown.
THEOREM TypeCorrect == Spec => []TypeOK
<1>1. Init => TypeInv
  BY TypeInit
<1>2. TypeInv /\ [Next]_vars => TypeInv'
  BY TypeStep
<1>3. TypeInv => TypeOK
  BY DEF TypeInv
<1> QED BY <1>1, <1>2, <1>3, PTL DEF Spec

-----------------------------------------------------------------------------
(* What the server remembers *)

\* A key is remembered exactly when a call under it changed the order, with that
\* call's fingerprint.
RecordInv ==
  /\ \A k \in Key : recorded[k] # {} => \E c \in saves : KeyOf(c) = k
  /\ \A c \in saves : recorded[KeyOf(c)] = {FingerprintOf(c)}
  /\ SavedOncePerVisit
  /\ ToldSavedWasSaved

LEMMA RecordInit == Init => RecordInv
BY CallType DEF Init, RecordInv, SavedOncePerVisit, ToldSavedWasSaved

\* What the browser does adds no answer.
LEMMA RecordKept ==
  ASSUME RecordInv, answers' \subseteq answers, UNCHANGED <<recorded, saves>>
  PROVE  RecordInv'
BY DEF RecordInv, SavedOncePerVisit, ToldSavedWasSaved

LEMMA RecordStep == TypeInv /\ RecordInv /\ [Next]_vars => RecordInv'
<1> SUFFICES ASSUME TypeInv, RecordInv, [Next]_vars PROVE RecordInv'
  OBVIOUS
<1>1. ASSUME NEW c \in calls, Save(c) PROVE RecordInv'
  <2>1. c \in Call /\ saves \subseteq Call /\ recorded \in [Key -> SUBSET Fingerprint]
    BY DEF TypeInv, TypeOK
  <2>2. KeyOf(c) \in Key /\ recorded[KeyOf(c)] = {}
    BY <1>1, <2>1, CallType DEF Save, Remembered
  <2>3. /\ recorded' = [recorded EXCEPT ![KeyOf(c)] = {FingerprintOf(c)}]
        /\ saves' = saves \cup {c}
        /\ \A a \in answers' : a \in answers \/ a.call = c
    BY <1>1 DEF Save, Reply
  <2>4. \A d \in saves : KeyOf(d) # KeyOf(c) /\ KeyOf(d) \in Key
    BY <2>1, <2>2, CallType DEF RecordInv
  <2>5. \A k \in Key : recorded'[k] # {} => \E d \in saves' : KeyOf(d) = k
    BY <2>1, <2>2, <2>3 DEF RecordInv
  <2>6. \A d \in saves' : recorded'[KeyOf(d)] = {FingerprintOf(d)}
    BY <2>1, <2>2, <2>3, <2>4 DEF RecordInv
  <2>7. SavedOncePerVisit'
    BY <2>3, <2>4 DEF RecordInv, SavedOncePerVisit
  <2>8. ToldSavedWasSaved'
    BY <2>3 DEF RecordInv, ToldSavedWasSaved
  <2> QED BY <2>5, <2>6, <2>7, <2>8 DEF RecordInv
<1>2. ASSUME NEW c \in calls, Recall(c) PROVE RecordInv'
  <2>1. PICK how \in Remembered(c) : Reply(c, how)
    BY <1>2 DEF Recall
  <2>2. KeyOf(c) \in Key
    BY CallType DEF TypeInv, TypeOK
  <2>3. PICK d \in saves : KeyOf(d) = KeyOf(c)
    BY <2>1, <2>2 DEF Remembered, RecordInv
  <2>4. how = "saved" => FingerprintOf(d) = FingerprintOf(c)
    BY <2>1, <2>3 DEF Remembered, RecordInv
  <2>5. \A a \in answers' : a \in answers \/ a = [call |-> c, kind |-> how]
    BY <2>1 DEF Reply
  <2>6. ToldSavedWasSaved'
    BY <1>2, <2>3, <2>4, <2>5 DEF Recall, RecordInv, ToldSavedWasSaved
  <2> QED BY <1>2, <2>6 DEF Recall, RecordInv, SavedOncePerVisit
<1>3. ASSUME NEW c \in calls, RefuseSave(c) PROVE RecordInv'
  <2>1. \A a \in answers' : a \in answers \/ a.kind # "saved"
    BY <1>3 DEF RefuseSave, Refusals, Reply
  <2> QED BY <1>3, <2>1 DEF RefuseSave, RecordInv, SavedOncePerVisit, ToldSavedWasSaved
<1>4. CASE \E u \in User : \/ FetchReads(u) \/ FetchDelivered(u) \/ FetchFails(u)
                           \/ CacheExpires(u) \/ Open(u) \/ Leave(u)
                           \/ \E text \in Text : Submit(u, text)
  <2>1. answers' = answers /\ UNCHANGED <<recorded, saves>>
    BY <1>4 DEF FetchReads, FetchDelivered, FetchFails, CacheExpires, Open, Leave,
       Submit, network
  <2> QED BY <2>1, RecordKept
<1>5. CASE \/ \E c \in listening : GiveUp(c)
           \/ \E a \in answers : DeliverSaved(a) \/ DeliverRefusal(a)
  <2>1. answers' \subseteq answers /\ UNCHANGED <<recorded, saves>>
    BY <1>5 DEF GiveUp, DeliverSaved, DeliverRefusal
  <2> QED BY <2>1, RecordKept
<1>6. CASE Confirm \/ UNCHANGED vars
  BY <1>6, RecordKept DEF Confirm, network, vars
<1> QED BY <1>1, <1>2, <1>3, <1>4, <1>5, <1>6 DEF Next

LEMMA RecordCorrect == Spec => [](TypeInv /\ RecordInv)
<1>1. Init => TypeInv /\ RecordInv
  BY TypeInit, RecordInit
<1>2. TypeInv /\ RecordInv /\ [Next]_vars => (TypeInv /\ RecordInv)'
  BY TypeStep, RecordStep
<1> QED BY <1>1, <1>2, PTL DEF Spec

\* One visit to the edit screen changes the order at most once, however many
\* times Save is pressed and whatever is lost or arrives late.
THEOREM OneSavePerVisit == Spec => []SavedOncePerVisit
<1>1. RecordInv => SavedOncePerVisit
  BY DEF RecordInv
<1> QED BY <1>1, RecordCorrect, PTL

\* Whoever is told that the order was saved had what they sent applied.
THEOREM SuccessIsTrue == Spec => []ToldSavedWasSaved
<1>1. RecordInv => ToldSavedWasSaved
  BY DEF RecordInv
<1> QED BY <1>1, RecordCorrect, PTL

-----------------------------------------------------------------------------
(* What the conflict page says *)

\* A call of the visit that is open.
OfOpenVisit(c) == page[c.user] = "open" /\ visit[c.user] = c.visit

\* No browser is ahead of the database, and its cache never goes back while a
\* screen is open; no call is ahead of the cache it was made from.
VersionInv ==
  /\ \A u \in User :
       /\ cache[u].version <= order.version
       /\ fetched[u] # Nothing => /\ cache[u].version <= fetched[u].version
                                  /\ fetched[u].version <= order.version
  /\ \A c \in calls \cup listening :
       /\ c.version <= order.version
       /\ c.visit <= visit[c.user]
       /\ OfOpenVisit(c) => c.version <= cache[c.user].version
  /\ \A c \in saves : c.visit <= visit[c.user]

\* A call is answered once, and the open visit waits for one call at most, its
\* last.
LastCallInv ==
  /\ \A a \in answers : a.call \in listening /\ a.call \notin calls
  /\ \A a, b \in answers : a.call = b.call => a = b
  /\ \A c \in listening : OfOpenVisit(c) =>
       /\ outcome[c.user] = "pending"
       /\ \A d \in calls \cup listening : KeyOf(d) = KeyOf(c) => d.version <= c.version
       /\ \A d \in listening : KeyOf(d) = KeyOf(c) => d = c

\* Nothing was saved under a key, and nothing that is under way can be.
Dead(k) ==
  /\ \A c \in saves : KeyOf(c) # k
  /\ \A c \in calls : KeyOf(c) = k =>
       order.status # "draft" \/ c.version < order.version

\* A visit that is told of a conflict, or is about to be, is dead.
ConflictInv ==
  /\ \A a \in answers : a.kind = "conflict" /\ OfOpenVisit(a.call) => Dead(KeyOf(a.call))
  /\ \A u \in User : page[u] = "open" /\ outcome[u] = "conflict" => Dead(<<u, visit[u]>>)

ConflictPageInv == VersionInv /\ LastCallInv /\ ConflictInv

LEMMA ConflictPageInit == Init => ConflictPageInv
BY DEF Init, ConflictPageInv, VersionInv, LastCallInv, ConflictInv, Empty, Nothing

LEMMA InCall ==
  ASSUME TypeInv
  PROVE  /\ \A c \in calls \cup listening \cup saves :
              /\ c.user \in User /\ c.visit \in Nat /\ c.version \in Nat
              /\ KeyOf(c) = <<c.user, c.visit>>
         /\ \A a \in answers : a.call \in Call
         /\ \A u \in User : cache[u].version \in Nat /\ fetched[u].version \in Nat
                            /\ visit[u] \in Nat
         /\ order.version \in Nat
BY CallType DEF TypeInv, TypeOK, Answer, Cached, Order, Nothing

\* The order only moves forward, and not at all once it is no draft.
LEMMA OrderMoves ==
  ASSUME TypeInv, [Next]_vars
  PROVE  /\ order'.version \in Nat /\ order.version <= order'.version
         /\ order.status # "draft" => order' = order
BY InCall DEF Next, vars, FetchReads, FetchDelivered, FetchFails, CacheExpires, Open,
   Leave, Submit, GiveUp, DeliverSaved, DeliverRefusal, Save, Current, Recall,
   RefuseSave, Confirm, TypeInv, TypeOK, Order

LEMMA VersionStep == TypeInv /\ VersionInv /\ [Next]_vars => VersionInv'
<1> SUFFICES ASSUME TypeInv, VersionInv, [Next]_vars PROVE VersionInv'
  OBVIOUS
<1>0. order'.version \in Nat /\ order.version <= order'.version
  BY OrderMoves
<1>1. ASSUME NEW u \in User, FetchReads(u) PROVE VersionInv'
  BY <1>1, InCall DEF FetchReads, VersionInv, OfOpenVisit, network, TypeInv, TypeOK
<1>2. ASSUME NEW u \in User, FetchDelivered(u) PROVE VersionInv'
  BY <1>2, InCall DEF FetchDelivered, VersionInv, OfOpenVisit, network, TypeInv, TypeOK
<1>3. ASSUME NEW u \in User, FetchFails(u) PROVE VersionInv'
  BY <1>3, InCall DEF FetchFails, VersionInv, OfOpenVisit, network, TypeInv, TypeOK
<1>4. ASSUME NEW u \in User, CacheExpires(u) PROVE VersionInv'
  BY <1>4, InCall DEF CacheExpires, Empty, VersionInv, OfOpenVisit, network, TypeInv, TypeOK
<1>5. ASSUME NEW u \in User, Open(u) PROVE VersionInv'
  BY <1>5, InCall DEF Open, VersionInv, OfOpenVisit, network, TypeInv, TypeOK
<1>6. ASSUME NEW u \in User, Leave(u) PROVE VersionInv'
  BY <1>6, InCall DEF Leave, VersionInv, OfOpenVisit, network, TypeInv, TypeOK
<1>7. ASSUME NEW u \in User, NEW text \in Text, Submit(u, text) PROVE VersionInv'
  BY <1>7, InCall DEF Submit, VersionInv, OfOpenVisit
<1>8. ASSUME NEW c \in calls, Save(c) PROVE VersionInv'
  BY <1>8, <1>0, InCall DEF Save, Reply, client, VersionInv, OfOpenVisit
<1>9. ASSUME NEW c \in calls, Recall(c) \/ RefuseSave(c) PROVE VersionInv'
  BY <1>9, InCall DEF Recall, RefuseSave, Reply, client, VersionInv, OfOpenVisit
<1>10. ASSUME NEW c \in listening, GiveUp(c) PROVE VersionInv'
  BY <1>10, InCall DEF GiveUp, VersionInv, OfOpenVisit
<1>11. ASSUME NEW a \in answers, DeliverSaved(a) PROVE VersionInv'
  BY <1>11, InCall DEF DeliverSaved, VersionInv, OfOpenVisit, TypeInv, TypeOK
<1>12. ASSUME NEW a \in answers, DeliverRefusal(a) PROVE VersionInv'
  BY <1>12, InCall DEF DeliverRefusal, VersionInv, OfOpenVisit
<1>13. CASE Confirm
  BY <1>13, <1>0, InCall DEF Confirm, client, network, VersionInv, OfOpenVisit
<1>14. CASE UNCHANGED vars
  BY <1>14 DEF vars, client, network, VersionInv, OfOpenVisit
<1> QED
  BY <1>1, <1>2, <1>3, <1>4, <1>5, <1>6, <1>7, <1>8, <1>9, <1>10, <1>11, <1>12,
     <1>13, <1>14 DEF Next

LEMMA LastCallStep ==
  TypeInv /\ VersionInv /\ LastCallInv /\ [Next]_vars => LastCallInv'
<1> SUFFICES ASSUME TypeInv, VersionInv, LastCallInv, [Next]_vars PROVE LastCallInv'
  OBVIOUS
<1>1. CASE \E u \in User : FetchReads(u) \/ FetchDelivered(u) \/ FetchFails(u)
                           \/ CacheExpires(u)
  BY <1>1 DEF FetchReads, FetchDelivered, FetchFails, CacheExpires, LastCallInv,
     OfOpenVisit, network
<1>2. ASSUME NEW u \in User, Open(u) PROVE LastCallInv'
  BY <1>2, InCall DEF Open, VersionInv, LastCallInv, OfOpenVisit, network, TypeInv, TypeOK
<1>3. ASSUME NEW u \in User, Leave(u) PROVE LastCallInv'
  BY <1>3, InCall DEF Leave, LastCallInv, OfOpenVisit, network, TypeInv, TypeOK
<1>4. ASSUME NEW u \in User, NEW text \in Text, Submit(u, text) PROVE LastCallInv'
  <2> DEFINE c == [user |-> u, visit |-> visit[u], attempt |-> attempt[u] + 1,
                   version |-> cache[u].version, text |-> text]
  <2>1. c \in Call /\ KeyOf(c) = <<u, visit[u]>> /\ page[u] = "open"
    BY <1>4, SubmitType, CallType DEF Submit, TypeInv, TypeOK, FormShown
  <2>2. \A d \in listening : ~(d.user = u /\ d.visit = visit[u])
    BY <1>4, <2>1 DEF Submit, LastCallInv, OfOpenVisit
  <2>3. /\ calls' = calls \cup {c} /\ listening' = listening \cup {c}
        /\ outcome' = [outcome EXCEPT ![u] = "pending"]
        /\ UNCHANGED <<cache, page, visit, answers>>
    BY <1>4 DEF Submit
  <2>4. \A d \in calls \cup listening : KeyOf(d) = KeyOf(c) => d.version <= c.version
    BY <2>1, InCall DEF VersionInv, OfOpenVisit
  <2>5. \A d \in listening : KeyOf(d) # KeyOf(c)
    BY <2>1, <2>2, InCall
  <2>6. c.version <= c.version
    BY InCall
  <2>7. \A a \in answers : a.call # c
    BY <2>5 DEF LastCallInv
  <2>8. \A d \in listening' : OfOpenVisit(d)' => outcome'[d.user] = "pending"
    BY <2>3, InCall DEF LastCallInv, OfOpenVisit, TypeInv, TypeOK
  <2> QED BY <2>3, <2>4, <2>5, <2>6, <2>7, <2>8 DEF LastCallInv, OfOpenVisit
<1>5. ASSUME NEW c \in calls, Save(c) \/ Recall(c) \/ RefuseSave(c) PROVE LastCallInv'
  <2>1. PICK how \in {"saved", "refused", "keyReuse", "conflict"} : Reply(c, how)
    BY <1>5 DEF Save, Recall, Remembered, RefuseSave, Refusals
  <2> QED BY <2>1 DEF Reply, client, LastCallInv, OfOpenVisit
<1>6. ASSUME NEW c \in listening, GiveUp(c) PROVE LastCallInv'
  BY <1>6, InCall DEF GiveUp, Shown, LastCallInv, OfOpenVisit, TypeInv, TypeOK
<1>7. ASSUME NEW a \in answers, DeliverSaved(a) PROVE LastCallInv'
  BY <1>7, InCall DEF DeliverSaved, LastCallInv, OfOpenVisit, TypeInv, TypeOK
<1>8. ASSUME NEW a \in answers, DeliverRefusal(a) PROVE LastCallInv'
  <2>1. /\ UNCHANGED <<calls, page, visit>> /\ answers' = answers \ {a}
        /\ listening' = listening \ {a.call}
    BY <1>8 DEF DeliverRefusal
  <2>2. \A d \in listening' : OfOpenVisit(d)' => outcome'[d.user] = "pending"
    <3> SUFFICES ASSUME NEW d \in listening', OfOpenVisit(d)'
                 PROVE  outcome'[d.user] = "pending"
      OBVIOUS
    <3>1. d \in listening /\ d # a.call /\ OfOpenVisit(d) /\ outcome[d.user] = "pending"
      BY <2>1 DEF LastCallInv, OfOpenVisit
    <3>2. ~(OfOpenVisit(a.call) /\ a.call.user = d.user)
      BY <3>1, InCall DEF LastCallInv, OfOpenVisit
    <3>3. \/ UNCHANGED outcome
          \/ /\ OfOpenVisit(a.call)
             /\ outcome' = [outcome EXCEPT ![a.call.user] = a.kind]
      BY <1>8 DEF DeliverRefusal, Shown, OfOpenVisit
    <3> QED BY <3>1, <3>2, <3>3, InCall DEF TypeInv, TypeOK
  <2> QED BY <2>1, <2>2 DEF LastCallInv, OfOpenVisit
<1>9. CASE Confirm \/ UNCHANGED vars
  BY <1>9 DEF Confirm, vars, client, network, LastCallInv, OfOpenVisit
<1> QED BY <1>1, <1>2, <1>3, <1>4, <1>5, <1>6, <1>7, <1>8, <1>9 DEF Next

\* Only calls that were current are saved, and the order never goes back.
LEMMA DeadStays ==
  ASSUME TypeInv, [Next]_vars, NEW k, Dead(k),
         \A c \in calls' : c \in calls \/ KeyOf(c) # k,
         \A c \in saves' : c \in saves \/ (c \in calls /\ Current(c))
  PROVE  Dead(k)'
BY OrderMoves, InCall DEF Dead, Current

LEMMA ConflictStep ==
  TypeInv /\ RecordInv /\ ConflictPageInv /\ [Next]_vars => ConflictInv'
<1> SUFFICES ASSUME TypeInv, RecordInv, VersionInv, LastCallInv, ConflictInv, [Next]_vars
             PROVE  ConflictInv'
  BY DEF ConflictPageInv
<1>1. ASSUME NEW u \in User,
             FetchReads(u) \/ FetchDelivered(u) \/ FetchFails(u) \/ CacheExpires(u)
      PROVE  ConflictInv'
  BY <1>1 DEF FetchReads, FetchDelivered, FetchFails, CacheExpires, ConflictInv, Dead,
     OfOpenVisit, network
<1>2. ASSUME NEW u \in User, Open(u) PROVE ConflictInv'
  BY <1>2, InCall DEF Open, VersionInv, LastCallInv, ConflictInv, Dead, OfOpenVisit,
     network, TypeInv, TypeOK
<1>3. ASSUME NEW u \in User, Leave(u) PROVE ConflictInv'
  BY <1>3, InCall DEF Leave, ConflictInv, Dead, OfOpenVisit, network, TypeInv, TypeOK
<1>4. ASSUME NEW u \in User, NEW text \in Text, Submit(u, text) PROVE ConflictInv'
  <2>1. /\ page[u] = "open" /\ outcome[u] # "pending"
        /\ UNCHANGED <<order, page, visit, answers, saves>>
        /\ outcome' = [outcome EXCEPT ![u] = "pending"]
    BY <1>4 DEF Submit, TypeInv, TypeOK, FormShown
  <2>2. \A c \in calls' : c \in calls \/ KeyOf(c) = <<u, visit[u]>>
    BY <1>4 DEF Submit, KeyOf
  <2>3. \A k : Dead(k) /\ k # <<u, visit[u]>> => Dead(k)'
    BY <2>1, <2>2, DeadStays
  <2>4. \A a \in answers : OfOpenVisit(a.call) => KeyOf(a.call) # <<u, visit[u]>>
    BY <2>1, InCall DEF LastCallInv, OfOpenVisit
  <2>5. \A a \in answers' : a.kind = "conflict" /\ OfOpenVisit(a.call)'
          => Dead(KeyOf(a.call))'
    BY <2>1, <2>3, <2>4 DEF ConflictInv, OfOpenVisit
  <2>6. \A v \in User : page'[v] = "open" /\ outcome'[v] = "conflict"
          => Dead(<<v, visit[v]>>)'
    BY <2>1, <2>3 DEF ConflictInv, TypeInv, TypeOK
  <2> QED BY <2>1, <2>5, <2>6 DEF ConflictInv, KeyOf
<1>5. ASSUME NEW c \in calls, Save(c) \/ Recall(c) PROVE ConflictInv'
  <2>1. PICK how \in {"saved", "keyReuse"} : Reply(c, how)
    BY <1>5 DEF Save, Recall, Remembered
  <2>2. \A k : Dead(k) => Dead(k)'
    BY <1>5, <2>1, DeadStays DEF Save, Recall, Reply
  <2> QED BY <2>1, <2>2 DEF Reply, client, ConflictInv, OfOpenVisit
<1>6. ASSUME NEW c \in calls, RefuseSave(c) PROVE ConflictInv'
  <2>1. PICK how \in {"refused", "conflict"} : Reply(c, how)
    BY <1>6 DEF RefuseSave, Refusals
  <2>2. UNCHANGED <<order, saves, client>> /\ calls' \subseteq calls
    BY <1>6, <2>1 DEF RefuseSave, Reply
  <2>3. \A k : Dead(k) => Dead(k)'
    BY <2>2, DeadStays
  <2>4. \A d \in saves : KeyOf(d) # KeyOf(c)
    BY <1>6, CallType DEF RefuseSave, Remembered, RecordInv, TypeInv, TypeOK
  <2>5. order.status # "draft" \/ c.version < order.version
    BY <1>6, InCall DEF RefuseSave, Current, VersionInv
  <2>6. c \in listening /\ OfOpenVisit(c) => Dead(KeyOf(c))
    BY <2>4, <2>5, InCall DEF Dead, LastCallInv
  <2>7. \A a \in answers' : a \in answers \/ (a.call = c /\ c \in listening)
    BY <2>1 DEF Reply
  <2> QED BY <2>2, <2>3, <2>6, <2>7 DEF client, ConflictInv, OfOpenVisit
<1>7. ASSUME NEW c \in listening, GiveUp(c) PROVE ConflictInv'
  BY <1>7, InCall DEF GiveUp, Shown, ConflictInv, Dead, OfOpenVisit, TypeInv, TypeOK
<1>8. ASSUME NEW a \in answers, DeliverSaved(a) PROVE ConflictInv'
  BY <1>8, InCall DEF DeliverSaved, ConflictInv, Dead, OfOpenVisit, TypeInv, TypeOK
<1>9. ASSUME NEW a \in answers, DeliverRefusal(a) PROVE ConflictInv'
  <2>1. a.call \in listening /\ KeyOf(a.call) = <<a.call.user, a.call.visit>>
    BY InCall DEF LastCallInv
  <2>2. UNCHANGED <<order, saves, calls, page, visit>> /\ answers' \subseteq answers
    BY <1>9 DEF DeliverRefusal
  <2>3. \A v \in User : outcome'[v] = "conflict" =>
          \/ outcome[v] = "conflict"
          \/ v = a.call.user /\ a.kind = "conflict" /\ OfOpenVisit(a.call)
    BY <1>9 DEF DeliverRefusal, Shown, OfOpenVisit, TypeInv, TypeOK
  <2> QED BY <2>1, <2>2, <2>3 DEF ConflictInv, Dead, OfOpenVisit
<1>10. CASE Confirm
  <2>1. \A k : Dead(k) => Dead(k)'
    BY <1>10, DeadStays DEF Confirm, network
  <2> QED BY <1>10, <2>1 DEF Confirm, client, network, ConflictInv, OfOpenVisit
<1>11. CASE UNCHANGED vars
  BY <1>11 DEF vars, client, network, ConflictInv, Dead, OfOpenVisit
<1> QED
  BY <1>1, <1>2, <1>3, <1>4, <1>5, <1>6, <1>7, <1>8, <1>9, <1>10, <1>11 DEF Next

\* When the page says that nothing the user entered has been applied, no call of
\* the visit was, and none that is still under way will be.
THEOREM ConflictPageIsTrue == Spec => []ConflictAppliedNothing
<1> DEFINE Inv == TypeInv /\ RecordInv /\ ConflictPageInv
<1>1. Init => Inv
  BY TypeInit, RecordInit, ConflictPageInit
<1>2. Inv /\ [Next]_vars => Inv'
  BY TypeStep, RecordStep, VersionStep, LastCallStep, ConflictStep DEF ConflictPageInv
<1>3. Inv => ConflictAppliedNothing
  BY DEF ConflictPageInv, ConflictInv, Dead, ConflictAppliedNothing
<1> QED BY <1>1, <1>2, <1>3, PTL DEF Spec

-----------------------------------------------------------------------------
(* The form an order is entered in: types *)

Picked == DOMAIN Master \cup {Missing}

EnteredLine == [product : Picked, quantity : Typed, discount : Typed]

Form == [visit : Nat, order : Nat, touched : BOOLEAN, was : Stored \cup {Missing},
         customer : Picked, warehouse : Picked, lines : Seq(EnteredLine)]

Sent == [order : Nat, version : Nat, customer : Picked, warehouse : Picked,
         lines : Seq(EnteredLine)]

FormReply == [press : Nat, visit : Nat, outcome : {"done", "refused", "moved"},
              order : Nat, row : Stored \cup {Missing}]

FormRecord == [company : Company, key : Nat, body : Sent, order : Nat, row : Stored]

FormTypeOK ==
  /\ company \in Company
  /\ visits \in Nat /\ presses \in Nat
  /\ form \in Form \cup {Missing}
  /\ wire \subseteq [press : Nat, visit : Nat, body : Sent]
  /\ pressed \subseteq [press : Nat, visit : Nat, entered : Form, body : Sent]
  /\ replies \subseteq FormReply
  /\ drafts \in Seq(Stored)
  /\ queried \in Seq(Stored \cup {Missing})
  /\ records \subseteq FormRecord

LEMMA FirstOrderStored == FirstOrder \in Stored /\ FirstOrder.visit = 0
BY FormAssumption

LEMMA PickedType ==
  ASSUME NEW table, NEW co
  PROVE  Offered(table, co) \subseteq DOMAIN Master /\ Missing \notin Offered(table, co)
BY FormAssumption DEF Offered, active, listForCompany

LEMMA RenderedForm ==
  ASSUME NEW f \in Form, NEW co
  PROVE  LET g == Rendered(f, co) IN
         /\ g \in Form
         /\ g.visit = f.visit /\ g.order = f.order
         /\ g.touched = f.touched /\ g.was = f.was /\ g.customer = f.customer
         /\ g.lines = f.lines
         /\ f.warehouse # Missing => g = f
<1> DEFINE default == {w \in Offered("warehouses", co) : Master[w].isDefault}
           w == CHOOSE x \in default : TRUE
<1>1. CASE f.warehouse = Missing /\ default # {}
  <2>1. w \in DOMAIN Master
    BY <1>1, PickedType
  <2>2. Rendered(f, co) = [f EXCEPT !.warehouse = w]
    BY <1>1 DEF Rendered
  <2> HIDE DEF w
  <2> QED BY <1>1, <2>1, <2>2 DEF Form, Picked
<1>2. CASE ~(f.warehouse = Missing /\ default # {})
  BY <1>2 DEF Rendered
<1> QED BY <1>1, <1>2

LEMMA EmptyLineType == emptyLine \in EnteredLine
BY DEF emptyLine, EnteredLine, Picked, Typed

LEMMA LineGestured ==
  ASSUME NEW f \in Form, NEW i \in DOMAIN f.lines, NEW g \in updateLine(f, i)
  PROVE  /\ g \in Form
         /\ g.visit = f.visit /\ g.order = f.order
         /\ g.touched = f.touched /\ g.was = f.was
<1>1. f.lines \in Seq(EnteredLine) /\ f.lines[i] \in EnteredLine
  BY DEF Form
<1>2. ASSUME NEW line \in EnteredLine, g = [f EXCEPT !.lines[i] = line] PROVE g.lines \in Seq(EnteredLine)
  <2>1. i \in 1 .. Len(f.lines)
    BY <1>1
  <2>2. [f.lines EXCEPT ![i] = line] \in Seq(EnteredLine)
    BY <1>1, <2>1, ExceptSeq
  <2>3. g.lines = [f.lines EXCEPT ![i] = line]
    BY <1>2 DEF Form
  <2> QED BY <2>2, <2>3
<1>3. \E line \in EnteredLine : g = [f EXCEPT !.lines[i] = line]
  <2>1. CASE \E p \in Offered("products", options) : g = [f EXCEPT !.lines[i].product = p]
    <3>1. PICK p \in Offered("products", options) : g = [f EXCEPT !.lines[i].product = p]
      BY <2>1
    <3>2. [f.lines[i] EXCEPT !.product = p] \in EnteredLine
      BY <1>1, PickedType DEF EnteredLine, Picked
    <3> QED BY <3>1, <3>2
  <2>2. CASE \E t \in Typed : g = [f EXCEPT !.lines[i].quantity = t]
    <3>1. PICK t \in Typed : g = [f EXCEPT !.lines[i].quantity = t]
      BY <2>2
    <3>2. [f.lines[i] EXCEPT !.quantity = t] \in EnteredLine
      BY <1>1 DEF EnteredLine
    <3> QED BY <3>1, <3>2
  <2>3. CASE \E t \in Typed : g = [f EXCEPT !.lines[i].discount = t]
    <3>1. PICK t \in Typed : g = [f EXCEPT !.lines[i].discount = t]
      BY <2>3
    <3>2. [f.lines[i] EXCEPT !.discount = t] \in EnteredLine
      BY <1>1 DEF EnteredLine
    <3> QED BY <3>1, <3>2
  <2> QED BY <2>1, <2>2, <2>3 DEF updateLine
<1> QED BY <1>2, <1>3 DEF Form

\* A gesture changes what is entered, and neither the visit nor the beginning.
LEMMA GesturedForm ==
  ASSUME NEW f \in Form, NEW g \in Gestures(f)
  PROVE  /\ g \in Form
         /\ g.visit = f.visit /\ g.order = f.order
         /\ g.touched = f.touched /\ g.was = f.was
<1> DEFINE Same == /\ g \in Form
                   /\ g.visit = f.visit /\ g.order = f.order
                   /\ g.touched = f.touched /\ g.was = f.was
<1>1. CASE \E c \in Offered("customers", options) : g = [f EXCEPT !.customer = c]
  BY <1>1, PickedType DEF Form, Picked
<1>2. CASE \E w \in Offered("warehouses", options) \cup {Missing} : g = [f EXCEPT !.warehouse = w]
  BY <1>2, PickedType DEF Form, Picked
<1>3. CASE g = [f EXCEPT !.lines = Append(@, emptyLine)]
  <2>1. Append(f.lines, emptyLine) \in Seq(EnteredLine)
    BY EmptyLineType, AppendProperties DEF Form
  <2> QED BY <1>3, <2>1 DEF Form
<1>4. CASE \E i \in DOMAIN f.lines :
             g = [f EXCEPT !.lines = SubSeq(@, 1, i - 1) \o SubSeq(@, i + 1, Len(@))]
  <2>1. PICK i \in DOMAIN f.lines :
          g = [f EXCEPT !.lines = SubSeq(@, 1, i - 1) \o SubSeq(@, i + 1, Len(@))]
    BY <1>4
  <2>2. f.lines \in Seq(EnteredLine) /\ i \in 1 .. Len(f.lines) /\ Len(f.lines) \in Nat
    BY LenProperties DEF Form
  <2>3. \A j \in 1 .. Len(f.lines) : f.lines[j] \in EnteredLine
    BY <2>2
  <2>4. SubSeq(f.lines, 1, i - 1) \in Seq(EnteredLine)
    <3>1. \A j \in 1 .. i - 1 : f.lines[j] \in EnteredLine
      BY <2>2, <2>3
    <3> QED BY <2>2, <3>1, SubSeqProperties
  <2>5. SubSeq(f.lines, i + 1, Len(f.lines)) \in Seq(EnteredLine)
    <3>1. \A j \in i + 1 .. Len(f.lines) : f.lines[j] \in EnteredLine
      BY <2>2, <2>3
    <3> QED BY <2>2, <3>1, SubSeqProperties
  <2>6. SubSeq(f.lines, 1, i - 1) \o SubSeq(f.lines, i + 1, Len(f.lines)) \in Seq(EnteredLine)
    BY <2>4, <2>5, ConcatProperties
  <2> QED BY <2>1, <2>6 DEF Form
<1>5. CASE \E i \in DOMAIN f.lines : g \in updateLine(f, i)
  BY <1>5, LineGestured
<1> QED BY <1>1, <1>2, <1>3, <1>4, <1>5 DEF Gestures

-----------------------------------------------------------------------------
(* The form an order is entered in: figures *)

\* The line a stored line is shown as.
Begins(line) ==
  [product |-> line.product, quantity |-> String(line.quantity),
   discount |-> IF line.discount = 0 THEN "" ELSE String(line.discount)]

\* The text 2 is the only one of its number, and nothing shows a discount of zero:
\* what was stored comes back from the form as it was.
LEMMA PriceUndoesStarting ==
  ASSUME NEW line \in StoredLine
  PROVE  Begins(line) \in EnteredLine /\ price(Begins(line)) = line
<1>1. String(2) = "2"
  BY DEF String, Typed, Number
<1>2. line.product \in Picked /\ line.quantity = 2 /\ line.discount \in {0, 2}
  BY DEF StoredLine, Picked
<1>3. parseDecimal["2"] = 2
  BY DEF parseDecimal, Typed, Number
<1>4. Begins(line).product = line.product /\ Begins(line).quantity = "2"
      /\ Begins(line).discount = IF line.discount = 0 THEN "" ELSE "2"
  BY <1>1, <1>2 DEF Begins
<1>5. Begins(line) \in EnteredLine
  BY <1>1, <1>2 DEF Begins, EnteredLine, Typed
<1>6. price(Begins(line)) =
        [product |-> line.product, quantity |-> line.quantity, discount |-> line.discount]
  BY <1>2, <1>3, <1>4 DEF price
<1> QED BY <1>5, <1>6 DEF StoredLine

\* A line that can be priced is one of figures, read alike by the form and the
\* server, and of a product of the company.
LEMMA PricedLine ==
  ASSUME NEW line \in EnteredLine, NEW co, CanBePriced(line, co)
  PROVE  /\ price(line) \in StoredLine
         /\ price(line) = [product |-> line.product, quantity |-> Number[line.quantity],
                           discount |-> Number[line.discount]]
         /\ Master[price(line).product].company = co
<1>1. Missing \notin Int
  BY FormAssumption
<1>d. /\ parseDecimal["0"] = 0
      /\ parseDecimal[""] = Missing /\ parseDecimal["1e3"] = Missing
  BY DEF parseDecimal, Typed, Number
<1>a. line.quantity \in {"", "0", "2", "1e3"} /\ line.discount \in {"", "0", "2", "1e3"}
  BY DEF EnteredLine, Typed
<1>b. /\ parseDecimal[line.quantity] # Missing /\ parseDecimal[line.quantity] > 0
      /\ line.discount = "" \/ parseDecimal[line.discount] \in 0 .. 100
  BY DEF CanBePriced
<1>c. Missing \notin 0 .. 100 /\ ~(0 > 0)
  BY <1>1
<1>2. line.quantity = "2"
  BY <1>d, <1>a, <1>b, <1>c
<1>3. line.discount \in {"", "0", "2"}
  BY <1>d, <1>a, <1>b, <1>c
<1>4. line.product \in DOMAIN Master /\ Master[line.product].company = co
  BY DEF CanBePriced, Usable, Offered, active, listForCompany
<1>5. Number["2"] = 2 /\ Number["0"] = 0 /\ Number[""] = 0
      /\ parseDecimal["2"] = 2 /\ parseDecimal["0"] = 0
  BY DEF Number, Typed, parseDecimal
<1>6. price(line) = [product |-> line.product, quantity |-> Number[line.quantity],
                     discount |-> Number[line.discount]]
  BY <1>2, <1>3, <1>5 DEF price
<1>7. Number[line.quantity] = 2 /\ Number[line.discount] \in {0, 2}
  BY <1>2, <1>3, <1>5
<1> QED BY <1>4, <1>6, <1>7 DEF StoredLine

\* The figures of the lines as the form reads them.
Figures(lines) ==
  [i \in DOMAIN lines |->
     [product |-> lines[i].product, quantity |-> Number[lines[i].quantity],
      discount |-> Number[lines[i].discount]]]

\* The figures of what a form begins with are those that were stored.
LEMMA FiguresUndoStarting ==
  ASSUME NEW row \in Stored
  PROVE  Figures([i \in DOMAIN row.lines |-> Begins(row.lines[i])]) = row.lines
<1>1. row.lines \in Seq(StoredLine)
  BY DEF Stored
<1>2. \A i \in DOMAIN row.lines : row.lines[i] \in StoredLine
  BY <1>1
<1>3. String(2) = "2" /\ Number["2"] = 2 /\ Number[""] = 0
  BY DEF String, Typed, Number
<1>4. ASSUME NEW line \in StoredLine
      PROVE  [product |-> Begins(line).product, quantity |-> Number[Begins(line).quantity],
              discount |-> Number[Begins(line).discount]] = line
  <2>1. line.quantity = 2 /\ line.discount \in {0, 2}
        /\ line = [product |-> line.product, quantity |-> line.quantity,
                   discount |-> line.discount]
    BY DEF StoredLine
  <2>2. Begins(line).product = line.product /\ Begins(line).quantity = "2"
        /\ Begins(line).discount = IF line.discount = 0 THEN "" ELSE "2"
    BY <1>3, <2>1 DEF Begins
  <2>3. Number[Begins(line).quantity] = line.quantity
        /\ Number[Begins(line).discount] = line.discount
    BY <1>3, <2>1, <2>2
  <2> QED BY <2>1, <2>2, <2>3
<1>5. Figures([i \in DOMAIN row.lines |-> Begins(row.lines[i])])
        = [i \in DOMAIN row.lines |->
             [product |-> Begins(row.lines[i]).product,
              quantity |-> Number[Begins(row.lines[i]).quantity],
              discount |-> Number[Begins(row.lines[i]).discount]]]
  BY DEF Figures
<1>6. Figures([i \in DOMAIN row.lines |-> Begins(row.lines[i])])
        = [i \in DOMAIN row.lines |-> row.lines[i]]
  BY <1>2, <1>4, <1>5
<1> QED BY <1>1, <1>6

\* All that a row names is of its company.
OfItsCompany(row) ==
  /\ Master[row.customer].company = row.company
  /\ Master[row.warehouse].company = row.company
  /\ \A i \in DOMAIN row.lines : Master[row.lines[i].product].company = row.company

LEMMA DraftMade ==
  ASSUME NEW body \in Sent, NEW co \in Company, NEW v \in Nat, NEW n \in Nat,
         Orderable(body, co)
  PROVE  LET row == Draft(body, co, v, n) IN
         /\ row \in Stored /\ OfItsCompany(row)
         /\ row.company = co /\ row.version = v /\ row.visit = n
         /\ row.customer = body.customer /\ row.warehouse = body.warehouse
         /\ row.lines = Figures(body.lines)
<1> DEFINE row == Draft(body, co, v, n)
           lines == [i \in DOMAIN body.lines |-> price(body.lines[i])]
<1>1. body.lines \in Seq(EnteredLine)
  BY DEF Sent
<1>2. \A i \in DOMAIN body.lines : body.lines[i] \in EnteredLine
  BY <1>1
<1>3. \A i \in DOMAIN body.lines : CanBePriced(body.lines[i], co)
  BY DEF Orderable
<1>4. \A i \in DOMAIN body.lines :
        /\ lines[i] \in StoredLine
        /\ lines[i] = [product |-> body.lines[i].product,
                       quantity |-> Number[body.lines[i].quantity],
                       discount |-> Number[body.lines[i].discount]]
        /\ Master[lines[i].product].company = co
  BY <1>2, <1>3, PricedLine
<1>5. DOMAIN body.lines = 1 .. Len(body.lines) /\ Len(body.lines) \in Nat
  BY <1>1, LenProperties
<1>6. lines \in Seq(StoredLine)
  <2>1. lines \in [1 .. Len(body.lines) -> StoredLine]
    BY <1>4, <1>5
  <2> QED BY <2>1, <1>5, SeqDef
<1>7. lines = Figures(body.lines)
  BY <1>4 DEF Figures
<1>8. /\ body.customer \in DOMAIN Master /\ Master[body.customer].company = co
      /\ body.warehouse \in DOMAIN Master /\ Master[body.warehouse].company = co
  BY DEF Orderable, Usable, Offered, active, listForCompany
<1>9. row = [company |-> co, version |-> v, visit |-> n, customer |-> body.customer,
             warehouse |-> body.warehouse, lines |-> lines]
  BY DEF Draft
<1>10. DOMAIN lines = DOMAIN body.lines
  OBVIOUS
<1> HIDE DEF row, lines
<1>11. row \in Stored
  BY <1>6, <1>8, <1>9 DEF Stored
<1>12. OfItsCompany(row)
  BY <1>4, <1>8, <1>9, <1>10 DEF OfItsCompany
<1> QED BY <1>7, <1>9, <1>11, <1>12 DEF row

\* What the form of an order of before begins with is that order as the cache has it,
\* and is priced as it was.
LEMMA StartingForm ==
  ASSUME visits \in Nat, queried \in Seq(Stored \cup {Missing}), NEW o \in DOMAIN queried,
         queried[o] # Missing
  PROVE  LET f == startingValues(o) IN
         /\ f \in Form /\ f.visit = visits + 1 /\ f.order = o /\ f.order # 0
         /\ ~f.touched /\ f.was = queried[o] /\ f.was \in Stored
         /\ f.customer = queried[o].customer /\ f.warehouse = queried[o].warehouse
         /\ f.warehouse # Missing
         /\ f.lines = [i \in DOMAIN queried[o].lines |-> Begins(queried[o].lines[i])]
<1> DEFINE row == queried[o]
           lines == [i \in DOMAIN row.lines |-> Begins(row.lines[i])]
           f == startingValues(o)
<1>1. row \in Stored
  OBVIOUS
<1>2. /\ f.visit = visits + 1 /\ f.order = o /\ f.touched = FALSE
      /\ f.was = row /\ f.customer = row.customer /\ f.warehouse = row.warehouse
      /\ f.lines = lines
      /\ f = [visit |-> f.visit, order |-> f.order, touched |-> f.touched, was |-> f.was,
              customer |-> f.customer, warehouse |-> f.warehouse, lines |-> f.lines]
  BY DEF startingValues, Begins
<1>3. row.lines \in Seq(StoredLine) /\ row.version \in Nat /\ row.customer \in DOMAIN Master
      /\ row.warehouse \in DOMAIN Master
  BY <1>1 DEF Stored
<1>4. lines \in Seq(EnteredLine)
  <2>1. DOMAIN row.lines = 1 .. Len(row.lines) /\ Len(row.lines) \in Nat
        /\ \A i \in DOMAIN row.lines : row.lines[i] \in StoredLine
    BY <1>3
  <2>2. lines \in [1 .. Len(row.lines) -> EnteredLine]
    BY <2>1, PriceUndoesStarting
  <2> QED BY <2>1, <2>2, SeqDef
<1>5. o \in Nat /\ o # 0 /\ row.warehouse # Missing
  BY <1>3, FormAssumption
<1> HIDE DEF f, row, lines
<1>6. f \in Form
  <2>1. /\ f.visit \in Nat /\ f.order \in Nat /\ f.touched \in BOOLEAN
        /\ f.was \in Stored \cup {Missing} /\ f.customer \in Picked /\ f.warehouse \in Picked
        /\ f.lines \in Seq(EnteredLine)
    <3>1. f.touched \in BOOLEAN
      BY <1>2, Zenon
    <3>2. f.visit \in Nat /\ f.order \in Nat
      BY <1>2, <1>3, <1>5
    <3>3. f.lines \in Seq(EnteredLine)
      BY <1>2, <1>4, Zenon
    <3> QED BY <1>1, <1>2, <1>3, <3>1, <3>2, <3>3, Zenon DEF Picked
  <2> QED BY <1>2, <2>1 DEF Form
<1> QED BY <1>1, <1>2, <1>5, <1>6 DEF f, row, lines

LEMMA BlankForm ==
  ASSUME visits \in Nat
  PROVE  /\ Blank \in Form /\ Blank.visit = visits + 1 /\ Blank.order = 0
         /\ ~Blank.touched /\ Blank.customer = Missing
<1>1. <<emptyLine>> \in Seq(EnteredLine)
  BY EmptyLineType
<1> QED BY <1>1 DEF Blank, Form, Picked

LEMMA BodyType ==
  ASSUME NEW f \in Form, f.order # 0 => queried[f.order] \in Stored
  PROVE  /\ Body(f) \in Sent
         /\ Body(f).order = f.order
         /\ Body(f).customer = f.customer /\ Body(f).warehouse = f.warehouse
         /\ Body(f).lines = f.lines
<1>1. (IF f.order = 0 THEN 0 ELSE queried[f.order].version) \in Nat
  BY DEF Stored
<1> QED BY <1>1 DEF Body, Sent, Form

-----------------------------------------------------------------------------
(* The form an order is entered in: the invariant *)

\* The forms of the screen and of the presses that wait for an answer.
FormsInUse ==
  (IF form = Missing THEN {} ELSE {form}) \cup {w.entered : w \in pressed}

\* Visits and presses are numbered as they come.
FormNumbered ==
  /\ form # Missing => form.visit \in 1 .. visits
  /\ \A r \in wire : r.press <= presses /\ r.visit \in 1 .. visits
                     /\ r.body.order \in 0 .. Len(drafts)
  /\ \A w \in pressed : w.press <= presses /\ w.visit \in 1 .. visits
  /\ \A a \in replies : a.press <= presses
  /\ \A k \in records : k.key \in 1 .. visits

\* A press sends what was entered, and so does its request.
FormPaired ==
  /\ \A w \in pressed :
       /\ w.visit = w.entered.visit /\ w.body.order = w.entered.order
       /\ w.body.customer = w.entered.customer /\ w.body.warehouse = w.entered.warehouse
       /\ w.body.lines = w.entered.lines
  /\ \A r \in wire, w \in pressed :
       r.press = w.press => r.visit = w.visit /\ r.body = w.body

\* An order names rows of its own company, one that a visit made is remembered under
\* the key of the visit, and it is the only one that is.
FormOwn == \A o \in DOMAIN drafts : OfItsCompany(drafts[o])

FormKept ==
  \A o \in DOMAIN drafts : drafts[o].visit # 0 =>
    \E k \in records : k.key = drafts[o].visit /\ k.company = drafts[o].company

FormOnce ==
  \A o, p \in DOMAIN drafts :
    /\ drafts[o].visit = drafts[p].visit /\ drafts[o].visit # 0
    /\ drafts[o].company = drafts[p].company
    => o = p

\* A row that order o of rows was once: its company and its visit never change.
SameOrder(rows, row, o) == row.company = rows[o].company /\ row.visit = rows[o].visit

\* The cache holds rows that the orders were, that of the form on the screen among
\* them.
FormQueried ==
  /\ Len(queried) = Len(drafts)
  /\ \A o \in DOMAIN queried : queried[o] # Missing => SameOrder(drafts, queried[o], o)
  /\ form # Missing /\ form.order # 0 =>
       form.order \in DOMAIN queried /\ queried[form.order] # Missing

\* A form that began from an order began from a row that it was, and one that nobody
\* touched still says that; a form that began blank and was not touched names no
\* customer.
BegunAs(rows, f) ==
  /\ f.order = 0 => f.touched \/ f.customer = Missing
  /\ f.order # 0 =>
       /\ f.order \in DOMAIN rows /\ f.was \in Stored /\ SameOrder(rows, f.was, f.order)
       /\ \/ f.touched
          \/ /\ f.customer = f.was.customer /\ f.warehouse = f.was.warehouse
             /\ f.lines = [i \in DOMAIN f.was.lines |-> Begins(f.was.lines[i])]

FormBegun == \A f \in FormsInUse : BegunAs(drafts, f)

\* What a row says of an entry.
Says(row, entry) ==
  /\ row.customer = entry.customer
  /\ row.warehouse = entry.warehouse
  /\ row.lines = Figures(entry.lines)

\* An order and its row are what came of a body sent in a visit.
CameOf(rows, o, row, body, n) ==
  /\ o \in DOMAIN rows /\ row \in Stored
  /\ SameOrder(rows, row, o) /\ Says(row, body)
  /\ IF body.order = 0 THEN row.visit = n
                       ELSE o = body.order /\ row.version = body.version + 1

FormRecorded == \A k \in records : CameOf(drafts, k.order, k.row, k.body, k.key)

\* What a success tells of the press it answers.
Saved(rows, a, w) ==
  /\ a.order \in DOMAIN rows
  /\ IF w.entered.order = 0 THEN rows[a.order].visit = w.entered.visit
                             ELSE a.order = w.entered.order
  /\ Says(a.row, w.entered)
  /\ ~w.entered.touched /\ w.body.version = w.entered.was.version =>
       a.row = [w.entered.was EXCEPT !.version = @ + 1]

FormReplies ==
  \A a \in replies, w \in pressed :
    a.press = w.press /\ a.outcome = "done" => Saved(drafts, a, w)

FormWent == went # Missing => Saved(drafts, went, went.press)

FormInv ==
  /\ FormTypeOK /\ FormNumbered /\ FormPaired
  /\ FormOwn /\ FormKept /\ FormOnce /\ FormQueried
  /\ FormBegun /\ FormRecorded /\ FormReplies /\ FormWent

LEMMA FormInitInv == FormInit => FormInv
<1> SUFFICES ASSUME FormInit PROVE FormInv
  OBVIOUS
<1>1. FirstOrder \in Stored /\ FirstOrder.visit = 0 /\ OfItsCompany(FirstOrder)
  BY FirstOrderStored, FormAssumption DEF OfItsCompany
<1>2. drafts \in Seq(Stored) /\ Len(drafts) = 1 /\ drafts[1] = FirstOrder /\ DOMAIN drafts = {1}
  BY <1>1 DEF FormInit
<1>q. queried \in Seq(Stored \cup {Missing}) /\ Len(queried) = 1 /\ DOMAIN queried = {1}
      /\ queried[1] = Missing
  BY DEF FormInit
<1>3. FormTypeOK
  <2>1. company \in Company
    BY <1>1 DEF FormInit, Stored
  <2> QED BY <1>2, <1>q, <2>1 DEF FormInit, FormTypeOK
<1>4. FormNumbered /\ FormPaired /\ FormReplies /\ FormWent
  BY DEF FormInit, FormNumbered, FormPaired, FormReplies, FormWent
<1>5. FormOwn /\ FormKept /\ FormOnce
  BY <1>1, <1>2 DEF FormOwn, FormKept, FormOnce
<1>8. FormQueried
  BY <1>2, <1>q DEF FormInit, FormQueried
<1>6. FormsInUse = {}
  BY DEF FormInit, FormsInUse
<1>7. FormBegun /\ FormRecorded
  BY <1>6 DEF FormBegun, FormRecorded, FormInit
<1> QED BY <1>3, <1>4, <1>5, <1>7, <1>8 DEF FormInv

\* What the server's steps have in common: requests go, answers come, and the browser
\* is as it was.
Served(r) ==
  \/ Replay(r) \/ create(r) \/ update(r) \/ Refuse(r)

LEMMA ServedKeeps ==
  ASSUME NEW r \in wire, Served(r)
  PROVE  /\ wire' = wire \ {r}
         /\ UNCHANGED <<company, options, form, visits, touches, presses, unanswered,
                        switches, pressed, went>>
         /\ FormsInUse' = FormsInUse
BY DEF Served, Replay, create, update, Refuse, Respond, FormsInUse

\* The orders and the records that a step of the server leaves.
LEMMA ServedChanges ==
  ASSUME FormTypeOK, FormNumbered, NEW r \in wire, Served(r)
  PROVE  \/ UNCHANGED <<drafts, records, queried>>
         \/ create(r) /\ Orderable(r.body, company)
            /\ LET row == Draft(r.body, company, 1, r.visit) IN
               /\ row \in Stored /\ drafts' = Append(drafts, row)
               /\ queried' = Append(queried, Missing)
               /\ records' = records \cup {[company |-> company, key |-> r.visit, body |-> r.body,
                                            order |-> Len(drafts) + 1, row |-> row]}
         \/ update(r) /\ Orderable(r.body, company)
            /\ r.body.order \in DOMAIN drafts
            /\ drafts[r.body.order].company = company
            /\ drafts[r.body.order].version = r.body.version
            /\ LET existing == drafts[r.body.order]
                   row == Draft(r.body, company, existing.version + 1, existing.visit) IN
               /\ row \in Stored /\ drafts' = [drafts EXCEPT ![r.body.order] = row]
               /\ queried' = queried
               /\ records' = records \cup {[company |-> company, key |-> r.visit, body |-> r.body,
                                            order |-> r.body.order, row |-> row]}
<1>1. r.body \in Sent /\ r.visit \in Nat /\ r.body.order \in 0 .. Len(drafts) /\ company \in Company
  BY DEF FormTypeOK, FormNumbered
<1>2. CASE Replay(r)
  BY <1>2 DEF Replay
<1>3. CASE Refuse(r)
  BY <1>3 DEF Refuse
<1>4. CASE create(r)
  <2>1. Orderable(r.body, company)
    BY <1>4 DEF create
  <2>2. Draft(r.body, company, 1, r.visit) \in Stored
    BY <1>1, <2>1, DraftMade
  <2> QED BY <1>4, <2>1, <2>2 DEF create, Remember, VisitKey
<1>5. CASE update(r)
  <2>1. Orderable(r.body, company) /\ r.body.order # 0 /\ drafts[r.body.order].company = company
    BY <1>5 DEF update
  <2>2. r.body.order \in DOMAIN drafts /\ drafts[r.body.order] \in Stored
    BY <1>1, <2>1 DEF FormTypeOK
  <2>3. drafts[r.body.order].version + 1 \in Nat /\ drafts[r.body.order].visit \in Nat
    BY <2>2 DEF Stored
  <2>4. Draft(r.body, company, drafts[r.body.order].version + 1, drafts[r.body.order].visit)
          \in Stored
    BY <1>1, <2>1, <2>3, DraftMade
  <2> QED BY <1>5, <2>1, <2>2, <2>4 DEF update, Remember, VisitKey
<1> QED BY <1>2, <1>3, <1>4, <1>5 DEF Served

LEMMA OrdersQueried ==
  ASSUME FormTypeOK, FormQueried
  PROVE  DOMAIN queried = DOMAIN drafts
BY LenProperties DEF FormTypeOK, FormQueried

LEMMA BodyOfForm ==
  ASSUME FormTypeOK, FormQueried, form # Missing
  PROVE  /\ Body(form) \in Sent
         /\ Body(form).order = form.order
         /\ Body(form).customer = form.customer /\ Body(form).warehouse = form.warehouse
         /\ Body(form).lines = form.lines
<1>1. form \in Form /\ queried \in Seq(Stored \cup {Missing})
  BY DEF FormTypeOK
<1>2. form.order # 0 => queried[form.order] \in Stored
  BY <1>1 DEF FormQueried
<1> QED BY <1>1, <1>2, BodyType

\* Types.
LEMMA FormTypeStep ==
  ASSUME FormTypeOK, FormNumbered, FormQueried, [FormNext]_formVars
  PROVE  FormTypeOK'
<1>1. ASSUME NEW f \in Form, OpenForm(f) PROVE FormTypeOK'
  BY <1>1, RenderedForm DEF OpenForm, FormTypeOK
<1>2. CASE SalesOrderCreatePage
  BY <1>1, <1>2, BlankForm DEF SalesOrderCreatePage, FormTypeOK
<1>3. CASE SalesOrderEditPage
  BY <1>1, <1>3, StartingForm, OrdersQueried DEF SalesOrderEditPage, FormTypeOK
<1>g. CASE getOrder
  <2>1. PICK o \in DOMAIN drafts : queried' = [queried EXCEPT ![o] = drafts[o]]
    BY <1>g DEF getOrder
  <2>2. queried \in Seq(Stored \cup {Missing}) /\ o \in 1 .. Len(queried)
        /\ drafts[o] \in Stored \cup {Missing}
    BY LenProperties DEF FormTypeOK, FormQueried
  <2>3. queried' \in Seq(Stored \cup {Missing})
    BY <2>1, <2>2, ExceptSeq
  <2> QED BY <1>g, <2>3 DEF getOrder, FormTypeOK
<1>4. CASE Fetched
  BY <1>4, RenderedForm DEF Fetched, FormTypeOK
<1>5. CASE Enter
  <2>1. PICK f \in Gestures(form) : form' = Rendered([f EXCEPT !.touched = TRUE], options)
    BY <1>5 DEF Enter
  <2>2. f \in Form
    BY <1>5, <2>1, GesturedForm DEF Enter, FormTypeOK
  <2>3. [f EXCEPT !.touched = TRUE] \in Form
    BY <2>2 DEF Form
  <2>4. form' \in Form
    BY <2>1, <2>3, RenderedForm
  <2> QED BY <1>5, <2>4 DEF Enter, FormTypeOK
<1>6. CASE submit
  <2>1. form \in Form /\ form.visit \in Nat /\ Body(form) \in Sent
    BY <1>6, BodyOfForm DEF submit, FormTypeOK, Form
  <2> QED BY <1>6, <2>1 DEF submit, FormTypeOK
<1>7. CASE Unanswered
  BY <1>7 DEF Unanswered, FormTypeOK
<1>8. CASE FormAnswered
  BY <1>8 DEF FormAnswered, FormTypeOK
<1>9. CASE LeaveForm
  BY <1>9 DEF LeaveForm, FormTypeOK
<1>10. CASE SwitchElsewhere
  BY <1>10 DEF SwitchElsewhere, FormTypeOK
<1>11. ASSUME NEW r \in wire, Served(r) PROVE FormTypeOK'
  <2>1. drafts' \in Seq(Stored) /\ queried' \in Seq(Stored \cup {Missing})
        /\ records' \subseteq FormRecord
    <3>1. r.body \in Sent /\ r.visit \in Nat /\ company \in Company /\ drafts \in Seq(Stored)
          /\ Len(drafts) + 1 \in Nat /\ r.body.order \in Nat
          /\ queried \in Seq(Stored \cup {Missing}) /\ records \subseteq FormRecord
      BY LenProperties DEF FormTypeOK, Sent
    <3>2. \A row \in Stored, o \in Nat :
            [company |-> company, key |-> r.visit, body |-> r.body, order |-> o, row |-> row]
              \in FormRecord
      BY <3>1 DEF FormRecord
    <3>3. /\ \A row \in Stored : Append(drafts, row) \in Seq(Stored)
          /\ Append(queried, Missing) \in Seq(Stored \cup {Missing})
      BY <3>1, AppendProperties
    <3>4. \A row \in Stored, o \in DOMAIN drafts : [drafts EXCEPT ![o] = row] \in Seq(Stored)
      BY <3>1, ExceptSeq, LenProperties
    <3>5. \/ UNCHANGED <<drafts, queried, records>>
          \/ \E row \in Stored, o \in Nat :
               /\ \/ drafts' = Append(drafts, row) /\ queried' = Append(queried, Missing)
                  \/ /\ o \in DOMAIN drafts /\ drafts' = [drafts EXCEPT ![o] = row]
                     /\ queried' = queried
               /\ records' = records \cup
                    {[company |-> company, key |-> r.visit, body |-> r.body,
                      order |-> o, row |-> row]}
      <4>1. CASE UNCHANGED <<drafts, queried, records>>
        BY <4>1
      <4>2. CASE create(r) /\ ~UNCHANGED <<drafts, queried, records>>
        BY <1>11, <3>1, <4>2, ServedChanges DEF create, update
      <4>3. CASE ~create(r) /\ ~UNCHANGED <<drafts, queried, records>>
        BY <1>11, <3>1, <4>3, ServedChanges
      <4> QED BY <4>1, <4>2, <4>3
    <3> QED BY <3>1, <3>2, <3>3, <3>4, <3>5
  <2>2. replies' \subseteq FormReply
    <3>1. r.press \in Nat /\ r.visit \in Nat /\ r.body \in Sent /\ company \in Company
          /\ Len(drafts) + 1 \in Nat /\ r.body.order \in Nat
      BY LenProperties DEF FormTypeOK, Sent
    <3>2. ASSUME NEW how \in {"done", "refused", "moved"}, NEW o \in Nat,
                 NEW row \in Stored \cup {Missing}, Respond(r, how, o, row)
          PROVE  replies' \subseteq FormReply
      BY <3>1, <3>2 DEF Respond, FormTypeOK, FormReply
    <3>3. \E how \in {"done", "refused", "moved"}, o \in Nat, row \in Stored \cup {Missing} :
            Respond(r, how, o, row)
      <4>1. CASE Replay(r)
        BY <4>1 DEF Replay, RecordOf, FormTypeOK, FormRecord
      <4>2. CASE Refuse(r)
        BY <4>2 DEF Refuse
      <4>3. CASE create(r)
        <5>1. Draft(r.body, company, 1, r.visit) \in Stored
          BY <3>1, <4>3, DraftMade DEF create
        <5> QED BY <3>1, <4>3, <5>1 DEF create
      <4>4. CASE update(r)
        <5>1. drafts[r.body.order] \in Stored
          BY <4>4 DEF update, FormTypeOK, FormNumbered
        <5>2. drafts[r.body.order].version + 1 \in Nat /\ drafts[r.body.order].visit \in Nat
          BY <5>1 DEF Stored
        <5>3. Draft(r.body, company, drafts[r.body.order].version + 1,
                    drafts[r.body.order].visit) \in Stored
          BY <3>1, <4>4, <5>2, DraftMade DEF update
        <5> QED BY <3>1, <4>4, <5>3 DEF update
      <4> QED BY <1>11, <4>1, <4>2, <4>3, <4>4 DEF Served
    <3> QED BY <3>2, <3>3
  <2>3. wire' \subseteq wire
    BY <1>11, ServedKeeps
  <2> QED BY <1>11, <2>1, <2>2, <2>3, ServedKeeps DEF FormTypeOK
<1>12. CASE UNCHANGED formVars
  BY <1>12 DEF formVars, FormTypeOK
<1> QED BY <1>2, <1>3, <1>g, <1>4, <1>5, <1>6, <1>7, <1>8, <1>9, <1>10, <1>11, <1>12
        DEF FormNext, Served

\* Numbers.
LEMMA FormNumberedStep ==
  ASSUME FormTypeOK, FormNumbered, FormBegun, FormQueried, [FormNext]_formVars
  PROVE  FormNumbered'
<1> USE DEF FormNumbered
<1>0. visits \in Nat /\ presses \in Nat /\ visits + 1 \in Nat
      /\ \A n \in 1 .. visits : n \in 1 .. visits + 1
  BY DEF FormTypeOK
<1>1. ASSUME NEW f \in Form, f.visit = visits + 1, OpenForm(f) PROVE FormNumbered'
  <2>1. form'.visit = visits + 1 /\ visits' = visits + 1
    BY <1>1, RenderedForm DEF OpenForm
  <2>2. form'.visit \in 1 .. visits'
    BY <2>1, <1>0
  <2> QED BY <1>0, <1>1, <2>1, <2>2 DEF OpenForm
<1>2. CASE SalesOrderCreatePage
  BY <1>0, <1>1, <1>2, BlankForm DEF SalesOrderCreatePage
<1>3. CASE SalesOrderEditPage
  BY <1>0, <1>1, <1>3, StartingForm, OrdersQueried DEF SalesOrderEditPage, FormTypeOK
<1>g. CASE getOrder
  BY <1>g DEF getOrder
<1>4. CASE Fetched
  BY <1>4, RenderedForm DEF Fetched, FormTypeOK
<1>5. CASE Enter
  <2>1. PICK f \in Gestures(form) : form' = Rendered([f EXCEPT !.touched = TRUE], options)
    BY <1>5 DEF Enter
  <2>2. f \in Form /\ f.visit = form.visit
    BY <1>5, <2>1, GesturedForm DEF Enter, FormTypeOK
  <2>3. [f EXCEPT !.touched = TRUE] \in Form /\ [f EXCEPT !.touched = TRUE].visit = form.visit
    BY <2>2 DEF Form
  <2>4. form'.visit = form.visit
    BY <2>1, <2>3, RenderedForm
  <2> QED BY <1>5, <2>4 DEF Enter
<1>6. CASE submit
  <2>1. form \in Form /\ form.visit \in 1 .. visits /\ Body(form).order = form.order
    BY <1>6, BodyOfForm DEF submit, FormTypeOK
  <2>2. presses' = presses + 1 /\ \A n \in Nat : n <= presses => n <= presses + 1
    BY <1>0, <1>6 DEF submit
  <2>3. form.order \in 0 .. Len(drafts)
    <3>1. BegunAs(drafts, form) /\ form.order \in Nat /\ drafts \in Seq(Stored)
      BY <1>6 DEF submit, FormBegun, FormsInUse, FormTypeOK, Form
    <3>2. DOMAIN drafts = 1 .. Len(drafts) /\ Len(drafts) \in Nat
      BY <3>1, LenProperties
    <3> QED BY <3>1, <3>2 DEF BegunAs
  <2>4. ASSUME NEW q \in wire' PROVE q.press <= presses' /\ q.visit \in 1 .. visits'
                                     /\ q.body.order \in 0 .. Len(drafts')
    <3>1. CASE q \in wire
      BY <1>0, <1>6, <2>2, <3>1 DEF submit, FormTypeOK
    <3>2. CASE q \notin wire
      BY <1>0, <1>6, <2>1, <2>2, <2>3, <3>2 DEF submit
    <3> QED BY <3>1, <3>2
  <2>5. ASSUME NEW w \in pressed' PROVE w.press <= presses' /\ w.visit \in 1 .. visits'
    <3>1. CASE w \in pressed
      BY <1>0, <1>6, <2>2, <3>1 DEF submit, FormTypeOK
    <3>2. CASE w \notin pressed
      BY <1>0, <1>6, <2>1, <2>2, <3>2 DEF submit
    <3> QED BY <3>1, <3>2
  <2>6. \A a \in replies : a.press \in Nat
    BY DEF FormTypeOK, FormReply
  <2> QED BY <1>0, <1>6, <2>1, <2>2, <2>4, <2>5, <2>6 DEF submit
<1>7. CASE Unanswered
  BY <1>7 DEF Unanswered
<1>8. CASE FormAnswered
  BY <1>8 DEF FormAnswered
<1>9. CASE LeaveForm
  BY <1>9 DEF LeaveForm
<1>10. CASE SwitchElsewhere
  BY <1>10 DEF SwitchElsewhere
<1>11. ASSUME NEW r \in wire, Served(r) PROVE FormNumbered'
  <2>1. Len(drafts') >= Len(drafts) /\ Len(drafts) \in Nat /\ Len(drafts') \in Nat
        /\ \A k \in records' : k \in records \/ k.key = r.visit
    <3>1. drafts \in Seq(Stored)
      BY DEF FormTypeOK
    <3>2. \A row \in Stored : Len(Append(drafts, row)) = Len(drafts) + 1
      BY <3>1, AppendProperties
    <3>3. \A row \in Stored, o \in DOMAIN drafts : Len([drafts EXCEPT ![o] = row]) = Len(drafts)
      BY <3>1, ExceptSeq, LenProperties
    <3>4. Len(drafts) \in Nat
      BY <3>1, LenProperties
    <3> QED BY <1>11, <3>1, <3>2, <3>3, <3>4, ServedChanges
  <2>2. \A a \in replies' : a \in replies \/ a.press = r.press
    BY <1>11 DEF Served, Replay, create, update, Refuse, Respond
  <2> QED BY <1>11, <2>1, <2>2, ServedKeeps
<1>12. CASE UNCHANGED formVars
  BY <1>12 DEF formVars
<1> QED BY <1>2, <1>3, <1>g, <1>4, <1>5, <1>6, <1>7, <1>8, <1>9, <1>10, <1>11, <1>12
        DEF FormNext, Served

\* What the browser's steps leave alone, and what becomes of its forms.
Browsed ==
  \/ SalesOrderCreatePage \/ SalesOrderEditPage \/ getOrder \/ Fetched \/ Enter \/ submit
  \/ Unanswered \/ FormAnswered \/ LeaveForm \/ SwitchElsewhere \/ UNCHANGED formVars

LEMMA FormNextCases ==
  ASSUME [FormNext]_formVars
  PROVE  Browsed \/ \E r \in wire : Served(r)
BY DEF FormNext, Browsed, Served

LEMMA BrowsedKeeps ==
  ASSUME Browsed
  PROVE  UNCHANGED <<drafts, records>>
BY DEF Browsed, SalesOrderCreatePage, SalesOrderEditPage, OpenForm, getOrder, Fetched, Enter,
       submit, Unanswered, FormAnswered, LeaveForm, SwitchElsewhere, formVars

\* A form that is new in a step was opened, touched, or has been given a warehouse.
Opened(f) ==
  /\ visits' = visits + 1 /\ f.visit = visits + 1 /\ ~f.touched
  /\ \/ f.order = 0 /\ f.customer = Missing
     \/ /\ f.order # 0 /\ f.order \in DOMAIN drafts /\ f.was \in Stored
        /\ SameOrder(drafts, f.was, f.order) /\ queried[f.order] # Missing
        /\ f.customer = f.was.customer /\ f.warehouse = f.was.warehouse
        /\ f.lines = [i \in DOMAIN f.was.lines |-> Begins(f.was.lines[i])]

Continued(f) ==
  /\ form # Missing
  /\ f.visit = form.visit /\ f.order = form.order /\ f.was = form.was
  /\ \/ f.touched
     \/ form.warehouse = Missing /\ ~form.touched /\ f.customer = form.customer

LEMMA OnTheScreen ==
  ASSUME FormTypeOK, FormQueried, Browsed, form' # Missing
  PROVE  form' = form \/ (form' \in Form /\ (Opened(form') \/ Continued(form')))
<1>0. visits \in Nat /\ queried \in Seq(Stored \cup {Missing})
  BY DEF FormTypeOK
<1>1. CASE SalesOrderCreatePage
  <2>1. form' = Rendered(Blank, options) /\ visits' = visits + 1
    BY <1>1 DEF SalesOrderCreatePage, OpenForm
  <2>2. form' \in Form /\ Opened(form')
    BY <1>0, <2>1, BlankForm, RenderedForm DEF Opened
  <2> QED BY <2>1, <2>2
<1>2. CASE SalesOrderEditPage
  <2>1. PICK o \in DOMAIN drafts : queried[o] # Missing /\ OpenForm(startingValues(o))
    BY <1>2 DEF SalesOrderEditPage
  <2>q. o \in DOMAIN queried /\ SameOrder(drafts, queried[o], o)
    BY <1>0, <2>1, LenProperties DEF FormQueried, FormTypeOK
  <2> DEFINE g == startingValues(o)
  <2>2. form' = Rendered(g, options) /\ visits' = visits + 1
    BY <2>1 DEF OpenForm
  <2>3. /\ g \in Form /\ g.visit = visits + 1 /\ g.order = o /\ g.order # 0
        /\ ~g.touched /\ g.was = queried[o] /\ g.was \in Stored
        /\ g.customer = queried[o].customer /\ g.warehouse = queried[o].warehouse
        /\ g.warehouse # Missing
        /\ g.lines = [i \in DOMAIN queried[o].lines |-> Begins(queried[o].lines[i])]
    BY <1>0, <2>1, <2>q, StartingForm
  <2> HIDE DEF g
  <2>4. form' = g
    BY <2>2, <2>3, RenderedForm
  <2>5. Opened(g)
    BY <2>1, <2>2, <2>3, <2>q DEF Opened
  <2> QED BY <2>2, <2>3, <2>4, <2>5
<1>g. CASE getOrder
  BY <1>g DEF getOrder
<1>3. CASE Fetched
  <2>1. form # Missing /\ form \in Form /\ form' = Rendered(form, company)
    BY <1>3 DEF Fetched, FormTypeOK
  <2>2. form' \in Form /\ (form' = form \/ Continued(form'))
    BY <2>1, RenderedForm DEF Continued
  <2> QED BY <2>1, <2>2
<1>4. CASE Enter
  <2>1. PICK g \in Gestures(form) : form' = Rendered([g EXCEPT !.touched = TRUE], options)
    BY <1>4 DEF Enter
  <2>2. form # Missing /\ form \in Form
    BY <1>4 DEF Enter, FormTypeOK
  <2>3. /\ g \in Form /\ g.visit = form.visit /\ g.order = form.order
        /\ g.was = form.was
    BY <2>1, <2>2, GesturedForm
  <2> DEFINE h == [g EXCEPT !.touched = TRUE]
  <2>4. /\ h \in Form /\ h.visit = form.visit /\ h.order = form.order
        /\ h.was = form.was /\ h.touched
    BY <2>3 DEF Form
  <2> HIDE DEF h
  <2>5. form' \in Form /\ Continued(form')
    BY <2>1, <2>2, <2>4, RenderedForm DEF Continued, h
  <2> QED BY <2>2, <2>5
<1>5. CASE submit
  BY <1>5 DEF submit
<1>6. CASE Unanswered
  BY <1>6 DEF Unanswered
<1>7. CASE FormAnswered
  BY <1>7 DEF FormAnswered
<1>8. CASE LeaveForm
  BY <1>8 DEF LeaveForm
<1>9. CASE SwitchElsewhere
  BY <1>9 DEF SwitchElsewhere
<1>10. CASE UNCHANGED formVars
  BY <1>10 DEF formVars
<1> QED BY <1>1, <1>2, <1>g, <1>3, <1>4, <1>5, <1>6, <1>7, <1>8, <1>9, <1>10 DEF Browsed

LEMMA NewForm ==
  ASSUME FormTypeOK, FormQueried, Browsed, NEW f \in FormsInUse'
  PROVE  f \in FormsInUse \/ (f \in Form /\ (Opened(f) \/ Continued(f)))
<1>1. CASE f = form' /\ form' # Missing
  BY <1>1, OnTheScreen DEF Continued, FormsInUse
<1>2. ASSUME NEW w \in pressed', f = w.entered PROVE f \in FormsInUse
  BY <1>2 DEF FormsInUse, Browsed, SalesOrderCreatePage, SalesOrderEditPage, OpenForm, getOrder,
              Fetched, Enter, submit, Unanswered, FormAnswered, LeaveForm, SwitchElsewhere, formVars
<1> QED BY <1>1, <1>2 DEF FormsInUse

\* Requests and presses.
LEMMA FormPairedStep ==
  ASSUME FormTypeOK, FormNumbered, FormPaired, FormQueried, [FormNext]_formVars
  PROVE  FormPaired'
<1>1. CASE submit
  <2>1. presses \in Nat /\ presses + 1 > presses
    BY DEF FormTypeOK
  <2>2. \A r \in wire : r.press \in Nat /\ r.press <= presses
    BY DEF FormTypeOK, FormNumbered
  <2>3. \A w \in pressed : w.press \in Nat /\ w.press <= presses
    BY DEF FormTypeOK, FormNumbered
  <2>4. \A r \in wire : r.press # presses + 1
    BY <2>1, <2>2
  <2>5. \A w \in pressed : w.press # presses + 1
    BY <2>1, <2>3
  <2>6. /\ Body(form).order = form.order
        /\ Body(form).customer = form.customer /\ Body(form).warehouse = form.warehouse
        /\ Body(form).lines = form.lines
    BY <1>1, BodyOfForm DEF submit
  <2> QED BY <1>1, <2>4, <2>5, <2>6 DEF submit, FormPaired
<1>2. CASE Unanswered
  BY <1>2 DEF Unanswered, FormPaired
<1>3. CASE FormAnswered
  BY <1>3 DEF FormAnswered, FormPaired
<1>4. CASE Browsed /\ ~submit /\ ~Unanswered /\ ~FormAnswered
  <2>1. wire' = wire /\ pressed' = pressed
    BY <1>4 DEF Browsed, SalesOrderCreatePage, SalesOrderEditPage, OpenForm, getOrder, Fetched,
                Enter, LeaveForm, SwitchElsewhere, formVars
  <2> QED BY <2>1 DEF FormPaired
<1>5. ASSUME NEW r \in wire, Served(r) PROVE FormPaired'
  BY <1>5, ServedKeeps DEF FormPaired
<1> QED BY <1>1, <1>2, <1>3, <1>4, <1>5, FormNextCases

\* Orders and records.
LEMMA FormOrdersStep ==
  ASSUME FormTypeOK, FormNumbered, FormOwn, FormKept, FormOnce, [FormNext]_formVars
  PROVE  FormOwn' /\ FormKept' /\ FormOnce'
<1>1. CASE UNCHANGED <<drafts, records>>
  BY <1>1 DEF FormOwn, FormKept, FormOnce
<1>2. ASSUME NEW r \in wire, Served(r), create(r), Orderable(r.body, company),
             ~UNCHANGED <<drafts, records>>
      PROVE  FormOwn' /\ FormKept' /\ FormOnce'
  <2> DEFINE row == Draft(r.body, company, 1, r.visit)
             k == [company |-> company, key |-> r.visit, body |-> r.body,
                   order |-> Len(drafts) + 1, row |-> row]
  <2>1. r.body \in Sent /\ r.visit \in Nat /\ company \in Company
    BY DEF FormTypeOK
  <2>2. row \in Stored /\ OfItsCompany(row) /\ row.company = company /\ row.visit = r.visit
    BY <1>2, <2>1, DraftMade
  <2>3. drafts' = Append(drafts, row) /\ records' = records \cup {k}
    BY <1>2 DEF create, Remember, VisitKey
  <2>4. \A l \in records : ~(l.company = company /\ l.key = r.visit)
    BY <1>2 DEF create, RecordOf, VisitKey
  <2>5. k \in records' /\ k.key = r.visit /\ k.company = company /\ records \subseteq records'
    BY <2>3
  <2> HIDE DEF row, k
  <2>6. drafts \in Seq(Stored) /\ Len(drafts) \in Nat /\ DOMAIN drafts = 1 .. Len(drafts)
    BY LenProperties DEF FormTypeOK
  <2>7. /\ DOMAIN drafts' = 1 .. Len(drafts) + 1
        /\ \A o \in DOMAIN drafts : drafts'[o] = drafts[o]
        /\ drafts'[Len(drafts) + 1] = row
    <3>1. drafts' \in Seq(Stored) /\ Len(drafts') = Len(drafts) + 1
      BY <2>2, <2>3, <2>6, AppendProperties
    <3> QED BY <2>2, <2>3, <2>6, <3>1, AppendProperties, LenProperties
  <2>8. \A o \in DOMAIN drafts' : (o \in DOMAIN drafts /\ drafts'[o] = drafts[o])
                                 \/ (o = Len(drafts) + 1 /\ drafts'[o] = row)
    BY <2>6, <2>7
  <2>9. FormOwn'
    BY <2>2, <2>8 DEF FormOwn, OfItsCompany
  <2>10. FormKept'
    BY <2>2, <2>5, <2>8 DEF FormKept
  <2>11. \A o \in DOMAIN drafts : drafts[o].visit # 0 =>
           ~(drafts[o].visit = row.visit /\ drafts[o].company = row.company)
    BY <2>2, <2>4 DEF FormKept
  <2>12. FormOnce'
    BY <2>8, <2>11 DEF FormOnce
  <2> QED BY <2>9, <2>10, <2>12
<1>3. ASSUME NEW r \in wire, Served(r), update(r), Orderable(r.body, company),
             r.body.order \in DOMAIN drafts, drafts[r.body.order].company = company,
             drafts[r.body.order].version = r.body.version
      PROVE  FormOwn' /\ FormKept' /\ FormOnce'
  <2> DEFINE e == drafts[r.body.order]
             row == Draft(r.body, company, e.version + 1, e.visit)
  <2>0. drafts \in Seq(Stored)
    BY DEF FormTypeOK
  <2>a. e \in Stored
    BY <1>3, <2>0
  <2>1. r.body \in Sent /\ r.visit \in Nat /\ company \in Company
        /\ e.version + 1 \in Nat /\ e.visit \in Nat
    BY <2>a DEF FormTypeOK, Stored
  <2>2. row \in Stored /\ OfItsCompany(row) /\ row.company = e.company /\ row.visit = e.visit
    BY <1>3, <2>1, DraftMade
  <2>3. drafts' = [drafts EXCEPT ![r.body.order] = row] /\ records \subseteq records'
    BY <1>3 DEF update, Remember
  <2> HIDE DEF row
  <2>4. /\ DOMAIN drafts' = DOMAIN drafts
        /\ \A o \in DOMAIN drafts :
             /\ drafts'[o].visit = drafts[o].visit
             /\ drafts'[o].company = drafts[o].company
             /\ drafts'[o] = drafts[o] \/ drafts'[o] = row
    BY <2>2, <2>3
  <2>5. FormOwn'
    BY <2>2, <2>4 DEF FormOwn, OfItsCompany
  <2>6. FormKept'
    <3> SUFFICES ASSUME NEW o \in DOMAIN drafts, drafts'[o].visit # 0
                 PROVE  \E k \in records' : k.key = drafts'[o].visit
                                          /\ k.company = drafts'[o].company
      BY <2>4 DEF FormKept
    <3>1. drafts'[o].visit = drafts[o].visit /\ drafts'[o].company = drafts[o].company
      BY <2>4
    <3>2. PICK k \in records : k.key = drafts[o].visit /\ k.company = drafts[o].company
      BY <3>1 DEF FormKept
    <3>3. k \in records'
      BY <2>3
    <3> QED BY <3>1, <3>2, <3>3
  <2>7. FormOnce'
    <3> SUFFICES ASSUME NEW o \in DOMAIN drafts, NEW p \in DOMAIN drafts,
                        drafts'[o].visit = drafts'[p].visit, drafts'[o].visit # 0,
                        drafts'[o].company = drafts'[p].company
                 PROVE  o = p
      BY <2>4 DEF FormOnce
    <3>1. /\ drafts'[o].visit = drafts[o].visit /\ drafts'[o].company = drafts[o].company
          /\ drafts'[p].visit = drafts[p].visit /\ drafts'[p].company = drafts[p].company
      BY <2>4
    <3>2. /\ drafts[o].visit = drafts[p].visit /\ drafts[o].visit # 0
          /\ drafts[o].company = drafts[p].company
      BY <3>1
    <3> QED BY <3>2 DEF FormOnce
  <2> QED BY <2>5, <2>6, <2>7
<1>4. CASE Browsed
  BY <1>1, <1>4, BrowsedKeeps
<1>5. ASSUME NEW r \in wire, Served(r) PROVE FormOwn' /\ FormKept' /\ FormOnce'
  BY <1>1, <1>2, <1>3, <1>5, ServedChanges
<1> QED BY <1>4, <1>5, FormNextCases

\* The server keeps the company and the visit of every order, and what the cache has.
LEMMA ServedKeepsOrders ==
  ASSUME FormTypeOK, FormNumbered, FormQueried, NEW r \in wire, Served(r)
  PROVE  /\ \A o \in DOMAIN drafts :
              /\ o \in DOMAIN drafts'
              /\ drafts'[o].company = drafts[o].company /\ drafts'[o].visit = drafts[o].visit
         /\ Len(queried') = Len(drafts')
         /\ \A o \in DOMAIN queried : o \in DOMAIN queried' /\ queried'[o] = queried[o]
         /\ \A o \in DOMAIN queried' : o \in DOMAIN queried \/ queried'[o] = Missing
<1>1. /\ drafts \in Seq(Stored) /\ Len(drafts) \in Nat /\ DOMAIN drafts = 1 .. Len(drafts)
      /\ queried \in Seq(Stored \cup {Missing}) /\ DOMAIN queried = 1 .. Len(drafts)
      /\ Len(queried) = Len(drafts)
  BY LenProperties DEF FormTypeOK, FormQueried
<1>2. CASE UNCHANGED <<drafts, queried>>
  BY <1>1, <1>2
<1>3. ASSUME NEW row \in Stored, drafts' = Append(drafts, row), queried' = Append(queried, Missing)
      PROVE  /\ \A o \in DOMAIN drafts : o \in DOMAIN drafts' /\ drafts'[o] = drafts[o]
             /\ Len(queried') = Len(drafts')
             /\ \A o \in DOMAIN queried : o \in DOMAIN queried' /\ queried'[o] = queried[o]
             /\ \A o \in DOMAIN queried' : o \in DOMAIN queried \/ queried'[o] = Missing
  <2>1. /\ drafts' \in Seq(Stored) /\ Len(drafts') = Len(drafts) + 1
        /\ \A o \in 1 .. Len(drafts) : drafts'[o] = drafts[o]
    BY <1>1, <1>3, AppendProperties
  <2>2. /\ queried' \in Seq(Stored \cup {Missing}) /\ Len(queried') = Len(drafts) + 1
        /\ \A o \in 1 .. Len(drafts) : queried'[o] = queried[o]
        /\ queried'[Len(drafts) + 1] = Missing
    BY <1>1, <1>3, AppendProperties
  <2>3. DOMAIN drafts' = 1 .. Len(drafts) + 1 /\ DOMAIN queried' = 1 .. Len(drafts) + 1
    BY <2>1, <2>2, LenProperties
  <2>4. \A o \in 1 .. Len(drafts) + 1 : o \in 1 .. Len(drafts) \/ o = Len(drafts) + 1
    BY <1>1
  <2> QED BY <1>1, <2>1, <2>2, <2>3, <2>4
<1>4. ASSUME NEW o \in DOMAIN drafts, NEW row \in Stored,
             row.company = drafts[o].company, row.visit = drafts[o].visit,
             drafts' = [drafts EXCEPT ![o] = row], queried' = queried
      PROVE  /\ \A p \in DOMAIN drafts :
                  /\ p \in DOMAIN drafts'
                  /\ drafts'[p].company = drafts[p].company /\ drafts'[p].visit = drafts[p].visit
             /\ Len(queried') = Len(drafts')
  <2>1. Len(drafts') = Len(drafts) /\ DOMAIN drafts' = DOMAIN drafts
    BY <1>1, <1>4, ExceptSeq
  <2> QED BY <1>1, <1>4, <2>1
<1>5. CASE update(r) /\ Orderable(r.body, company) /\ r.body.order \in DOMAIN drafts
           /\ drafts[r.body.order].company = company
  <2> DEFINE e == drafts[r.body.order]
             row == Draft(r.body, company, e.version + 1, e.visit)
  <2>1. row.company = company /\ row.visit = e.visit
    BY DEF Draft
  <2> HIDE DEF row
  <2>2. \/ UNCHANGED <<drafts, queried>>
        \/ row \in Stored /\ drafts' = [drafts EXCEPT ![r.body.order] = row] /\ queried' = queried
        \/ \E x \in Stored : drafts' = Append(drafts, x) /\ queried' = Append(queried, Missing)
    BY ServedChanges DEF row
  <2> QED BY <1>2, <1>3, <1>4, <1>5, <2>1, <2>2
<1>6. CASE ~(update(r) /\ Orderable(r.body, company) /\ r.body.order \in DOMAIN drafts
             /\ drafts[r.body.order].company = company)
  <2>1. \/ UNCHANGED <<drafts, queried>>
        \/ \E x \in Stored : drafts' = Append(drafts, x) /\ queried' = Append(queried, Missing)
    BY <1>6, ServedChanges
  <2> QED BY <1>2, <1>3, <2>1
<1> QED BY <1>5, <1>6

\* The cache.
LEMMA FormQueriedStep ==
  ASSUME FormTypeOK, FormNumbered, FormQueried, FormBegun, [FormNext]_formVars
  PROVE  FormQueried'
<1>0. /\ drafts \in Seq(Stored) /\ Len(drafts) \in Nat /\ DOMAIN drafts = 1 .. Len(drafts)
      /\ queried \in Seq(Stored \cup {Missing}) /\ DOMAIN queried = 1 .. Len(drafts)
  BY LenProperties DEF FormTypeOK, FormQueried
<1>1. CASE getOrder
  <2>1. PICK o \in DOMAIN drafts : queried' = [queried EXCEPT ![o] = drafts[o]]
    BY <1>1 DEF getOrder
  <2>2. drafts[o] # Missing
    BY <1>0, <2>1, FormAssumption
  <2>3. Len(queried') = Len(queried) /\ DOMAIN queried' = DOMAIN queried
    BY <1>0, <2>1, ExceptSeq
  <2>4. \A p \in DOMAIN queried : queried'[p] = queried[p] \/ queried'[p] = drafts[p]
    BY <1>0, <2>1
  <2>5. \A p \in DOMAIN queried : queried[p] # Missing => queried'[p] # Missing
    BY <1>0, <2>1, <2>2
  <2>6. form' = form /\ drafts' = drafts
    BY <1>1 DEF getOrder
  <2> QED BY <1>0, <2>3, <2>4, <2>5, <2>6 DEF FormQueried, SameOrder
<1>2. CASE Browsed /\ ~getOrder
  <2>1. UNCHANGED <<drafts, queried>>
    BY <1>2 DEF Browsed, SalesOrderCreatePage, SalesOrderEditPage, OpenForm, Fetched, Enter,
                submit, Unanswered, FormAnswered, LeaveForm, SwitchElsewhere, formVars
  <2>2. ASSUME form' # Missing, form'.order # 0
        PROVE  form'.order \in DOMAIN queried /\ queried[form'.order] # Missing
    <3>1. form' \in FormsInUse'
      BY <2>2 DEF FormsInUse
    <3>2. CASE form' = form
      BY <2>2, <3>2 DEF FormQueried
    <3>3. CASE Opened(form')
      BY <1>0, <2>2, <3>3 DEF Opened
    <3>4. CASE Continued(form')
      BY <2>2, <3>4 DEF Continued, FormQueried
    <3> QED BY <1>2, <2>2, <3>2, <3>3, <3>4, OnTheScreen
  <2> QED BY <2>1, <2>2 DEF FormQueried, SameOrder
<1>3. ASSUME NEW r \in wire, Served(r) PROVE FormQueried'
  <2>1. form' = form
    BY <1>3, ServedKeeps
  <2> QED BY <1>0, <1>3, <2>1, ServedKeepsOrders DEF FormQueried, SameOrder
<1> QED BY <1>1, <1>2, <1>3, FormNextCases

\* Forms and the orders they began from.
LEMMA FormBegunStep ==
  ASSUME FormTypeOK, FormNumbered, FormQueried, FormBegun, [FormNext]_formVars
  PROVE  FormBegun'
<1>1. CASE Browsed
  <2>1. drafts' = drafts
    BY <1>1, BrowsedKeeps
  <2> SUFFICES ASSUME NEW f \in FormsInUse' PROVE BegunAs(drafts, f)
    BY <2>1 DEF FormBegun, BegunAs, SameOrder
  <2>2. CASE f \in FormsInUse
    BY <2>2 DEF FormBegun
  <2>3. CASE f \in Form /\ Opened(f)
    BY <2>3 DEF Opened, BegunAs
  <2>4. CASE f \in Form /\ Continued(f)
    <3>1. form \in FormsInUse /\ BegunAs(drafts, form) /\ form \in Form
      BY <2>4 DEF Continued, FormsInUse, FormBegun, FormTypeOK
    <3>2. CASE f.order = 0
      BY <2>4, <3>1, <3>2 DEF Continued, BegunAs
    <3>3. CASE f.order # 0
      <4>1. form.touched \/ form.warehouse = form.was.warehouse
        BY <2>4, <3>1, <3>3 DEF Continued, BegunAs
      <4>2. form.was \in Stored
        BY <2>4, <3>1, <3>3 DEF Continued, BegunAs
      <4>3. form.was.warehouse # Missing
        BY <4>2, FormAssumption DEF Stored
      <4>4. f.touched
        BY <2>4, <4>1, <4>3 DEF Continued
      <4> QED BY <2>4, <3>1, <3>3, <4>4 DEF Continued, BegunAs
    <3> QED BY <3>2, <3>3
  <2> QED BY <1>1, <2>2, <2>3, <2>4, NewForm
<1>2. ASSUME NEW r \in wire, Served(r) PROVE FormBegun'
  <2>1. FormsInUse' = FormsInUse
    BY <1>2, ServedKeeps
  <2> SUFFICES ASSUME NEW f \in FormsInUse PROVE BegunAs(drafts', f)
    BY <2>1 DEF FormBegun, BegunAs, SameOrder
  <2>2. BegunAs(drafts, f)
    BY DEF FormBegun
  <2>3. \A o \in DOMAIN drafts :
          /\ o \in DOMAIN drafts'
          /\ drafts'[o].company = drafts[o].company /\ drafts'[o].visit = drafts[o].visit
    BY <1>2, ServedKeepsOrders
  <2> QED BY <2>2, <2>3 DEF BegunAs, SameOrder
<1> QED BY <1>1, <1>2, FormNextCases

\* What came of a body stays so, for the orders keep their companies and visits.
LEMMA CameOfStays ==
  ASSUME NEW rows, NEW later, NEW o, NEW row, NEW body, NEW n, CameOf(rows, o, row, body, n),
         \A p \in DOMAIN rows :
           /\ p \in DOMAIN later
           /\ later[p].company = rows[p].company /\ later[p].visit = rows[p].visit
  PROVE  CameOf(later, o, row, body, n)
BY DEF CameOf, SameOrder

\* A new order is what came of its request.
LEMMA CreatedSays ==
  ASSUME FormTypeOK, NEW r \in wire, create(r)
  PROVE  CameOf(drafts', Len(drafts) + 1, Draft(r.body, company, 1, r.visit), r.body, r.visit)
<1> DEFINE row == Draft(r.body, company, 1, r.visit)
<1>1. /\ r.body \in Sent /\ r.visit \in Nat /\ company \in Company /\ r.body.order = 0
      /\ Orderable(r.body, company) /\ drafts' = Append(drafts, row)
      /\ drafts \in Seq(Stored) /\ Len(drafts) \in Nat
  BY LenProperties DEF FormTypeOK, create
<1>2. row \in Stored /\ row.visit = r.visit /\ Says(row, r.body)
  BY <1>1, DraftMade DEF Says
<1> HIDE DEF row
<1>3. /\ drafts' \in Seq(Stored) /\ Len(drafts') = Len(drafts) + 1
      /\ drafts'[Len(drafts) + 1] = row
  BY <1>1, <1>2, AppendProperties
<1>4. Len(drafts) + 1 \in DOMAIN drafts'
  BY <1>1, <1>3, LenProperties
<1>5. CameOf(drafts', Len(drafts) + 1, row, r.body, r.visit)
  BY <1>1, <1>2, <1>3, <1>4 DEF CameOf, SameOrder, Says
<1> QED BY <1>5 DEF row

\* An order saved again is what came of the request that had its version.
LEMMA UpdatedSays ==
  ASSUME FormTypeOK, FormNumbered, NEW r \in wire, update(r),
         drafts[r.body.order].version = r.body.version
  PROVE  LET existing == drafts[r.body.order]
             row == Draft(r.body, company, existing.version + 1, existing.visit) IN
         CameOf(drafts', r.body.order, row, r.body, r.visit)
<1> DEFINE e == drafts[r.body.order]
           row == Draft(r.body, company, e.version + 1, e.visit)
<1>1. /\ r.body \in Sent /\ company \in Company /\ r.body.order # 0
      /\ Orderable(r.body, company) /\ e.company = company
      /\ drafts' = [drafts EXCEPT ![r.body.order] = row]
  BY DEF FormTypeOK, update
<1>2. r.body.order \in DOMAIN drafts /\ e \in Stored
  BY <1>1 DEF FormTypeOK, FormNumbered
<1>3. e.version + 1 \in Nat /\ e.visit \in Nat
  BY <1>2 DEF Stored
<1>4. row \in Stored /\ row.version = r.body.version + 1 /\ Says(row, r.body)
  BY <1>1, <1>3, DraftMade DEF Says
<1> HIDE DEF row
<1>5. r.body.order \in DOMAIN drafts' /\ drafts'[r.body.order] = row
  BY <1>1, <1>2
<1>6. CameOf(drafts', r.body.order, row, r.body, r.visit)
  BY <1>1, <1>4, <1>5 DEF CameOf, SameOrder, Says
<1> QED BY <1>6 DEF row

\* Whatever is remembered of a request, or answered to it, is what came of it.
LEMMA ServedSays ==
  ASSUME FormTypeOK, FormNumbered, FormQueried, FormRecorded, NEW r \in wire, Served(r)
  PROVE  /\ \A k \in records' : k \in records \/ CameOf(drafts', k.order, k.row, k.body, k.key)
         /\ \A a \in replies' :
              \/ a \in replies
              \/ /\ a.press = r.press
                 /\ a.outcome = "done" => CameOf(drafts', a.order, a.row, r.body, r.visit)
<1>1. CASE Replay(r)
  <2>1. records' = records /\ drafts' = drafts
    BY <1>1 DEF Replay
  <2>2. PICK k \in RecordOf(VisitKey(r)) :
          IF SameRequest(k, r) THEN Respond(r, "done", k.order, k.row)
                               ELSE Respond(r, "refused", 0, Missing)
    BY <1>1 DEF Replay
  <2>3. SameRequest(k, r) => CameOf(drafts, k.order, k.row, r.body, r.visit)
    BY DEF SameRequest, RecordOf, VisitKey, FormRecorded
  <2>4. SameRequest(k, r) => CameOf(drafts', k.order, k.row, r.body, r.visit)
    BY <2>1, <2>3 DEF CameOf, SameOrder, Says
  <2> QED BY <2>1, <2>2, <2>4 DEF Respond
<1>2. CASE create(r)
  <2> DEFINE row == Draft(r.body, company, 1, r.visit)
             new == [company |-> company, key |-> r.visit, body |-> r.body,
                     order |-> Len(drafts) + 1, row |-> row]
  <2>1. Respond(r, "done", Len(drafts) + 1, row) /\ records' = records \cup {new}
    BY <1>2 DEF create, Remember, VisitKey
  <2>2. CameOf(drafts', Len(drafts) + 1, row, r.body, r.visit)
    BY <1>2, CreatedSays
  <2>3. new.order = Len(drafts) + 1 /\ new.row = row /\ new.body = r.body /\ new.key = r.visit
    OBVIOUS
  <2> HIDE DEF row, new
  <2> QED BY <2>1, <2>2, <2>3 DEF Respond
<1>3. CASE update(r)
  <2> DEFINE e == drafts[r.body.order]
             row == Draft(r.body, company, e.version + 1, e.visit)
             new == [company |-> company, key |-> r.visit, body |-> r.body,
                     order |-> r.body.order, row |-> row]
  <2>1. CASE e.version = r.body.version
    <3>1. Respond(r, "done", r.body.order, row) /\ records' = records \cup {new}
      BY <1>3, <2>1 DEF update, Remember, VisitKey
    <3>2. CameOf(drafts', r.body.order, row, r.body, r.visit)
      BY <1>3, <2>1, UpdatedSays
    <3>3. new.order = r.body.order /\ new.row = row /\ new.body = r.body /\ new.key = r.visit
      OBVIOUS
    <3> HIDE DEF row, new
    <3> QED BY <3>1, <3>2, <3>3 DEF Respond
  <2>2. CASE e.version # r.body.version
    BY <1>3, <2>2 DEF update, Respond
  <2> QED BY <2>1, <2>2
<1>4. CASE Refuse(r)
  BY <1>4 DEF Refuse, Respond
<1> QED BY <1>1, <1>2, <1>3, <1>4 DEF Served

LEMMA FormRecordedStep ==
  ASSUME FormTypeOK, FormNumbered, FormQueried, FormRecorded, [FormNext]_formVars
  PROVE  FormRecorded'
<1>1. CASE Browsed
  <2>1. records' = records /\ drafts' = drafts
    BY <1>1, BrowsedKeeps
  <2> QED BY <2>1 DEF FormRecorded, CameOf, SameOrder, Says
<1>2. ASSUME NEW r \in wire, Served(r) PROVE FormRecorded'
  <2> SUFFICES ASSUME NEW k \in records' PROVE CameOf(drafts', k.order, k.row, k.body, k.key)
    BY DEF FormRecorded, CameOf, SameOrder, Says
  <2>1. CASE k \in records
    <3>1. CameOf(drafts, k.order, k.row, k.body, k.key)
      BY <2>1 DEF FormRecorded
    <3> QED BY <1>2, <3>1, CameOfStays, ServedKeepsOrders
  <2> QED BY <1>2, <2>1, ServedSays
<1> QED BY <1>1, <1>2, FormNextCases

\* What came of the body of a press tells of the press: the row it became is the row
\* the form began from, one version on, if nobody touched the form.
LEMMA CameOfPress ==
  ASSUME NEW rows, NEW w, w.entered \in Form, w.body \in Sent, BegunAs(rows, w.entered),
         w.visit = w.entered.visit, w.body.order = w.entered.order,
         w.body.customer = w.entered.customer, w.body.warehouse = w.entered.warehouse,
         w.body.lines = w.entered.lines,
         NEW a, CameOf(rows, a.order, a.row, w.body, w.visit)
  PROVE  Saved(rows, a, w)
<1> DEFINE f == w.entered
           row == a.row
<1>1. /\ a.order \in DOMAIN rows /\ row \in Stored /\ SameOrder(rows, row, a.order)
      /\ Says(row, w.body)
      /\ IF w.body.order = 0 THEN row.visit = w.visit
                             ELSE a.order = w.body.order /\ row.version = w.body.version + 1
  BY DEF CameOf
<1>2. IF f.order = 0 THEN rows[a.order].visit = f.visit ELSE a.order = f.order
  BY <1>1 DEF SameOrder
<1>3. Says(row, f)
  BY <1>1 DEF Says
<1>4. ASSUME ~f.touched, w.body.version = f.was.version
      PROVE  row = [f.was EXCEPT !.version = @ + 1]
  <2>1. f.order # 0
    <3>1. row.customer = f.customer /\ row.customer # Missing
      BY <1>1, <1>3, FormAssumption DEF Says, Stored
    <3> QED BY <1>4, <3>1 DEF BegunAs
  <2>2. /\ f.was \in Stored /\ SameOrder(rows, f.was, f.order)
        /\ f.customer = f.was.customer /\ f.warehouse = f.was.warehouse
        /\ f.lines = [i \in DOMAIN f.was.lines |-> Begins(f.was.lines[i])]
    BY <1>4, <2>1 DEF BegunAs
  <2>3. a.order = f.order /\ row.version = f.was.version + 1
    BY <1>1, <1>4, <2>1
  <2>4. row.company = f.was.company /\ row.visit = f.was.visit
    BY <1>1, <2>2, <2>3 DEF SameOrder
  <2>5. row.customer = f.was.customer /\ row.warehouse = f.was.warehouse
    BY <1>3, <2>2 DEF Says
  <2>6. row.lines = f.was.lines
    BY <1>3, <2>2, FiguresUndoStarting DEF Says
  <2> HIDE DEF f, row
  <2> QED BY <1>1, <2>2, <2>3, <2>4, <2>5, <2>6 DEF Stored
<1> QED BY <1>1, <1>2, <1>3, <1>4 DEF Saved

LEMMA FormRepliesStep ==
  ASSUME FormTypeOK, FormNumbered, FormPaired, FormQueried, FormBegun, FormBegun', FormRecorded,
         FormReplies, [FormNext]_formVars
  PROVE  FormReplies'
<1>1. CASE submit
  <2>1. presses \in Nat /\ \A a \in replies : a.press \in Nat /\ a.press <= presses
    BY DEF FormTypeOK, FormNumbered, FormReply
  <2>2. \A a \in replies : a.press # presses + 1
    BY <2>1
  <2> QED BY <1>1, <2>2 DEF submit, FormReplies, Saved, Says
<1>2. CASE Browsed /\ ~submit
  <2>1. replies' \subseteq replies /\ pressed' \subseteq pressed /\ drafts' = drafts
    BY <1>2 DEF Browsed, SalesOrderCreatePage, SalesOrderEditPage, OpenForm, getOrder, Fetched,
                Enter, Unanswered, FormAnswered, LeaveForm, SwitchElsewhere, formVars
  <2> QED BY <2>1 DEF FormReplies, Saved, Says
<1>3. ASSUME NEW r \in wire, Served(r) PROVE FormReplies'
  <2>1. pressed' = pressed
    BY <1>3, ServedKeeps
  <2> SUFFICES ASSUME NEW a \in replies', NEW w \in pressed, a.press = w.press,
                      a.outcome = "done"
               PROVE  Saved(drafts', a, w)
    BY <2>1 DEF FormReplies, Saved, Says
  <2>2. CASE a \in replies
    <3>1. Saved(drafts, a, w)
      BY <2>2 DEF FormReplies
    <3> QED BY <1>3, <3>1, ServedKeepsOrders DEF Saved, Says
  <2>3. CASE a \notin replies
    <3>1. a.press = r.press /\ CameOf(drafts', a.order, a.row, r.body, r.visit)
      BY <1>3, <2>3, ServedSays
    <3>2. /\ r.visit = w.visit /\ r.body = w.body /\ w.visit = w.entered.visit
          /\ w.body.order = w.entered.order /\ w.body.customer = w.entered.customer
          /\ w.body.warehouse = w.entered.warehouse /\ w.body.lines = w.entered.lines
      BY <3>1 DEF FormPaired
    <3>3. w.entered \in Form /\ w.body \in Sent /\ w.entered \in FormsInUse'
      BY <2>1 DEF FormTypeOK, FormsInUse
    <3>4. BegunAs(drafts', w.entered)
      BY <3>3 DEF FormBegun
    <3>5. CameOf(drafts', a.order, a.row, w.body, w.visit)
      BY <3>1, <3>2
    <3> QED BY <3>2, <3>3, <3>4, <3>5, CameOfPress
  <2> QED BY <2>2, <2>3
<1> QED BY <1>1, <1>2, <1>3, FormNextCases

LEMMA FormWentStep ==
  ASSUME FormTypeOK, FormNumbered, FormQueried, FormReplies, FormWent, [FormNext]_formVars
  PROVE  FormWent'
<1>1. CASE FormAnswered
  <2>1. PICK a \in replies, w \in pressed :
          /\ a.press = w.press
          /\ went' = IF a.outcome = "done"
                       THEN [order |-> a.order, row |-> a.row, press |-> w] ELSE went
          /\ drafts' = drafts
    BY <1>1 DEF FormAnswered
  <2>2. CASE a.outcome = "done"
    <3>1. Saved(drafts, a, w)
      BY <2>1, <2>2 DEF FormReplies
    <3>2. went'.order = a.order /\ went'.row = a.row /\ went'.press = w
      BY <2>1, <2>2
    <3> QED BY <2>1, <3>1, <3>2 DEF FormWent, Saved, Says
  <2>3. CASE a.outcome # "done"
    BY <2>1, <2>3 DEF FormWent, Saved, Says
  <2> QED BY <2>2, <2>3
<1>2. CASE Browsed /\ ~FormAnswered
  <2>1. went' = went /\ drafts' = drafts
    BY <1>2 DEF Browsed, SalesOrderCreatePage, SalesOrderEditPage, OpenForm, getOrder, Fetched,
                Enter, submit, Unanswered, LeaveForm, SwitchElsewhere, formVars
  <2> QED BY <2>1 DEF FormWent, Saved, Says
<1>3. ASSUME NEW r \in wire, Served(r) PROVE FormWent'
  <2>1. went' = went
    BY <1>3, ServedKeeps
  <2> QED BY <1>3, <2>1, ServedKeepsOrders DEF FormWent, Saved, Says
<1> QED BY <1>1, <1>2, <1>3, FormNextCases

\* The invariant of the form, in whatever order requests and answers arrive: an order
\* a visit made is remembered under its key and company; a form that nobody touched
\* says what the cache had of its order when the form mounted, however often the order
\* was read again since; and a remembered success names the order its body was saved
\* to, at the version after the one that was sent.  (SalesOrderCreatePage,
\* SalesOrderEditPage, runIdempotently)
THEOREM FormInvHolds == FormSpec => []FormInv
<1>1. FormInv /\ [FormNext]_formVars => FormInv'
  BY FormTypeStep, FormNumberedStep, FormPairedStep, FormOrdersStep, FormQueriedStep,
     FormBegunStep, FormRecordedStep, FormRepliesStep, FormWentStep DEF FormInv
<1> QED BY <1>1, FormInitInv, PTL DEF FormSpec

\* One visit to the form makes one order in a company, for any master data, figures
\* pressed, answers lost and moves to other companies; and the orders it makes in two
\* companies have nothing of what was entered in common.  (SalesOrderCreatePage's key,
\* held per company, and findById, which knows no row of another.)
THEOREM OneOrder == FormSpec => []OneOrderPerForm
<1>1. FormInv => OneOrderPerForm
  <2> SUFFICES ASSUME FormInv, NEW o \in DOMAIN drafts, NEW p \in DOMAIN drafts,
                      drafts[o].visit = drafts[p].visit, drafts[o].visit # 0, o # p
               PROVE  /\ drafts[o].company # drafts[p].company
                      /\ drafts[o].customer # drafts[p].customer
                      /\ drafts[o].warehouse # drafts[p].warehouse
                      /\ \A i \in DOMAIN drafts[o].lines, j \in DOMAIN drafts[p].lines :
                           drafts[o].lines[i].product # drafts[p].lines[j].product
    BY DEF OneOrderPerForm
  <2>1. drafts[o].company # drafts[p].company
    BY DEF FormInv, FormOnce
  <2>2. OfItsCompany(drafts[o]) /\ OfItsCompany(drafts[p])
    BY DEF FormInv, FormOwn
  <2> QED BY <2>1, <2>2 DEF OfItsCompany
<1> QED BY <1>1, FormInvHolds, PTL

\* The order a success moves the screen to is the one of the form, and what was saved
\* of it is what the form said when the button was pressed, however many answers were
\* lost, whoever else saved the order, whatever the texts and however often the order
\* was read again; saved from a form that nobody touched it is what it was, if the
\* cache still had the version the form began from.  (runIdempotently's fingerprint,
\* startingValues and price, the version of SalesOrderEditPage's mutation.)
THEOREM SavedIsEntered == FormSpec => []SavedIsWhatWasEntered
<1>1. FormInv => SavedIsWhatWasEntered
  BY DEF FormInv, FormWent, Saved, Says, Figures, SavedIsWhatWasEntered
<1> QED BY <1>1, FormInvHolds, PTL

-----------------------------------------------------------------------------
(* A document that others write: types *)

DocStatuses == {"draft", "confirmed", "posted", "cancelled"}

Kept == {"confirmed", "posted", "cancelled", "entry"}

Seen == [status : DocStatuses \cup {None}, version : Nat, lines : Nat, list : SUBSET Kept]

\* The last statement of a read.
Detail(what) ==
  CASE what = "view" -> "lines" [] what = "trail" -> "events" [] what = "journal" -> "entries"

First(what) == IF what = "view" THEN "header" ELSE "exists"

\* What is left of a read: both statements, the last one, or none.
Rests(what) == {<<First(what), Detail(what)>>, <<Detail(what)>>, <<>>}

ARead == [what : {"view", "trail", "journal"},
          rest : UNION {Rests(what) : what \in {"view", "trail", "journal"}}, seen : Seen]

AQuery == [data : Seen \cup {None}, tried : BOOLEAN, failed : BOOLEAN]

ReadingTypeOK ==
  /\ kind \in {"order", "invoice"}
  /\ doc \in [status : DocStatuses, version : Nat, lines : Nat]
  /\ entries \subseteq {"entry"} /\ events \subseteq {"confirmed", "posted", "cancelled"}
  /\ succeeded \in BOOLEAN
  /\ reads \subseteq ARead
  /\ \A r \in reads : r.what \in Panels /\ r.rest \in Rests(r.what)
  /\ query \in [Panels -> AQuery]
  /\ call \in [1 .. MaxCalls -> {"none", "sent", "done", "refused"}]
  /\ waiting \in 0 .. MaxCalls
  /\ told \subseteq Panels
  /\ begun \in Nat /\ lost \in Nat

LEMMA PanelNames ==
  ASSUME kind \in {"order", "invoice"}
  PROVE
  /\ Panels \subseteq {"view", "trail", "journal"} /\ "view" \in Panels /\ "trail" \in Panels
  /\ PrefixMatch \subseteq Panels
  /\ kind = "invoice" => PrefixMatch = Panels
  /\ Panels \ {"view"} \subseteq PrefixMatch
  /\ kind # "invoice" => "journal" \notin Panels
BY DEF Panels, PrefixMatch

LEMMA ReadType ==
  ASSUME NEW q \in Panels
  PROVE  /\ read(q) \in ARead
         /\ read(q).what = q /\ read(q).rest = <<First(q), Detail(q)>>
         /\ read(q).rest \in Rests(q) /\ read(q).rest # <<>>
         /\ read(q).seen = Unread
<1>1. q \in {"view", "trail", "journal"} /\ (kind = "order" => q # "journal")
  BY DEF Panels
<1>2. Statements(q) = <<First(q), Detail(q)>>
  BY <1>1 DEF Statements, readInOrder, readInInvoice, orderTrail, invoiceTrail, postingJournal,
              First, Detail
<1>3. Unread \in Seen
  BY DEF Unread, Seen
<1>4. Statements(q) \in Rests(q)
  BY <1>2 DEF Rests
<1> QED BY <1>1, <1>2, <1>3, <1>4 DEF read, ARead

\* A statement of a read, and what is left after it.
LEMMA NextStatement ==
  ASSUME NEW what \in {"view", "trail", "journal"}, NEW rest \in Rests(what), rest # <<>>
  PROVE  /\ Tail(rest) \in Rests(what)
         /\ \/ rest = <<First(what), Detail(what)>> /\ Head(rest) = First(what)
               /\ Tail(rest) = <<Detail(what)>>
            \/ rest = <<Detail(what)>> /\ Head(rest) = Detail(what) /\ Tail(rest) = <<>>
<1>1. CASE rest = <<First(what), Detail(what)>>
  <2>1. Head(rest) = First(what) /\ Tail(rest) = <<Detail(what)>>
    BY <1>1
  <2> QED BY <1>1, <2>1 DEF Rests
<1>2. CASE rest = <<Detail(what)>>
  <2>1. Head(rest) = Detail(what) /\ Tail(rest) = <<>>
    BY <1>2
  <2> QED BY <1>2, <2>1 DEF Rests
<1> QED BY <1>1, <1>2 DEF Rests

LEMMA RestsDiffer ==
  ASSUME NEW what
  PROVE  /\ <<First(what), Detail(what)>> # <<>> /\ <<Detail(what)>> # <<>>
         /\ <<First(what), Detail(what)>> # <<Detail(what)>>
OBVIOUS

LEMMA SeeType ==
  ASSUME ReadingTypeOK, NEW statement \in {"exists", "header", "lines", "events", "entries"},
         NEW seen \in Seen
  PROVE  /\ See(statement, seen) \in Seen
         /\ statement = "exists" => See(statement, seen) = seen
         /\ statement = "header" => /\ See(statement, seen).status = doc.status
                                    /\ See(statement, seen).version = doc.version
         /\ statement = "lines" => /\ See(statement, seen).status = seen.status
                                   /\ See(statement, seen).version = seen.version
                                   /\ See(statement, seen).lines = doc.lines
         /\ statement = "events" => See(statement, seen).list = events
         /\ statement = "entries" => See(statement, seen).list = entries
<1>1. CASE statement = "exists"
  BY <1>1 DEF See
<1>2. CASE statement = "header"
  <2>1. See(statement, seen) = [seen EXCEPT !.status = doc.status, !.version = doc.version]
    BY <1>2 DEF See, findById
  <2> QED BY <1>2, <2>1 DEF ReadingTypeOK, Seen
<1>3. CASE statement = "lines"
  <2>1. See(statement, seen) = [seen EXCEPT !.lines = doc.lines]
    BY <1>3 DEF See, listLines
  <2> QED BY <1>3, <2>1 DEF ReadingTypeOK, Seen
<1>4. CASE statement = "events"
  <2>1. See(statement, seen) = [seen EXCEPT !.list = events]
    BY <1>4 DEF See, listForEntity
  <2> QED BY <1>4, <2>1 DEF ReadingTypeOK, Seen, Kept
<1>5. CASE statement = "entries"
  <2>1. See(statement, seen) = [seen EXCEPT !.list = entries]
    BY <1>5 DEF See, listForSourceDocument
  <2> QED BY <1>5, <2>1 DEF ReadingTypeOK, Seen, Kept
<1> QED BY <1>1, <1>2, <1>3, <1>4, <1>5

\* The header of a document after a write.
LEMMA HeaderType ==
  ASSUME NEW d \in [status : DocStatuses, version : Nat, lines : Nat],
         NEW status \in DocStatuses, NEW version \in Nat, NEW lines \in Nat
  PROVE  /\ [d EXCEPT !.version = version, !.lines = lines]
              \in [status : DocStatuses, version : Nat, lines : Nat]
         /\ [d EXCEPT !.version = version, !.lines = lines].status = d.status
         /\ [d EXCEPT !.version = version, !.lines = lines].version = version
         /\ [d EXCEPT !.version = version, !.lines = lines].lines = lines
         /\ [d EXCEPT !.status = status, !.version = version]
              \in [status : DocStatuses, version : Nat, lines : Nat]
         /\ [d EXCEPT !.status = status, !.version = version].status = status
         /\ [d EXCEPT !.status = status, !.version = version].version = version
OBVIOUS

LEMMA NotNone ==
  ASSUME NEW seen \in Seen
  PROVE  seen # None
BY ReadingAssumption DEF Seen, DocStatuses, Kept

-----------------------------------------------------------------------------
(* A document that others write: the invariant *)

\* The lines of a draft are those of its version.
DraftLines == doc.status = "draft" => doc.lines = doc.version

\* What was seen is not newer than the document, and not torn if it is as new.
Whole(seen) ==
  /\ seen.version <= doc.version
  /\ doc.status = "draft" /\ seen.version = doc.version => seen.lines = doc.lines

ViewsWhole ==
  /\ \A r \in reads : r.what = "view" =>
       /\ r.rest = <<Detail(r.what)>> => r.seen.version <= doc.version
       /\ r.rest = <<>> => Whole(r.seen)
  /\ query["view"].data # None => Whole(query["view"].data)

\* What the document and the ledger are once the key has succeeded.
Final ==
  /\ kind = "invoice" => doc.status \in {"draft", "posted"}
  /\ (\E n \in 1 .. MaxCalls : call[n] = "done") => succeeded
  /\ succeeded => doc.status # "draft" /\ events # {} /\ (kind = "invoice" => entries # {})
  /\ waiting # 0 => query["view"].data # None

OneFetch == \A r, s \in reads : r.what = s.what => r = s

\* An invoice shown as posted is posted, and no read under way has seen a draft.
PostedKnown ==
  kind = "invoice" =>
    /\ \A r \in reads : r.what = "view" /\ r.seen.status = "posted" => doc.status = "posted"
    /\ ShownStatus = "posted" =>
         /\ doc.status = "posted"
         /\ \A r \in reads : r.what = "view" =>
              r.rest = <<First("view"), Detail("view")>> \/ r.seen.status = "posted"

\* A panel that was on screen then has been asked for since, and an answer tells.
PanelTold(q) ==
  /\ succeeded /\ query[q].data # None
  /\ \A r \in Fetches(q) : r.rest = <<>> => r.seen.list # {}
  /\ Fetches(q) # {} \/ query[q].failed \/ query[q].data.list # {}

PanelsTold == \A q \in told \ {"view"} : PanelTold(q)

ReadingInv ==
  /\ ReadingTypeOK /\ DraftLines /\ ViewsWhole /\ Final /\ OneFetch /\ PostedKnown
  /\ PanelsTold

LEMMA ReadingInitInv == ReadingInit => ReadingInv
<1> SUFFICES ASSUME ReadingInit PROVE ReadingInv
  OBVIOUS
<1>1. kind \in {"order", "invoice"}
  BY DEF ReadingInit
<1>2. \A r \in reads : \E q \in Panels : r = read(q)
  BY DEF ReadingInit
<1>3. \A q \in Panels : query[q].data = None /\ query[q] \in AQuery
  BY DEF ReadingInit, NoQuery, AQuery
<1>4. "view" \in Panels /\ Panels \subseteq {"view", "trail", "journal"}
  BY <1>1, PanelNames
<1>5. \A r \in reads : r \in ARead /\ r.what \in Panels /\ r.rest \in Rests(r.what)
                       /\ r.rest = <<First(r.what), Detail(r.what)>> /\ r.seen = Unread
  BY <1>2, ReadType
<1>6. ReadingTypeOK
  <2>1. query \in [Panels -> AQuery]
    BY <1>3 DEF ReadingInit
  <2>2. reads \subseteq ARead
    BY <1>5
  <2>3. doc \in [status : DocStatuses, version : Nat, lines : Nat]
    BY DEF ReadingInit, DocStatuses
  <2>4. call \in [1 .. MaxCalls -> {"none", "sent", "done", "refused"}] /\ waiting \in 0 .. MaxCalls
    BY ReadingAssumption DEF ReadingInit
  <2>5. entries \subseteq {"entry"} /\ events \subseteq {"confirmed", "posted", "cancelled"}
        /\ succeeded \in BOOLEAN /\ told \subseteq Panels /\ begun \in Nat /\ lost \in Nat
    BY DEF ReadingInit
  <2> QED BY <1>1, <1>5, <2>1, <2>2, <2>3, <2>4, <2>5 DEF ReadingTypeOK
<1>7. DraftLines /\ PanelsTold
  BY DEF ReadingInit, DraftLines, PanelsTold
<1>8. ViewsWhole
  <2>1. \A r \in reads : r.rest # <<>> /\ r.rest # <<Detail(r.what)>>
    BY <1>5, RestsDiffer
  <2> QED BY <1>3, <1>4, <2>1 DEF ViewsWhole
<1>9. Final
  BY DEF ReadingInit, Final
<1>10. OneFetch
  BY <1>2, ReadType DEF OneFetch
<1>11. PostedKnown
  <2>1. Unread.status # "posted"
    BY ReadingAssumption DEF Unread
  <2>2. ShownStatus = None
    BY <1>3, <1>4 DEF ShownStatus
  <2>3. None # "posted"
    BY ReadingAssumption
  <2> QED BY <1>5, <2>1, <2>2, <2>3 DEF PostedKnown
<1> QED BY <1>6, <1>7, <1>8, <1>9, <1>10, <1>11 DEF ReadingInv

-----------------------------------------------------------------------------
(* A document that others write: steps *)

\* A statement of a read under way.
LEMMA StatementStep ==
  ASSUME ReadingInv, NEW r \in reads, Statement(r)
  PROVE  ReadingInv'
<1> DEFINE seen == See(Head(r.rest), r.seen)
           new == [r EXCEPT !.rest = Tail(@), !.seen = See(Head(r.rest), @)]
<1>1. /\ r \in ARead /\ r.what \in {"view", "trail", "journal"} /\ r.what \in Panels
      /\ r.rest \in Rests(r.what) /\ r.rest # <<>> /\ r.seen \in Seen
  BY DEF Statement, ReadingInv, ReadingTypeOK, ARead
<1>2. /\ Tail(r.rest) \in Rests(r.what)
      /\ \/ r.rest = <<First(r.what), Detail(r.what)>> /\ Head(r.rest) = First(r.what)
            /\ Tail(r.rest) = <<Detail(r.what)>>
         \/ r.rest = <<Detail(r.what)>> /\ Head(r.rest) = Detail(r.what) /\ Tail(r.rest) = <<>>
  BY <1>1, NextStatement
<1>3. Head(r.rest) \in {"exists", "header", "lines", "events", "entries"}
  BY <1>1, <1>2 DEF First, Detail
<1>4. ReadingTypeOK
  BY DEF ReadingInv
<1>5. seen \in Seen
  BY <1>1, <1>3, <1>4, SeeType
<1>6. /\ new.what = r.what /\ new.rest = Tail(r.rest) /\ new.seen = seen
      /\ new \in ARead
  BY <1>1, <1>2, <1>5 DEF ARead
<1>7. reads' = (reads \ {r}) \cup {new}
      /\ UNCHANGED <<kind, doc, entries, events, succeeded, query, call, waiting, told, begun, lost>>
  BY DEF Statement, server, screen
<1> HIDE DEF new, seen
<1>8. Panels' = Panels /\ ShownStatus' = ShownStatus
  BY <1>7 DEF Panels, ShownStatus
<1>9. ReadingTypeOK'
  BY <1>1, <1>2, <1>4, <1>6, <1>7, <1>8 DEF ReadingTypeOK
<1>10. DraftLines' /\ Final'
  BY <1>7 DEF ReadingInv, DraftLines, Final
<1>11. OneFetch'
  BY <1>6, <1>7 DEF ReadingInv, OneFetch
<1>12. ViewsWhole'
  <2>1. ASSUME r.what = "view", new.rest = <<Detail(r.what)>> PROVE new.seen.version <= doc.version
    <3>1. Head(r.rest) = "header"
      BY <1>2, <1>6, <2>1, RestsDiffer DEF First
    <3>2. seen.version = doc.version /\ doc.version \in Nat
      BY <1>1, <1>4, <3>1, SeeType DEF seen, ReadingTypeOK
    <3> QED BY <1>6, <3>2
  <2>2. ASSUME r.what = "view", new.rest = <<>> PROVE Whole(new.seen)
    <3>1. Head(r.rest) = "lines" /\ r.rest = <<Detail(r.what)>>
      BY <1>2, <1>6, <2>2, RestsDiffer DEF Detail
    <3>2. seen.lines = doc.lines /\ seen.version = r.seen.version
      BY <1>1, <1>4, <3>1, SeeType DEF seen
    <3>3. r.seen.version <= doc.version
      BY <2>2, <3>1 DEF ReadingInv, ViewsWhole
    <3> QED BY <1>6, <3>2, <3>3 DEF Whole
  <2>3. \A s \in reads : s.what = "view" =>
          /\ s.rest = <<Detail(s.what)>> => s.seen.version <= doc.version
          /\ s.rest = <<>> => Whole(s.seen)
    BY DEF ReadingInv, ViewsWhole
  <2>4. \A s \in reads' : s.what = "view" =>
          /\ s.rest = <<Detail(s.what)>> => s.seen.version <= doc.version
          /\ s.rest = <<>> => Whole(s.seen)
    BY <1>6, <1>7, <2>1, <2>2, <2>3
  <2> QED BY <1>7, <2>4 DEF ReadingInv, ViewsWhole, Whole
<1>13. PostedKnown'
  <2> SUFFICES ASSUME kind = "invoice" PROVE PostedKnown'
    BY <1>7 DEF PostedKnown
  <2>1. ASSUME r.what = "view", new.seen.status = "posted" PROVE doc.status = "posted"
    <3>1. CASE Head(r.rest) = "header"
      BY <1>1, <1>4, <1>6, <2>1, <3>1, SeeType DEF seen
    <3>2. CASE Head(r.rest) = "lines"
      <4>1. seen.status = r.seen.status
        BY <1>1, <1>4, <3>2, SeeType DEF seen
      <4> QED BY <1>6, <2>1, <4>1 DEF ReadingInv, PostedKnown
    <3> QED BY <1>2, <2>1, <3>1, <3>2 DEF First, Detail
  <2>2. ASSUME r.what = "view", ShownStatus = "posted" PROVE new.seen.status = "posted"
    <3>1. doc.status = "posted"
      BY <2>2 DEF ReadingInv, PostedKnown
    <3>2. CASE Head(r.rest) = "header"
      BY <1>1, <1>4, <1>6, <3>1, <3>2, SeeType DEF seen
    <3>3. CASE Head(r.rest) = "lines"
      <4>1. seen.status = r.seen.status
        BY <1>1, <1>4, <3>3, SeeType DEF seen
      <4>2. r.rest # <<First("view"), Detail("view")>>
        <5>1. First("view") # "lines" 
          BY DEF First
        <5> QED BY <1>2, <2>2, <3>3, <5>1, RestsDiffer
      <4>3. r.seen.status = "posted"
        BY <2>2, <4>2 DEF ReadingInv, PostedKnown
      <4> QED BY <1>6, <4>1, <4>3
    <3> QED BY <1>2, <2>2, <3>2, <3>3 DEF First, Detail
  <2> QED BY <1>6, <1>7, <1>8, <2>1, <2>2 DEF ReadingInv, PostedKnown
<1>14. PanelsTold'
  <2> SUFFICES ASSUME NEW q \in told \ {"view"} PROVE PanelTold(q)'
    BY <1>7 DEF PanelsTold
  <2>1. PanelTold(q)
    BY DEF ReadingInv, PanelsTold
  <2>2. Fetches(q)' = (Fetches(q) \ {r}) \cup (IF r.what = q THEN {new} ELSE {})
    BY <1>6, <1>7 DEF Fetches
  <2>3. ASSUME r.what = q, new.rest = <<>> PROVE new.seen.list # {}
    <3>1. Head(r.rest) = Detail(q) /\ q \in {"trail", "journal"} /\ (q = "journal" => kind = "invoice")
      BY <1>1, <1>2, <1>6, <2>3, RestsDiffer, PanelNames DEF ReadingInv, ReadingTypeOK
    <3>2. events # {} /\ (kind = "invoice" => entries # {})
      BY <2>1 DEF PanelTold, ReadingInv, Final
    <3>3. CASE q = "trail"
      <4>1. Head(r.rest) = "events"
        BY <3>1, <3>3 DEF Detail
      <4> QED BY <1>1, <1>4, <1>6, <3>2, <4>1, SeeType DEF seen
    <3>4. CASE q = "journal"
      <4>1. Head(r.rest) = "entries"
        BY <3>1, <3>4 DEF Detail
      <4> QED BY <1>1, <1>4, <1>6, <3>1, <3>2, <3>4, <4>1, SeeType DEF seen
    <3> QED BY <3>1, <3>3, <3>4
  <2>4. \A s \in Fetches(q)' : s.rest = <<>> => s.seen.list # {}
    BY <2>1, <2>2, <2>3 DEF PanelTold
  <2>5. Fetches(q)' # {} \/ query[q].failed \/ query[q].data.list # {}
    <3>1. r \in Fetches(q) => r.what = q
      BY DEF Fetches
    <3> QED BY <2>1, <2>2, <3>1 DEF PanelTold
  <2> QED BY <1>7, <2>1, <2>4, <2>5 DEF PanelTold
<1> QED BY <1>9, <1>10, <1>11, <1>12, <1>13, <1>14 DEF ReadingInv

\* A colleague saves an edit: what was seen of the draft is older now.
LEMMA EditStep ==
  ASSUME ReadingInv, OthersEdit
  PROVE  ReadingInv'
<1>1. /\ doc' = [doc EXCEPT !.version = @ + 1, !.lines = doc.version + 1]
      /\ UNCHANGED <<kind, entries, events, succeeded, reads, query, call, waiting, told, begun, lost>>
      /\ doc.status = "draft"
  BY DEF OthersEdit, screen
<1>2. doc \in [status : DocStatuses, version : Nat, lines : Nat]
  BY DEF ReadingInv, ReadingTypeOK
<1>3. /\ doc' \in [status : DocStatuses, version : Nat, lines : Nat]
      /\ doc'.status = "draft" /\ doc'.version = doc.version + 1 /\ doc'.lines = doc.version + 1
  <2> DEFINE n == doc.version + 1
  <2>1. doc.status \in DocStatuses /\ n \in Nat
    BY <1>2
  <2>2. doc' = [doc EXCEPT !.version = n, !.lines = n]
    BY <1>1
  <2> HIDE DEF n
  <2>3. /\ doc' \in [status : DocStatuses, version : Nat, lines : Nat]
        /\ doc'.status = doc.status /\ doc'.version = n /\ doc'.lines = n
    BY <1>2, <2>1, <2>2, HeaderType
  <2> QED BY <1>1, <2>3 DEF n
<1>4. Panels' = Panels /\ ShownStatus' = ShownStatus /\ \A q : Fetches(q)' = Fetches(q)
  BY <1>1 DEF Panels, ShownStatus, Fetches
<1>5. ReadingTypeOK'
  BY <1>1, <1>3, <1>4 DEF ReadingInv, ReadingTypeOK
<1>6. DraftLines' /\ Final' /\ OneFetch'
  BY <1>1, <1>3 DEF ReadingInv, DraftLines, Final, OneFetch
<1>7. ViewsWhole'
  <2>1. ASSUME NEW seen \in Seen, seen.version <= doc.version
        PROVE  seen.version <= doc'.version /\ Whole(seen)'
    <3>1. seen.version \in Nat /\ doc.version \in Nat
      BY <1>2 DEF Seen
    <3>2. seen.version <= doc'.version /\ seen.version # doc'.version
      BY <1>3, <2>1, <3>1
    <3> QED BY <3>2 DEF Whole
  <2>2. \A r \in reads : r.seen \in Seen
    BY DEF ReadingInv, ReadingTypeOK, ARead
  <2>3. query["view"].data # None => query["view"].data \in Seen
    BY PanelNames DEF ReadingInv, ReadingTypeOK, AQuery
  <2>4. \A r \in reads' : r.what = "view" =>
          /\ r.rest = <<Detail(r.what)>> => r.seen.version <= doc'.version
          /\ r.rest = <<>> => Whole(r.seen)'
    BY <1>1, <2>1, <2>2 DEF ReadingInv, ViewsWhole, Whole
  <2>5. query["view"].data # None => Whole(query["view"].data)'
    BY <1>1, <2>1, <2>3 DEF ReadingInv, ViewsWhole, Whole
  <2> QED BY <1>1, <2>4, <2>5 DEF ViewsWhole, Whole
<1>8. PostedKnown' /\ PanelsTold'
  BY <1>1, <1>3, <1>4 DEF ReadingInv, PostedKnown, PanelsTold, PanelTold
<1> QED BY <1>5, <1>6, <1>7, <1>8 DEF ReadingInv

\* The document leaves the draft, or the promise ends: what is kept about it only grows.
LEMMA WriteStep ==
  ASSUME ReadingInv,
         NEW status \in DocStatuses \ {"draft"}, applyTransition(status),
         kind = "invoice" => status = "posted" /\ doc.status = "draft",
         events \subseteq events', entries \subseteq entries', events' # {},
         events' \subseteq {"confirmed", "posted", "cancelled"}, entries' \subseteq {"entry"},
         kind = "invoice" => entries' # {},
         UNCHANGED <<kind, reads, query, waiting, told, begun, lost>>,
         call' \in [1 .. MaxCalls -> {"none", "sent", "done", "refused"}],
         succeeded' \in BOOLEAN, succeeded => succeeded',
         (\E n \in 1 .. MaxCalls : call'[n] = "done") => succeeded'
  PROVE  ReadingInv'
<1>2. doc \in [status : DocStatuses, version : Nat, lines : Nat]
  BY DEF ReadingInv, ReadingTypeOK
<1>3. /\ doc' \in [status : DocStatuses, version : Nat, lines : Nat]
      /\ doc'.status = status /\ doc'.status # "draft" /\ doc'.version = doc.version + 1
  <2> DEFINE n == doc.version + 1
  <2>1. n \in Nat
    BY <1>2
  <2>2. doc' = [doc EXCEPT !.status = status, !.version = n]
    BY DEF applyTransition
  <2> HIDE DEF n
  <2>3. /\ doc' \in [status : DocStatuses, version : Nat, lines : Nat]
        /\ doc'.status = status /\ doc'.version = n
    BY <1>2, <2>1, <2>2, HeaderType
  <2> QED BY <2>3 DEF n
<1>4. Panels' = Panels /\ ShownStatus' = ShownStatus /\ \A q : Fetches(q)' = Fetches(q)
  BY DEF Panels, ShownStatus, Fetches
<1>5. ReadingTypeOK'
  BY <1>3, <1>4 DEF ReadingInv, ReadingTypeOK
<1>6. DraftLines' /\ OneFetch'
  BY <1>3 DEF ReadingInv, DraftLines, OneFetch
<1>7. Final'
  BY <1>3 DEF ReadingInv, Final
<1>8. ViewsWhole'
  <2>1. ASSUME NEW seen \in Seen, seen.version <= doc.version
        PROVE  seen.version <= doc'.version /\ Whole(seen)'
    <3>1. seen.version \in Nat /\ doc.version \in Nat
      BY <1>2 DEF Seen
    <3>2. seen.version <= doc'.version
      BY <1>3, <2>1, <3>1
    <3> QED BY <1>3, <3>2 DEF Whole
  <2>2. \A r \in reads : r.seen \in Seen
    BY DEF ReadingInv, ReadingTypeOK, ARead
  <2>3. query["view"].data # None => query["view"].data \in Seen
    BY PanelNames DEF ReadingInv, ReadingTypeOK, AQuery
  <2>4. \A r \in reads' : r.what = "view" =>
          /\ r.rest = <<Detail(r.what)>> => r.seen.version <= doc'.version
          /\ r.rest = <<>> => Whole(r.seen)'
    BY <2>1, <2>2 DEF ReadingInv, ViewsWhole, Whole
  <2>5. query["view"].data # None => Whole(query["view"].data)'
    BY <2>1, <2>3 DEF ReadingInv, ViewsWhole, Whole
  <2> QED BY <2>4, <2>5 DEF ViewsWhole, Whole
<1>9. PostedKnown'
  BY <1>3, <1>4 DEF ReadingInv, PostedKnown
<1>10. PanelsTold'
  BY <1>4 DEF ReadingInv, PanelsTold, PanelTold
<1> QED BY <1>5, <1>6, <1>7, <1>8, <1>9, <1>10 DEF ReadingInv

LEMMA FinishWrites ==
  ASSUME ReadingInv, doc.status = "draft", Finish
  PROVE  /\ Finished \in DocStatuses \ {"draft"} /\ applyTransition(Finished)
         /\ kind = "invoice" => Finished = "posted"
         /\ events \subseteq events' /\ entries \subseteq entries' /\ events' # {}
         /\ events' \subseteq {"confirmed", "posted", "cancelled"} /\ entries' \subseteq {"entry"}
         /\ kind = "invoice" => entries' # {}
BY DEF Finish, append, record, Finished, DocStatuses, ReadingInv, ReadingTypeOK

LEMMA OthersFinishStep ==
  ASSUME ReadingInv, OthersFinish
  PROVE  ReadingInv'
<1>1. doc.status = "draft" /\ Finish
      /\ UNCHANGED <<kind, succeeded, reads, query, call, waiting, told, begun, lost>>
  BY DEF OthersFinish, screen
<1>2. /\ call \in [1 .. MaxCalls -> {"none", "sent", "done", "refused"}] /\ succeeded \in BOOLEAN
      /\ (\E n \in 1 .. MaxCalls : call[n] = "done") => succeeded
  BY DEF ReadingInv, ReadingTypeOK, Final
<1> QED BY <1>1, <1>2, FinishWrites, WriteStep

LEMMA CancelStep ==
  ASSUME ReadingInv, OthersCancel
  PROVE  ReadingInv'
<1>1. kind = "order" /\ applyTransition("cancelled") /\ append("cancelled")
      /\ UNCHANGED <<kind, entries, succeeded, reads, query, call, waiting, told, begun, lost>>
  BY DEF OthersCancel, screen
<1>2. /\ call \in [1 .. MaxCalls -> {"none", "sent", "done", "refused"}] /\ succeeded \in BOOLEAN
      /\ (\E n \in 1 .. MaxCalls : call[n] = "done") => succeeded
  BY DEF ReadingInv, ReadingTypeOK, Final
<1>3. /\ events \subseteq events' /\ events' # {} /\ events' \subseteq {"confirmed", "posted", "cancelled"}
      /\ entries' = entries /\ entries \subseteq {"entry"}
  BY <1>1 DEF append, ReadingInv, ReadingTypeOK
<1>4. "cancelled" \in DocStatuses \ {"draft"}
  BY DEF DocStatuses
<1> QED BY <1>1, <1>2, <1>3, <1>4, WriteStep

\* Steps that leave reads, cache and document as they were.
LEMMA CallStep ==
  ASSUME ReadingInv, UNCHANGED <<kind, doc, entries, events, reads, query, told, begun>>,
         call' \in [1 .. MaxCalls -> {"none", "sent", "done", "refused"}],
         waiting' \in 0 .. MaxCalls, waiting' # 0 => query["view"].data # None,
         lost' \in Nat, succeeded' = succeeded,
         (\E n \in 1 .. MaxCalls : call'[n] = "done") => succeeded'
  PROVE  ReadingInv'
<1>1. Panels' = Panels /\ ShownStatus' = ShownStatus /\ \A q : Fetches(q)' = Fetches(q)
  BY DEF Panels, ShownStatus, Fetches
<1>2. ReadingTypeOK'
  BY <1>1 DEF ReadingInv, ReadingTypeOK
<1>3. DraftLines' /\ ViewsWhole' /\ OneFetch'
  BY DEF ReadingInv, DraftLines, ViewsWhole, Whole, OneFetch
<1>4. Final'
  BY DEF ReadingInv, Final
<1>5. PostedKnown' /\ PanelsTold'
  BY <1>1 DEF ReadingInv, PostedKnown, PanelsTold, PanelTold
<1> QED BY <1>2, <1>3, <1>4, <1>5 DEF ReadingInv

LEMMA ServeStep ==
  ASSUME ReadingInv, NEW n \in 1 .. MaxCalls, Serve(n)
  PROVE  ReadingInv'
<1>1. /\ call \in [1 .. MaxCalls -> {"none", "sent", "done", "refused"}]
      /\ succeeded \in BOOLEAN /\ lost \in Nat /\ waiting \in 0 .. MaxCalls
      /\ (\E m \in 1 .. MaxCalls : call[m] = "done") => succeeded
      /\ waiting # 0 => query["view"].data # None
      /\ succeeded => doc.status # "draft"
  BY DEF ReadingInv, ReadingTypeOK, Final
<1>2. CASE ~succeeded /\ doc.status = "draft"
  <2>1. /\ Finish /\ call' = [call EXCEPT ![n] = "done"] /\ succeeded' = TRUE
        /\ UNCHANGED <<kind, reads, query, waiting, told, begun, lost>>
    BY <1>2 DEF Serve
  <2>2. call' \in [1 .. MaxCalls -> {"none", "sent", "done", "refused"}]
    BY <1>1, <2>1
  <2> QED BY <1>2, <2>1, <2>2, FinishWrites, WriteStep
<1>3. CASE ~(~succeeded /\ doc.status = "draft")
  <2>1. /\ UNCHANGED <<kind, doc, entries, events, reads, query, waiting, told, begun, lost>>
        /\ \/ succeeded /\ succeeded' = TRUE /\ call' = [call EXCEPT ![n] = "done"]
           \/ ~succeeded /\ succeeded' = succeeded /\ call' = [call EXCEPT ![n] = "refused"]
    BY <1>1, <1>3 DEF Serve
  <2>2. call' \in [1 .. MaxCalls -> {"none", "sent", "done", "refused"}] /\ succeeded' = succeeded
    BY <1>1, <2>1
  <2>3. (\E m \in 1 .. MaxCalls : call'[m] = "done") => succeeded'
    BY <1>1, <2>1
  <2> QED BY <1>1, <2>1, <2>2, <2>3, CallStep
<1> QED BY <1>2, <1>3

LEMMA PressStep ==
  ASSUME ReadingInv, Press
  PROVE  ReadingInv'
<1>1. /\ call \in [1 .. MaxCalls -> {"none", "sent", "done", "refused"}] /\ lost \in Nat
      /\ (\E m \in 1 .. MaxCalls : call[m] = "done") => succeeded
  BY DEF ReadingInv, ReadingTypeOK, Final
<1>2. PICK n \in 1 .. MaxCalls : call' = [call EXCEPT ![n] = "sent"] /\ waiting' = n
  BY DEF Press
<1>3. UNCHANGED <<kind, doc, entries, events, succeeded, reads, query, told, begun, lost>>
  BY DEF Press, server
<1>4. query["view"].data # None
  BY ReadingAssumption DEF Press, ShownStatus
<1>5. call' \in [1 .. MaxCalls -> {"none", "sent", "done", "refused"}]
      /\ ((\E m \in 1 .. MaxCalls : call'[m] = "done") => succeeded')
  BY <1>1, <1>2, <1>3
<1>6. waiting' \in 0 .. MaxCalls
  BY <1>2, ReadingAssumption
<1> QED BY <1>1, <1>3, <1>4, <1>5, <1>6, CallStep

LEMMA StopWaitingStep ==
  ASSUME ReadingInv, StopWaiting
  PROVE  ReadingInv'
<1>1. /\ call \in [1 .. MaxCalls -> {"none", "sent", "done", "refused"}] /\ lost \in Nat
      /\ (\E m \in 1 .. MaxCalls : call[m] = "done") => succeeded
  BY DEF ReadingInv, ReadingTypeOK, Final
<1>2. /\ UNCHANGED <<kind, doc, entries, events, succeeded, reads, query, call, told, begun>>
      /\ waiting' = 0 /\ lost' = lost + 1
  BY DEF StopWaiting, server
<1>3. waiting' \in 0 .. MaxCalls /\ lost' \in Nat
  BY <1>1, <1>2, ReadingAssumption
<1> QED BY <1>1, <1>2, <1>3, CallStep

\* The panels of again are fetched anew, and what was under way for them is dropped.
LEMMA RefetchStep ==
  ASSUME ReadingInv, UNCHANGED <<kind, doc, entries, events, succeeded, call>>,
         NEW again \in SUBSET Panels,
         reads' = (reads \ UNION {Fetches(q) : q \in again}) \cup {read(q) : q \in again},
         query' \in [Panels -> AQuery],
         \A q \in Panels \ {"view"} :
           /\ query'[q].data = query[q].data
           /\ q \in again \/ query'[q].failed = query[q].failed,
         \/ query'["view"].data = query["view"].data
         \/ /\ query["view"].data # None /\ query'["view"].data # None
            /\ query'["view"].data.version = query["view"].data.version
            /\ query'["view"].data.lines = query["view"].data.lines
            /\ kind = "invoice" => doc.status = "posted" /\ "view" \in again,
         waiting' \in {0, waiting}, begun' \in Nat, lost' \in Nat, told' \subseteq Panels,
         \A q \in told' \ {"view"} :
           q \in told \/ (q \in again /\ succeeded /\ query[q].data # None)
  PROVE  ReadingInv'
<1>1. ReadingTypeOK
  BY DEF ReadingInv
<1>2. Panels' = Panels /\ Panels \subseteq {"view", "trail", "journal"} /\ "view" \in Panels
  BY <1>1, PanelNames DEF ReadingTypeOK, Panels
<1>3. \A s \in reads' : \/ s \in reads /\ s.what \notin again
                        \/ s.what \in again /\ s = read(s.what)
  BY <1>2, ReadType DEF Fetches
<1>4. \A q \in Panels : /\ read(q) \in ARead /\ read(q).what = q /\ read(q).rest \in Rests(q)
                        /\ read(q).rest = <<First(q), Detail(q)>> /\ read(q).seen = Unread
  BY ReadType
<1>5. \A q : read(q)' = read(q)
  BY DEF read, Statements, Unread
<1>6. ReadingTypeOK'
  <2>1. \A s \in reads' : s \in ARead /\ s.what \in Panels /\ s.rest \in Rests(s.what)
    BY <1>1, <1>3, <1>4 DEF ReadingTypeOK
  <2>2. waiting' \in 0 .. MaxCalls
    BY <1>1, ReadingAssumption DEF ReadingTypeOK
  <2> QED BY <1>1, <1>2, <2>1, <2>2 DEF ReadingTypeOK
<1>7. DraftLines' /\ Final'
  BY DEF ReadingInv, DraftLines, Final
<1>8. OneFetch'
  BY <1>3 DEF ReadingInv, OneFetch
<1>9. ViewsWhole'
  <2>1. \A s \in reads' : s.what = "view" => s \in reads \/ s.rest = <<First("view"), Detail("view")>>
    BY <1>2, <1>3, <1>4
  <2>2. \A s \in reads' : s.what = "view" =>
          /\ s.rest = <<Detail(s.what)>> => s.seen.version <= doc.version
          /\ s.rest = <<>> => Whole(s.seen)
    BY <2>1, RestsDiffer DEF ReadingInv, ViewsWhole
  <2>3. query'["view"].data # None => Whole(query'["view"].data)
    BY DEF ReadingInv, ViewsWhole, Whole
  <2> QED BY <2>2, <2>3 DEF ViewsWhole, Whole
<1>10. PostedKnown'
  <2> SUFFICES ASSUME kind = "invoice" PROVE PostedKnown'
    BY DEF PostedKnown
  <2>1. Unread.status # "posted"
    BY ReadingAssumption DEF Unread
  <2>2. \A s \in reads' : s.what = "view" =>
          \/ s \in reads /\ "view" \notin again
          \/ s.rest = <<First("view"), Detail("view")>> /\ s.seen.status # "posted"
    BY <1>2, <1>3, <1>4, <2>1
  <2>3. ShownStatus' = "posted" => \/ ShownStatus = "posted"
                                   \/ doc.status = "posted" /\ "view" \in again
    BY DEF ShownStatus
  <2>4. \A s \in reads' : s.what = "view" /\ s.seen.status = "posted" => doc.status = "posted"
    BY <2>2 DEF ReadingInv, PostedKnown
  <2>5. ShownStatus' = "posted" =>
          /\ doc.status = "posted"
          /\ \A s \in reads' : s.what = "view" =>
               s.rest = <<First("view"), Detail("view")>> \/ s.seen.status = "posted"
    BY <2>2, <2>3 DEF ReadingInv, PostedKnown
  <2> QED BY <2>4, <2>5 DEF PostedKnown
<1>11. PanelsTold'
  <2> SUFFICES ASSUME NEW q \in told' \ {"view"} PROVE PanelTold(q)'
    BY DEF PanelsTold
  <2>1. q \in Panels \ {"view"} /\ query'[q].data = query[q].data
    OBVIOUS
  <2>2. CASE q \in again
    <3>1. succeeded /\ query[q].data # None
      BY DEF ReadingInv, PanelsTold, PanelTold
    <3>2. read(q) \in Fetches(q)'
      BY <1>4, <2>1, <2>2 DEF Fetches
    <3>3. ASSUME NEW s \in Fetches(q)' PROVE s.rest # <<>>
      <4>1. s \in reads' /\ s.what = q
        BY DEF Fetches
      <4>2. s.rest = <<First(q), Detail(q)>>
        BY <1>3, <1>4, <2>1, <2>2, <4>1
      <4> QED BY <4>2, RestsDiffer
    <3> QED BY <2>1, <3>1, <3>2, <3>3 DEF PanelTold
  <2>3. CASE q \notin again
    <3>1. Fetches(q)' = Fetches(q)
      BY <1>3, <1>4, <2>3 DEF Fetches
    <3>2. PanelTold(q) /\ query'[q].failed = query[q].failed
      BY <2>1, <2>3 DEF ReadingInv, PanelsTold
    <3> QED BY <2>1, <3>1, <3>2 DEF PanelTold
  <2> QED BY <2>2, <2>3
<1> QED BY <1>6, <1>7, <1>8, <1>9, <1>10, <1>11 DEF ReadingInv

\* A read under way ends, with its answer or without.
LEMMA ReadEndsStep ==
  ASSUME ReadingInv, NEW r \in reads, reads' = reads \ {r}, lost' \in Nat,
         UNCHANGED <<kind, doc, entries, events, succeeded, call, waiting, told, begun>>,
         NEW answer \in AQuery, query' = [query EXCEPT ![r.what] = answer],
         \/ answer.data = query[r.what].data /\ answer.failed
         \/ r.rest = <<>> /\ answer.data = r.seen
  PROVE  ReadingInv'
<1>1. ReadingTypeOK
  BY DEF ReadingInv
<1>2. Panels' = Panels /\ Panels \subseteq {"view", "trail", "journal"} /\ "view" \in Panels
  BY <1>1, PanelNames DEF ReadingTypeOK, Panels
<1>3. r.what \in Panels /\ query \in [Panels -> AQuery] /\ r.seen \in Seen /\ r.seen # None
  BY <1>1, NotNone DEF ReadingTypeOK, ARead
<1>4. /\ query' \in [Panels -> AQuery] /\ query'[r.what] = answer
      /\ \A q \in Panels : q # r.what => query'[q] = query[q]
  BY <1>3
<1>5. \A s \in reads : s.what = r.what => s = r
  BY DEF ReadingInv, OneFetch
<1>6. ReadingTypeOK'
  BY <1>1, <1>2, <1>4 DEF ReadingTypeOK
<1>7. DraftLines' /\ OneFetch'
  BY DEF ReadingInv, DraftLines, OneFetch
<1>8. Final'
  BY <1>2, <1>3, <1>4 DEF ReadingInv, Final
<1>9. ViewsWhole'
  <2>1. r.what = "view" /\ r.rest = <<>> => Whole(r.seen)
    BY DEF ReadingInv, ViewsWhole
  <2>2. query'["view"].data # None => Whole(query'["view"].data)
    BY <1>2, <1>4, <2>1 DEF ReadingInv, ViewsWhole
  <2> QED BY <2>2 DEF ReadingInv, ViewsWhole, Whole
<1>10. PostedKnown'
  <2> SUFFICES ASSUME kind = "invoice" PROVE PostedKnown'
    BY DEF PostedKnown
  <2>1. ShownStatus' = "posted" =>
          \/ ShownStatus = "posted"
          \/ r.what = "view" /\ r.rest = <<>> /\ r.seen.status = "posted"
    <3>1. CASE r.what = "view"
      BY <1>2, <1>3, <1>4, <3>1 DEF ShownStatus
    <3>2. CASE r.what # "view"
      BY <1>2, <1>4, <3>2 DEF ShownStatus
    <3> QED BY <3>1, <3>2
  <2>2. ASSUME ShownStatus' = "posted", ShownStatus # "posted"
        PROVE  doc.status = "posted" /\ \A s \in reads' : s.what # "view"
    BY <1>5, <2>1, <2>2 DEF ReadingInv, PostedKnown
  <2> QED BY <2>2 DEF ReadingInv, PostedKnown
<1>11. PanelsTold'
  <2> SUFFICES ASSUME NEW q \in told \ {"view"} PROVE PanelTold(q)'
    BY DEF PanelsTold
  <2>1. PanelTold(q) /\ q \in Panels
    BY <1>1 DEF ReadingInv, PanelsTold, ReadingTypeOK
  <2>2. CASE q = r.what
    <3>1. Fetches(q)' = {}
      BY <1>5, <2>2 DEF Fetches
    <3>2. r.rest = <<>> => r.seen.list # {}
      BY <2>1, <2>2 DEF PanelTold, Fetches
    <3> QED BY <1>3, <1>4, <2>1, <2>2, <3>1, <3>2 DEF PanelTold
  <2>3. CASE q # r.what
    <3>1. Fetches(q)' = Fetches(q) /\ query'[q] = query[q]
      BY <1>4, <2>1, <2>3 DEF Fetches
    <3> QED BY <2>1, <3>1 DEF PanelTold
  <2> QED BY <2>2, <2>3
<1> QED BY <1>6, <1>7, <1>8, <1>9, <1>10, <1>11 DEF ReadingInv

LEMMA FetchingType ==
  ASSUME NEW q \in AQuery
  PROVE  /\ Fetching(q) \in AQuery /\ Fetching(q).data = q.data
         /\ [q EXCEPT !.failed = TRUE] \in AQuery /\ [q EXCEPT !.failed = TRUE].data = q.data
         /\ [q EXCEPT !.failed = TRUE].failed
         /\ [q EXCEPT !.tried = TRUE] \in AQuery /\ [q EXCEPT !.tried = TRUE].data = q.data
         /\ \A seen \in Seen : /\ [NoQuery EXCEPT !.data = seen] \in AQuery
                               /\ [NoQuery EXCEPT !.data = seen].data = seen
BY Zenon DEF AQuery, Fetching, NoQuery

LEMMA AskStep ==
  ASSUME ReadingInv, NEW q \in Panels, Ask(q)
  PROVE  ReadingInv'
<1>1. /\ Fetches(q) = {} /\ begun' = begun + 1 /\ query' = [query EXCEPT ![q] = Fetching(@)]
      /\ reads' = reads \cup {read(q)}
      /\ UNCHANGED <<kind, doc, entries, events, succeeded, call, waiting, told, lost>>
  BY DEF Ask, server
<1>2. query \in [Panels -> AQuery] /\ begun \in Nat /\ lost \in Nat /\ told \subseteq Panels
  BY DEF ReadingInv, ReadingTypeOK
<1>3. query[q] \in AQuery
  BY <1>2
<1>4. Fetching(query[q]) \in AQuery /\ Fetching(query[q]).data = query[q].data
  BY <1>3, FetchingType
<1>5. /\ query' \in [Panels -> AQuery]
      /\ \A p \in Panels : query'[p].data = query[p].data /\ (p \in {q} \/ query'[p] = query[p])
  BY <1>1, <1>2, <1>4
<1>6. reads' = (reads \ UNION {Fetches(p) : p \in {q}}) \cup {read(p) : p \in {q}}
  BY <1>1
<1>7. "view" \in Panels
  BY PanelNames DEF ReadingInv, ReadingTypeOK
<1>8. begun' \in Nat /\ lost' \in Nat /\ {q} \in SUBSET Panels
  BY <1>1, <1>2
<1> QED BY <1>1, <1>2, <1>5, <1>6, <1>7, <1>8, RefetchStep

LEMMA DeliverStep ==
  ASSUME ReadingInv, NEW r \in reads, Deliver(r)
  PROVE  ReadingInv'
<1>1. r.seen \in Seen /\ r.what \in Panels /\ query \in [Panels -> AQuery] /\ lost \in Nat
  BY DEF ReadingInv, ReadingTypeOK, ARead
<1>2. query[r.what] \in AQuery
  BY <1>1
<1>3. [NoQuery EXCEPT !.data = r.seen] \in AQuery /\ [NoQuery EXCEPT !.data = r.seen].data = r.seen
  BY <1>1, <1>2, FetchingType
<1>4. /\ r.rest = <<>> /\ reads' = reads \ {r}
      /\ query' = [query EXCEPT ![r.what] = [NoQuery EXCEPT !.data = r.seen]]
      /\ UNCHANGED <<kind, doc, entries, events, succeeded, call, waiting, told, begun, lost>>
  BY DEF Deliver, server
<1> QED BY <1>1, <1>3, <1>4, ReadEndsStep

LEMMA LoseReadStep ==
  ASSUME ReadingInv, NEW r \in reads, LoseRead(r)
  PROVE  ReadingInv'
<1>1. /\ r.what \in Panels /\ query \in [Panels -> AQuery] /\ lost \in Nat /\ begun \in Nat
      /\ told \subseteq Panels
  BY DEF ReadingInv, ReadingTypeOK
<1>2. query[r.what] \in AQuery
  BY <1>1
<1>3. /\ lost' = lost + 1 /\ lost' \in Nat
      /\ UNCHANGED <<kind, doc, entries, events, succeeded, call, waiting, told, begun>>
  BY <1>1 DEF LoseRead, server
<1>4. CASE query[r.what].tried
  <2> DEFINE answer == [query[r.what] EXCEPT !.failed = TRUE]
  <2>1. answer \in AQuery /\ answer.data = query[r.what].data /\ answer.failed
    BY <1>2, FetchingType
  <2>2. query' = [query EXCEPT ![r.what] = answer] /\ reads' = reads \ {r}
    BY <1>4 DEF LoseRead
  <2> HIDE DEF answer
  <2> QED BY <1>3, <2>1, <2>2, ReadEndsStep
<1>5. CASE ~query[r.what].tried
  <2> DEFINE answer == [query[r.what] EXCEPT !.tried = TRUE]
  <2>1. answer \in AQuery /\ answer.data = query[r.what].data
    BY <1>2, FetchingType
  <2>2. query' = [query EXCEPT ![r.what] = answer] /\ reads' = (reads \ {r}) \cup {read(r.what)}
    BY <1>5 DEF LoseRead
  <2> HIDE DEF answer
  <2>3. Fetches(r.what) = {r}
    BY DEF ReadingInv, OneFetch, Fetches
  <2>4. reads' = (reads \ UNION {Fetches(p) : p \in {r.what}}) \cup {read(p) : p \in {r.what}}
    BY <2>2, <2>3
  <2>5. /\ query' \in [Panels -> AQuery]
        /\ \A p \in Panels : query'[p].data = query[p].data /\ (p \in {r.what} \/ query'[p] = query[p])
    BY <1>1, <2>1, <2>2
  <2>6. "view" \in Panels /\ {r.what} \in SUBSET Panels
    BY <1>1, PanelNames DEF ReadingInv, ReadingTypeOK
  <2>7. begun' \in Nat
    BY <1>1, <1>3
  <2> QED BY <1>1, <1>3, <2>4, <2>5, <2>6, <2>7, RefetchStep
<1> QED BY <1>4, <1>5

LEMMA SuccessStep ==
  ASSUME ReadingInv, onSuccess
  PROVE  ReadingInv'
<1> DEFINE again == Refetched(PrefixMatch)
           shown == [query EXCEPT !["view"].data.status = Finished, !["view"].failed = FALSE]
<1>1. /\ waiting # 0 /\ call[waiting] = "done" /\ waiting' = 0
      /\ told' = {q \in Panels : query[q].data # None}
      /\ begun' = begun + 1
      /\ query' = [q \in DOMAIN shown |-> IF q \in again THEN Fetching(shown[q]) ELSE shown[q]]
      /\ reads' = (reads \ UNION {Fetches(q) : q \in again}) \cup {read(q) : q \in again}
      /\ UNCHANGED <<kind, doc, entries, events, succeeded, call, lost>>
  BY DEF onSuccess, invalidate, server
<1>2. /\ kind \in {"order", "invoice"} /\ query \in [Panels -> AQuery] /\ begun \in Nat /\ lost \in Nat
      /\ waiting \in 0 .. MaxCalls /\ doc.status \in DocStatuses /\ query["view"].data # None
      /\ succeeded /\ doc.status # "draft" /\ (kind = "invoice" => doc.status = "posted")
  <2>1. waiting \in 1 .. MaxCalls
    BY <1>1, ReadingAssumption DEF ReadingInv, ReadingTypeOK
  <2> QED BY <1>1, <2>1 DEF ReadingInv, ReadingTypeOK, Final
<1>3. /\ "view" \in Panels /\ PrefixMatch \subseteq Panels /\ Panels \ {"view"} \subseteq PrefixMatch
      /\ kind = "invoice" => PrefixMatch = Panels
  BY <1>2, PanelNames
<1>4. again \in SUBSET Panels /\ \A q \in PrefixMatch : query[q].data # None => q \in again
  BY <1>3 DEF Refetched
<1>5. query["view"] \in AQuery /\ query["view"].data \in Seen
  BY <1>2, <1>3 DEF AQuery
<1>6. /\ shown["view"] \in AQuery /\ shown["view"].data # None
      /\ shown["view"].data.version = query["view"].data.version
      /\ shown["view"].data.lines = query["view"].data.lines
      /\ DOMAIN shown = Panels
      /\ \A q \in Panels \ {"view"} : shown[q] = query[q]
  <2>1. Finished \in DocStatuses
    BY DEF Finished, DocStatuses
  <2>2. ASSUME NEW q \in AQuery, q.data \in Seen, NEW status \in DocStatuses
        PROVE  /\ [q EXCEPT !.data.status = status] \in AQuery
               /\ [q EXCEPT !.data.status = status].data \in Seen
               /\ [q EXCEPT !.data.status = status].data.version = q.data.version
               /\ [q EXCEPT !.data.status = status].data.lines = q.data.lines
    <3>1. /\ [q.data EXCEPT !.status = status] \in Seen
          /\ [q.data EXCEPT !.status = status].version = q.data.version
          /\ [q.data EXCEPT !.status = status].lines = q.data.lines
      BY <2>2 DEF Seen
    <3>2. [q EXCEPT !.data.status = status] = [q EXCEPT !.data = [q.data EXCEPT !.status = status]]
      BY <2>2 DEF AQuery
    <3> QED BY <2>2, <3>1, <3>2 DEF AQuery
  <2>3. ASSUME NEW q \in AQuery
        PROVE  [q EXCEPT !.failed = FALSE] \in AQuery /\ [q EXCEPT !.failed = FALSE].data = q.data
    BY <2>3, Zenon DEF AQuery
  <2>4. shown["view"] = [[query["view"] EXCEPT !.data.status = Finished] EXCEPT !.failed = FALSE]
    BY <1>2, <1>3
  <2>5. DOMAIN shown = Panels /\ \A q \in Panels \ {"view"} : shown[q] = query[q]
    BY <1>2, <1>3
  <2> HIDE DEF shown
  <2> DEFINE a == [query["view"] EXCEPT !.data.status = Finished]
  <2>6. /\ a \in AQuery /\ a.data \in Seen /\ a.data.version = query["view"].data.version
        /\ a.data.lines = query["view"].data.lines
    BY <1>5, <2>1, <2>2
  <2> HIDE DEF a
  <2>7. shown["view"] \in AQuery /\ shown["view"].data = a.data
    BY <2>3, <2>4, <2>6 DEF a
  <2> QED BY <2>5, <2>6, <2>7, NotNone
<1> HIDE DEF shown, again
<1>7. \A q \in Panels : /\ shown[q] \in AQuery /\ Fetching(shown[q]) \in AQuery
                        /\ Fetching(shown[q]).data = shown[q].data
  <2>1. \A q \in Panels : shown[q] \in AQuery
    BY <1>2, <1>6
  <2> QED BY <2>1, FetchingType
<1>8. /\ query' \in [Panels -> AQuery]
      /\ \A q \in Panels : query'[q].data = shown[q].data /\ (q \in again \/ query'[q] = shown[q])
  BY <1>1, <1>6, <1>7
<1>9. /\ told' \subseteq Panels
      /\ \A q \in told' \ {"view"} : q \in again /\ succeeded /\ query[q].data # None
  BY <1>1, <1>2, <1>3, <1>4
<1>10. kind = "invoice" => doc.status = "posted" /\ "view" \in again
  BY <1>2, <1>3, <1>4
<1>11. waiting' \in {0, waiting} /\ begun' \in Nat /\ lost' \in Nat
  BY <1>1, <1>2
<1> QED BY <1>1, <1>2, <1>3, <1>4, <1>6, <1>8, <1>9, <1>10, <1>11, RefetchStep

LEMMA ErrorStep ==
  ASSUME ReadingInv, onError
  PROVE  ReadingInv'
<1>1. /\ waiting' = 0 /\ UNCHANGED <<kind, doc, entries, events, succeeded, call, told, lost>>
  BY DEF onError, server
<1>2. /\ kind \in {"order", "invoice"} /\ query \in [Panels -> AQuery] /\ begun \in Nat /\ lost \in Nat
      /\ told \subseteq Panels /\ call \in [1 .. MaxCalls -> {"none", "sent", "done", "refused"}]
      /\ (\E n \in 1 .. MaxCalls : call[n] = "done") => succeeded
  BY DEF ReadingInv, ReadingTypeOK, Final
<1>3. CASE kind = "invoice"
  <2> DEFINE again == Refetched(PrefixMatch)
  <2>1. /\ begun' = begun + 1
        /\ query' = [q \in Panels |-> IF q \in again THEN Fetching(query[q]) ELSE query[q]]
        /\ reads' = (reads \ UNION {Fetches(q) : q \in again}) \cup {read(q) : q \in again}
    BY <1>2, <1>3 DEF onError, invalidate
  <2>2. again \in SUBSET Panels /\ "view" \in Panels
    BY <1>2, PanelNames DEF Refetched
  <2> HIDE DEF again
  <2>3. \A q \in Panels : /\ query[q] \in AQuery /\ Fetching(query[q]) \in AQuery
                          /\ Fetching(query[q]).data = query[q].data
    BY <1>2, FetchingType
  <2>4. /\ query' \in [Panels -> AQuery]
        /\ \A q \in Panels : query'[q].data = query[q].data /\ (q \in again \/ query'[q] = query[q])
    BY <2>1, <2>3
  <2>5. waiting' \in {0, waiting} /\ begun' \in Nat /\ lost' \in Nat
    BY <1>1, <1>2, <2>1
  <2> QED BY <1>1, <1>2, <2>1, <2>2, <2>4, <2>5, RefetchStep
<1>4. CASE kind # "invoice"
  <2>1. UNCHANGED <<query, reads, begun>>
    BY <1>4 DEF onError
  <2>2. waiting' \in 0 .. MaxCalls
    BY <1>1, ReadingAssumption
  <2> QED BY <1>1, <1>2, <2>1, <2>2, CallStep
<1> QED BY <1>3, <1>4

LEMMA ReadingStepInv ==
  ASSUME ReadingInv, [ReadingNext]_readingVars
  PROVE  ReadingInv'
<1>1. ASSUME NEW r \in reads, Statement(r) \/ Deliver(r) \/ LoseRead(r) PROVE ReadingInv'
  BY <1>1, StatementStep, DeliverStep, LoseReadStep
<1>2. ASSUME OthersEdit \/ OthersFinish \/ OthersCancel PROVE ReadingInv'
  BY <1>2, EditStep, OthersFinishStep, CancelStep
<1>3. ASSUME NEW q \in Panels, Ask(q) PROVE ReadingInv'
  BY <1>3, AskStep
<1>4. ASSUME Press \/ (\E n \in 1 .. MaxCalls : Serve(n)) \/ StopWaiting PROVE ReadingInv'
  BY <1>4, PressStep, ServeStep, StopWaitingStep
<1>5. ASSUME onSuccess \/ onError PROVE ReadingInv'
  BY <1>5, SuccessStep, ErrorStep
<1>6. ASSUME UNCHANGED readingVars PROVE ReadingInv'
  <2>1. /\ UNCHANGED <<kind, doc, entries, events, succeeded, reads, query, call, waiting, told>>
        /\ UNCHANGED <<begun, lost>>
    BY <1>6 DEF readingVars, server, screen
  <2>2. /\ call \in [1 .. MaxCalls -> {"none", "sent", "done", "refused"}]
        /\ waiting \in 0 .. MaxCalls /\ lost \in Nat
        /\ (waiting # 0 => query["view"].data # None)
        /\ ((\E n \in 1 .. MaxCalls : call[n] = "done") => succeeded)
    BY DEF ReadingInv, ReadingTypeOK, Final
  <2> QED BY <2>1, <2>2, CallStep
<1> QED BY <1>1, <1>2, <1>3, <1>4, <1>5, <1>6 DEF ReadingNext

\* The invariant of a document that is read while others write it: what a read has
\* seen of the header is not newer than the document, and what it has seen in whole
\* is not torn; a success means the document is finished and its panels have been
\* asked for since.  (readInOrder, readInInvoice, and the onSuccess of the screens)
THEOREM ReadingInvHolds == ReadingSpec => []ReadingInv
<1>1. ReadingInv /\ [ReadingNext]_readingVars => ReadingInv'
  BY ReadingStepInv
<1> QED BY ReadingInitInv, <1>1, PTL DEF ReadingSpec

\* A view that the version check lets an edit be saved from shows the lines that
\* the edit replaces: readInOrder and readInInvoice read the header, with its
\* version, before the lines.
THEOREM SavedOver == ReadingSpec => []SavedOverWhatWasShown
<1>1. ASSUME ReadingInv PROVE SavedOverWhatWasShown
  <2> DEFINE view == query["view"].data
  <2>1. view # None => Whole(view)
    BY <1>1 DEF ReadingInv, ViewsWhole
  <2> QED BY <2>1 DEF SavedOverWhatWasShown, Accepted, Whole
<1> QED BY ReadingInvHolds, <1>1, PTL

\* Once the screen has heard that its button finished the document, no panel that
\* was on screen says that nothing was recorded: the invalidation drops what was
\* fetched before and every later read is of a ledger that has the entry.
THEOREM PanelsTell == ReadingSpec => []PanelsTellThePosting
<1>1. ASSUME ReadingInv PROVE PanelsTellThePosting
  <2> SUFFICES ASSUME NEW q \in told \ {"view"}, Fetches(q) = {}
               PROVE  Panel(q) # "nothing recorded"
    BY DEF PanelsTellThePosting
  <2>1. query[q].data # None /\ (query[q].failed \/ query[q].data.list # {})
    BY <1>1 DEF ReadingInv, PanelsTold, PanelTold
  <2> QED BY <2>1 DEF Panel
<1> QED BY ReadingInvHolds, <1>1, PTL

\* An invoice shown as posted stays so: what is under way then was begun before
\* its header was read, or has read that it is posted.
THEOREM PostedStays == ReadingSpec => PostedStaysShown
<1>1. ASSUME ReadingInv, ReadingInv', ReadingNext, kind = "invoice", ShownStatus = "posted"
      PROVE  ShownStatus' = "posted"
  <2>1. query \in [Panels -> AQuery] /\ "view" \in Panels /\ kind \in {"order", "invoice"}
    BY <1>1, PanelNames DEF ReadingInv, ReadingTypeOK
  <2>2. query["view"].data # None /\ query["view"].data.status = "posted" /\ query["view"].data \in Seen
    BY <1>1, <2>1, ReadingAssumption DEF ShownStatus, AQuery
  <2>3. ASSUME query'["view"].data = query["view"].data PROVE ShownStatus' = "posted"
    BY <2>2, <2>3 DEF ShownStatus
  <2>4. ASSUME NEW r \in reads, Statement(r) \/ LoseRead(r) PROVE ShownStatus' = "posted"
    <3>1. query' = query \/ (\E b \in {TRUE} : \/ query' = [query EXCEPT ![r.what].failed = b]
                                               \/ query' = [query EXCEPT ![r.what].tried = b])
      BY <2>4 DEF Statement, LoseRead, screen
    <3>2. query'["view"].data = query["view"].data
      BY <2>1, <3>1 DEF AQuery
    <3> QED BY <2>3, <3>2
  <2>5. ASSUME NEW r \in reads, Deliver(r) PROVE ShownStatus' = "posted"
    <3>1. CASE r.what = "view"
      <4>1. r.rest = <<>> /\ query'["view"].data = r.seen
        BY <2>1, <2>5, <3>1 DEF Deliver, NoQuery
      <4>2. r.seen.status = "posted"
        BY <1>1, <3>1, <4>1, RestsDiffer DEF ReadingInv, PostedKnown
      <4>3. r.seen # None
        BY <1>1, NotNone DEF ReadingInv, ReadingTypeOK, ARead
      <4> QED BY <4>1, <4>2, <4>3 DEF ShownStatus
    <3>2. CASE r.what # "view"
      BY <2>1, <2>3, <2>5, <3>2 DEF Deliver
    <3> QED BY <3>1, <3>2
  <2>6. ASSUME NEW q \in Panels, Ask(q) PROVE ShownStatus' = "posted"
    BY <2>1, <2>3, <2>6 DEF Ask, Fetching, AQuery
  <2>7. ASSUME \/ OthersEdit \/ OthersFinish \/ OthersCancel \/ Press \/ StopWaiting
               \/ \E n \in 1 .. MaxCalls : Serve(n)
        PROVE  ShownStatus' = "posted"
    BY <2>3, <2>7 DEF OthersEdit, OthersFinish, OthersCancel, Press, StopWaiting, Serve, screen
  <2>8. ASSUME onSuccess \/ onError PROVE ShownStatus' = "posted"
    <3> DEFINE again == Refetched(PrefixMatch)
    <3>1. ASSUME onSuccess PROVE query'["view"].data = [query["view"].data EXCEPT !.status = "posted"]
      <4> DEFINE shown == [query EXCEPT !["view"].data.status = Finished, !["view"].failed = FALSE]
      <4>1. query' = [q \in DOMAIN shown |-> IF q \in again THEN Fetching(shown[q]) ELSE shown[q]]
        BY <3>1 DEF onSuccess, invalidate
      <4>2. /\ DOMAIN shown = Panels
            /\ shown["view"].data = [query["view"].data EXCEPT !.status = Finished]
        BY <2>1 DEF AQuery
      <4>3. query'["view"].data = shown["view"].data
        <5> HIDE DEF shown
        <5>1. query'["view"] = (IF "view" \in again THEN Fetching(shown["view"]) ELSE shown["view"])
          BY <2>1, <4>1, <4>2
        <5> QED BY <5>1 DEF Fetching
      <4>4. Finished = "posted"
        BY <1>1 DEF Finished
      <4> QED BY <4>2, <4>3, <4>4
    <3>2. ASSUME onError PROVE query'["view"].data = query["view"].data
      <4>1. query' = [q \in Panels |-> IF q \in again THEN Fetching(query[q]) ELSE query[q]]
        BY <1>1, <2>1, <3>2 DEF onError, invalidate
      <4>2. query["view"] \in AQuery
        BY <2>1
      <4>3. Fetching(query["view"]).data = query["view"].data
        BY <4>2, FetchingType
      <4> HIDE DEF again
      <4> QED BY <2>1, <4>1, <4>3
    <3>3. [query["view"].data EXCEPT !.status = "posted"] = query["view"].data
      BY <2>2 DEF Seen
    <3> QED BY <2>3, <2>8, <3>1, <3>2, <3>3
  <2> QED BY <1>1, <2>4, <2>5, <2>6, <2>7, <2>8 DEF ReadingNext
<1>2. ReadingInv /\ ReadingInv' /\ [ReadingNext]_readingVars
        => [kind = "invoice" /\ ShownStatus = "posted" => ShownStatus' = "posted"]_readingVars
  BY <1>1
<1> QED BY ReadingInvHolds, <1>2, PTL DEF PostedStaysShown, ReadingSpec

=============================================================================
