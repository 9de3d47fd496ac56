------------------------- MODULE ContactSyncProofs -------------------------
(***************************************************************************)
(* Proofs about ContactSync, for any book, any number of runs and any      *)
(* number of changes.  One inductive invariant serves all.  What makes it  *)
(* one: only the run in the lock changes links, so what it has read can    *)
(* only be overtaken by the book, whose later changes lie above every      *)
(* token that was handed out before (Later); and what the user typed       *)
(* differs from the values the run will compare it with (EditInv).         *)
(***************************************************************************)
EXTENDS ContactSync, TLAPS

(* The subscription's mutex.                                               *)
LockInv == \A s, r \in Runs : Locked(s) /\ Locked(r) => s = r

(* Who exists: a linked contact has a row, and a row has a card.           *)
ContactInv ==
  \A h \in Hrefs : (card[h] = None <=> st[h] = "none") /\ (hash[h] # None => st[h] # "none")

(* A request that loaded the contact as it is holds what it is.            *)
FreshInv == rHref # None /\ rFresh => rCard = card[rHref]

(* What was read is only there while a run is about to apply it.           *)
ReadInv ==
  /\ got # NoCards \/ full => \E s \in Runs : pc[s] = "fetched"
  /\ dels # {} => \E s \in Runs : pc[s] \in {"multiget", "fetched"}

(* The object a contact was last synced with is no longer in the book.     *)
Over(h) == book[h] = None \/ born[h] > origin[h]

LifeInv ==
  \A h \in Hrefs :
    /\ hash[h] = None => Over(h)
    /\ st[h] = "archived" => hash[h] = None
    /\ h \in dels => Over(h)
    /\ full /\ got[h] = None => Over(h)
    /\ got[h] # None /\ hash[h] = None => gotBorn[h] > origin[h]

(* A field the user has edited differs from what a run compares it with.   *)
Fetching(s) == pc[s] \in {"collect", "multiget", "query", "fetched"}

EditInv ==
  /\ \A h \in Hrefs, f \in Fields :
       mine[h][f] # None /\ synced[h] # None => mine[h][f] # synced[h][f]
  /\ (\E s \in Runs : Fetching(s)) =>
       \A h \in Hrefs, f \in Fields :
         mine[h][f] # None => Reference(h) # None /\ mine[h][f] # Reference(h)[f]

(* The change of an object is above every token there is.                  *)
Later(h) ==
  /\ changed[h] > token /\ changed[h] > newToken
  /\ \A r \in Runs : changed[h] > tok[r]

GotInv ==
  \A h \in Hrefs :
    /\ got[h] # None => got[h] = book[h] \/ Later(h)
    /\ h \in dels => book[h] = None \/ Later(h)
    /\ full /\ got[h] = None => book[h] = None \/ Later(h)

(* A delta answers for every change between the two tokens.                *)
Between(h, s) == tok[s] < changed[h] /\ changed[h] <= newToken

DeltaInv ==
  \A s \in Runs, h \in Hrefs :
    Between(h, s) =>
      /\ pc[s] = "multiget" /\ book[h] # None => h \in paths
      /\ pc[s] = "fetched" /\ ~full /\ book[h] # None => got[h] = book[h]
      /\ (pc[s] = "multiget" \/ (pc[s] = "fetched" /\ ~full)) /\ book[h] = None
           => tok[s] = 0 \/ h \in dels

(* A query of the whole book keeps the token it began with, or none.       *)
QueryInv ==
  \A s \in Runs :
    pc[s] = "query" \/ (pc[s] = "fetched" /\ full) => newToken \in {0, tok[s]}

(* Every token that is stored or was loaded has been applied.              *)
Applied(t) ==
  \A h \in Hrefs :
    t > 0 /\ changed[h] <= t => \/ hash[h] = book[h] \/ book[h] = Unreadable \/ h \in missed

TokenInv ==
  /\ Applied(token)
  /\ \A s \in Runs : Applied(tok[s]) /\ (pc[s] = "applied" => Applied(newToken))

IInv ==
  /\ TypeOK /\ LockInv /\ ContactInv /\ FreshInv /\ ReadInv
  /\ LifeInv /\ EditInv /\ KeptOrReported
  /\ GotInv /\ DeltaInv /\ QueryInv /\ TokenInv

-----------------------------------------------------------------------------
(* The actions that touch one group of variables, and the rest.            *)
LEMMA RemoteSteps ==
  ASSUME [Next]_vars,
         \A h \in Hrefs, c \in Objects : ~PutRemote(h, c),
         \A h \in Hrefs : ~DeleteRemote(h)
  PROVE  UNCHANGED remote
<1>1. ASSUME NEW s \in Runs, Sync(s) PROVE UNCHANGED remote
  BY <1>1 DEF Sync, LoadSubscription, SyncSubscription, SyncCollection, FallBack,
     MultiGetAddressBook, QueryAddressBook, Reconcile, StoreToken, GiveUp
<1>2. ASSUME NEW h \in Hrefs, User(h) PROVE UNCHANGED remote
  BY <1>2 DEF User, UpdateContact, DeleteContact, RestoreContact, PurgeContact, MoveContact,
     LoadConflict, DismissContactSyncConflict
<1>3. CASE RestoreContactSyncConflict \/ RefuseRestore
  BY <1>3 DEF RestoreContactSyncConflict, RefuseRestore
<1>4. CASE UNCHANGED vars
  BY <1>4 DEF vars
<1> QED BY <1>1, <1>2, <1>3, <1>4 DEF Next, Book

(* Only runs touch tokens and what was read; the user and the book do not. *)
LEMMA RunSteps ==
  ASSUME [Next]_vars, \A s \in Runs : ~Sync(s)
  PROVE  UNCHANGED <<token, pc, tok, fetch, links, missed, origin>>
<1>1. ASSUME NEW h \in Hrefs, User(h) \/ Book(h)
      PROVE  UNCHANGED <<token, pc, tok, fetch, links, missed, origin>>
  BY <1>1 DEF User, Book, PutRemote, DeleteRemote, UpdateContact, DeleteContact, RestoreContact,
     PurgeContact, MoveContact, LoadConflict, DismissContactSyncConflict, ghosts
<1>2. CASE RestoreContactSyncConflict \/ RefuseRestore
  BY <1>2 DEF RestoreContactSyncConflict, RefuseRestore, ghosts
<1>3. CASE UNCHANGED vars
  BY <1>3 DEF vars, ghosts
<1> QED BY <1>1, <1>2, <1>3 DEF Next

(* Links, and what a contact was synced with, are a run's to change.       *)
LEMMA LinkSteps ==
  ASSUME [Next]_vars, \A s \in Runs : ~Reconcile(s)
  PROVE  UNCHANGED <<links, missed, origin>>
<1>1. ASSUME NEW s \in Runs, Sync(s) PROVE UNCHANGED <<links, missed, origin>>
  BY <1>1 DEF Sync, LoadSubscription, SyncSubscription, SyncCollection, FallBack,
     MultiGetAddressBook, QueryAddressBook, StoreToken, GiveUp, ghosts
<1> QED BY <1>1, RunSteps

-----------------------------------------------------------------------------
(* Types.                                                                  *)
LEMMA RemoteStep == ASSUME TypeOK, [Next]_vars PROVE RemoteOK' /\ clock <= clock'
<1> USE SyncAssumption DEF TypeOK, RemoteOK
<1>1. ASSUME NEW h \in Hrefs, NEW c \in Objects, PutRemote(h, c) PROVE RemoteOK' /\ clock <= clock'
  <2>1. clock' = clock + 1 /\ clock' \in 1..MaxClock /\ clock <= clock'
    BY <1>1 DEF PutRemote
  <2>2. book' \in [Hrefs -> Objects \cup {None}]
    BY <1>1 DEF PutRemote
  <2>3. changed' \in [Hrefs -> 1..clock'] /\ born' \in [Hrefs -> 1..clock']
    BY <1>1, <2>1 DEF PutRemote
  <2> QED BY <2>1, <2>2, <2>3
<1>2. ASSUME NEW h \in Hrefs, DeleteRemote(h) PROVE RemoteOK' /\ clock <= clock'
  <2>1. clock' = clock + 1 /\ clock' \in 1..MaxClock /\ clock <= clock'
    BY <1>2 DEF DeleteRemote
  <2>2. book' \in [Hrefs -> Objects \cup {None}]
    BY <1>2 DEF DeleteRemote
  <2>3. changed' \in [Hrefs -> 1..clock'] /\ born' \in [Hrefs -> 1..clock']
    BY <1>2, <2>1 DEF DeleteRemote
  <2> QED BY <2>1, <2>2, <2>3
<1>3. CASE UNCHANGED remote
  BY <1>3 DEF remote
<1> QED BY <1>1, <1>2, <1>3, RemoteSteps

LEMMA RunsStep == ASSUME TypeOK, [Next]_vars PROVE RunsOK'
<1> USE DEF TypeOK, RunsOK
<1>1. clock <= clock' /\ clock \in Nat /\ clock' \in Nat
  BY RemoteStep DEF RemoteOK
<1>2. 0..clock \subseteq 0..clock'
  BY <1>1
<1>3. ASSUME NEW s \in Runs, Sync(s) PROVE RunsOK'
  <2> USE <1>2
  <2>1. CASE LoadSubscription(s)
    BY <2>1 DEF LoadSubscription
  <2>2. CASE SyncSubscription(s) \/ SyncCollection(s) \/ FallBack(s) \/ MultiGetAddressBook(s)
             \/ QueryAddressBook(s)
    <3>1. pc' \in [Runs -> {"idle", "waiting", "collect", "multiget", "query", "fetched", "applied"}]
      BY <2>2 DEF SyncSubscription, SyncCollection, FallBack, MultiGetAddressBook, QueryAddressBook
    <3>2. UNCHANGED <<token, tok>>
      BY <2>2 DEF SyncSubscription, SyncCollection, FallBack, MultiGetAddressBook, QueryAddressBook
    <3> QED BY <3>1, <3>2
  <2>3. CASE Reconcile(s)
    BY <1>1, <2>3 DEF Reconcile
  <2>4. CASE StoreToken(s)
    BY <2>4 DEF StoreToken, FetchOK
  <2>5. CASE GiveUp(s)
    BY <1>1, <2>5 DEF GiveUp
  <2> QED BY <1>3, <2>1, <2>2, <2>3, <2>4, <2>5 DEF Sync
<1>4. CASE UNCHANGED <<token, pc, tok>>
  BY <1>2, <1>4
<1> QED BY <1>3, <1>4, RunSteps

LEMMA LockStep == ASSUME TypeOK, LockInv, [Next]_vars PROVE LockInv'
<1> USE DEF TypeOK, RunsOK, LockInv, Locked
<1>1. ASSUME NEW s \in Runs, Sync(s) PROVE LockInv'
  <2>1. ASSUME NEW r \in Runs \ {s} PROVE pc'[r] = pc[r]
    BY <1>1 DEF Sync, LoadSubscription, SyncSubscription, SyncCollection, FallBack,
       MultiGetAddressBook, QueryAddressBook, Reconcile, StoreToken, GiveUp
  <2>2. Locked(s)' => Locked(s) \/ \A r \in Runs : ~Locked(r)
    BY <1>1 DEF Sync, LoadSubscription, SyncSubscription, SyncCollection, FallBack,
       MultiGetAddressBook, QueryAddressBook, Reconcile, StoreToken, GiveUp
  <2> QED BY <2>1, <2>2
<1>2. CASE UNCHANGED pc
  BY <1>2
<1> QED BY <1>1, <1>2, RunSteps

LEMMA FetchStep == ASSUME TypeOK, [Next]_vars PROVE FetchOK'
<1> USE DEF TypeOK, FetchOK
<1>1. clock <= clock' /\ clock \in Nat /\ clock' \in Nat
  BY RemoteStep DEF RemoteOK
<1>2. 0..clock \subseteq 0..clock' /\ clock \in 0..clock' /\ 0 \in 0..clock'
  BY <1>1
<1>3. ASSUME UNCHANGED fetch PROVE FetchOK'
  BY <1>2, <1>3 DEF fetch
<1>4. ASSUME ForgetFetch, newToken' \in {0, newToken} PROVE FetchOK'
  BY <1>2, <1>4 DEF ForgetFetch, NoCards, Nowhere
<1>5. ASSUME NEW s \in Runs, Sync(s) PROVE FetchOK'
  <2>1. CASE LoadSubscription(s)
    BY <1>3, <2>1 DEF LoadSubscription
  <2>2. CASE SyncSubscription(s)
    <3>1. pre' \in [Hrefs -> Cards \cup {None}]
      BY <2>2 DEF SyncSubscription, Captured, ContactsOK
    <3> QED BY <1>2, <2>2, <3>1 DEF SyncSubscription
  <2>3. CASE SyncCollection(s)
    BY <1>2, <2>3 DEF SyncCollection, Reported, Deleted, Present, RunsOK
  <2>4. CASE FallBack(s)
    BY <1>2, <2>4 DEF FallBack, RunsOK
  <2>5. CASE MultiGetAddressBook(s)
    <3>1. paths' \subseteq Hrefs /\ UNCHANGED <<dels, full, newToken, pre>>
      BY <2>5 DEF MultiGetAddressBook
    <3>2. got' \in [Hrefs -> Objects \cup {None}]
      BY <2>5 DEF MultiGetAddressBook, Fetch, RemoteOK
    <3>3. born \in [Hrefs -> 0..clock']
      BY <1>1 DEF RemoteOK
    <3>4. gotBorn' \in [Hrefs -> 0..clock']
      BY <1>2, <2>5, <3>3 DEF MultiGetAddressBook, Fetch
    <3> QED BY <1>2, <3>1, <3>2, <3>4
  <2>6. CASE QueryAddressBook(s)
    <3>1. full' \in BOOLEAN /\ UNCHANGED <<paths, dels, newToken, pre>>
      BY <2>6 DEF QueryAddressBook
    <3>2. got' \in [Hrefs -> Objects \cup {None}]
      BY <2>6 DEF QueryAddressBook, Fetch, RemoteOK
    <3>3. born \in [Hrefs -> 0..clock']
      BY <1>1 DEF RemoteOK
    <3>4. gotBorn' \in [Hrefs -> 0..clock']
      BY <1>2, <2>6, <3>3 DEF QueryAddressBook, Fetch
    <3> QED BY <1>2, <3>1, <3>2, <3>4
  <2>7. CASE Reconcile(s)
    BY <1>4, <2>7 DEF Reconcile
  <2>8. CASE StoreToken(s)
    BY <1>2, <2>8 DEF StoreToken
  <2>9. CASE GiveUp(s)
    BY <1>3, <1>4, <2>9 DEF GiveUp
  <2> QED BY <1>5, <2>1, <2>2, <2>3, <2>4, <2>5, <2>6, <2>7, <2>8, <2>9 DEF Sync
<1> QED BY <1>3, <1>5, RunSteps

(* A request's row and card only come from a contact that exists, and what *)
(* any save does to the contact ends the request's freshness.              *)
LEMMA RestoreStep == ASSUME TypeOK, ContactInv, FreshInv, [Next]_vars PROVE RestoreOK' /\ FreshInv'
<1> USE SyncAssumption DEF TypeOK, RestoreOK, FreshInv
<1>1. ASSUME UNCHANGED <<restore, card>> PROVE RestoreOK' /\ FreshInv'
  BY <1>1 DEF restore
<1>2. ASSUME NEW s \in Runs, Sync(s) PROVE RestoreOK' /\ FreshInv'
  <2>1. CASE Reconcile(s)
    <3>1. RestoreOK'
      BY <2>1 DEF Reconcile
    <3>2. rHref \in Hrefs /\ rFresh' => card'[rHref] = card[rHref]
      BY <2>1 DEF Reconcile
    <3> QED BY <2>1, <3>1, <3>2 DEF Reconcile
  <2>2. CASE ~Reconcile(s)
    <3>1. UNCHANGED <<restore, card>>
      BY <1>2, <2>2 DEF Sync, LoadSubscription, SyncSubscription, SyncCollection, FallBack,
         MultiGetAddressBook, QueryAddressBook, StoreToken, GiveUp
    <3> QED BY <1>1, <3>1
  <2> QED BY <2>1, <2>2
<1>3. ASSUME NEW h \in Hrefs, User(h) PROVE RestoreOK' /\ FreshInv'
  <2>1. ASSUME NEW f \in Fields, NEW v \in Values, UpdateContact(h, f, v) PROVE RestoreOK' /\ FreshInv'
    <3>1. RestoreOK'
      BY <2>1 DEF UpdateContact
    <3>2. rHref \in Hrefs /\ rFresh' => card'[rHref] = card[rHref]
      BY <2>1 DEF UpdateContact, ContactsOK
    <3> QED BY <2>1, <3>1, <3>2 DEF UpdateContact
  <2>2. CASE DeleteContact(h) \/ RestoreContact(h) \/ PurgeContact(h)
    <3>1. UNCHANGED <<rHref, rRow, rCard, card>> /\ rFresh' \in BOOLEAN /\ (rFresh' => rFresh)
      BY <2>2 DEF DeleteContact, RestoreContact, PurgeContact, MoveContact
    <3> QED BY <3>1
  <2>3. ASSUME NEW row \in conflicts[h], LoadConflict(h, row) PROVE RestoreOK' /\ FreshInv'
    <3>1. row \in Conflict /\ card[h] \in Cards
      BY <2>3 DEF LoadConflict, ContactsOK, ContactInv
    <3> QED BY <2>3, <3>1 DEF LoadConflict
  <2>4. ASSUME NEW row \in conflicts[h], DismissContactSyncConflict(h, row)
        PROVE  RestoreOK' /\ FreshInv'
    BY <1>1, <2>4 DEF DismissContactSyncConflict
  <2> QED BY <1>3, <2>1, <2>2, <2>3, <2>4 DEF User
<1>4. ASSUME NEW h \in Hrefs, Book(h) PROVE RestoreOK' /\ FreshInv'
  <2>1. UNCHANGED <<restore, card>>
    BY <1>4 DEF Book, PutRemote, DeleteRemote
  <2> QED BY <1>1, <2>1
<1>5. CASE RestoreContactSyncConflict \/ RefuseRestore
  BY <1>5 DEF RestoreContactSyncConflict, RefuseRestore, EndRestore
<1>6. CASE UNCHANGED vars
  BY <1>1, <1>6 DEF vars
<1> QED BY <1>2, <1>3, <1>4, <1>5, <1>6 DEF Next

(* What a run reports is of the contact's type: a linked contact has a card.*)
LEMMA ReportedRows ==
  ASSUME TypeOK, ContactInv, NEW h \in Replaced
  PROVE  RecordSyncConflicts(h) \subseteq Conflict
<1>1. h \in Hrefs /\ card[h] \in Cards
  BY DEF Replaced, Differs, TypeOK, ContactsOK, ContactInv, Readable
<1> QED BY <1>1 DEF RecordSyncConflicts, diffSyncConflictFields, Conflict, Cards

LEMMA ReconcileTypes ==
  ASSUME TypeOK, ContactInv, NEW s \in Runs, Reconcile(s)
  PROVE  ContactsOK' /\ ContactInv'
<1> USE SyncAssumption DEF TypeOK, ContactsOK
<1>1. clock' = clock /\ Created \cup Replaced \cup Dropped \cup Archived \subseteq Hrefs
  BY DEF Reconcile, remote, Created, Replaced, Differs, Dropped, Linked, Archived, Readable
<1>2. \A h \in Created \cup Replaced : got[h] \in Cards
  BY DEF Created, Replaced, Differs, FetchOK, Readable, Objects
<1>3. hash' \in [Hrefs -> Cards \cup {None}]
  BY <1>2 DEF Reconcile
<1>4. synced' \in [Hrefs -> Cards \cup {None}]
  BY <1>2 DEF Reconcile
<1>5. st' \in [Hrefs -> {"none", "live", "archived", "trashed", "purged"}]
  BY DEF Reconcile
<1>6. card' \in [Hrefs -> Cards \cup {None}]
  BY <1>2 DEF Reconcile
<1>7. conflicts' \in [Hrefs -> SUBSET Conflict]
  BY ReportedRows DEF Reconcile
<1>8. mine' \in [Hrefs -> [Fields -> Values \cup {None, Discarded}]]
  BY DEF Reconcile, NoEdits
<1>9. origin' \in [Hrefs -> 0..clock']
  BY <1>1 DEF Reconcile, FetchOK
<1>10. missed' \subseteq Hrefs
  BY DEF Reconcile, Linked, Ignored, Differs, Readable
<1>11. ContactInv'
  <2> SUFFICES ASSUME NEW h \in Hrefs
               PROVE  (card'[h] = None <=> st'[h] = "none") /\ (hash'[h] # None => st'[h] # "none")
    BY DEF ContactInv
  <2>1. CASE h \in Created
    BY <1>2, <2>1 DEF Reconcile
  <2>2. CASE h \in Replaced
    <3>1. h \notin Created /\ h \notin Archived /\ hash[h] # None
      BY <2>2 DEF Created, Archived, Dropped, Replaced, Differs, Readable
    <3>2. st'[h] = st[h] /\ card'[h] = got[h]
      BY <2>2, <3>1 DEF Reconcile
    <3> QED BY <1>2, <2>2, <3>1, <3>2 DEF ContactInv
  <2>3. CASE h \in Archived
    <3>1. h \notin Created /\ h \notin Replaced /\ hash[h] # None
      BY <2>3 DEF Created, Archived, Dropped, Linked, Replaced, Differs, Readable
    <3>2. st'[h] = "archived" /\ card'[h] = card[h]
      BY <2>3, <3>1 DEF Reconcile
    <3> QED BY <3>1, <3>2 DEF ContactInv
  <2>4. CASE h \notin Created \cup Replaced \cup Archived
    <3>1. st'[h] = st[h] /\ card'[h] = card[h] /\ hash'[h] \in {hash[h], None}
      BY <2>4 DEF Reconcile
    <3> QED BY <3>1 DEF ContactInv
  <2> QED BY <2>1, <2>2, <2>3, <2>4
<1> QED BY <1>3, <1>4, <1>5, <1>6, <1>7, <1>8, <1>9, <1>10, <1>11

LEMMA ContactsStep ==
  ASSUME TypeOK, ContactInv, FreshInv, [Next]_vars
  PROVE  ContactsOK' /\ ContactInv'
<1> USE SyncAssumption DEF TypeOK, ContactsOK
<1>1. clock <= clock' /\ clock \in Nat /\ clock' \in Nat
  BY RemoteStep DEF RemoteOK
<1>2. 0..clock \subseteq 0..clock'
  BY <1>1
<1>3. ASSUME UNCHANGED <<links, st, card, conflicts, ghosts>> PROVE ContactsOK' /\ ContactInv'
  BY <1>2, <1>3 DEF links, ghosts, ContactInv
<1>4. ASSUME NEW s \in Runs, SyncSubscription(s) PROVE ContactsOK' /\ ContactInv'
  <2>1. mine' \in [Hrefs -> [Fields -> Values \cup {None, Discarded}]]
    BY <1>4 DEF SyncSubscription, NoEdits
  <2> QED BY <1>2, <1>4, <2>1 DEF SyncSubscription, links, ContactInv
<1>5. ASSUME NEW s \in Runs, Sync(s), ~SyncSubscription(s), ~Reconcile(s)
      PROVE  ContactsOK' /\ ContactInv'
  <2>1. UNCHANGED <<links, st, card, conflicts, ghosts>>
    BY <1>5 DEF Sync, LoadSubscription, SyncCollection, FallBack,
       MultiGetAddressBook, QueryAddressBook, StoreToken, GiveUp
  <2> QED BY <1>3, <2>1
<1>6. ASSUME NEW h \in Hrefs, NEW f \in Fields, NEW v \in Values, UpdateContact(h, f, v)
      PROVE  ContactsOK' /\ ContactInv'
  <2>1. card[h] \in Cards
    BY <1>6 DEF UpdateContact, ContactInv
  <2>2. card' \in [Hrefs -> Cards \cup {None}] /\ (\A x \in Hrefs : card'[x] = None <=> card[x] = None)
    BY <1>6, <2>1 DEF UpdateContact, Cards
  <2>3. Owed(h, f, v) \in Values \cup {None}
    BY DEF Owed
  <2>4. mine' \in [Hrefs -> [Fields -> Values \cup {None, Discarded}]]
    BY <1>6, <2>3 DEF UpdateContact
  <2> QED BY <1>2, <1>6, <2>2, <2>4 DEF UpdateContact, links, ContactInv
<1>7. ASSUME NEW h \in Hrefs, DeleteContact(h) \/ RestoreContact(h) \/ PurgeContact(h)
      PROVE  ContactsOK' /\ ContactInv'
  <2>1. st' \in [Hrefs -> {"none", "live", "archived", "trashed", "purged"}]
    BY <1>7 DEF DeleteContact, RestoreContact, PurgeContact, MoveContact
  <2>2. \A x \in Hrefs : st'[x] = "none" <=> st[x] = "none"
    BY <1>7 DEF DeleteContact, RestoreContact, PurgeContact, MoveContact
  <2>3. UNCHANGED <<links, card, origin, missed>>
    BY <1>7 DEF DeleteContact, RestoreContact, PurgeContact, MoveContact
  <2>4. conflicts' \in [Hrefs -> SUBSET Conflict]
    BY <1>7 DEF DeleteContact, RestoreContact, PurgeContact
  <2>5. mine' \in [Hrefs -> [Fields -> Values \cup {None, Discarded}]]
    BY <1>7 DEF DeleteContact, RestoreContact, PurgeContact
  <2> QED BY <1>2, <2>1, <2>2, <2>3, <2>4, <2>5 DEF links, ContactInv
<1>8. ASSUME NEW h \in Hrefs, NEW row \in conflicts[h],
             LoadConflict(h, row) \/ DismissContactSyncConflict(h, row)
      PROVE  ContactsOK' /\ ContactInv'
  <2>1. conflicts' \in [Hrefs -> SUBSET Conflict]
    BY <1>8 DEF LoadConflict, DismissContactSyncConflict
  <2>2. mine' \in [Hrefs -> [Fields -> Values \cup {None, Discarded}]]
    <3>1. CASE LoadConflict(h, row)
      BY <3>1 DEF LoadConflict, ghosts
    <3>2. CASE DismissContactSyncConflict(h, row)
      BY <3>2 DEF DismissContactSyncConflict
    <3> QED BY <1>8, <3>1, <3>2
  <2>3. UNCHANGED <<links, st, card, origin, missed>>
    BY <1>8 DEF LoadConflict, DismissContactSyncConflict, ghosts
  <2> QED BY <1>2, <2>1, <2>2, <2>3 DEF links, ContactInv
<1>9. CASE RestoreContactSyncConflict
  <2>1. rHref \in Hrefs /\ rRow \in Conflict /\ rCard \in Cards /\ rCard = card[rHref]
    BY <1>9 DEF RestoreContactSyncConflict, RestoreOK, FreshInv
  <2>2. /\ card' \in [Hrefs -> Cards \cup {None}]
        /\ \A x \in Hrefs : card'[x] = None <=> card[x] = None
    BY <1>9, <2>1 DEF RestoreContactSyncConflict, Cards, Conflict
  <2>3. conflicts' \in [Hrefs -> SUBSET Conflict]
    BY <1>9 DEF RestoreContactSyncConflict
  <2>4. Owed(rHref, rRow.field, rRow.local) \in Values \cup {None}
    BY <2>1 DEF Owed, Conflict
  <2>5. mine' \in [Hrefs -> [Fields -> Values \cup {None, Discarded}]]
    BY <1>9, <2>4 DEF RestoreContactSyncConflict
  <2>6. UNCHANGED <<links, st, origin, missed>>
    BY <1>9 DEF RestoreContactSyncConflict
  <2> QED BY <1>2, <2>2, <2>3, <2>5, <2>6 DEF links, ContactInv
<1>10. CASE RefuseRestore \/ UNCHANGED vars \/ \E h \in Hrefs : Book(h)
  <2>1. UNCHANGED <<links, st, card, conflicts, ghosts>>
    BY <1>10 DEF RefuseRestore, vars, Book, PutRemote, DeleteRemote
  <2> QED BY <1>3, <2>1
<1> QED BY <1>4, <1>5, <1>6, <1>7, <1>8, <1>9, <1>10, ReconcileTypes DEF Next, User

LEMMA TypeStep ==
  ASSUME TypeOK, ContactInv, FreshInv, [Next]_vars
  PROVE  TypeOK' /\ ContactInv' /\ FreshInv'
BY RemoteStep, ContactsStep, RunsStep, FetchStep, RestoreStep DEF TypeOK

-----------------------------------------------------------------------------
(* What a run has read, and the run that has read it.                      *)
LEMMA ReadStep == ASSUME TypeOK, LockInv, ReadInv, [Next]_vars PROVE ReadInv'
<1> USE DEF TypeOK, RunsOK, FetchOK, ReadInv
<1>1. ASSUME NEW s \in Runs, Sync(s) PROVE ReadInv'
  <2>1. CASE LoadSubscription(s)
    BY <2>1 DEF LoadSubscription, fetch
  <2>2. CASE SyncSubscription(s)
    BY <2>2 DEF SyncSubscription
  <2>3. CASE SyncCollection(s)
    BY <2>3 DEF SyncCollection
  <2>4. CASE FallBack(s)
    BY <2>4 DEF FallBack
  <2>5. CASE MultiGetAddressBook(s)
    BY <2>5 DEF MultiGetAddressBook
  <2>6. CASE QueryAddressBook(s)
    BY <2>6 DEF QueryAddressBook
  <2>7. CASE Reconcile(s)
    BY <2>7 DEF Reconcile, ForgetFetch
  <2>8. CASE StoreToken(s)
    <3>1. \A r \in Runs : pc[r] \in {"multiget", "fetched"} => r # s
      BY <2>8 DEF StoreToken
    <3> QED BY <2>8, <3>1 DEF StoreToken
  <2>9. CASE GiveUp(s) /\ Locked(s)
    BY <2>9 DEF GiveUp, ForgetFetch
  <2>10. CASE GiveUp(s) /\ ~Locked(s)
    <3>1. UNCHANGED fetch /\ \A r \in Runs : pc[r] \in {"multiget", "fetched"} => pc'[r] = pc[r]
      BY <2>10 DEF GiveUp, Locked
    <3> QED BY <3>1 DEF fetch
  <2> QED BY <1>1, <2>1, <2>2, <2>3, <2>4, <2>5, <2>6, <2>7, <2>8, <2>9, <2>10 DEF Sync
<1>2. CASE UNCHANGED <<pc, fetch>>
  BY <1>2 DEF fetch
<1> QED BY <1>1, <1>2, RunSteps

LEMMA NothingRead ==
  ASSUME TypeOK, LockInv, ReadInv, NEW s \in Runs, Locked(s)
  PROVE  /\ pc[s] # "fetched" => got = NoCards /\ ~full
         /\ pc[s] \notin {"multiget", "fetched"} => dels = {}
BY DEF ReadInv, LockInv, Locked

(* The lives of the remote objects.                                        *)
LEMMA LifeReconcile ==
  ASSUME TypeOK, LifeInv, NEW s \in Runs, Reconcile(s)
  PROVE  LifeInv'
<1> USE SyncAssumption DEF TypeOK, ContactsOK, FetchOK
<1>1. dels' = {} /\ ~full' /\ got' = NoCards /\ UNCHANGED remote
  BY DEF Reconcile, ForgetFetch
<1> SUFFICES ASSUME NEW h \in Hrefs
             PROVE  (hash'[h] = None => Over(h)') /\ (st'[h] = "archived" => hash'[h] = None)
  BY <1>1 DEF LifeInv, NoCards
<1>2. CASE h \in Created \cup Replaced
  <2>1. hash'[h] # None
    BY <1>2 DEF Reconcile, Created, Replaced, Differs, Readable
  <2>2. h \in Created => st'[h] = "live"
    BY DEF Reconcile
  <2>3. h \in Replaced => st'[h] # "archived"
    BY DEF Reconcile, Replaced, Differs, Created, Archived, Dropped, LifeInv, Readable
  <2> QED BY <1>2, <2>1, <2>2, <2>3
<1>3. CASE h \notin Created \cup Replaced /\ h \in Dropped
  <2>1. hash'[h] = None
    BY <1>3 DEF Reconcile
  <2>2. got[h] = None /\ origin'[h] = origin[h]
    BY <1>3 DEF Reconcile, Dropped, Ignored, Differs, Readable
  <2>3. Over(h)
    BY <1>3, <2>2 DEF Dropped, LifeInv
  <2> QED BY <1>1, <2>1, <2>2, <2>3 DEF Over, remote
<1>4. CASE h \notin Created \cup Replaced \cup Dropped
  <2>1. hash'[h] = hash[h] /\ st'[h] = st[h]
    BY <1>4 DEF Reconcile, Archived
  <2>2. hash[h] = None => h \notin Readable
    BY <1>4 DEF Created
  <2>3. hash[h] = None => origin'[h] = origin[h]
    BY <2>2 DEF Reconcile, Readable
  <2> QED BY <1>1, <2>1, <2>3 DEF LifeInv, Over, remote
<1> QED BY <1>2, <1>3, <1>4

LEMMA LifeStep ==
  ASSUME TypeOK, LockInv, ContactInv, ReadInv, LifeInv, [Next]_vars
  PROVE  LifeInv'
<1> USE SyncAssumption DEF TypeOK, RemoteOK, ContactsOK, FetchOK, RunsOK
<1>1. ASSUME UNCHANGED <<remote, hash, origin, dels, full, got, gotBorn>>,
             \A h \in Hrefs : st'[h] = "archived" => st[h] = "archived"
      PROVE  LifeInv'
  BY <1>1 DEF LifeInv, Over, remote
<1>2. ASSUME NEW h \in Hrefs, NEW c \in Objects, PutRemote(h, c) PROVE LifeInv'
  <2>1. UNCHANGED <<hash, origin, dels, full, got, gotBorn, st>>
    BY <1>2 DEF PutRemote, links, fetch, ghosts
  <2>2. ASSUME NEW x \in Hrefs, Over(x) PROVE Over(x)'
    <3>1. CASE x # h
      BY <1>2, <2>1, <2>2, <3>1 DEF PutRemote, Over
    <3>2. CASE x = h /\ book[h] = None
      <4>1. born'[h] = clock + 1
        BY <1>2, <3>2 DEF PutRemote
      <4>2. clock + 1 > origin[h]
        OBVIOUS
      <4> QED BY <2>1, <3>2, <4>1, <4>2 DEF Over
    <3>3. CASE x = h /\ book[h] # None
      <4>1. born'[h] = born[h]
        BY <1>2, <3>3 DEF PutRemote
      <4> QED BY <2>1, <2>2, <3>3, <4>1 DEF Over
    <3> QED BY <3>1, <3>2, <3>3
  <2> QED BY <2>1, <2>2 DEF LifeInv
<1>3. ASSUME NEW h \in Hrefs, DeleteRemote(h) PROVE LifeInv'
  <2>1. UNCHANGED <<hash, origin, dels, full, got, gotBorn, st, born>>
    BY <1>3 DEF DeleteRemote, links, fetch, ghosts
  <2>2. ASSUME NEW x \in Hrefs, Over(x) PROVE Over(x)'
    BY <1>3, <2>1, <2>2 DEF DeleteRemote, Over
  <2> QED BY <2>1, <2>2 DEF LifeInv
<1>4. ASSUME NEW s \in Runs, SyncCollection(s) PROVE LifeInv'
  <2>1. got = NoCards /\ ~full
    BY <1>4, NothingRead DEF SyncCollection, Locked
  <2>2. UNCHANGED <<remote, hash, origin, full, got, gotBorn, st>>
    BY <1>4 DEF SyncCollection, links, ghosts
  <2>3. \A h \in dels' : book[h] = None
    BY <1>4 DEF SyncCollection, Deleted, Present
  <2> QED BY <2>1, <2>2, <2>3 DEF LifeInv, Over, remote, NoCards
<1>5. ASSUME NEW s \in Runs, MultiGetAddressBook(s) PROVE LifeInv'
  <2>1. ~full
    BY <1>5, NothingRead DEF MultiGetAddressBook, Locked
  <2>2. UNCHANGED <<remote, hash, origin, full, dels, st>>
    BY <1>5 DEF MultiGetAddressBook, links, ghosts
  <2>3. ASSUME NEW h \in Hrefs, got'[h] # None
        PROVE  book[h] # None /\ gotBorn'[h] = born[h]
    BY <1>5, <2>3 DEF MultiGetAddressBook, Fetch
  <2> QED BY <2>1, <2>2, <2>3 DEF LifeInv, Over, remote
<1>6. ASSUME NEW s \in Runs, QueryAddressBook(s) PROVE LifeInv'
  <2>1. UNCHANGED <<remote, hash, origin, dels, st>>
    BY <1>6 DEF QueryAddressBook, links, ghosts
  <2>2. ASSUME NEW h \in Hrefs
        PROVE  IF book[h] = None THEN got'[h] = None ELSE got'[h] # None /\ gotBorn'[h] = born[h]
    BY <1>6 DEF QueryAddressBook, Fetch, Present
  <2> QED BY <2>1, <2>2 DEF LifeInv, Over, remote
<1>7. ASSUME NEW s \in Runs, GiveUp(s) PROVE LifeInv'
  <2>1. CASE Locked(s)
    BY <1>7, <2>1 DEF GiveUp, ForgetFetch, LifeInv, Over, remote, links, ghosts, NoCards
  <2>2. CASE ~Locked(s)
    BY <1>1, <1>7, <2>2 DEF GiveUp, fetch, links, ghosts
  <2> QED BY <2>1, <2>2
<1>8. ASSUME NEW s \in Runs,
             LoadSubscription(s) \/ SyncSubscription(s) \/ FallBack(s) \/ StoreToken(s)
      PROVE  LifeInv'
  <2>1. UNCHANGED <<remote, hash, origin, dels, full, got, gotBorn, st>>
    BY <1>8 DEF LoadSubscription, SyncSubscription, FallBack, StoreToken, links, fetch, ghosts
  <2> QED BY <1>1, <2>1
<1>9. ASSUME NEW h \in Hrefs, User(h) PROVE LifeInv'
  <2>1. UNCHANGED <<remote, hash, origin, dels, full, got, gotBorn>>
    BY <1>9 DEF User, UpdateContact, DeleteContact, RestoreContact, PurgeContact, MoveContact,
       LoadConflict, DismissContactSyncConflict, links, fetch, ghosts
  <2>2. \A x \in Hrefs : st'[x] = "archived" => st[x] = "archived"
    BY <1>9 DEF User, UpdateContact, DeleteContact, RestoreContact, PurgeContact, MoveContact,
       LoadConflict, DismissContactSyncConflict
  <2> QED BY <1>1, <2>1, <2>2
<1>10. CASE RestoreContactSyncConflict \/ RefuseRestore \/ UNCHANGED vars
  <2>1. UNCHANGED <<remote, hash, origin, dels, full, got, gotBorn, st>>
    BY <1>10 DEF RestoreContactSyncConflict, RefuseRestore, vars, links, fetch, ghosts
  <2> QED BY <1>1, <2>1
<1> QED BY <1>2, <1>3, <1>4, <1>5, <1>6, <1>7, <1>8, <1>9, <1>10, LifeReconcile DEF Next, Sync, Book

-----------------------------------------------------------------------------
(* The user's edits.                                                       *)
LEMMA EditReconcile ==
  ASSUME TypeOK, LockInv, ContactInv, EditInv, KeptOrReported, NEW s \in Runs, Reconcile(s)
  PROVE  EditInv' /\ KeptOrReported'
<1> USE SyncAssumption DEF TypeOK, ContactsOK, FetchOK, RunsOK
<1>1. ~\E r \in Runs : Fetching(r)'
  <2>1. ASSUME NEW r \in Runs, Fetching(r)' PROVE FALSE
    <3>1. r # s /\ pc'[r] = pc[r]
      BY <2>1 DEF Reconcile, Fetching
    <3>2. Locked(r) /\ Locked(s)
      BY <2>1, <3>1 DEF Reconcile, Fetching, Locked
    <3> QED BY <3>1, <3>2 DEF LockInv
  <2> QED BY <2>1
<1>2. ASSUME NEW h \in Hrefs, NEW f \in Fields, mine[h][f] # None
      PROVE  Reference(h) # None /\ mine[h][f] # Reference(h)[f]
  <2>1. Fetching(s)
    BY DEF Reconcile, Fetching
  <2> QED BY <1>2, <2>1 DEF EditInv
<1> SUFFICES ASSUME NEW h \in Hrefs, NEW f \in Fields, mine'[h][f] # None
             PROVE  /\ synced'[h] # None => mine'[h][f] # synced'[h][f]
                    /\ \/ card'[h][f] = mine'[h][f]
                       \/ \E row \in conflicts'[h] : row.field = f /\ row.local = mine'[h][f]
                       \/ mine'[h][f] = Discarded
  BY <1>1 DEF EditInv, KeptOrReported
<1>3. h \notin Created \cup Dropped
  BY DEF Reconcile, NoEdits
<1>4. CASE h \in Replaced
  <2>1. /\ mine'[h][f] = mine[h][f] /\ mine[h][f] # got[h][f]
        /\ synced'[h] = got[h] /\ card'[h] = got[h]
        /\ conflicts'[h] = conflicts[h] \cup RecordSyncConflicts(h)
    BY <1>3, <1>4 DEF Reconcile
  <2>2. CASE card[h][f] = mine[h][f]
    <3>1. f \in diffSyncConflictFields(h)
      BY <1>2, <2>1, <2>2 DEF diffSyncConflictFields
    <3>2. [field |-> f, local |-> card[h][f]] \in RecordSyncConflicts(h)
      BY <3>1 DEF RecordSyncConflicts
    <3> QED BY <2>1, <2>2, <3>2
  <2>3. CASE card[h][f] # mine[h][f]
    BY <2>1, <2>3 DEF KeptOrReported
  <2> QED BY <2>1, <2>2, <2>3
<1>5. CASE h \notin Replaced
  <2>1. mine'[h] = mine[h] /\ synced'[h] = synced[h] /\ card'[h] = card[h]
        /\ conflicts'[h] = conflicts[h]
    BY <1>3, <1>5 DEF Reconcile
  <2> QED BY <2>1 DEF EditInv, KeptOrReported
<1> QED BY <1>4, <1>5

(* A step that sets one field and loses no edit.                           *)
OneEdit(h, f) ==
  \A x \in Hrefs, g \in Fields :
    \/ mine'[x][g] = None
    \/ /\ mine'[x][g] = mine[x][g] /\ <<x, g>> # <<h, f>>
       /\ card'[x][g] = card[x][g]
       /\ \A row \in conflicts[x] : row.field = g => row \in conflicts'[x]
    \/ /\ <<x, g>> = <<h, f>>
       /\ Reference(x) # None /\ mine'[x][g] # Reference(x)[g]
       /\ card'[x][g] = mine'[x][g]

LEMMA EditOne ==
  ASSUME TypeOK, EditInv, KeptOrReported, UNCHANGED <<pc, links, pre>>,
         NEW h \in Hrefs, NEW f \in Fields, OneEdit(h, f)
  PROVE  EditInv' /\ KeptOrReported'
<1>1. \A x \in Hrefs : Reference(x)' = Reference(x)
  BY DEF Reference, links
<1>2. \A s \in Runs : Fetching(s)' <=> Fetching(s)
  BY DEF Fetching
<1>3. ASSUME NEW x \in Hrefs, NEW g \in Fields, mine'[x][g] # None
      PROVE  /\ synced'[x] # None => mine'[x][g] # synced'[x][g]
             /\ (\E s \in Runs : Fetching(s)) =>
                  Reference(x)' # None /\ mine'[x][g] # Reference(x)'[g]
  <2>1. CASE <<x, g>> = <<h, f>>
    BY <1>1, <1>3, <2>1 DEF Reference, links, OneEdit
  <2>2. CASE <<x, g>> # <<h, f>>
    BY <1>1, <1>3, <2>2 DEF EditInv, links, OneEdit
  <2> QED BY <2>1, <2>2
<1>4. EditInv'
  BY <1>2, <1>3 DEF EditInv
<1>5. ASSUME NEW x \in Hrefs, NEW g \in Fields, mine'[x][g] # None
      PROVE  \/ card'[x][g] = mine'[x][g]
             \/ \E row \in conflicts'[x] : row.field = g /\ row.local = mine'[x][g]
             \/ mine'[x][g] = Discarded
  <2>1. CASE <<x, g>> = <<h, f>>
    BY <1>5, <2>1 DEF OneEdit
  <2>2. CASE <<x, g>> # <<h, f>>
    BY <1>5, <2>2 DEF KeptOrReported, OneEdit
  <2> QED BY <2>1, <2>2
<1> QED BY <1>4, <1>5 DEF KeptOrReported

LEMMA OwedValue ==
  ASSUME NEW h, NEW f, NEW v
  PROVE  \/ Owed(h, f, v) = None
         \/ Owed(h, f, v) = v /\ Reference(h) # None /\ Reference(h)[f] # v
BY DEF Owed

LEMMA EditStep ==
  ASSUME TypeOK, LockInv, ContactInv, FreshInv, EditInv, KeptOrReported, [Next]_vars
  PROVE  EditInv' /\ KeptOrReported'
<1> USE SyncAssumption DEF TypeOK, ContactsOK, RunsOK
<1>1. ASSUME UNCHANGED <<links, pre, mine, card>>,
             \A s \in Runs : Fetching(s)' => \E r \in Runs : Fetching(r),
             \A h \in Hrefs : conflicts[h] \subseteq conflicts'[h]
      PROVE  EditInv' /\ KeptOrReported'
  BY <1>1 DEF EditInv, KeptOrReported, Reference, links
<1>2. ASSUME NEW s \in Runs, SyncSubscription(s) PROVE EditInv' /\ KeptOrReported'
  <2>1. UNCHANGED <<links, card, conflicts>>
    BY <1>2 DEF SyncSubscription
  <2>2. ASSUME NEW h \in Hrefs, NEW f \in Fields, mine'[h][f] # None
        PROVE  mine'[h][f] = mine[h][f] /\ synced[h] # None
    BY <1>2, <2>2 DEF SyncSubscription, NoEdits
  <2> QED BY <2>1, <2>2 DEF EditInv, KeptOrReported, Reference, links
<1>3. ASSUME NEW s \in Runs,
             SyncCollection(s) \/ FallBack(s) \/ MultiGetAddressBook(s) \/ QueryAddressBook(s)
      PROVE  EditInv' /\ KeptOrReported'
  <2>1. UNCHANGED <<links, pre, mine, card, conflicts>>
    BY <1>3 DEF SyncCollection, FallBack, MultiGetAddressBook, QueryAddressBook, ghosts
  <2>2. Fetching(s)
    BY <1>3 DEF SyncCollection, FallBack, MultiGetAddressBook, QueryAddressBook, Fetching
  <2> QED BY <1>1, <2>1, <2>2
<1>4. ASSUME NEW s \in Runs, LoadSubscription(s) \/ StoreToken(s) PROVE EditInv' /\ KeptOrReported'
  <2>1. UNCHANGED <<links, pre, mine, card, conflicts>>
    BY <1>4 DEF LoadSubscription, StoreToken, ghosts, fetch
  <2>2. \A r \in Runs : Fetching(r)' => Fetching(r)
    BY <1>4 DEF LoadSubscription, StoreToken, Fetching
  <2> QED BY <1>1, <2>1, <2>2
<1>5. ASSUME NEW s \in Runs, GiveUp(s) PROVE EditInv' /\ KeptOrReported'
  <2>1. UNCHANGED <<links, mine, card, conflicts>>
    BY <1>5 DEF GiveUp, ghosts
  <2>2. \A r \in Runs : Fetching(r)' => Fetching(r) /\ r # s
    BY <1>5 DEF GiveUp, Fetching
  <2>3. CASE Locked(s)
    <3>1. \A r \in Runs : ~Fetching(r)'
      BY <2>2, <2>3 DEF LockInv, Locked, Fetching
    <3> QED BY <2>1, <3>1 DEF EditInv, KeptOrReported, links
  <2>4. CASE ~Locked(s)
    BY <1>1, <1>5, <2>1, <2>2, <2>4 DEF GiveUp, fetch
  <2> QED BY <2>3, <2>4
<1>6. ASSUME NEW h \in Hrefs, NEW f \in Fields, NEW v \in Values, UpdateContact(h, f, v)
      PROVE  EditInv' /\ KeptOrReported'
  <2>1. UNCHANGED <<pc, links, pre, conflicts>>
    BY <1>6 DEF UpdateContact, fetch
  <2>2. card[h] \in Cards
    BY <1>6 DEF UpdateContact, ContactInv
  <2>3. card'[h][f] = v /\ mine'[h][f] = Owed(h, f, v)
    BY <1>6, <2>2 DEF UpdateContact, Cards
  <2>4. \A x \in Hrefs, g \in Fields :
          <<x, g>> # <<h, f>> => card'[x][g] = card[x][g] /\ mine'[x][g] = mine[x][g]
    BY <1>6, <2>2 DEF UpdateContact, Cards
  <2>5. \/ mine'[h][f] = None
        \/ mine'[h][f] = v /\ Reference(h) # None /\ Reference(h)[f] # v
    BY <2>3, OwedValue
  <2>6. OneEdit(h, f)
    BY <2>1, <2>3, <2>4, <2>5 DEF OneEdit
  <2> QED BY <2>1, <2>6, EditOne
<1>7. ASSUME NEW h \in Hrefs,
             RestoreContact(h) \/ PurgeContact(h) \/ \E row \in conflicts[h] : LoadConflict(h, row)
      PROVE  EditInv' /\ KeptOrReported'
  <2>1. UNCHANGED <<links, pre, mine, card, conflicts, pc>>
    BY <1>7 DEF RestoreContact, PurgeContact, MoveContact, LoadConflict, ghosts, fetch
  <2> QED BY <1>1, <2>1 DEF Fetching
<1>8. ASSUME NEW h \in Hrefs, NEW row \in conflicts[h], DismissContactSyncConflict(h, row)
      PROVE  EditInv' /\ KeptOrReported'
  <2>1. UNCHANGED <<pc, links, pre, card>>
    BY <1>8 DEF DismissContactSyncConflict, fetch
  <2>2. row \in Conflict /\ row.field \in Fields
    BY DEF Conflict
  <2>3. conflicts' = [conflicts EXCEPT ![h] = @ \ {row}]
    BY <1>8 DEF DismissContactSyncConflict
  <2>4. mine'[h][row.field] = None \/ (mine'[h][row.field] = mine[h][row.field]
          /\ (mine[h][row.field] # row.local \/ card[h][row.field] = row.local))
    BY <1>8, <2>2 DEF DismissContactSyncConflict
  <2>5. \A x \in Hrefs, g \in Fields :
          <<x, g>> # <<h, row.field>> =>
            mine'[x][g] = mine[x][g] /\ \A r \in conflicts[x] : r.field = g => r \in conflicts'[x]
    BY <1>8, <2>2, <2>3 DEF DismissContactSyncConflict
  <2>6. mine'[h][row.field] # None =>
          \/ card'[h][row.field] = mine'[h][row.field]
          \/ \E r \in conflicts'[h] : r.field = row.field /\ r.local = mine'[h][row.field]
          \/ mine'[h][row.field] = Discarded
    <3>1. CASE card[h][row.field] = mine[h][row.field] \/ mine[h][row.field] = Discarded
      BY <2>1, <2>4, <3>1
    <3>2. CASE mine[h][row.field] # row.local /\ mine[h][row.field] # None
               /\ card[h][row.field] # mine[h][row.field] /\ mine[h][row.field] # Discarded
      <4>1. PICK r \in conflicts[h] : r.field = row.field /\ r.local = mine[h][row.field]
        BY <2>2, <3>2 DEF KeptOrReported
      <4>2. r \in conflicts'[h]
        BY <2>3, <3>2, <4>1
      <4> QED BY <2>4, <4>1, <4>2
    <3> QED BY <2>4, <3>1, <3>2
  <2>7. \A x \in Hrefs : Reference(x)' = Reference(x)
    BY <2>1 DEF Reference, links
  <2>8. \A x \in Hrefs, g \in Fields : mine'[x][g] = None \/ mine'[x][g] = mine[x][g]
    BY <2>4, <2>5
  <2>9. EditInv'
    BY <2>1, <2>7, <2>8 DEF EditInv, Fetching, links
  <2>10. KeptOrReported'
    <3>1. ASSUME NEW x \in Hrefs, NEW g \in Fields, mine'[x][g] # None
          PROVE  \/ card'[x][g] = mine'[x][g]
                 \/ \E r \in conflicts'[x] : r.field = g /\ r.local = mine'[x][g]
                 \/ mine'[x][g] = Discarded
      <4>1. CASE x = h /\ g = row.field
        BY <2>6, <3>1, <4>1
      <4>2. CASE ~(x = h /\ g = row.field)
        BY <2>1, <2>5, <3>1, <4>2 DEF KeptOrReported
      <4> QED BY <4>1, <4>2
    <3> QED BY <3>1 DEF KeptOrReported
  <2> QED BY <2>9, <2>10
<1>9. CASE RestoreContactSyncConflict
  <2>1. UNCHANGED <<pc, links, pre>>
    BY <1>9 DEF RestoreContactSyncConflict, fetch
  <2>2. /\ rHref \in Hrefs /\ rRow.field \in Fields /\ rRow.local \in Values
        /\ rCard = card[rHref] /\ rCard \in Cards
    BY <1>9 DEF RestoreContactSyncConflict, RestoreOK, FreshInv, Conflict
  <2>3. card'[rHref][rRow.field] = rRow.local /\ mine'[rHref][rRow.field] = Owed(rHref, rRow.field, rRow.local)
    BY <1>9, <2>2 DEF RestoreContactSyncConflict, Cards
  <2>4. \A x \in Hrefs, g \in Fields :
          <<x, g>> # <<rHref, rRow.field>> =>
            /\ card'[x][g] = card[x][g] /\ mine'[x][g] = mine[x][g]
            /\ \A r \in conflicts[x] : r.field = g => r \in conflicts'[x]
    BY <1>9, <2>2 DEF RestoreContactSyncConflict, Cards
  <2>5. \/ mine'[rHref][rRow.field] = None
        \/ /\ mine'[rHref][rRow.field] = rRow.local /\ Reference(rHref) # None
           /\ Reference(rHref)[rRow.field] # rRow.local
    BY <2>3, OwedValue
  <2>6. OneEdit(rHref, rRow.field)
    BY <2>2, <2>3, <2>4, <2>5 DEF OneEdit
  <2> QED BY <2>1, <2>2, <2>6, EditOne
<1>10. CASE RefuseRestore \/ UNCHANGED vars \/ \E h \in Hrefs : Book(h)
  <2>1. UNCHANGED <<links, pre, mine, card, conflicts, pc>>
    BY <1>10 DEF RefuseRestore, vars, Book, PutRemote, DeleteRemote, ghosts, fetch
  <2> QED BY <1>1, <2>1 DEF Fetching
<1>11. ASSUME NEW h \in Hrefs, DeleteContact(h) PROVE EditInv' /\ KeptOrReported'
  <2>1. UNCHANGED <<pc, links, pre, card>>
    BY <1>11 DEF DeleteContact, MoveContact, fetch
  <2>2. ASSUME NEW x \in Hrefs, NEW f \in Fields
        PROVE  \/ mine'[x][f] = mine[x][f]
                  /\ (x # h \/ mine[x][f] \in {None, card[x][f]})
               \/ mine'[x][f] = Discarded /\ mine[x][f] # None
    BY <1>11 DEF DeleteContact
  <2>3. \A x \in Hrefs : x # h => conflicts'[x] = conflicts[x]
    BY <1>11 DEF DeleteContact
  <2>4. \A x \in Hrefs : Reference(x)' = Reference(x) /\ Reference(x) \in Cards \cup {None}
    BY <2>1 DEF Reference, links, FetchOK
  <2>5. \A c \in Cards, f \in Fields : c[f] # Discarded
    BY DEF Cards
  <2>6. EditInv'
    <3>1. ASSUME NEW x \in Hrefs, NEW f \in Fields, mine'[x][f] # None
          PROVE  /\ synced[x] # None => mine'[x][f] # synced[x][f]
                 /\ (\E s \in Runs : Fetching(s)) =>
                      Reference(x) # None /\ mine'[x][f] # Reference(x)[f]
      <4>1. CASE mine'[x][f] = mine[x][f]
        BY <3>1, <4>1 DEF EditInv
      <4>2. CASE mine'[x][f] = Discarded /\ mine[x][f] # None
        <5>1. (\E s \in Runs : Fetching(s)) => Reference(x) # None
          BY <4>2 DEF EditInv
        <5>2. synced[x] # None => synced[x] \in Cards
          OBVIOUS
        <5>3. synced[x] # None => mine'[x][f] # synced[x][f]
          BY <2>5, <4>2, <5>2
        <5>4. Reference(x) # None => mine'[x][f] # Reference(x)[f]
          BY <2>4, <2>5, <4>2
        <5> QED BY <5>1, <5>3, <5>4
      <4> QED BY <2>2, <4>1, <4>2
    <3> QED BY <2>1, <2>4, <3>1 DEF EditInv, Fetching, links
  <2>7. KeptOrReported'
    <3>1. ASSUME NEW x \in Hrefs, NEW f \in Fields, mine'[x][f] \notin {None, Discarded},
                 card'[x][f] # mine'[x][f]
          PROVE  \E row \in conflicts'[x] : row.field = f /\ row.local = mine'[x][f]
      <4>1. x # h /\ mine'[x][f] = mine[x][f] /\ card[x][f] # mine[x][f]
        BY <2>1, <2>2, <3>1
      <4>2. mine[x][f] # None /\ mine[x][f] # Discarded
        BY <3>1, <4>1
      <4>3. \E row \in conflicts[x] : row.field = f /\ row.local = mine[x][f]
        BY <4>1, <4>2, Zenon DEF KeptOrReported
      <4>4. conflicts'[x] = conflicts[x]
        BY <2>3, <4>1
      <4> QED BY <4>1, <4>3, <4>4, Zenon
    <3> QED BY <3>1 DEF KeptOrReported
  <2> QED BY <2>6, <2>7
<1> QED BY <1>2, <1>3, <1>4, <1>5, <1>6, <1>7, <1>8, <1>9, <1>10, <1>11, EditReconcile
        DEF Next, Sync, User

-----------------------------------------------------------------------------
(* Tokens.  A step of the book leaves every object it changes above every  *)
(* token; no other step changes the book or when it changed.               *)
Overtaken(h) == Later(h)' /\ \A s \in Runs : ~Between(h, s)'

LEMMA BookStep ==
  ASSUME TypeOK, [Next]_vars, NEW h \in Hrefs, ~UNCHANGED <<book[h], changed[h]>>
  PROVE  /\ UNCHANGED <<token, pc, tok, fetch, links, missed>>
         /\ changed'[h] = clock + 1
         /\ Overtaken(h)
         /\ \A x \in Hrefs : x # h => UNCHANGED <<book[x], changed[x]>>
<1> USE SyncAssumption DEF TypeOK, RemoteOK, RunsOK, FetchOK
<1>1. PICK x \in Hrefs : (\E c \in Objects : PutRemote(x, c)) \/ DeleteRemote(x)
  BY RemoteSteps DEF remote
<1>2. UNCHANGED <<token, pc, tok, fetch, links, missed>>
  BY <1>1 DEF PutRemote, DeleteRemote, ghosts
<1>3. /\ changed'[x] = clock + 1
      /\ \A y \in Hrefs : y # x => UNCHANGED <<book[y], changed[y]>>
  BY <1>1 DEF PutRemote, DeleteRemote
<1>4. x = h
  BY <1>3
<1>5. \A t \in 0..clock : clock + 1 > t
  OBVIOUS
<1>6. Overtaken(h)
  BY <1>2, <1>3, <1>4, <1>5 DEF Overtaken, Later, Between, fetch
<1> QED BY <1>2, <1>3, <1>4, <1>6

LEMMA SyncSteps ==
  ASSUME NEW s \in Runs, Sync(s)
  PROVE  UNCHANGED remote
BY DEF Sync, LoadSubscription, SyncSubscription, SyncCollection, FallBack,
   MultiGetAddressBook, QueryAddressBook, Reconcile, StoreToken, GiveUp

LEMMA GotStep ==
  ASSUME TypeOK, LockInv, ReadInv, GotInv, [Next]_vars
  PROVE  GotInv'
<1> USE DEF TypeOK, RemoteOK, FetchOK, RunsOK
<1> SUFFICES ASSUME NEW h \in Hrefs
             PROVE  /\ got'[h] # None => got'[h] = book'[h] \/ Later(h)'
                    /\ h \in dels' => book'[h] = None \/ Later(h)'
                    /\ full' /\ got'[h] = None => book'[h] = None \/ Later(h)'
  BY DEF GotInv
<1> DEFINE Goal == /\ got'[h] # None => got'[h] = book'[h] \/ Later(h)'
                   /\ h \in dels' => book'[h] = None \/ Later(h)'
                   /\ full' /\ got'[h] = None => book'[h] = None \/ Later(h)'
<1>1. ASSUME UNCHANGED <<got, dels, full, book>>, Later(h) => Later(h)' PROVE Goal
  BY <1>1 DEF GotInv
<1>2. ASSUME got' = NoCards, ~full', dels' = {} PROVE Goal
  BY <1>2 DEF NoCards
<1> HIDE DEF Goal
<1>3. ASSUME NEW s \in Runs, Sync(s) PROVE Goal
  <2>1. UNCHANGED <<book, changed>>
    BY <1>3, SyncSteps DEF remote
  <2>2. CASE LoadSubscription(s)
    BY <1>1, <2>1, <2>2 DEF LoadSubscription, fetch, Later
  <2>3. CASE SyncSubscription(s)
    BY <1>1, <2>1, <2>3 DEF SyncSubscription, Later
  <2>4. CASE SyncCollection(s)
    <3>1. got' = NoCards /\ ~full'
      BY <2>4, NothingRead DEF SyncCollection, Locked
    <3>2. h \in dels' => book[h] = None
      BY <2>4 DEF SyncCollection, Deleted, Present
    <3> QED BY <2>1, <3>1, <3>2 DEF Goal, NoCards
  <2>5. CASE FallBack(s)
    <3>1. got' = NoCards /\ ~full' /\ dels' = {}
      BY <2>5, NothingRead DEF FallBack, Locked
    <3> QED BY <1>2, <3>1
  <2>6. CASE MultiGetAddressBook(s)
    <3>1. ~full'
      BY <2>6, NothingRead DEF MultiGetAddressBook, Locked
    <3>2. got'[h] # None => got'[h] = book[h]
      BY <2>6 DEF MultiGetAddressBook, Fetch
    <3>3. h \in dels' => book[h] = None \/ Later(h)'
      BY <2>1, <2>6 DEF MultiGetAddressBook, GotInv, Later
    <3> QED BY <2>1, <3>1, <3>2, <3>3 DEF Goal
  <2>7. CASE QueryAddressBook(s)
    <3>1. dels' = {}
      BY <2>7, NothingRead DEF QueryAddressBook, Locked
    <3>2. got'[h] = book[h]
      BY <2>7 DEF QueryAddressBook, Fetch, Present
    <3> QED BY <2>1, <3>1, <3>2 DEF Goal
  <2>8. CASE Reconcile(s)
    BY <1>2, <2>8 DEF Reconcile, ForgetFetch
  <2>9. CASE StoreToken(s)
    <3>1. got' = NoCards /\ ~full' /\ dels' = {}
      BY <2>9, NothingRead DEF StoreToken, Locked
    <3> QED BY <1>2, <3>1
  <2>10. CASE GiveUp(s) /\ Locked(s)
    BY <1>2, <2>10 DEF GiveUp, ForgetFetch
  <2>11. CASE GiveUp(s) /\ ~Locked(s)
    <3>1. changed[h] > 0
      OBVIOUS
    <3> QED BY <1>1, <2>1, <2>11, <3>1 DEF GiveUp, fetch, Later
  <2> QED BY <1>3, <2>2, <2>3, <2>4, <2>5, <2>6, <2>7, <2>8, <2>9, <2>10, <2>11 DEF Sync
<1>4. CASE (\A s \in Runs : ~Sync(s)) /\ UNCHANGED <<book[h], changed[h]>>
  <2>1. UNCHANGED <<token, tok, got, dels, full, newToken>>
    BY <1>4, RunSteps DEF fetch
  <2> QED BY <1>4, <2>1 DEF Goal, GotInv, Later
<1>5. CASE ~UNCHANGED <<book[h], changed[h]>>
  <2>1. Later(h)' /\ UNCHANGED got
    BY <1>5, BookStep DEF Overtaken, fetch
  <2>2. got'[h] # None => got'[h] = book'[h] \/ Later(h)'
    BY <2>1
  <2> QED BY <2>1 DEF Goal
<1> QED BY <1>3, <1>4, <1>5 DEF Goal

LEMMA QueryStep == ASSUME TypeOK, LockInv, ReadInv, QueryInv, [Next]_vars PROVE QueryInv'
<1> USE DEF TypeOK, FetchOK, RunsOK
<1>1. ASSUME NEW s \in Runs, Sync(s) PROVE QueryInv'
  <2> SUFFICES ASSUME NEW r \in Runs, (pc[r] = "query" \/ (pc[r] = "fetched" /\ full))'
               PROVE  (newToken \in {0, tok[r]})'
    BY DEF QueryInv
  <2>1. CASE r = s
    <3>1. CASE FallBack(s)
      BY <2>1, <3>1 DEF FallBack
    <3>2. CASE QueryAddressBook(s)
      BY <2>1, <3>2 DEF QueryAddressBook, QueryInv
    <3>3. CASE SyncCollection(s) \/ MultiGetAddressBook(s)
      <4>1. ~full'
        BY <3>3, NothingRead DEF SyncCollection, MultiGetAddressBook, Locked
      <4>2. pc'[s] # "query"
        BY <3>3 DEF SyncCollection, MultiGetAddressBook
      <4> QED BY <2>1, <4>1, <4>2
    <3>4. CASE LoadSubscription(s) \/ SyncSubscription(s) \/ Reconcile(s) \/ StoreToken(s) \/ GiveUp(s)
      <4>1. pc'[s] \notin {"query", "fetched"}
        BY <3>4 DEF LoadSubscription, SyncSubscription, Reconcile, StoreToken, GiveUp
      <4> QED BY <2>1, <4>1
    <3> QED BY <1>1, <3>1, <3>2, <3>3, <3>4 DEF Sync
  <2>2. CASE r # s
    <3>1. pc'[r] = pc[r] /\ tok'[r] = tok[r]
      BY <1>1, <2>2 DEF Sync, LoadSubscription, SyncSubscription, SyncCollection, FallBack,
         MultiGetAddressBook, QueryAddressBook, Reconcile, StoreToken, GiveUp
    <3>2. ~Locked(s)
      BY <2>2, <3>1 DEF LockInv, Locked
    <3>3. UNCHANGED <<newToken, full>>
      BY <1>1, <3>2 DEF Sync, LoadSubscription, SyncSubscription, SyncCollection, FallBack,
         MultiGetAddressBook, QueryAddressBook, Reconcile, StoreToken, GiveUp, Locked, fetch
    <3> QED BY <3>1, <3>3 DEF QueryInv
  <2> QED BY <2>1, <2>2
<1>2. CASE UNCHANGED <<pc, tok, fetch>>
  BY <1>2 DEF QueryInv, fetch
<1> QED BY <1>1, <1>2, RunSteps

LEMMA DeltaStep == ASSUME TypeOK, LockInv, ReadInv, DeltaInv, [Next]_vars PROVE DeltaInv'
<1> USE DEF TypeOK, RemoteOK, FetchOK, RunsOK
<1> DEFINE Delta(r, h) ==
      /\ pc[r] = "multiget" /\ book[h] # None => h \in paths
      /\ pc[r] = "fetched" /\ ~full /\ book[h] # None => got[h] = book[h]
      /\ (pc[r] = "multiget" \/ (pc[r] = "fetched" /\ ~full)) /\ book[h] = None
           => tok[r] = 0 \/ h \in dels
<1> SUFFICES ASSUME NEW r \in Runs, NEW h \in Hrefs, Between(h, r)' PROVE Delta(r, h)'
  BY DEF DeltaInv
<1>1. ASSUME NEW s \in Runs, Sync(s), r = s PROVE Delta(r, h)'
  <2>1. UNCHANGED <<book, changed>>
    BY <1>1, SyncSteps DEF remote
  <2>2. CASE SyncCollection(s)
    <3>1. ~full' /\ paths' = Reported(tok[s]) /\ dels' = Deleted(tok[s]) /\ tok' = tok
      BY <2>2, NothingRead DEF SyncCollection, Locked
    <3>2. tok[s] < changed[h]
      BY <1>1, <2>1, <3>1 DEF Between
    <3>3. book[h] # None => h \in Reported(tok[s])
      BY <3>2 DEF Reported, Present
    <3>4. book[h] = None => tok[s] = 0 \/ h \in Deleted(tok[s])
      BY <3>2 DEF Deleted, Present
    <3>5. Reported(tok[s]) # {} => pc'[s] = "multiget"
      BY <2>2 DEF SyncCollection
    <3> QED BY <1>1, <2>1, <3>1, <3>3, <3>4, <3>5
  <2>3. CASE MultiGetAddressBook(s)
    <3>1. pc[s] = "multiget" /\ pc'[s] = "fetched" /\ UNCHANGED <<tok, dels, newToken>>
      BY <2>3 DEF MultiGetAddressBook
    <3>2. Between(h, s)
      BY <1>1, <2>1, <3>1 DEF Between
    <3>3. book[h] # None => got'[h] = book[h]
      BY <2>3, <3>1, <3>2 DEF MultiGetAddressBook, Fetch, DeltaInv
    <3> QED BY <1>1, <2>1, <3>1, <3>2, <3>3 DEF DeltaInv
  <2>4. CASE QueryAddressBook(s)
    BY <1>1, <2>4 DEF QueryAddressBook
  <2>5. CASE LoadSubscription(s) \/ SyncSubscription(s) \/ FallBack(s) \/ Reconcile(s)
             \/ StoreToken(s) \/ GiveUp(s)
    <3>1. pc'[s] \notin {"multiget", "fetched"}
      BY <2>5 DEF LoadSubscription, SyncSubscription, FallBack, Reconcile, StoreToken, GiveUp
    <3> QED BY <1>1, <3>1
  <2> QED BY <1>1, <2>2, <2>3, <2>4, <2>5 DEF Sync
<1>2. ASSUME NEW s \in Runs, Sync(s), r # s PROVE Delta(r, h)'
  <2>1. UNCHANGED <<book, changed>> /\ pc'[r] = pc[r] /\ tok'[r] = tok[r]
    BY <1>2, SyncSteps DEF remote, Sync, LoadSubscription, SyncSubscription, SyncCollection, FallBack,
       MultiGetAddressBook, QueryAddressBook, Reconcile, StoreToken, GiveUp
  <2>2. CASE Locked(s)
    BY <1>2, <2>1, <2>2 DEF LockInv, Locked
  <2>3. CASE ~Locked(s)
    <3>1. UNCHANGED <<paths, got, dels, full, newToken>>
      BY <1>2, <2>3 DEF Sync, LoadSubscription, SyncSubscription, SyncCollection, FallBack,
         MultiGetAddressBook, QueryAddressBook, Reconcile, StoreToken, GiveUp, Locked, fetch
    <3> QED BY <2>1, <3>1 DEF DeltaInv, Between
  <2> QED BY <2>2, <2>3
<1>3. CASE (\A s \in Runs : ~Sync(s)) /\ UNCHANGED <<book[h], changed[h]>>
  <2>1. UNCHANGED <<pc, tok, fetch>>
    BY <1>3, RunSteps
  <2> QED BY <1>3, <2>1 DEF DeltaInv, Between, fetch
<1>4. CASE ~UNCHANGED <<book[h], changed[h]>>
  BY <1>4, BookStep DEF Overtaken
<1> QED BY <1>1, <1>2, <1>3, <1>4

(* What a run applies is what the book had when it was read, so an object  *)
(* not changed since any one token is linked as the book has it.           *)
LEMMA ReconcileOne ==
  ASSUME TypeOK, GotInv, NEW s \in Runs, Reconcile(s), NEW h \in Hrefs, ~Later(h),
         \/ got[h] # None \/ h \in dels \/ full
         \/ hash[h] = book[h] \/ book[h] = Unreadable \/ h \in missed
         \/ tok[s] = 0 /\ book[h] = None
  PROVE  hash'[h] = book'[h] \/ book'[h] = Unreadable \/ h \in missed'
<1> USE SyncAssumption DEF TypeOK, ContactsOK, FetchOK
<1>1. book' = book
  BY DEF Reconcile, remote
<1>2. CASE got[h] # None
  <2>1. got[h] = book[h]
    BY <1>2 DEF GotInv
  <2>2. CASE h \in Ignored
    <3>1. h \notin Dropped
      BY <1>2 DEF Dropped
    <3> QED BY <2>2, <3>1 DEF Reconcile
  <2>3. CASE h \in Created \cup Replaced
    BY <1>1, <2>1, <2>3 DEF Reconcile
  <2>4. CASE h \notin Ignored /\ h \notin Created \cup Replaced
    <3>1. hash[h] = got[h] \/ got[h] = Unreadable
      BY <1>2, <2>4 DEF Ignored, Created, Replaced, Differs, Readable
    <3>2. h \notin Dropped
      BY <1>2 DEF Dropped
    <3>3. hash'[h] = hash[h]
      BY <2>4, <3>2 DEF Reconcile
    <3> QED BY <1>1, <2>1, <3>1, <3>3
  <2> QED BY <2>2, <2>3, <2>4
<1>3. CASE got[h] = None /\ h \in Dropped
  <2>1. book[h] = None
    BY <1>3 DEF GotInv, Dropped
  <2>2. hash'[h] = None
    BY <1>3 DEF Reconcile, Created, Replaced, Differs
  <2> QED BY <1>1, <2>1, <2>2
<1>4. CASE got[h] = None /\ h \notin Dropped
  <2>1. hash'[h] = hash[h]
    BY <1>4 DEF Reconcile, Created, Replaced, Differs, Readable
  <2>2. h \in missed => h \in missed'
    BY <1>4 DEF Reconcile, Readable
  <2>3. h \in dels \/ full => hash[h] = book[h]
    <3>1. h \in dels \/ full => hash[h] = None /\ book[h] = None
      BY <1>4 DEF Dropped, Linked, GotInv
    <3> QED BY <3>1
  <2>4. ASSUME tok[s] = 0, book[h] = None, ~full, hash[h] # None PROVE h \in missed'
    BY <1>4, <2>4 DEF Reconcile, Linked, Readable
  <2>5. CASE hash[h] = book[h] \/ book[h] = Unreadable
    BY <1>1, <2>1, <2>5
  <2>6. CASE hash[h] # book[h] /\ book[h] # Unreadable
    BY <1>4, <2>2, <2>3, <2>4, <2>6
  <2> QED BY <2>5, <2>6
<1> QED BY <1>2, <1>3, <1>4

LEMMA TokenReconcile ==
  ASSUME TypeOK, LockInv, GotInv, DeltaInv, QueryInv, TokenInv, NEW s \in Runs, Reconcile(s)
  PROVE  TokenInv'
<1> USE DEF TypeOK, RemoteOK, RunsOK, FetchOK
<1>1. UNCHANGED <<changed, token, newToken>>
  BY DEF Reconcile, remote
<1>2. ASSUME NEW t \in Nat, Applied(t), NEW h \in Hrefs, t > 0, changed[h] <= t, ~Later(h)
      PROVE  hash'[h] = book'[h] \/ book'[h] = Unreadable \/ h \in missed'
  BY <1>2, ReconcileOne DEF Applied
<1>3. Applied(token)'
  BY <1>1, <1>2 DEF Applied, TokenInv, Later
<1>4. ASSUME NEW r \in Runs PROVE Applied(tok[r])'
  <2>1. tok'[r] \in {0, tok[r]}
    BY DEF Reconcile
  <2>2. \A h \in Hrefs : changed[h] <= tok[r] => ~Later(h)
    BY DEF Later
  <2> QED BY <1>1, <1>2, <2>1, <2>2 DEF Applied, TokenInv
<1>5. Applied(newToken)'
  <2> SUFFICES ASSUME NEW h \in Hrefs, newToken > 0, changed[h] <= newToken
               PROVE  hash'[h] = book'[h] \/ book'[h] = Unreadable \/ h \in missed'
    BY <1>1 DEF Applied
  <2>1. ~Later(h) /\ pc[s] = "fetched"
    BY DEF Later, Reconcile
  <2>2. CASE full
    BY <2>1, <2>2, ReconcileOne
  <2>3. CASE ~full /\ tok[s] > 0 /\ changed[h] <= tok[s]
    <3>1. Applied(tok[s]) /\ tok[s] \in Nat
      BY DEF TokenInv
    <3> QED BY <1>2, <2>1, <2>3, <3>1
  <2>4. CASE ~full /\ tok[s] < changed[h]
    <3>1. Between(h, s)
      BY <2>4 DEF Between
    <3>2. book[h] # None => got[h] = book[h]
      BY <2>1, <2>4, <3>1 DEF DeltaInv
    <3>3. book[h] = None => tok[s] = 0 \/ h \in dels
      BY <2>1, <2>4, <3>1 DEF DeltaInv
    <3> QED BY <2>1, <3>2, <3>3, ReconcileOne
  <2>5. tok[s] \in Nat /\ changed[h] \in Nat /\ changed[h] > 0
    OBVIOUS
  <2> QED BY <2>2, <2>3, <2>4, <2>5
<1>6. \A r \in Runs : pc'[r] = "applied" => Applied(newToken)'
  BY <1>5
<1> QED BY <1>3, <1>4, <1>6 DEF TokenInv

(* A token keeps being applied while only the book changes.                *)
LEMMA AppliedStays ==
  ASSUME TypeOK, [Next]_vars, \A s \in Runs : ~Reconcile(s),
         NEW t \in 0..clock, Applied(t)
  PROVE  Applied(t)'
<1> USE DEF TypeOK, RemoteOK
<1>1. UNCHANGED <<hash, missed>>
  BY LinkSteps DEF links
<1>2. ASSUME NEW h \in Hrefs, t > 0, changed'[h] <= t PROVE UNCHANGED <<book[h], changed[h]>>
  <2>1. CASE ~UNCHANGED <<book[h], changed[h]>>
    BY <1>2, <2>1, BookStep
  <2> QED BY <2>1
<1> QED BY <1>1, <1>2 DEF Applied

LEMMA TokenStep ==
  ASSUME TypeOK, LockInv, GotInv, DeltaInv, QueryInv, TokenInv, [Next]_vars
  PROVE  TokenInv'
<1> USE DEF TypeOK, RemoteOK, RunsOK, FetchOK
<1>1. CASE \E s \in Runs : Reconcile(s)
  BY <1>1, TokenReconcile
<1>2. CASE \A s \in Runs : ~Reconcile(s)
  <2>1. ASSUME NEW t \in 0..clock, Applied(t) PROVE Applied(t)'
    BY <1>2, <2>1, AppliedStays
  <2>2. Applied(0)'
    BY DEF Applied
  <2>3. token' = token \/ \E s \in Runs : pc[s] = "applied" /\ token' = newToken
    <3>1. ASSUME NEW s \in Runs, Sync(s)
          PROVE  token' = token \/ (pc[s] = "applied" /\ token' = newToken)
      BY <3>1 DEF Sync, LoadSubscription, SyncSubscription, SyncCollection, FallBack,
         MultiGetAddressBook, QueryAddressBook, Reconcile, StoreToken, GiveUp
    <3> QED BY <3>1, RunSteps
  <2>4. (\E t \in 0..clock : Applied(t) /\ token' = t)
    BY <2>3 DEF TokenInv
  <2>5. Applied(token)'
    <3>1. PICK t \in 0..clock : Applied(t) /\ token' = t
      BY <2>4
    <3>2. Applied(t)'
      BY <2>1, <3>1
    <3> QED BY <3>1, <3>2 DEF Applied
  <2>6. ASSUME NEW r \in Runs PROVE Applied(tok[r])'
    <3>1. tok'[r] \in {0, token, tok[r]}
      <4>1. ASSUME NEW s \in Runs, Sync(s) PROVE tok'[r] \in {0, token, tok[r]}
        BY <4>1 DEF Sync, LoadSubscription, SyncSubscription, SyncCollection, FallBack,
           MultiGetAddressBook, QueryAddressBook, Reconcile, StoreToken, GiveUp
      <4> QED BY <4>1, RunSteps
    <3>2. PICK t \in 0..clock : Applied(t) /\ tok'[r] = t
      <4>1. Applied(0) /\ 0 \in 0..clock
        BY DEF Applied
      <4> QED BY <3>1, <4>1 DEF TokenInv
    <3>3. Applied(t)'
      BY <2>1, <3>2
    <3> QED BY <3>2, <3>3 DEF Applied
  <2>7. ASSUME NEW r \in Runs, pc'[r] = "applied" PROVE Applied(newToken)'
    <3>1. pc[r] = "applied" /\ UNCHANGED newToken
      <4>1. ASSUME NEW s \in Runs, Sync(s), s = r PROVE FALSE
        BY <1>2, <2>7, <4>1 DEF Sync, LoadSubscription, SyncSubscription, SyncCollection, FallBack,
           MultiGetAddressBook, QueryAddressBook, StoreToken, GiveUp
      <4>2. ASSUME NEW s \in Runs, Sync(s), s # r PROVE pc[r] = "applied" /\ UNCHANGED newToken
        <5>1. pc'[r] = pc[r]
          BY <4>2 DEF Sync, LoadSubscription, SyncSubscription, SyncCollection, FallBack,
             MultiGetAddressBook, QueryAddressBook, Reconcile, StoreToken, GiveUp
        <5>2. ~Locked(s)
          BY <2>7, <4>2, <5>1 DEF LockInv, Locked
        <5>3. UNCHANGED newToken
          BY <4>2, <5>2 DEF Sync, LoadSubscription, SyncSubscription, SyncCollection, FallBack,
             MultiGetAddressBook, QueryAddressBook, Reconcile, StoreToken, GiveUp, Locked, fetch
        <5> QED BY <2>7, <5>1, <5>3
      <4> QED BY <2>7, <4>1, <4>2, RunSteps DEF fetch
    <3>2. Applied(newToken) /\ newToken \in 0..clock
      BY <3>1 DEF TokenInv
    <3>3. Applied(newToken)' <=> (\A h \in Hrefs : newToken > 0 /\ changed'[h] <= newToken
                                    => hash'[h] = book'[h] \/ book'[h] = Unreadable \/ h \in missed')
      BY <3>1 DEF Applied
    <3>4. PICK t \in 0..clock : t = newToken
      BY <3>2
    <3>5. Applied(t)'
      BY <2>1, <3>2, <3>4
    <3> QED BY <3>3, <3>4, <3>5 DEF Applied
  <2> QED BY <2>5, <2>6, <2>7 DEF TokenInv
<1> QED BY <1>1, <1>2

-----------------------------------------------------------------------------
LEMMA InitIInv == ASSUME Init PROVE IInv
<1> USE SyncAssumption DEF Init, NoCards, Nowhere, NoEdits
<1>1. TypeOK
  <2>1. RemoteOK
    BY DEF RemoteOK
  <2>2. 0 \in 0..clock /\ 1 \in 0..clock
    OBVIOUS
  <2>3. ContactsOK
    <3>1. hash \in [Hrefs -> Cards \cup {None}]
      BY DEF Objects
    <3>2. /\ synced \in [Hrefs -> Cards \cup {None}] /\ card \in [Hrefs -> Cards \cup {None}]
          /\ origin \in [Hrefs -> 0..clock] /\ missed \subseteq Hrefs
      BY <2>2, <3>1
    <3>3. /\ conflicts \in [Hrefs -> SUBSET Conflict]
          /\ mine \in [Hrefs -> [Fields -> Values \cup {None, Discarded}]]
      OBVIOUS
    <3>4. st \in [Hrefs -> {"none", "live", "archived", "trashed", "purged"}]
      OBVIOUS
    <3> QED BY <3>1, <3>2, <3>3, <3>4 DEF ContactsOK
  <2>4. RunsOK
    BY <2>2 DEF RunsOK
  <2>5. FetchOK
    BY <2>2 DEF FetchOK
  <2>6. RestoreOK
    BY DEF RestoreOK
  <2> QED BY <2>1, <2>3, <2>4, <2>5, <2>6 DEF TypeOK
<1>2. LockInv /\ FreshInv /\ ReadInv /\ DeltaInv /\ QueryInv
  <2>1. LockInv
    BY DEF LockInv, Locked
  <2>2. FreshInv
    BY DEF FreshInv
  <2>3. ReadInv
    <3>1. got = NoCards /\ ~full /\ dels = {}
      OBVIOUS
    <3> QED BY <3>1 DEF ReadInv
  <2>4. DeltaInv
    BY DEF DeltaInv
  <2>5. QueryInv
    BY DEF QueryInv
  <2> QED BY <2>1, <2>2, <2>3, <2>4, <2>5
<1>3. ContactInv
  BY DEF ContactInv
<1>4. LifeInv
  <2> SUFFICES ASSUME NEW h \in Hrefs
               PROVE  (hash[h] = None => Over(h)) /\ (st[h] = "archived" => hash[h] = None)
    BY DEF LifeInv
  <2>1. st[h] # "archived"
    BY ZenonT(20)
  <2>2. hash[h] = None => origin[h] = 0 /\ born[h] = 1
    OBVIOUS
  <2> QED BY <2>1, <2>2 DEF Over
<1>5. EditInv /\ KeptOrReported
  BY DEF EditInv, KeptOrReported
<1>6. GotInv
  BY DEF GotInv
<1>7. \A t \in {0, token} : Applied(t)
  BY DEF Applied
<1>8. TokenInv
  BY <1>7 DEF TokenInv
<1> QED BY <1>1, <1>2, <1>3, <1>4, <1>5, <1>6, <1>8 DEF IInv

LEMMA NextIInv == ASSUME IInv, [Next]_vars PROVE IInv'
BY TypeStep, LockStep, ReadStep, LifeStep, EditStep, GotStep, DeltaStep, QueryStep, TokenStep
   DEF IInv

LEMMA AlwaysIInv == Spec => []IInv
BY InitIInv, NextIInv, PTL DEF Spec

(* Every variable keeps its type.                                          *)
THEOREM TypeCorrect == Spec => []TypeOK
<1>1. IInv => TypeOK
  BY DEF IInv
<1> QED BY <1>1, AlwaysIInv, PTL

(* What the user typed is kept or reported, whatever runs, edits, deletes  *)
(* and restores meet (recordSyncConflicts, issues #395 and #919).          *)
THEOREM EditsAreKeptOrReported == Spec => []KeptOrReported
<1>1. IInv => KeptOrReported
  BY DEF IInv
<1> QED BY <1>1, AlwaysIInv, PTL

(* The stored token is never ahead of what was applied, however many runs  *)
(* loaded it, failed and stored theirs (syncSubscription).                 *)
THEOREM TokensAreApplied == Spec => []TokenIsApplied
<1>1. IInv => TokenIsApplied
  BY DEF IInv, TokenInv, Applied, TokenIsApplied
<1> QED BY <1>1, AlwaysIInv, PTL

(* Only what was deleted from the book is archived (reconcile's deletions).*)
THEOREM ArchivesWereDeleted == Spec => []ArchivedWasDeleted
<1>1. IInv => ArchivedWasDeleted
  BY DEF IInv, LifeInv, Over, ArchivedWasDeleted
<1> QED BY <1>1, AlwaysIInv, PTL

(* One life of a remote object is imported once (ADR 0037 decision 7).     *)
THEOREM ObjectsAreImportedOnce == Spec => ImportedOnce
<1>1. ASSUME IInv, [Next]_vars
      PROVE  [\A h \in Hrefs : hash[h] = None /\ hash'[h] # None => origin'[h] > origin[h]]_vars
  <2> SUFFICES ASSUME NEW h \in Hrefs, hash[h] = None, hash'[h] # None
               PROVE  origin'[h] > origin[h]
    OBVIOUS
  <2>1. PICK s \in Runs : Reconcile(s)
    BY <1>1, LinkSteps DEF links
  <2>2. h \in Created
    BY <2>1 DEF Reconcile, Replaced, Differs
  <2>3. got[h] # None /\ h \in Readable \ Ignored
    BY <2>2 DEF Created, Ignored, Differs, Readable
  <2>4. origin'[h] = gotBorn[h]
    BY <2>1, <2>3 DEF Reconcile
  <2> QED BY <1>1, <2>3, <2>4 DEF IInv, LifeInv
<1> QED BY <1>1, AlwaysIInv, PTL DEF Spec, ImportedOnce

(* Restoring a value changes one field of the contact as it is now (the    *)
(* compare-and-swap of RestoreContactSyncConflict).                        *)
THEOREM RestoresChangeOneField == Spec => RestoreIsOneField
<1>1. ASSUME IInv, [Next]_vars
      PROVE  [ \A h \in Hrefs :
                 rHref = h /\ rHref' = None /\ card'[h] # card[h]
                   => card'[h] = [card[h] EXCEPT ![rRow.field] = rRow.local] ]_vars
  <2> SUFFICES ASSUME NEW h \in Hrefs, rHref = h, rHref' = None, card'[h] # card[h]
               PROVE  card'[h] = [card[h] EXCEPT ![rRow.field] = rRow.local]
    OBVIOUS
  <2>1. h # None
    BY SyncAssumption
  <2>2. RestoreContactSyncConflict
    <3>1. ASSUME NEW s \in Runs, Sync(s) PROVE rHref' = rHref
      BY <3>1 DEF Sync, LoadSubscription, SyncSubscription, SyncCollection, FallBack,
         MultiGetAddressBook, QueryAddressBook, Reconcile, StoreToken, GiveUp, restore
    <3>2. ASSUME NEW x \in Hrefs, User(x) \/ Book(x) PROVE rHref' = rHref
      BY <3>2, <2>1 DEF User, UpdateContact, DeleteContact, RestoreContact, PurgeContact, MoveContact,
         LoadConflict, DismissContactSyncConflict, Book, PutRemote, DeleteRemote, restore
    <3>3. ~RefuseRestore /\ ~UNCHANGED vars
      BY DEF RefuseRestore, vars
    <3> QED BY <1>1, <2>1, <3>1, <3>2, <3>3 DEF Next
  <2>3. rCard = card[h] /\ h \in DOMAIN card
    BY <1>1, <2>2 DEF RestoreContactSyncConflict, IInv, FreshInv, TypeOK, ContactsOK
  <2> QED BY <2>2, <2>3 DEF RestoreContactSyncConflict
<1> QED BY <1>1, AlwaysIInv, PTL DEF Spec, RestoreIsOneField

=============================================================================
