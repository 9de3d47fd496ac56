---------------------------- MODULE ContactSync ----------------------------
(***************************************************************************)
(* services/contact_sync_service.go and sync_conflict_service.go: syncing  *)
(* contacts in from a CardDAV address book.  A run reads the book over the *)
(* network and then applies what it read in one transaction, while the     *)
(* user edits, trashes and restores the contacts, restores the values a    *)
(* run has overwritten, and the book itself changes.                       *)
(*                                                                         *)
(* A card is what a vCard says in the fields the conflict detector tracks; *)
(* its content hash is the card itself.  An object of the book may also be *)
(* one the codec refuses.  A contact is known by the path                  *)
(* (href) of the object it was imported from; one whose link is gone and   *)
(* whose object is imported anew is not followed any further.  Conflicts   *)
(* are kept while they are pending: a dismissed row is never read again.   *)
(***************************************************************************)
EXTENDS Naturals

CONSTANTS
  Hrefs,     \* paths in the address book
  Fields, Values,
  Unreadable,\* a vCard that fails to be encoded again or imported
  None,      \* no card, no link, no baseline, no edit
  Discarded, \* an edit that was reported, and whose report is gone
  Runs,      \* requests to sync the subscription
  MaxClock   \* bounds the changes of the book

Cards == [Fields -> Values]
Objects == Cards \cup {Unreadable}

ASSUME SyncAssumption ==
  /\ None \notin Cards /\ None \notin Values /\ None \notin Hrefs
  /\ Unreadable \notin Cards /\ Unreadable # None
  /\ Discarded \notin Values /\ Discarded # None
  /\ MaxClock \in Nat \ {0}

VARIABLES
  book, changed, born, clock,    \* the remote: cards, when they changed and began
  hash, synced,                  \* contact_sync_links: content_hash, synced_values
  st, card,                      \* the contacts
  conflicts,                     \* pending contact_sync_conflicts, by contact
  token,                         \* the subscription's sync_token; 0 is ""
  pc, tok,                       \* runs: where they are, the token they loaded
  paths, got, gotBorn, dels, full, newToken, pre,  \* what the run in the lock has read
  rHref, rRow, rCard, rFresh,    \* a request that restores a value
  mine,      \* what the user last put in a field, and a run owes to keep or report
  origin,    \* which life of the object the contact was last synced with
  missed     \* objects the stored token has passed by

remote == <<book, changed, born, clock>>
links == <<hash, synced>>
fetch == <<paths, got, gotBorn, dels, full, newToken, pre>>
restore == <<rHref, rRow, rCard, rFresh>>
ghosts == <<mine, origin, missed>>
vars == <<remote, links, st, card, conflicts, token, pc, tok, fetch, restore, ghosts>>

NoEdits == [f \in Fields |-> None]
NoCards == [h \in Hrefs |-> None]
Nowhere == [h \in Hrefs |-> 0]
Conflict == [field : Fields, local : Values]

Present == {h \in Hrefs : book[h] # None}
Linked == {h \in Hrefs : hash[h] # None}
Gone == {h \in Hrefs : st[h] \in {"trashed", "purged"}}
Locked(s) == pc[s] \notin {"idle", "waiting"}

(* A book never seen, or one whose links are older than migration 000032   *)
(* and have no baseline.                                                   *)
Init ==
  /\ book \in [Hrefs -> Objects \cup {None}]
  /\ clock = 1 /\ changed = [h \in Hrefs |-> 1] /\ born = [h \in Hrefs |-> 1]
  /\ \/ hash = NoCards /\ token = 0
     \/ hash = [h \in Hrefs |-> IF book[h] = Unreadable THEN None ELSE book[h]] /\ token = 1
  /\ synced = NoCards
  /\ card = hash /\ st = [h \in Hrefs |-> IF hash[h] = None THEN "none" ELSE "live"]
  /\ conflicts = [h \in Hrefs |-> {}]
  /\ pc = [s \in Runs |-> "idle"] /\ tok = [s \in Runs |-> 0]
  /\ paths = {} /\ got = NoCards /\ gotBorn = Nowhere /\ dels = {} /\ full = FALSE
  /\ newToken = 0 /\ pre = NoCards
  /\ rHref = None /\ rRow = None /\ rCard = None /\ rFresh = FALSE
  /\ mine = [h \in Hrefs |-> NoEdits]
  /\ origin = [h \in Hrefs |-> IF hash[h] = None THEN 0 ELSE 1]
  /\ missed = {}

-----------------------------------------------------------------------------
(* The address book, changed by others.                                    *)
PutRemote(h, c) ==
  /\ clock < MaxClock /\ c # book[h]
  /\ book' = [book EXCEPT ![h] = c]
  /\ clock' = clock + 1
  /\ changed' = [changed EXCEPT ![h] = clock + 1]
  /\ born' = [born EXCEPT ![h] = IF book[h] = None THEN clock + 1 ELSE @]
  /\ UNCHANGED <<links, st, card, conflicts, token, pc, tok, fetch, restore, ghosts>>

DeleteRemote(h) ==
  /\ clock < MaxClock /\ book[h] # None
  /\ book' = [book EXCEPT ![h] = None]
  /\ clock' = clock + 1
  /\ changed' = [changed EXCEPT ![h] = clock + 1]
  /\ UNCHANGED <<born, links, st, card, conflicts, token, pc, tok, fetch, restore, ghosts>>

-----------------------------------------------------------------------------
(* A run.  The handler has loaded the subscription, with its token, before *)
(* it waits for the subscription's mutex.                                  *)
LoadSubscription(s) ==
  /\ pc[s] = "idle"
  /\ pc' = [pc EXCEPT ![s] = "waiting"]
  /\ tok' = [tok EXCEPT ![s] = token]
  /\ UNCHANGED <<remote, links, st, card, conflicts, token, fetch, restore, ghosts>>

(* capturePreSyncBaselines: what a linked contact without a baseline holds *)
(* before the network is used.  An edit of before has nothing that tells   *)
(* it from the remote's values, and no run owes it a report.               *)
Captured(h) ==
  IF hash[h] # None /\ synced[h] = None /\ h \notin Gone THEN card[h] ELSE None

SyncSubscription(s) ==
  /\ pc[s] = "waiting" /\ \A r \in Runs : ~Locked(r)
  /\ pc' = [pc EXCEPT ![s] = "collect"]
  /\ pre' = [h \in Hrefs |-> Captured(h)]
  /\ mine' = [h \in Hrefs |-> IF synced[h] = None THEN NoEdits ELSE mine[h]]
  /\ UNCHANGED <<remote, links, st, card, conflicts, token, tok, paths, got, gotBorn,
                 dels, full, newToken, restore, origin, missed>>

(* sync-collection since the token.  An initial one, with no token, reports*)
(* members only; later ones what was changed and what was deleted.         *)
Reported(t) == {h \in Present : changed[h] > t}
Deleted(t) == IF t = 0 THEN {} ELSE {h \in Hrefs \ Present : changed[h] > t}

SyncCollection(s) ==
  /\ pc[s] = "collect"
  /\ pc' = [pc EXCEPT ![s] = IF Reported(tok[s]) = {} THEN "fetched" ELSE "multiget"]
  /\ paths' = Reported(tok[s]) /\ dels' = Deleted(tok[s]) /\ newToken' = clock
  /\ UNCHANGED <<remote, links, st, card, conflicts, token, tok, got, gotBorn, full, pre,
                 restore, ghosts>>

(* The REPORT is not supported or its token no longer known: the whole book*)
(* is queried and no token kept.  An answer without a token keeps the old. *)
FallBack(s) ==
  /\ pc[s] = "collect"
  /\ pc' = [pc EXCEPT ![s] = "query"]
  /\ \E t \in {0, tok[s]} : newToken' = t
  /\ UNCHANGED <<remote, links, st, card, conflicts, token, tok, paths, got, gotBorn, dels,
                 full, pre, restore, ghosts>>

(* The bodies come with a second request; a path that is gone fails it.    *)
Fetch(hs) ==
  /\ got' = [h \in Hrefs |-> IF h \in hs THEN book[h] ELSE None]
  /\ gotBorn' = [h \in Hrefs |-> IF h \in hs THEN born[h] ELSE 0]

MultiGetAddressBook(s) ==
  /\ pc[s] = "multiget" /\ paths \subseteq Present
  /\ pc' = [pc EXCEPT ![s] = "fetched"]
  /\ Fetch(paths) /\ paths' = {}
  /\ UNCHANGED <<remote, links, st, card, conflicts, token, tok, dels, full, newToken, pre,
                 restore, ghosts>>

QueryAddressBook(s) ==
  /\ pc[s] = "query"
  /\ pc' = [pc EXCEPT ![s] = "fetched"]
  /\ Fetch(Present) /\ full' = TRUE
  /\ UNCHANGED <<remote, links, st, card, conflicts, token, tok, paths, dels, newToken, pre,
                 restore, ghosts>>

-----------------------------------------------------------------------------
(* reconcileContactSyncWithBaselines: what becomes of each object read.    *)
(* One that fails to be encoded or imported is skipped, but was seen.      *)
Readable == {h \in Hrefs : got[h] \notin {None, Unreadable}}
Created == {h \in Readable : hash[h] = None}
Differs == {h \in Readable : hash[h] # None /\ got[h] # hash[h]}
Ignored == Differs \cap Gone
Replaced == Differs \ Gone

(* Mutation of Dropped: a pull removes the link of a contact in the trash. *)
DroppedWithTrash == {h \in Linked : got[h] = None /\ (h \in dels \/ full)} \cup Ignored

(* Mutation of Dropped: what a delta does not mention is taken for deleted.*)
DroppedUnlessSeen == {h \in Linked : got[h] = None}

(* Deleted remotely, by the list of a delta or by the membership of the    *)
(* whole book.                                                             *)
Dropped == {h \in Linked : got[h] = None /\ (h \in dels \/ full)}
Archived == Dropped \ Gone

(* recordSyncConflicts: the fields of a contact that were edited since the *)
(* last sync, or since the run began, and that the remote values overwrite.*)
Reference(h) == IF synced[h] # None THEN synced[h] ELSE pre[h]

(* Mutation of diffSyncConflictFields: only what both sides have changed.  *)
DiffBothChanged(h) ==
  IF Reference(h) = None THEN {}
  ELSE {f \in Fields : card[h][f] # Reference(h)[f] /\ got[h][f] # Reference(h)[f]
                       /\ card[h][f] # got[h][f]}

diffSyncConflictFields(h) ==
  IF Reference(h) = None THEN {}
  ELSE {f \in Fields : card[h][f] # Reference(h)[f] /\ card[h][f] # got[h][f]}
RecordSyncConflicts(h) ==
  {[field |-> f, local |-> card[h][f]] : f \in diffSyncConflictFields(h)}

(* What a run has read is gone with its call of syncSubscription.          *)
ForgetFetch ==
  /\ paths' = {} /\ got' = NoCards /\ gotBorn' = Nowhere /\ dels' = {} /\ full' = FALSE
  /\ pre' = NoCards

(* One transaction for the whole batch.                                    *)
Reconcile(s) ==
  /\ pc[s] = "fetched"
  /\ pc' = [pc EXCEPT ![s] = "applied"] /\ tok' = [tok EXCEPT ![s] = 0]
  /\ hash' = [h \in Hrefs |-> IF h \in Created \cup Replaced THEN got[h]
                              ELSE IF h \in Dropped THEN None ELSE hash[h]]
  /\ synced' = [h \in Hrefs |-> IF h \in Created \cup Replaced THEN got[h]
                                ELSE IF h \in Dropped THEN None ELSE synced[h]]
  /\ st' = [h \in Hrefs |-> IF h \in Created THEN "live"
                            ELSE IF h \in Archived THEN "archived" ELSE st[h]]
  /\ card' = [h \in Hrefs |-> IF h \in Created \cup Replaced THEN got[h] ELSE card[h]]
  /\ conflicts' = [h \in Hrefs |-> IF h \in Created THEN {}
                                   ELSE IF h \in Replaced
                                   THEN conflicts[h] \cup RecordSyncConflicts(h)
                                   ELSE conflicts[h]]
  /\ mine' = [h \in Hrefs |->
                IF h \in Created \cup Dropped THEN NoEdits
                ELSE IF h \in Replaced
                THEN [f \in Fields |-> IF mine[h][f] = got[h][f] THEN None ELSE mine[h][f]]
                ELSE mine[h]]
  /\ origin' = [h \in Hrefs |-> IF h \in Readable \ Ignored THEN gotBorn[h] ELSE origin[h]]
  /\ missed' = (missed \cup Ignored \cup IF tok[s] = 0 /\ ~full
                                         THEN {h \in Linked : got[h] = None} ELSE {})
               \ (Dropped \cup (Readable \ Ignored))
  /\ rFresh' = (rFresh /\ rHref \notin Created \cup Replaced \cup Archived)
  /\ ForgetFetch
  /\ UNCHANGED <<remote, token, newToken, rHref, rRow, rCard>>

(* The token is stored after the transaction, and by a run that succeeded. *)
StoreToken(s) ==
  /\ pc[s] = "applied"
  /\ pc' = [pc EXCEPT ![s] = "idle"]
  /\ token' = newToken /\ newToken' = 0
  /\ UNCHANGED <<remote, links, st, card, conflicts, tok, paths, got, gotBorn, dels, full,
                 pre, restore, ghosts>>

(* Mutation of GiveUp: the token is stored whatever came of the run.       *)
GiveUpStoringToken(s) ==
  /\ pc[s] # "idle"
  /\ pc' = [pc EXCEPT ![s] = "idle"] /\ tok' = [tok EXCEPT ![s] = 0]
  /\ IF Locked(s) THEN ForgetFetch /\ newToken' = 0 ELSE UNCHANGED fetch
  /\ token' = IF Locked(s) THEN newToken ELSE token
  /\ UNCHANGED <<remote, links, st, card, conflicts, restore, ghosts>>

(* The network, the transaction or the last statement fails, or the process*)
(* stops: what was stored so far stays, and the token with it.             *)
GiveUp(s) ==
  /\ pc[s] # "idle"
  /\ pc' = [pc EXCEPT ![s] = "idle"] /\ tok' = [tok EXCEPT ![s] = 0]
  /\ IF Locked(s) THEN ForgetFetch /\ newToken' = 0 ELSE UNCHANGED fetch
  /\ UNCHANGED <<remote, links, st, card, conflicts, token, restore, ghosts>>

-----------------------------------------------------------------------------
(* The user.                                                               *)
Owed(h, f, v) == IF Reference(h) = None \/ Reference(h)[f] = v THEN None ELSE v

UpdateContact(h, f, v) ==
  /\ st[h] = "live" /\ card[h][f] # v
  /\ card' = [card EXCEPT ![h][f] = v]
  /\ mine' = [mine EXCEPT ![h][f] = Owed(h, f, v)]
  /\ rFresh' = (rFresh /\ rHref # h)
  /\ UNCHANGED <<remote, links, st, conflicts, token, pc, tok, fetch, rHref, rRow, rCard,
                 origin, missed>>

MoveContact(h, from, to) ==
  /\ st[h] = from
  /\ st' = [st EXCEPT ![h] = to]
  /\ rFresh' = (rFresh /\ rHref # h)
  /\ UNCHANGED <<remote, links, card, token, pc, tok, fetch, rHref, rRow, rCard, origin, missed>>

(* The cascade keeps the link and deletes the pending conflicts, of which  *)
(* the snapshot for a restore takes no copy.                               *)
DeleteContact(h) ==
  /\ MoveContact(h, "live", "trashed")
  /\ conflicts' = [conflicts EXCEPT ![h] = {}]
  /\ mine' = [mine EXCEPT ![h] =
       [f \in Fields |-> IF @[f] \in {None, card[h][f]} THEN @[f] ELSE Discarded]]

RestoreContact(h) == MoveContact(h, "trashed", "live") /\ UNCHANGED <<conflicts, mine>>
PurgeContact(h) == MoveContact(h, "trashed", "purged") /\ UNCHANGED <<conflicts, mine>>

(* RestoreContactSyncConflict loads the conflict and the contact ...       *)
LoadConflict(h, row) ==
  /\ rHref = None /\ st[h] \in {"live", "archived"} /\ row \in conflicts[h]
  /\ rHref' = h /\ rRow' = row /\ rCard' = card[h] /\ rFresh' = TRUE
  /\ UNCHANGED <<remote, links, st, card, conflicts, token, pc, tok, fetch, ghosts>>

EndRestore == rHref' = None /\ rRow' = None /\ rCard' = None /\ rFresh' = FALSE

(* ... and saves the contact, by compare-and-swap, with the conflict.      *)
RestoreContactSyncConflict ==
  /\ rHref # None /\ rFresh
  /\ card' = [card EXCEPT ![rHref] = [rCard EXCEPT ![rRow.field] = rRow.local]]
  /\ conflicts' = [conflicts EXCEPT ![rHref] = @ \ {rRow}]
  /\ mine' = [mine EXCEPT ![rHref][rRow.field] = Owed(rHref, rRow.field, rRow.local)]
  /\ EndRestore
  /\ UNCHANGED <<remote, links, st, token, pc, tok, fetch, origin, missed>>

RefuseRestore ==
  /\ rHref # None
  /\ EndRestore
  /\ UNCHANGED <<remote, links, st, card, conflicts, token, pc, tok, fetch, ghosts>>

(* The user is done with the value that was overwritten.                   *)
DismissContactSyncConflict(h, row) ==
  /\ row \in conflicts[h]
  /\ conflicts' = [conflicts EXCEPT ![h] = @ \ {row}]
  /\ mine' = [mine EXCEPT ![h][row.field] =
                IF @ = row.local /\ card[h][row.field] # row.local THEN None ELSE @]
  /\ UNCHANGED <<remote, links, st, card, token, pc, tok, fetch, restore, origin, missed>>

-----------------------------------------------------------------------------
Book(h) == (\E c \in Objects : PutRemote(h, c)) \/ DeleteRemote(h)

Sync(s) ==
  \/ LoadSubscription(s) \/ SyncSubscription(s) \/ SyncCollection(s) \/ FallBack(s)
  \/ MultiGetAddressBook(s) \/ QueryAddressBook(s) \/ Reconcile(s) \/ StoreToken(s) \/ GiveUp(s)

User(h) ==
  \/ \E f \in Fields, v \in Values : UpdateContact(h, f, v)
  \/ DeleteContact(h) \/ RestoreContact(h) \/ PurgeContact(h)
  \/ \E row \in conflicts[h] : LoadConflict(h, row) \/ DismissContactSyncConflict(h, row)

Next ==
  \/ \E h \in Hrefs : Book(h) \/ User(h)
  \/ \E s \in Runs : Sync(s)
  \/ RestoreContactSyncConflict \/ RefuseRestore

Spec == Init /\ [][Next]_vars

-----------------------------------------------------------------------------
RemoteOK ==
  /\ book \in [Hrefs -> Objects \cup {None}]
  /\ clock \in 1..MaxClock /\ changed \in [Hrefs -> 1..clock] /\ born \in [Hrefs -> 1..clock]

ContactsOK ==
  /\ hash \in [Hrefs -> Cards \cup {None}] /\ synced \in [Hrefs -> Cards \cup {None}]
  /\ st \in [Hrefs -> {"none", "live", "archived", "trashed", "purged"}]
  /\ card \in [Hrefs -> Cards \cup {None}]
  /\ conflicts \in [Hrefs -> SUBSET Conflict]
  /\ mine \in [Hrefs -> [Fields -> Values \cup {None, Discarded}]]
  /\ origin \in [Hrefs -> 0..clock]
  /\ missed \subseteq Hrefs

RunsOK ==
  /\ token \in 0..clock
  /\ pc \in [Runs -> {"idle", "waiting", "collect", "multiget", "query", "fetched", "applied"}]
  /\ tok \in [Runs -> 0..clock]

FetchOK ==
  /\ paths \subseteq Hrefs /\ dels \subseteq Hrefs /\ full \in BOOLEAN /\ newToken \in 0..clock
  /\ got \in [Hrefs -> Objects \cup {None}] /\ gotBorn \in [Hrefs -> 0..clock]
  /\ pre \in [Hrefs -> Cards \cup {None}]

RestoreOK ==
  /\ rHref \in Hrefs \cup {None} /\ rFresh \in BOOLEAN
  /\ rHref # None => rRow \in Conflict /\ rCard \in Cards

TypeOK == RemoteOK /\ ContactsOK /\ RunsOK /\ FetchOK /\ RestoreOK

(* No run drops what the user typed: a value edited since the last sync, or*)
(* while a run was fetching, is still in the contact or in a conflict the  *)
(* user can restore it from (issues #395 and #919).  The exception is a    *)
(* value that only a conflict had left when the user put the contact in    *)
(* the trash: the conflict went with it.                                   *)
KeptOrReported ==
  \A h \in Hrefs, f \in Fields :
    mine[h][f] # None =>
      \/ card[h][f] = mine[h][f]
      \/ \E row \in conflicts[h] : row.field = f /\ row.local = mine[h][f]
      \/ mine[h][f] = Discarded

(* Restoring a value changes that field and nothing else, whatever runs and*)
(* edits were committed since the request loaded the contact.              *)
RestoreIsOneField ==
  [][ \A h \in Hrefs :
        rHref = h /\ rHref' = None /\ card'[h] # card[h]
          => card'[h] = [card[h] EXCEPT ![rRow.field] = rRow.local] ]_vars

(* The stored token is not ahead of what was applied: an object that has   *)
(* not changed since is linked as the book has it, or gone and not linked. *)
(* The exceptions: an object the codec refuses, what changed while its     *)
(* contact was in the trash, and what was deleted before a sync that had   *)
(* no token.                                                               *)
TokenIsApplied ==
  \A h \in Hrefs :
    token > 0 /\ changed[h] <= token => \/ hash[h] = book[h] \/ book[h] = Unreadable
                                        \/ h \in missed

(* One life of a remote object becomes one contact, however often a run    *)
(* fails, repeats or falls back, in the trash or not (ADR 0037 decision 7).*)
ImportedOnce ==
  [][ \A h \in Hrefs : hash[h] = None /\ hash'[h] # None => origin'[h] > origin[h] ]_vars

(* A contact is archived only after the object it was synced with has been *)
(* deleted remotely.                                                       *)
ArchivedWasDeleted ==
  \A h \in Hrefs : st[h] = "archived" => book[h] = None \/ born[h] > origin[h]

(* services/contact_delete.go:247, of the conflicts that go with a trashed *)
(* contact: "the next sync re-detects real conflicts".                     *)
NextSyncRedetects ==
  [][ \A h \in Hrefs, f \in Fields :
        hash'[h] \notin {None, hash[h]} => mine'[h][f] # Discarded ]_vars

(* contact_sync_service.go:407-411: reconcile is "archiving Contacts whose     *)
(* remote object was deleted".                                             *)
DeletionsArrive ==
  \A h \in Hrefs :
    token > 0 /\ changed[h] <= token /\ book[h] = None => hash[h] = None
=============================================================================
