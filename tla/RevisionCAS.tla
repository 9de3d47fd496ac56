---------------------------- MODULE RevisionCAS ----------------------------
(***************************************************************************)
(* models/revision_cas.go and its callers: one contact written by several  *)
(* clients.  A handler loads the row, checks If-Match, and later saves,    *)
(* flags or deletes it in a transaction of its own; in between the row may *)
(* be written, trashed, restored or purged by others.                      *)
(*                                                                         *)
(* A PUT replaces the card by the client's own copy plus its edit and      *)
(* writes the row's other columns back as they were loaded.  The card is   *)
(* the set of clients whose edits it holds, flags the set of clients whose *)
(* one-column updates (archived, favorite, target closeness) it holds, and *)
(* photo says whether an import's avatar job has attached one.             *)
(***************************************************************************)
EXTENDS Naturals

CONSTANTS
  Clients,
  MaxRevision    \* bounds the writes of a behaviour

ASSUME RevisionAssumption == MaxRevision \in Nat

VARIABLES
  revision, card, flags, photo,   \* the contacts row
  status,      \* "live", "trashed" (deleted_at set) or "purged" (no row)
  children,    \* whether the rows that reference the contact are live
  snapshot,    \* the contact_deletion_snapshots row: "none", "full" (it names
               \* the children) or "empty"
  pc,          \* what each client's request is about to write
  loaded,      \* the row as its handler loaded it
  match,       \* whether it sent If-Match
  view         \* the client's own copy: the last representation it got

row == <<revision, card, flags, photo, status, children, snapshot>>
vars == <<revision, card, flags, photo, status, children, snapshot, pc, loaded, match, view>>

RowOK ==
  /\ revision \in Nat
  /\ card \subseteq Clients
  /\ flags \subseteq Clients
  /\ photo \in BOOLEAN
  /\ status \in {"live", "trashed", "purged"}
  /\ children \in BOOLEAN
  /\ snapshot \in {"none", "full", "empty"}

RequestsOK ==
  /\ pc \in [Clients -> {"idle", "put", "flag", "delete"}]
  /\ loaded \in [Clients -> [revision : Nat, flags : SUBSET Clients, photo : BOOLEAN]]
  /\ match \in [Clients -> BOOLEAN]
  /\ view \in [Clients -> [revision : Nat, card : SUBSET Clients]]

(* Nobody has seen a revision the row has yet to reach.                    *)
SeenBefore ==
  \A c \in Clients : loaded[c].revision <= revision /\ view[c].revision <= revision

TypeOK == RowOK /\ RequestsOK /\ SeenBefore

Init ==
  /\ revision = 1
  /\ card = {} /\ flags = {} /\ photo = FALSE
  /\ status = "live" /\ children = TRUE /\ snapshot = "none"
  /\ pc = [c \in Clients |-> "idle"]
  /\ loaded = [c \in Clients |-> [revision |-> 0, flags |-> {}, photo |-> FALSE]]
  /\ match = [c \in Clients |-> FALSE]
  /\ view = [c \in Clients |-> [revision |-> 0, card |-> {}]]

-----------------------------------------------------------------------------
(* The client fetches the contact.                                         *)
Get(c) ==
  /\ pc[c] = "idle"
  /\ status = "live"
  /\ view' = [view EXCEPT ![c] = [revision |-> revision, card |-> card]]
  /\ UNCHANGED <<row, pc, loaded, match>>

(* checkIfMatch on a live row; the revision is the one of the client's     *)
(* copy.  A refused request changes nothing and is no step.                *)
ifMatchSatisfied(c, conditional) == conditional => view[c].revision = revision

Load(c, op, conditional) ==
  /\ pc[c] = "idle"
  /\ status = "live"
  /\ op = "flag" => ~conditional
  /\ ifMatchSatisfied(c, conditional)
  /\ pc' = [pc EXCEPT ![c] = op]
  /\ loaded' = [loaded EXCEPT ![c] =
       [revision |-> revision, flags |-> flags, photo |-> photo]]
  /\ match' = [match EXCEPT ![c] = conditional]
  /\ UNCHANGED <<row, view>>

Finish(c) == pc' = [pc EXCEPT ![c] = "idle"]

(* Mutations of bumpRevisionCAS: the revision is not compared; and the     *)
(* loaded revision, written back by the primary UPDATE, is what the CAS    *)
(* finds.                                                                  *)
BumpUnchecked(c) ==
  /\ status = "live"
  /\ revision < MaxRevision
  /\ revision' = revision + 1
BumpWrittenBack(c) ==
  /\ status = "live"
  /\ loaded[c].revision < MaxRevision
  /\ revision' = loaded[c].revision + 1

(* UPDATE ... SET revision = loaded + 1                                    *)
(*   WHERE revision = loaded AND deleted_at IS NULL                        *)
bumpRevisionCAS(c) ==
  /\ status = "live"
  /\ revision = loaded[c].revision
  /\ revision < MaxRevision
  /\ revision' = loaded[c].revision + 1

(* Save of a PUT.  The client gets the new representation, or loses it.    *)
SavePut(c) ==
  /\ pc[c] = "put"
  /\ bumpRevisionCAS(c)
  /\ card' = view[c].card \cup {c}
  /\ flags' = loaded[c].flags
  /\ photo' = loaded[c].photo
  /\ view' \in {view, [view EXCEPT ![c] = [revision |-> revision', card |-> card']]}
  /\ Finish(c)
  /\ UNCHANGED <<status, children, snapshot, loaded, match>>

(* Model(&contact).Update of one column.                                   *)
SaveFlag(c) ==
  /\ pc[c] = "flag"
  /\ bumpRevisionCAS(c)
  /\ flags' = flags \cup {c}
  /\ Finish(c)
  /\ UNCHANGED <<card, photo, status, children, snapshot, loaded, match, view>>

(* A mutation of Refuse: gorm's Save falls back to an upsert when its      *)
(* UPDATE finds no live row.                                               *)
RefuseByUpsert(c) ==
  /\ pc[c] # "idle"
  /\ Finish(c)
  /\ IF pc[c] = "put" /\ status # "live"
     THEN status' = "live" /\ card' = view[c].card \cup {c}
     ELSE UNCHANGED <<status, card>>
  /\ UNCHANGED <<revision, flags, photo, children, snapshot, loaded, match, view>>

(* ErrRevisionConflict, the unique index on the snapshot, or any failure   *)
(* of the transaction rolls it back.                                       *)
Refuse(c) ==
  /\ pc[c] # "idle"
  /\ Finish(c)
  /\ UNCHANGED <<row, loaded, match, view>>

(* The snapshot names the children the delete is about to take: with none  *)
(* left (an earlier delete has them) it is empty.                          *)
captureContactDeletion == IF children THEN "full" ELSE "empty"

(* DeleteContact: the children that are live go with the contact, and the  *)
(* snapshot names them.  There is one snapshot per contact; the delete of  *)
(* the row itself does not compare revisions, or find the row.             *)
DeleteContact(c) ==
  /\ pc[c] = "delete"
  /\ snapshot = "none"
  /\ snapshot' = captureContactDeletion
  /\ children' = FALSE
  /\ status' = IF status = "live" THEN "trashed" ELSE status
  /\ Finish(c)
  /\ UNCHANGED <<revision, card, flags, photo, loaded, match, view>>

-----------------------------------------------------------------------------
(* The trash, each in one transaction that loads what it writes.           *)

(* A contact that can be restored or purged: deleted, with its snapshot.   *)
trashedContact == status = "trashed" /\ snapshot # "none"

(* The children a restore brings back: those its snapshot names.  One whose*)
(* referent is gone, or that was created again meanwhile, is skipped in the*)
(* code; nothing here removes or creates one of those.                     *)
restoreRows == children' = (snapshot = "full")

RestoreContact ==
  /\ trashedContact
  /\ revision < MaxRevision
  /\ status' = "live"
  /\ revision' = revision + 1
  /\ restoreRows
  /\ snapshot' = "none"
  /\ UNCHANGED <<card, flags, photo, pc, loaded, match, view>>

PurgeContact ==
  /\ trashedContact
  /\ status' = "purged"
  /\ snapshot' = "none"
  /\ UNCHANGED <<revision, card, flags, photo, children, pc, loaded, match, view>>

(* An import's avatar job: a scoped UPDATE whose hooks have no row, so it  *)
(* neither compares nor bumps the revision.                                *)
AttachPhoto ==
  /\ status = "live"
  /\ ~photo
  /\ photo' = TRUE
  /\ UNCHANGED <<revision, card, flags, status, children, snapshot, pc, loaded, match, view>>

Step(c) ==
  \/ Get(c)
  \/ \E op \in {"put", "flag", "delete"}, conditional \in BOOLEAN : Load(c, op, conditional)
  \/ SavePut(c) \/ SaveFlag(c) \/ DeleteContact(c) \/ Refuse(c)

Next ==
  \/ \E c \in Clients : Step(c)
  \/ RestoreContact \/ PurgeContact \/ AttachPhoto

Spec == Init /\ [][Next]_vars

-----------------------------------------------------------------------------
(* The revision identifies the card: a client whose copy has the row's     *)
(* revision has its card, through any saves, deletes and restores, so an   *)
(* If-Match or an ETag comparison that succeeds compares contents          *)
(* (bumpRevisionCAS, RestoreContact; ADR 0006).                            *)
RevisionIdentifiesCard ==
  \A c \in Clients : view[c].revision = revision => view[c].card = card

Asked(c) == IF pc[c] = "put" THEN (IF match[c] THEN "edit" ELSE "replace") ELSE pc[c]

Copies == [c \in Clients |-> view[c].card]
AskedBy == [c \in Clients |-> Asked(c)]

Handlers == INSTANCE Contact WITH place <- status, copy <- Copies, asked <- AskedBy

(* A request loads in one transaction and saves in another, and is still   *)
(* one step on the contact as it is when it commits: a conditional PUT     *)
(* finds the content its client has, no save brings back a column or a     *)
(* contact that others have changed meanwhile, and a restore is whole      *)
(* (bumpRevisionCAS, captureContactDeletion, restoreRows; issues #920 and  *)
(* #924).                                                                  *)
ImplementsContact == Handlers!Spec

(* No lost update: whatever was written between a handler's load and its   *)
(* save survives it.  A one-column update is never undone by a save that   *)
(* loaded the row before it, and a conditional PUT keeps every edit that   *)
(* was in the card (bumpRevisionCAS, issue #924).                          *)
NoLostUpdate ==
  [][ /\ flags \subseteq flags'
      /\ \A c \in Clients :
           pc[c] = "put" /\ match[c] /\ pc'[c] = "idle" => card \subseteq card' ]_vars

(* No resurrection: only a restore brings a deleted contact back, and it   *)
(* comes back with every row that went with it, whatever requests loaded   *)
(* it before the delete (bumpRevisionCAS, issue #920; the unique snapshot  *)
(* of ADR 0037).                                                           *)
NoResurrection ==
  [][status # "live" /\ status' = "live" => snapshot = "full" /\ children']_vars

(* ADR 0018:119-122: "Every other Save()/Updates() call site on these five *)
(* models in this codebase (imports, ...) is protected by the same         *)
(* mechanism automatically": a photo an import attached stays.             *)
PhotoKept == [][photo => photo']_vars
=============================================================================
