------------------------------- MODULE Images -------------------------------
(***************************************************************************)
(* services/image_service.go, services/image_sweep_service.go, the handlers*)
(* of controllers/note_controller.go and note_image_controller.go, and the *)
(* image part of services/purge_service.go: one note with its images, the  *)
(* requests that change them, the daily sweep and the daily purge.         *)
(*                                                                         *)
(* An image has a row in the database and a file on disk (its thumbnail    *)
(* goes with it), written and removed in separate steps.  Names are fresh: *)
(* an image identifier is used again only when no trace of it is left.     *)
(*                                                                         *)
(* Two PUTs of one note are kept apart by its revision, the subject of     *)
(* RevisionCAS, so there is one update at a time here.                     *)
(***************************************************************************)
EXTENDS Naturals, FiniteSets

CONSTANTS
  Images,
  Limit    \* IMAGE_MAX_PER_NOTE

ASSUME ImageAssumption == IsFiniteSet(Images) /\ Limit \in Nat \ {0}

VARIABLES
  note,   \* "live", "dead" (soft-deleted) or "gone"
  text,   \* whether the note has text
  aged,   \* whether it was created more than imageSweepGrace ago
  row,    \* per image "none", "live" or "dead"
  file,   \* per image "none", "new" or "old" (than imageSweepGrace)
  at,     \* per image, the step of the upload or delete that is under way
  upd,    \* the step of the update of the note
  sweep,  \* its step and the files it may remove
  purge   \* its step, the images and the note it found past retention

store == <<row, file>>
content == <<note, text, aged>>
jobs == <<sweep, purge>>
vars == <<content, store, at, upd, jobs>>

Live == {i \in Images : row[i] = "live"}
Empty == note = "live" /\ ~text /\ Live = {}

NoSweep == [at |-> "idle", files |-> {}]
NoPurge == [at |-> "idle", images |-> {}, note |-> FALSE]

(* A note with text, with images, or created to wait for its first one     *)
(* (awaiting_images); it may have more images than a lowered Limit allows. *)
Init ==
  /\ note = "live" /\ text \in BOOLEAN /\ aged \in BOOLEAN
  /\ row \in [Images -> {"none", "live"}]
  /\ file = [i \in Images |-> IF row[i] = "live" THEN "old" ELSE "none"]
  /\ at = [i \in Images |-> "idle"] /\ upd = "idle"
  /\ sweep = NoSweep /\ purge = NoPurge

Goto(i, step) == at' = [at EXCEPT ![i] = step]

-----------------------------------------------------------------------------
(* Uploads.                                                                *)

checkLimit == Cardinality(Live) < Limit

(* The note is loaded, the limit checked a first time and the bytes        *)
(* decoded; a refusal changes nothing.                                     *)
StartUpload(i) ==
  /\ at[i] = "idle" /\ row[i] = "none" /\ file[i] = "none"
  /\ i \notin sweep.files /\ i \notin purge.images
  /\ note = "live" /\ checkLimit
  /\ Goto(i, "loaded")
  /\ UNCHANGED <<content, store, upd, jobs>>

SaveFile(i) ==
  /\ at[i] = "loaded"
  /\ file' = [file EXCEPT ![i] = "new"]
  /\ Goto(i, "saved")
  /\ UNCHANGED <<content, row, upd, jobs>>

(* Save fails; part of what it wrote may stay, under a name or as a .tmp.  *)
SaveFails(i) ==
  /\ at[i] = "loaded"
  /\ \E f \in {"none", "new"} : file' = [file EXCEPT ![i] = f]
  /\ Goto(i, "idle")
  /\ UNCHANGED <<content, row, upd, jobs>>

(* The limit again and the insert, in one transaction.  The note may have  *)
(* been soft-deleted since; only a purged one breaks the foreign key.      *)
insertWithinLimits(i) ==
  /\ at[i] = "saved"
  /\ checkLimit /\ note # "gone"
  /\ row' = [row EXCEPT ![i] = "live"]
  /\ Goto(i, "idle")
  /\ UNCHANGED <<content, file, upd, jobs>>

(* The removal of a file may fail, which is logged or ignored.             *)
RemoveFile(i) == \E f \in {"none", file[i]} : file' = [file EXCEPT ![i] = f]

(* The limit is reached or the statement fails: the file is removed.       *)
InsertFails(i) ==
  /\ at[i] = "saved"
  /\ RemoveFile(i)
  /\ Goto(i, "idle")
  /\ UNCHANGED <<content, row, upd, jobs>>

Upload(i) == SaveFile(i) \/ SaveFails(i) \/ insertWithinLimits(i) \/ InsertFails(i)

-----------------------------------------------------------------------------
(* DELETE of an image: note.Content is the one loaded before the           *)
(* transaction, the count is taken inside it.                              *)

LoadDelete(i) ==
  /\ at[i] = "idle" /\ note = "live" /\ row[i] = "live"
  /\ Goto(i, IF text THEN "text" ELSE "blank")
  /\ UNCHANGED <<content, store, upd, jobs>>

(* A mutation of MayDelete: the note's content is not looked at.           *)
MayAlwaysDelete(i) == TRUE

MayDelete(i) == at[i] = "text" \/ Live \ {i} # {}

DeleteRow(i) ==
  /\ at[i] \in {"text", "blank"}
  /\ MayDelete(i)
  /\ row' = [row EXCEPT ![i] = "dead"]
  /\ Goto(i, "deleted")
  /\ UNCHANGED <<content, file, upd, jobs>>

(* It is the last image of an empty note, or the transaction fails.        *)
DeleteRefused(i) ==
  /\ at[i] \in {"text", "blank"}
  /\ Goto(i, "idle")
  /\ UNCHANGED <<content, store, upd, jobs>>

DeleteFile(i) ==
  /\ at[i] = "deleted"
  /\ RemoveFile(i)
  /\ Goto(i, "idle")
  /\ UNCHANGED <<content, row, upd, jobs>>

DeleteWithin(i) == DeleteRow(i) \/ DeleteRefused(i) \/ DeleteFile(i)

-----------------------------------------------------------------------------
(* PUT and DELETE of the note.                                             *)

LoadNote ==
  /\ upd = "idle" /\ note = "live"
  /\ upd' \in {"text", "blank"}
  /\ UNCHANGED <<content, store, at, jobs>>

(* The count of an update to no text, outside any transaction.             *)
CountLive ==
  /\ upd = "blank"
  /\ upd' = IF Live = {} THEN "idle" ELSE "counted"
  /\ UNCHANGED <<content, store, at, jobs>>

(* Saved under the note's revision: not if it was deleted meanwhile.       *)
SaveNote ==
  /\ upd \in {"text", "counted"}
  /\ text' = IF note = "live" THEN upd = "text" ELSE text
  /\ upd' = "idle"
  /\ UNCHANGED <<note, aged, store, at, jobs>>

UpdateNote == CountLive \/ SaveNote

DeleteNote ==
  /\ note = "live"
  /\ note' = "dead"
  /\ UNCHANGED <<text, aged, store, at, upd, jobs>>

-----------------------------------------------------------------------------
(* The sweep.                                                              *)

(* A mutation of OldFiles: files are listed whatever their age.            *)
AllFiles == {i \in Images : file[i] # "none"}

(* A mutation of OldFiles: the sweep starts from the tombstones.           *)
OldTombstones == {i \in Images : file[i] = "old" /\ row[i] = "dead"}

(* Listed in the directory and last written before the cutoff.             *)
OldFiles == {i \in Images : file[i] = "old"}

StartSweep ==
  /\ sweep.at = "idle"
  /\ sweep' = [at |-> "list", files |-> OldFiles]
  /\ UNCHANGED <<content, store, at, upd, purge>>

(* Rows are read Unscoped: a soft-deleted image keeps its file.            *)
Referenced == {i \in Images : row[i] # "none"}

ReadRows ==
  /\ sweep.at = "list"
  /\ sweep' = [at |-> "remove", files |-> sweep.files \ Referenced]
  /\ UNCHANGED <<content, store, at, upd, purge>>

SweepFails ==
  /\ sweep.at = "list"
  /\ sweep' = NoSweep
  /\ UNCHANGED <<content, store, at, upd, purge>>

Swept(i) == sweep.at = "remove" /\ i \in sweep.files /\ sweep' = [at |-> "remove", files |-> sweep.files \ {i}]

SweepFile(i) ==
  /\ Swept(i)
  /\ file' = [file EXCEPT ![i] = "none"]
  /\ UNCHANGED <<content, row, at, upd, purge>>

SkipFile(i) ==
  /\ Swept(i)
  /\ UNCHANGED <<content, store, at, upd, purge>>

(* A mutation of Lapsed: only the notes created since the cutoff.          *)
NotLapsed == Empty /\ ~aged

Lapsed == Empty /\ aged

FindEmptyNotes ==
  /\ sweep.at = "remove" /\ sweep.files = {}
  /\ sweep' = IF Lapsed THEN [at |-> "notes", files |-> {}] ELSE NoSweep
  /\ UNCHANGED <<content, store, at, upd, purge>>

(* By its id alone: what the note has by now is not looked at.             *)
DeleteEmptyNote ==
  /\ sweep.at = "notes"
  /\ note' = IF note = "live" THEN "dead" ELSE note
  /\ sweep' = NoSweep
  /\ UNCHANGED <<text, aged, store, at, upd, purge>>

DeleteEmptyFails ==
  /\ sweep.at = "notes"
  /\ sweep' = NoSweep
  /\ UNCHANGED <<content, store, at, upd, purge>>

SweepStep ==
  \/ ReadRows \/ SweepFails
  \/ \E i \in Images : SweepFile(i) \/ SkipFile(i)
  \/ FindEmptyNotes \/ DeleteEmptyNote \/ DeleteEmptyFails

-----------------------------------------------------------------------------
(* The purge.  What is past a retention of days was deleted before any     *)
(* request that is still under way has loaded it.                          *)

Expired(i) == row[i] = "dead" /\ at[i] = "idle"
NoteExpired == note = "dead" /\ upd = "idle" /\ \A i \in Images : at[i] = "idle"

collectPurgeFiles ==
  /\ purge.at = "idle"
  /\ purge' = [at |-> "note", note |-> NoteExpired,
               images |-> {i \in Images : Expired(i) \/ (NoteExpired /\ row[i] # "none")}]
  /\ UNCHANGED <<content, store, at, upd, sweep>>

PurgeAt(step) == [at |-> step, images |-> purge.images, note |-> purge.note]

(* The rows of its images go with a note (ON DELETE CASCADE).              *)
PurgeNote ==
  /\ purge.at = "note" /\ purge.note
  /\ note' = "gone"
  /\ row' = [i \in Images |-> "none"]
  /\ purge' = PurgeAt("rows")
  /\ UNCHANGED <<text, aged, file, at, upd, sweep>>

(* There is no such note, or the statement fails.                          *)
SkipNote ==
  /\ purge.at = "note"
  /\ purge' = PurgeAt("rows")
  /\ UNCHANGED <<content, store, at, upd, sweep>>

PurgeRows ==
  /\ purge.at = "rows"
  /\ row' = [i \in Images |-> IF i \in purge.images /\ row[i] = "dead" THEN "none" ELSE row[i]]
  /\ purge' = PurgeAt("files")
  /\ UNCHANGED <<content, file, at, upd, sweep>>

RowsFail ==
  /\ purge.at = "rows"
  /\ purge' = PurgeAt("files")
  /\ UNCHANGED <<content, store, at, upd, sweep>>

(* Some removals may fail, and there are none if the purge of the contacts *)
(* has failed.                                                             *)
removePurgedFiles ==
  /\ purge.at = "files"
  /\ \E removed \in SUBSET purge.images :
       file' = [i \in Images |-> IF i \in removed THEN "none" ELSE file[i]]
  /\ purge' = NoPurge
  /\ UNCHANGED <<content, row, at, upd, sweep>>

PurgeStep ==
  \/ PurgeNote \/ SkipNote \/ PurgeRows \/ RowsFail
  \/ removePurgedFiles

-----------------------------------------------------------------------------
(* An hour passes; no upload takes that long between file and row.         *)
AgeFile(i) ==
  /\ file[i] = "new" /\ at[i] # "saved"
  /\ file' = [file EXCEPT ![i] = "old"]
  /\ UNCHANGED <<content, row, at, upd, jobs>>

AgeNote ==
  /\ ~aged
  /\ aged' = TRUE
  /\ UNCHANGED <<note, text, store, at, upd, jobs>>

Crash ==
  /\ at' = [i \in Images |-> "idle"] /\ upd' = "idle"
  /\ sweep' = NoSweep /\ purge' = NoPurge
  /\ UNCHANGED <<content, store>>

Serve ==
  \/ \E i \in Images : StartUpload(i) \/ Upload(i) \/ LoadDelete(i) \/ DeleteWithin(i)
  \/ LoadNote \/ UpdateNote \/ DeleteNote

SweepImages == StartSweep \/ SweepStep
PurgeSoftDeletedRows == collectPurgeFiles \/ PurgeStep
Age == (\E i \in Images : AgeFile(i)) \/ AgeNote

Next == Serve \/ SweepImages \/ PurgeSoftDeletedRows \/ Age \/ Crash

Spec == Init /\ [][Next]_vars

(* Requests end, hours pass, and the daily jobs go on, whose reads and     *)
(* removals do not fail, or are cut off by a crash, for ever.              *)
Fairness ==
  /\ \A i \in Images : WF_vars(Upload(i) \/ DeleteWithin(i)) /\ WF_vars(AgeFile(i))
  /\ WF_vars(UpdateNote) /\ WF_vars(AgeNote)
  /\ WF_vars(SweepImages) /\ SF_vars(ReadRows) /\ \A i \in Images : SF_vars(SweepFile(i))
  /\ SF_vars(FindEmptyNotes) /\ SF_vars(DeleteEmptyNote)
  /\ WF_vars(PurgeSoftDeletedRows) /\ SF_vars(PurgeNote) /\ SF_vars(PurgeNote \/ SkipNote)
  /\ SF_vars(PurgeRows)

FairSpec == Spec /\ Fairness

-----------------------------------------------------------------------------
TypeOK ==
  /\ note \in {"live", "dead", "gone"} /\ text \in BOOLEAN /\ aged \in BOOLEAN
  /\ row \in [Images -> {"none", "live", "dead"}]
  /\ file \in [Images -> {"none", "new", "old"}]
  /\ at \in [Images -> {"idle", "loaded", "saved", "text", "blank", "deleted"}]
  /\ upd \in {"idle", "text", "blank", "counted"}
  /\ sweep \in [at : {"idle", "list", "remove", "notes"}, files : SUBSET Images]
  /\ purge \in [at : {"idle", "note", "rows", "files"}, images : SUBSET Images, note : BOOLEAN]

(* An image a user can see has its file: however uploads, deletes, sweeps  *)
(* and purges overlap, fail and crash, no file goes that a live row of a   *)
(* live note names (ADR 0040 decision 5).                                  *)
ImagesHaveFiles ==
  note = "live" => \A i \in Live : file[i] # "none"

(* No request, and no two deletes, leave a note with neither text nor      *)
(* image; only an update and a delete of an image that overlap do, each    *)
(* deciding by what it read of the other's (note_image_controller.go:95).  *)
EmptiedByOverlap ==
  [][ ~Empty /\ Empty' =>
        \/ upd = "counted"
        \/ \E i \in Images : at[i] = "text" /\ at'[i] = "deleted" ]_vars

(* A file no live image of a live note has is removed in the end, whatever *)
(* left it behind: a failed upload, a failed removal or a crash.           *)
OrphansAreSwept ==
  \A i \in Images :
    LET Kept == note = "live" /\ row[i] = "live"
    IN  file[i] # "none" /\ ~Kept ~> file[i] = "none" \/ Kept

(* A note that stays empty does not stay visible, whether its first image  *)
(* never came or an overlap emptied it (ADR 0040 decision 11).             *)
EmptyNotesEnd == Empty ~> ~Empty

(* image_sweep_service.go:19: the grace is there so that "a note waiting   *)
(* for its first image is never raced": the sweep deletes no other note.   *)
SweepTakesOnlyEmpty ==
  [][ sweep.at = "notes" /\ sweep'.at = "idle" /\ note = "live" /\ note' = "dead" => Empty ]_vars
=============================================================================
