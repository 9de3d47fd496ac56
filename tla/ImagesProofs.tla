--------------------------- MODULE ImagesProofs ---------------------------
(***************************************************************************)
(* What holds of the image store for any set of images and any limit.      *)
(***************************************************************************)
EXTENDS Images, TLAPS

Uploading == {"loaded", "saved"}

(* A name is new until its row is inserted, and its file until then too.   *)
UploadInv ==
  \A i \in Images :
    /\ at[i] = "loaded" => row[i] = "none" /\ file[i] = "none"
    /\ at[i] = "saved" => row[i] = "none" /\ file[i] = "new"
    /\ at[i] = "deleted" => row[i] # "live"

(* What the sweep is about to remove is of no upload under way, and, once  *)
(* the rows are read, of no live row.                                      *)
SweepInv ==
  \A i \in sweep.files :
    /\ at[i] \notin Uploading
    /\ sweep.at = "remove" => row[i] # "live"

(* Neither is what the purge is about to remove, unless its note is gone.  *)
PurgeInv ==
  \A i \in purge.images :
    /\ at[i] \notin Uploading
    /\ row[i] # "live" \/ note # "live"

IInv == TypeOK /\ UploadInv /\ SweepInv /\ PurgeInv /\ ImagesHaveFiles

LEMMA InitInv == Init => IInv
BY DEF Init, IInv, TypeOK, UploadInv, SweepInv, PurgeInv, ImagesHaveFiles, NoSweep, NoPurge,
       Uploading, Live

-----------------------------------------------------------------------------
(* One lemma per handler or job: the invariant is kept by each of its steps*)

LEMMA UploadStep ==
  ASSUME IInv, NEW i \in Images, StartUpload(i) \/ Upload(i)
  PROVE  IInv'
<1> USE DEF IInv, TypeOK, Uploading, Live
<1>1. CASE StartUpload(i)
  <2>1. TypeOK'
    BY <1>1 DEF StartUpload, Goto, content, store, jobs
  <2>2. UploadInv'
    BY <1>1 DEF StartUpload, Goto, content, store, jobs, UploadInv
  <2>3. SweepInv'
    BY <1>1 DEF StartUpload, Goto, content, store, jobs, SweepInv
  <2>4. PurgeInv'
    BY <1>1 DEF StartUpload, Goto, content, store, jobs, PurgeInv
  <2>5. ImagesHaveFiles'
    BY <1>1 DEF StartUpload, Goto, content, store, jobs, ImagesHaveFiles
  <2> QED BY <2>1, <2>2, <2>3, <2>4, <2>5
<1>2. CASE SaveFile(i)
  <2>1. TypeOK'
    BY <1>2 DEF SaveFile, Goto, content, store, jobs
  <2>2. UploadInv'
    BY <1>2 DEF SaveFile, Goto, content, store, jobs, UploadInv
  <2>3. SweepInv'
    BY <1>2 DEF SaveFile, Goto, content, store, jobs, SweepInv
  <2>4. PurgeInv'
    BY <1>2 DEF SaveFile, Goto, content, store, jobs, PurgeInv
  <2>5. ImagesHaveFiles'
    BY <1>2 DEF SaveFile, Goto, content, store, jobs, ImagesHaveFiles
  <2> QED BY <2>1, <2>2, <2>3, <2>4, <2>5
<1>3. CASE SaveFails(i)
  <2>1. TypeOK'
    BY <1>3 DEF SaveFails, Goto, content, store, jobs
  <2>2. UploadInv'
    BY <1>3 DEF SaveFails, Goto, content, store, jobs, UploadInv
  <2>3. SweepInv'
    BY <1>3 DEF SaveFails, Goto, content, store, jobs, SweepInv
  <2>4. PurgeInv'
    BY <1>3 DEF SaveFails, Goto, content, store, jobs, PurgeInv
  <2>5. ImagesHaveFiles'
    BY <1>3 DEF SaveFails, Goto, content, store, jobs, ImagesHaveFiles, UploadInv
  <2> QED BY <2>1, <2>2, <2>3, <2>4, <2>5
<1>4. CASE insertWithinLimits(i)
  <2>1. TypeOK'
    BY <1>4 DEF insertWithinLimits, Goto, content, store, jobs
  <2>2. UploadInv'
    BY <1>4 DEF insertWithinLimits, Goto, content, store, jobs, UploadInv
  <2>3. SweepInv'
    BY <1>4 DEF insertWithinLimits, Goto, content, store, jobs, SweepInv
  <2>4. PurgeInv'
    BY <1>4 DEF insertWithinLimits, Goto, content, store, jobs, PurgeInv
  <2>5. ImagesHaveFiles'
    BY <1>4 DEF insertWithinLimits, Goto, content, store, jobs, ImagesHaveFiles, UploadInv
  <2> QED BY <2>1, <2>2, <2>3, <2>4, <2>5
<1>5. CASE InsertFails(i)
  <2>1. TypeOK'
    BY <1>5 DEF InsertFails, RemoveFile, Goto, content, store, jobs
  <2>2. UploadInv'
    BY <1>5 DEF InsertFails, RemoveFile, Goto, content, store, jobs, UploadInv
  <2>3. SweepInv'
    BY <1>5 DEF InsertFails, RemoveFile, Goto, content, store, jobs, SweepInv
  <2>4. PurgeInv'
    BY <1>5 DEF InsertFails, RemoveFile, Goto, content, store, jobs, PurgeInv
  <2>5. ImagesHaveFiles'
    BY <1>5 DEF InsertFails, RemoveFile, Goto, content, store, jobs, ImagesHaveFiles, UploadInv
  <2> QED BY <2>1, <2>2, <2>3, <2>4, <2>5
<1> QED BY <1>1, <1>2, <1>3, <1>4, <1>5 DEF Upload

LEMMA DeleteStep ==
  ASSUME IInv, NEW i \in Images, LoadDelete(i) \/ DeleteWithin(i)
  PROVE  IInv'
<1> USE DEF IInv, TypeOK, Uploading, Live
<1>1. CASE LoadDelete(i)
  <2>1. TypeOK'
    BY <1>1 DEF LoadDelete, Goto, content, store, jobs
  <2>2. UploadInv'
    BY <1>1 DEF LoadDelete, Goto, content, store, jobs, UploadInv
  <2>3. SweepInv'
    BY <1>1 DEF LoadDelete, Goto, content, store, jobs, SweepInv
  <2>4. PurgeInv'
    BY <1>1 DEF LoadDelete, Goto, content, store, jobs, PurgeInv
  <2>5. ImagesHaveFiles'
    BY <1>1 DEF LoadDelete, Goto, content, store, jobs, ImagesHaveFiles
  <2> QED BY <2>1, <2>2, <2>3, <2>4, <2>5
<1>2. CASE DeleteRow(i)
  <2>1. TypeOK'
    BY <1>2 DEF DeleteRow, Goto, content, store, jobs
  <2>2. UploadInv'
    BY <1>2 DEF DeleteRow, Goto, content, store, jobs, UploadInv
  <2>3. SweepInv'
    BY <1>2 DEF DeleteRow, Goto, content, store, jobs, SweepInv
  <2>4. PurgeInv'
    BY <1>2 DEF DeleteRow, Goto, content, store, jobs, PurgeInv
  <2>5. ImagesHaveFiles'
    BY <1>2 DEF DeleteRow, Goto, content, store, jobs, ImagesHaveFiles
  <2> QED BY <2>1, <2>2, <2>3, <2>4, <2>5
<1>3. CASE DeleteRefused(i)
  <2>1. TypeOK'
    BY <1>3 DEF DeleteRefused, Goto, content, store, jobs
  <2>2. UploadInv'
    BY <1>3 DEF DeleteRefused, Goto, content, store, jobs, UploadInv
  <2>3. SweepInv'
    BY <1>3 DEF DeleteRefused, Goto, content, store, jobs, SweepInv
  <2>4. PurgeInv'
    BY <1>3 DEF DeleteRefused, Goto, content, store, jobs, PurgeInv
  <2>5. ImagesHaveFiles'
    BY <1>3 DEF DeleteRefused, Goto, content, store, jobs, ImagesHaveFiles
  <2> QED BY <2>1, <2>2, <2>3, <2>4, <2>5
<1>4. CASE DeleteFile(i)
  <2>1. TypeOK'
    BY <1>4 DEF DeleteFile, RemoveFile, Goto, content, store, jobs
  <2>2. UploadInv'
    BY <1>4 DEF DeleteFile, RemoveFile, Goto, content, store, jobs, UploadInv
  <2>3. SweepInv'
    BY <1>4 DEF DeleteFile, RemoveFile, Goto, content, store, jobs, SweepInv
  <2>4. PurgeInv'
    BY <1>4 DEF DeleteFile, RemoveFile, Goto, content, store, jobs, PurgeInv
  <2>5. ImagesHaveFiles'
    BY <1>4 DEF DeleteFile, RemoveFile, Goto, content, store, jobs, ImagesHaveFiles, UploadInv
  <2> QED BY <2>1, <2>2, <2>3, <2>4, <2>5
<1> QED BY <1>1, <1>2, <1>3, <1>4 DEF DeleteWithin

LEMMA NoteStep ==
  ASSUME IInv, LoadNote \/ UpdateNote \/ DeleteNote
  PROVE  IInv'
<1> USE DEF IInv, TypeOK, Uploading, Live
<1>1. CASE LoadNote
  <2>1. TypeOK'
    BY <1>1 DEF LoadNote, content, store, jobs
  <2>2. UploadInv'
    BY <1>1 DEF LoadNote, content, store, jobs, UploadInv
  <2>3. SweepInv'
    BY <1>1 DEF LoadNote, content, store, jobs, SweepInv
  <2>4. PurgeInv'
    BY <1>1 DEF LoadNote, content, store, jobs, PurgeInv
  <2>5. ImagesHaveFiles'
    BY <1>1 DEF LoadNote, content, store, jobs, ImagesHaveFiles
  <2> QED BY <2>1, <2>2, <2>3, <2>4, <2>5
<1>2. CASE CountLive
  <2>1. TypeOK'
    BY <1>2 DEF CountLive, content, store, jobs
  <2>2. UploadInv'
    BY <1>2 DEF CountLive, content, store, jobs, UploadInv
  <2>3. SweepInv'
    BY <1>2 DEF CountLive, content, store, jobs, SweepInv
  <2>4. PurgeInv'
    BY <1>2 DEF CountLive, content, store, jobs, PurgeInv
  <2>5. ImagesHaveFiles'
    BY <1>2 DEF CountLive, content, store, jobs, ImagesHaveFiles
  <2> QED BY <2>1, <2>2, <2>3, <2>4, <2>5
<1>3. CASE SaveNote
  <2>1. TypeOK'
    BY <1>3 DEF SaveNote, content, store, jobs
  <2>2. UploadInv'
    BY <1>3 DEF SaveNote, content, store, jobs, UploadInv
  <2>3. SweepInv'
    BY <1>3 DEF SaveNote, content, store, jobs, SweepInv
  <2>4. PurgeInv'
    BY <1>3 DEF SaveNote, content, store, jobs, PurgeInv
  <2>5. ImagesHaveFiles'
    BY <1>3 DEF SaveNote, content, store, jobs, ImagesHaveFiles
  <2> QED BY <2>1, <2>2, <2>3, <2>4, <2>5
<1>4. CASE DeleteNote
  <2>1. TypeOK'
    BY <1>4 DEF DeleteNote, content, store, jobs
  <2>2. UploadInv'
    BY <1>4 DEF DeleteNote, content, store, jobs, UploadInv
  <2>3. SweepInv'
    BY <1>4 DEF DeleteNote, content, store, jobs, SweepInv
  <2>4. PurgeInv'
    BY <1>4 DEF DeleteNote, content, store, jobs, PurgeInv
  <2>5. ImagesHaveFiles'
    BY <1>4 DEF DeleteNote, content, store, jobs, ImagesHaveFiles
  <2> QED BY <2>1, <2>2, <2>3, <2>4, <2>5
<1> QED BY <1>1, <1>2, <1>3, <1>4 DEF UpdateNote

LEMMA SweepLemma ==
  ASSUME IInv, SweepImages
  PROVE  IInv'
<1> USE DEF IInv, TypeOK, Uploading, Live
<1>1. CASE StartSweep
  <2>1. TypeOK'
    BY <1>1 DEF StartSweep, OldFiles, content, store, jobs
  <2>2. UploadInv'
    BY <1>1 DEF StartSweep, OldFiles, content, store, jobs, UploadInv
  <2>3. SweepInv'
    BY <1>1 DEF StartSweep, OldFiles, content, store, jobs, SweepInv, UploadInv
  <2>4. PurgeInv'
    BY <1>1 DEF StartSweep, OldFiles, content, store, jobs, PurgeInv
  <2>5. ImagesHaveFiles'
    BY <1>1 DEF StartSweep, OldFiles, content, store, jobs, ImagesHaveFiles
  <2> QED BY <2>1, <2>2, <2>3, <2>4, <2>5
<1>2. CASE ReadRows
  <2>1. TypeOK'
    BY <1>2 DEF ReadRows, Referenced, content, store, jobs
  <2>2. UploadInv'
    BY <1>2 DEF ReadRows, Referenced, content, store, jobs, UploadInv
  <2>3. SweepInv'
    BY <1>2 DEF ReadRows, Referenced, content, store, jobs, SweepInv
  <2>4. PurgeInv'
    BY <1>2 DEF ReadRows, Referenced, content, store, jobs, PurgeInv
  <2>5. ImagesHaveFiles'
    BY <1>2 DEF ReadRows, Referenced, content, store, jobs, ImagesHaveFiles
  <2> QED BY <2>1, <2>2, <2>3, <2>4, <2>5
<1>3. CASE SweepFails
  <2>1. TypeOK'
    BY <1>3 DEF SweepFails, NoSweep, content, store, jobs
  <2>2. UploadInv'
    BY <1>3 DEF SweepFails, NoSweep, content, store, jobs, UploadInv
  <2>3. SweepInv'
    BY <1>3 DEF SweepFails, NoSweep, content, store, jobs, SweepInv
  <2>4. PurgeInv'
    BY <1>3 DEF SweepFails, NoSweep, content, store, jobs, PurgeInv
  <2>5. ImagesHaveFiles'
    BY <1>3 DEF SweepFails, NoSweep, content, store, jobs, ImagesHaveFiles
  <2> QED BY <2>1, <2>2, <2>3, <2>4, <2>5
<1>4. CASE \E i \in Images : SweepFile(i)
  <2>1. TypeOK'
    BY <1>4 DEF SweepFile, Swept, content, store, jobs
  <2>2. UploadInv'
    BY <1>4 DEF SweepFile, Swept, content, store, jobs, UploadInv, SweepInv
  <2>3. SweepInv'
    BY <1>4 DEF SweepFile, Swept, content, store, jobs, SweepInv
  <2>4. PurgeInv'
    BY <1>4 DEF SweepFile, Swept, content, store, jobs, PurgeInv
  <2>5. ImagesHaveFiles'
    BY <1>4 DEF SweepFile, Swept, content, store, jobs, ImagesHaveFiles, SweepInv
  <2> QED BY <2>1, <2>2, <2>3, <2>4, <2>5
<1>5. CASE \E i \in Images : SkipFile(i)
  <2>1. TypeOK'
    BY <1>5 DEF SkipFile, Swept, content, store, jobs
  <2>2. UploadInv'
    BY <1>5 DEF SkipFile, Swept, content, store, jobs, UploadInv
  <2>3. SweepInv'
    BY <1>5 DEF SkipFile, Swept, content, store, jobs, SweepInv
  <2>4. PurgeInv'
    BY <1>5 DEF SkipFile, Swept, content, store, jobs, PurgeInv
  <2>5. ImagesHaveFiles'
    BY <1>5 DEF SkipFile, Swept, content, store, jobs, ImagesHaveFiles
  <2> QED BY <2>1, <2>2, <2>3, <2>4, <2>5
<1>6. CASE FindEmptyNotes
  <2>1. TypeOK'
    BY <1>6 DEF FindEmptyNotes, NoSweep, content, store, jobs
  <2>2. UploadInv'
    BY <1>6 DEF FindEmptyNotes, NoSweep, content, store, jobs, UploadInv
  <2>3. SweepInv'
    BY <1>6 DEF FindEmptyNotes, NoSweep, content, store, jobs, SweepInv
  <2>4. PurgeInv'
    BY <1>6 DEF FindEmptyNotes, NoSweep, content, store, jobs, PurgeInv
  <2>5. ImagesHaveFiles'
    BY <1>6 DEF FindEmptyNotes, NoSweep, content, store, jobs, ImagesHaveFiles
  <2> QED BY <2>1, <2>2, <2>3, <2>4, <2>5
<1>7. CASE DeleteEmptyNote
  <2>1. TypeOK'
    BY <1>7 DEF DeleteEmptyNote, NoSweep, content, store, jobs
  <2>2. UploadInv'
    BY <1>7 DEF DeleteEmptyNote, NoSweep, content, store, jobs, UploadInv
  <2>3. SweepInv'
    BY <1>7 DEF DeleteEmptyNote, NoSweep, content, store, jobs, SweepInv
  <2>4. PurgeInv'
    BY <1>7 DEF DeleteEmptyNote, NoSweep, content, store, jobs, PurgeInv
  <2>5. ImagesHaveFiles'
    BY <1>7 DEF DeleteEmptyNote, NoSweep, content, store, jobs, ImagesHaveFiles
  <2> QED BY <2>1, <2>2, <2>3, <2>4, <2>5
<1>8. CASE DeleteEmptyFails
  <2>1. TypeOK'
    BY <1>8 DEF DeleteEmptyFails, NoSweep, content, store, jobs
  <2>2. UploadInv'
    BY <1>8 DEF DeleteEmptyFails, NoSweep, content, store, jobs, UploadInv
  <2>3. SweepInv'
    BY <1>8 DEF DeleteEmptyFails, NoSweep, content, store, jobs, SweepInv
  <2>4. PurgeInv'
    BY <1>8 DEF DeleteEmptyFails, NoSweep, content, store, jobs, PurgeInv
  <2>5. ImagesHaveFiles'
    BY <1>8 DEF DeleteEmptyFails, NoSweep, content, store, jobs, ImagesHaveFiles
  <2> QED BY <2>1, <2>2, <2>3, <2>4, <2>5
<1> QED BY <1>1, <1>2, <1>3, <1>4, <1>5, <1>6, <1>7, <1>8 DEF SweepImages, SweepStep

LEMMA PurgeLemma ==
  ASSUME IInv, PurgeSoftDeletedRows
  PROVE  IInv'
<1> USE DEF IInv, TypeOK, Uploading, Live
<1>1. CASE collectPurgeFiles
  <2>1. TypeOK'
    BY <1>1 DEF collectPurgeFiles, Expired, NoteExpired, content, store, jobs
  <2>2. UploadInv'
    BY <1>1 DEF collectPurgeFiles, Expired, NoteExpired, content, store, jobs, UploadInv
  <2>3. SweepInv'
    BY <1>1 DEF collectPurgeFiles, Expired, NoteExpired, content, store, jobs, SweepInv
  <2>4. PurgeInv'
    BY <1>1 DEF collectPurgeFiles, Expired, NoteExpired, content, store, jobs, PurgeInv
  <2>5. ImagesHaveFiles'
    BY <1>1 DEF collectPurgeFiles, Expired, NoteExpired, content, store, jobs, ImagesHaveFiles
  <2> QED BY <2>1, <2>2, <2>3, <2>4, <2>5
<1>2. CASE PurgeNote
  <2>1. TypeOK'
    BY <1>2 DEF PurgeNote, PurgeAt, content, store, jobs
  <2>2. UploadInv'
    BY <1>2 DEF PurgeNote, PurgeAt, content, store, jobs, UploadInv
  <2>3. SweepInv'
    BY <1>2 DEF PurgeNote, PurgeAt, content, store, jobs, SweepInv
  <2>4. PurgeInv'
    BY <1>2 DEF PurgeNote, PurgeAt, content, store, jobs, PurgeInv
  <2>5. ImagesHaveFiles'
    BY <1>2 DEF PurgeNote, PurgeAt, content, store, jobs, ImagesHaveFiles
  <2> QED BY <2>1, <2>2, <2>3, <2>4, <2>5
<1>3. CASE SkipNote
  <2>1. TypeOK'
    BY <1>3 DEF SkipNote, PurgeAt, content, store, jobs
  <2>2. UploadInv'
    BY <1>3 DEF SkipNote, PurgeAt, content, store, jobs, UploadInv
  <2>3. SweepInv'
    BY <1>3 DEF SkipNote, PurgeAt, content, store, jobs, SweepInv
  <2>4. PurgeInv'
    BY <1>3 DEF SkipNote, PurgeAt, content, store, jobs, PurgeInv
  <2>5. ImagesHaveFiles'
    BY <1>3 DEF SkipNote, PurgeAt, content, store, jobs, ImagesHaveFiles
  <2> QED BY <2>1, <2>2, <2>3, <2>4, <2>5
<1>4. CASE PurgeRows
  <2>1. TypeOK'
    BY <1>4 DEF PurgeRows, PurgeAt, content, store, jobs
  <2>2. UploadInv'
    BY <1>4 DEF PurgeRows, PurgeAt, content, store, jobs, UploadInv
  <2>3. SweepInv'
    BY <1>4 DEF PurgeRows, PurgeAt, content, store, jobs, SweepInv
  <2>4. PurgeInv'
    BY <1>4 DEF PurgeRows, PurgeAt, content, store, jobs, PurgeInv
  <2>5. ImagesHaveFiles'
    BY <1>4 DEF PurgeRows, PurgeAt, content, store, jobs, ImagesHaveFiles
  <2> QED BY <2>1, <2>2, <2>3, <2>4, <2>5
<1>5. CASE RowsFail
  <2>1. TypeOK'
    BY <1>5 DEF RowsFail, PurgeAt, content, store, jobs
  <2>2. UploadInv'
    BY <1>5 DEF RowsFail, PurgeAt, content, store, jobs, UploadInv
  <2>3. SweepInv'
    BY <1>5 DEF RowsFail, PurgeAt, content, store, jobs, SweepInv
  <2>4. PurgeInv'
    BY <1>5 DEF RowsFail, PurgeAt, content, store, jobs, PurgeInv
  <2>5. ImagesHaveFiles'
    BY <1>5 DEF RowsFail, PurgeAt, content, store, jobs, ImagesHaveFiles
  <2> QED BY <2>1, <2>2, <2>3, <2>4, <2>5
<1>6. CASE removePurgedFiles
  <2>1. TypeOK'
    BY <1>6 DEF removePurgedFiles, NoPurge, content, store, jobs
  <2>2. UploadInv'
    BY <1>6 DEF removePurgedFiles, NoPurge, content, store, jobs, UploadInv, PurgeInv
  <2>3. SweepInv'
    BY <1>6 DEF removePurgedFiles, NoPurge, content, store, jobs, SweepInv
  <2>4. PurgeInv'
    BY <1>6 DEF removePurgedFiles, NoPurge, content, store, jobs, PurgeInv
  <2>5. ImagesHaveFiles'
    BY <1>6 DEF removePurgedFiles, NoPurge, content, store, jobs, ImagesHaveFiles, PurgeInv
  <2> QED BY <2>1, <2>2, <2>3, <2>4, <2>5
<1> QED BY <1>1, <1>2, <1>3, <1>4, <1>5, <1>6 DEF PurgeSoftDeletedRows, PurgeStep

LEMMA TimeStep ==
  ASSUME IInv, Age \/ Crash
  PROVE  IInv'
<1> USE DEF IInv, TypeOK, Uploading, Live
<1>1. CASE \E i \in Images : AgeFile(i)
  <2>1. TypeOK'
    BY <1>1 DEF AgeFile, content, store, jobs
  <2>2. UploadInv'
    BY <1>1 DEF AgeFile, content, store, jobs, UploadInv
  <2>3. SweepInv'
    BY <1>1 DEF AgeFile, content, store, jobs, SweepInv
  <2>4. PurgeInv'
    BY <1>1 DEF AgeFile, content, store, jobs, PurgeInv
  <2>5. ImagesHaveFiles'
    BY <1>1 DEF AgeFile, content, store, jobs, ImagesHaveFiles
  <2> QED BY <2>1, <2>2, <2>3, <2>4, <2>5
<1>2. CASE AgeNote
  <2>1. TypeOK'
    BY <1>2 DEF AgeNote, content, store, jobs
  <2>2. UploadInv'
    BY <1>2 DEF AgeNote, content, store, jobs, UploadInv
  <2>3. SweepInv'
    BY <1>2 DEF AgeNote, content, store, jobs, SweepInv
  <2>4. PurgeInv'
    BY <1>2 DEF AgeNote, content, store, jobs, PurgeInv
  <2>5. ImagesHaveFiles'
    BY <1>2 DEF AgeNote, content, store, jobs, ImagesHaveFiles
  <2> QED BY <2>1, <2>2, <2>3, <2>4, <2>5
<1>3. CASE Crash
  <2>1. TypeOK'
    BY <1>3 DEF Crash, NoSweep, NoPurge, content, store, jobs
  <2>2. UploadInv'
    BY <1>3 DEF Crash, NoSweep, NoPurge, content, store, jobs, UploadInv
  <2>3. SweepInv'
    BY <1>3 DEF Crash, NoSweep, NoPurge, content, store, jobs, SweepInv
  <2>4. PurgeInv'
    BY <1>3 DEF Crash, NoSweep, NoPurge, content, store, jobs, PurgeInv
  <2>5. ImagesHaveFiles'
    BY <1>3 DEF Crash, NoSweep, NoPurge, content, store, jobs, ImagesHaveFiles
  <2> QED BY <2>1, <2>2, <2>3, <2>4, <2>5
<1> QED BY <1>1, <1>2, <1>3 DEF Age

LEMMA StepInv == IInv /\ [Next]_vars => IInv'
<1> SUFFICES ASSUME IInv, [Next]_vars PROVE IInv'
  OBVIOUS
<1>1. CASE UNCHANGED vars
  BY <1>1 DEF vars, content, store, jobs, IInv, TypeOK, UploadInv, SweepInv, PurgeInv, ImagesHaveFiles, Live
<1>2. CASE Serve
  BY <1>2, UploadStep, DeleteStep, NoteStep DEF Serve
<1>3. CASE SweepImages
  BY <1>3, SweepLemma
<1>4. CASE PurgeSoftDeletedRows
  BY <1>4, PurgeLemma
<1>5. CASE Age \/ Crash
  BY <1>5, TimeStep
<1> QED BY <1>1, <1>2, <1>3, <1>4, <1>5 DEF Next

LEMMA Invariance == Spec => []IInv
BY InitInv, StepInv, PTL DEF Spec

(* Every variable keeps its type, for any images and any limit.            *)
THEOREM TypeCorrect == Spec => []TypeOK
<1>1. IInv => TypeOK
  BY DEF IInv
<1> QED BY <1>1, Invariance, PTL

(* No file goes that a live image of a live note names.                    *)
THEOREM LiveImagesKeepTheirFiles == Spec => []ImagesHaveFiles
<1>1. IInv => ImagesHaveFiles
  BY DEF IInv
<1> QED BY <1>1, Invariance, PTL

-----------------------------------------------------------------------------
(* Only these steps take a note's last image or its text.                  *)
LEMMA EmptiedBy ==
  ASSUME TypeOK, [Next]_vars, ~Empty, Empty'
  PROVE  SaveNote \/ \E i \in Images : DeleteRow(i)
<1> USE DEF Empty, Live
<1>1. CASE UNCHANGED vars
  BY <1>1 DEF vars, content, store
<1>2. ASSUME NEW i \in Images, StartUpload(i) \/ Upload(i) PROVE FALSE
  BY <1>2 DEF StartUpload, Upload, SaveFile, SaveFails, insertWithinLimits, InsertFails, content,
     store, TypeOK
<1>3. ASSUME NEW i \in Images, LoadDelete(i) \/ DeleteRefused(i) \/ DeleteFile(i) PROVE FALSE
  BY <1>3 DEF LoadDelete, DeleteRefused, DeleteFile, content, store
<1>4. CASE LoadNote \/ CountLive \/ DeleteNote
  BY <1>4 DEF LoadNote, CountLive, DeleteNote, content, store
<1>5. CASE SweepImages
  BY <1>5 DEF SweepImages, StartSweep, SweepStep, ReadRows, SweepFails, SweepFile, SkipFile,
     FindEmptyNotes, DeleteEmptyNote, DeleteEmptyFails, content, store
<1>6. CASE PurgeSoftDeletedRows
  <2>1. CASE PurgeNote
    BY <2>1 DEF PurgeNote
  <2>2. CASE PurgeRows
    BY <2>2 DEF PurgeRows, content, TypeOK
  <2>3. CASE collectPurgeFiles \/ SkipNote \/ RowsFail \/ removePurgedFiles
    BY <2>3 DEF collectPurgeFiles, SkipNote, RowsFail, removePurgedFiles, content, store
  <2> QED BY <1>6, <2>1, <2>2, <2>3 DEF PurgeSoftDeletedRows, PurgeStep
<1>7. CASE Age \/ Crash
  BY <1>7 DEF Age, AgeFile, AgeNote, Crash, content, store
<1> QED BY <1>1, <1>2, <1>3, <1>4, <1>5, <1>6, <1>7 DEF Next, Serve, DeleteWithin, UpdateNote

(* A note is left with neither text nor image only by an update that had   *)
(* counted an image, or by a delete that had read the text: two deletes    *)
(* never do it together, for any number of images and requests.            *)
THEOREM EmptiedOnlyByOverlap == Spec => EmptiedByOverlap
<1>1. ASSUME TypeOK, [Next]_vars, ~Empty, Empty'
      PROVE  \/ upd = "counted"
             \/ \E i \in Images : at[i] = "text" /\ at'[i] = "deleted"
  <2>1. CASE SaveNote
    BY <1>1, <2>1 DEF SaveNote, Empty, Live, store
  <2>2. CASE \E i \in Images : DeleteRow(i)
    <3>1. PICK i \in Images : DeleteRow(i)
      BY <2>2
    <3>2. Live' = Live \ {i} /\ at'[i] = "deleted"
      BY <1>1, <3>1 DEF DeleteRow, Goto, Live, TypeOK
    <3>3. at[i] = "text"
      BY <1>1, <3>1, <3>2 DEF DeleteRow, MayDelete, Empty
    <3> QED BY <3>2, <3>3
  <2> QED BY <1>1, <2>1, <2>2, EmptiedBy
<1>2. TypeOK /\ [Next]_vars
        => [ ~Empty /\ Empty' =>
               \/ upd = "counted"
               \/ \E i \in Images : at[i] = "text" /\ at'[i] = "deleted" ]_vars
  BY <1>1
<1> QED BY <1>2, TypeCorrect, PTL DEF Spec, EmptiedByOverlap

=============================================================================
