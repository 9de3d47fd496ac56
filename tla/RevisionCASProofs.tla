------------------------- MODULE RevisionCASProofs -------------------------
(***************************************************************************)
(* Proofs about RevisionCAS, for any set of clients and any bound on the   *)
(* revisions.  One inductive invariant serves all: what a request loaded   *)
(* at the row's revision is what the row holds, and the trash always has   *)
(* the full snapshot of what it holds.                                     *)
(***************************************************************************)
EXTENDS RevisionCAS, TLAPS

(* A conditional PUT loaded the revision its client had a copy of.         *)
MatchedLoad ==
  \A c \in Clients : pc[c] = "put" /\ match[c] => view[c].revision = loaded[c].revision

(* Flags loaded at the row's revision are the row's flags.                 *)
LoadedFlags ==
  \A c \in Clients :
    pc[c] # "idle" /\ loaded[c].revision = revision => loaded[c].flags = flags

(* A live contact has its children and no snapshot; a trashed one has lost *)
(* them all to its snapshot.                                               *)
TrashIsComplete ==
  /\ status = "live" => children /\ snapshot = "none"
  /\ status = "trashed" => snapshot = "full"
  /\ status # "live" => ~children

IInv == TypeOK /\ RevisionIdentifiesCard /\ MatchedLoad /\ LoadedFlags /\ TrashIsComplete

USE DEF ifMatchSatisfied, Finish

(* The revision only grows, and what is loaded or seen lies behind it.     *)
LEMMA InitIInv == ASSUME Init PROVE IInv
<1> USE DEF Init
<1>1. RowOK
  BY DEF RowOK
<1>2. RequestsOK
  BY DEF RequestsOK
<1>3. SeenBefore
  <2>1. 0 <= revision
    OBVIOUS
  <2>2. \A c \in Clients : loaded[c].revision = 0 /\ view[c].revision = 0
    OBVIOUS
  <2> HIDE DEF Init
  <2>3. ASSUME NEW c \in Clients
        PROVE  loaded[c].revision <= revision /\ view[c].revision <= revision
    BY <2>1, <2>2, ZenonT(20)
  <2> QED BY <2>3 DEF SeenBefore
<1>4. RevisionIdentifiesCard
  BY DEF RevisionIdentifiesCard
<1>5. MatchedLoad /\ LoadedFlags
  BY DEF MatchedLoad, LoadedFlags
<1>6. TrashIsComplete
  BY DEF TrashIsComplete
<1> QED BY <1>1, <1>2, <1>3, <1>4, <1>5, <1>6 DEF IInv, TypeOK

LEMMA GetIInv == ASSUME IInv, NEW c \in Clients, Get(c) PROVE IInv'
<1> USE DEF IInv, TypeOK, Get, row
<1>1. RowOK'
  BY DEF RowOK
<1>2. RequestsOK'
  BY DEF RowOK, RequestsOK
<1>3. SeenBefore'
  BY DEF RowOK, RequestsOK, SeenBefore
<1>4. RevisionIdentifiesCard'
  BY DEF RequestsOK, RevisionIdentifiesCard
<1>5. MatchedLoad'
  BY DEF RequestsOK, MatchedLoad
<1>6. LoadedFlags'
  BY DEF LoadedFlags
<1>7. TrashIsComplete'
  BY DEF TrashIsComplete
<1> QED BY <1>1, <1>2, <1>3, <1>4, <1>5, <1>6, <1>7

LEMMA LoadIInv ==
  ASSUME IInv, NEW c \in Clients, NEW op \in {"put", "flag", "delete"},
         NEW conditional \in BOOLEAN, Load(c, op, conditional)
  PROVE  IInv'
<1> USE DEF IInv, TypeOK, Load, row
<1>1. RowOK'
  BY DEF RowOK
<1>2. RequestsOK'
  BY DEF RowOK, RequestsOK
<1>3. SeenBefore'
  BY DEF RowOK, RequestsOK, SeenBefore
<1>4. RevisionIdentifiesCard'
  BY DEF RevisionIdentifiesCard
<1>5. MatchedLoad'
  BY DEF RequestsOK, MatchedLoad
<1>6. LoadedFlags'
  BY DEF RequestsOK, LoadedFlags
<1>7. TrashIsComplete'
  BY DEF TrashIsComplete
<1> QED BY <1>1, <1>2, <1>3, <1>4, <1>5, <1>6, <1>7

(* After a bump every older load and copy is of an older revision.         *)
LEMMA SavePutIInv == ASSUME IInv, NEW c \in Clients, SavePut(c) PROVE IInv'
<1> USE DEF IInv, TypeOK, SavePut, bumpRevisionCAS
<1>1. revision \in Nat /\ revision' = revision + 1 /\ revision' \in Nat
  BY DEF RowOK, RequestsOK
<1>2. card' \in SUBSET Clients /\ flags' \in SUBSET Clients /\ photo' \in BOOLEAN
  BY DEF RowOK, RequestsOK
<1>3. RowOK'
  BY <1>1, <1>2 DEF RowOK
<1>4. view' \in [Clients -> [revision : Nat, card : SUBSET Clients]]
  BY <1>1, <1>2 DEF RequestsOK
<1>5. RequestsOK'
  BY <1>4 DEF RequestsOK
<1>6. \A d \in Clients : view'[d] = view[d] \/ (view'[d].revision = revision' /\ view'[d].card = card')
  BY DEF RequestsOK
<1>7. \A d \in Clients : view[d].revision \in Nat /\ loaded[d].revision \in Nat
  BY DEF RequestsOK
<1>8. SeenBefore'
  BY <1>1, <1>6, <1>7 DEF SeenBefore
<1>9. RevisionIdentifiesCard'
  BY <1>1, <1>6, <1>7 DEF SeenBefore, RevisionIdentifiesCard
<1>10. MatchedLoad'
  BY DEF RequestsOK, MatchedLoad
<1>11. LoadedFlags'
  BY <1>1, <1>7 DEF SeenBefore, LoadedFlags
<1>12. TrashIsComplete'
  BY DEF TrashIsComplete
<1> QED BY <1>3, <1>5, <1>8, <1>9, <1>10, <1>11, <1>12

LEMMA SaveFlagIInv == ASSUME IInv, NEW c \in Clients, SaveFlag(c) PROVE IInv'
<1> USE DEF IInv, TypeOK, SaveFlag, bumpRevisionCAS
<1>1. revision \in Nat /\ revision' = revision + 1 /\ revision' \in Nat
  BY DEF RowOK, RequestsOK
<1>2. RowOK'
  BY <1>1 DEF RowOK
<1>3. RequestsOK'
  BY DEF RequestsOK
<1>4. \A d \in Clients : view[d].revision \in Nat /\ loaded[d].revision \in Nat
  BY DEF RequestsOK
<1>5. SeenBefore'
  BY <1>1, <1>4 DEF SeenBefore
<1>6. RevisionIdentifiesCard'
  BY <1>1, <1>4 DEF SeenBefore, RevisionIdentifiesCard
<1>7. MatchedLoad'
  BY DEF RequestsOK, MatchedLoad
<1>8. LoadedFlags'
  BY <1>1, <1>4 DEF SeenBefore, LoadedFlags
<1>9. TrashIsComplete'
  BY DEF TrashIsComplete
<1> QED BY <1>2, <1>3, <1>5, <1>6, <1>7, <1>8, <1>9

LEMMA RefuseIInv == ASSUME IInv, NEW c \in Clients, Refuse(c) PROVE IInv'
<1> USE DEF IInv, TypeOK, Refuse, row
<1>1. RowOK'
  BY DEF RowOK
<1>2. RequestsOK'
  BY DEF RequestsOK
<1>3. SeenBefore'
  BY DEF SeenBefore
<1>4. RevisionIdentifiesCard' /\ TrashIsComplete'
  BY DEF RevisionIdentifiesCard, TrashIsComplete
<1>5. MatchedLoad'
  BY DEF RequestsOK, MatchedLoad
<1>6. LoadedFlags'
  BY DEF RequestsOK, LoadedFlags
<1> QED BY <1>1, <1>2, <1>3, <1>4, <1>5, <1>6

(* A delete of a contact that is in the trash finds its snapshot there.    *)
LEMMA DeleteIInv == ASSUME IInv, NEW c \in Clients, DeleteContact(c) PROVE IInv'
<1> USE DEF IInv, TypeOK, DeleteContact, captureContactDeletion
<1>1. status # "trashed"
  BY DEF TrashIsComplete
<1>2. RowOK'
  BY DEF RowOK
<1>3. RequestsOK'
  BY DEF RequestsOK
<1>4. SeenBefore'
  BY DEF SeenBefore
<1>5. RevisionIdentifiesCard'
  BY DEF RevisionIdentifiesCard
<1>6. MatchedLoad'
  BY DEF RequestsOK, MatchedLoad
<1>7. LoadedFlags'
  BY DEF RequestsOK, LoadedFlags
<1>8. TrashIsComplete'
  BY <1>1 DEF RowOK, TrashIsComplete
<1> QED BY <1>2, <1>3, <1>4, <1>5, <1>6, <1>7, <1>8

LEMMA RestoreIInv == ASSUME IInv, RestoreContact PROVE IInv'
<1> USE DEF IInv, TypeOK, RestoreContact, trashedContact, restoreRows
<1>1. revision \in Nat /\ revision' = revision + 1 /\ revision' \in Nat
  BY DEF RowOK
<1>2. RowOK'
  BY <1>1 DEF RowOK
<1>3. RequestsOK'
  BY DEF RequestsOK
<1>4. \A d \in Clients : view[d].revision \in Nat /\ loaded[d].revision \in Nat
  BY DEF RequestsOK
<1>5. SeenBefore'
  BY <1>1, <1>4 DEF SeenBefore
<1>6. RevisionIdentifiesCard'
  BY <1>1, <1>4 DEF SeenBefore, RevisionIdentifiesCard
<1>7. MatchedLoad'
  BY DEF MatchedLoad
<1>8. LoadedFlags'
  BY <1>1, <1>4 DEF SeenBefore, LoadedFlags
<1>9. TrashIsComplete'
  BY DEF TrashIsComplete
<1> QED BY <1>2, <1>3, <1>5, <1>6, <1>7, <1>8, <1>9

(* Neither purging nor attaching a photo touches what requests rely on.    *)
LEMMA OtherIInv == ASSUME IInv, PurgeContact \/ AttachPhoto PROVE IInv'
<1> USE DEF IInv, TypeOK, PurgeContact, trashedContact, AttachPhoto
<1>1. RowOK'
  BY DEF RowOK
<1>2. RequestsOK' /\ SeenBefore'
  BY DEF RequestsOK, SeenBefore
<1>3. RevisionIdentifiesCard'
  BY DEF RevisionIdentifiesCard
<1>4. MatchedLoad' /\ LoadedFlags'
  BY DEF MatchedLoad, LoadedFlags
<1>5. TrashIsComplete'
  BY DEF TrashIsComplete
<1> QED BY <1>1, <1>2, <1>3, <1>4, <1>5

LEMMA StutterIInv == IInv /\ UNCHANGED vars => IInv'
BY DEF IInv, vars, row, TypeOK, RowOK, RequestsOK, SeenBefore, RevisionIdentifiesCard,
       MatchedLoad, LoadedFlags, TrashIsComplete

LEMMA NextIInv == IInv /\ [Next]_vars => IInv'
<1> SUFFICES ASSUME IInv, [Next]_vars PROVE IInv'
  OBVIOUS
<1>1. ASSUME NEW c \in Clients, Step(c) PROVE IInv'
  BY <1>1, GetIInv, LoadIInv, SavePutIInv, SaveFlagIInv, DeleteIInv, RefuseIInv DEF Step
<1>2. CASE RestoreContact
  BY <1>2, RestoreIInv
<1>3. CASE PurgeContact \/ AttachPhoto
  BY <1>3, OtherIInv
<1>4. CASE UNCHANGED vars
  BY <1>4, StutterIInv
<1> QED BY <1>1, <1>2, <1>3, <1>4 DEF Next

LEMMA AlwaysIInv == Spec => []IInv
BY InitIInv, NextIInv, PTL DEF Spec

-----------------------------------------------------------------------------
(* The row and the requests keep their types, and no revision is seen      *)
(* before the row reaches it.                                              *)
THEOREM TypeCorrect == Spec => []TypeOK
<1>1. IInv => TypeOK
  BY DEF IInv
<1> QED BY <1>1, AlwaysIInv, PTL

(* A revision (and so an ETag) names one content of the contact, for any   *)
(* number of clients: bumpRevisionCAS and RestoreContact never reuse one.  *)
THEOREM RevisionsIdentifyCards == Spec => []RevisionIdentifiesCard
<1>1. IInv => RevisionIdentifiesCard
  BY DEF IInv
<1> QED BY <1>1, AlwaysIInv, PTL

(* The step of each action that could lose an update.                      *)
LEMMA StepKeeps ==
  ASSUME IInv, NEW c \in Clients, Step(c)
  PROVE  /\ flags \subseteq flags'
         /\ \A d \in Clients :
              pc[d] = "put" /\ match[d] /\ pc'[d] = "idle" => card \subseteq card'
<1>1. CASE Get(c)
  BY <1>1 DEF Get, row
<1>2. ASSUME NEW op \in {"put", "flag", "delete"}, NEW conditional \in BOOLEAN,
             Load(c, op, conditional)
      PROVE  flags' = flags /\ card' = card
  BY <1>2 DEF Load, row
<1>3. CASE SavePut(c)
  <2>1. flags' = flags
    BY <1>3 DEF SavePut, bumpRevisionCAS, IInv, LoadedFlags
  <2>2. \A d \in Clients : pc[d] = "put" /\ pc'[d] = "idle" => d = c
    BY <1>3 DEF SavePut, IInv, TypeOK, RequestsOK
  <2>3. match[c] => view[c].card = card
    BY <1>3 DEF SavePut, bumpRevisionCAS, IInv, MatchedLoad, RevisionIdentifiesCard
  <2>4. card' = view[c].card \cup {c}
    BY <1>3 DEF SavePut
  <2> QED BY <2>1, <2>2, <2>3, <2>4
<1>4. CASE SaveFlag(c)
  BY <1>4 DEF SaveFlag
<1>5. CASE DeleteContact(c)
  BY <1>5 DEF DeleteContact, captureContactDeletion
<1>6. CASE Refuse(c)
  BY <1>6 DEF Refuse, row
<1> QED BY <1>1, <1>2, <1>3, <1>4, <1>5, <1>6 DEF Step

(* No update is lost, for any number of clients: a save only goes through  *)
(* at the revision it was loaded at (bumpRevisionCAS).                     *)
THEOREM UpdatesAreKept == Spec => NoLostUpdate
<1>1. ASSUME IInv, [Next]_vars
      PROVE  [ /\ flags \subseteq flags'
               /\ \A c \in Clients :
                    pc[c] = "put" /\ match[c] /\ pc'[c] = "idle" => card \subseteq card' ]_vars
  <2>1. ASSUME NEW c \in Clients, Step(c)
        PROVE  /\ flags \subseteq flags'
               /\ \A d \in Clients :
                    pc[d] = "put" /\ match[d] /\ pc'[d] = "idle" => card \subseteq card'
    BY <1>1, <2>1, StepKeeps
  <2>2. CASE RestoreContact \/ PurgeContact \/ AttachPhoto
    BY <2>2 DEF RestoreContact, trashedContact, restoreRows, PurgeContact, AttachPhoto
  <2> QED BY <1>1, <2>1, <2>2 DEF Next
<1> QED BY <1>1, AlwaysIInv, PTL DEF Spec, NoLostUpdate

(* Only a complete restore brings a deleted contact back, for any number   *)
(* of requests that loaded it before the delete (issue #920, ADR 0037).    *)
THEOREM DeletedStaysDeleted == Spec => NoResurrection
<1>1. ASSUME IInv, [Next]_vars
      PROVE  [status # "live" /\ status' = "live" => snapshot = "full" /\ children']_vars
  <2>1. ASSUME NEW c \in Clients, Step(c), status # "live" PROVE status' = status
    BY <2>1 DEF Step, Get, Load, SavePut, SaveFlag, bumpRevisionCAS, DeleteContact, Refuse, row
  <2>2. ASSUME RestoreContact PROVE snapshot = "full" /\ children'
    BY <1>1, <2>2 DEF RestoreContact, trashedContact, restoreRows, IInv, TrashIsComplete
  <2>3. CASE PurgeContact \/ AttachPhoto
    BY <2>3 DEF PurgeContact, trashedContact, AttachPhoto
  <2> QED BY <1>1, <2>1, <2>2, <2>3 DEF Next
<1> QED BY <1>1, AlwaysIInv, PTL DEF Spec, NoResurrection

-----------------------------------------------------------------------------
(* RevisionCAS implements Contact.                                         *)
Promised == <<card, flags, status, children, Copies, AskedBy>>

(* A step that leaves the requests alone leaves what they asked.           *)
LEMMA SameRequests ==
  ASSUME UNCHANGED <<pc, match>>
  PROVE  AskedBy' = AskedBy
BY DEF AskedBy, Asked

(* A request that is over asks nothing, and the others ask what they did.  *)
LEMMA FinishAsked ==
  ASSUME IInv, NEW c \in Clients, Finish(c), match' = match
  PROVE  AskedBy' = [AskedBy EXCEPT ![c] = "idle"]
<1>1. pc'[c] = "idle" /\ \A d \in Clients : d # c => pc'[d] = pc[d]
  BY DEF IInv, TypeOK, RequestsOK
<1>2. \A d \in Clients : AskedBy'[d] = IF d = c THEN "idle" ELSE AskedBy[d]
  BY <1>1 DEF AskedBy, Asked
<1> QED BY <1>2 DEF AskedBy

LEMMA LoadAsks ==
  ASSUME IInv, NEW c \in Clients, NEW op \in {"put", "flag", "delete"},
         NEW conditional \in BOOLEAN, Load(c, op, conditional)
  PROVE  \E request \in {"edit", "replace", "flag", "delete"} :
           AskedBy' = [AskedBy EXCEPT ![c] = request]
<1> DEFINE request == IF op = "put" THEN (IF conditional THEN "edit" ELSE "replace") ELSE op
<1>1. /\ pc'[c] = op /\ match'[c] = conditional
      /\ \A d \in Clients : d # c => pc'[d] = pc[d] /\ match'[d] = match[d]
  BY DEF Load, IInv, TypeOK, RequestsOK
<1>2. \A d \in Clients : AskedBy'[d] = IF d = c THEN request ELSE AskedBy[d]
  BY <1>1 DEF AskedBy, Asked
<1>3. AskedBy' = [AskedBy EXCEPT ![c] = request]
  BY <1>2 DEF AskedBy
<1> QED BY <1>3

LEMMA GetFetches ==
  ASSUME IInv, NEW c \in Clients, Get(c)
  PROVE  Handlers!Fetch(c)
<1>1. Copies' = [Copies EXCEPT ![c] = card]
  <2>1. \A d \in Clients : view'[d] = IF d = c THEN [revision |-> revision, card |-> card] ELSE view[d]
    BY DEF Get, IInv, TypeOK, RequestsOK
  <2>2. [revision |-> revision, card |-> card].card = card
    OBVIOUS
  <2>3. \A d \in Clients : Copies'[d] = IF d = c THEN card ELSE Copies[d]
    BY <2>1, <2>2 DEF Copies
  <2> QED BY <2>3 DEF Copies
<1>2. AskedBy' = AskedBy /\ AskedBy[c] = "idle"
  BY SameRequests DEF Get, AskedBy, Asked
<1> QED BY <1>1, <1>2 DEF Get, Handlers!Fetch, row

(* What a conditional PUT replaces is what its client has a copy of: the   *)
(* row is at the loaded revision, which is the copy's.                     *)
LEMMA SavePutPuts ==
  ASSUME IInv, NEW c \in Clients, SavePut(c)
  PROVE  Handlers!Put(c)
<1> USE DEF bumpRevisionCAS
<1>1. AskedBy' = [AskedBy EXCEPT ![c] = "idle"]
  BY FinishAsked DEF SavePut
<1>2. Copies[c] = view[c].card
  BY DEF Copies
<1>3. AskedBy[c] = "replace" \/ (AskedBy[c] = "edit" /\ Copies[c] = card)
  <2>1. AskedBy[c] = IF match[c] THEN "edit" ELSE "replace"
    BY DEF SavePut, AskedBy, Asked
  <2>2. match[c] => view[c].revision = revision
    BY DEF SavePut, IInv, MatchedLoad
  <2> QED BY <1>2, <2>1, <2>2 DEF IInv, RevisionIdentifiesCard
<1>4. flags' = flags
  BY DEF SavePut, IInv, LoadedFlags
<1>5. Copies' \in {Copies, [Copies EXCEPT ![c] = card']}
  <2>1. CASE view' = view
    BY <2>1 DEF Copies
  <2>2. CASE view' = [view EXCEPT ![c] = [revision |-> revision', card |-> card']]
    <3>1. \A d \in Clients : view'[d] = IF d = c THEN [revision |-> revision', card |-> card'] ELSE view[d]
      BY <2>2 DEF IInv, TypeOK, RequestsOK
    <3>2. [revision |-> revision', card |-> card'].card = card'
      OBVIOUS
    <3>3. \A d \in Clients : Copies'[d] = IF d = c THEN card' ELSE Copies[d]
      BY <3>1, <3>2 DEF Copies
    <3> QED BY <3>3 DEF Copies
  <2> QED BY <2>1, <2>2 DEF SavePut
<1>6. status = "live" /\ card' = Copies[c] \cup {c} /\ UNCHANGED <<status, children>>
  BY <1>2 DEF SavePut
<1> QED BY <1>1, <1>3, <1>4, <1>5, <1>6 DEF Handlers!Put, Handlers!Finish

LEMMA SaveFlagFlags ==
  ASSUME IInv, NEW c \in Clients, SaveFlag(c)
  PROVE  Handlers!Flag(c)
<1>1. AskedBy[c] = "flag" /\ AskedBy' = [AskedBy EXCEPT ![c] = "idle"] /\ Copies' = Copies
  BY FinishAsked DEF SaveFlag, AskedBy, Asked, Copies
<1> QED BY <1>1 DEF SaveFlag, bumpRevisionCAS, Handlers!Flag, Handlers!Finish

LEMMA RefuseDrops ==
  ASSUME IInv, NEW c \in Clients, Refuse(c)
  PROVE  Handlers!Drop(c)
<1>1. AskedBy[c] # "idle" /\ AskedBy' = [AskedBy EXCEPT ![c] = "idle"] /\ Copies' = Copies
  BY FinishAsked DEF Refuse, AskedBy, Asked, Copies, IInv, TypeOK, RequestsOK
<1> QED BY <1>1 DEF Refuse, row, Handlers!Drop, Handlers!Finish

(* A delete that comes after the purge takes nothing.                      *)
LEMMA DeleteDeletes ==
  ASSUME IInv, NEW c \in Clients, DeleteContact(c)
  PROVE  Handlers!Delete(c) \/ Handlers!Drop(c)
<1>1. AskedBy[c] = "delete" /\ AskedBy' = [AskedBy EXCEPT ![c] = "idle"] /\ Copies' = Copies
  BY FinishAsked DEF DeleteContact, AskedBy, Asked, Copies
<1>2. children \in BOOLEAN /\ (status # "live" => ~children)
  BY DEF IInv, TypeOK, RowOK, TrashIsComplete
<1>3. CASE status = "live"
  BY <1>1, <1>3 DEF DeleteContact, Handlers!Delete, Handlers!Finish
<1>4. CASE status # "live"
  <2>1. children' = children /\ UNCHANGED <<card, flags, status>>
    BY <1>2, <1>4 DEF DeleteContact
  <2> QED BY <1>1, <2>1 DEF Handlers!Drop, Handlers!Finish
<1> QED BY <1>3, <1>4

LEMMA TrashSteps ==
  ASSUME IInv
  PROVE  /\ RestoreContact => Handlers!Restore
         /\ PurgeContact => Handlers!Purge
         /\ AttachPhoto => UNCHANGED Promised
<1>1. ASSUME UNCHANGED <<pc, match, view>> PROVE AskedBy' = AskedBy /\ Copies' = Copies
  BY <1>1, SameRequests DEF Copies
<1>2. ASSUME RestoreContact PROVE Handlers!Restore
  BY <1>1, <1>2 DEF RestoreContact, trashedContact, restoreRows, IInv, TrashIsComplete, Handlers!Restore
<1>3. ASSUME PurgeContact PROVE Handlers!Purge
  BY <1>1, <1>3 DEF PurgeContact, trashedContact, Handlers!Purge
<1>4. ASSUME AttachPhoto PROVE UNCHANGED Promised
  BY <1>1, <1>4 DEF AttachPhoto, Promised
<1> QED BY <1>2, <1>3, <1>4

(* Though a handler loads in one transaction and saves in another, every   *)
(* request is one step on the contact as it is when the request commits,   *)
(* for any number of clients: a client sees the specification Contact.     *)
THEOREM HandlersAreAtomic == Spec => ImplementsContact
<1>1. Init => Handlers!Init
  <2> SUFFICES ASSUME Init PROVE Handlers!Init
    OBVIOUS
  <2>1. Copies = [c \in Clients |-> {}]
    BY DEF Init, Copies
  <2>2. AskedBy = [c \in Clients |-> "idle"]
    BY DEF Init, AskedBy, Asked
  <2> QED BY <2>1, <2>2 DEF Init, Handlers!Init, Copies, AskedBy
<1>2. ASSUME IInv, [Next]_vars PROVE [Handlers!Next]_(Handlers!vars)
  <2>1. ASSUME NEW c \in Clients, Step(c) PROVE Handlers!Next
    <3>1. ASSUME NEW op \in {"put", "flag", "delete"}, NEW conditional \in BOOLEAN, Load(c, op, conditional)
          PROVE  \E request \in {"edit", "replace", "flag", "delete"} : Handlers!Ask(c, request)
      <4>1. PICK request \in {"edit", "replace", "flag", "delete"} :
              AskedBy' = [AskedBy EXCEPT ![c] = request]
        BY <1>2, <3>1, LoadAsks
      <4>2. AskedBy[c] = "idle" /\ Copies' = Copies
        BY <3>1 DEF Load, AskedBy, Asked, Copies
      <4> QED BY <3>1, <4>1, <4>2 DEF Load, row, Handlers!Ask
    <3> QED BY <1>2, <2>1, <3>1, GetFetches, SavePutPuts, SaveFlagFlags, DeleteDeletes, RefuseDrops
        DEF Step, Handlers!Next
  <2>2. CASE RestoreContact \/ PurgeContact
    BY <1>2, <2>2, TrashSteps DEF Handlers!Next
  <2>3. CASE AttachPhoto
    BY <1>2, <2>3, TrashSteps DEF Promised, Handlers!vars
  <2>4. CASE UNCHANGED vars
    <3>1. AskedBy' = AskedBy /\ Copies' = Copies
      BY <2>4, SameRequests DEF vars, Copies
    <3> QED BY <2>4, <3>1 DEF vars, row, Handlers!vars
  <2> QED BY <1>2, <2>1, <2>2, <2>3, <2>4 DEF Next
<1> QED BY <1>1, <1>2, AlwaysIInv, PTL DEF Spec, ImplementsContact, Handlers!Spec
=============================================================================
