------------------------------ MODULE Tracking ------------------------------
(***************************************************************************)
(* The Android client's call and SMS tracking: what is read from the phone *)
(* (SmsReceiver, SmsInboxReconciliationWorker, CallLogSyncWorker), staged  *)
(* in the pending_interactions outbox, sent by PendingInteractionFlusher   *)
(* and wiped when DefaultSessionManager ends or switches the session.      *)
(*                                                                         *)
(* An entry of the call log or the SMS inbox is its position there, which  *)
(* stands for its DATE or its _id.  The server is what it promises for a   *)
(* key: at most one activity (module Idempotency).  An account is a profile*)
(* and the user logged in there; None is nobody.  Both tracking settings   *)
(* are on.  The process may be killed between any two steps.               *)
(***************************************************************************)
EXTENDS Integers, FiniteSets

CONSTANTS
  Accounts, None,
  Receivers, InboxWorkers, CallWorkers,   \* instances that may run at once
  ReadLimit,                              \* PAGE_SIZE, and the limit of CallLogReader
  Cap,                                    \* OUTBOX_UNSYNCED_CAP
  MaxEntries, MaxRows                     \* bounds: entries of a log, rows recorded

ASSUME TrackingAssumption ==
  /\ None \notin Accounts
  /\ Receivers \cap (InboxWorkers \cup CallWorkers) = {} /\ InboxWorkers \cap CallWorkers = {}
  /\ ReadLimit \in Nat \ {0} /\ Cap \in Nat \ {0} /\ MaxEntries \in Nat /\ MaxRows \in Nat

Workers == InboxWorkers \cup CallWorkers
Captures == Receivers \cup Workers
Kinds == {"call", "message"}
Kind(p) == IF p \in CallWorkers THEN "call" ELSE "message"
Entries == 1..MaxEntries
Rows == [id : 1..MaxRows, kind : Kinds, at : Entries, by : Accounts \cup {None}]

VARIABLES
  log,       \* entries of the call log and of the inbox
  mark,      \* last_call_log_timestamp and last_sms_inbox_id
  rows,      \* pending_interactions: the unsynced rows
  synced,    \* ... and the ids with synced = 1
  lastId,    \* the last row id given
  pc, since, page, item, finder,  \* captures: where they are and what they hold
  gate,      \* who holds the SessionTransitionGate, and how far it has come
  todo,      \* the rows the flush has still to send
  account,   \* the active account
  sent,      \* history: activities on the server
  handled,   \* history: messages staged or filtered
  passed,    \* history: messages a broadcast moved the cursor to
  heard,     \* history: messages that were broadcast
  strays,    \* history: rows that no transition will wipe for their account
  counted    \* history: the last row there was when a switch counted none

device == <<log, mark, heard>>
outbox == <<rows, synced, lastId>>
capture == <<pc, since, page, item, finder>>
session == <<gate, todo, account>>
ghosts == <<sent, handled, passed, strays, counted>>
vars == <<device, outbox, capture, session, ghosts>>

Init ==
  /\ log = [k \in Kinds |-> 0] /\ mark = [k \in Kinds |-> 0]
  /\ rows = {} /\ synced = {} /\ lastId = 0
  /\ pc = [p \in Captures |-> "idle"]
  /\ since = [w \in Workers |-> 0] /\ page = [w \in Workers |-> {}]
  /\ item = [p \in Captures |-> 0] /\ finder = [p \in Captures |-> None]
  /\ gate = "free" /\ todo = {} /\ account \in Accounts
  /\ sent = {} /\ handled = {} /\ passed = {} /\ heard = {}
  /\ strays = {} /\ counted = 0

-----------------------------------------------------------------------------
(* The phone: a call or a message is added to its log, and the broadcast of*)
(* a message, if it arrives, starts a receiver.                            *)
Land(k) ==
  /\ log[k] < MaxEntries
  /\ log' = [log EXCEPT ![k] = @ + 1]
  /\ UNCHANGED <<mark, heard, outbox, capture, session, ghosts>>

onReceive(r) ==
  /\ pc[r] = "idle"
  /\ \E m \in Entries \ heard :
       heard' = heard \cup {m} /\ item' = [item EXCEPT ![r] = m]
  /\ pc' = [pc EXCEPT ![r] = "lookup"]
  /\ UNCHANGED <<log, mark, outbox, since, page, finder, session, ghosts>>

-----------------------------------------------------------------------------
(* Workers.                                                                *)
(* The oldest entries above the cursor, or the newest calls above the      *)
(* watermark.                                                              *)
Oldest(S) == {e \in S : Cardinality({x \in S : x < e}) < ReadLimit}
Newest(S) == {e \in S : Cardinality({x \in S : x > e}) < ReadLimit}
readSince(k, c) ==
  LET new == {e \in Entries : c < e /\ e <= log[k]} IN
  IF k = "call" THEN Newest(new) ELSE Oldest(new)

ReadPage(w, c) ==
  /\ readSince(Kind(w), c) # {}
  /\ page' = [page EXCEPT ![w] = readSince(Kind(w), c)]
  /\ since' = [since EXCEPT ![w] = c]
  /\ pc' = [pc EXCEPT ![w] = "next"]

(* A mutation of doWork: the cursor is moved before the page is captured.  *)
doWorkAdvancing(w) ==
  /\ pc[w] = "idle"
  /\ ReadPage(w, mark[Kind(w)])
  /\ mark' = [mark EXCEPT ![Kind(w)] = CHOOSE e \in page'[w] : \A x \in page'[w] : x <= e]
  /\ UNCHANGED <<log, heard, outbox, item, finder, session, ghosts>>

doWork(w) ==
  /\ pc[w] = "idle"
  /\ ReadPage(w, mark[Kind(w)])
  /\ UNCHANGED <<device, outbox, item, finder, session, ghosts>>

(* The next entry of what was read.                                        *)
NextEntry(w) ==
  /\ pc[w] = "next"
  /\ \E e \in page[w] :
       /\ IF w \in CallWorkers THEN \A x \in page[w] : x <= e ELSE \A x \in page[w] : x >= e
       /\ item' = [item EXCEPT ![w] = e]
       /\ page' = [page EXCEPT ![w] = @ \ {e}]
       /\ since' = [since EXCEPT ![w] = IF e > @ THEN e ELSE @]
  /\ pc' = [pc EXCEPT ![w] = "lookup"]
  /\ UNCHANGED <<device, outbox, finder, session, ghosts>>

-----------------------------------------------------------------------------
(* InteractionCapture.capture: the number is looked up among the contacts  *)
(* cached for the active account.  An unknown number is dropped, unless the*)
(* user wants it staged as well.                                           *)
AfterCapture(p) ==
  IF p \in Receivers THEN "find" ELSE IF page[p] = {} THEN "advance" ELSE "next"

Handled(p) == IF Kind(p) = "message" THEN handled \cup {item[p]} ELSE handled

FindByPhone(p) ==
  /\ pc[p] = "lookup"
  /\ pc' = [pc EXCEPT ![p] = "record"]
  /\ finder' = [finder EXCEPT ![p] = account]
  /\ UNCHANGED <<device, outbox, since, page, item, session, ghosts>>

Filter(p) ==
  /\ pc[p] = "lookup"
  /\ pc' = [pc EXCEPT ![p] = AfterCapture(p)]
  /\ handled' = Handled(p)
  /\ UNCHANGED <<device, outbox, since, page, item, finder, session, sent, passed, strays, counted>>

(* A row is inserted and, in the same transaction, the unsynced rows past  *)
(* the cap are evicted, oldest first.                                      *)
Older(a, b) == a.at < b.at \/ (a.at = b.at /\ a.id < b.id)
trimUnsynced(S) == {x \in S : Cardinality({y \in S : Older(x, y)}) < Cap}

Staged(p) == [id |-> lastId + 1, kind |-> Kind(p), at |-> item[p], by |-> finder[p]]

(* recordIfNew looks at every row of the table that was not deleted yet.   *)
IsStaged(p) == \E x \in rows : x.kind = Kind(p) /\ x.at = item[p]

Insert(p) ==
  /\ lastId < MaxRows
  /\ lastId' = lastId + 1
  /\ rows' = {x \in rows : x.id \in synced}
             \cup trimUnsynced({x \in rows : x.id \notin synced} \cup {Staged(p)})
  /\ strays' = IF gate = "swap" \/ finder[p] # account THEN strays \cup {lastId + 1} ELSE strays

Record(p) ==
  /\ pc[p] = "record"
  /\ IF p \in Workers /\ IsStaged(p) THEN UNCHANGED <<rows, lastId, strays>> ELSE Insert(p)
  /\ pc' = [pc EXCEPT ![p] = AfterCapture(p)]
  /\ finder' = [finder EXCEPT ![p] = None]
  /\ handled' = Handled(p)
  /\ UNCHANGED <<device, synced, since, page, item, session, sent, passed, counted>>

(* The receiver moves the cursor to the message's _id, if the row has      *)
(* landed and may be read.                                                 *)
Higher(a, b) == IF a > b THEN a ELSE b

FindInboxId(r) ==
  /\ pc[r] = "find"
  /\ \/ /\ item[r] <= log["message"]
        /\ mark' = [mark EXCEPT !["message"] = Higher(@, item[r])]
        /\ passed' = passed \cup {item[r]}
     \/ UNCHANGED <<mark, passed>>
  /\ pc' = [pc EXCEPT ![r] = "idle"] /\ item' = [item EXCEPT ![r] = 0]
  /\ UNCHANGED <<log, heard, outbox, since, page, finder, session, sent, handled, strays, counted>>

(* The inbox cursor only moves up, and the next page is read; the watermark*)
(* of the call log is set, and the run is over.                            *)
AdvanceLastSmsInboxId(w) ==
  /\ w \in InboxWorkers /\ pc[w] = "advance"
  /\ mark' = [mark EXCEPT !["message"] = Higher(@, since[w])]
  /\ item' = [item EXCEPT ![w] = 0]
  /\ \/ ReadPage(w, since[w])
     \/ /\ pc' = [pc EXCEPT ![w] = "idle"]
        /\ since' = [since EXCEPT ![w] = 0] /\ UNCHANGED page
  /\ UNCHANGED <<log, heard, outbox, finder, session, ghosts>>

SetLastCallLogTimestamp(w) ==
  /\ w \in CallWorkers /\ pc[w] = "advance"
  /\ mark' = [mark EXCEPT !["call"] = since[w]]
  /\ pc' = [pc EXCEPT ![w] = "idle"] /\ since' = [since EXCEPT ![w] = 0]
  /\ item' = [item EXCEPT ![w] = 0]
  /\ UNCHANGED <<log, heard, outbox, page, finder, session, ghosts>>

(* The receiver's time is up, or WorkManager stops the worker.             *)
Forget(S) ==
  /\ pc' = [p \in Captures |-> IF p \in S THEN "idle" ELSE pc[p]]
  /\ since' = [w \in Workers |-> IF w \in S THEN 0 ELSE since[w]]
  /\ page' = [w \in Workers |-> IF w \in S THEN {} ELSE page[w]]
  /\ item' = [p \in Captures |-> IF p \in S THEN 0 ELSE item[p]]
  /\ finder' = [p \in Captures |-> IF p \in S THEN None ELSE finder[p]]

Stop(p) ==
  /\ pc[p] # "idle"
  /\ Forget({p})
  /\ UNCHANGED <<device, outbox, session, ghosts>>

-----------------------------------------------------------------------------
(* PendingInteractionFlusher.                                              *)
Unsynced == {x \in rows : x.id \notin synced}

Flush ==
  /\ gate = "free" /\ Unsynced # {}
  /\ gate' = "flush" /\ todo' = Unsynced
  /\ UNCHANGED <<device, outbox, capture, account, ghosts>>

(* The request of a row, or the second one without a contact the server no *)
(* longer has.  The answer may be lost.                                    *)
Sent(x) ==
  IF \E s \in sent : s.id = x.id /\ s.as = account THEN sent
  ELSE sent \cup {[id |-> x.id, as |-> account, by |-> x.by]}

markSynced(x) == synced' = IF \E y \in rows : y.id = x.id THEN synced \cup {x.id} ELSE synced

Send(x) ==
  /\ account # None
  /\ sent' = Sent(x)
  /\ markSynced(x) \/ UNCHANGED synced

(* A mutation of SendFails: the row is marked whatever the answer was.     *)
SendFailsMarked(x) == markSynced(x) /\ UNCHANGED sent

SendFails(x) == UNCHANGED <<synced, sent>>

SyncInteraction ==
  /\ gate \in {"flush", "drain"}
  /\ \E x \in todo :
       /\ todo' = todo \ {x}
       /\ Send(x) \/ SendFails(x)
  /\ UNCHANGED <<device, rows, lastId, capture, gate, account, handled, passed,
                 strays, counted>>

DeleteSynced ==
  /\ gate \in {"flush", "drain"} /\ todo = {}
  /\ rows' = Unsynced /\ synced' = {}
  /\ gate' = IF gate = "flush" THEN "free" ELSE "drained"
  /\ UNCHANGED <<device, lastId, capture, todo, account, ghosts>>

-----------------------------------------------------------------------------
(* DefaultSessionManager.switchProfile: count, drain, count, wipe, swap.   *)
SwitchProfile ==
  /\ gate = "free" /\ account # None
  /\ IF Unsynced = {} THEN gate' = "counted" /\ counted' = lastId /\ UNCHANGED todo
     ELSE gate' = "drain" /\ todo' = Unsynced /\ UNCHANGED counted
  /\ UNCHANGED <<device, outbox, capture, account, sent, handled, passed, strays>>

(* A mutation of CountRemaining: the drain is trusted.                     *)
TrustDrain ==
  /\ gate = "drained"
  /\ gate' = "counted" /\ counted' = lastId
  /\ UNCHANGED <<device, outbox, capture, todo, account, sent, handled, passed, strays>>

(* What remains is named in a confirmation, unless the user has agreed to  *)
(* discard it.                                                             *)
CountRemaining ==
  /\ gate = "drained"
  /\ \/ Unsynced = {} /\ gate' = "counted" /\ counted' = lastId
     \/ Unsynced # {} /\ gate' \in {"free", "counted"} /\ UNCHANGED counted
  /\ UNCHANGED <<device, outbox, capture, todo, account, sent, handled, passed, strays>>

(* clearSession, removeProfile: the token is dropped, and the profile that *)
(* becomes active is stored, before everything is wiped.                   *)
EndSession ==
  /\ gate = "free" /\ account # None
  /\ gate' = "end" /\ account' = None
  /\ UNCHANGED <<device, outbox, capture, todo, ghosts>>

(* A mutation of Clear: the outbox is kept.                                *)
ClearKeepsOutbox ==
  /\ gate \in {"counted", "end"}
  /\ gate' = "swap" /\ counted' = 0
  /\ UNCHANGED <<device, outbox, capture, todo, account, sent, handled, passed, strays>>

(* LocalDataCleaner.clear, under both.                                     *)
Clear ==
  /\ gate \in {"counted", "end"}
  /\ gate' = "swap" /\ counted' = 0
  /\ rows' = {} /\ synced' = {}
  /\ UNCHANGED <<device, lastId, capture, todo, account, sent, handled, passed, strays>>

(* The next account: nobody after the end of a session, or when the profile*)
(* that is switched to has no token.                                       *)
Swap ==
  /\ gate = "swap"
  /\ gate' = "free"
  /\ account' \in Accounts \cup {None} /\ (account # None => account' # account)
  /\ UNCHANGED <<device, outbox, capture, todo, ghosts>>

(* setSession: somebody logs in.                                           *)
SetSession ==
  /\ account = None /\ gate \in {"free", "flush"}
  /\ account' \in Accounts
  /\ UNCHANGED <<device, outbox, capture, gate, todo, ghosts>>

(* The process is killed and started again.  What a transition has stored  *)
(* stays: a session that had ended is not wiped any more.                  *)
Die ==
  /\ gate # "free" \/ \E p \in Captures : pc[p] # "idle"
  /\ Forget(Captures)
  /\ gate' = "free" /\ todo' = {} /\ counted' = 0
  /\ IF gate = "end"
     THEN account' \in Accounts \cup {None} /\ strays' = strays \cup {x.id : x \in rows}
     ELSE UNCHANGED <<account, strays>>
  /\ UNCHANGED <<device, outbox, sent, handled, passed>>

-----------------------------------------------------------------------------
Capture(p) == FindByPhone(p) \/ Filter(p) \/ Record(p) \/ Stop(p)
Receive(r) == onReceive(r) \/ FindInboxId(r)
Work(w) ==
  \/ doWork(w) \/ NextEntry(w)
  \/ AdvanceLastSmsInboxId(w) \/ SetLastCallLogTimestamp(w)
Flusher == Flush \/ SyncInteraction \/ DeleteSynced
Session ==
  SwitchProfile \/ CountRemaining \/ EndSession \/ Clear \/ Swap \/ SetSession \/ Die

Next ==
  \/ \E k \in Kinds : Land(k)
  \/ \E p \in Captures : Capture(p)
  \/ \E r \in Receivers : Receive(r)
  \/ \E w \in Workers : Work(w)
  \/ Flusher \/ Session

Spec == Init /\ [][Next]_vars

-----------------------------------------------------------------------------
DeviceOK ==
  /\ log \in [Kinds -> 0..MaxEntries] /\ mark \in [Kinds -> 0..MaxEntries]
  /\ heard \subseteq Entries

OutboxOK ==
  /\ rows \subseteq Rows /\ lastId \in 0..MaxRows
  /\ synced \subseteq {x.id : x \in rows} /\ \A x \in rows : x.id <= lastId

CaptureOK ==
  /\ pc \in [Captures -> {"idle", "next", "lookup", "record", "find", "advance"}]
  /\ since \in [Workers -> 0..MaxEntries] /\ page \in [Workers -> SUBSET Entries]
  /\ item \in [Captures -> 0..MaxEntries] /\ finder \in [Captures -> Accounts \cup {None}]
  /\ \A p \in Captures : pc[p] \in {"lookup", "record", "find"} => item[p] \in Entries

SessionOK ==
  /\ gate \in {"free", "flush", "drain", "drained", "counted", "end", "swap"}
  /\ todo \subseteq Rows /\ account \in Accounts \cup {None}

HistoryOK ==
  /\ sent \subseteq [id : 1..MaxRows, as : Accounts, by : Accounts \cup {None}]
  /\ handled \subseteq Entries /\ passed \subseteq Entries
  /\ strays \subseteq 1..MaxRows /\ counted \in 0..lastId

TypeOK == DeviceOK /\ OutboxOK /\ CaptureOK /\ SessionOK /\ HistoryOK

(* What was captured for one account is sent as that account or not at    *)
(* all, whatever flushes, switches, logouts and logins meet (issue #2065). *)
(* Not covered: what is captured while nobody is logged in or across the   *)
(* wipe of a switch, and what a logout that was killed leaves behind.      *)
SentByOwner ==
  \A s \in sent : s.by \in {None, s.as} \/ s.id \in strays

(* A switch that has asked for no confirmation loses nothing that was in   *)
(* the outbox when it counted what remains (ADR 0028 decision 1).          *)
SwitchLosesNothingCounted ==
  [][ gate = "counted" /\ gate' = "swap" => \A x \in Unsynced : x.id > counted ]_vars

(* The cursor of the inbox does not pass a message nothing has captured,   *)
(* except behind a later one whose broadcast has moved it (issue #1127).   *)
CursorBehindCapture ==
  \A m \in 1..mark["message"] : m \in handled \/ \E b \in passed : b > m

(* However the workers overlap, stop and start again, no entry one of them *)
(* has staged is staged again while it waits in the outbox (issue #721).   *)
StagedOnce ==
  \A x, y \in rows : x.kind = "call" /\ y.kind = "call" /\ x.at = y.at => x = y

(* A row leaves the outbox when the server has it, in the wipe of a        *)
(* session, or for want of room, when the cap is full of newer rows: not   *)
(* because it failed, or came in, while a flush was clearing what it sent  *)
(* (deleteSynced, trimUnsynced).                                           *)
OnlySentLeave ==
  [][\A x \in rows \ rows' :
       \/ \E s \in sent : s.id = x.id
       \/ gate \in {"counted", "end"} /\ gate' = "swap"
       \/ Cardinality({y \in rows \cup rows' : y.id \notin synced /\ Older(x, y)}) >= Cap]_vars

(* However long nothing can be sent, the outbox keeps to its cap.          *)
OutboxIsCapped == Cardinality(Unsynced) <= Cap

(* PendingInteractionFlusher.kt:45: "rows are only ever sent as the profile*)
(* that recorded them".                                                    *)
SentAsRecorded ==
  \A s \in sent : s.by \in {None, s.as}

(* SmsInboxReconciliationWorker.kt:17: "the recovery path for a missed     *)
(* SMS_RECEIVED broadcast": the cursor passes no message that was missed.  *)
MissedAreRecovered == \A m \in 1..mark["message"] : m \in handled
=============================================================================
