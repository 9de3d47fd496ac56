--------------------------- MODULE TrackingProofs ---------------------------
(***************************************************************************)
(* Proofs about Tracking, for any accounts, any number of receivers and    *)
(* workers at once, any page size, cap and length of the phone's logs.     *)
(***************************************************************************)
EXTENDS Tracking, FiniteSetTheorems, TLAPS

(* Rows belong to the account that is active, or no wipe will come for     *)
(* them; only the rows of a session that has ended wait for theirs.        *)
Owned(x) == x.by \in {None, account} \/ x.id \in strays

OwnerInv ==
  /\ gate = "swap" => \A x \in rows : x.id \in strays
  /\ gate \notin {"end", "swap"} => \A x \in rows : Owned(x)
  /\ todo # {} => gate \in {"flush", "drain"}
  /\ \A x \in todo : Owned(x)

(* What a switch has counted stays all there is up to that row.            *)
CountInv ==
  /\ gate # "counted" => counted = 0
  /\ gate = "counted" => \A x \in Unsynced : x.id > counted

(* Everything up to an inbox worker's cursor is captured, or passed by a   *)
(* broadcast, or what the worker is capturing; and its page leaves out no  *)
(* message between its entries.                                            *)
Covered(m) == m \in handled \/ \E b \in passed : b > m

PageInv ==
  /\ \A r \in Receivers : pc[r] = "find" => item[r] \in handled
  /\ \A w \in InboxWorkers :
       /\ \A m \in 1..since[w] : Covered(m) \/ (m = item[w] /\ pc[w] \in {"lookup", "record"})
       /\ \A e \in page[w], m \in Entries : since[w] < m /\ m < e => m \in page[w]
       /\ pc[w] = "advance" => page[w] = {}

IInv == TypeOK /\ OwnerInv /\ SentByOwner /\ CountInv /\ PageInv /\ CursorBehindCapture /\ StagedOnce

-----------------------------------------------------------------------------
(* Who touches what.                                                       *)
LEMMA CaptureSteps ==
  ASSUME [Next]_vars, ~Die,
         \A p \in Captures : ~Capture(p), \A r \in Receivers : ~Receive(r),
         \A w \in Workers : ~Work(w)
  PROVE  UNCHANGED <<capture, mark, heard, handled, passed>>
<1>1. ASSUME NEW k \in Kinds, Land(k) PROVE UNCHANGED <<capture, mark, heard, handled, passed>>
  BY <1>1 DEF Land, ghosts
<1>2. CASE Flusher
  BY <1>2 DEF Flusher, Flush, SyncInteraction, DeleteSynced, ghosts, device
<1>3. CASE Session
  BY <1>3 DEF Session, SwitchProfile, CountRemaining, EndSession, Clear, Swap, SetSession,
     ghosts, device
<1>4. CASE UNCHANGED vars
  BY <1>4 DEF vars, ghosts, device
<1> QED BY <1>1, <1>2, <1>3, <1>4 DEF Next

LEMMA SessionSteps ==
  ASSUME [Next]_vars, ~Flusher, ~Session
  PROVE  UNCHANGED <<session, synced, sent, counted>>
<1>1. ASSUME NEW p \in Captures, Capture(p) PROVE UNCHANGED <<session, synced, sent, counted>>
  BY <1>1 DEF Capture, FindByPhone, Filter, Record, Stop, outbox, ghosts
<1>2. ASSUME NEW r \in Receivers, Receive(r) PROVE UNCHANGED <<session, synced, sent, counted>>
  BY <1>2 DEF Receive, onReceive, FindInboxId, outbox, ghosts
<1>3. ASSUME NEW w \in Workers, Work(w) PROVE UNCHANGED <<session, synced, sent, counted>>
  BY <1>3 DEF Work, doWork, NextEntry, AdvanceLastSmsInboxId, SetLastCallLogTimestamp, outbox, ghosts
<1>4. CASE (\E k \in Kinds : Land(k)) \/ UNCHANGED vars
  BY <1>4 DEF Land, vars, outbox, ghosts
<1> QED BY <1>1, <1>2, <1>3, <1>4 DEF Next

(* Only a capture that records adds a row.                                 *)
LEMMA RowSteps ==
  ASSUME [Next]_vars
  PROVE  \/ rows' \subseteq rows /\ UNCHANGED lastId /\ strays \subseteq strays'
         \/ \E p \in Captures : Record(p) /\ Insert(p)
<1>1. ASSUME NEW p \in Captures, Capture(p)
      PROVE  (UNCHANGED <<rows, lastId>> /\ strays \subseteq strays') \/ (Record(p) /\ Insert(p))
  BY <1>1 DEF Capture, FindByPhone, Filter, Record, Stop, outbox, ghosts
<1>2. ASSUME NEW r \in Receivers, Receive(r) PROVE UNCHANGED <<rows, lastId, strays>>
  BY <1>2 DEF Receive, onReceive, FindInboxId, outbox, ghosts
<1>3. ASSUME NEW w \in Workers, Work(w) PROVE UNCHANGED <<rows, lastId, strays>>
  BY <1>3 DEF Work, doWork, NextEntry, AdvanceLastSmsInboxId, SetLastCallLogTimestamp, outbox, ghosts
<1>4. CASE (\E k \in Kinds : Land(k)) \/ UNCHANGED vars
  BY <1>4 DEF Land, vars, outbox, ghosts
<1>5. CASE Flusher
  BY <1>5 DEF Flusher, Flush, SyncInteraction, DeleteSynced, Unsynced, outbox, ghosts
<1>6. CASE Session
  BY <1>6 DEF Session, SwitchProfile, CountRemaining, EndSession, Clear, Swap, SetSession, Die,
     outbox, ghosts
<1> QED BY <1>1, <1>2, <1>3, <1>4, <1>5, <1>6 DEF Next

(* What an insert leaves and adds.                                         *)
LEMMA Inserted ==
  ASSUME NEW p \in Captures, Insert(p)
  PROVE  /\ lastId' = lastId + 1
         /\ rows' \subseteq rows \cup {Staged(p)}
         /\ {x \in rows : x.id \in synced} \subseteq rows'
         /\ strays \subseteq strays'
         /\ (gate = "swap" \/ finder[p] # account) => lastId + 1 \in strays'
BY DEF Insert, trimUnsynced

LEMMA StagedRow ==
  ASSUME TypeOK, NEW p \in Captures, Record(p), Insert(p)
  PROVE  Staged(p) \in Rows /\ Staged(p).id = lastId + 1 /\ Staged(p).by = finder[p]
<1>1. lastId + 1 \in 1..MaxRows
  BY TrackingAssumption DEF Insert, TypeOK, OutboxOK
<1>2. item[p] \in Entries /\ finder[p] \in Accounts \cup {None}
  BY DEF Record, TypeOK, CaptureOK
<1>3. Kind(p) \in Kinds
  BY DEF Kind, Kinds
<1> QED BY <1>1, <1>2, <1>3 DEF Staged, Rows

-----------------------------------------------------------------------------
(* Types.                                                                  *)
LEMMA Pages ==
  ASSUME NEW k, NEW c
  PROVE  readSince(k, c) \subseteq {e \in Entries : c < e /\ e <= log[k]}
BY DEF readSince, Oldest, Newest

LEMMA HigherType ==
  ASSUME NEW a \in Int, NEW b \in Int
  PROVE  Higher(a, b) \in {a, b} /\ Higher(a, b) >= a /\ Higher(a, b) >= b
BY DEF Higher

LEMMA DeviceStep == ASSUME TypeOK, [Next]_vars PROVE DeviceOK'
<1> USE TrackingAssumption DEF TypeOK, DeviceOK
<1>1. ASSUME NEW k \in Kinds, Land(k) PROVE DeviceOK'
  <2>1. log[k] + 1 \in 0..MaxEntries
    BY <1>1 DEF Land
  <2> QED BY <1>1, <2>1 DEF Land
<1>2. ASSUME NEW r \in Receivers, onReceive(r) PROVE DeviceOK'
  BY <1>2 DEF onReceive
<1>3. ASSUME NEW r \in Receivers, FindInboxId(r) PROVE DeviceOK'
  <2>1. item[r] \in 0..MaxEntries /\ mark["message"] \in 0..MaxEntries
    BY DEF CaptureOK, Captures, Kinds
  <2>2. Higher(mark["message"], item[r]) \in 0..MaxEntries
    BY <2>1, HigherType
  <2> QED BY <1>3, <2>2 DEF FindInboxId
<1>4. ASSUME NEW w \in Workers, Work(w) PROVE DeviceOK'
  <2>1. since[w] \in 0..MaxEntries /\ mark["message"] \in 0..MaxEntries
    BY DEF CaptureOK, Kinds
  <2>2. Higher(mark["message"], since[w]) \in 0..MaxEntries
    BY <2>1, HigherType
  <2>3. CASE AdvanceLastSmsInboxId(w)
    BY <2>2, <2>3 DEF AdvanceLastSmsInboxId
  <2>4. CASE SetLastCallLogTimestamp(w)
    BY <2>1, <2>4 DEF SetLastCallLogTimestamp
  <2>5. CASE doWork(w) \/ NextEntry(w)
    BY <2>5 DEF doWork, NextEntry, device
  <2> QED BY <1>4, <2>3, <2>4, <2>5 DEF Work
<1>5. ASSUME NEW p \in Captures, Capture(p) PROVE DeviceOK'
  BY <1>5 DEF Capture, FindByPhone, Filter, Record, Stop, device
<1>6. CASE Flusher \/ Session \/ UNCHANGED vars
  <2>1. UNCHANGED device
    BY <1>6 DEF Flusher, Flush, SyncInteraction, DeleteSynced, Session, SwitchProfile, CountRemaining,
       EndSession, Clear, Swap, SetSession, Die, vars
  <2> QED BY <2>1 DEF device
<1> QED BY <1>1, <1>2, <1>3, <1>4, <1>5, <1>6 DEF Next, Receive

LEMMA OutboxStep == ASSUME TypeOK, [Next]_vars PROVE OutboxOK' /\ lastId <= lastId'
<1> USE TrackingAssumption DEF TypeOK, OutboxOK
<1>1. ASSUME NEW p \in Captures, Record(p), Insert(p) PROVE OutboxOK' /\ lastId <= lastId'
  <2>1. /\ lastId' = lastId + 1 /\ rows' \subseteq rows \cup {Staged(p)}
        /\ {x \in rows : x.id \in synced} \subseteq rows' /\ synced' = synced
    BY <1>1, Inserted DEF Record
  <2>2. Staged(p) \in Rows /\ Staged(p).id = lastId + 1
    BY <1>1, StagedRow
  <2>3. lastId' \in 0..MaxRows /\ lastId <= lastId'
    BY <1>1, <2>1 DEF Insert
  <2>4. \A x \in rows' : x.id <= lastId'
    <3> SUFFICES ASSUME NEW x \in rows' PROVE x.id <= lastId'
      OBVIOUS
    <3>1. x \in rows => x.id \in Int /\ x.id <= lastId
      BY DEF Rows
    <3> QED BY <2>1, <2>2, <3>1
  <2>5. synced' \subseteq {x.id : x \in rows'}
    BY <2>1
  <2> QED BY <2>1, <2>2, <2>3, <2>4, <2>5
<1>2. ASSUME UNCHANGED outbox PROVE OutboxOK' /\ lastId <= lastId'
  BY <1>2 DEF outbox
<1>3. ASSUME NEW p \in Captures, Capture(p), ~Insert(p) PROVE OutboxOK' /\ lastId <= lastId'
  <2>1. UNCHANGED outbox
    BY <1>3 DEF Capture, FindByPhone, Filter, Record, Stop, outbox
  <2> QED BY <1>2, <2>1
<1>4. ASSUME NEW r \in Receivers, Receive(r) PROVE OutboxOK' /\ lastId <= lastId'
  BY <1>2, <1>4 DEF Receive, onReceive, FindInboxId
<1>5. ASSUME NEW w \in Workers, Work(w) PROVE OutboxOK' /\ lastId <= lastId'
  <2>1. UNCHANGED outbox
    BY <1>5 DEF Work, doWork, NextEntry, AdvanceLastSmsInboxId, SetLastCallLogTimestamp
  <2> QED BY <1>2, <2>1
<1>6. CASE SyncInteraction
  BY <1>6 DEF SyncInteraction, Send, SendFails, markSynced
<1>7. CASE DeleteSynced
  BY <1>7 DEF DeleteSynced, Unsynced
<1>8. CASE Clear
  BY <1>8 DEF Clear
<1>9. CASE Flush \/ SwitchProfile \/ CountRemaining \/ EndSession \/ Swap \/ SetSession \/ Die
           \/ UNCHANGED vars \/ \E k \in Kinds : Land(k)
  <2>1. UNCHANGED outbox
    BY <1>9 DEF Flush, SwitchProfile, CountRemaining, EndSession, Swap, SetSession, Die, Land, vars
  <2> QED BY <1>2, <2>1
<1>10. ASSUME NEW p \in Captures, Capture(p), Insert(p) PROVE Record(p)
  BY <1>10, TrackingAssumption DEF Capture, FindByPhone, Filter, Stop, Insert, outbox
<1> QED BY <1>1, <1>3, <1>4, <1>5, <1>6, <1>7, <1>8, <1>9, <1>10 DEF Next, Flusher, Session

LEMMA CaptureStep == ASSUME TypeOK, [Next]_vars PROVE CaptureOK'
<1> USE TrackingAssumption DEF TypeOK, CaptureOK, Captures
<1>1. ASSUME NEW p \in Captures, NEW l \in {"idle", "next", "lookup", "record", "find", "advance"},
             pc' = [pc EXCEPT ![p] = l],
             l \in {"lookup", "record", "find"} => pc[p] \in {"lookup", "record", "find"},
             UNCHANGED <<since, page, item>>,
             finder' \in [Captures -> Accounts \cup {None}]
      PROVE  CaptureOK'
  BY <1>1
<1>2. \A p \in Captures : AfterCapture(p) \in {"find", "advance", "next"}
  BY DEF AfterCapture
<1>3. ASSUME NEW S \in SUBSET Captures, Forget(S) PROVE CaptureOK'
  BY <1>3 DEF Forget
<1>4. ASSUME NEW p \in Captures, Capture(p) PROVE CaptureOK'
  <2>1. CASE FindByPhone(p)
    BY <1>1, <2>1 DEF FindByPhone, SessionOK
  <2>2. CASE Filter(p)
    BY <1>1, <1>2, <2>2 DEF Filter
  <2>3. CASE Record(p)
    BY <1>1, <1>2, <2>3 DEF Record
  <2>4. CASE Stop(p)
    BY <1>3, <2>4 DEF Stop
  <2> QED BY <1>4, <2>1, <2>2, <2>3, <2>4 DEF Capture
<1>5. ASSUME NEW r \in Receivers, Receive(r) PROVE CaptureOK'
  <2>1. CASE onReceive(r)
    BY <2>1 DEF onReceive, Entries
  <2>2. CASE FindInboxId(r)
    BY <2>2 DEF FindInboxId
  <2> QED BY <1>5, <2>1, <2>2 DEF Receive
<1>6. ASSUME NEW w \in Workers, NEW c \in 0..MaxEntries, ReadPage(w, c),
             item' \in [Captures -> 0..MaxEntries], \A p \in Captures \ {w} : item'[p] = item[p],
             UNCHANGED finder
      PROVE  CaptureOK'
  <2>1. readSince(Kind(w), c) \subseteq Entries
    BY Pages
  <2>2. page' \in [Workers -> SUBSET Entries]
    BY <1>6, <2>1 DEF ReadPage
  <2>3. since' \in [Workers -> 0..MaxEntries]
    BY <1>6 DEF ReadPage
  <2>4. pc' \in [Captures -> {"idle", "next", "lookup", "record", "find", "advance"}]
    BY <1>6 DEF ReadPage
  <2>5. \A p \in Captures : pc'[p] \in {"lookup", "record", "find"} => pc'[p] = pc[p] /\ p # w
    BY <1>6 DEF ReadPage
  <2> QED BY <1>6, <2>2, <2>3, <2>4, <2>5
<1>7. ASSUME NEW w \in Workers, Work(w) PROVE CaptureOK'
  <2>1. CASE doWork(w)
    <3>1. mark[Kind(w)] \in 0..MaxEntries
      BY DEF DeviceOK, Kind, Kinds
    <3> QED BY <1>6, <2>1, <3>1 DEF doWork
  <2>2. CASE NextEntry(w)
    <3>1. PICK e \in page[w] : /\ item' = [item EXCEPT ![w] = e]
                               /\ page' = [page EXCEPT ![w] = @ \ {e}]
                               /\ since' = [since EXCEPT ![w] = IF e > @ THEN e ELSE @]
      BY <2>2 DEF NextEntry
    <3>2. e \in Entries /\ e \in 0..MaxEntries
      BY DEF Entries
    <3>3. since' \in [Workers -> 0..MaxEntries] /\ page' \in [Workers -> SUBSET Entries]
          /\ item' \in [Captures -> 0..MaxEntries]
      BY <3>1, <3>2
    <3> QED BY <2>2, <3>1, <3>2, <3>3 DEF NextEntry
  <2>3. CASE AdvanceLastSmsInboxId(w)
    <3>1. item' \in [Captures -> 0..MaxEntries] /\ (\A p \in Captures \ {w} : item'[p] = item[p])
          /\ UNCHANGED finder
      BY <2>3 DEF AdvanceLastSmsInboxId
    <3>2. CASE ReadPage(w, since[w])
      BY <1>6, <3>1, <3>2
    <3>3. CASE ~ReadPage(w, since[w])
      BY <2>3, <3>1, <3>3 DEF AdvanceLastSmsInboxId
    <3> QED BY <3>2, <3>3
  <2>4. CASE SetLastCallLogTimestamp(w)
    BY <2>4 DEF SetLastCallLogTimestamp
  <2> QED BY <1>7, <2>1, <2>2, <2>3, <2>4 DEF Work
<1>8. CASE Die
  BY <1>3, <1>8 DEF Die
<1>9. CASE UNCHANGED capture
  BY <1>9 DEF capture
<1> QED BY <1>4, <1>5, <1>7, <1>8, <1>9, CaptureSteps

LEMMA SessionStep == ASSUME TypeOK, [Next]_vars PROVE SessionOK'
<1> USE DEF TypeOK, SessionOK
<1>1. Unsynced \subseteq Rows
  BY DEF Unsynced, OutboxOK
<1>2. CASE Flusher
  BY <1>1, <1>2 DEF Flusher, Flush, SyncInteraction, DeleteSynced
<1>3. CASE Session
  <2>1. CASE SwitchProfile
    BY <1>1, <2>1 DEF SwitchProfile
  <2>2. CASE CountRemaining
    BY <2>2 DEF CountRemaining
  <2>3. CASE EndSession \/ Clear \/ Swap \/ SetSession \/ Die
    BY <2>3 DEF EndSession, Clear, Swap, SetSession, Die
  <2> QED BY <1>3, <2>1, <2>2, <2>3 DEF Session
<1>4. CASE UNCHANGED session
  BY <1>4 DEF session
<1> QED BY <1>2, <1>3, <1>4, SessionSteps

LEMMA HistoryStep == ASSUME TypeOK, [Next]_vars PROVE HistoryOK'
<1> USE TrackingAssumption DEF TypeOK, HistoryOK
<1>1. lastId <= lastId' /\ lastId \in Nat /\ lastId' \in Nat
  BY OutboxStep DEF OutboxOK
<1>2. 0..lastId \subseteq 0..lastId' /\ 0 \in 0..lastId /\ lastId \in 0..lastId
  BY <1>1
<1>3. sent' \subseteq [id : 1..MaxRows, as : Accounts, by : Accounts \cup {None}]
  <2>1. CASE SyncInteraction
    <3>1. PICK x \in todo : Send(x) \/ SendFails(x)
      BY <2>1 DEF SyncInteraction
    <3>2. CASE Send(x)
      <4>1. x.id \in 1..MaxRows /\ x.by \in Accounts \cup {None} /\ account \in Accounts
        BY <3>2 DEF SessionOK, Rows, Send
      <4> QED BY <3>2, <4>1 DEF Send, Sent
    <3>3. CASE SendFails(x)
      BY <3>3 DEF SendFails
    <3> QED BY <3>1, <3>2, <3>3
  <2>2. CASE ~SyncInteraction
    <3>1. UNCHANGED sent
      BY <2>2, SessionSteps DEF Flusher, Flush, DeleteSynced, Session, SwitchProfile, CountRemaining,
         EndSession, Clear, Swap, SetSession, Die, ghosts
    <3> QED BY <3>1
  <2> QED BY <2>1, <2>2
<1>4. handled' \subseteq Entries /\ passed' \subseteq Entries
  <2>1. ASSUME NEW p \in Captures, Capture(p) PROVE handled' \subseteq Entries /\ passed' \subseteq Entries
    <3>1. Handled(p) \subseteq Entries \/ pc[p] \notin {"lookup", "record"}
      BY DEF Handled, CaptureOK
    <3> QED BY <2>1, <3>1 DEF Capture, FindByPhone, Filter, Record, Stop, ghosts
  <2>2. ASSUME NEW r \in Receivers, Receive(r) PROVE handled' \subseteq Entries /\ passed' \subseteq Entries
    <3>1. pc[r] = "find" => item[r] \in Entries
      BY DEF CaptureOK, Captures
    <3> QED BY <2>2, <3>1 DEF Receive, onReceive, FindInboxId, ghosts
  <2>3. ASSUME NEW w \in Workers, Work(w) PROVE UNCHANGED <<handled, passed>>
    BY <2>3 DEF Work, doWork, NextEntry, AdvanceLastSmsInboxId, SetLastCallLogTimestamp, ghosts
  <2>4. CASE Die
    BY <2>4 DEF Die
  <2> QED BY <2>1, <2>2, <2>3, <2>4, CaptureSteps
<1>5. strays' \subseteq 1..MaxRows
  <2>1. lastId < MaxRows => lastId + 1 \in 1..MaxRows
    BY <1>1
  <2>2. ASSUME NEW p \in Captures, Insert(p) PROVE strays' \subseteq 1..MaxRows
    BY <2>1, <2>2 DEF Insert
  <2>3. {x.id : x \in rows} \subseteq 1..MaxRows
    BY DEF OutboxOK, Rows
  <2>4. ASSUME NEW p \in Captures, Capture(p) PROVE strays' \subseteq 1..MaxRows
    BY <2>2, <2>4 DEF Capture, FindByPhone, Filter, Record, Stop, ghosts
  <2>5. CASE Die
    BY <2>3, <2>5 DEF Die
  <2>6. CASE ~Die /\ \A p \in Captures : ~Capture(p)
    <3>1. UNCHANGED strays
      BY <2>6 DEF Next, Land, Receive, onReceive, FindInboxId, Work, doWork, NextEntry,
         AdvanceLastSmsInboxId, SetLastCallLogTimestamp, Flusher, Flush, SyncInteraction, DeleteSynced,
         Session, SwitchProfile, CountRemaining, EndSession, Clear, Swap, SetSession, vars, ghosts
    <3> QED BY <3>1
  <2> QED BY <2>4, <2>5, <2>6
<1>6. counted' \in 0..lastId'
  <2>1. counted' \in {0, counted, lastId}
    <3>1. CASE Flusher \/ Session
      BY <3>1 DEF Flusher, Flush, SyncInteraction, DeleteSynced, Session, SwitchProfile, CountRemaining,
         EndSession, Clear, Swap, SetSession, Die, ghosts
    <3> QED BY <3>1, SessionSteps
  <2> QED BY <1>1, <1>2, <2>1
<1> QED BY <1>3, <1>4, <1>5, <1>6

LEMMA TypeStep == ASSUME TypeOK, [Next]_vars PROVE TypeOK'
BY DeviceStep, OutboxStep, CaptureStep, SessionStep, HistoryStep DEF TypeOK

-----------------------------------------------------------------------------
(* Accounts.                                                               *)
LEMMA StraysStay == ASSUME [Next]_vars PROVE strays \subseteq strays'
BY RowSteps, Inserted

LEMMA OwnerStep == ASSUME TypeOK, OwnerInv, [Next]_vars PROVE OwnerInv'
<1> USE TrackingAssumption DEF TypeOK, OwnerInv
<1>1. strays \subseteq strays'
  BY StraysStay
<1>2. ASSUME UNCHANGED account, NEW x, Owned(x) PROVE Owned(x)'
  BY <1>1, <1>2 DEF Owned
<1>3. ASSUME NEW p \in Captures, Record(p), Insert(p) PROVE OwnerInv'
  <2>1. UNCHANGED <<gate, todo, account>>
    BY <1>3 DEF Record, session
  <2>2. \A x \in rows' : x \in rows \/ x = Staged(p)
    BY <1>3, Inserted
  <2>3. gate = "swap" => Staged(p).id \in strays'
    BY <1>3, Inserted, StagedRow
  <2>4. gate # "swap" => Staged(p).by \in {None, account} \/ Staged(p).id \in strays'
    BY <1>3, Inserted, StagedRow
  <2>5. \A x : Owned(x) => Owned(x)'
    BY <1>2, <2>1
  <2>6. gate' = "swap" => \A x \in rows' : x.id \in strays'
    BY <1>1, <2>1, <2>2, <2>3
  <2>7. ASSUME gate' \notin {"end", "swap"}, NEW x \in rows' PROVE Owned(x)'
    BY <2>1, <2>2, <2>4, <2>5, <2>7 DEF Owned
  <2>8. \A x \in todo' : Owned(x)'
    BY <2>1, <2>5
  <2> QED BY <2>1, <2>6, <2>7, <2>8
<1>4. ASSUME rows' \subseteq rows, UNCHANGED <<gate, todo, account>> PROVE OwnerInv'
  BY <1>1, <1>2, <1>4
<1>5. CASE Flusher
  <2>1. UNCHANGED <<account, strays>> /\ rows' \subseteq rows
    BY <1>5 DEF Flusher, Flush, SyncInteraction, DeleteSynced, Unsynced, outbox, ghosts
  <2>2. \A x \in todo' : Owned(x)
    BY <1>5 DEF Flusher, Flush, SyncInteraction, DeleteSynced, Unsynced
  <2>3. gate' \notin {"end", "swap"} /\ gate \notin {"end", "swap"}
    BY <1>5 DEF Flusher, Flush, SyncInteraction, DeleteSynced
  <2>4. todo' # {} => gate' \in {"flush", "drain"}
    BY <1>5 DEF Flusher, Flush, SyncInteraction, DeleteSynced
  <2> QED BY <1>2, <2>1, <2>2, <2>3, <2>4
<1>6. CASE SwitchProfile
  <2>1. UNCHANGED <<account, strays, rows>>
    BY <1>6 DEF SwitchProfile, outbox
  <2>2. todo' \subseteq todo \cup rows /\ gate = "free"
    BY <1>6 DEF SwitchProfile, Unsynced
  <2>3. (todo' # {} => gate' = "drain") /\ gate' \notin {"end", "swap"}
    BY <1>6 DEF SwitchProfile
  <2> QED BY <1>2, <2>1, <2>2, <2>3
<1>7. CASE CountRemaining
  <2>1. UNCHANGED <<account, strays, rows, todo>>
    BY <1>7 DEF CountRemaining, outbox
  <2>2. gate = "drained" /\ gate' \in {"free", "counted"}
    BY <1>7 DEF CountRemaining
  <2> QED BY <1>2, <2>1, <2>2
<1>8. CASE EndSession
  <2>1. todo = {} /\ todo' = {} /\ gate' = "end"
    BY <1>8 DEF EndSession
  <2> QED BY <2>1
<1>9. CASE Clear
  <2>1. todo = {} /\ todo' = {} /\ rows' = {}
    BY <1>9 DEF Clear
  <2> QED BY <2>1
<1>10. CASE Swap
  <2>1. todo = {} /\ todo' = {} /\ UNCHANGED rows /\ gate' = "free"
    BY <1>10 DEF Swap, outbox
  <2>2. \A x \in rows : x.id \in strays'
    BY <1>1, <1>10 DEF Swap
  <2> QED BY <2>1, <2>2 DEF Owned
<1>11. CASE SetSession
  <2>1. UNCHANGED <<rows, gate, todo, strays>> /\ gate \in {"free", "flush"} /\ account = None
    BY <1>11 DEF SetSession, outbox, ghosts
  <2>2. ASSUME NEW x, Owned(x) PROVE Owned(x)'
    BY <2>1, <2>2 DEF Owned
  <2> QED BY <2>1, <2>2
<1>12. CASE Die
  <2>1. todo' = {} /\ gate' = "free" /\ UNCHANGED rows
    BY <1>12 DEF Die, outbox
  <2>2. \A x \in rows : Owned(x)'
    <3>1. CASE gate = "end"
      BY <1>12, <3>1 DEF Die, Owned
    <3>2. CASE gate = "swap"
      BY <1>1, <3>2 DEF Owned
    <3>3. CASE gate \notin {"end", "swap"}
      BY <1>12, <3>3 DEF Die, Owned
    <3> QED BY <3>1, <3>2, <3>3
  <2> QED BY <2>1, <2>2
<1>13. CASE ~Flusher /\ ~Session
  <2>1. UNCHANGED <<gate, todo, account>>
    BY <1>13, SessionSteps DEF session
  <2> QED BY <1>3, <1>4, <2>1, RowSteps
<1> QED BY <1>5, <1>6, <1>7, <1>8, <1>9, <1>10, <1>11, <1>12, <1>13 DEF Session

LEMMA SentStep == ASSUME OwnerInv, SentByOwner, [Next]_vars PROVE SentByOwner'
<1>1. strays \subseteq strays'
  BY StraysStay
<1>2. CASE SyncInteraction
  <2>1. PICK x \in todo : Send(x) \/ SendFails(x)
    BY <1>2 DEF SyncInteraction
  <2>2. \A s \in sent' : s \in sent \/ s = [id |-> x.id, as |-> account, by |-> x.by]
    BY <2>1 DEF Send, SendFails, Sent
  <2> QED BY <1>1, <2>1, <2>2 DEF SentByOwner, OwnerInv, Owned
<1>3. CASE ~SyncInteraction
  <2>1. UNCHANGED sent
    BY <1>3, SessionSteps DEF Flusher, Flush, DeleteSynced, Session, SwitchProfile, CountRemaining,
       EndSession, Clear, Swap, SetSession, Die, ghosts
  <2> QED BY <1>1, <2>1 DEF SentByOwner
<1> QED BY <1>2, <1>3

LEMMA CountStep == ASSUME TypeOK, CountInv, [Next]_vars PROVE CountInv'
<1> USE DEF TypeOK, CountInv
<1>1. ASSUME UNCHANGED <<gate, counted>>, gate = "counted" => \A x \in Unsynced' : x.id > counted
      PROVE  CountInv'
  BY <1>1
<1>2. ASSUME NEW p \in Captures, Record(p), Insert(p), UNCHANGED <<gate, synced, counted>>
      PROVE  CountInv'
  <2>1. \A x \in Unsynced' : x \in Unsynced \/ x = Staged(p)
    BY <1>2, Inserted DEF Unsynced
  <2>2. Staged(p).id > counted
    BY <1>2, StagedRow DEF HistoryOK, OutboxOK
  <2> QED BY <1>1, <1>2, <2>1, <2>2
<1>3. CASE Flusher
  <2>1. UNCHANGED counted /\ gate # "counted" /\ gate' # "counted"
    BY <1>3 DEF Flusher, Flush, SyncInteraction, DeleteSynced, ghosts
  <2> QED BY <2>1
<1>4. CASE SwitchProfile \/ CountRemaining
  <2>1. UNCHANGED <<rows, synced>> /\ gate # "counted"
    BY <1>4 DEF SwitchProfile, CountRemaining, outbox
  <2>2. UNCHANGED Unsynced
    BY <2>1 DEF Unsynced
  <2>3. \A x \in Unsynced : x.id > 0
    BY DEF Unsynced, OutboxOK, Rows
  <2>4. \/ counted' = 0
        \/ gate' = "counted" /\ Unsynced = {}
    BY <1>4, <2>1 DEF SwitchProfile, CountRemaining
  <2>5. gate' # "counted" => counted' = 0
    BY <1>4, <2>1 DEF SwitchProfile, CountRemaining
  <2> QED BY <2>2, <2>3, <2>4, <2>5
<1>5. CASE Clear \/ Die
  BY <1>5 DEF Clear, Die
<1>6. CASE EndSession \/ Swap
  BY <1>6 DEF EndSession, Swap, ghosts
<1>7. CASE SetSession
  BY <1>7 DEF SetSession, ghosts
<1>8. CASE ~Flusher /\ ~Session
  <2>1. UNCHANGED <<gate, synced, counted>>
    BY <1>8, SessionSteps DEF session
  <2>2. ASSUME rows' \subseteq rows PROVE CountInv'
    BY <1>1, <2>1, <2>2 DEF Unsynced
  <2> QED BY <1>2, <2>1, <2>2, RowSteps
<1> QED BY <1>3, <1>4, <1>5, <1>6, <1>7, <1>8 DEF Session

LEMMA StagedStep == ASSUME StagedOnce, [Next]_vars PROVE StagedOnce'
<1>1. ASSUME rows' \subseteq rows PROVE StagedOnce'
  BY <1>1 DEF StagedOnce
<1>2. ASSUME NEW p \in Captures, Record(p), Insert(p) PROVE StagedOnce'
  <2>1. \A x \in rows' : x \in rows \/ x = Staged(p)
    BY <1>2, Inserted
  <2>2. CASE Kind(p) = "call"
    <3>1. p \in Workers
      BY <2>2 DEF Kind, Workers
    <3>2. ~IsStaged(p)
      BY <1>2, <3>1, TrackingAssumption DEF Record, Insert
    <3> QED BY <2>1, <3>2 DEF StagedOnce, IsStaged, Staged
  <2>3. CASE Kind(p) # "call"
    BY <2>1, <2>3 DEF StagedOnce, Staged
  <2> QED BY <2>2, <2>3
<1> QED BY <1>1, <1>2, RowSteps

-----------------------------------------------------------------------------
(* The cursor of the inbox.                                                *)
(* A page of the inbox leaves out no message below one it has.             *)
LEMMA OldestIsDown ==
  ASSUME NEW c, NEW k \in Kinds, k # "call", TypeOK,
         NEW e \in readSince(k, c), NEW m \in Entries, c < m, m < e
  PROVE  m \in readSince(k, c)
<1> DEFINE new == {x \in Entries : c < x /\ x <= log[k]}
<1>1. readSince(k, c) = Oldest(new)
  BY DEF readSince
<1>2. e \in new /\ m \in new
  BY <1>1, TrackingAssumption DEF Oldest, Entries, TypeOK, DeviceOK
<1>3. {x \in new : x < m} \in SUBSET {x \in new : x < e}
  BY <1>2 DEF Entries
<1>4. IsFiniteSet(Entries)
  BY FS_Interval, TrackingAssumption DEF Entries
<1>5. {x \in new : x < e} \in SUBSET Entries
  OBVIOUS
<1>6. IsFiniteSet({x \in new : x < e})
  BY <1>4, <1>5, FS_Subset
<1> DEFINE A == {x \in new : x < m}  B == {x \in new : x < e}
<1>7. IsFiniteSet(A) /\ Cardinality(A) <= Cardinality(B)
  BY <1>3, <1>6, FS_Subset
<1>8. Cardinality(A) \in Nat /\ Cardinality(B) \in Nat
  BY <1>6, <1>7, FS_CardinalityType
<1>9. Cardinality(B) < ReadLimit
  BY <1>1 DEF Oldest
<1>10. Cardinality(A) < ReadLimit
  <2> HIDE DEF A, B
  <2> QED BY <1>7, <1>8, <1>9, TrackingAssumption
<1> QED BY <1>1, <1>2, <1>10 DEF Oldest

LEMMA KindOfMessage ==
  /\ \A r \in Receivers : Kind(r) = "message" /\ r \in Captures /\ r \notin Workers
  /\ \A w \in InboxWorkers : Kind(w) = "message" /\ w \in Workers /\ w \in Captures
                             /\ w \notin Receivers /\ w \notin CallWorkers
BY TrackingAssumption DEF Kind, Workers, Captures

LEMMA CoveredStays == ASSUME [Next]_vars, NEW m, Covered(m) PROVE Covered(m)'
<1>1. handled \subseteq handled' /\ passed \subseteq passed'
  <2>1. ASSUME NEW p \in Captures, Capture(p) PROVE handled \subseteq handled' /\ passed \subseteq passed'
    BY <2>1 DEF Capture, FindByPhone, Filter, Record, Stop, Handled, ghosts
  <2>2. ASSUME NEW r \in Receivers, Receive(r) PROVE handled \subseteq handled' /\ passed \subseteq passed'
    BY <2>2 DEF Receive, onReceive, FindInboxId, ghosts
  <2>3. ASSUME NEW w \in Workers, Work(w) PROVE UNCHANGED <<handled, passed>>
    BY <2>3 DEF Work, doWork, NextEntry, AdvanceLastSmsInboxId, SetLastCallLogTimestamp, ghosts
  <2>4. CASE Die
    BY <2>4 DEF Die
  <2> QED BY <2>1, <2>2, <2>3, <2>4, CaptureSteps
<1> QED BY <1>1 DEF Covered

(* What an inbox worker's next read begins with.                           *)
LEMMA ReadPageKeeps ==
  ASSUME TypeOK, NEW w \in InboxWorkers, NEW c \in 0..MaxEntries, ReadPage(w, c),
         \A m \in 1..c : Covered(m)'
  PROVE  /\ \A m \in 1..since'[w] : Covered(m)'
         /\ \A e \in page'[w], m \in Entries : since'[w] < m /\ m < e => m \in page'[w]
         /\ pc'[w] = "next"
<1> USE DEF TypeOK, CaptureOK
<1>1. Kind(w) = "message" /\ w \in Workers /\ "message" \in Kinds
  BY KindOfMessage DEF Kinds
<1>2. since'[w] = c /\ page'[w] = readSince("message", c)
  BY <1>1 DEF ReadPage
<1>3. \A e \in readSince("message", c), m \in Entries : c < m /\ m < e => m \in readSince("message", c)
  BY <1>1, OldestIsDown
<1>4. pc'[w] = "next"
  BY <1>1, KindOfMessage DEF ReadPage
<1> QED BY <1>2, <1>3, <1>4

LEMMA PageStep == ASSUME TypeOK, PageInv, CursorBehindCapture, [Next]_vars PROVE PageInv'
<1> USE TrackingAssumption DEF TypeOK, CaptureOK
<1> DEFINE Worker(w) ==
      /\ \A m \in 1..since[w] : Covered(m) \/ (m = item[w] /\ pc[w] \in {"lookup", "record"})
      /\ \A e \in page[w], m \in Entries : since[w] < m /\ m < e => m \in page[w]
      /\ pc[w] = "advance" => page[w] = {}
<1> DEFINE Receiver(r) == pc[r] = "find" => item[r] \in handled
<1>1. \A m : Covered(m) => Covered(m)'
  BY CoveredStays
<1>2. ASSUME NEW w \in InboxWorkers, UNCHANGED <<pc[w], since[w], page[w], item[w]>>
      PROVE  Worker(w)'
  BY <1>1, <1>2 DEF PageInv
<1>3. ASSUME NEW r \in Receivers, UNCHANGED <<pc[r], item[r]>>, handled \subseteq handled'
      PROVE  Receiver(r)'
  BY <1>3 DEF PageInv
<1>4. ASSUME NEW w \in InboxWorkers, since'[w] = 0, page'[w] = {} PROVE Worker(w)'
  BY <1>4
<1>5. ASSUME NEW p \in Captures, Capture(p)
      PROVE  (\A r \in Receivers : Receiver(r)') /\ (\A w \in InboxWorkers : Worker(w)')
  <2>1. handled \subseteq handled'
    BY <1>5 DEF Capture, FindByPhone, Filter, Record, Stop, Handled, ghosts
  <2>2. \A q \in Captures \ {p} : UNCHANGED <<pc[q], item[q]>>
    BY <1>5 DEF Capture, FindByPhone, Filter, Record, Stop, Forget
  <2>3. \A w \in Workers \ {p} : UNCHANGED <<since[w], page[w]>>
    BY <1>5 DEF Capture, FindByPhone, Filter, Record, Stop, Forget
  <2>4. ASSUME NEW r \in Receivers, r = p PROVE Receiver(r)'
    <3>1. Handled(p) = handled \cup {item[p]}
      BY <2>4, KindOfMessage DEF Handled
    <3>2. pc'[p] = "find" => UNCHANGED item /\ handled' = Handled(p)
      BY <1>5, <2>4 DEF Capture, FindByPhone, Filter, Record, Stop, Forget
    <3> QED BY <2>4, <3>1, <3>2
  <2>5. ASSUME NEW w \in InboxWorkers, w = p PROVE Worker(w)'
    <3>1. Handled(p) = handled \cup {item[p]} /\ p \in Workers
      BY <2>5, KindOfMessage DEF Handled
    <3>2. CASE Stop(p)
      <4>1. since'[p] = 0 /\ page'[p] = {}
        BY <3>1, <3>2 DEF Stop, Forget
      <4> QED BY <1>4, <2>5, <4>1
    <3>3. CASE FindByPhone(p)
      <4>1. pc[p] = "lookup" /\ pc'[p] = "record" /\ UNCHANGED <<since, page, item>>
        BY <3>3 DEF FindByPhone
      <4> QED BY <1>1, <2>5, <4>1 DEF PageInv
    <3>4. CASE Filter(p) \/ Record(p)
      <4>1. /\ UNCHANGED <<since, page, item>> /\ handled' = Handled(p)
            /\ pc'[p] = "advance" => page[p] = {}
        BY <3>1, <3>4 DEF Filter, Record, AfterCapture
      <4>2. \A m : m = item[p] => Covered(m)'
        BY <3>1, <4>1 DEF Covered
      <4>3. \A m \in 1..since[p] : Covered(m)'
        BY <1>1, <2>5, <4>2 DEF PageInv
      <4> QED BY <2>5, <4>1, <4>3 DEF PageInv
    <3> QED BY <1>5, <3>2, <3>3, <3>4 DEF Capture
  <2>6. ASSUME NEW r \in Receivers, r # p PROVE Receiver(r)'
    BY <1>3, <2>1, <2>2, <2>6 DEF Captures
  <2>7. ASSUME NEW w \in InboxWorkers, w # p PROVE Worker(w)'
    <3>1. UNCHANGED <<pc[w], since[w], page[w], item[w]>>
      BY <2>2, <2>3, <2>7 DEF Captures, Workers
    <3> QED BY <1>2, <3>1
  <2> QED BY <2>4, <2>5, <2>6, <2>7
<1>6. ASSUME NEW q \in Receivers, Receive(q)
      PROVE  (\A r \in Receivers : Receiver(r)') /\ (\A w \in InboxWorkers : Worker(w)')
  <2>1. handled' = handled /\ UNCHANGED <<since, page>> /\ pc'[q] # "find"
    BY <1>6 DEF Receive, onReceive, FindInboxId, ghosts, Captures
  <2>2. \A p \in Captures \ {q} : UNCHANGED <<pc[p], item[p]>>
    BY <1>6 DEF Receive, onReceive, FindInboxId
  <2>3. ASSUME NEW w \in InboxWorkers PROVE Worker(w)'
    <3>1. w \in Captures \ {q}
      BY KindOfMessage
    <3> QED BY <1>2, <2>1, <2>2, <3>1
  <2>4. ASSUME NEW r \in Receivers PROVE Receiver(r)'
    BY <1>3, <2>1, <2>2 DEF Captures
  <2> QED BY <2>3, <2>4
<1>7. ASSUME NEW v \in Workers, Work(v)
      PROVE  (\A r \in Receivers : Receiver(r)') /\ (\A w \in InboxWorkers : Worker(w)')
  <2>1. UNCHANGED <<handled, passed>>
    BY <1>7 DEF Work, doWork, NextEntry, AdvanceLastSmsInboxId, SetLastCallLogTimestamp, ghosts
  <2>2. \A p \in Captures \ {v} : UNCHANGED <<pc[p], item[p]>>
    BY <1>7 DEF Work, doWork, NextEntry, AdvanceLastSmsInboxId, SetLastCallLogTimestamp, ReadPage
  <2>3. \A w \in Workers \ {v} : UNCHANGED <<since[w], page[w]>>
    BY <1>7 DEF Work, doWork, NextEntry, AdvanceLastSmsInboxId, SetLastCallLogTimestamp, ReadPage
  <2>4. ASSUME NEW r \in Receivers PROVE Receiver(r)'
    <3>1. r \in Captures \ {v}
      BY KindOfMessage
    <3> QED BY <1>3, <2>1, <2>2, <3>1
  <2>5. ASSUME NEW w \in InboxWorkers, w # v PROVE Worker(w)'
    <3>1. w \in Captures \ {v} /\ w \in Workers \ {v}
      BY <2>5, KindOfMessage
    <3> QED BY <1>2, <2>2, <2>3, <3>1
  <2>6. ASSUME v \in InboxWorkers PROVE Worker(v)'
    <3>1. Kind(v) = "message" /\ v \in Captures /\ v \notin CallWorkers
      BY <2>6, KindOfMessage
    <3>2. CASE doWork(v)
      <4>1. mark["message"] \in 0..MaxEntries
        BY DEF DeviceOK, Kinds
      <4>2. \A m \in 1..mark["message"] : Covered(m)'
        BY <1>1 DEF CursorBehindCapture, Covered
      <4>3. ReadPage(v, mark["message"])
        BY <3>1, <3>2 DEF doWork
      <4> QED BY <2>6, <4>1, <4>2, <4>3, ReadPageKeeps
    <3>3. CASE NextEntry(v)
      <4>1. PICK e \in page[v] : /\ \A x \in page[v] : x >= e
                                 /\ item' = [item EXCEPT ![v] = e]
                                 /\ page' = [page EXCEPT ![v] = @ \ {e}]
                                 /\ since' = [since EXCEPT ![v] = IF e > @ THEN e ELSE @]
        BY <3>1, <3>3 DEF NextEntry
      <4>2. pc[v] = "next" /\ pc'[v] = "lookup"
        BY <3>1, <3>3 DEF NextEntry
      <4>3. e \in Entries /\ page[v] \subseteq Entries /\ since[v] \in 0..MaxEntries
        OBVIOUS
      <4>4. item'[v] = e /\ page'[v] = page[v] \ {e} /\ since'[v] = IF e > since[v] THEN e ELSE since[v]
        BY <3>1, <4>1
      <4>5. \A m \in 1..since[v] : Covered(m)'
        BY <1>1, <2>6, <4>2 DEF PageInv
      <4>6. \A m \in Entries : since[v] < m /\ m < e => m \in page[v]
        BY <2>6, <4>3 DEF PageInv
      <4>7. \A m \in Entries : ~(since[v] < m /\ m < e)
        BY <4>1, <4>3, <4>6 DEF Entries
      <4>8. \A m \in 1..since'[v] : Covered(m)' \/ m = e
        BY <4>3, <4>4, <4>5, <4>7 DEF Entries
      <4>9. \A x \in page'[v], m \in Entries : since'[v] < m /\ m < x => m \in page'[v]
        <5> SUFFICES ASSUME NEW x \in page'[v], NEW m \in Entries, since'[v] < m, m < x
                     PROVE  m \in page'[v]
          OBVIOUS
        <5>1. x \in page[v] /\ since[v] < m /\ m # e
          BY <4>3, <4>4 DEF Entries
        <5>2. m \in page[v]
          BY <2>6, <5>1 DEF PageInv
        <5> QED BY <4>4, <5>1, <5>2
      <4> QED BY <4>2, <4>4, <4>8, <4>9
    <3>4. CASE AdvanceLastSmsInboxId(v)
      <4>1. since[v] \in 0..MaxEntries /\ pc[v] = "advance"
        BY <3>4 DEF AdvanceLastSmsInboxId
      <4>2. \A m \in 1..since[v] : Covered(m)'
        BY <1>1, <2>6, <4>1 DEF PageInv
      <4>3. CASE ReadPage(v, since[v])
        BY <2>6, <4>1, <4>2, <4>3, ReadPageKeeps
      <4>4. CASE ~ReadPage(v, since[v])
        <5>1. since'[v] = 0 /\ page' = page /\ since'[v] <= since[v]
          BY <3>4, <4>4 DEF AdvanceLastSmsInboxId
        <5>2. page[v] = {}
          BY <2>6, <4>1 DEF PageInv
        <5> QED BY <1>4, <2>6, <5>1, <5>2
      <4> QED BY <4>3, <4>4
    <3>5. ~SetLastCallLogTimestamp(v)
      BY <3>1 DEF SetLastCallLogTimestamp
    <3> QED BY <1>7, <3>2, <3>3, <3>4, <3>5 DEF Work
  <2> QED BY <2>4, <2>5, <2>6
<1>8. CASE Die
  <2>1. \A p \in Captures : pc'[p] = "idle"
    BY <1>8 DEF Die, Forget
  <2>2. \A w \in Workers : since'[w] = 0 /\ page'[w] = {}
    BY <1>8 DEF Die, Forget, Captures
  <2>3. ASSUME NEW w \in InboxWorkers PROVE Worker(w)'
    BY <1>4, <2>2 DEF Workers
  <2>4. ASSUME NEW r \in Receivers PROVE Receiver(r)'
    BY <2>1 DEF Captures
  <2> QED BY <2>3, <2>4 DEF PageInv
<1>9. CASE UNCHANGED <<capture, handled, passed>>
  BY <1>2, <1>3, <1>9 DEF PageInv, capture
<1>10. ASSUME \A r \in Receivers : Receiver(r)', \A w \in InboxWorkers : Worker(w)' PROVE PageInv'
  BY <1>10 DEF PageInv
<1> HIDE DEF Worker, Receiver
<1> QED BY <1>5, <1>6, <1>7, <1>8, <1>9, <1>10, CaptureSteps

LEMMA CursorStep == ASSUME TypeOK, PageInv, CursorBehindCapture, [Next]_vars PROVE CursorBehindCapture'
<1> USE TrackingAssumption DEF TypeOK, CaptureOK, DeviceOK
<1>1. \A m : Covered(m) => Covered(m)'
  BY CoveredStays
<1>2. \A m \in 1..mark["message"] : Covered(m)'
  BY <1>1 DEF CursorBehindCapture, Covered
<1>3. mark["message"] \in 0..MaxEntries
  BY DEF Kinds
<1>4. ASSUME \A m \in 1..mark'["message"] : Covered(m)' PROVE CursorBehindCapture'
  BY <1>4 DEF CursorBehindCapture, Covered
<1>5. ASSUME NEW r \in Receivers, FindInboxId(r) PROVE CursorBehindCapture'
  <2>1. pc[r] = "find" /\ item[r] \in Entries /\ item[r] \in handled
    BY <1>5, KindOfMessage DEF FindInboxId, PageInv
  <2>2. CASE UNCHANGED mark
    BY <1>2, <1>4, <2>2
  <2>3. CASE mark' = [mark EXCEPT !["message"] = Higher(@, item[r])] /\ passed' = passed \cup {item[r]}
    <3>1. mark'["message"] \in {mark["message"], item[r]}
      BY <1>3, <2>3 DEF Higher, Kinds
    <3>2. item[r] \in handled' /\ item[r] \in passed'
      BY <1>5, <2>1, <2>3 DEF FindInboxId
    <3>3. ASSUME NEW m \in 1..item[r] PROVE Covered(m)'
      <4>1. m = item[r] \/ item[r] > m
        BY <2>1 DEF Entries
      <4> QED BY <3>2, <4>1 DEF Covered
    <3> QED BY <1>2, <1>4, <3>1, <3>3
  <2> QED BY <1>5, <2>2, <2>3 DEF FindInboxId
<1>6. ASSUME NEW w \in Workers, AdvanceLastSmsInboxId(w) PROVE CursorBehindCapture'
  <2>1. w \in InboxWorkers /\ pc[w] = "advance" /\ since[w] \in 0..MaxEntries
    BY <1>6 DEF AdvanceLastSmsInboxId
  <2>2. mark'["message"] \in {mark["message"], since[w]}
    BY <1>3, <1>6 DEF AdvanceLastSmsInboxId, Higher, Kinds
  <2>3. \A m \in 1..since[w] : Covered(m)'
    BY <1>1, <2>1 DEF PageInv
  <2> QED BY <1>2, <1>4, <2>2, <2>3
<1>7. ASSUME NEW w \in Workers, doWork(w) \/ NextEntry(w) \/ SetLastCallLogTimestamp(w)
      PROVE  CursorBehindCapture'
  <2>1. mark'["message"] = mark["message"]
    BY <1>7 DEF doWork, NextEntry, SetLastCallLogTimestamp, device, Kinds
  <2> QED BY <1>2, <1>4, <2>1
<1>8. ASSUME NEW p \in Captures, Capture(p) PROVE CursorBehindCapture'
  <2>1. mark' = mark
    BY <1>8 DEF Capture, FindByPhone, Filter, Record, Stop, device
  <2> QED BY <1>2, <1>4, <2>1
<1>9. ASSUME NEW r \in Receivers, onReceive(r) PROVE CursorBehindCapture'
  BY <1>2, <1>4, <1>9 DEF onReceive
<1>10. CASE Die
  BY <1>2, <1>4, <1>10 DEF Die, device
<1>11. CASE UNCHANGED mark
  BY <1>2, <1>4, <1>11
<1> QED BY <1>5, <1>6, <1>7, <1>8, <1>9, <1>10, <1>11, CaptureSteps DEF Receive, Work

-----------------------------------------------------------------------------
LEMMA InitIInv == ASSUME Init PROVE IInv
<1> USE TrackingAssumption DEF Init
<1>1. TypeOK
  <2>1. DeviceOK
    BY DEF DeviceOK
  <2>2. OutboxOK
    BY DEF OutboxOK
  <2>3. CaptureOK
    BY DEF CaptureOK
  <2>4. SessionOK
    BY DEF SessionOK
  <2>5. HistoryOK
    BY DEF HistoryOK
  <2> QED BY <2>1, <2>2, <2>3, <2>4, <2>5 DEF TypeOK
<1>2. OwnerInv /\ SentByOwner
  BY DEF OwnerInv, SentByOwner
<1>3. CountInv
  BY DEF CountInv
<1>4. PageInv
  <2>1. \A p \in Captures : pc[p] = "idle"
    OBVIOUS
  <2>2. \A w \in InboxWorkers : since[w] = 0 /\ page[w] = {}
    BY DEF Workers
  <2> QED BY <2>1, <2>2, KindOfMessage DEF PageInv
<1>5. CursorBehindCapture
  BY DEF CursorBehindCapture, Kinds
<1>6. StagedOnce
  BY DEF StagedOnce
<1> QED BY <1>1, <1>2, <1>3, <1>4, <1>5, <1>6 DEF IInv

LEMMA NextIInv == ASSUME IInv, [Next]_vars PROVE IInv'
BY TypeStep, OwnerStep, SentStep, CountStep, PageStep, CursorStep, StagedStep DEF IInv

LEMMA AlwaysIInv == Spec => []IInv
BY InitIInv, NextIInv, PTL DEF Spec

-----------------------------------------------------------------------------
(* What is in the outbox and what leaves it.                               *)
(* Ids are given once, and only rows the server has are marked.            *)
UniqueIds == \A x, y \in rows : x.id = y.id => x = y
SyncedIsSent == \A i \in synced : \E s \in sent : s.id = i

LEMMA UniqueStep == ASSUME TypeOK, UniqueIds, [Next]_vars PROVE UniqueIds'
<1>1. ASSUME rows' \subseteq rows PROVE UniqueIds'
  BY <1>1 DEF UniqueIds
<1>2. ASSUME NEW p \in Captures, Record(p), Insert(p) PROVE UniqueIds'
  <2>1. rows' \subseteq rows \cup {Staged(p)} /\ Staged(p).id = lastId + 1
    BY <1>2, Inserted, StagedRow
  <2>2. \A x \in rows : x.id # lastId + 1
    BY DEF TypeOK, OutboxOK, Rows
  <2> QED BY <2>1, <2>2 DEF UniqueIds
<1> QED BY <1>1, <1>2, RowSteps

LEMMA SyncedStep == ASSUME SyncedIsSent, [Next]_vars PROVE SyncedIsSent'
<1>1. CASE SyncInteraction
  <2>1. PICK x \in todo : Send(x) \/ SendFails(x)
    BY <1>1 DEF SyncInteraction
  <2>2. CASE SendFails(x)
    BY <2>2 DEF SendFails, SyncedIsSent
  <2>3. CASE Send(x)
    <3>1. sent \subseteq sent' /\ \E s \in sent' : s.id = x.id
      <4>1. CASE \E s \in sent : s.id = x.id /\ s.as = account
        BY <4>1, <2>3 DEF Send, Sent
      <4>2. CASE ~\E s \in sent : s.id = x.id /\ s.as = account
        <5>1. sent' = sent \cup {[id |-> x.id, as |-> account, by |-> x.by]}
          BY <4>2, <2>3 DEF Send, Sent
        <5>2. [id |-> x.id, as |-> account, by |-> x.by].id = x.id
          OBVIOUS
        <5> QED BY <5>1, <5>2
      <4> QED BY <4>1, <4>2
    <3>2. synced' \subseteq synced \cup {x.id}
      BY <2>3 DEF Send, markSynced
    <3> QED BY <3>1, <3>2 DEF SyncedIsSent
  <2> QED BY <2>1, <2>2, <2>3
<1>2. CASE Flush \/ DeleteSynced
  BY <1>2 DEF Flush, DeleteSynced, outbox, ghosts, SyncedIsSent
<1>3. CASE Session
  BY <1>3 DEF Session, SwitchProfile, CountRemaining, EndSession, Clear, Swap, SetSession, Die,
     outbox, ghosts, SyncedIsSent
<1>4. CASE ~Flusher /\ ~Session
  BY <1>4, SessionSteps DEF SyncedIsSent
<1> QED BY <1>1, <1>2, <1>3, <1>4 DEF Flusher

(* How rows can go: with those the server has, in a wipe, or evicted.      *)
LEMMA OutboxSteps ==
  ASSUME [Next]_vars
  PROVE  \/ rows' = rows /\ synced \subseteq synced'
         \/ rows' = Unsynced /\ synced' = {}
         \/ gate \in {"counted", "end"} /\ gate' = "swap" /\ rows' = {}
         \/ \E p \in Captures : Record(p) /\ Insert(p) /\ UNCHANGED synced
<1>1. ASSUME NEW p \in Captures, Capture(p)
      PROVE  UNCHANGED synced /\ (UNCHANGED rows \/ (Record(p) /\ Insert(p)))
  BY <1>1 DEF Capture, FindByPhone, Filter, Record, Stop, outbox, ghosts
<1>2. ASSUME NEW r \in Receivers, Receive(r) PROVE UNCHANGED <<rows, synced>>
  BY <1>2 DEF Receive, onReceive, FindInboxId, outbox, ghosts
<1>3. ASSUME NEW w \in Workers, Work(w) PROVE UNCHANGED <<rows, synced>>
  BY <1>3 DEF Work, doWork, NextEntry, AdvanceLastSmsInboxId, SetLastCallLogTimestamp, outbox, ghosts
<1>4. CASE (\E k \in Kinds : Land(k)) \/ UNCHANGED vars
  BY <1>4 DEF Land, vars, outbox, ghosts
<1>5. CASE Flush \/ DeleteSynced
  BY <1>5 DEF Flush, DeleteSynced, outbox
<1>6. CASE SyncInteraction
  <2>1. PICK x \in todo : Send(x) \/ SendFails(x)
    BY <1>6 DEF SyncInteraction
  <2>2. synced \subseteq synced'
    BY <2>1 DEF Send, SendFails, markSynced
  <2> QED BY <1>6, <2>2 DEF SyncInteraction
<1>7. CASE Session
  BY <1>7 DEF Session, SwitchProfile, CountRemaining, EndSession, Clear, Swap, SetSession, Die,
     outbox, ghosts
<1> QED BY <1>1, <1>2, <1>3, <1>4, <1>5, <1>6, <1>7 DEF Next, Flusher

LEMMA RowsAreFinite == ASSUME TypeOK, UniqueIds PROVE IsFiniteSet(rows)
<1> DEFINE f == [x \in rows |-> x.id]
<1>1. f \in [rows -> 1..MaxRows]
  BY DEF TypeOK, OutboxOK, Rows
<1>2. f \in Injection(rows, 1..MaxRows)
  BY <1>1 DEF Injection, IsInjective, UniqueIds
<1>3. IsFiniteSet(1..MaxRows)
  BY FS_Interval, TrackingAssumption
<1> QED BY <1>2, <1>3, FS_Injection

(* Rows are ordered by their entry and their id, as the query orders them. *)
LEMMA OlderIsTotal ==
  ASSUME NEW x \in Rows, NEW y \in Rows, x.id # y.id
  PROVE  (Older(x, y) \/ Older(y, x)) /\ ~(Older(x, y) /\ Older(y, x))
BY DEF Older, Rows, Entries

LEMMA OlderIsTransitive ==
  ASSUME NEW x \in Rows, NEW y \in Rows, NEW z \in Rows, Older(x, y), Older(y, z)
  PROVE  Older(x, z)
BY DEF Older, Rows, Entries

(* trimUnsynced keeps to the cap: the rows that stay have different ranks  *)
(* below it.                                                               *)
LEMMA TrimmedIsCapped ==
  ASSUME NEW S \in SUBSET Rows, IsFiniteSet(S), \A x, y \in S : x.id = y.id => x = y
  PROVE  IsFiniteSet(trimUnsynced(S)) /\ Cardinality(trimUnsynced(S)) <= Cap
<1> DEFINE Newer(x) == {y \in S : Older(x, y)}
           T == trimUnsynced(S)
           rank == [x \in T |-> Cardinality(Newer(x))]
<1>1. T \subseteq S /\ \A x \in T : Cardinality(Newer(x)) < Cap
  BY DEF trimUnsynced
<1>2. ASSUME NEW x \in S PROVE IsFiniteSet(Newer(x)) /\ Cardinality(Newer(x)) \in Nat
  <2>1. Newer(x) \in SUBSET S
    OBVIOUS
  <2> QED BY <2>1, FS_Subset, FS_CardinalityType
<1>3. ASSUME NEW x \in S, NEW y \in S, Older(x, y)
      PROVE  Cardinality(Newer(x)) # Cardinality(Newer(y))
  <2>1. x \in Rows /\ y \in Rows
    OBVIOUS
  <2>2. ~Older(y, y)
    BY <2>1 DEF Older, Rows, Entries
  <2>3. Newer(y) \in SUBSET Newer(x) /\ y \in Newer(x) /\ y \notin Newer(y)
    BY <2>1, <2>2, <1>3, OlderIsTransitive
  <2> HIDE DEF Newer
  <2> QED BY <2>3, <1>2, FS_Subset
<1>4. rank \in [T -> 0..Cap - 1]
  <2> SUFFICES ASSUME NEW x \in T PROVE Cardinality(Newer(x)) \in 0..Cap - 1
    OBVIOUS
  <2>1. Cardinality(Newer(x)) \in Nat /\ Cardinality(Newer(x)) < Cap
    BY <1>1, <1>2
  <2> HIDE DEF Newer
  <2> QED BY <2>1, TrackingAssumption
<1>5. ASSUME NEW x \in T, NEW y \in T, rank[x] = rank[y] PROVE x = y
  <2>1. x \in S /\ y \in S /\ x \in Rows /\ y \in Rows
    BY <1>1
  <2>2. Cardinality(Newer(x)) = Cardinality(Newer(y))
    BY <1>5
  <2>3. ~Older(x, y) /\ ~Older(y, x)
    BY <2>1, <2>2, <1>3
  <2> QED BY <2>1, <2>3, OlderIsTotal
<1>6. rank \in Injection(T, 0..Cap - 1)
  <2> HIDE DEF rank, T
  <2> QED BY <1>4, <1>5 DEF Injection, IsInjective
<1>7. IsFiniteSet(0..Cap - 1) /\ Cardinality(0..Cap - 1) = Cap
  BY FS_Interval, TrackingAssumption
<1> HIDE DEF rank, T
<1>8. IsFiniteSet(T) /\ Cardinality(T) <= Cap
  BY <1>6, <1>7, FS_Injection
<1> QED BY <1>8 DEF T

(* The unsynced rows with the one that comes in.                           *)
Candidates(p) == Unsynced \cup {Staged(p)}

LEMMA InsertTrims ==
  ASSUME TypeOK, UniqueIds, NEW p \in Captures, Record(p), Insert(p), UNCHANGED synced
  PROVE  /\ Candidates(p) \in SUBSET Rows /\ IsFiniteSet(Candidates(p))
         /\ \A x, y \in Candidates(p) : x.id = y.id => x = y
         /\ Unsynced' = trimUnsynced(Candidates(p))
         /\ \A x \in Candidates(p) : x.id \notin synced
<1>1. Staged(p) \in Rows /\ Staged(p).id = lastId + 1
  BY StagedRow
<1>2. \A x \in rows : x \in Rows /\ x.id # lastId + 1
  BY DEF TypeOK, OutboxOK, Rows
<1>3. lastId + 1 \notin synced
  BY <1>2 DEF TypeOK, OutboxOK
<1>4. Candidates(p) \in SUBSET Rows
  BY <1>1, <1>2 DEF Candidates, Unsynced
<1>5. IsFiniteSet(Candidates(p))
  <2>1. Unsynced \in SUBSET rows
    BY DEF Unsynced
  <2>2. IsFiniteSet(Unsynced)
    BY <2>1, RowsAreFinite, FS_Subset
  <2> QED BY <2>2, FS_AddElement DEF Candidates
<1>6. \A x, y \in Candidates(p) : x.id = y.id => x = y
  BY <1>1, <1>2 DEF Candidates, Unsynced, UniqueIds
<1>7. \A x \in Candidates(p) : x.id \notin synced
  BY <1>1, <1>3 DEF Candidates, Unsynced
<1>8. rows' = {x \in rows : x.id \in synced} \cup trimUnsynced(Candidates(p))
  BY DEF Insert, Candidates, Unsynced
<1>9. Unsynced' = trimUnsynced(Candidates(p))
  BY <1>7, <1>8 DEF Unsynced, trimUnsynced
<1> QED BY <1>4, <1>5, <1>6, <1>7, <1>9

LEMMA CappedStep ==
  ASSUME TypeOK, UniqueIds, OutboxIsCapped, [Next]_vars
  PROVE  OutboxIsCapped'
<1>1. ASSUME Unsynced' \subseteq Unsynced PROVE OutboxIsCapped'
  <2>1. Unsynced \in SUBSET rows /\ Unsynced' \in SUBSET Unsynced
    BY <1>1 DEF Unsynced
  <2>2. IsFiniteSet(Unsynced)
    BY <2>1, RowsAreFinite, FS_Subset
  <2>3. IsFiniteSet(Unsynced') /\ Cardinality(Unsynced') <= Cardinality(Unsynced)
    BY <2>1, <2>2, FS_Subset
  <2>4. Cardinality(Unsynced) \in Nat /\ Cardinality(Unsynced') \in Nat
    BY <2>2, <2>3, FS_CardinalityType
  <2> QED BY <2>3, <2>4, TrackingAssumption DEF OutboxIsCapped
<1>2. ASSUME NEW p \in Captures, Record(p), Insert(p), UNCHANGED synced PROVE OutboxIsCapped'
  BY <1>2, InsertTrims, TrimmedIsCapped DEF OutboxIsCapped
<1> QED BY <1>1, <1>2, OutboxSteps DEF Unsynced

(* A row that is evicted has the cap's number of newer ones above it, even *)
(* when the row that comes in is evicted with it.                          *)
LEMMA EvictedIsOld ==
  ASSUME TypeOK, UniqueIds, NEW p \in Captures, Record(p), Insert(p), UNCHANGED synced,
         NEW x \in rows \ rows'
  PROVE  Cardinality({y \in rows \cup rows' : y.id \notin synced /\ Older(x, y)}) >= Cap
<1> DEFINE S == Candidates(p)
           Newer(z) == {y \in S : Older(z, y)}
           above == {y \in rows \cup rows' : y.id \notin synced /\ Older(x, y)}
<1>1. /\ S \in SUBSET Rows /\ IsFiniteSet(S) /\ \A y \in S : y.id \notin synced
      /\ Unsynced' = trimUnsynced(S)
  BY InsertTrims
<1>2. x \in Unsynced
  BY Inserted DEF Unsynced
<1>3. x \in S /\ x \notin Unsynced' /\ S \subseteq rows \cup {Staged(p)} /\ Staged(p) \in S
  BY <1>2 DEF Candidates, Unsynced
<1>4. ASSUME NEW z \in S, z \notin Unsynced'
      PROVE  IsFiniteSet(Newer(z)) /\ Cardinality(Newer(z)) \in Nat /\ Cardinality(Newer(z)) >= Cap
  <2>1. Newer(z) \in SUBSET S
    OBVIOUS
  <2>2. IsFiniteSet(Newer(z)) /\ Cardinality(Newer(z)) \in Nat
    BY <2>1, <1>1, FS_Subset, FS_CardinalityType
  <2>3. ~(Cardinality(Newer(z)) < Cap)
    BY <1>1, <1>4 DEF trimUnsynced
  <2> HIDE DEF Newer
  <2> QED BY <2>2, <2>3, TrackingAssumption
<1>5. IsFiniteSet(above)
  <2>1. rows \cup rows' \subseteq rows \cup {Staged(p)}
    BY Inserted
  <2>2. IsFiniteSet(rows \cup {Staged(p)})
    BY RowsAreFinite, FS_AddElement
  <2>3. above \in SUBSET (rows \cup {Staged(p)})
    BY <2>1
  <2> QED BY <2>2, <2>3, FS_Subset
<1>6. ASSUME NEW z \in S, z \notin Unsynced', Newer(z) \subseteq above
      PROVE  Cardinality(above) >= Cap
  <2>1. Cardinality(Newer(z)) <= Cardinality(above) /\ Cardinality(above) \in Nat
    BY <1>5, <1>6, FS_Subset, FS_CardinalityType
  <2> HIDE DEF Newer, above
  <2> QED BY <2>1, <1>4, <1>6, TrackingAssumption
<1>7. ASSUME Staged(p) \in Unsynced' \/ ~Older(x, Staged(p))
      PROVE  Cardinality(above) >= Cap
  <2>1. Newer(x) \subseteq above
    BY <1>1, <1>3, <1>7 DEF Unsynced
  <2> HIDE DEF Newer, above
  <2> QED BY <2>1, <1>3, <1>6
<1>8. ASSUME Staged(p) \notin Unsynced', Older(x, Staged(p))
      PROVE  Cardinality(above) >= Cap
  <2>1. ASSUME NEW y \in Newer(Staged(p)) PROVE y \in above
    <3>1. y \in Rows /\ x \in Rows /\ Staged(p) \in Rows /\ y \in S /\ Older(Staged(p), y)
      BY <1>1, <1>3
    <3>2. Older(x, y)
      BY <3>1, <1>8, OlderIsTransitive
    <3>3. y # Staged(p)
      BY <3>1 DEF Older, Rows, Entries
    <3> QED BY <3>1, <3>2, <3>3, <1>1, <1>3
  <2> HIDE DEF Newer, above
  <2> QED BY <2>1, <1>3, <1>6, <1>8
<1> QED BY <1>7, <1>8

LeaveInv == UniqueIds /\ SyncedIsSent /\ OutboxIsCapped

LEMMA AlwaysLeaveInv == Spec => []LeaveInv
<1>1. Init => LeaveInv
  <2>1. Init => UniqueIds /\ SyncedIsSent /\ Unsynced = {}
    BY DEF Init, UniqueIds, SyncedIsSent, Unsynced
  <2> QED BY <2>1, FS_EmptySet, TrackingAssumption DEF LeaveInv, OutboxIsCapped
<1>2. IInv /\ LeaveInv /\ [Next]_vars => LeaveInv'
  BY UniqueStep, SyncedStep, CappedStep DEF IInv, LeaveInv
<1> QED BY <1>1, <1>2, AlwaysIInv, PTL DEF Spec

(* Every variable keeps its type, and no row is numbered past the last.    *)
THEOREM TypeCorrect == Spec => []TypeOK
<1>1. IInv => TypeOK
  BY DEF IInv
<1> QED BY <1>1, AlwaysIInv, PTL

(* What was captured for an account is sent as that account, for any       *)
(* accounts and captures (SessionTransitionGate, issue #2065).             *)
THEOREM CapturesAreSentByTheirOwner == Spec => []SentByOwner
<1>1. IInv => SentByOwner
  BY DEF IInv
<1> QED BY <1>1, AlwaysIInv, PTL

(* The inbox cursor stays behind what was captured, for any number of      *)
(* workers, any page size and any length of the inbox (issue #1127).       *)
THEOREM CursorsStayBehind == Spec => []CursorBehindCapture
<1>1. IInv => CursorBehindCapture
  BY DEF IInv
<1> QED BY <1>1, AlwaysIInv, PTL

(* Overlapping call workers stage a call once while it waits (recordIfNew).*)
THEOREM CallsAreStagedOnce == Spec => []StagedOnce
<1>1. IInv => StagedOnce
  BY DEF IInv
<1> QED BY <1>1, AlwaysIInv, PTL

(* A switch that asked for no confirmation wipes no row it had counted     *)
(* (DefaultSessionManager.switchProfile, ADR 0028 decision 1).             *)
THEOREM SwitchesLoseNothingCounted == Spec => SwitchLosesNothingCounted
<1>1. ASSUME IInv, [Next]_vars
      PROVE  [gate = "counted" /\ gate' = "swap" => \A x \in Unsynced : x.id > counted]_vars
  BY <1>1 DEF IInv, CountInv
<1> QED BY <1>1, AlwaysIInv, PTL DEF Spec, SwitchLosesNothingCounted

(* However many captures come in while nothing can be sent, the outbox     *)
(* keeps to its cap (trimUnsynced, issue #479).                            *)
THEOREM OutboxKeepsToItsCap == Spec => []OutboxIsCapped
<1>1. LeaveInv => OutboxIsCapped
  BY DEF LeaveInv
<1> QED BY <1>1, AlwaysLeaveInv, PTL

(* No flush, failure or capture in between takes a row the server has not  *)
(* got out of the outbox, unless newer ones fill it (deleteSynced).        *)
THEOREM OnlySentRowsLeave == Spec => OnlySentLeave
<1>1. IInv /\ LeaveInv /\ [Next]_vars
        => [\A x \in rows \ rows' :
             \/ \E s \in sent : s.id = x.id
             \/ gate \in {"counted", "end"} /\ gate' = "swap"
             \/ Cardinality({y \in rows \cup rows' : y.id \notin synced /\ Older(x, y)}) >= Cap]_vars
  <2> SUFFICES ASSUME IInv, LeaveInv, [Next]_vars, NEW x \in rows \ rows'
               PROVE  \/ \E s \in sent : s.id = x.id
                      \/ gate \in {"counted", "end"} /\ gate' = "swap"
                      \/ Cardinality({y \in rows \cup rows' :
                                        y.id \notin synced /\ Older(x, y)}) >= Cap
    OBVIOUS
  <2>1. CASE rows' = Unsynced
    BY <2>1 DEF LeaveInv, SyncedIsSent, Unsynced
  <2>2. CASE \E p \in Captures : Record(p) /\ Insert(p) /\ UNCHANGED synced
    BY <2>2, EvictedIsOld DEF IInv, LeaveInv
  <2> QED BY <2>1, <2>2, OutboxSteps
<1> QED BY <1>1, AlwaysIInv, AlwaysLeaveInv, PTL DEF Spec, OnlySentLeave
=============================================================================
