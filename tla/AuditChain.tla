---------------------------- MODULE AuditChain -----------------------------
(***************************************************************************)
(* models/audit_recorder.go, models/audit_chain.go,                        *)
(* internal/auditwire/txpool.go and services/audit_purge_service.go: the   *)
(* tamper-evident log of writes.                                           *)
(*                                                                         *)
(* A transaction holds its audit events until it has committed, each event *)
(* is then appended by a goroutine of its own under chainMu, the retention *)
(* purge deletes the oldest rows and re-links the rest, and deleting a     *)
(* user deletes that user's rows with it.                                  *)
(*                                                                         *)
(* The content of a row is its id (ids are never reused), and its hash,    *)
(* SHA-256 of the previous hash and the content, is the set of ids that    *)
(* went into it: ids ascend along the table, so equal sets mean equal      *)
(* hashes and the reverse.                                                 *)
(***************************************************************************)
EXTENDS Naturals, Sequences, FiniteSets

CONSTANTS
  Requests,    \* the handlers that write
  Users,
  Events,      \* the audited writes of a behaviour
  Actor        \* the user of each, its row's user_id

ASSUME ActorAssumption == Actor \in [Events -> Users]

VARIABLES
  rows, lastId,      \* audit_events and its AUTOINCREMENT counter
  users,             \* the users table
  used, committed,   \* the writes that ran, and those whose transaction committed
  pc,                \* each request: "idle", "open", "nested" (inside a
                     \* savepoint) or "release" (Commit runs what it held)
  pending, mark,     \* Tx.pending and Tx.savepoint
  data, base,        \* the writes the transaction holds now and held at its savepoint
  queued,            \* events whose goroutine waits for chainMu
  chainMu,           \* "free", or who holds it: "append" or "relink"
  append,            \* the event being appended, with the hash it read
  flushing, doomed,  \* the user whose DeleteUser is in Flush, which keeps
                     \* a.mu, and those it has still to delete
  purge, plan,       \* the purge: "idle", "relink" (it deleted rows) or
                     \* "write", and the rows it read
  unlinked,          \* what has cut the chain since it was last linked
  gone               \* committed events that will have no row, or no more

db == <<rows, lastId, users>>
handlers == <<used, committed, pc, pending, mark, data, base>>
appender == <<queued, chainMu, append>>
deleter == <<flushing, doomed>>
purger == <<purge, plan>>
ghosts == <<unlinked, gone>>
vars == <<db, handlers, appender, deleter, purger, ghosts>>

Ids == DOMAIN rows
Recorded == {rows[i].event : i \in Ids}
Appending == {a.event : a \in append}
Released == UNION {{pending[r][k] : k \in DOMAIN pending[r]} : r \in {q \in Requests : pc[q] = "release"}}

(* The pool is behind the write gate: a statement that writes, and the     *)
(* first of a transaction, waits for the open transaction to end.          *)
GateFree == \A r \in Requests : pc[r] \notin {"open", "nested"}

(* The newest row's hash; genesis is the hash of nothing.                  *)
LastHash == IF Ids = {} THEN {} ELSE rows[CHOOSE i \in Ids : \A j \in Ids : j <= i].hash

(* What VerifyAuditChain accepts: every row's prev_hash is the hash of the *)
(* row before it, and its hash is that of both.                            *)
Before(i) == {j \in Ids : j < i}
PreviousHash(i) ==
  IF Before(i) = {} THEN {} ELSE rows[CHOOSE j \in Before(i) : \A k \in Before(i) : k <= j].hash
VerifyAuditChain ==
  \A i \in Ids : rows[i].prev = PreviousHash(i) /\ rows[i].hash = rows[i].prev \cup {i}

Linked(r, ids) ==
  [i \in DOMAIN r |-> [event |-> r[i].event, prev |-> {j \in ids : j < i}, hash |-> {j \in ids : j <= i}]]
Without(S) == [i \in Ids \ S |-> rows[i]]

TypeOK ==
  /\ lastId \in Nat /\ Ids \subseteq 1 .. lastId
  /\ \A i \in Ids : rows[i] \in [event : Events, prev : SUBSET (1 .. lastId), hash : SUBSET (1 .. lastId)]
  /\ users \subseteq Users
  /\ used \subseteq Events /\ committed \subseteq used /\ gone \subseteq committed
  /\ pc \in [Requests -> {"idle", "open", "nested", "release"}]
  /\ pending \in [Requests -> Seq(used)]
  /\ mark \in [Requests -> Nat]
  /\ data \in [Requests -> SUBSET used] /\ base \in [Requests -> SUBSET used]
  /\ queued \subseteq used
  /\ chainMu \in {"free", "append", "relink"}
  /\ append \subseteq [event : Events, prev : SUBSET (1 .. lastId)]
  /\ Cardinality(append) = IF chainMu = "append" THEN 1 ELSE 0
  /\ flushing \subseteq Users /\ doomed \subseteq Users /\ Cardinality(flushing) <= 1
  /\ purge \in {"idle", "relink", "write"} /\ plan \subseteq 1 .. lastId
  /\ unlinked \subseteq {"purge", "account", "misread"}
  /\ Cardinality({r \in Requests : pc[r] \in {"open", "nested"}}) <= 1

Init ==
  /\ rows = <<>> /\ lastId = 0 /\ users = Users
  /\ used = {} /\ committed = {}
  /\ pc = [r \in Requests |-> "idle"]
  /\ pending = [r \in Requests |-> <<>>] /\ mark = [r \in Requests |-> 0]
  /\ data = [r \in Requests |-> {}] /\ base = [r \in Requests |-> {}]
  /\ queued = {} /\ chainMu = "free"
  /\ append = {} /\ flushing = {} /\ doomed = {}
  /\ purge = "idle" /\ plan = {}
  /\ unlinked = {} /\ gone = {}

-----------------------------------------------------------------------------
(* Transactions on the wrapped pool.                                       *)

(* A write inside a transaction, or the first of a new one; its hook hands *)
(* the event to DeferOn.                                                   *)
Write(r, e) ==
  /\ e \notin used /\ Actor[e] \in users
  /\ pc[r] \in {"open", "nested"} \/ (pc[r] = "idle" /\ GateFree)
  /\ used' = used \cup {e}
  /\ data' = [data EXCEPT ![r] = @ \cup {e}]
  /\ pending' = [pending EXCEPT ![r] = Append(@, e)]
  /\ pc' = [pc EXCEPT ![r] = IF @ = "idle" THEN "open" ELSE @]
  /\ UNCHANGED <<committed, mark, base, db, appender, deleter, purger, ghosts>>

(* SAVEPOINT, at the start of a nested db.Transaction.                     *)
Savepoint(r) ==
  /\ pc[r] = "open"
  /\ pc' = [pc EXCEPT ![r] = "nested"]
  /\ mark' = [mark EXCEPT ![r] = Len(pending[r])]
  /\ base' = [base EXCEPT ![r] = data[r]]
  /\ UNCHANGED <<used, committed, pending, data, db, appender, deleter, purger, ghosts>>

(* A nested block that ends well says nothing to the database.             *)
EndNested(r) ==
  /\ pc[r] = "nested"
  /\ pc' = [pc EXCEPT ![r] = "open"]
  /\ UNCHANGED <<used, committed, pending, mark, data, base, db, appender, deleter, purger, ghosts>>

(* Mutations of RollbackTo: it keeps the events it should drop, or drops   *)
(* the outer block's with them.                                            *)
RollbackToKeeping(r) ==
  /\ pc[r] = "nested"
  /\ pc' = [pc EXCEPT ![r] = "open"]
  /\ data' = [data EXCEPT ![r] = base[r]]
  /\ UNCHANGED <<used, committed, pending, mark, base, db, appender, deleter, purger, ghosts>>
RollbackToStart(r) ==
  /\ pc[r] = "nested"
  /\ pc' = [pc EXCEPT ![r] = "open"]
  /\ pending' = [pending EXCEPT ![r] = <<>>]
  /\ data' = [data EXCEPT ![r] = base[r]]
  /\ UNCHANGED <<used, committed, mark, base, db, appender, deleter, purger, ghosts>>

(* ROLLBACK TO SAVEPOINT.                                                  *)
RollbackTo(r) ==
  /\ pc[r] = "nested"
  /\ pc' = [pc EXCEPT ![r] = "open"]
  /\ pending' = [pending EXCEPT ![r] = SubSeq(@, 1, mark[r])]
  /\ data' = [data EXCEPT ![r] = base[r]]
  /\ UNCHANGED <<used, committed, mark, base, db, appender, deleter, purger, ghosts>>

NoSavepoint(r) ==
  /\ mark' = [mark EXCEPT ![r] = 0]
  /\ base' = [base EXCEPT ![r] = {}]

(* Rollback, or a Commit that fails.                                       *)
Rollback(r) ==
  /\ pc[r] \in {"open", "nested"}
  /\ pc' = [pc EXCEPT ![r] = "idle"]
  /\ pending' = [pending EXCEPT ![r] = <<>>]
  /\ data' = [data EXCEPT ![r] = {}]
  /\ NoSavepoint(r)
  /\ UNCHANGED <<used, committed, db, appender, deleter, purger, ghosts>>

Commit(r) ==
  /\ pc[r] = "open"
  /\ committed' = committed \cup data[r]
  /\ data' = [data EXCEPT ![r] = {}]
  /\ pc' = [pc EXCEPT ![r] = IF pending[r] = <<>> THEN "idle" ELSE "release"]
  /\ NoSavepoint(r)
  /\ UNCHANGED <<used, pending, db, appender, deleter, purger, ghosts>>

(* Commit runs the held work in order; enqueue needs a.mu, which Flush     *)
(* keeps while it waits.                                                   *)
Enqueue(r) ==
  /\ pc[r] = "release" /\ flushing = {}
  /\ queued' = queued \cup {Head(pending[r])}
  /\ pending' = [pending EXCEPT ![r] = Tail(@)]
  /\ pc' = [pc EXCEPT ![r] = IF Tail(pending[r]) = <<>> THEN "idle" ELSE @]
  /\ UNCHANGED <<used, committed, mark, data, base, chainMu, append, db, deleter, purger, ghosts>>

-----------------------------------------------------------------------------
(* persist, in each event's goroutine.                                     *)

(* Mutation of StartAppend: it does not wait for a re-link.                *)
StartAppendUnlocked(e, prev) ==
  /\ append = {} /\ e \in queued
  /\ chainMu' = "append"
  /\ queued' = queued \ {e}
  /\ append' = {[event |-> e, prev |-> prev]}

StartAppend(e, prev) ==
  /\ chainMu = "free" /\ e \in queued
  /\ chainMu' = "append"
  /\ queued' = queued \ {e}
  /\ append' = {[event |-> e, prev |-> prev]}

ReadLast(e) == StartAppend(e, LastHash) /\ UNCHANGED <<db, handlers, deleter, purger, ghosts>>

(* The newest row cannot be read: the append starts from genesis.          *)
ReadFails(e) ==
  /\ StartAppend(e, {})
  /\ unlinked' = unlinked \cup {"misread"}
  /\ UNCHANGED <<gone, db, handlers, deleter, purger>>

(* The insert; the foreign key refuses an event of a user who is gone.     *)
Insert(a) ==
  /\ a \in append /\ GateFree
  /\ Actor[a.event] \in users
  /\ lastId' = lastId + 1
  /\ rows' = [i \in Ids \cup {lastId'} |->
               IF i = lastId' THEN [event |-> a.event, prev |-> a.prev, hash |-> a.prev \cup {lastId'}]
                              ELSE rows[i]]
  /\ append' = {} /\ chainMu' = "free"
  /\ UNCHANGED <<users, queued, handlers, deleter, purger, ghosts>>

(* Mutation of InsertFails: it returns with chainMu held.                  *)
InsertFailsLocked(a) ==
  /\ a \in append
  /\ gone' = gone \cup {a.event}
  /\ append' = {}
  /\ UNCHANGED <<queued, chainMu, unlinked, db, handlers, deleter, purger>>

InsertFails(a) ==
  /\ a \in append
  /\ gone' = gone \cup {a.event}
  /\ append' = {} /\ chainMu' = "free"
  /\ UNCHANGED <<queued, unlinked, db, handlers, deleter, purger>>

-----------------------------------------------------------------------------
(* DeleteUser and DeleteOwnAccount.                                        *)

(* flushAuditBeforeUserDelete enters Flush, which waits for a.mu.          *)
StartFlush(u) ==
  /\ flushing = {} /\ u \in users
  /\ flushing' = {u}
  /\ UNCHANGED <<doomed, db, handlers, appender, purger, ghosts>>

(* Every append that had started is over.                                  *)
Flushed ==
  /\ flushing # {} /\ queued = {} /\ append = {}
  /\ flushing' = {} /\ doomed' = doomed \cup flushing
  /\ UNCHANGED <<db, handlers, appender, purger, ghosts>>

(* The transaction of deleteUserCascade: the user's audit rows go by       *)
(* ON DELETE CASCADE, wherever they are in the chain.                      *)
DeleteUser(u) ==
  LET cascade == {i \in Ids : Actor[rows[i].event] = u}
  IN /\ u \in doomed /\ GateFree
     /\ doomed' = doomed \ {u}
     /\ users' = users \ {u}
     /\ rows' = Without(cascade)
     /\ unlinked' = IF cascade = {} THEN unlinked ELSE unlinked \cup {"account"}
     /\ gone' = gone \cup {rows[i].event : i \in cascade}
     /\ UNCHANGED <<lastId, flushing, handlers, appender, purger>>

DeleteFails(u) ==
  /\ u \in doomed
  /\ doomed' = doomed \ {u}
  /\ UNCHANGED <<flushing, db, handlers, appender, purger, ghosts>>

-----------------------------------------------------------------------------
(* PurgeExpiredAuditEvents and RecomputeAuditChain.                        *)

(* Rows are as old as their ids: created_at is read under chainMu.  The    *)
(* DELETE does not take chainMu.                                           *)
PurgeExpired(k) ==
  /\ purge = "idle" /\ GateFree
  /\ k \in Ids
  /\ rows' = Without(1 .. k)
  /\ gone' = gone \cup {rows[i].event : i \in Ids \cap (1 .. k)}
  /\ unlinked' = unlinked \cup {"purge"}
  /\ purge' = "relink"
  /\ UNCHANGED <<lastId, users, plan, handlers, appender, deleter>>

ReadChain ==
  /\ purge = "relink" /\ chainMu = "free"
  /\ purge' = "write" /\ chainMu' = "relink"
  /\ plan' = Ids
  /\ UNCHANGED <<queued, append, db, handlers, deleter, ghosts>>

(* One transaction; rows that went meanwhile are updated in vain.          *)
WriteChain ==
  /\ purge = "write" /\ GateFree
  /\ rows' = Linked(rows, plan)
  /\ unlinked' = IF Ids = plan THEN {} ELSE {"account"}
  /\ purge' = "idle" /\ plan' = {} /\ chainMu' = "free"
  /\ UNCHANGED <<lastId, users, queued, append, gone, handlers, deleter>>

(* Either statement fails, and the purge reports it.                       *)
RelinkFails ==
  /\ purge # "idle" /\ (purge = "write" \/ chainMu = "free")
  /\ purge' = "idle"
  /\ plan' = {} /\ chainMu' = "free"
  /\ UNCHANGED <<queued, append, db, handlers, deleter, ghosts>>

-----------------------------------------------------------------------------
(* The process stops; the next one re-links the chain before it serves.    *)
Restart ==
  /\ pc' = [r \in Requests |-> "idle"]
  /\ pending' = [r \in Requests |-> <<>>]
  /\ data' = [r \in Requests |-> {}]
  /\ mark' = [r \in Requests |-> 0] /\ base' = [r \in Requests |-> {}]
  /\ queued' = {} /\ append' = {} /\ chainMu' = "free"
  /\ flushing' = {} /\ doomed' = {} /\ purge' = "idle" /\ plan' = {}
  /\ rows' = Linked(rows, Ids) /\ unlinked' = {}
  /\ gone' = committed \ Recorded
  /\ UNCHANGED <<lastId, users, used, committed>>

Serve(r) ==
  \/ \E e \in Events : Write(r, e)
  \/ Savepoint(r) \/ EndNested(r) \/ RollbackTo(r)
  \/ Rollback(r) \/ Commit(r) \/ Enqueue(r)
Persist == (\E e \in Events : ReadLast(e) \/ ReadFails(e)) \/ (\E a \in append : Insert(a) \/ InsertFails(a))
Delete == (\E u \in Users : StartFlush(u) \/ DeleteUser(u) \/ DeleteFails(u)) \/ Flushed
Purge == (\E k \in Ids : PurgeExpired(k)) \/ ReadChain \/ WriteChain \/ RelinkFails

Next == (\E r \in Requests : Serve(r)) \/ Persist \/ Delete \/ Purge \/ Restart

Spec == Init /\ [][Next]_vars

(* Handlers end their transactions, goroutines run, and chainMu goes to    *)
(* every goroutine that waits for it (a Go mutex starves nobody).          *)
FairSpec ==
  /\ Spec
  /\ \A r \in Requests :
       /\ WF_vars(Commit(r) \/ Rollback(r))
       /\ WF_vars(Enqueue(r))
  /\ \A e \in Events : SF_vars(ReadLast(e) \/ ReadFails(e))
  /\ WF_vars(\E a \in append : Insert(a) \/ InsertFails(a))
  /\ WF_vars(WriteChain \/ RelinkFails)
  /\ WF_vars(Flushed)

-----------------------------------------------------------------------------
(* Correctness.                                                            *)

(* A rolled-back transaction or savepoint leaves no audit row: whatever is *)
(* recorded, or on its way, is of a write that committed, and each such    *)
(* write has one row at most.                                              *)
OnlyCommittedOnce ==
  /\ Recorded \cup Appending \cup queued \cup Released \subseteq committed
  /\ \A i, j \in Ids : rows[i].event = rows[j].event => i = j
  /\ Recorded \cap (Appending \cup queued \cup Released) = {}

(* No committed write goes unaudited: its event is recorded or on its way, *)
(* unless an insert failed, the process stopped, the row aged out or the   *)
(* user's account was deleted.                                             *)
NothingForgotten == committed \subseteq Recorded \cup Appending \cup queued \cup Released \cup gone

(* The chain verifies unless, since it was last linked, a purge has        *)
(* deleted rows, an account was deleted or an append could not read the    *)
(* newest row: appends among themselves and a re-link never fork it.       *)
ChainHolds == unlinked = {} => VerifyAuditChain

(* Every event that waits is taken to the database or dropped, and the     *)
(* Flush before a user's deletion returns.                                 *)
DrainEnds ==
  /\ \A e \in Events : e \in queued ~> e \notin queued
  /\ flushing # {} ~> flushing = {}
=============================================================================
