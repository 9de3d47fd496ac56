# A TLA+ model of Mycorrhizal CRM

Mycorrhizal CRM is a self-hosted personal CRM: a Go server (gin, GORM, SQLite)
under `src/backend`, an Android client (Kotlin) that can also run that server
on the device, and a web client (React). This directory holds a model of the
concurrent and failure-prone parts of the server and of the Android client's
tracking, TLC runs that check it on small instances, and proofs, checked by
TLAPS, of the properties that matter most.

Contents: 1 inventory, 2 the modules and the code, 3 the runs, 4 fairness,
5 proofs, 6 where the code and its documentation disagree, 7 what is not
modelled, 8 plan.

Run one instance with `tlc -config AuditChain.cfg MCAuditChain`, check one
proof module with `tlapm RevisionCASProofs.tla`. `PROJECT.json` maps every
definition to the lines it models.

## 1. Inventory

The server is one process with one SQLite file. HTTP handlers, delivery
goroutines and scheduled jobs share the database; nothing else is shared
except a few mutexes and semaphores. So the hard behaviours are four: the order
in which transactions of different actors commit, what a handler read before
its own transaction began, a process that stops between two statements, and a
side effect (a message, an HTTP request, a file) that cannot be rolled back.

| Component | State | Operations | Talks to | Hard part | What makes it correct |
|---|---|---|---|---|---|
| write gate (`internal/writegate`) | `held`, `starving`, queue of waiters | acquire, giveUp, release; Pool, Tx | every write of the process; SQLite | hand-over against timeout, lost wake-ups, double release, starvation | one writer, no lost wake-up, exact queue, every writer served |
| job lock (`services/job_lock.go`) | one `job_executions` row per job | acquire, release | every scheduled job | crash with the lock held, late release, two triggers at once | one run per period, a leaked lock is reclaimed |
| idempotent writes (`middleware/idempotency.go`) | one row per (user, key) | claim, answer, store, mark, drop, purge | every keyed POST | crash or failure between commit and stored answer | one write per key, true replays, no verdict that is wrong later |
| webhook delivery (`services/webhook_service.go`) | delivery rows, goroutines, a semaphore | trigger, deliver, retry job | domain events, job lock | goroutines die with the process, rows do not | bounded attempts, one at a time, every event settled |
| reminders and notifications | reminder, delivery rows per channel | daily run, an administrator's run; complete, update, delete | job lock, contact revisions, mail and push services | a send cannot be undone; runs overlap; the user changes the reminder meanwhile | a message is repeated only for a lost record or an overlapping run, none is forgotten, the user's change survives |
| contact revisions (`models/revision_cas.go`) | `revision`, trash snapshot | GET, PUT, flags, delete, restore, purge, import | every client, CardDAV, imports | load and save in different transactions | no lost update, no resurrection, an ETag names one content |
| audit chain (`models/audit_*.go`, `internal/auditwire`) | hash-linked `audit_events` | hold, release, append, flush, purge and re-link | every write; write gate (priority lane); account deletion | savepoints, goroutines in any order, deletes in the chain's middle | exactly the committed writes recorded, the chain verifies |
| address book sync (`services/contact_sync_service.go`, `sync_conflict_service.go`) | links with hashes and baselines, the sync token, conflicts | sync; restore and dismiss a conflict | a remote book, contact revisions, the trash | the book is read outside the transaction that applies it, in several requests that may fail or be replaced by others | nothing the user typed is dropped unreported, the token is not ahead of what was applied, one object is one contact |
| calendar sync | links, sync tokens | fetch, reconcile | remote servers, activities | as address book sync, without baselines | as address book sync |
| CardDAV/CalDAV servers | none of their own | PUT, DELETE, REPORT | contact revisions | protocol preconditions | as contact revisions |
| authentication | failures, one-time codes, grants, token versions | login, verify, revoke | every request | check and use in different statements | a code is used once, a revoked grant stays revoked |
| import sessions, contact merge | in-memory sessions | preview, confirm, merge | contact revisions, image store | background avatar job | as contact revisions |
| migrations and their backups (`database/migrate.go`, `premigration_backup.go`) | version row, tables, `pre-migration/` snapshots | start of the server, migrate up, force, restore | the whole database | a process killed between two transactions, a server and a command on one file, a snapshot of an earlier attempt | a clean version row is true, data has a snapshot from before its migration, restarts settle |
| at-rest encryption, routine backups | keys, files | rotate, backfill, back up | the whole database | stopping half-way | every intermediate state can be resumed |
| image store and sweep (`services/image_service.go`, `image_sweep_service.go`) | files and rows | upload, delete, update of the note, sweep, purge | notes, contacts, activities | two-step writes to two stores, three jobs that remove | no live image loses its file, nothing is left behind, no note stays empty |
| alerting, feeds, search, converters, integrations, routing | none shared | read, render, convert | the above | none beyond I/O | pure functions |
| Android client | outbox, cursors, session, Room mirror | capture, flush, log in and out, switch profile | idempotent writes, the phone's logs | a process that is killed at any time, captures that take no lock | what is captured for an account is sent as that account, once, and not lost by a switch that did not ask |
| web client | form state | edit, resolve conflicts | contact revisions | none of its own | as contact revisions |

`PROJECT.json` lists each part with its status, and every hazard with the line
where it bites and the property that covers it.

## 2. The modules and the code

One module per component. An action is one critical section, one SQL statement
or one transaction, so between any two actions of a handler every other actor
may run, a statement may fail and, where something is persisted, the process may stop.
Definitions keep the source's names. A definition whose comment begins with
"Mutation of" is not part of the model: it is a plausible bug of the definition
it names, kept to show that the property it belongs to would notice it.

**WriteGate** (`writegate.go`). `st[w]` is where a goroutine is in `acquire`;
`held`, `starving` and `waiters` are the gate's fields. `TakeFree`/`Enqueue` are
the first critical section, `ReceiveGrant`/`WinRace`/`LoseRace` the wake-up,
`GiveUp*` the three cases of `giveUp`, `HandOver`/`Free` the two of
`releaseLocked`. A goroutine's `select` commits only when it gets `g.mu`, so
choosing and locking are one step. Age is relative: `since[w]` is who arrived
before, and a waiter turns overdue no earlier than they do.
**WriteLock** is the abstract lock a caller expects: one owner, and a set that waits.
**WritePool** puts transactions on the gate: `BeginTx`, the `sync.Once` release
run from `done` or from the context's `AfterFunc`, database/sql's own rollback
in another goroutine, and GORM's late `Rollback`. `sqlite` is SQLite's own write
lock, which is not given up together with the gate.

**JobLock** (`job_lock.go`). One row, one job; `Instances` are processes, a run is
a pair (process, trigger). `FirstRun`/`TakeLock`/`Suppress` are the outcomes of
`acquireJobLock`, with `RecordDeduped` its second statement; `Succeed`/`Fail`/
`EndUnreleased` those of `releaseJobLock`. Times are saturating ages, so the
clock needs no bound.

**Idempotency** (`idempotency.go`). `pc[r]` walks a request through claim, handler,
stored answer, terminal mark or dropped row; `Answer` decides replay, reuse,
in progress or refusal from the row that was read. `applied` is history: the
writes committed while the key's row lived.
**KeyedWrites** is what the middleware promises a client, without rows, fingerprints and clocks: a key's
write is applied once at most until the key is forgotten, only a request for that very write is told that it was,
and nothing is forgotten between a write and its confirmation. `Once` maps Idempotency to it
(`effect <- applied`, `status <- Status`), and `ImplementsKeyedWrites` is its specification.

**Webhooks** (`webhook_service.go`). An event is one (event, webhook) pair. Its goroutine
queues for a slot, sends, and saves one row; the retry job loads due rows,
clears `next_retry_at` and starts the next attempt. `CrashDeliveries` ends goroutines
and the loaded batch and keeps the rows. (Webhooks, Reminders and Upgrade carry the component in the
names of their common definitions, `WebhookSpec`, `CrashRun`, `UpgradeTypeOK`, so that a proof module
can extend several of them.)

**RevisionCAS** (`revision_cas.go`, `contact_write.go`, `contact_trash.go`). A request loads the row,
checks If-Match and later saves in a transaction of its own through
`bumpRevisionCAS`. `card` is the set of edits a contact's content holds, `flags`
its one-column updates, `photo` what an import attached; `snapshot` is what a
restore needs. **Contact** is what the handlers promise: no revisions, loaded rows or snapshots, every request one
step on the contact as it then is. `Handlers` maps RevisionCAS to it (`copy <- Copies`, `asked <- AskedBy`); the photo
is left out of the promise (section 6, item 5).

**Reminders** (`reminder_service.go`, `notification_service.go`, `reminder_controller.go`). A run
fetches, reads the delivery rows, dispatches channel by channel and records
each; a request loads, saves with the compare-and-swap, and clears rows in a
further statement. Runs overlap: `ReminderRuns` are the triggers, and those in `Unlocked` (`TriggerReminders`) take no
job lock; the lock keeps the others out after a success only, as it does those of one process. `announced` and `lost`
count, per channel, the messages for the current date and those no row tells of, `overlaps` the runs that started while
another was at the same date. The kind of a reminder is not kept: a completion
may be any of `Kinds`, as a PUT may change the recurrence; `by_mail` is taken as set.

**AuditChain** (`txpool.go`, `audit_recorder.go`, `audit_chain.go`, `audit_purge_service.go`).
`pending`/`mark` are `Tx.pending` and `Tx.savepoint`, and `data`/`base` what the
database itself would keep. Each committed event is appended by a goroutine of
its own under `chainMu`: read the newest hash, insert. A hash is modelled as the
set of row ids folded into it, which is injective for the same reason SHA-256
over a list is taken to be: ids ascend along the table. The set of users being
deleted that the recorder keeps only chooses between two log levels and is left out.

**ContactSync** (`contact_sync_service.go`, `sync_conflict_service.go`). One run holds the
subscription's mutex and goes through `SyncCollection`, `MultiGetAddressBook` or the
`FallBack` to `QueryAddressBook`, each a request to a book that changes between
them, and applies it all in `Reconcile`, one transaction; `StoreToken` is a
statement of its own, and a run gives up after any step. `card` is the contact,
`hash` and `synced` its link, `pre` the baselines captured before the fetch. An object may be `Unreadable`: the run has
seen it and skips it (`Readable`). Trashing a contact deletes its conflicts, and a restore does not bring them back.
`mine` is history: what the user typed and the code owes to keep or to report, `Discarded` where only a conflict had it
when the contact went to the trash; `origin`
and `born` tell one life of a remote object from the next; `missed` is what the stored
token passed without applying it, and only the property reads it.

**Tracking** (Android: `SmsReceiver`, the two workers, `PendingInteractionFlusher`,
`DefaultSessionManager`). `log` is the phone, `mark` the two cursors, `rows` the
outbox with `synced`, and `pc[p]` where a capture is: look-up, insert with its
trim, cursor. `gate` is the `SessionTransitionGate`: a flush, or a switch or a
logout with its drain, count, wipe and swap, holds it; captures do not. The server is
what KeyedWrites promises of it while the key lives: one activity per key and account. `Die` forgets
everything that is not stored.

**Images** (`image_service.go`, `note_controller.go`, `image_sweep_service.go`, `purge_service.go`).
One note; `row[i]` and `file[i]` are written apart, and `at[i]` is the step of the
upload or delete of image i. The update of the note counts its images and saves in
two steps. The sweep lists files, then reads rows, then removes one by one, and the
same again for empty notes; the purge collects, deletes rows, and removes files.

**Upgrade** (`migrate.go`, `premigration_backup.go`, `sqlite_driver.go`). `db` is the file: the version row
(`version`, `dirty`), what its tables are (`schema`, the migrations whose body is applied) and the
users' data with the schema it was written under (`data`, `wrote`). `pc[p]` walks a start of the server or
of `migrate up` through `MigrationVersion`, the snapshot, the preflight and, per migration, the driver's
three transactions. A body that another process has applied already fails, unless it is one of the `Repeatable` ones
(those that say `IF NOT EXISTS`, or only fill in data, as 000042 and 000030): these succeed again. `Abort` is a failed statement, a stop or a kill; `Deploy`, `Restore` and
`MigrateForce` are the operator's. `uncovered` is history: the states of the data for which one of two
named reasons leaves no snapshot.

Interactions: AuditChain's `GateFree` is the write gate seen from its callers
(no write while another's transaction is open), which `TransactionsExclude` proves of WritePool;
Webhooks relies on JobLock for one run of the retry job at a time, under the
conditions `OneRunAtATime` (section 5) states, which that job meets (it has no boot-time trigger); the daily reminders
have one and do not meet them, so Reminders lets runs overlap; Reminders uses the
compare-and-swap of RevisionCAS, as do ContactSync (a restore of a value is refused if the contact
has moved on) and Images (one update of a note at a time); ContactSync's trash
is that of RevisionCAS; Tracking takes the server's promise from KeyedWrites,
which Idempotency implements.

## 3. The runs

States are distinct states of the complete graph.

| Run | Instance | States | Shows |
|---|---|---|---|
| `write_gate` | a patient writer, one with a timeout, a priority writer with a timeout; transactions of all three | 20,231 | one owner, no lost wake-up, SQLite is only contended behind it when a context ended, WriteLock implemented, service |
| `job_lock` | two processes, both triggers, Period 4, Margin 1, StaleAfter 3, RunLimit 4 | 15,251 | successes a window apart, a fresh lock is given up only by its owner, a leaked one is reclaimed |
| `idempotency` | one key, two bodies, two requests, limits 1/1/2 | 62,464 | the middleware implements KeyedWrites (one write per key, true replays); owner keeps key, final refusals, in progress ends |
| `webhooks` | two events, three attempts, one slot | 13,338 | one attempt at a time, an open event is scheduled, every event ends |
| `revision_cas` | two clients, four revisions | 975,908 | a revision names one content, no lost update, the handlers implement Contact (requests are atomic, no resurrection) |
| `reminders` | one reminder of each kind, the scheduled run and an administrator's, email and one push channel, complete/update/delete, two dates, one lost record, one overlap | 793,779 | a date is announced once, plus lost records and overlapping runs; the user's change is not undone; what stays due is announced |
| `audit_chain` | two requests, two users, three writes of two actors | 201,940 | exactly the committed writes recorded, the chain verifies between known cuts, every wait ends |
| `contact_sync` | one object, readable or not, of two fields with two values, two sync requests, two changes of the book | 2,524,741 | nothing typed is dropped unreported, the token is not ahead of what was applied, archived means deleted remotely, one life is one contact |
| `tracking` | two accounts, one receiver, one worker of each log, a call and a message, two rows, a cap of one | 5,881,015 | rows are sent as their account; cursors stay behind captures; a switch loses nothing it counted; no row the server lacks leaves the outbox but by a trim or a wipe |
| `images` | one note, two images, a limit of one | 227,626 | a live image has its file; only an overlap empties a note |
| `images_sweep` | one note, one image | 11,126 | orphans are swept, empty notes end |
| `upgrade` | a server and `migrate up`, two releases two migrations apart, the first of which can be applied again, two states of the data, six failures or deeds of the operator | 1,430,017 | a clean version row is true but for that migration, migrated data has its snapshot, restarts settle |

Why these bounds. *Writers*: the gate distinguishes ordinary from priority and patient
from impatient; three writers give a holder, a woken or granted waiter and one
behind it, which every branch of `releaseLocked` and `giveUp` needs at most.
*Jobs*: with RunLimit above StaleAfter a run can outlive its lock and release
late, and two processes are the least that can take over; Period 4 with Margin 1
separates window, stale time and run time. *Requests*: a key's row tells its owner
from everybody else, and a later request stands for all later ones, as a request
that was answered starts over. RequestLimit = PendingTimeout is the tightest
setting the code allows itself. *Webhooks*: a first, a middle and a last attempt are
the three kinds the code tells apart; two events are needed to compete for a
slot. *Revisions*: two writes between one client's load and its save are the
deepest interference, which takes four revisions. *Reminders*: the second date is needed for
old rows to matter, and two runs are the least that overlap, one with the lock and one without. *Audit*: two writes inside and one outside a savepoint, of
actors one of whom is deleted, give a chain with a removable middle.

*Sync*: two fields are needed to tell an edited field from one that was not, two values to
differ, two requests for a token loaded before another run stored its own, and two changes
of the book for a delete and a rebirth; objects meet only in a batch, whose members
are independent, and the theorems hold for any number of them. *Tracking*: the
second account is the one that must not get the first one's rows, and one row above the cap
is what evicts; paging, overlapping workers of one log and several messages are beyond
the run (a second entry per log is already too many states) and are covered by the theorems, which hold for any number
of each. *Images*: two images and a limit of one let an upload meet a delete and two
deletes meet each other; the liveness of one file depends on no other image, and with
two TLC does not finish in minutes. *Upgrade*: releases 2 and 4 with the floor at 2 give an intermediate version
below the floor (a new installation that stops at 1) and one above it (an upgrade that stops at 3), and a
release that is older than the file; two states of the data tell a snapshot of this upgrade from one of an
earlier attempt; six events are enough for an upgrade that fails, a restore, a write and the same upgrade again.

MaxRevision, MaxOccurrence, MaxLost, MaxOverlap, MaxClock, MaxEntries, MaxRows, MaxWrites, MaxEvents and the number of `Events` bound counters
that only count a user's actions; nothing in the models depends on them
otherwise, and the theorems hold for every value. `CHECK_DEADLOCK FALSE` is
set for RevisionCAS, where a purged contact ends the story, and for Tracking, where the
rows are used up and nobody is logged in.

The modules also define claims of the code's documents that the code does not keep
(section 6): `ServedIfWokenRun`, `AtMostOneRun`, `NothingLost`, `PhotoKept`, `AnnouncedOnce`, `OldDeliveriesDoNotBlock`,
`DeletionsArrive`, `NextSyncRedetects`, `SentAsRecorded`, `MissedAreRecovered`, `SweepTakesOnlyEmpty`, `AlwaysRollbackPoint`,
`RestartsResume`. No run
checks them; TLC gives the counterexample when the name is added to the module's cfg.
Others that hold are left to the theorems of section 5, among them `AppliedOnce` (which `ImplementsKeyedWrites`
contains), `NoResurrection` (`ImplementsContact`), `StagedOnce` and `OutboxIsCapped`.

## 4. Fairness

Each liveness property rests on the fairness the code gives, and no more.

- WriteGate, WritePool: a goroutine that was woken gets `g.mu` and runs; a
  transaction's caller ends it or its context ends; `AfterFunc` and
  database/sql's watcher are goroutines and run. Nothing makes a particular waiter win a
  race: `ServedInTurn` assumes that at most one writer is awake at a time
  (`AtMostOneWoken`) and that priority writers stop waiting at some point; without
  the second assumption it is false (`ServedIfWokenRun`), without the first
  goroutines that never wait may win every race against a woken one.
- JobLock: the clock ticks, a run ends within RunLimit or its process stops, and a
  stopped process is started again. No crash is fair, and none is forbidden.
- Idempotency: the clock ticks and a request that is being served goes on.
- Webhooks: the retry job runs, each attempt ends (the HTTP client has a timeout), and the
  semaphore starves nobody that waits (strong fairness: a Go channel is a FIFO). A row that is due
  again and again is handled some time rather than skipped for ever.
- Reminders: days pass and the scheduler starts the runs that take the lock, and no one has to press the
  administrator's button; strong fairness of each
  step of a run says that the process does not stop at the same step every day, and
  that a send that is tried every day succeeds some day.
- ContactSync and Tracking claim no liveness: a run is started by a user or by an interval
  whose next occurrence repeats it, and the phone's system starts and stops the rest as it sees fit.
- Images: a request that was begun ends, hours pass, and the daily sweep and purge are
  started; that a statement or a removal fails, or that the process stops, does not happen at the same
  step every day (strong fairness of the reads and removals). The model assumes that less
  than an hour lies between an upload's file and its row (`imageSweepGrace`; the code
  between them is one transaction), that a request does not last for the days of the retention, and that the retention is
  not set to 0 days, which switches the purge off.
- Upgrade: the container is restarted when it stops (`restart: unless-stopped`), so a server that is down is started, and
  a start goes on; failures and what the operator does are not fair, and `MaxEvents` says that they end some day.
- AuditChain: handlers end their transactions, goroutines run, and `chainMu` is
  obtained by everybody who waits for it (strong: a Go mutex in starvation mode
  is FIFO).

## 5. Proofs

TLAPS checks every obligation (about 9,500) without assumptions beyond the named ones on the
constants:

- the writers include `Priority` and `Impatient`; `Period`, `Margin`, `Window` and the job's times are natural numbers;
- `RequestLimit <= PendingTimeout` and `PendingTimeout + RequestLimit <= Retention`
  (`idempotencyPendingTimeout` is built from the server's write timeout and the retention is counted in hours);
- there is an attempt and a slot at least (`maxDeliveryAttempts`, the capacity of `deliverySem`); no sender occurs
  twice in the list of a daily run (`notification_service.go:85-90` builds it from four distinct services); the triggers of the reminders are finitely many;
- an audited write has one actor; `None` is no body, card or account; `Unreadable` is no card, `Discarded` no value; receivers and workers are different
  instances; `Limit`, `Cap` and `ReadLimit` are positive; the images of a note are finitely many;
- the server is one of the processes that migrate, every release is at or above the floor, and the `Repeatable`
  migrations are any.

The theorems hold for any number of writers, processes, requests, events, runs, channels, clients, revisions, rows,
objects, fields, accounts, images and releases. Two components share a proof module where they share what is proved
about the database or about scheduled jobs.

- **DatabaseProofs**, the gate: `TypeCorrect`, `OneWriterAtATime`, `QueueExact`,
  `WakeupsAreNotLost`, `HandOversInOrder`, `GateIsALock`. Mutual exclusion
  alone is not inductive: `release` decides by `held` and the queue, so the
  invariant has to say that `held` agrees with who is past the gate, that the
  queue holds each parked writer once, that a queue in front of a free gate has a
  woken writer, and that starvation mode is only on while the gate is held
  (`StarvingIsHeld`): otherwise a newcomer that queues because of it would park in front of a free gate. `GateIsALock`
  is step simulation: `Init => Lock!Init` and `[Next]_vars => [Lock!Next]_Lock!vars`
  under the mapping owner <- Admitted, waiting <- Waiting.
- **DatabaseProofs**, the pool: `PoolTypeCorrect`, `PoolUsesGate`, `SqliteStaysBehindGate`, `TransactionsExclude`,
  `PoolIsALock`. A `Tx` can be released from three goroutines, so the invariant says that one whose `Once` has not fired
  still has the gate (`TxHoldsGate`) and that SQLite's lock is an open transaction's or that of one whose context ended
  (`SqliteIsOwned`). Then every step of the pool is a step of the gate by its owner or leaves it alone
  (`PoolSpec => Spec`), and what is proved of the gate holds of transactions: `PoolSpec => Lock!Spec`.
- **DatabaseProofs**, upgrades: `UpgradeTypeCorrect`, `SchemaStaysKnown`, `RollbackIsPossible`. Two processes may
  migrate one file, so the invariant (`MigrationsInStep`) says how far each may lag or lead: none is ahead of the schema
  by more than one; one about to apply a new body has marked the file dirty, unless another has marked it clean for a body
  that it applied again; and between a body that can be applied only once and its clean mark nobody else is as far. For
  the snapshots, `HasWayBack` and `CoveredBeforeMigration` say of the file, of each snapshot and of
  each process that what a migration has touched or is about to touch is saved, or `uncovered` names why not; a process
  that has neither is at its release by the row, or below the floor and about to be refused.
- **JobProofs**, the lock: `TypeCorrect`, `SuccessesAreApart`, `FreshLocksAreSafe`,
  `OneRunAtATime`. The row's invariant (`RowInv`) says that nothing succeeded before the
  row exists, that a run that still holds the lock started a window after the last success
  (so its own success may be recorded), and that last_run_at is no older than the last success.
  The last theorem is the positive side of `AtMostOneRun`: with one trigger
  per process and runs shorter than StaleAfter (`Regular`) a run holds the lock
  for as long as it lasts (`HolderInv`), so the job never overlaps itself.
- **JobProofs**, webhooks: `WebhookTypeCorrect`, `EventsAreScheduledOnce`, `OpenEventsAreScheduled`,
  `RequestsAreBounded` (no more requests than attempts, whatever stops) and `SettledEventsStay`. The invariant counts the
  requests against the attempts begun (`SendsCounted`), ties a row that waits to the last attempt (`RowIsLast`), and says
  that what the retry job has loaded is still due (`BatchIsDue`) and belongs to an open event (`ScheduledIsOpen`).
- **JobProofs**, reminders: `ReminderTypeCorrect`, `RepeatsAreBounded`, `UserIsObeyed`. A run decides by the rows
  it read at its start, so what was told since by others it may tell again. The proof counts, per channel and date: the messages that
  went out and the runs that may still send one (`MaySend`) are together at most `1 + lost + overlaps`. That alone is not
  inductive, as a record can be lost and a row can turn up under a run that will not look again; so `Accounted` also
  bounds the runs that have the channel before them (`Ahead`) once a row is there, and says that without a row, and
  without a run about to write it (`InHand`), every message is a lost or an overlapping one's.
- **IdempotencyProofs**: `TypeCorrect`, `NeverAppliedTwice`, `ClaimsHold`,
  `RefusalsAreFinal`, `MiddlewareIsKeyedWrites`. The strengthening is ownership: an in-flight
  owner's row exists, carries its body's fingerprint and is exactly as old as the
  request; together with the two timeouts this is why the age-based purge and
  the age-based verdict never touch a live request. The same invariant carries the refinement: a claim is an `Ask`, a
  handler's commit an `Apply`, a stored answer or a replay a `Confirm`, and the purge a `Forget` that is refused while an
  owner has written and not answered.
- **RevisionCASProofs**: `TypeCorrect`, `RevisionsIdentifyCards`,
  `UpdatesAreKept`, `DeletedStaysDeleted`, `HandlersAreAtomic`. A PUT does not merge, it replaces, so
  `NoLostUpdate` needs more than the compare-and-swap: the client's copy at the
  loaded revision *is* the row's content at that revision (`RevisionIdentifiesCard`,
  `MatchedLoad`), loaded flags are the row's (`LoadedFlags`), and the snapshot of a contact in the
  trash is complete (`TrashIsComplete`). The same invariant shows that each save is a step of Contact: a conditional
  PUT's copy is the row's content, and the flags it writes back are the row's. A delete that comes after the purge is a
  request that is dropped.
- **AuditChainProofs**: `TypeCorrect`, `ChainVerifies`, `AuditsOnlyWhatCommitted`,
  `LosesNoCommittedWrite`. That the chain verifies now does not say that the next
  row will link, so the invariant says what the hashes are: while nothing is
  cut, row i's `prev` and `hash` fold in exactly the rows below and up to i, the
  append in progress has read all of them (`LinkInv`), and `chainMu` is
  the append's or the re-link's from its read to its write (`LockInv`). "The
  newest row" is a greatest id, which exists for every table (`HasMax`, from the
  well-foundedness of the naturals). For the events, `TxInv` ties what a
  transaction holds to what it has written and the mark of its savepoint to
  the data at that savepoint, and `OnePlace` says that a committed event is held,
  queued, being appended or recorded, and only one of them.
- **ContactSyncProofs**: `TypeCorrect`, `EditsAreKeptOrReported`, `TokensAreApplied`,
  `ArchivesWereDeleted`, `ObjectsAreImportedOnce`, `RestoresChangeOneField`. A
  run decides by what it read some time ago, so the invariant ties each thing read to what
  it can have become since: one run at a time has read anything (`LockInv`); a card that
  was fetched is the book's, or the book has changed after the token the run will store (`GotInv`, `DeltaInv`, `QueryInv`); the
  values that differ from the baseline are all the user's (`EditInv`); a link's object is
  of the life it was imported from, or that life is over (`LifeInv`). `TokenInv` then says of both the stored token and
  a run's own that what has not changed since is applied.
- **TrackingProofs**: `TypeCorrect`, `CapturesAreSentByTheirOwner`, `CursorsStayBehind`,
  `CallsAreStagedOnce`, `SwitchesLoseNothingCounted`, `OutboxKeepsToItsCap`, `OnlySentRowsLeave`. `OwnerInv`: a row in the outbox
  or in a flush is the active account's, or nobody's, or a stray; `CountInv`: what a switch counted is
  no later than the last row, and nothing older is unsynced; `PageInv`: what a worker has passed of
  its page is captured, and it holds the rest. For what leaves the outbox, ids are given once (`UniqueIds`), a
  row is marked only when the server has it (`SyncedIsSent`), and the trim keeps the newest `Cap` rows of a set that is
  finite and totally ordered by age (`TrimmedIsCapped`).
- **ImagesProofs**: `TypeCorrect`, `LiveImagesKeepTheirFiles`, `EmptiedOnlyByOverlap`.
  Three parties remove files, so the invariant says of each what it may still remove: an upload's own
  file is not old, or it has no row (`UploadInv`); what the sweep has listed and not found named by a row
  cannot get a row any more (`SweepInv`); what the purge has collected is dead (`PurgeInv`).

Only model-checked is liveness, which is out of the proof system's reach, as is `ENABLED`: `ServedInTurn`,
`LeakedLockReclaimed`, `InProgressEnds`, `EventsEnd`, `DueIsAnnounced`, `DrainEnds`, `OrphansAreSwept`, `EmptyNotesEnd`,
`RestartsSettle`, and the fairness half of `ImplementsLock`. Every safety invariant and action property that a run checks
is a theorem, and so is the type invariant of each of the eleven components.

## 6. Where the code and its documentation disagree

The quotations and the lines are in `PROJECT.json`. Each of these is an exception that a
property or theorem names, or a claim a module states that fails, unless it says otherwise.

1. Priority writers can starve ordinary ones (`ServedIfWokenRun`; excepted by `ServedInTurn`).
2. A process's boot-time run and its tick can overlap (`AtMostOneRun`; `OneRunAtATime` is the condition), and so can an
   administrator's run and either: two runs that read the delivery rows before the other records announce a date twice
   (`AnnouncedOnce` fails, `RepeatsAreAccountedFor` counts the overlaps).
3. A webhook event is not durable before its first attempt is over, nor during a
   retry (excepted by `OpenIsScheduled`).
4. A reminder's old delivery row can hide its next date, after a completion
   that races the run, or after any update of an announced reminder's date
   (excepted by `DueIsAnnounced`).
5. An import's photo can be lost to a PUT; its write moves no revision
   (`PhotoKept`). The same bulk update is in
   `meerkat_import_api.go:299` and `account_bundle_images.go:346`.
6. A recurring reminder that does not recur from completion is completed for
   good (one request shows it).
7. Deleting an account cuts the audit chain and nothing re-links it before a
   restart (excepted by `ChainHolds` with the reason `"account"`).
8. A deletion in the book before a sync that had no token never arrives; a change made while the
   contact was in the trash does not arrive after its restore (both excepted by `TokenIsApplied`). Trashing a contact
   deletes its pending conflicts for good; what only a conflict had of the user's is gone after a restore, and no later
   sync tells it from an old value (excepted by `KeptOrReported`, `NextSyncRedetects` fails).
9. Tracked rows can be sent as another account than they were recorded for, around a logout, a login and a
   switch (the `strays` of `SentByOwner`); a row captured between a switch's count and its wipe is lost unasked.
10. A message whose broadcast was missed is not recovered once a later broadcast has moved the cursor
    (excepted by `CursorBehindCapture`); a message can be staged twice, by the worker and by a slow broadcast;
    overlapping call runs can set the watermark back, and calls beyond the newest fifty are never read; what a logout
    wipes is not read again (no property: the code is read off in one place each).
11. A note can be left with neither text nor image by an update and a delete that overlap (named by `EmptiedByOverlap`); the
    sweep can delete a note that has just got its first image (`SweepTakesOnlyEmpty`); a contact's main
    image can be deleted under its pointer (not modelled).
12. An upgrade that is tried again takes the snapshot of the earlier attempt for its own, by its name, whatever was written
    since (excepted by `RollbackPoint`, `AlwaysRollbackPoint` fails); a new installation that stops between two
    migrations below the floor is refused by every later start (excepted by `RestartsSettle`, `RestartsResume` fails).

Observed while modelling, with no claim in the repository to the contrary or
with one that is hedged:

- The gate admits newcomers over parked writers while it is not starving, by
  design; the wake-up order is not longest-first once losers re-enter in front.
- A job whose first run never succeeded is suppressed for one window; a
  suppressed trigger's `deduped` overwrites the outcome of a run in progress.
- After a crash between claim and commit a key is refused until it is purged,
  though nothing was written (`apperrors` says as much).
- A DELETE with If-Match compares outside its transaction (ADR 0018 section 5 names it);
  a stale delete that arrives after the purge leaves an orphan snapshot row; a
  CardDAV PUT with If-Match on a deleted contact creates a new one.
- A message whose answer was lost, or that went out just before the process
  stopped, is sent again the next day.
- The integrity check can see a purge before its re-link and report a gap; a
  re-link that failed is not repeated by a purge that finds nothing to delete;
  goroutines reach `chainMu` in any order, so the log's order need not be the
  commit order.
- A note created with white space only and no image is not empty to the sweep (`content = ''`) and not
  valid to the update, and stays.
- An object of the book that the codec refuses is skipped and the token stored, so it is not read again before it
  changes, or before a full read (excepted by `TokenIsApplied`).
- A process that applies a `Repeatable` migration again sets the version row back to it, and clean, while the tables are
  further; a start then applies again what it can, and stops dirty at the first body that fails (excepted by
  `SchemaIsKnown`).
- A sync request that waited for another's lock goes on with the token it loaded before, and reads again
  what the other has applied, which changes nothing.

## 7. What is not modelled, and why

Listed in `PROJECT.json` with reasons. In short: data transformations
(converters, feeds, search, import formats, merge mapping) have no
interleaving and are covered by the repository's own round-trip and fuzz tests;
rendering and I/O clients hold no shared state; authentication
and encryption have hazards of their own and are left to the plan below. Inside modelled components: the gate's statistics
and registry, webhook signing and address policy, the email digest's birthdays, push devices,
the per-table contents of the delete cascade, audit snapshots' redaction; of the address book sync the
CRM-only fields, changes of the subscription itself and merges, and that a new codec does not bring in what an old one
refused; of the contact's restore the rows it skips because what they point to is gone; of the webhooks the ten seconds
a graceful stop waits for the deliveries; of the tracking the local profile, the SMS backfill and
switching it off; of the images the main image of a contact, the other two galleries, de-duplication and quotas; of the
upgrade `migrate down`, the integrity probe, the bridge for installations below the floor and the routine backups. By lines
most of the repository is of the first kind: CRUD handlers, converters and screens.

## 8. Plan

Done: write gate, job lock, idempotency, webhooks, revisions, reminders, audit chain, address book sync, Android
tracking, images, migrations and their backups; proofs of all safety properties of the eleven components.

Next, in order:

1. *Authentication*: login lockout, single-use codes, device grants and token
   versions, with checks and revocations in different statements.
2. *Compositions*: Tracking over KeyedWrites, with retries that outlive a key; Webhooks over JobLock
   instead of the assumption of one run, Reminders over it instead of its looser `MayStart`; AuditChain over WritePool instead of `GateFree`, with the priority lane.
3. *Abstract specifications* of the components that have none: AuditChain as a set of committed writes, Tracking's
   outbox as a queue per account.
4. *Keys*: at-rest rotation and backfill; VAPID initialisation.
5. *A contact's main image* and the other galleries, as Images.
