----------------------------- MODULE WritePool -----------------------------
(***************************************************************************)
(* internal/writegate: transactions on the gate (Pool and Tx).             *)
(*                                                                         *)
(* BeginTx acquires the gate, opens a database/sql transaction and returns *)
(* a Tx whose release runs once: from done, which Commit and Rollback      *)
(* defer, or from the context's AfterFunc, which runs in a goroutine of    *)
(* its own.  When a context ends database/sql rolls the transaction back   *)
(* too, in yet another goroutine, so SQLite's own lock and the gate are    *)
(* given up independently.                                                 *)
(*                                                                         *)
(* A writer is one caller at a time: it starts a new transaction when the  *)
(* last one has left SQLite (another writer stands for an earlier one).    *)
(***************************************************************************)
EXTENDS WriteGate

VARIABLES
  tx,          \* per writer: "none", "open", "ended" (Commit or Rollback
               \* returned from database/sql, done has not run), "done"
  released,    \* the writers whose Tx's sync.Once has fired
  ctxDone,     \* the writers whose transaction's context ended
  sqlite       \* SQLite's write lock: {} or the writer whose transaction has it

poolVars == <<tx, released, ctxDone, sqlite>>
allVars == <<held, starving, waiters, st, since, overdue, tx, released, ctxDone, sqlite>>

PoolTypeOK ==
  /\ TypeOK
  /\ tx \in [Writers -> {"none", "open", "ended", "done"}]
  /\ released \subseteq Writers
  /\ ctxDone \subseteq Impatient
  /\ sqlite \in SUBSET Writers /\ Cardinality(sqlite) <= 1

PoolInit ==
  /\ Init
  /\ tx = [w \in Writers |-> "none"]
  /\ released = {}
  /\ ctxDone = {}
  /\ sqlite = {}

(* acquire, from BeginTx or ExecContext.                                   *)
Arrive(w) ==
  /\ tx[w] = "none" /\ w \notin sqlite
  /\ TakeFree(w) \/ Enqueue(w)
  /\ UNCHANGED poolVars

Wait(w) ==
  /\ ReceiveGrant(w) \/ WinRace(w) \/ LoseRace(w) \/ GiveUp(w) \/ Age(w)
  /\ UNCHANGED poolVars

(* BeginTx succeeds: BEGIN IMMEDIATE has SQLite's lock, and the Tx gets a  *)
(* once and a watch on the context of its own.                             *)
BeginTx(w) ==
  /\ st[w] = "holding" /\ tx[w] = "none"
  /\ sqlite = {}
  /\ sqlite' = {w}
  /\ tx' = [tx EXCEPT ![w] = "open"]
  /\ released' = released \ {w}
  /\ ctxDone' = ctxDone \ {w}
  /\ UNCHANGED vars

(* BeginTx fails (context over, SQLite busy behind a writer outside the    *)
(* gate or an unfinished rollback), or ExecContext ran its statement.      *)
ReturnWithoutTx(w) ==
  /\ tx[w] = "none"
  /\ Release(w)
  /\ UNCHANGED poolVars

(* once.Do(p.gate.release)                                                 *)
ReleaseOnce(w) ==
  IF w \in released
  THEN UNCHANGED <<vars, released>>
  ELSE /\ ReleaseLocked(w)
       /\ released' = released \cup {w}

(* The caller's context ends with the transaction still running.           *)
ContextEnds(w) ==
  /\ w \in Impatient \ ctxDone
  /\ tx[w] \in {"open", "ended"}
  /\ ctxDone' = ctxDone \cup {w}
  /\ UNCHANGED <<vars, tx, released, sqlite>>

(* A mutation of AfterFunc: BeginTx does not watch the context.            *)
NoAfterFunc(w) == FALSE

(* context.AfterFunc(ctx, t.release), not stopped by done.                 *)
AfterFunc(w) ==
  /\ w \in ctxDone \ released
  /\ tx[w] \in {"open", "ended"}
  /\ ReleaseOnce(w)
  /\ UNCHANGED <<tx, ctxDone, sqlite>>

(* database/sql's own watcher rolls the transaction back.                  *)
DriverRollback(w) ==
  /\ w \in ctxDone \cap sqlite
  /\ sqlite' = {}
  /\ UNCHANGED <<vars, tx, released, ctxDone>>

(* A mutation of EndTx: it returns before SQLite's lock is free.           *)
EndTxEarly(w) ==
  /\ tx[w] = "open"
  /\ tx' = [tx EXCEPT ![w] = "ended"]
  /\ UNCHANGED <<vars, released, ctxDone, sqlite>>

(* t.tx.Commit() or t.tx.Rollback() returns.  With the context over it may *)
(* return while the watcher's rollback is still under way.                 *)
EndTx(w) ==
  /\ tx[w] = "open"
  /\ tx' = [tx EXCEPT ![w] = "ended"]
  /\ \/ sqlite' = sqlite \ {w}
     \/ w \in ctxDone /\ UNCHANGED sqlite
  /\ UNCHANGED <<vars, released, ctxDone>>

(* The deferred t.done(): stop the watch, release.                         *)
Done(w) ==
  /\ tx[w] = "ended"
  /\ tx' = [tx EXCEPT ![w] = "done"]
  /\ ReleaseOnce(w)
  /\ UNCHANGED <<ctxDone, sqlite>>

(* GORM rolls back a transaction that already ended: sql.ErrTxDone, and    *)
(* done runs again.  The caller then drops the Tx.                         *)
LateRollback(w) ==
  /\ tx[w] = "done"
  /\ tx' = [tx EXCEPT ![w] = "none"]
  /\ ReleaseOnce(w)
  /\ UNCHANGED <<ctxDone, sqlite>>

PoolStep(w) ==
  \/ Arrive(w) \/ Wait(w) \/ BeginTx(w) \/ ReturnWithoutTx(w)
  \/ ContextEnds(w) \/ AfterFunc(w) \/ DriverRollback(w)
  \/ EndTx(w) \/ Done(w) \/ LateRollback(w)

PoolNext == \E w \in Writers : PoolStep(w)

PoolSpec == PoolInit /\ [][PoolNext]_allVars

(* Goroutines are scheduled and time passes.  A caller ends its            *)
(* transaction, or goes away and its context ends.                         *)
PoolFairness ==
  \A w \in Writers :
    /\ WF_allVars((ReceiveGrant(w) \/ WinRace(w) \/ LoseRace(w)) /\ UNCHANGED poolVars)
    /\ WF_allVars(Age(w) /\ UNCHANGED poolVars)
    /\ WF_allVars(BeginTx(w) \/ ReturnWithoutTx(w))
    /\ WF_allVars(ContextEnds(w) \/ (w \notin ctxDone /\ EndTx(w)))
    /\ WF_allVars(AfterFunc(w))
    /\ WF_allVars(DriverRollback(w))
    /\ WF_allVars(Done(w))

PoolFairSpec == PoolSpec /\ PoolFairness

-----------------------------------------------------------------------------
(* Behind the gate nobody waits in SQLite's busy handler: a transaction    *)
(* that has SQLite's lock has the gate, unless its context ended and       *)
(* database/sql is still rolling it back (BeginTx, Tx.done).               *)
SqliteBehindGate ==
  \A w \in sqlite : st[w] = "holding" \/ w \in ctxDone
=============================================================================
