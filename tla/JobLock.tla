------------------------------ MODULE JobLock ------------------------------
(***************************************************************************)
(* services/job_lock.go: the job_executions row that de-duplicates one     *)
(* scheduled job across its boot-time and scheduled triggers, restarts and *)
(* server instances.                                                       *)
(*                                                                         *)
(* acquireJobLock and releaseJobLock are one IMMEDIATE transaction each,   *)
(* and a suppressed acquire one more statement: an action each, with the   *)
(* job running in between.  A refused acquire (fresh lock of another       *)
(* instance, or SQLITE_BUSY on every attempt) changes nothing and is no    *)
(* action.  Times are ages in ticks, saturating where the code stops       *)
(* telling them apart, so the clock has no bound.                          *)
(***************************************************************************)
EXTENDS Naturals, FiniteSets

CONSTANTS
  Instances,     \* getInstanceID: hostname-pid of the server processes
  NoInstance,    \* locked_by = ""
  Triggers,      \* what fires the job in one process: the boot-time run, the tick
  Period,        \* the job's schedule
  Margin,        \* JobCatchupMargin
  StaleAfter,    \* lockTimeout
  RunLimit       \* a run ends within this time

Least(a, b) == IF a < b THEN a ELSE b

(* JobCatchupWindow: the margin is at most a quarter of the period.        *)
JobCatchupWindow(period) ==
  IF period = 0 THEN Margin ELSE period - Least(Margin, period \div 4)

Window == JobCatchupWindow(Period)

ASSUME LockAssumption ==
  /\ NoInstance \notin Instances
  /\ Period \in Nat /\ Margin \in Nat /\ StaleAfter \in Nat /\ RunLimit \in Nat
  /\ Window \in Nat

VARIABLES
  created,       \* the job_executions row exists
  sinceRun,      \* time since last_run_at
  lockAge,       \* time since locked_at, which is null exactly when
  lockedBy,      \* locked_by is ""
  outcome,       \* last_outcome, "none" while it is empty
  alive,         \* the processes that are up
  run,           \* per instance and trigger: the age of the run in progress, or Idle
  suppressed,    \* the runs refused as too recent that have yet to record it
  sinceSuccess   \* history: time since a success was last recorded

row == <<created, sinceRun, lockAge, lockedBy, outcome>>
vars == <<created, sinceRun, lockAge, lockedBy, outcome, alive, run, suppressed,
          sinceSuccess>>

Runs == Instances \X Triggers
Idle == RunLimit + 1
Running == {r \in Runs : run[r] # Idle}

TypeOK ==
  /\ created \in BOOLEAN
  /\ sinceRun \in 0..2 * Window
  /\ lockAge \in 0..StaleAfter
  /\ lockedBy \in Instances \cup {NoInstance}
  /\ outcome \in {"none", "running", "ran", "caught_up", "deduped", "failed"}
  /\ alive \subseteq Instances
  /\ run \in [Runs -> 0..Idle]
  /\ suppressed \subseteq Runs
  /\ sinceSuccess \in 0..Window
  /\ \A r \in Running : created /\ r[1] \in alive

Init ==
  /\ created = FALSE
  /\ sinceRun = 2 * Window
  /\ lockAge = StaleAfter
  /\ lockedBy = NoInstance
  /\ outcome = "none"
  /\ alive = Instances
  /\ run = [r \in Runs |-> Idle]
  /\ suppressed = {}
  /\ sinceSuccess = Window

-----------------------------------------------------------------------------
(* acquireJobLock *)

(* The run r may start: its process is up and it is not already running.   *)
CanFire(r) == r[1] \in alive /\ run[r] = Idle /\ r \notin suppressed

StartLocked(r) ==
  /\ lockAge' = 0
  /\ lockedBy' = r[1]
  /\ run' = [run EXCEPT ![r] = 0]
  /\ UNCHANGED <<alive, suppressed, sinceSuccess>>

(* No row yet: Create with last_run_at = locked_at = now.                  *)
FirstRun(r) ==
  /\ CanFire(r)
  /\ ~created
  /\ created' = TRUE
  /\ sinceRun' = 0
  /\ outcome' = "running"
  /\ StartLocked(r)

(* errJobRanTooRecently rolls the transaction back ...                     *)
Suppress(r) ==
  /\ CanFire(r)
  /\ created
  /\ sinceRun < Window
  /\ suppressed' = suppressed \cup {r}
  /\ UNCHANGED <<row, alive, run, sinceSuccess>>

(* ... and the outcome is recorded outside it, if that does not fail.      *)
RecordDeduped(r) ==
  /\ r \in suppressed
  /\ suppressed' = suppressed \ {r}
  /\ outcome' \in {"deduped", outcome}
  /\ UNCHANGED <<created, sinceRun, lockAge, lockedBy, alive, run, sinceSuccess>>

(* Mutations of Lockable: no lock is honoured, and none is ever reclaimed. *)
LockableAnyway(i) == TRUE
LockableIfFree(i) == lockedBy = NoInstance

(* Another instance's lock is honoured while it is fresh.                  *)
Lockable(i) == lockedBy \in {NoInstance, i} \/ lockAge >= StaleAfter

TakeLock(r) ==
  /\ CanFire(r)
  /\ created
  /\ sinceRun >= Window
  /\ Lockable(r[1])
  /\ outcome' = IF sinceRun >= 2 * Window THEN "caught_up" ELSE "running"
  /\ StartLocked(r)
  /\ UNCHANGED <<created, sinceRun>>

-----------------------------------------------------------------------------
(* releaseJobLock, when the run ends.  A row locked by another instance is *)
(* left alone.                                                             *)

EndRun(r) ==
  /\ r \in Running
  /\ run' = [run EXCEPT ![r] = Idle]
  /\ UNCHANGED <<created, alive, suppressed>>

Unlock == lockAge' = StaleAfter /\ lockedBy' = NoInstance

(* Mutations of Succeed: last_run_at is not advanced, and the row is       *)
(* released whoever holds it.                                              *)
SucceedUnrecorded(r) ==
  /\ EndRun(r)
  /\ lockedBy = r[1]
  /\ Unlock
  /\ outcome' = "ran"
  /\ sinceSuccess' = 0
  /\ UNCHANGED sinceRun

SucceedForAnyone(r) ==
  /\ EndRun(r)
  /\ Unlock
  /\ sinceRun' = 0
  /\ outcome' = IF outcome = "running" THEN "ran" ELSE outcome
  /\ sinceSuccess' = 0

Succeed(r) ==
  /\ EndRun(r)
  /\ lockedBy = r[1]
  /\ Unlock
  /\ sinceRun' = 0
  /\ outcome' = IF outcome = "running" THEN "ran" ELSE outcome
  /\ sinceSuccess' = 0

Fail(r) ==
  /\ EndRun(r)
  /\ lockedBy = r[1]
  /\ Unlock
  /\ outcome' = "failed"
  /\ UNCHANGED <<sinceRun, sinceSuccess>>

(* The lock was taken by another instance, or the release itself fails:    *)
(* SQLITE_BUSY on every attempt, or a panic in a job that does not defer   *)
(* the release.                                                            *)
EndUnreleased(r) ==
  /\ EndRun(r)
  /\ UNCHANGED <<sinceRun, lockAge, lockedBy, outcome, sinceSuccess>>

-----------------------------------------------------------------------------
Crash(i) ==
  /\ i \in alive
  /\ alive' = alive \ {i}
  /\ run' = [r \in Runs |-> IF r[1] = i THEN Idle ELSE run[r]]
  /\ suppressed' = {r \in suppressed : r[1] # i}
  /\ UNCHANGED <<row, sinceSuccess>>

(* A container restarts under the same hostname and pid; a process with a  *)
(* new id is another member of Instances.                                  *)
Restart(i) ==
  /\ i \notin alive
  /\ alive' = alive \cup {i}
  /\ UNCHANGED <<row, run, suppressed, sinceSuccess>>

Tick ==
  /\ \A r \in Running : run[r] < RunLimit
  /\ run' = [r \in Runs |-> IF run[r] = Idle THEN Idle ELSE run[r] + 1]
  /\ sinceRun' = Least(sinceRun + 1, 2 * Window)
  /\ lockAge' = Least(lockAge + 1, StaleAfter)
  /\ sinceSuccess' = Least(sinceSuccess + 1, Window)
  /\ UNCHANGED <<created, lockedBy, outcome, alive, suppressed>>

Acquire(r) == FirstRun(r) \/ TakeLock(r)
Finish(r) == Succeed(r) \/ Fail(r) \/ EndUnreleased(r)

Next ==
  \/ \E r \in Runs : Acquire(r) \/ Suppress(r) \/ RecordDeduped(r) \/ Finish(r)
  \/ \E i \in Instances : Crash(i) \/ Restart(i)
  \/ Tick

Spec == Init /\ [][Next]_vars

(* Time passes, runs end, a crashed process is started again, and a        *)
(* trigger that keeps being possible fires.                                *)
Fairness ==
  /\ WF_vars(Tick)
  /\ \A r \in Runs :
       WF_vars(Finish(r)) /\ WF_vars(Acquire(r)) /\ WF_vars(RecordDeduped(r))
  /\ \A i \in Instances : WF_vars(Restart(i))

FairSpec == Spec /\ Fairness

-----------------------------------------------------------------------------
(* With one trigger per process and runs shorter than the stale-lock time, *)
(* the job never runs twice at once, through crashes, restarts under the   *)
(* same id and releases that fail (acquireJobLock, releaseJobLock).        *)
AtMostOneRun == \A r, s \in Running : r = s

(* Two recorded successes are a de-dup window apart: rule 2, "at most one  *)
(* logical occurrence per job per scheduled period runs"                   *)
(* (job_lock.go:26-27).                                                    *)
SuccessesApart ==
  [][\A r \in Runs : Succeed(r) => sinceSuccess >= Window]_vars

RunningIn(i) == \E r \in Running : r[1] = i

(* A fresh lock is only cleared or taken over by its own instance: a late  *)
(* release never frees the lock of the instance that took over             *)
(* (releaseJobLock's locked_by check, acquireJobLock's lock_age check).    *)
FreshLockIsSafe ==
  [][\A i \in Instances :
       lockedBy = i /\ lockAge < StaleAfter /\ lockedBy' # i =>
         \E r \in Running \ Running' : r[1] = i]_vars

(* The lock of a process that died, or whose release failed, does not      *)
(* suppress the job for good: once processes stop crashing, somebody runs  *)
(* it again (stale-lock takeover).                                         *)
LeakedLockReclaimed ==
  <>[](alive = Instances) =>
    \A i \in Instances :
      lockedBy = i /\ ~RunningIn(i) ~> lockedBy # i \/ RunningIn(i)
=============================================================================
