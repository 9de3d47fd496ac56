------------------------------ MODULE JobProofs ------------------------------
(***************************************************************************)
(* Proofs about the background jobs: the lock they run under (JobLock),    *)
(* the webhook deliveries and their retry job (Webhooks), and the daily    *)
(* reminder runs (Reminders).  The components share no state; each has its *)
(* own part here.                                                          *)
(***************************************************************************)
EXTENDS JobLock, Webhooks, Reminders, FiniteSetTheorems, TLAPS

-----------------------------------------------------------------------------
(* JobLock, for every set of instances, period and timeout.                *)


LEMMA ConstantTypes ==
  /\ Window \in Nat /\ 2 * Window \in Nat /\ StaleAfter \in Nat
  /\ RunLimit \in Nat /\ Idle \in Nat /\ Idle = RunLimit + 1
  /\ NoInstance \notin Instances
BY LockAssumption DEF Idle

LEMMA RunTypes == \A r \in Runs : r[1] \in Instances
BY DEF Runs

LEMMA InitType == Init => TypeOK
<1> SUFFICES ASSUME Init PROVE TypeOK
  OBVIOUS
<1>1. sinceRun \in 0..2 * Window /\ lockAge \in 0..StaleAfter /\ sinceSuccess \in 0..Window
  BY ConstantTypes DEF Init
<1>2. run \in [Runs -> 0..Idle] /\ Running = {}
  BY ConstantTypes DEF Init, Running
<1> QED BY <1>1, <1>2 DEF Init, TypeOK

(* A run that starts is the only one whose age changes.                    *)
LEMMA StartLemma ==
  ASSUME TypeOK, NEW r \in Runs, CanFire(r), StartLocked(r)
  PROVE  /\ run' \in [Runs -> 0..Idle] /\ lockAge' \in 0..StaleAfter
         /\ lockedBy' = r[1] /\ lockAge' = 0 /\ run[r] = Idle /\ run'[r] = 0
         /\ \A s \in Runs : s # r => run'[s] = run[s]
         /\ Running' = Running \cup {r}
         /\ Running = Running' \ {r}
<1>1. /\ run' \in [Runs -> 0..Idle] /\ run'[r] = 0 /\ 0 # Idle
      /\ \A s \in Runs : s # r => run'[s] = run[s]
  BY ConstantTypes DEF TypeOK, StartLocked, Idle
<1>2. run[r] = Idle /\ lockAge' = 0 /\ lockedBy' = r[1] /\ lockAge' \in 0..StaleAfter
  BY ConstantTypes DEF CanFire, StartLocked
<1> QED BY <1>1, <1>2 DEF Running

LEMMA FinishLemma ==
  ASSUME TypeOK, NEW r \in Runs, Finish(r)
  PROVE  /\ run' \in [Runs -> 0..Idle] /\ UNCHANGED <<created, alive, suppressed>>
         /\ r \in Running /\ Running' = Running \ {r}
         /\ \A s \in Runs : s # r => run'[s] = run[s]
<1>1. r \in Running /\ run' = [run EXCEPT ![r] = Idle] /\ UNCHANGED <<created, alive, suppressed>>
  BY DEF Finish, Succeed, Fail, EndUnreleased, EndRun
<1>2. /\ run' \in [Runs -> 0..Idle] /\ run'[r] = Idle
      /\ \A s \in Runs : s # r => run'[s] = run[s]
  BY <1>1, ConstantTypes DEF TypeOK
<1> QED BY <1>1, <1>2 DEF Running

LEMMA CrashLemma ==
  ASSUME TypeOK, NEW i \in Instances, Crash(i)
  PROVE  /\ run' \in [Runs -> 0..Idle]
         /\ Running' = {r \in Running : r[1] # i}
         /\ \A r \in Running' : run'[r] = run[r]
<1>1. run' = [r \in Runs |-> IF r[1] = i THEN Idle ELSE run[r]]
  BY DEF Crash
<1>2. run' \in [Runs -> 0..Idle]
  BY <1>1, ConstantTypes DEF TypeOK
<1> QED BY <1>1, <1>2 DEF Running

LEMMA TickLemma ==
  ASSUME TypeOK, Tick
  PROVE  /\ run' \in [Runs -> 0..Idle]
         /\ Running' = Running
         /\ \A r \in Running : run'[r] = run[r] + 1
         /\ sinceRun' \in 0..2 * Window /\ lockAge' \in 0..StaleAfter
         /\ sinceSuccess' \in 0..Window
<1> DEFINE runAfter(r) == IF run[r] = Idle THEN Idle ELSE run[r] + 1
<1>1. run' = [r \in Runs |-> runAfter(r)]
  BY DEF Tick
<1>2. \A r \in Running : run[r] < RunLimit
  BY DEF Tick
<1>3. \A r \in Runs : runAfter(r) \in 0..Idle /\ (runAfter(r) = Idle <=> run[r] = Idle)
  <2> SUFFICES ASSUME NEW r \in Runs
               PROVE  runAfter(r) \in 0..Idle /\ (runAfter(r) = Idle <=> run[r] = Idle)
    OBVIOUS
  <2>1. run[r] \in 0..Idle
    BY DEF TypeOK
  <2>2. CASE run[r] = Idle
    BY <2>2, ConstantTypes
  <2>3. CASE run[r] # Idle
    BY <2>1, <2>3, <1>2, ConstantTypes DEF Running
  <2> QED BY <2>2, <2>3
<1> HIDE DEF runAfter
<1>4. run' \in [Runs -> 0..Idle]
  BY <1>1, <1>3
<1>5. Running' = Running
  BY <1>1, <1>3 DEF Running
<1>6. \A r \in Running : run'[r] = run[r] + 1
  BY <1>1 DEF Running, runAfter
<1>7. sinceRun' \in 0..2 * Window
  BY ConstantTypes DEF Tick, TypeOK, Least
<1>8. lockAge' \in 0..StaleAfter
  BY ConstantTypes DEF Tick, TypeOK, Least
<1>9. sinceSuccess' \in 0..Window
  BY ConstantTypes DEF Tick, TypeOK, Least
<1> QED BY <1>4, <1>5, <1>6, <1>7, <1>8, <1>9

LEMMA TypeStep == TypeOK /\ [Next]_vars => TypeOK'
<1> SUFFICES ASSUME TypeOK, [Next]_vars PROVE TypeOK'
  OBVIOUS
<1>1. ASSUME NEW r \in Runs, FirstRun(r) PROVE TypeOK'
  <2>1. CanFire(r) /\ StartLocked(r) /\ created' = TRUE /\ sinceRun' = 0 /\ outcome' = "running"
    BY <1>1 DEF FirstRun
  <2>2. sinceRun' \in 0..2 * Window
    BY <2>1, ConstantTypes
  <2>3. \A s \in Running' : created' /\ s[1] \in alive'
    <3>1. Running' = Running \cup {r} /\ alive' = alive
      BY <2>1, StartLemma DEF StartLocked
    <3>2. r[1] \in alive /\ \A s \in Running : s[1] \in alive
      BY <2>1 DEF TypeOK, CanFire
    <3> QED BY <2>1, <3>1, <3>2
  <2>4. /\ run' \in [Runs -> 0..Idle] /\ lockAge' \in 0..StaleAfter
        /\ lockedBy' \in Instances \cup {NoInstance} /\ UNCHANGED <<alive, suppressed, sinceSuccess>>
    BY <2>1, StartLemma, RunTypes DEF StartLocked
  <2> QED BY <2>1, <2>2, <2>3, <2>4 DEF TypeOK
<1>2. ASSUME NEW r \in Runs, Suppress(r) PROVE TypeOK'
  BY <1>2 DEF Suppress, row, TypeOK, Running
<1>2a. ASSUME NEW r \in Runs, RecordDeduped(r) PROVE TypeOK'
  BY <1>2a DEF RecordDeduped, TypeOK, Running
<1>3. ASSUME NEW r \in Runs, TakeLock(r) PROVE TypeOK'
  <2>1. CanFire(r) /\ StartLocked(r) /\ created /\ UNCHANGED <<created, sinceRun>>
        /\ outcome' \in {"caught_up", "running"}
    BY <1>3 DEF TakeLock
  <2> QED BY <2>1, StartLemma, RunTypes DEF TypeOK, CanFire, StartLocked
<1>4. ASSUME NEW r \in Runs, Finish(r) PROVE TypeOK'
  <2>1. CASE Succeed(r)
    BY <1>4, <2>1, FinishLemma, ConstantTypes DEF Succeed, Unlock, TypeOK
  <2>2. CASE Fail(r)
    BY <1>4, <2>2, FinishLemma, ConstantTypes DEF Fail, Unlock, TypeOK
  <2>3. CASE EndUnreleased(r)
    BY <1>4, <2>3, FinishLemma DEF EndUnreleased, TypeOK
  <2> QED BY <1>4, <2>1, <2>2, <2>3 DEF Finish
<1>5. ASSUME NEW i \in Instances, Crash(i) PROVE TypeOK'
  BY <1>5, CrashLemma DEF Crash, row, TypeOK
<1>6. ASSUME NEW i \in Instances, Restart(i) PROVE TypeOK'
  BY <1>6 DEF Restart, row, TypeOK, Running
<1>7. CASE Tick
  BY <1>7, TickLemma DEF Tick, TypeOK
<1>8. CASE UNCHANGED vars
  BY <1>8 DEF vars, TypeOK, Running
<1> QED BY <1>1, <1>2, <1>2a, <1>3, <1>4, <1>5, <1>6, <1>7, <1>8 DEF Next, Acquire

(* The row and the history of the job are well typed, and a run is only    *)
(* ever in progress in a process that is up and with its row in place.     *)
THEOREM TypeCorrect == Spec => []TypeOK
BY InitType, TypeStep, PTL DEF Spec

-----------------------------------------------------------------------------
(* What the two lock properties need of the row: before it exists nobody   *)
(* holds it and nothing succeeded; a run that still holds it started a     *)
(* window after the last success; and last_run_at is no older than that.   *)
RowInv ==
  /\ ~created => lockedBy = NoInstance /\ sinceSuccess = Window
  /\ \A r \in Running : lockedBy = r[1] => sinceSuccess = Window
  /\ created => sinceSuccess >= Least(sinceRun, Window)

LEMMA RowInit == Init => RowInv
BY ConstantTypes DEF Init, RowInv, Running

LEMMA RowStep == TypeOK /\ RowInv /\ [Next]_vars => RowInv'
<1> SUFFICES ASSUME TypeOK, RowInv, [Next]_vars PROVE RowInv'
  OBVIOUS
<1>0. /\ sinceRun \in 0..2 * Window /\ sinceSuccess \in 0..Window
      /\ NoInstance \notin Instances /\ Window \in Nat
      /\ \A r \in Runs : r \in Running => created
  BY ConstantTypes DEF TypeOK, Running
<1>1. ASSUME NEW r \in Runs, FirstRun(r) PROVE RowInv'
  <2>1. created' = TRUE /\ sinceRun' = 0 /\ sinceSuccess' = Window
    BY <1>1 DEF FirstRun, StartLocked, RowInv
  <2> QED BY <2>1, <1>0 DEF RowInv, Least
<1>2. ASSUME NEW r \in Runs, Suppress(r) PROVE RowInv'
  BY <1>2 DEF Suppress, row, RowInv, Running
<1>2a. ASSUME NEW r \in Runs, RecordDeduped(r) PROVE RowInv'
  BY <1>2a DEF RecordDeduped, RowInv, Running
<1>3. ASSUME NEW r \in Runs, TakeLock(r) PROVE RowInv'
  <2>1. created' = TRUE /\ sinceRun' = sinceRun /\ sinceSuccess' = Window
    <3>1. created /\ sinceRun >= Window /\ sinceSuccess >= Least(sinceRun, Window)
      BY <1>3 DEF TakeLock, RowInv
    <3>2. sinceSuccess = Window
      BY <3>1, <1>0 DEF Least
    <3> QED BY <1>3, <3>1, <3>2 DEF TakeLock, StartLocked, TypeOK
  <2> QED BY <2>1, <1>0 DEF RowInv, Least
<1>4. ASSUME NEW r \in Runs, Finish(r) PROVE RowInv'
  <2>1. created' = created /\ created /\ Running' \subseteq Running
    BY <1>4, <1>0, FinishLemma
  <2>2. CASE Succeed(r)
    <3>1. lockedBy' = NoInstance /\ sinceRun' = 0 /\ sinceSuccess' = 0
      BY <2>2 DEF Succeed, Unlock
    <3>2. \A s \in Running' : lockedBy' # s[1]
      BY <2>1, <3>1, <1>0, RunTypes DEF Running
    <3> QED BY <2>1, <3>1, <3>2, <1>0 DEF RowInv, Least
  <2>3. CASE Fail(r)
    <3>1. lockedBy' = NoInstance /\ UNCHANGED <<sinceRun, sinceSuccess>>
      BY <2>3 DEF Fail, Unlock
    <3>2. \A s \in Running' : lockedBy' # s[1]
      BY <2>1, <3>1, <1>0, RunTypes DEF Running
    <3> QED BY <2>1, <3>1, <3>2 DEF RowInv
  <2>4. CASE EndUnreleased(r)
    <3>1. UNCHANGED <<lockedBy, sinceRun, sinceSuccess>>
      BY <2>4 DEF EndUnreleased
    <3> QED BY <2>1, <3>1 DEF RowInv
  <2> QED BY <1>4, <2>2, <2>3, <2>4 DEF Finish
<1>5. ASSUME NEW i \in Instances, Crash(i) PROVE RowInv'
  <2>1. Running' \subseteq Running /\ UNCHANGED <<created, lockedBy, sinceRun, sinceSuccess>>
    BY <1>5, CrashLemma DEF Crash, row
  <2> QED BY <2>1 DEF RowInv
<1>6. ASSUME NEW i \in Instances, Restart(i) PROVE RowInv'
  BY <1>6 DEF Restart, row, RowInv, Running
<1>7. CASE Tick
  <2>1. /\ sinceRun' = Least(sinceRun + 1, 2 * Window)
        /\ sinceSuccess' = Least(sinceSuccess + 1, Window)
        /\ UNCHANGED <<created, lockedBy>> /\ Running' = Running
    BY <1>7, TickLemma DEF Tick
  <2>2. sinceSuccess = Window => sinceSuccess' = Window
    BY <2>1, <1>0 DEF Least
  <2>3. sinceSuccess >= Least(sinceRun, Window) => sinceSuccess' >= Least(sinceRun', Window)
    BY <2>1, <1>0 DEF Least
  <2> QED BY <2>1, <2>2, <2>3 DEF RowInv
<1>8. CASE UNCHANGED vars
  BY <1>8 DEF vars, RowInv, Running
<1> QED BY <1>1, <1>2, <1>2a, <1>3, <1>4, <1>5, <1>6, <1>7, <1>8 DEF Next, Acquire

LEMMA RowCorrect == Spec => [](TypeOK /\ RowInv)
BY InitType, TypeStep, RowInit, RowStep, PTL DEF Spec

(* A fresh lock is never freed or taken over by another instance, however  *)
(* many triggers, crashes and late releases there are.                     *)
THEOREM FreshLocksAreSafe == Spec => FreshLockIsSafe
<1> DEFINE Safe(i) ==
      lockedBy = i /\ lockAge < StaleAfter /\ lockedBy' # i =>
         \E r \in Running \ Running' : r[1] = i
<1>1. TypeOK /\ RowInv /\ [Next]_vars => [\A i \in Instances : Safe(i)]_vars
  <2> SUFFICES ASSUME TypeOK, RowInv, Next, NEW i \in Instances,
                      lockedBy = i, lockAge < StaleAfter, lockedBy' # i
               PROVE  \E r \in Running \ Running' : r[1] = i
    OBVIOUS
  <2>0. i # NoInstance /\ ~(lockAge >= StaleAfter)
    BY ConstantTypes DEF TypeOK
  <2>1. ASSUME NEW r \in Runs, FirstRun(r) PROVE FALSE
    BY <2>1, <2>0 DEF FirstRun, RowInv
  <2>2. ASSUME NEW r \in Runs, TakeLock(r) PROVE FALSE
    BY <2>2, <2>0 DEF TakeLock, Lockable, StartLocked
  <2>3. ASSUME NEW r \in Runs, Finish(r) PROVE \E s \in Running \ Running' : s[1] = i
    <3>1. r \in Running \ Running'
      BY <2>3, FinishLemma
    <3>2. lockedBy = r[1]
      BY <2>3 DEF Finish, Succeed, Fail, EndUnreleased
    <3> QED BY <3>1, <3>2
  <2>4. ASSUME NEW r \in Runs, Suppress(r) \/ RecordDeduped(r) PROVE FALSE
    BY <2>4 DEF Suppress, RecordDeduped, row
  <2>5. ASSUME NEW j \in Instances, Crash(j) \/ Restart(j) PROVE FALSE
    BY <2>5 DEF Crash, Restart, row
  <2>6. CASE Tick
    BY <2>6 DEF Tick
  <2> QED BY <2>1, <2>2, <2>3, <2>4, <2>5, <2>6 DEF Next, Acquire
<1>2. [\A i \in Instances : Safe(i)]_vars
        => [\A i \in Instances :
              lockedBy = i /\ lockAge < StaleAfter /\ lockedBy' # i =>
                \E r \in Running \ Running' : r[1] = i]_vars
  OBVIOUS
<1> HIDE DEF Safe
<1> QED BY <1>1, <1>2, RowCorrect, PTL DEF Spec, FreshLockIsSafe

(* Between two recorded successes of the job at least the de-dup window    *)
(* passes, whoever recorded them and whatever crashed in between.          *)
THEOREM SuccessesAreApart == Spec => SuccessesApart
<1>1. TypeOK /\ RowInv /\ [Next]_vars
        => [\A r \in Runs : Succeed(r) => sinceSuccess >= Window]_vars
  <2> SUFFICES ASSUME TypeOK, RowInv, NEW r \in Runs, Succeed(r)
               PROVE  sinceSuccess >= Window
    OBVIOUS
  <2>1. r \in Running /\ lockedBy = r[1]
    BY DEF Succeed, EndRun
  <2> QED BY <2>1, ConstantTypes DEF RowInv
<1> QED BY <1>1, RowCorrect, PTL DEF Spec, SuccessesApart

-----------------------------------------------------------------------------
(* One trigger per process and runs shorter than the stale-lock time.      *)
Regular == RunLimit < StaleAfter /\ \A t, u \in Triggers : t = u

(* A run in progress holds the lock, and has held it since it started.     *)
HolderInv == \A r \in Running : lockedBy = r[1] /\ lockAge = run[r]

LEMMA HolderStep ==
  ASSUME Regular
  PROVE  TypeOK /\ HolderInv /\ [Next]_vars => HolderInv'
<1> SUFFICES ASSUME TypeOK, HolderInv, [Next]_vars PROVE HolderInv'
  OBVIOUS
<1>0. \A r, s \in Runs : r[1] = s[1] => r = s
  BY DEF Regular, Runs
<1>a. \A r \in Running : r \in Runs /\ run[r] # Idle
  BY DEF Running
<1>1. ASSUME NEW r \in Runs, FirstRun(r) PROVE HolderInv'
  <2>1. Running = {}
    BY <1>1 DEF FirstRun, TypeOK
  <2>2. CanFire(r) /\ StartLocked(r)
    BY <1>1 DEF FirstRun
  <2>3. Running' = {r} /\ lockedBy' = r[1] /\ lockAge' = 0 /\ run'[r] = 0
    BY <2>1, <2>2, StartLemma
  <2> QED BY <2>3 DEF HolderInv
<1>2. ASSUME NEW r \in Runs, Suppress(r) PROVE HolderInv'
  BY <1>2 DEF Suppress, row, HolderInv, Running
<1>2a. ASSUME NEW r \in Runs, RecordDeduped(r) PROVE HolderInv'
  BY <1>2a DEF RecordDeduped, HolderInv, Running
<1>3. ASSUME NEW r \in Runs, TakeLock(r) PROVE HolderInv'
  <2>1. CanFire(r) /\ StartLocked(r) /\ Lockable(r[1])
    BY <1>3 DEF TakeLock
  <2>2. Running = {}
    <3> SUFFICES ASSUME NEW s \in Running PROVE FALSE
      OBVIOUS
    <3>1. s \in Runs /\ lockedBy = s[1] /\ lockAge = run[s] /\ run[s] # Idle
      BY <1>a DEF HolderInv
    <3>2. run[s] \in Nat /\ run[s] <= RunLimit
      BY <3>1, ConstantTypes DEF TypeOK
    <3>3. ~(lockAge >= StaleAfter)
      BY <3>1, <3>2, ConstantTypes DEF Regular
    <3>4. s[1] = r[1]
      BY <2>1, <3>1, <3>3, RunTypes, ConstantTypes DEF Lockable
    <3> QED BY <3>1, <3>4, <2>1, <1>0 DEF CanFire
  <2>3. Running' = {r} /\ lockedBy' = r[1] /\ lockAge' = 0 /\ run'[r] = 0
    BY <2>1, <2>2, StartLemma
  <2> QED BY <2>3 DEF HolderInv
<1>4. ASSUME NEW r \in Runs, Finish(r) PROVE HolderInv'
  <2>1. Running' = {}
    BY <1>4, <1>0, <1>a, FinishLemma DEF HolderInv
  <2> QED BY <2>1 DEF HolderInv
<1>5. ASSUME NEW i \in Instances, Crash(i) PROVE HolderInv'
  BY <1>5, CrashLemma DEF Crash, row, HolderInv
<1>6. ASSUME NEW i \in Instances, Restart(i) PROVE HolderInv'
  BY <1>6 DEF Restart, row, HolderInv, Running
<1>7. CASE Tick
  <2> SUFFICES ASSUME NEW r \in Running' PROVE lockedBy' = r[1] /\ lockAge' = run'[r]
    BY DEF HolderInv
  <2>1. r \in Running /\ run'[r] = run[r] + 1 /\ lockAge = run[r] /\ lockedBy = r[1]
    BY <1>7, TickLemma DEF HolderInv
  <2>2. run[r] < RunLimit /\ lockedBy' = lockedBy /\ lockAge' = Least(lockAge + 1, StaleAfter)
    BY <1>7, <2>1 DEF Tick
  <2>3. run[r] \in Nat
    BY <2>1, <1>a, ConstantTypes DEF TypeOK
  <2>4. lockAge' = run[r] + 1
    BY <2>1, <2>2, <2>3, ConstantTypes DEF Regular, Least
  <2> QED BY <2>1, <2>2, <2>4
<1>8. CASE UNCHANGED vars
  BY <1>8 DEF vars, HolderInv, Running
<1> QED BY <1>1, <1>2, <1>2a, <1>3, <1>4, <1>5, <1>6, <1>7, <1>8 DEF Next, Acquire

(* A job with one trigger whose runs end before their lock goes stale      *)
(* never runs twice at once, across all instances, crashes, restarts and   *)
(* failed releases.                                                        *)
THEOREM OneRunAtATime ==
  ASSUME Regular
  PROVE  Spec => []AtMostOneRun
<1>1. Init => HolderInv
  BY DEF Init, HolderInv, Running
<1>2. HolderInv => AtMostOneRun
  BY DEF HolderInv, AtMostOneRun, Running, Runs, Regular
<1>3. TypeOK /\ HolderInv /\ [Next]_vars => HolderInv'
  BY HolderStep
<1> QED BY <1>1, <1>2, <1>3, InitType, TypeStep, PTL DEF Spec

-----------------------------------------------------------------------------
(* Webhooks, for every set of events, attempt budget and number of slots.  *)

(* No request is made beyond the attempts: none for the attempt of a       *)
(* goroutine that has not sent yet, one at most for every other.           *)
SendsCounted ==
  \A e \in Events :
    /\ sends[e] <= attempt[e]
    /\ task[e] \in {"queued", "sending"} => sends[e] < attempt[e]
    /\ task[e] # "none" => attempt[e] > 0
    /\ ended[e] = "untriggered" => sends[e] = 0

(* The row that waits is that of the last attempt.                         *)
RowIsLast == \A e \in Events : retry[e] # 0 => retry[e] = attempt[e]

(* What the retry job has loaded is still to be retried.                   *)
BatchIsDue == \A e \in batch : retry[e] # 0 /\ retry[e] < MaxAttempts

(* Only an event that is open has an attempt under way or a row to retry.  *)
ScheduledIsOpen ==
  \A e \in Events : task[e] # "none" \/ retry[e] # 0 => ended[e] = "open"

WebhookInv ==
  /\ WebhookTypeOK
  /\ ScheduledOnce
  /\ OpenIsScheduled
  /\ ScheduledIsOpen
  /\ BatchIsDue
  /\ RowIsLast
  /\ SendsCounted

USE WebhookAssumption

LEMMA WebhookInitInv == WebhookInit => WebhookInv
BY DEF WebhookInit, WebhookInv, WebhookTypeOK, ScheduledOnce, OpenIsScheduled,
       ScheduledIsOpen, BatchIsDue, RowIsLast, SendsCounted

LEMMA WebhookTypeStep ==
  ASSUME WebhookInv, [WebhookNext]_webhookVars PROVE WebhookTypeOK'
<1> USE DEF WebhookInv, WebhookTypeOK
<1>1. ASSUME NEW e \in Events, TriggerWebhooks(e) PROVE WebhookTypeOK'
  BY <1>1 DEF TriggerWebhooks, Spawn
<1>2. ASSUME NEW e \in Events, GetSlot(e) PROVE WebhookTypeOK'
  BY <1>2 DEF GetSlot
<1>3. ASSUME NEW e \in Events, deliverWebhook(e) PROVE WebhookTypeOK'
  BY <1>3 DEF deliverWebhook
<1>4. ASSUME NEW e \in Events, SaveDelivery(e) PROVE WebhookTypeOK'
  BY <1>4 DEF SaveDelivery, Retries, Outcome, ScheduledOnce
<1>5. ASSUME NEW e \in Events, SaveFails(e) PROVE WebhookTypeOK'
  BY <1>5 DEF SaveFails, Unsaved, Outcome
<1>6. ASSUME NEW e \in Events, Backoff(e) PROVE WebhookTypeOK'
  BY <1>6 DEF Backoff, memory
<1>7. ASSUME NEW e \in Events, RetryRow(e) PROVE WebhookTypeOK'
  <2>1. retry[e] + 1 \in 0..MaxAttempts
    BY <1>7 DEF RetryRow, BatchIsDue
  <2> QED BY <1>7, <2>1 DEF RetryRow, ClearRow, Spawn
<1>8. ASSUME NEW e \in Events, DropRow(e) PROVE WebhookTypeOK'
  BY <1>8 DEF DropRow, ClearRow
<1>9. ASSUME NEW e \in Events, SkipRow(e) PROVE WebhookTypeOK'
  BY <1>9 DEF SkipRow
<1>10. CASE LoadDue
  BY <1>10 DEF LoadDue
<1>11. CASE Toggle
  BY <1>11 DEF Toggle, memory
<1>12. CASE CrashDeliveries
  BY <1>12 DEF CrashDeliveries, Unsaved, Outcome
<1>13. CASE UNCHANGED webhookVars
  BY <1>13 DEF webhookVars
<1> QED BY <1>1, <1>2, <1>3, <1>4, <1>5, <1>6, <1>7, <1>8, <1>9, <1>10, <1>11, <1>12, <1>13
        DEF WebhookNext

(* The rest of the invariant is about one event at a time.                 *)
EventOK(e) ==
  /\ task[e] # "none" => retry[e] = 0 /\ e \notin batch
  /\ ended[e] = "open" <=> task[e] # "none" \/ retry[e] # 0
  /\ e \in batch => retry[e] # 0 /\ retry[e] < MaxAttempts
  /\ retry[e] # 0 => retry[e] = attempt[e]
  /\ sends[e] <= attempt[e]
  /\ task[e] \in {"queued", "sending"} => sends[e] < attempt[e]
  /\ task[e] # "none" => attempt[e] > 0
  /\ ended[e] = "untriggered" => sends[e] = 0

LEMMA EventsOK ==
  WebhookInv <=> WebhookTypeOK /\ \A e \in Events : EventOK(e)
BY DEF WebhookInv, WebhookTypeOK, EventOK, ScheduledOnce, OpenIsScheduled,
       ScheduledIsOpen, BatchIsDue, RowIsLast, SendsCounted

(* A step of one event leaves the others as they are.                      *)
Same(f) ==
  /\ task'[f] = task[f] /\ attempt'[f] = attempt[f] /\ retry'[f] = retry[f]
  /\ ended'[f] = ended[f] /\ sends'[f] = sends[f]
  /\ f \in batch' <=> f \in batch

LEMMA WebhookEventStep ==
  ASSUME WebhookInv, [WebhookNext]_webhookVars, NEW f \in Events
  PROVE  EventOK(f)'
<1>1. EventOK(f) /\ WebhookTypeOK
  BY EventsOK
<1>2. CASE Same(f)
  BY <1>1, <1>2 DEF EventOK, Same
<1> USE DEF WebhookTypeOK
<1>3. ASSUME NEW e \in Events, TriggerWebhooks(e) PROVE EventOK(f)'
  BY <1>1, <1>3 DEF TriggerWebhooks, Spawn, EventOK
<1>4. ASSUME NEW e \in Events, GetSlot(e) PROVE EventOK(f)'
  BY <1>1, <1>4 DEF GetSlot, EventOK
<1>5. ASSUME NEW e \in Events, deliverWebhook(e) PROVE EventOK(f)'
  BY <1>1, <1>5 DEF deliverWebhook, EventOK
<1>6. ASSUME NEW e \in Events, SaveDelivery(e) PROVE EventOK(f)'
  BY <1>1, <1>6 DEF SaveDelivery, Retries, Outcome, EventOK
<1>7. ASSUME NEW e \in Events, SaveFails(e) PROVE EventOK(f)'
  BY <1>1, <1>7 DEF SaveFails, Unsaved, Outcome, EventOK
<1>8. ASSUME NEW e \in Events, Backoff(e) PROVE EventOK(f)'
  BY <1>2, <1>8 DEF Backoff, memory, Same
<1>9. ASSUME NEW e \in Events, RetryRow(e) PROVE EventOK(f)'
  BY <1>1, <1>9 DEF RetryRow, ClearRow, Spawn, EventOK
<1>10. ASSUME NEW e \in Events, DropRow(e) PROVE EventOK(f)'
  BY <1>1, <1>10 DEF DropRow, ClearRow, EventOK
<1>11. ASSUME NEW e \in Events, SkipRow(e) PROVE EventOK(f)'
  BY <1>1, <1>11 DEF SkipRow, EventOK
<1>12. CASE LoadDue
  BY <1>1, <1>12 DEF LoadDue, EventOK
<1>13. CASE Toggle
  BY <1>2, <1>13 DEF Toggle, memory, Same
<1>14. CASE CrashDeliveries
  BY <1>1, <1>14 DEF CrashDeliveries, Unsaved, Outcome, EventOK
<1>15. CASE UNCHANGED webhookVars
  BY <1>2, <1>15 DEF webhookVars, Same
<1> QED BY <1>3, <1>4, <1>5, <1>6, <1>7, <1>8, <1>9, <1>10, <1>11, <1>12, <1>13, <1>14, <1>15
        DEF WebhookNext

LEMMA WebhookInductive == WebhookInv /\ [WebhookNext]_webhookVars => WebhookInv'
<1> SUFFICES ASSUME WebhookInv, [WebhookNext]_webhookVars PROVE WebhookInv'
  OBVIOUS
<1>1. WebhookTypeOK' /\ \A f \in Events : EventOK(f)'
  BY WebhookTypeStep, WebhookEventStep
<1>2. WebhookInv' <=> WebhookTypeOK' /\ \A f \in Events : EventOK(f)'
  BY DEF WebhookInv, WebhookTypeOK, EventOK, ScheduledOnce, OpenIsScheduled,
         ScheduledIsOpen, BatchIsDue, RowIsLast, SendsCounted
<1> QED BY <1>1, <1>2

LEMMA WebhookInvariance == WebhookSpec => []WebhookInv
BY WebhookInitInv, WebhookInductive, PTL DEF WebhookSpec

(* Every reachable state has the types of its variables.                   *)
THEOREM WebhookTypeCorrect == WebhookSpec => []WebhookTypeOK
BY WebhookInvariance, PTL DEF WebhookInv

(* However goroutines end, rows come due and the retry job's runs fail or  *)
(* stop, an event with an attempt under way has no row that would start a  *)
(* second one.                                                             *)
THEOREM EventsAreScheduledOnce == WebhookSpec => []ScheduledOnce
BY WebhookInvariance, PTL DEF WebhookInv

(* An event that is not settled has an attempt under way or a row to retry *)
(* in every state, so none is forgotten between an attempt and the next.   *)
THEOREM OpenEventsAreScheduled == WebhookSpec => []OpenIsScheduled
BY WebhookInvariance, PTL DEF WebhookInv

(* maxDeliveryAttempts bounds the requests of an event, over all the       *)
(* goroutines, retries, failed saves and restarts it lives through.        *)
THEOREM RequestsAreBounded ==
  WebhookSpec => [](\A e \in Events : sends[e] <= MaxAttempts)
<1>1. WebhookInv => \A e \in Events : sends[e] <= MaxAttempts
  BY DEF WebhookInv, WebhookTypeOK, SendsCounted
<1> QED BY <1>1, WebhookInvariance, PTL

(* What became of an event is final: a delivered, failed, dropped or lost  *)
(* one is never sent again, nor settled otherwise.                         *)
SettledIsFinal ==
  [][\A e \in Events :
       ended[e] \notin {"untriggered", "open"} =>
         ended'[e] = ended[e] /\ sends'[e] = sends[e]]_webhookVars

THEOREM SettledEventsStay == WebhookSpec => SettledIsFinal
<1> DEFINE Stays(f) == ended'[f] = ended[f] /\ sends'[f] = sends[f]
<1>1. ASSUME WebhookInv, WebhookNext, NEW f \in Events, ended[f] \notin {"untriggered", "open"}
      PROVE  Stays(f)
  <2>1. task[f] = "none" /\ retry[f] = 0 /\ f \notin batch
    BY <1>1 DEF WebhookInv, ScheduledIsOpen, BatchIsDue
  <2> USE <1>1, <2>1 DEF WebhookInv, WebhookTypeOK
  <2>2. ASSUME NEW e \in Events, TriggerWebhooks(e) PROVE Stays(f)
    BY <2>2 DEF TriggerWebhooks
  <2>3. ASSUME NEW e \in Events, GetSlot(e) PROVE Stays(f)
    BY <2>3 DEF GetSlot
  <2>4. ASSUME NEW e \in Events, deliverWebhook(e) PROVE Stays(f)
    BY <2>4 DEF deliverWebhook
  <2>5. ASSUME NEW e \in Events, SaveDelivery(e) \/ SaveFails(e) PROVE Stays(f)
    BY <2>5 DEF SaveDelivery, SaveFails
  <2>6. ASSUME NEW e \in Events, Backoff(e) \/ RetryRow(e) \/ SkipRow(e) PROVE Stays(f)
    BY <2>6 DEF Backoff, RetryRow, SkipRow
  <2>7. ASSUME NEW e \in Events, DropRow(e) PROVE Stays(f)
    BY <2>7 DEF DropRow
  <2>8. CASE LoadDue \/ Toggle
    BY <2>8 DEF LoadDue, Toggle
  <2>9. CASE CrashDeliveries
    BY <2>9 DEF CrashDeliveries
  <2> QED BY <2>2, <2>3, <2>4, <2>5, <2>6, <2>7, <2>8, <2>9 DEF WebhookNext
<1>2. WebhookInv /\ [WebhookNext]_webhookVars =>
        [\A e \in Events :
           ended[e] \notin {"untriggered", "open"} =>
             ended'[e] = ended[e] /\ sends'[e] = sends[e]]_webhookVars
  BY <1>1
<1> QED BY <1>2, WebhookInvariance, PTL DEF WebhookSpec, SettledIsFinal

HIDE WebhookAssumption

-----------------------------------------------------------------------------
(* Reminders, for every set of runs, list of channels, kinds of reminder,  *)
(* requests and bounds.                                                    *)

(* The rows are about dates the reminder has or had.                       *)
RowsAreKnown == \A d \in deliveries : d.sent <= occurrence

Told(c) == Row(c, occurrence) \in deliveries

(* Run s has sent the date on c and not yet recorded that it did.          *)
InHand(s, c) == jobAt[s] \in {"save", "record"} /\ Current(s) /\ Sender(s) = c

(* The channels that run s has behind it.                                  *)
Passed(s) ==
  {Senders[i] : i \in 1..(IF jobAt[s] \in {"save", "record"} THEN next[s] ELSE next[s] - 1)}

(* The runs at this date that have c before them, as far as they know; and *)
(* those of them that will not learn of a row when they read the rows.     *)
Ahead(c) ==
  {s \in AtThisDate : c \notin Passed(s) /\ (jobAt[s] # "fetched" => c \notin jobSent[s])}
MaySend(c) == {s \in Ahead(c) : jobAt[s] = "fetched" => ~Told(c)}

(* Each message that went out or that a run may still send is the first,   *)
(* or is owed to a lost record or to an overlap.                           *)
Accounted(c) ==
  /\ announced[c] + Cardinality(MaySend(c)) <= lost[c] + overlaps + 1
  /\ Told(c) => announced[c] + Cardinality(Ahead(c)) <= lost[c] + overlaps + 2
  /\ ~Told(c) /\ (\A s \in ReminderRuns : ~InHand(s, c)) => announced[c] <= lost[c] + overlaps

AnnouncedIsAccounted == live => \A c \in Channels : Accounted(c)

ReminderInv ==
  /\ ReminderTypeOK
  /\ RowsAreKnown
  /\ AnnouncedIsAccounted

USE ReminderAssumption

LEMMA AheadIsFinite ==
  ASSUME NEW c
  PROVE  /\ IsFiniteSet(Ahead(c)) /\ IsFiniteSet(MaySend(c))
         /\ Ahead(c) \subseteq ReminderRuns /\ MaySend(c) \subseteq Ahead(c)
         /\ Cardinality(Ahead(c)) \in Nat /\ Cardinality(MaySend(c)) \in Nat
<1>1. Ahead(c) \subseteq ReminderRuns /\ MaySend(c) \subseteq Ahead(c)
  BY DEF Ahead, MaySend, AtThisDate
<1>2. IsFiniteSet(Ahead(c)) /\ IsFiniteSet(MaySend(c))
  BY <1>1, FS_Subset
<1> QED BY <1>1, <1>2, FS_CardinalityType

LEMMA AheadIsFiniteThen ==
  ASSUME NEW c
  PROVE  /\ IsFiniteSet(Ahead(c)') /\ IsFiniteSet(MaySend(c)')
         /\ Ahead(c)' \subseteq ReminderRuns /\ MaySend(c)' \subseteq Ahead(c)'
         /\ Cardinality(Ahead(c)') \in Nat /\ Cardinality(MaySend(c)') \in Nat
<1>1. Ahead(c)' \subseteq ReminderRuns /\ MaySend(c)' \subseteq Ahead(c)'
  BY DEF Ahead, MaySend, AtThisDate
<1>2. IsFiniteSet(Ahead(c)') /\ IsFiniteSet(MaySend(c)')
  BY <1>1, FS_Subset
<1> QED BY <1>1, <1>2, FS_CardinalityType

(* What a subset counts.                                                   *)
LEMMA FewerRuns ==
  ASSUME NEW S, NEW T, IsFiniteSet(T)
  PROVE  /\ S \subseteq T => Cardinality(S) <= Cardinality(T)
         /\ \A s \in T : S \subseteq T \ {s} => Cardinality(S) + 1 <= Cardinality(T)
         /\ \A s : S \subseteq T \cup {s} => Cardinality(S) <= Cardinality(T) + 1
<1>1. S \subseteq T => Cardinality(S) <= Cardinality(T)
  BY FS_Subset
<1>2. ASSUME NEW s \in T, S \subseteq T \ {s} PROVE Cardinality(S) + 1 <= Cardinality(T)
  <2>1. IsFiniteSet(T \ {s}) /\ Cardinality(T \ {s}) = Cardinality(T) - 1
    BY FS_RemoveElement
  <2>2. Cardinality(S) <= Cardinality(T \ {s}) /\ Cardinality(S) \in Nat
    BY <1>2, <2>1, FS_Subset, FS_CardinalityType
  <2> QED BY <2>1, <2>2, FS_CardinalityType
<1>3. ASSUME NEW s, S \subseteq T \cup {s} PROVE Cardinality(S) <= Cardinality(T) + 1
  <2>0. Cardinality(T) \in Nat
    BY FS_CardinalityType
  <2>a. /\ IsFiniteSet(T \cup {s})
        /\ Cardinality(T \cup {s}) = IF s \in T THEN Cardinality(T) ELSE Cardinality(T) + 1
    BY FS_AddElement
  <2>1. IsFiniteSet(T \cup {s}) /\ Cardinality(T \cup {s}) <= Cardinality(T) + 1
    BY <2>0, <2>a
  <2>2. Cardinality(S) <= Cardinality(T \cup {s}) /\ Cardinality(S) \in Nat
    BY <1>3, <2>1, FS_Subset, FS_CardinalityType
  <2> QED BY <2>1, <2>2, FS_CardinalityType
<1> QED BY <1>1, <1>2, <1>3

(* The sums of the account, by plain arithmetic.                           *)
LEMMA SmallerSum ==
  ASSUME NEW a \in Nat, NEW m \in Nat, NEW n \in Nat, NEW k \in Nat, NEW l \in Nat,
         NEW o \in Nat, NEW d \in Nat, n <= m, k <= l, a + m <= k + o + d
  PROVE  a + n <= l + o + d
OBVIOUS

LEMMA LooserSum ==
  ASSUME NEW a \in Nat, NEW m \in Nat, NEW k \in Nat, NEW o \in Nat, a + m <= k + o + 1
  PROVE  a + m <= k + o + 2
OBVIOUS

LEMMA NextSum ==
  ASSUME NEW a \in Nat, NEW m \in Nat, NEW n \in Nat, NEW k \in Nat,
         NEW o \in Nat, NEW d \in Nat, n <= m + 1, a + m <= k + o + d
  PROVE  a + n <= k + (o + 1) + d
OBVIOUS

LEMMA SentSum ==
  ASSUME NEW a \in Nat, NEW m \in Nat, NEW n \in Nat, NEW k \in Nat, NEW l \in Nat,
         NEW o \in Nat, NEW d \in Nat, n + 1 <= m, k <= l, a + m <= k + o + d
  PROVE  (a + 1) + n <= l + o + d
OBVIOUS

(* The ways a step may move the account of a channel: it sends nothing,    *)
(* and nobody else learns to send;                                         *)
LEMMA QuietStep ==
  ASSUME ReminderTypeOK, ReminderTypeOK', NEW c \in Channels, Accounted(c),
         UNCHANGED overlaps, announced'[c] = announced[c], lost'[c] >= lost[c],
         MaySend(c)' \subseteq MaySend(c),
         Told(c)' => Ahead(c)' \subseteq (IF Told(c) THEN Ahead(c) ELSE MaySend(c)),
         \/ lost'[c] > lost[c]
         \/ Told(c) \/ (\E s \in ReminderRuns : InHand(s, c))
              => Told(c)' \/ (\E s \in ReminderRuns : InHand(s, c)')
  PROVE  Accounted(c)'
<1>1. /\ announced[c] \in Nat /\ lost[c] \in Nat /\ lost'[c] \in Nat /\ overlaps \in Nat
      /\ Cardinality(Ahead(c)) \in Nat /\ Cardinality(MaySend(c)) \in Nat
      /\ Cardinality(Ahead(c)') \in Nat /\ Cardinality(MaySend(c)') \in Nat
  BY AheadIsFinite, AheadIsFiniteThen DEF ReminderTypeOK
<1>2. Cardinality(MaySend(c)') <= Cardinality(MaySend(c))
  BY AheadIsFinite, FewerRuns
<1>3. Told(c)' => Cardinality(Ahead(c)') <=
                    (IF Told(c) THEN Cardinality(Ahead(c)) ELSE Cardinality(MaySend(c)))
  BY AheadIsFinite, FewerRuns
<1>a. 1 \in Nat /\ 2 \in Nat /\ lost[c] <= lost'[c]
  BY <1>1
<1>4. announced'[c] + Cardinality(MaySend(c)') <= lost'[c] + overlaps' + 1
  <2>1. announced[c] + Cardinality(MaySend(c)) <= lost[c] + overlaps + 1
    BY DEF Accounted
  <2>2. announced[c] + Cardinality(MaySend(c)') <= lost'[c] + overlaps + 1
    BY <1>1, <1>2, <1>a, <2>1, SmallerSum, Zenon
  <2> QED BY <2>2
<1>5. ASSUME Told(c)' PROVE announced'[c] + Cardinality(Ahead(c)') <= lost'[c] + overlaps' + 2
  <2>1. CASE Told(c)
    <3>1. Cardinality(Ahead(c)') <= Cardinality(Ahead(c))
      BY <1>3, <1>5, <2>1
    <3>2. announced[c] + Cardinality(Ahead(c)) <= lost[c] + overlaps + 2
      BY <2>1 DEF Accounted
    <3>3. announced[c] + Cardinality(Ahead(c)') <= lost'[c] + overlaps + 2
      BY <1>1, <1>a, <3>1, <3>2, SmallerSum, Zenon
    <3> QED BY <3>3
  <2>2. CASE ~Told(c)
    <3>1. Cardinality(Ahead(c)') <= Cardinality(MaySend(c))
      BY <1>3, <1>5, <2>2
    <3>2. announced[c] + Cardinality(MaySend(c)) <= lost[c] + overlaps + 1
      BY DEF Accounted
    <3>3. announced[c] + Cardinality(MaySend(c)) <= lost[c] + overlaps + 2
      BY <1>1, <3>2, LooserSum, Zenon
    <3>4. announced[c] + Cardinality(Ahead(c)') <= lost'[c] + overlaps + 2
      BY <1>1, <1>a, <3>1, <3>3, SmallerSum, Zenon
    <3> QED BY <3>4
  <2> QED BY <2>1, <2>2
<1>6. ASSUME ~Told(c)', \A s \in ReminderRuns : ~InHand(s, c)'
      PROVE  announced'[c] <= lost'[c] + overlaps'
  <2>1. CASE lost'[c] > lost[c]
    BY <1>1, <2>1 DEF Accounted
  <2>2. CASE ~Told(c) /\ (\A s \in ReminderRuns : ~InHand(s, c))
    BY <1>1, <2>2 DEF Accounted
  <2> QED BY <1>6, <2>1, <2>2
<1> QED BY <1>4, <1>5, <1>6 DEF Accounted

(* a run that had it before it sends it, and has it in hand or lost its    *)
(* record at once.                                                         *)
LEMMA SendingStep ==
  ASSUME ReminderTypeOK, ReminderTypeOK', NEW c \in Channels, Accounted(c),
         NEW s \in MaySend(c),
         UNCHANGED overlaps, announced'[c] = announced[c] + 1,
         MaySend(c)' \subseteq MaySend(c) \ {s}, Ahead(c)' \subseteq Ahead(c) \ {s},
         Told(c)' = Told(c),
         \/ lost'[c] = lost[c] + 1
         \/ lost'[c] = lost[c] /\ InHand(s, c)'
  PROVE  Accounted(c)'
<1>1. /\ announced[c] \in Nat /\ lost[c] \in Nat /\ lost'[c] \in Nat /\ overlaps \in Nat
      /\ Cardinality(Ahead(c)) \in Nat /\ Cardinality(MaySend(c)) \in Nat
      /\ Cardinality(Ahead(c)') \in Nat /\ Cardinality(MaySend(c)') \in Nat
      /\ s \in Ahead(c) /\ s \in ReminderRuns
  BY AheadIsFinite, AheadIsFiniteThen DEF ReminderTypeOK
<1>c. lost'[c] >= lost[c] /\ overlaps' = overlaps
  <2>1. CASE lost'[c] = lost[c] + 1
    BY <1>1, <2>1
  <2>2. CASE lost'[c] = lost[c]
    BY <1>1, <2>2
  <2> QED BY <2>1, <2>2
<1>a. announced[c] + Cardinality(MaySend(c)) <= lost[c] + overlaps + 1
  BY DEF Accounted
<1>b. Told(c) => announced[c] + Cardinality(Ahead(c)) <= lost[c] + overlaps + 2
  BY DEF Accounted
<1>2. Cardinality(MaySend(c)') + 1 <= Cardinality(MaySend(c))
  BY AheadIsFinite, FewerRuns
<1>3. Cardinality(Ahead(c)') + 1 <= Cardinality(Ahead(c))
  BY <1>1, AheadIsFinite, FewerRuns
<1>d. 1 \in Nat /\ 2 \in Nat /\ lost[c] <= lost'[c]
  BY <1>1, <1>c
<1>4. announced'[c] + Cardinality(MaySend(c)') <= lost'[c] + overlaps' + 1
  <2>1. (announced[c] + 1) + Cardinality(MaySend(c)') <= lost'[c] + overlaps + 1
    BY <1>1, <1>2, <1>a, <1>d, SentSum, Zenon
  <2> QED BY <1>c, <2>1
<1>5. ASSUME Told(c)' PROVE announced'[c] + Cardinality(Ahead(c)') <= lost'[c] + overlaps' + 2
  <2>1. announced[c] + Cardinality(Ahead(c)) <= lost[c] + overlaps + 2
    BY <1>b, <1>5
  <2>2. (announced[c] + 1) + Cardinality(Ahead(c)') <= lost'[c] + overlaps + 2
    BY <1>1, <1>3, <1>d, <2>1, SentSum, Zenon
  <2> QED BY <1>c, <2>2
<1>6. ASSUME \A r \in ReminderRuns : ~InHand(r, c)'
      PROVE  announced'[c] <= lost'[c] + overlaps'
  <2>1. lost'[c] = lost[c] + 1
    BY <1>1, <1>6
  <2> QED BY <1>1, <1>2, <1>a, <2>1
<1> QED BY <1>4, <1>5, <1>6 DEF Accounted

LEMMA ReminderInitInv == ReminderInit => ReminderInv
<1> SUFFICES ASSUME ReminderInit PROVE ReminderInv
  OBVIOUS
<1>1. due \in BOOLEAN /\ completed \in BOOLEAN /\ live \in BOOLEAN /\ ran \in BOOLEAN
  BY Zenon DEF ReminderInit
<1>2. ReminderTypeOK
  BY <1>1 DEF ReminderInit, ReminderTypeOK, NoRow, Occurrences, Delivery
<1>3. RowsAreKnown
  BY DEF ReminderInit, RowsAreKnown
<1>4. ASSUME NEW c \in Channels PROVE Accounted(c)
  <2>1. Ahead(c) = {} /\ MaySend(c) = {}
    BY DEF ReminderInit, Ahead, MaySend, AtThisDate
  <2>2. ~Told(c)
    BY DEF ReminderInit, Told
  <2> QED BY <2>1, <2>2, FS_EmptySet DEF ReminderInit, Accounted
<1> QED BY <1>2, <1>3, <1>4 DEF ReminderInv, AnnouncedIsAccounted

LEMMA ReminderTypeStep ==
  ReminderTypeOK /\ [ReminderNext]_reminderVars => ReminderTypeOK'
<1> SUFFICES ASSUME ReminderTypeOK, [ReminderNext]_reminderVars PROVE ReminderTypeOK'
  OBVIOUS
<1> USE DEF ReminderTypeOK, Occurrences, Delivery, reminder, request, ghosts, runVars
<1>1. CASE NextDay
  BY <1>1 DEF NextDay
<1>2. ASSUME NEW s \in ReminderRuns, SendReminders(s) \/ CrashRun(s) PROVE ReminderTypeOK'
  <2> USE <1>2
  <2>1. CASE StartRun(s)
    <3>1. overlaps' \in Nat
      BY <2>1 DEF StartRun
    <3> QED BY <2>1, <3>1 DEF StartRun
  <2>2. CASE NothingToSend(s)
    BY <2>2 DEF NothingToSend
  <2>3. CASE ReadDeliveries(s)
    <3>1. SentChannels \subseteq Channels
      BY DEF SentChannels
    <3> QED BY <2>3, <3>1 DEF ReadDeliveries
  <2>4. CASE SkipSender(s)
    BY <2>4 DEF SkipSender, AtSender, NextSender
  <2>5. ASSUME AtSender(s) PROVE Sender(s) \in Channels
    BY <2>5 DEF AtSender, Channels, Sender
  <2>6. CASE Send(s)
    <3>1. announced' \in [Channels -> Nat]
      BY <2>5, <2>6 DEF Send, Announce
    <3> QED BY <2>6, <3>1 DEF Send, AtSender
  <2>7. CASE SendFails(s)
    <3>1. failed' \in [ReminderRuns -> BOOLEAN]
      BY <2>7 DEF SendFails
    <3>2. FailedRow(Sender(s)) \in Delivery
      BY <2>5, <2>7 DEF SendFails, FailedRow, Row
    <3>3. announced' \in [Channels -> Nat] /\ lost' \in [Channels -> Nat]
      <4>1. CASE UNCHANGED <<announced, lost>>
        BY <4>1
      <4>2. CASE Announce(s) /\ Lose(s)
        <5>1. Sender(s) \in Channels
          BY <2>5, <2>7 DEF SendFails
        <5>2. [announced EXCEPT ![Sender(s)] = @ + 1] \in [Channels -> Nat]
              /\ [lost EXCEPT ![Sender(s)] = @ + 1] \in [Channels -> Nat]
          BY <5>1
        <5> QED BY <4>2, <5>2 DEF Announce, Lose
      <4> QED BY <4>1, <4>2, <2>7 DEF SendFails
    <3>4. next' \in [ReminderRuns -> 1..(Len(Senders) + 1)] /\ UNCHANGED jobAt
      BY <2>7 DEF SendFails, AtSender, NextSender
    <3>5. \A r \in ReminderRuns : jobAt'[r] \in {"save", "record"} => next'[r] <= Len(Senders)
      BY <2>7 DEF SendFails, AtSender, NextSender
    <3> QED BY <2>7, <3>1, <3>2, <3>3, <3>4, <3>5 DEF SendFails
  <2>8. CASE SaveEmail(s)
    BY <2>8 DEF SaveEmail
  <2>9. ASSUME jobAt[s] \in {"save", "record"} PROVE Sender(s) \in Channels
    BY <2>9 DEF Channels, Sender
  <2>10. CASE recordNotificationDelivery(s)
    BY <2>9, <2>10 DEF recordNotificationDelivery, Recorded, Row, NextSender
  <2>11. CASE RecordFails(s)
    <3>1. lost' \in [Channels -> Nat]
      BY <2>9, <2>11 DEF RecordFails, Recorded, Lose
    <3> QED BY <2>11, <3>1 DEF RecordFails, Recorded, NextSender
  <2>12. CASE EndSending(s)
    <3>1. ran' \in BOOLEAN
      BY <2>12, Zenon DEF EndSending
    <3> QED BY <2>12, <3>1 DEF EndSending, StopRun, NoRow
  <2>13. CASE CrashRun(s)
    <3>1. lost' \in [Channels -> Nat]
      BY <2>9, <2>13 DEF CrashRun, Lose
    <3> QED BY <2>13, <3>1 DEF CrashRun, StopRun, NoRow
  <2> QED BY <2>1, <2>2, <2>3, <2>4, <2>6, <2>7, <2>8, <2>10, <2>11, <2>12, <2>13
          DEF SendReminders, Dispatch
<1>3. ASSUME NEW op \in Requests, LoadReminder(op) PROVE ReminderTypeOK'
  BY <1>3 DEF LoadReminder
<1>4. CASE CompleteOnce
  <2>1. live' \in BOOLEAN
    BY <1>4, Zenon DEF CompleteOnce
  <2> QED BY <1>4, <2>1 DEF CompleteOnce, DeleteNotificationDeliveries, FinishRequest
<1>5. CASE Reschedule
  <2>1. due' \in BOOLEAN /\ completed' \in BOOLEAN
    BY <1>5, Zenon DEF Reschedule
  <2>2. occurrence' = occurrence + 1 /\ occurrence' \in Occurrences /\ revision' = revision + 1
    BY <1>5 DEF Reschedule, bumpRevisionCAS, NewDate
  <2>3. jobRow \in [ReminderRuns ->
          [occurrence : 1..occurrence', revision : 1..revision', emailSent : 0..occurrence']]
    BY <2>2
  <2> QED BY <1>5, <2>1, <2>2, <2>3
          DEF Reschedule, NewDate, DeleteNotificationDeliveries, FinishRequest
<1>6. CASE CompleteForGood
  BY <1>6 DEF CompleteForGood, bumpRevisionCAS, FinishRequest
<1>7. CASE UpdateReminder
  BY <1>7 DEF UpdateReminder, bumpRevisionCAS, NewDate, FinishRequest
<1>8. CASE ClearDeliveries
  BY <1>8 DEF ClearDeliveries
<1>9. CASE DeleteRow
  <2>1. live' \in BOOLEAN
    BY <1>9, Zenon DEF DeleteRow
  <2> QED BY <1>9, <2>1 DEF DeleteRow, FinishRequest
<1>10. CASE Refuse
  BY <1>10 DEF Refuse, FinishRequest
<1>11. CASE UNCHANGED reminderVars
  BY <1>11 DEF reminderVars
<1> QED BY <1>1, <1>2, <1>3, <1>4, <1>5, <1>6, <1>7, <1>8, <1>9, <1>10, <1>11
        DEF ReminderNext, Serve, CompleteReminder

LEMMA RowTypes ==
  ASSUME ReminderTypeOK
  PROVE  /\ occurrence \in Nat \ {0} /\ Failed # occurrence
         /\ \A s \in ReminderRuns : jobRow[s].occurrence \in Nat \ {0}
                                      /\ jobRow[s].occurrence <= occurrence
                                      /\ next[s] \in Nat \ {0}
         /\ \A d \in deliveries : d.sent \in Nat
BY DEF ReminderTypeOK, Occurrences, Delivery, Failed

LEMMA KnownStep ==
  ReminderInv /\ [ReminderNext]_reminderVars => RowsAreKnown'
<1> SUFFICES ASSUME ReminderInv, [ReminderNext]_reminderVars PROVE RowsAreKnown'
  OBVIOUS
<1>a. ReminderTypeOK /\ RowsAreKnown
  BY DEF ReminderInv
<1> USE DEF reminder, request, ghosts, runVars
<1>1. ASSUME occurrence' = occurrence \/ occurrence' = occurrence + 1,
             deliveries' \subseteq deliveries
      PROVE  RowsAreKnown'
  BY <1>a, <1>1, RowTypes DEF RowsAreKnown
<1>2. ASSUME NEW s \in ReminderRuns, SendReminders(s) \/ CrashRun(s) PROVE RowsAreKnown'
  <2>1. CASE SendFails(s)
    BY <1>a, <2>1, RowTypes DEF SendFails, FailedRow, Row, RowsAreKnown, Failed
  <2>2. CASE recordNotificationDelivery(s)
    BY <1>a, <2>2, RowTypes DEF recordNotificationDelivery, Recorded, Row, RowsAreKnown
  <2>3. CASE ~SendFails(s) /\ ~recordNotificationDelivery(s)
    BY <1>1, <1>2, <2>3 DEF SendReminders, StartRun, NothingToSend, ReadDeliveries, Dispatch,
       SkipSender, Send, SaveEmail, Recorded, RecordFails, EndSending, CrashRun
  <2> QED BY <2>1, <2>2, <2>3
<1>3. CASE Serve
  BY <1>1, <1>3 DEF Serve, LoadReminder, CompleteReminder, CompleteOnce, Reschedule,
     CompleteForGood, UpdateReminder, NewDate, ClearDeliveries, DeleteRow, Refuse,
     DeleteNotificationDeliveries
<1>4. CASE NextDay \/ UNCHANGED reminderVars
  BY <1>1, <1>4 DEF NextDay, reminderVars
<1> QED BY <1>2, <1>3, <1>4 DEF ReminderNext

(* A step of run s leaves the other runs where they are.                   *)
Moves(s) ==
  /\ UNCHANGED <<live, occurrence>>
  /\ \A r \in ReminderRuns \ {s} :
       /\ jobAt'[r] = jobAt[r] /\ jobRow'[r] = jobRow[r]
       /\ jobSent'[r] = jobSent[r] /\ next'[r] = next[r]

LEMMA OthersStay ==
  ASSUME NEW s \in ReminderRuns, Moves(s), NEW r \in ReminderRuns \ {s}, NEW c
  PROVE  /\ r \in Ahead(c)' <=> r \in Ahead(c)
         /\ InHand(r, c)' <=> InHand(r, c)
<1>1. /\ jobAt'[r] = jobAt[r] /\ jobRow'[r] = jobRow[r] /\ jobSent'[r] = jobSent[r]
      /\ next'[r] = next[r] /\ occurrence' = occurrence
  BY DEF Moves
<1>2. (c \in Passed(r)') <=> (c \in Passed(r))
  BY <1>1 DEF Passed
<1>3. Current(r)' <=> Current(r)
  BY <1>1 DEF Current
<1>4. Sender(r)' = Sender(r)
  BY <1>1 DEF Sender
<1> QED BY <1>1, <1>2, <1>3, <1>4 DEF Ahead, AtThisDate, InHand

(* The two kinds of step, of one run.                                      *)
LEMMA RunIsQuiet ==
  ASSUME ReminderTypeOK, ReminderTypeOK', NEW c \in Channels, Accounted(c),
         NEW s \in ReminderRuns, Moves(s), UNCHANGED overlaps,
         announced'[c] = announced[c], lost'[c] >= lost[c], Told(c) => Told(c)',
         s \in Ahead(c)' => s \in Ahead(c),
         s \in MaySend(c)' => s \in MaySend(c),
         lost'[c] > lost[c] \/ (InHand(s, c) => InHand(s, c)' \/ Told(c)')
  PROVE  Accounted(c)'
<1>1. Ahead(c)' \subseteq Ahead(c)
  BY AheadIsFiniteThen, OthersStay
<1>2. ASSUME NEW r \in MaySend(c)' PROVE r \in MaySend(c)
  <2>1. r \in ReminderRuns /\ r \in Ahead(c)' /\ (jobAt'[r] = "fetched" => ~Told(c)')
    BY AheadIsFiniteThen DEF MaySend
  <2>2. CASE r # s
    <3>1. jobAt'[r] = jobAt[r]
      BY <2>1, <2>2 DEF Moves
    <3> QED BY <1>1, <2>1, <3>1 DEF MaySend
  <2> QED BY <1>2, <2>2
<1>3. ~Told(c) => MaySend(c) = Ahead(c)
  BY DEF MaySend
<1>4. Told(c)' => Ahead(c)' \subseteq (IF Told(c) THEN Ahead(c) ELSE MaySend(c))
  BY <1>1, <1>3
<1>5. \/ lost'[c] > lost[c]
      \/ Told(c) \/ (\E r \in ReminderRuns : InHand(r, c))
           => Told(c)' \/ (\E r \in ReminderRuns : InHand(r, c)')
  BY OthersStay
<1>6. MaySend(c)' \subseteq MaySend(c)
  BY <1>2
<1> QED BY <1>4, <1>5, <1>6, QuietStep

LEMMA RunSends ==
  ASSUME ReminderTypeOK, ReminderTypeOK', NEW c \in Channels, Accounted(c),
         NEW s \in ReminderRuns, Moves(s), UNCHANGED overlaps,
         announced'[c] = announced[c] + 1, Told(c)' = Told(c),
         s \in MaySend(c), s \notin Ahead(c)',
         \/ lost'[c] = lost[c] + 1
         \/ lost'[c] = lost[c] /\ InHand(s, c)'
  PROVE  Accounted(c)'
<1>1. Ahead(c)' \subseteq Ahead(c) \ {s}
  BY AheadIsFiniteThen, OthersStay
<1>2. ASSUME NEW r \in MaySend(c)' PROVE r \in MaySend(c) \ {s}
  <2>1. r \in ReminderRuns /\ r \in Ahead(c)' /\ (jobAt'[r] = "fetched" => ~Told(c)')
    BY AheadIsFiniteThen DEF MaySend
  <2>2. r # s
    BY <2>1
  <2>3. jobAt'[r] = jobAt[r]
    BY <2>1, <2>2 DEF Moves
  <2> QED BY <1>1, <2>1, <2>2, <2>3 DEF MaySend
<1>3. MaySend(c)' \subseteq MaySend(c) \ {s}
  BY <1>2
<1> QED BY <1>1, <1>3, SendingStep

(* A run that starts is one more, and an overlap if it is not alone.       *)
LEMMA StartIsAccounted ==
  ASSUME ReminderTypeOK, ReminderTypeOK', NEW c \in Channels, Accounted(c),
         NEW s \in ReminderRuns, StartRun(s)
  PROVE  Accounted(c)'
<1>1. /\ announced'[c] = announced[c] /\ lost'[c] = lost[c] /\ Told(c)' = Told(c)
      /\ announced[c] \in Nat /\ lost[c] \in Nat /\ overlaps \in Nat
  BY DEF StartRun, reminder, ReminderTypeOK, Told
<1>2. Moves(s)
  BY DEF StartRun, Moves, reminder, ReminderTypeOK
<1>3. Ahead(c)' \subseteq Ahead(c) \cup {s}
  BY <1>2, AheadIsFiniteThen, OthersStay
<1>4. ASSUME NEW r \in MaySend(c)' PROVE r \in MaySend(c) \cup {s}
  <2>1. r \in ReminderRuns /\ r \in Ahead(c)' /\ (jobAt'[r] = "fetched" => ~Told(c)')
    BY AheadIsFiniteThen DEF MaySend
  <2>2. r # s => jobAt'[r] = jobAt[r]
    BY <1>2, <2>1 DEF Moves
  <2> QED BY <1>1, <1>3, <2>1, <2>2 DEF MaySend
<1>5. /\ Cardinality(Ahead(c)) \in Nat /\ Cardinality(MaySend(c)) \in Nat
      /\ Cardinality(Ahead(c)') \in Nat /\ Cardinality(MaySend(c)') \in Nat
      /\ Cardinality(Ahead(c)') <= Cardinality(Ahead(c)) + 1
      /\ Cardinality(MaySend(c)') <= Cardinality(MaySend(c)) + 1
  <2>1. MaySend(c)' \subseteq MaySend(c) \cup {s}
    BY <1>4
  <2> QED BY <1>3, <2>1, AheadIsFinite, AheadIsFiniteThen, FewerRuns
<1>a. /\ announced[c] + Cardinality(MaySend(c)) <= lost[c] + overlaps + 1
      /\ Told(c) => announced[c] + Cardinality(Ahead(c)) <= lost[c] + overlaps + 2
      /\ ~Told(c) /\ (\A r \in ReminderRuns : ~InHand(r, c)) => announced[c] <= lost[c] + overlaps
  BY DEF Accounted
<1>6. CASE AtThisDate # {}
  <2>1. overlaps' = overlaps + 1
    BY <1>6 DEF StartRun
  <2>b. 1 \in Nat /\ 2 \in Nat
    OBVIOUS
  <2>2. announced'[c] + Cardinality(MaySend(c)') <= lost'[c] + overlaps' + 1
    <3>1. announced[c] + Cardinality(MaySend(c)') <= lost[c] + (overlaps + 1) + 1
      BY <1>1, <1>5, <1>a, <2>b, NextSum, Zenon
    <3> QED BY <1>1, <2>1, <3>1
  <2>3. ASSUME Told(c)' PROVE announced'[c] + Cardinality(Ahead(c)') <= lost'[c] + overlaps' + 2
    <3>1. announced[c] + Cardinality(Ahead(c)) <= lost[c] + overlaps + 2
      BY <1>1, <1>a, <2>3
    <3>2. announced[c] + Cardinality(Ahead(c)') <= lost[c] + (overlaps + 1) + 2
      BY <1>1, <1>5, <2>b, <3>1, NextSum, Zenon
    <3> QED BY <1>1, <2>1, <3>2
  <2>a. announced[c] <= lost[c] + overlaps + 1
    BY <1>1, <1>5, <1>a
  <2>4. announced'[c] <= lost'[c] + overlaps'
    BY <1>1, <2>1, <2>a
  <2> QED BY <2>2, <2>3, <2>4 DEF Accounted
<1>7. CASE AtThisDate = {}
  <2>1. overlaps' = overlaps
    BY <1>7 DEF StartRun
  <2>2. Ahead(c) = {} /\ MaySend(c) = {}
    BY <1>7 DEF Ahead, MaySend
  <2>3. Cardinality(Ahead(c)) = 0 /\ Cardinality(MaySend(c)) = 0
    BY <2>2, FS_EmptySet
  <2>4. \A r \in ReminderRuns : ~InHand(r, c)
    BY <1>7 DEF InHand, AtThisDate
  <2>5. announced'[c] + Cardinality(MaySend(c)') <= lost'[c] + overlaps' + 1
    <3>1. CASE Told(c)
      <4>1. MaySend(c)' = {}
        <5>1. ASSUME NEW r \in MaySend(c)' PROVE FALSE
          <6>1. r = s
            BY <1>4, <2>2, <5>1
          <6>2. jobAt'[s] = "fetched"
            BY DEF StartRun, ReminderTypeOK
          <6> QED BY <1>1, <3>1, <5>1, <6>1, <6>2 DEF MaySend
        <5> QED BY <5>1
      <4>2. Cardinality(MaySend(c)') = 0
        BY <4>1, FS_EmptySet
      <4> QED BY <1>1, <1>a, <2>1, <2>3, <4>2
    <3>2. CASE ~Told(c)
      BY <1>1, <1>5, <1>a, <2>1, <2>3, <2>4, <3>2
    <3> QED BY <3>1, <3>2
  <2>6. Told(c)' => announced'[c] + Cardinality(Ahead(c)') <= lost'[c] + overlaps' + 2
    BY <1>1, <1>5, <1>a, <2>1, <2>3
  <2>7. ~Told(c)' => announced'[c] <= lost'[c] + overlaps'
    BY <1>1, <1>a, <2>1, <2>4
  <2> QED BY <2>5, <2>6, <2>7 DEF Accounted
<1> QED BY <1>6, <1>7

(* A new date is not one any run or row tells of.                          *)
LEMMA NewDateIsAccounted ==
  ASSUME ReminderTypeOK, RowsAreKnown, NewDate, deliveries' \subseteq deliveries,
         UNCHANGED runVars
  PROVE  AnnouncedIsAccounted'
<1> SUFFICES ASSUME NEW c \in Channels PROVE Accounted(c)'
  BY DEF AnnouncedIsAccounted
<1>1. occurrence' = occurrence + 1 /\ \A d \in deliveries' : d.sent < occurrence'
  BY RowTypes DEF NewDate, RowsAreKnown
<1>2. ~Told(c)'
  <2>1. Row(c, occurrence').sent = occurrence'
    BY DEF Row
  <2> QED BY <1>1, <2>1, RowTypes DEF Told
<1>3. AtThisDate' = {}
  BY <1>1, RowTypes DEF AtThisDate, Current, runVars
<1>4. Ahead(c)' = {} /\ MaySend(c)' = {}
  BY <1>3 DEF Ahead, MaySend
<1>5. Cardinality(MaySend(c)') = 0
  BY <1>4, FS_EmptySet
<1>6. announced'[c] = 0 /\ lost'[c] = 0 /\ overlaps' = 0
  BY DEF NewDate
<1> QED BY <1>2, <1>5, <1>6 DEF Accounted

(* Clearing the rows lets the runs that have not read them send, in        *)
(* exchange for the message that is forgotten.                             *)
LEMMA ClearIsAccounted ==
  ASSUME ReminderTypeOK, ReminderTypeOK', NEW c \in Channels, Accounted(c), ClearDeliveries
  PROVE  Accounted(c)'
<1>1. /\ announced'[c] = announced[c] /\ overlaps' = overlaps
      /\ lost'[c] = IF Told(c) THEN lost[c] + 1 ELSE lost[c]
      /\ announced[c] \in Nat /\ lost[c] \in Nat /\ overlaps \in Nat
  BY DEF ClearDeliveries, ReminderTypeOK, Told
<1>2. ~Told(c)'
  BY DEF ClearDeliveries, Told
<1>3. Ahead(c)' = Ahead(c)
  BY DEF ClearDeliveries, runVars, reminder, Ahead, AtThisDate, Passed, Current
<1>4. MaySend(c)' = Ahead(c)
  BY <1>2, <1>3 DEF MaySend
<1>5. \A r \in ReminderRuns : InHand(r, c)' <=> InHand(r, c)
  BY DEF ClearDeliveries, runVars, reminder, InHand, Current, Sender
<1>6. Cardinality(Ahead(c)) \in Nat /\ Cardinality(MaySend(c)) \in Nat
  BY AheadIsFinite
<1>7. CASE Told(c)
  <2>1. lost'[c] = lost[c] + 1
    BY <1>1, <1>7
  <2>2. announced[c] + Cardinality(Ahead(c)) <= lost[c] + overlaps + 2
    BY <1>7 DEF Accounted
  <2>3. announced[c] + Cardinality(MaySend(c)) <= lost[c] + overlaps + 1
    BY DEF Accounted
  <2>4. announced'[c] + Cardinality(MaySend(c)') <= lost'[c] + overlaps' + 1
    BY <1>1, <1>4, <1>6, <2>1, <2>2
  <2>5. announced'[c] <= lost'[c] + overlaps'
    BY <1>1, <1>6, <2>1, <2>3
  <2> QED BY <1>2, <2>4, <2>5 DEF Accounted
<1>8. CASE ~Told(c)
  <2>1. lost'[c] = lost[c] /\ MaySend(c) = Ahead(c)
    BY <1>1, <1>8 DEF MaySend
  <2>2. announced[c] + Cardinality(MaySend(c)) <= lost[c] + overlaps + 1
    BY DEF Accounted
  <2>3. (\A r \in ReminderRuns : ~InHand(r, c)) => announced[c] <= lost[c] + overlaps
    BY <1>8 DEF Accounted
  <2> QED BY <1>1, <1>2, <1>4, <1>5, <2>1, <2>2, <2>3 DEF Accounted
<1> QED BY <1>7, <1>8

(* The sender a run is at is not behind it.                                *)
LEMMA SenderIsAhead ==
  ASSUME ReminderTypeOK, NEW s \in ReminderRuns, AtSender(s), Eligible(s, Sender(s)), Current(s)
  PROVE  s \in MaySend(Sender(s))
<1>1. next[s] \in 1..Len(Senders) /\ jobAt[s] = "dispatch"
  BY DEF AtSender, ReminderTypeOK
<1>2. \A i \in 1..(next[s] - 1) : Senders[i] # Senders[next[s]]
  BY <1>1
<1>3. Sender(s) \notin Passed(s)
  BY <1>1, <1>2 DEF Passed, Sender
<1> QED BY <1>1, <1>3 DEF MaySend, Ahead, AtThisDate, Eligible

(* Once past, it stays behind.                                             *)
LEMMA PassedGrows ==
  ASSUME ReminderTypeOK, NEW s \in ReminderRuns, AtSender(s),
         \/ NextSender(s) /\ UNCHANGED jobAt
         \/ UNCHANGED next /\ jobAt'[s] \in {"save", "record"}
  PROVE  Passed(s) \subseteq Passed(s)' /\ Sender(s) \in Passed(s)'
<1>1. next[s] \in Nat \ {0} /\ jobAt[s] = "dispatch"
  BY RowTypes DEF AtSender
<1>2. Passed(s) = {Senders[i] : i \in 1..(next[s] - 1)}
  BY <1>1 DEF Passed
<1>3. Passed(s)' = {Senders[i] : i \in 1..next[s]}
  <2>1. CASE NextSender(s) /\ UNCHANGED jobAt
    <3>1. next'[s] = next[s] + 1 /\ jobAt'[s] = "dispatch"
      BY <1>1, <2>1 DEF NextSender, ReminderTypeOK
    <3>2. next'[s] - 1 = next[s]
      BY <1>1, <3>1
    <3> QED BY <3>1, <3>2 DEF Passed
  <2>2. CASE UNCHANGED next /\ jobAt'[s] \in {"save", "record"}
    BY <2>2 DEF Passed
  <2> QED BY <2>1, <2>2
<1> QED BY <1>1, <1>2, <1>3 DEF Sender

LEMMA RunIsAccounted ==
  ASSUME ReminderTypeOK, ReminderTypeOK', NEW c \in Channels, Accounted(c),
         NEW s \in ReminderRuns, SendReminders(s) \/ CrashRun(s)
  PROVE  Accounted(c)'
<1> USE DEF reminder, request, ghosts, runVars
<1>t. announced[c] \in Nat /\ lost[c] \in Nat
  BY DEF ReminderTypeOK
(* What all steps but those that send have in common.                      *)
<1>q. ASSUME Moves(s), UNCHANGED overlaps, announced'[c] = announced[c], lost'[c] >= lost[c],
             deliveries \subseteq deliveries',
             s \in Ahead(c)' => s \in Ahead(c), s \in MaySend(c)' => s \in MaySend(c),
             lost'[c] > lost[c] \/ (InHand(s, c) => InHand(s, c)' \/ Told(c)')
      PROVE  Accounted(c)'
  <2>1. Told(c) => Told(c)'
    BY <1>q DEF Told, Moves
  <2> QED BY <1>q, <2>1, RunIsQuiet
<1>1. CASE StartRun(s)
  BY <1>1, StartIsAccounted
<1>2. CASE NothingToSend(s)
  <2>1. Accounted(c)' = Accounted(c)
    BY <1>2 DEF NothingToSend, Accounted, MaySend, Ahead, AtThisDate, Passed, Current, Told,
       InHand, Sender
  <2> QED BY <2>1
<1>3. CASE ReadDeliveries(s)
  <2>1. Moves(s) /\ jobAt'[s] = "dispatch" /\ jobSent'[s] = SentChannels
    BY <1>3 DEF ReadDeliveries, Moves, ReminderTypeOK
  <2>2. Passed(s)' = Passed(s) /\ Current(s)' = Current(s)
    BY <1>3, <2>1 DEF ReadDeliveries, Passed, Current
  <2>3. s \in Ahead(c)' => s \in Ahead(c) /\ c \notin SentChannels
    BY <1>3, <2>1, <2>2 DEF ReadDeliveries, Ahead, AtThisDate
  <2>4. Told(c) => c \in SentChannels
    <3>1. Row(c, occurrence).channel = c /\ Row(c, occurrence).sent = occurrence
      BY DEF Row
    <3> QED BY <3>1, RowTypes DEF Told, SentChannels
  <2>5. s \in MaySend(c)' => s \in MaySend(c)
    BY <2>3, <2>4 DEF MaySend
  <2>6. ~InHand(s, c)
    BY <1>3 DEF ReadDeliveries, InHand
  <2> QED BY <1>3, <1>t, <1>q, <2>1, <2>3, <2>5, <2>6 DEF ReadDeliveries
<1>p. ASSUME Current(s)' = Current(s), Passed(s) \subseteq Passed(s)', jobSent'[s] = jobSent[s],
             jobAt[s] \notin {"idle", "fetched"}, jobAt'[s] # "fetched"
      PROVE  (s \in Ahead(c)' => s \in Ahead(c)) /\ (s \in MaySend(c)' => s \in MaySend(c))
  <2>1. s \in Ahead(c)' => s \in Ahead(c)
    BY <1>p DEF Ahead, AtThisDate
  <2> QED BY <1>p, <2>1 DEF MaySend
<1>4. CASE SkipSender(s)
  <2>1. /\ Moves(s) /\ jobSent'[s] = jobSent[s] /\ Current(s)' = Current(s)
        /\ jobAt[s] = "dispatch" /\ jobAt'[s] = "dispatch"
    BY <1>4 DEF SkipSender, AtSender, NextSender, Moves, Current, ReminderTypeOK
  <2>2. Passed(s) \subseteq Passed(s)'
    BY <1>4, PassedGrows DEF SkipSender
  <2> QED BY <1>4, <1>t, <1>q, <1>p, <2>1, <2>2 DEF SkipSender, InHand
<1>5. CASE Send(s)
  <2>1. /\ Moves(s) /\ jobSent'[s] = jobSent[s] /\ Current(s)' = Current(s) /\ Sender(s)' = Sender(s)
        /\ jobAt[s] = "dispatch" /\ jobAt'[s] \in {"save", "record"} /\ Told(c)' = Told(c)
    BY <1>5 DEF Send, AtSender, Moves, Current, Sender, Told, ReminderTypeOK
  <2>2. Passed(s) \subseteq Passed(s)' /\ Sender(s) \in Passed(s)'
    BY <1>5, <2>1, PassedGrows DEF Send
  <2>3. CASE Current(s) /\ c = Sender(s)
    <3>1. s \in MaySend(c)
      BY <1>5, <2>3, SenderIsAhead DEF Send
    <3>2. announced'[c] = announced[c] + 1 /\ lost'[c] = lost[c]
      BY <1>5, <2>3 DEF Send, Announce, ReminderTypeOK
    <3>3. s \notin Ahead(c)' /\ InHand(s, c)'
      BY <2>1, <2>2, <2>3 DEF Ahead, InHand
    <3> QED BY <1>5, <2>1, <3>1, <3>2, <3>3, RunSends DEF Send
  <2>4. CASE ~(Current(s) /\ c = Sender(s))
    <3>1. announced'[c] = announced[c]
      BY <1>5, <2>4 DEF Send, Announce, ReminderTypeOK
    <3> QED BY <1>5, <1>t, <1>q, <1>p, <2>1, <2>2, <3>1 DEF Send, InHand
  <2> QED BY <2>3, <2>4
<1>6. CASE SendFails(s)
  <2>1. /\ Moves(s) /\ jobSent'[s] = jobSent[s] /\ Current(s)' = Current(s)
        /\ jobAt[s] = "dispatch" /\ jobAt'[s] = "dispatch"
    BY <1>6 DEF SendFails, AtSender, NextSender, Moves, Current, ReminderTypeOK
  <2>2. Passed(s) \subseteq Passed(s)' /\ Sender(s) \in Passed(s)'
    BY <1>6, PassedGrows DEF SendFails
  <2>3. Told(c)' = Told(c)
    BY <1>6, RowTypes DEF SendFails, FailedRow, Row, Told
  <2>4. CASE announced'[c] = announced[c] /\ lost'[c] = lost[c]
    BY <1>6, <1>t, <1>q, <1>p, <2>1, <2>2, <2>4 DEF SendFails, InHand
  <2>5. CASE Announce(s) /\ Lose(s) /\ Current(s) /\ c = Sender(s)
    <3>1. announced'[c] = announced[c] + 1 /\ lost'[c] = lost[c] + 1
      BY <2>5 DEF Announce, Lose, ReminderTypeOK
    <3>2. s \in MaySend(c) /\ s \notin Ahead(c)'
      BY <1>6, <2>2, <2>5, SenderIsAhead DEF SendFails, Ahead
    <3> QED BY <1>6, <2>1, <2>3, <3>1, <3>2, RunSends DEF SendFails
  <2>6. CASE Announce(s) /\ Lose(s) /\ ~(Current(s) /\ c = Sender(s))
    <3>1. announced'[c] = announced[c] /\ lost'[c] = lost[c]
      BY <2>6 DEF Announce, Lose, ReminderTypeOK
    <3> QED BY <2>4, <3>1
  <2> QED BY <1>6, <2>4, <2>5, <2>6 DEF SendFails
<1>7. CASE SaveEmail(s)
  <2>1. /\ Moves(s) /\ jobSent'[s] = jobSent[s] /\ Current(s)' = Current(s)
        /\ jobAt[s] = "save" /\ jobAt'[s] = "record" /\ Sender(s)' = Sender(s)
    BY <1>7 DEF SaveEmail, Moves, Current, Sender, ReminderTypeOK
  <2>2. Passed(s)' = Passed(s)
    BY <1>7, <2>1 DEF SaveEmail, Passed
  <2>3. InHand(s, c) => InHand(s, c)'
    BY <2>1 DEF InHand
  <2> QED BY <1>7, <1>t, <1>q, <1>p, <2>1, <2>2, <2>3 DEF SaveEmail
<1>8. ASSUME Recorded(s) PROVE /\ Moves(s) /\ jobSent'[s] = jobSent[s] /\ Current(s)' = Current(s)
                               /\ jobAt[s] = "record" /\ jobAt'[s] = "dispatch"
                               /\ Passed(s)' = Passed(s)
  <2>1. /\ jobAt[s] = "record" /\ jobAt'[s] = "dispatch" /\ next'[s] = next[s] + 1
        /\ next[s] \in Nat
    BY <1>8, RowTypes DEF Recorded, NextSender, ReminderTypeOK
  <2>2. next'[s] - 1 = next[s]
    BY <2>1
  <2>3. Passed(s)' = Passed(s)
    BY <2>1, <2>2 DEF Passed
  <2> QED BY <1>8, <2>1, <2>3 DEF Recorded, NextSender, Moves, Current, ReminderTypeOK
<1>9. CASE recordNotificationDelivery(s)
  <2>1. InHand(s, c) => Told(c)'
    BY <1>9 DEF recordNotificationDelivery, Recorded, Told, InHand, Current
  <2> QED BY <1>9, <1>8, <1>t, <1>q, <1>p, <2>1 DEF recordNotificationDelivery, Recorded
<1>10. ASSUME Lose(s) PROVE lost'[c] >= lost[c] /\ (InHand(s, c) => lost'[c] > lost[c])
  <2>0. lost[c] \in Nat /\ lost \in [Channels -> Nat]
    BY <1>t DEF ReminderTypeOK
  <2>1. CASE Current(s) /\ c = Sender(s)
    <3>1. lost'[c] = lost[c] + 1
      BY <1>10, <2>0, <2>1 DEF Lose
    <3> QED BY <2>0, <3>1
  <2>2. CASE ~(Current(s) /\ c = Sender(s))
    <3>1. lost'[c] = lost[c] /\ ~InHand(s, c)
      BY <1>10, <2>0, <2>2 DEF Lose, InHand
    <3> QED BY <2>0, <3>1
  <2> QED BY <2>1, <2>2
<1>11. CASE RecordFails(s)
  BY <1>11, <1>8, <1>10, <1>t, <1>q, <1>p DEF RecordFails, Recorded
<1>12. ASSUME StopRun(s), UNCHANGED reminder
       PROVE  Moves(s) /\ s \notin Ahead(c)' /\ s \notin MaySend(c)'
  BY <1>12 DEF StopRun, Moves, Ahead, MaySend, AtThisDate, ReminderTypeOK
<1>13. CASE EndSending(s)
  BY <1>13, <1>12, <1>t, <1>q DEF EndSending, InHand
<1>14. CASE CrashRun(s)
  <2>1. CASE jobAt[s] \in {"save", "record"}
    BY <1>14, <2>1, <1>10, <1>12, <1>t, <1>q DEF CrashRun
  <2>2. CASE jobAt[s] \notin {"save", "record"}
    BY <1>14, <2>2, <1>12, <1>t, <1>q DEF CrashRun, InHand
  <2> QED BY <2>1, <2>2
<1> QED BY <1>1, <1>2, <1>3, <1>4, <1>5, <1>6, <1>7, <1>9, <1>11, <1>13, <1>14
        DEF SendReminders, Dispatch

LEMMA AccountedStep ==
  ReminderInv /\ [ReminderNext]_reminderVars => AnnouncedIsAccounted'
<1> SUFFICES ASSUME ReminderInv, [ReminderNext]_reminderVars PROVE AnnouncedIsAccounted'
  OBVIOUS
<1>a. ReminderTypeOK /\ RowsAreKnown /\ AnnouncedIsAccounted
  BY DEF ReminderInv
<1>t. ReminderTypeOK'
  BY <1>a, ReminderTypeStep
<1> USE DEF reminder, request, ghosts, runVars
<1>b. ASSUME UNCHANGED <<live, occurrence, deliveries, jobAt, jobRow, jobSent, next, ghosts>>
      PROVE  AnnouncedIsAccounted'
  BY <1>a, <1>b DEF AnnouncedIsAccounted, Accounted, MaySend, Ahead, AtThisDate, Passed, Current,
     Told, InHand, Sender
<1>c. ASSUME live' = FALSE PROVE AnnouncedIsAccounted'
  BY <1>c DEF AnnouncedIsAccounted
<1>1. ASSUME NEW s \in ReminderRuns, SendReminders(s) \/ CrashRun(s) PROVE AnnouncedIsAccounted'
  <2>1. UNCHANGED live
    BY <1>1 DEF SendReminders, StartRun, NothingToSend, ReadDeliveries, Dispatch, SkipSender,
       Send, SendFails, SaveEmail, recordNotificationDelivery, RecordFails, Recorded,
       EndSending, CrashRun
  <2>2. ASSUME live, NEW c \in Channels PROVE Accounted(c)'
    BY <1>1, <1>a, <1>t, <2>2, RunIsAccounted DEF AnnouncedIsAccounted
  <2> QED BY <2>1, <2>2 DEF AnnouncedIsAccounted
<1>2. CASE NextDay
  BY <1>2, <1>b DEF NextDay
<1>3. ASSUME NEW op \in Requests, LoadReminder(op) PROVE AnnouncedIsAccounted'
  BY <1>3, <1>b DEF LoadReminder
<1>4. CASE CompleteOnce
  BY <1>4, <1>c DEF CompleteOnce
<1>5. CASE Reschedule
  BY <1>5, <1>a, NewDateIsAccounted DEF Reschedule, DeleteNotificationDeliveries, FinishRequest
<1>6. CASE CompleteForGood
  BY <1>6, <1>b DEF CompleteForGood, FinishRequest
<1>7. CASE UpdateReminder
  BY <1>7, <1>a, <1>b, NewDateIsAccounted DEF UpdateReminder, FinishRequest
<1>8. CASE ClearDeliveries
  <2>1. UNCHANGED live
    BY <1>8 DEF ClearDeliveries
  <2> QED BY <1>8, <1>a, <1>t, <2>1, ClearIsAccounted DEF AnnouncedIsAccounted
<1>9. CASE DeleteRow
  BY <1>9, <1>c DEF DeleteRow
<1>10. CASE Refuse
  BY <1>10, <1>b DEF Refuse, FinishRequest
<1>11. CASE UNCHANGED reminderVars
  BY <1>11, <1>b DEF reminderVars
<1> QED BY <1>1, <1>2, <1>3, <1>4, <1>5, <1>6, <1>7, <1>8, <1>9, <1>10, <1>11
        DEF ReminderNext, Serve, CompleteReminder

LEMMA ReminderInductive == ReminderInv /\ [ReminderNext]_reminderVars => ReminderInv'
<1> SUFFICES ASSUME ReminderInv, [ReminderNext]_reminderVars PROVE ReminderInv'
  OBVIOUS
<1>1. ReminderTypeOK'
  BY ReminderTypeStep DEF ReminderInv
<1> QED BY <1>1, KnownStep, AccountedStep DEF ReminderInv

LEMMA ReminderInvariance == ReminderSpec => []ReminderInv
BY ReminderInitInv, ReminderInductive, PTL DEF ReminderSpec

(* Every reachable state has the types of its variables.                   *)
THEOREM ReminderTypeCorrect == ReminderSpec => []ReminderTypeOK
BY ReminderInvariance, PTL DEF ReminderInv

(* Through failed sends, failed records, crashes, retries, overlapping     *)
(* runs and the user's requests in between, a date is announced once on    *)
(* each channel, once more for each message whose record was lost, and     *)
(* once more for each run that started beside another.                     *)
THEOREM RepeatsAreBounded == ReminderSpec => []RepeatsAreAccountedFor
<1>1. ReminderInv => RepeatsAreAccountedFor
  <2> SUFFICES ASSUME ReminderInv, live, NEW c \in Channels
               PROVE  announced[c] <= 1 + lost[c] + overlaps
    BY DEF RepeatsAreAccountedFor
  <2>1. /\ announced[c] \in Nat /\ lost[c] \in Nat /\ overlaps \in Nat
        /\ Cardinality(MaySend(c)) \in Nat
    BY AheadIsFinite DEF ReminderInv, ReminderTypeOK
  <2>2. announced[c] + Cardinality(MaySend(c)) <= lost[c] + overlaps + 1
    BY DEF ReminderInv, AnnouncedIsAccounted, Accounted
  <2> QED BY <2>1, <2>2
<1> QED BY <1>1, ReminderInvariance, PTL

(* No step of a run takes back a date, a completion or a deletion.         *)
THEOREM UserIsObeyed == ReminderSpec => UserIsNotUndone
<1>1. ReminderInv /\ [ReminderNext]_reminderVars =>
        [ /\ occurrence' >= occurrence
          /\ completed => completed' \/ occurrence' > occurrence
          /\ live' => live ]_reminderVars
  <2> SUFFICES ASSUME ReminderInv, ReminderNext
               PROVE  /\ occurrence' >= occurrence
                      /\ completed => completed' \/ occurrence' > occurrence
                      /\ live' => live
    OBVIOUS
  <2>0. occurrence \in Nat
    BY DEF ReminderInv, ReminderTypeOK, Occurrences
  <2> USE <2>0 DEF reminder
  <2>1. CASE NextDay
    BY <2>1 DEF NextDay
  <2>2. ASSUME NEW s \in ReminderRuns, SendReminders(s) \/ CrashRun(s)
        PROVE  UNCHANGED <<occurrence, completed, live>>
    BY <2>2 DEF SendReminders, StartRun, NothingToSend, ReadDeliveries, Dispatch, SkipSender,
       Send, SendFails, SaveEmail, recordNotificationDelivery, RecordFails, Recorded,
       EndSending, CrashRun
  <2>3. CASE Serve
    BY <2>3 DEF Serve, LoadReminder, CompleteReminder, CompleteOnce, Reschedule, CompleteForGood,
               UpdateReminder, NewDate, ClearDeliveries, DeleteRow, Refuse
  <2> QED BY <2>1, <2>2, <2>3 DEF ReminderNext
<1> QED BY <1>1, ReminderInvariance, PTL DEF ReminderSpec, UserIsNotUndone
=============================================================================
