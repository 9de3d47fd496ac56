------------------------------ MODULE Webhooks ------------------------------
(***************************************************************************)
(* services/webhook_service.go: the delivery of domain events to a         *)
(* webhook.  An event is sent by a goroutine, which saves one              *)
(* WebhookDelivery row when the attempt is over; a failed attempt's row    *)
(* carries next_retry_at, and the retry job turns a due row into the next  *)
(* attempt's goroutine.  Goroutines die with the process; rows stay.       *)
(*                                                                         *)
(* An event here is one (event, subscribed webhook) pair, with all of its  *)
(* attempts.  The retry job's runs do not overlap: its lock is JobLock's,  *)
(* with one trigger and runs far shorter than the lock's timeout.          *)
(***************************************************************************)
EXTENDS Naturals, FiniteSets

CONSTANTS
  Events,
  MaxAttempts,   \* maxDeliveryAttempts
  Slots          \* the capacity of deliverySem

ASSUME WebhookAssumption == MaxAttempts \in Nat \ {0} /\ Slots \in Nat \ {0}

VARIABLES
  isActive,   \* the webhook's is_active
  task,       \* the event's delivery goroutine: "none", "queued" for a slot,
              \* "sending", or "saving" the row of the attempt
  attempt,    \* the attempt it is making, or made last
  reply,      \* how the attempt ended: "ok", "transient" or "permanent"
  retry,      \* attempts of the row whose next_retry_at is set, 0 if there is none
  elapsed,    \* the events whose next_retry_at has passed
  batch,      \* the rows the retry job has loaded and not handled yet
  ended,      \* history: what became of the event, "open" if that is not settled
  sends       \* history: the requests made for it

memory == <<task, attempt, reply, batch>>
webhookVars == <<isActive, task, attempt, reply, retry, elapsed, batch, ended, sends>>

WebhookTypeOK ==
  /\ isActive \in BOOLEAN
  /\ task \in [Events -> {"none", "queued", "sending", "saving"}]
  /\ attempt \in [Events -> 0..MaxAttempts]
  /\ reply \in [Events -> {"none", "ok", "transient", "permanent"}]
  /\ retry \in [Events -> 0..MaxAttempts]
  /\ elapsed \subseteq {e \in Events : retry[e] # 0}
  /\ batch \subseteq Events
  /\ ended \in [Events -> {"untriggered", "open", "delivered", "failed", "dropped", "lost"}]
  /\ sends \in [Events -> Nat]

WebhookInit ==
  /\ isActive = TRUE
  /\ task = [e \in Events |-> "none"]
  /\ attempt = [e \in Events |-> 0]
  /\ reply = [e \in Events |-> "none"]
  /\ retry = [e \in Events |-> 0]
  /\ elapsed = {}
  /\ batch = {}
  /\ ended = [e \in Events |-> "untriggered"]
  /\ sends = [e \in Events |-> 0]

(* A goroutine for attempt n of e.                                         *)
Spawn(e, n) ==
  /\ task' = [task EXCEPT ![e] = "queued"]
  /\ attempt' = [attempt EXCEPT ![e] = n]
  /\ reply' = [reply EXCEPT ![e] = "none"]

-----------------------------------------------------------------------------
(* TriggerWebhooks finds the webhook active and subscribed.                *)
TriggerWebhooks(e) ==
  /\ isActive
  /\ ended[e] = "untriggered"
  /\ ended' = [ended EXCEPT ![e] = "open"]
  /\ Spawn(e, 1)
  /\ UNCHANGED <<isActive, retry, elapsed, batch, sends>>

(* deliverySem                                                             *)
GetSlot(e) ==
  /\ task[e] = "queued"
  /\ Cardinality({f \in Events : task[f] \in {"sending", "saving"}}) < Slots
  /\ task' = [task EXCEPT ![e] = "sending"]
  /\ UNCHANGED <<isActive, attempt, reply, retry, elapsed, batch, ended, sends>>

(* deliverWebhook up to the answer.  A transport error says nothing about  *)
(* whether the receiver got the request; an address the policy blocks is   *)
(* never sent to and not retried.                                          *)
deliverWebhook(e) ==
  /\ task[e] = "sending"
  /\ task' = [task EXCEPT ![e] = "saving"]
  /\ \/ /\ sends' = [sends EXCEPT ![e] = @ + 1]
        /\ \E r \in {"ok", "transient", "permanent"} : reply' = [reply EXCEPT ![e] = r]
     \/ /\ \E r \in {"transient", "permanent"} : reply' = [reply EXCEPT ![e] = r]
        /\ UNCHANGED sends
  /\ UNCHANGED <<isActive, attempt, retry, elapsed, batch, ended>>

(* A mutation of Retries: one attempt more than the retry job takes on.    *)
RetriesOnceMore(e) == reply[e] = "transient" /\ attempt[e] <= MaxAttempts

(* retryAt: nil when the budget is spent.                                  *)
Retries(e) == reply[e] = "transient" /\ attempt[e] < MaxAttempts

Outcome(e) == IF reply[e] = "ok" THEN "delivered" ELSE "failed"

(* saveDelivery: a row, due for retry later if the failure was transient.  *)
SaveDelivery(e) ==
  /\ task[e] = "saving"
  /\ task' = [task EXCEPT ![e] = "none"]
  /\ IF Retries(e)
     THEN /\ retry' = [retry EXCEPT ![e] = attempt[e]]
          /\ UNCHANGED ended
     ELSE /\ ended' = [ended EXCEPT ![e] = Outcome(e)]
          /\ UNCHANGED retry
  /\ UNCHANGED <<isActive, attempt, reply, elapsed, batch, sends>>

(* What becomes of an event whose goroutine leaves no row.                 *)
Unsaved(e) ==
  IF task[e] = "saving" /\ ~Retries(e) THEN Outcome(e) ELSE "lost"

(* db.Create fails, which is only logged.                                  *)
SaveFails(e) ==
  /\ task[e] = "saving"
  /\ task' = [task EXCEPT ![e] = "none"]
  /\ ended' = [ended EXCEPT ![e] = Unsaved(e)]
  /\ UNCHANGED <<isActive, attempt, reply, retry, elapsed, batch, sends>>

-----------------------------------------------------------------------------
(* ProcessWebhookRetries                                                   *)

(* The backoff of the row is over.                                         *)
Backoff(e) ==
  /\ retry[e] # 0 /\ e \notin elapsed
  /\ elapsed' = elapsed \cup {e}
  /\ UNCHANGED <<isActive, memory, retry, ended, sends>>

LoadDue ==
  /\ batch = {}
  /\ batch' = {e \in elapsed : retry[e] < MaxAttempts}
  /\ batch' # {}
  /\ UNCHANGED <<isActive, task, attempt, reply, retry, elapsed, ended, sends>>

(* A mutation of ClearRow: the row is left for the new one to supersede.   *)
LeaveRow(e) == UNCHANGED <<retry, elapsed>>

(* next_retry_at is cleared before the next attempt is started.            *)
ClearRow(e) ==
  /\ retry' = [retry EXCEPT ![e] = 0]
  /\ elapsed' = elapsed \ {e}

RetryRow(e) ==
  /\ e \in batch
  /\ isActive
  /\ ClearRow(e)
  /\ batch' = batch \ {e}
  /\ Spawn(e, retry[e] + 1)
  /\ UNCHANGED <<isActive, ended, sends>>

(* The webhook is not found: it is gone or inactive, or the query failed.  *)
DropRow(e) ==
  /\ e \in batch
  /\ ClearRow(e)
  /\ batch' = batch \ {e}
  /\ ended' = [ended EXCEPT ![e] = "dropped"]
  /\ UNCHANGED <<isActive, task, attempt, reply, sends>>

(* A mutation of SkipRow: the row is cleared although no attempt starts.   *)
SkipRowCleared(e) ==
  /\ e \in batch
  /\ ClearRow(e)
  /\ batch' = batch \ {e}
  /\ UNCHANGED <<isActive, task, attempt, reply, ended, sends>>

(* The UPDATE fails; the row stays due for the next run.                   *)
SkipRow(e) ==
  /\ e \in batch
  /\ batch' = batch \ {e}
  /\ UNCHANGED <<isActive, task, attempt, reply, retry, elapsed, ended, sends>>

-----------------------------------------------------------------------------
(* The user switches the webhook on or off.                                *)
Toggle ==
  /\ isActive' = ~isActive
  /\ UNCHANGED <<memory, retry, elapsed, ended, sends>>

(* The process stops.  With notice it waits ten seconds for the delivery   *)
(* goroutines, which a slow request outlasts; without, not at all.         *)
CrashDeliveries ==
  /\ task' = [e \in Events |-> "none"]
  /\ batch' = {}
  /\ ended' = [e \in Events |-> IF task[e] = "none" THEN ended[e] ELSE Unsaved(e)]
  /\ UNCHANGED <<isActive, attempt, reply, retry, elapsed, sends>>

WebhookNext ==
  \/ \E e \in Events :
       \/ TriggerWebhooks(e) \/ GetSlot(e) \/ deliverWebhook(e) \/ SaveDelivery(e) \/ SaveFails(e)
       \/ Backoff(e) \/ RetryRow(e) \/ DropRow(e) \/ SkipRow(e)
  \/ LoadDue \/ Toggle \/ CrashDeliveries

WebhookSpec == WebhookInit /\ [][WebhookNext]_webhookVars

(* Goroutines run, requests time out, a slot that keeps becoming free is   *)
(* got, the job ticks, and the database does not fail on the same row      *)
(* every time.                                                             *)
WebhookFairness ==
  /\ WF_webhookVars(LoadDue)
  /\ \A e \in Events :
       /\ SF_webhookVars(GetSlot(e))
       /\ WF_webhookVars(deliverWebhook(e))
       /\ WF_webhookVars(SaveDelivery(e) \/ SaveFails(e))
       /\ WF_webhookVars(Backoff(e))
       /\ SF_webhookVars(RetryRow(e) \/ DropRow(e))
       /\ WF_webhookVars(RetryRow(e) \/ DropRow(e) \/ SkipRow(e))

WebhookFairSpec == WebhookSpec /\ WebhookFairness

-----------------------------------------------------------------------------
(* An event is scheduled once: while an attempt is under way no row of its *)
(* is waiting, so no run of the retry job starts a second one.             *)
ScheduledOnce ==
  \A e \in Events : task[e] # "none" => retry[e] = 0 /\ e \notin batch

(* Only a goroutine that dies, or a row that cannot be saved, loses an     *)
(* event: an open one always has an attempt under way or a row to retry.   *)
OpenIsScheduled ==
  \A e \in Events : ended[e] = "open" => task[e] # "none" \/ retry[e] # 0

(* Every event ends: delivered, failed, dropped with its webhook, or lost  *)
(* with its goroutine.                                                     *)
EventsEnd == \A e \in Events : ended[e] = "open" ~> ended[e] # "open"

(* webhook_service.go:223-226: "(a durable WebhookDelivery row that        *)
(* ProcessWebhookRetries replays), so a non-zero count means the event is  *)
(* durably handled even if the immediate attempt fails"; and               *)
(* integrations/retry.go:81: "pending retries survive" a restart.          *)
NothingLost == \A e \in Events : ended[e] # "lost"
=============================================================================
