----------------------------- MODULE Reminders -----------------------------
(***************************************************************************)
(* services/reminder_service.go, services/notification_service.go and      *)
(* controllers/reminder_controller.go: one reminder, the runs that         *)
(* announce it on each channel, and the user's requests that complete,     *)
(* edit or delete it meanwhile.  Reminders meet only in the email digest,  *)
(* which is left out with its birthdays; by_mail is taken as set.          *)
(*                                                                         *)
(* Several runs may be in progress: the boot-time run and the tick of one  *)
(* process share the instance id the job lock honours (job_lock.go:174),   *)
(* a stale lock is taken over, and the administrator's trigger takes none. *)
(*                                                                         *)
(* occurrence counts the dates the reminder has been set to; a delivery    *)
(* row and the legacy email_sent flag do not say which date they are for,  *)
(* so the numbers kept with them are for the properties only.              *)
(***************************************************************************)
EXTENDS Naturals, Sequences, FiniteSets

CONSTANTS
  ReminderRuns,  \* what starts a run: the boot-time trigger, the tick, an admin
  Unlocked,      \* those of them that take no job lock: TriggerReminders
  Senders,       \* the channels enabled for the user, in dispatch order
  Email,
  Kinds,         \* "once", "completion" (recurs from completion) or "schedule"
  Requests,      \* what the user may ask for
  CleanUpFails,  \* whether the statement that clears the rows may fail
  MaxOccurrence, \* bounds the dates,
  MaxRevision,   \* the user's writes,
  MaxLost,       \* the records of sent messages that are lost
  MaxOverlap     \* and the runs that start beside another

ASSUME ReminderAssumption ==
  /\ IsFiniteSet(ReminderRuns) /\ Unlocked \subseteq ReminderRuns
  /\ Len(Senders) \in Nat
  /\ \A i, j \in 1..Len(Senders) : i # j => Senders[i] # Senders[j]
  /\ Kinds \subseteq {"once", "completion", "schedule"}
  /\ Requests \subseteq {"complete", "update", "delete"}
  /\ CleanUpFails \in BOOLEAN
  /\ MaxOccurrence \in Nat \ {0} /\ MaxRevision \in Nat /\ MaxLost \in Nat
  /\ MaxOverlap \in Nat

VARIABLES
  occurrence, due, completed, emailSent, revision, live,  \* the reminder
  deliveries,  \* its rows in notification_deliveries
  jobAt, jobRow, jobSent, next, failed,  \* each run: what it read, its sender
  ran,         \* whether a run of today's succeeded (last_run_at)
  reqAt, loaded,
  announced,   \* per channel, of the current occurrence: messages that went
  lost,        \* out, and those of them no row tells of
  overlaps     \* the runs that started while another was at the same occurrence

reminder == <<occurrence, due, completed, emailSent, revision, live>>
runVars == <<jobAt, jobRow, jobSent, next, failed, ran>>
request == <<reqAt, loaded>>
ghosts == <<announced, lost, overlaps>>
reminderVars == <<reminder, deliveries, runVars, request, ghosts>>

Channels == {Senders[i] : i \in 1..Len(Senders)}
Occurrences == 1..MaxOccurrence

(* A row says that its channel failed, or was sent what was due at a date. *)
Failed == 0
Delivery == [channel : Channels, sent : {Failed} \cup Occurrences]
Row(c, o) == [channel |-> c, sent |-> o]

NoRow == [occurrence |-> 1, revision |-> 1, emailSent |-> 0]

(* A run's variables are gone with it.                                     *)
StopRun(s) ==
  /\ jobAt' = [jobAt EXCEPT ![s] = "idle"]
  /\ jobRow' = [jobRow EXCEPT ![s] = NoRow]
  /\ jobSent' = [jobSent EXCEPT ![s] = {}]
  /\ next' = [next EXCEPT ![s] = 1]
  /\ failed' = [failed EXCEPT ![s] = FALSE]

ReminderInit ==
  /\ occurrence = 1 /\ due = FALSE /\ completed = FALSE /\ emailSent = 0
  /\ revision = 1 /\ live = TRUE
  /\ deliveries = {}
  /\ jobAt = [s \in ReminderRuns |-> "idle"] /\ jobRow = [s \in ReminderRuns |-> NoRow]
  /\ jobSent = [s \in ReminderRuns |-> {}] /\ next = [s \in ReminderRuns |-> 1]
  /\ failed = [s \in ReminderRuns |-> FALSE] /\ ran = FALSE
  /\ reqAt = "idle" /\ loaded = 1
  /\ announced = [c \in Channels |-> 0] /\ lost = [c \in Channels |-> 0]
  /\ overlaps = 0

-----------------------------------------------------------------------------
(* The runs, statement by statement.                                       *)

(* A day passes, whether or not a run is still under way.                  *)
NextDay ==
  /\ ran \/ ~due
  /\ ran' = FALSE
  /\ due' \in {due, TRUE}
  /\ UNCHANGED <<occurrence, completed, emailSent, revision, live, deliveries,
                 jobAt, jobRow, jobSent, next, failed, request, ghosts>>

(* WHERE remind_at <= end of day AND completed = false                     *)
Fetched == live /\ due /\ ~completed

(* The message a run sends may be about an earlier date by then.           *)
Current(s) == jobRow[s].occurrence = occurrence
AtThisDate == {s \in ReminderRuns : jobAt[s] # "idle" /\ Current(s)}

(* The lock keeps out a run after a success, and no other run of the       *)
(* instance; the instances that wait for a fresh lock do not start.        *)
MayStart(s) == jobAt[s] = "idle" /\ (s \in Unlocked \/ ~ran)

StartRun(s) ==
  /\ MayStart(s)
  /\ Fetched
  /\ IF AtThisDate = {} THEN UNCHANGED overlaps
     ELSE overlaps < MaxOverlap /\ overlaps' = overlaps + 1
  /\ jobAt' = [jobAt EXCEPT ![s] = "fetched"]
  /\ jobRow' = [jobRow EXCEPT ![s] =
       [occurrence |-> occurrence, revision |-> revision, emailSent |-> emailSent]]
  /\ UNCHANGED <<reminder, deliveries, jobSent, next, failed, ran, request, announced, lost>>

NothingToSend(s) ==
  /\ MayStart(s)
  /\ ~Fetched
  /\ s \notin Unlocked /\ ran' = TRUE
  /\ UNCHANGED <<reminder, deliveries, jobAt, jobRow, jobSent, next, failed, request, ghosts>>

(* A mutation of SentChannels: a failed row counts as delivered.           *)
AnyChannels == {d.channel : d \in deliveries}

SentChannels == {d.channel : d \in {e \in deliveries : e.sent # Failed}}

ReadDeliveries(s) ==
  /\ jobAt[s] = "fetched"
  /\ jobSent' = [jobSent EXCEPT ![s] = SentChannels]
  /\ jobAt' = [jobAt EXCEPT ![s] = "dispatch"]
  /\ UNCHANGED <<reminder, deliveries, jobRow, next, failed, ran, request, ghosts>>

(* A mutation of Eligible: the delivery rows are not consulted.            *)
EligibleAgain(s, c) == c = Email => jobRow[s].emailSent = 0

Eligible(s, c) ==
  /\ c \notin jobSent[s]
  /\ c = Email => jobRow[s].emailSent = 0

AtSender(s) == jobAt[s] = "dispatch" /\ next[s] <= Len(Senders)
Sender(s) == Senders[next[s]]
NextSender(s) == next' = [next EXCEPT ![s] = @ + 1]

SkipSender(s) ==
  /\ AtSender(s)
  /\ ~Eligible(s, Sender(s))
  /\ NextSender(s)
  /\ UNCHANGED <<reminder, deliveries, jobAt, jobRow, jobSent, failed, ran, request, ghosts>>

Announce(s) ==
  announced' = IF Current(s) THEN [announced EXCEPT ![Sender(s)] = @ + 1] ELSE announced
Lose(s) ==
  /\ Current(s) => lost[Sender(s)] < MaxLost
  /\ lost' = IF Current(s) THEN [lost EXCEPT ![Sender(s)] = @ + 1] ELSE lost

(* The message goes out; what is left is to record it.                     *)
Send(s) ==
  /\ AtSender(s)
  /\ Eligible(s, Sender(s))
  /\ Announce(s)
  /\ jobAt' = [jobAt EXCEPT ![s] = IF Sender(s) = Email THEN "save" ELSE "record"]
  /\ UNCHANGED <<reminder, deliveries, jobRow, jobSent, next, failed, ran, request, lost,
                 overlaps>>

FailedRow(c) == Row(c, Failed)

(* The send reports an error, whether or not the message went out.         *)
SendFails(s) ==
  /\ AtSender(s)
  /\ Eligible(s, Sender(s))
  /\ \/ UNCHANGED <<announced, lost>>
     \/ Announce(s) /\ Lose(s)
  /\ deliveries' = deliveries \cup {FailedRow(Sender(s))}
  /\ failed' = [failed EXCEPT ![s] = TRUE]
  /\ NextSender(s)
  /\ UNCHANGED <<reminder, jobAt, jobRow, jobSent, ran, request, overlaps>>

(* A mutation of SaveEmail: Save without the revision's compare-and-swap   *)
(* writes back the whole row that the run fetched.                         *)
SaveUnchecked(s) ==
  /\ jobAt[s] = "save"
  /\ live
  /\ emailSent' = jobRow[s].occurrence /\ occurrence' = jobRow[s].occurrence
  /\ completed' = FALSE /\ revision' = jobRow[s].revision + 1
  /\ jobAt' = [jobAt EXCEPT ![s] = "record"]
  /\ UNCHANGED <<due, live, deliveries, jobRow, jobSent, next, failed, ran, request, ghosts>>

(* Save of the row the run fetched, with email_sent set; it goes through   *)
(* at the fetched revision only, and its error is logged.                  *)
SaveEmail(s) ==
  /\ jobAt[s] = "save"
  /\ \/ /\ live /\ revision = jobRow[s].revision
        /\ emailSent' = jobRow[s].occurrence
        /\ revision' = revision + 1
     \/ UNCHANGED <<emailSent, revision>>
  /\ jobAt' = [jobAt EXCEPT ![s] = "record"]
  /\ UNCHANGED <<occurrence, due, completed, live, deliveries, jobRow, jobSent,
                 next, failed, ran, request, ghosts>>

Recorded(s) ==
  /\ jobAt[s] = "record"
  /\ jobAt' = [jobAt EXCEPT ![s] = "dispatch"]
  /\ NextSender(s)
  /\ UNCHANGED <<reminder, jobRow, jobSent, failed, ran, request, announced, overlaps>>

recordNotificationDelivery(s) ==
  /\ Recorded(s)
  /\ deliveries' = deliveries \cup {Row(Sender(s), jobRow[s].occurrence)}
  /\ UNCHANGED lost

(* The row could not be written, which is logged.                          *)
RecordFails(s) == Recorded(s) /\ Lose(s) /\ UNCHANGED deliveries

(* Only a run that still holds the lock records its success: another run   *)
(* of the instance may have released it, or another instance taken it.     *)
EndSending(s) ==
  /\ jobAt[s] = "dispatch" /\ next[s] > Len(Senders)
  /\ StopRun(s)
  /\ \/ UNCHANGED ran
     \/ s \notin Unlocked /\ ~failed[s] /\ ran' = TRUE
  /\ UNCHANGED <<reminder, deliveries, request, ghosts>>

(* The process stops, or the run panics; a request that ends with it is    *)
(* one that is refused.                                                    *)
CrashRun(s) ==
  /\ jobAt[s] # "idle"
  /\ IF jobAt[s] \in {"save", "record"} THEN Lose(s) ELSE UNCHANGED lost
  /\ StopRun(s)
  /\ UNCHANGED <<reminder, deliveries, ran, request, announced, overlaps>>

-----------------------------------------------------------------------------
(* The user's requests: each loads the reminder and writes it later.       *)

(* The bound on the user's writes; a run's save does not use one up.       *)
MayWrite == revision < MaxRevision \/ (revision = MaxRevision /\ emailSent > 0)

LoadReminder(op) ==
  /\ reqAt = "idle"
  /\ live
  /\ MayWrite
  /\ reqAt' = op
  /\ loaded' = revision
  /\ UNCHANGED <<reminder, deliveries, runVars, ghosts>>

FinishRequest == reqAt' = "idle" /\ loaded' = 1 /\ UNCHANGED runVars

NewDate ==
  /\ occurrence < MaxOccurrence
  /\ occurrence' = occurrence + 1
  /\ announced' = [c \in Channels |-> 0] /\ lost' = [c \in Channels |-> 0]
  /\ overlaps' = 0

(* Save and Updates: the revision's compare-and-swap.                      *)
bumpRevisionCAS ==
  /\ live /\ revision = loaded
  /\ revision' = revision + 1

(* The clean-up of the rows is best effort: its error is logged.           *)
DeleteNotificationDeliveries ==
  deliveries' = {} \/ (CleanUpFails /\ UNCHANGED deliveries)

CompleteOnce ==
  /\ reqAt = "complete" /\ "once" \in Kinds
  /\ live' = FALSE
  /\ DeleteNotificationDeliveries
  /\ FinishRequest
  /\ UNCHANGED <<occurrence, due, completed, emailSent, revision, ghosts>>

Reschedule ==
  /\ reqAt = "complete" /\ "completion" \in Kinds
  /\ bumpRevisionCAS
  /\ NewDate
  /\ due' = FALSE /\ completed' = FALSE /\ emailSent' = 0
  /\ DeleteNotificationDeliveries
  /\ FinishRequest
  /\ UNCHANGED live

CompleteForGood ==
  /\ reqAt = "complete" /\ "schedule" \in Kinds
  /\ bumpRevisionCAS
  /\ completed' = TRUE
  /\ FinishRequest
  /\ UNCHANGED <<occurrence, due, emailSent, live, deliveries, ghosts>>

(* A PUT may move the reminder to another date or change its recurrence;   *)
(* it touches neither the rows nor email_sent.                             *)
UpdateReminder ==
  /\ reqAt = "update"
  /\ bumpRevisionCAS
  /\ \/ UNCHANGED <<occurrence, due, ghosts>>
     \/ NewDate /\ due' \in BOOLEAN
  /\ FinishRequest
  /\ UNCHANGED <<completed, emailSent, live, deliveries>>

(* DeleteReminder clears the rows and then deletes the reminder, in two    *)
(* statements; a message is forgotten if only the first succeeds.          *)
ClearDeliveries ==
  /\ reqAt = "delete"
  /\ \A c \in Channels : lost[c] < MaxLost
  /\ deliveries' = {}
  /\ lost' = [c \in Channels |->
                IF Row(c, occurrence) \in deliveries THEN lost[c] + 1 ELSE lost[c]]
  /\ reqAt' = "deleteRow"
  /\ UNCHANGED <<reminder, runVars, loaded, announced, overlaps>>

DeleteRow ==
  /\ reqAt = "deleteRow"
  /\ live' = FALSE
  /\ FinishRequest
  /\ UNCHANGED <<occurrence, due, completed, emailSent, revision, deliveries, ghosts>>

(* A failed statement, a lost compare-and-swap or a process that stops:    *)
(* the request ends there.                                                 *)
Refuse ==
  /\ reqAt # "idle"
  /\ FinishRequest
  /\ UNCHANGED <<reminder, deliveries, ghosts>>

CompleteReminder == CompleteOnce \/ Reschedule \/ CompleteForGood

Dispatch(s) ==
  \/ SkipSender(s) \/ Send(s) \/ SendFails(s) \/ SaveEmail(s)
  \/ recordNotificationDelivery(s) \/ RecordFails(s) \/ EndSending(s)

SendReminders(s) == StartRun(s) \/ NothingToSend(s) \/ ReadDeliveries(s) \/ Dispatch(s)

Serve ==
  \/ \E op \in Requests : LoadReminder(op)
  \/ CompleteReminder \/ UpdateReminder \/ ClearDeliveries \/ DeleteRow \/ Refuse

ReminderNext ==
  \/ NextDay
  \/ \E s \in ReminderRuns : SendReminders(s) \/ CrashRun(s)
  \/ Serve

ReminderSpec == ReminderInit /\ [][ReminderNext]_reminderVars

(* Days go by and the scheduled runs come; a process that crashes or a     *)
(* channel that fails does so at every step only finitely often.           *)
ReminderFairness ==
  /\ WF_reminderVars(NextDay)
  /\ WF_reminderVars(\E s \in ReminderRuns \ Unlocked : StartRun(s))
  /\ WF_reminderVars(\E s \in ReminderRuns \ Unlocked : NothingToSend(s))
  /\ SF_reminderVars(\E s \in ReminderRuns : ReadDeliveries(s))
  /\ SF_reminderVars(\E s \in ReminderRuns : SkipSender(s))
  /\ \A i \in 1..Len(Senders) : SF_reminderVars(\E s \in ReminderRuns : next[s] = i /\ Send(s))
  /\ \A s \in ReminderRuns : WF_reminderVars(Dispatch(s))
  /\ WF_reminderVars(reqAt # "idle" /\ Serve)

ReminderFairSpec == ReminderSpec /\ ReminderFairness

-----------------------------------------------------------------------------
ReminderTypeOK ==
  /\ occurrence \in Occurrences
  /\ due \in BOOLEAN /\ completed \in BOOLEAN /\ live \in BOOLEAN
  /\ emailSent \in 0..occurrence
  /\ revision \in Nat \ {0}
  /\ deliveries \subseteq Delivery
  /\ jobAt \in [ReminderRuns -> {"idle", "fetched", "dispatch", "save", "record"}]
  /\ jobRow \in [ReminderRuns ->
       [occurrence : 1..occurrence, revision : 1..revision, emailSent : 0..occurrence]]
  /\ jobSent \in [ReminderRuns -> SUBSET Channels]
  /\ next \in [ReminderRuns -> 1..(Len(Senders) + 1)]
  /\ \A s \in ReminderRuns : jobAt[s] \in {"save", "record"} => next[s] <= Len(Senders)
  /\ failed \in [ReminderRuns -> BOOLEAN] /\ ran \in BOOLEAN
  /\ reqAt \in {"idle", "complete", "update", "delete", "deleteRow"}
  /\ loaded \in 1..revision
  /\ announced \in [Channels -> Nat] /\ lost \in [Channels -> Nat]
  /\ overlaps \in Nat

(* Retries are safe: however runs fail, crash and repeat, the date a live  *)
(* reminder has is announced once on a channel, plus once for each message *)
(* whose record was lost and for each run that started while another was   *)
(* at the same date (the (reminder, channel) key of sendRemindersAt).      *)
RepeatsAreAccountedFor ==
  live => \A c \in Channels : announced[c] <= 1 + lost[c] + overlaps

(* A run does not undo what the user did meanwhile: its Save of the        *)
(* reminder it fetched brings back no earlier date, no completed reminder  *)
(* and no deleted one.                                                     *)
UserIsNotUndone ==
  [][ /\ occurrence' >= occurrence
      /\ completed => completed' \/ occurrence' > occurrence
      /\ live' => live ]_reminderVars

(* What hides a reminder from a channel although it was announced on an    *)
(* earlier date only.                                                      *)
Blocked(c) ==
  \/ \E d \in deliveries : d.channel = c /\ d.sent # Failed /\ d.sent < occurrence
  \/ c = Email /\ emailSent \in 1..(occurrence - 1)

(* A reminder that stays due is announced on every channel at the date it  *)
(* has, through failed sends, failed records, crashes and other runs,      *)
(* unless an earlier date blocks it.                                       *)
DueIsAnnounced ==
  <>[]Fetched => []<>(\A c \in Channels : announced[c] > 0 \/ Blocked(c))

(* services/job_lock.go:28: "de-dup is ultimately on the user-visible      *)
(* event too (notificationDeliveryKey for reminders)": no message is       *)
(* repeated unless its record was lost.                                    *)
AnnouncedOnce ==
  live => \A c \in Channels : announced[c] <= 1 + lost[c]

(* services/notification_service.go:159: when a reminder is rescheduled    *)
(* "the old occurrence's deliveries must not block the new one".           *)
OldDeliveriesDoNotBlock ==
  AtThisDate = {} /\ reqAt = "idle" /\ Fetched => \A c \in Channels : ~Blocked(c)
=============================================================================
