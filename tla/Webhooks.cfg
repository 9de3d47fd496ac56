CONSTANTS
  Events = {e1, e2}
  MaxAttempts = 3
  Slots = 1
  e1 = e1
  e2 = e2
SPECIFICATION WebhookFairSpec
INVARIANTS ScheduledOnce OpenIsScheduled
PROPERTIES EventsEnd
