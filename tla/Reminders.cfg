CONSTANTS
  ReminderRuns = {tick, admin}
  Unlocked = {admin}
  Email = email
  ntfy = ntfy
  Senders <- MCSenders
  Kinds = {"once", "completion", "schedule"}
  Requests = {"complete", "update", "delete"}
  CleanUpFails = TRUE
  MaxOccurrence = 2
  MaxRevision = 2
  MaxLost = 1
  MaxOverlap = 1
SPECIFICATION ReminderFairSpec
INVARIANTS RepeatsAreAccountedFor
PROPERTIES UserIsNotUndone DueIsAnnounced
