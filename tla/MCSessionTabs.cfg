\* Two tabs compete for a job; tabs are lost and throttled.
SPECIFICATION SessionSpec
CONSTANTS
  ja = ja
  jb = jb
  a = a
  b = b
  None = None
  Tables = {a, b}
  Jobs = {ja}
  Triggers = {ja}
  Uris = {u1}
  OutputTable <- SoloOutput
  Watches <- SoloWatches
  Sockets = {s1, s2}
  Events = {"disconnect", "stale", "error"}
  MaxEvents = 4
  Overtaking = FALSE
  MaxTime = 1
  MaxSnapshots = 8
PROPERTY LostJobsAreRequeued
\* The system rests when no job is queued and the outside events are used up.
CHECK_DEADLOCK FALSE
