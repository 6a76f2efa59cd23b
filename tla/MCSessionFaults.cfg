\* One tab, requests of the rest of the worker, failing and overtaking calls.
SPECIFICATION SessionSpec
CONSTANTS
  ja = ja
  jb = jb
  a = a
  b = b
  None = None
  Tables = {a, b}
  Jobs = {ja}
  Triggers = {ja}
  Uris = {u1}
  OutputTable <- SoloOutput
  Watches <- SoloWatches
  Sockets = {s1}
  Events = {"disconnect", "restart", "fault", "trigger", "commit", "error"}
  MaxEvents = 3
  Overtaking = TRUE
  MaxTime = 1
  MaxSnapshots = 8
PROPERTY Recovery
\* The system rests when no job is queued and the outside events are used up.
CHECK_DEADLOCK FALSE
