\* One tab runs a chain of two jobs; it is lost, the session DO restarts, jobs are deleted.
SPECIFICATION SessionSpec
CONSTANTS
  ja = ja
  jb = jb
  a = a
  b = b
  None = None
  Tables = {a, b}
  Jobs = {ja, jb}
  Triggers = {ja, jb}
  Uris = {u1}
  OutputTable <- ChainOutput
  Watches <- ChainWatches
  Sockets = {s1}
  Events = {"disconnect", "restart", "delete", "error"}
  MaxEvents = 3
  Overtaking = FALSE
  MaxTime = 1
  MaxSnapshots = 8
INVARIANTS SessionTypeOK DoneMeansCommitted
PROPERTY Recovery
\* The system rests when no job is queued and the outside events are used up.
CHECK_DEADLOCK FALSE
