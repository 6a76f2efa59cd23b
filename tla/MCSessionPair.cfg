\* Two tabs compete for two jobs, one of the tabs is lost.
SPECIFICATION SessionSpec
CONSTANTS
  ja = ja
  jb = jb
  a = a
  b = b
  None = None
  Tables = {a}
  Jobs = {ja, jb}
  Triggers = {ja, jb}
  Uris = {u1}
  OutputTable <- PairOutput
  Watches <- PairWatches
  Sockets = {s1, s2}
  Events = {"disconnect"}
  MaxEvents = 3
  Overtaking = FALSE
  MaxTime = 1
  MaxSnapshots = 8
SYMMETRY PairSymmetry
INVARIANT ClaimsAreTracked
PROPERTY NeverTakenWhileExecuting
\* The system rests when no job is queued and the outside events are used up.
CHECK_DEADLOCK FALSE
