\* One table, two commits, two outside events of any kind.
SPECIFICATION Spec
CONSTANTS
  Tables = {a}
  MaxSockets = 2
  Events = {"lose", "visible", "manual", "toggle", "fault"}
  MaxEvents = 2
  MaxCommits = 2
  MaxTasks = 3
INVARIANTS TypeOK ReadyMeansShown SettledTabIsLatest
PROPERTIES ReadyResolves Reconnects
\* The tab rests when there is nothing to commit and no outside event left.
CHECK_DEADLOCK FALSE
