\* One job, edited, disabled, triggered, failing and interrupted.
SPECIFICATION Spec
CONSTANTS
  Jobs = {j1}
  MaxTime = 3
  Schedules <- TwoSchedules
  MaxRetries = 1
  Events = {"edit", "enable", "trigger", "delete", "failure", "crash", "fault"}
  MaxEvents = 2
INVARIANT EveryRunReported
PROPERTIES DueIsEnqueued ScheduleHeals
\* The system rests when the last instant has passed.
CHECK_DEADLOCK FALSE
