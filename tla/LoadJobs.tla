------------------------------ MODULE LoadJobs ------------------------------
(***************************************************************************)
(* Load jobs: rows of the D1 table load_jobs (src/db/load-jobs.ts), the    *)
(* cron handler that enqueues the due ones and the queue consumer that     *)
(* runs them (scheduled and queue in src/index.ts), the loaders            *)
(* (src/loaders) as the consumer sees them, and the requests that create,  *)
(* edit, disable, trigger and delete a job (src/index.ts,                  *)
(* src/mcp/server.ts).                                                     *)
(*                                                                         *)
(* Time is a sequence of instants; a cron schedule is the set of instants  *)
(* at which it fires.  The statements of a handler interleave with those   *)
(* of the others; the row a handler has read is a local copy.              *)
(***************************************************************************)
EXTENDS Naturals, Sequences

CONSTANTS Jobs,         \* ids of load jobs
          MaxTime,      \* the last instant
          Schedules,    \* cron expressions: sets of instants
          MaxRetries,   \* max_retries of the queue (wrangler.toml: 3)
          Events,       \* requests and failures that may happen ...
          MaxEvents     \* ... and how many of them

(* Every schedule fires again and again: it fires at the last instant too. *)
ASSUME LoadAssumption ==
  /\ MaxTime \in Nat \ {0}
  /\ Schedules \subseteq SUBSET (1..MaxTime) /\ Schedules # {}
  /\ \A s \in Schedules : MaxTime \in s
  /\ MaxRetries \in Nat /\ MaxEvents \in Nat
  /\ Events \subseteq {"edit", "enable", "trigger", "delete",
                       "failure", "crash", "fault"}

VARIABLES now,      \* Date.now()
          rows,     \* load_jobs, by id
          cron,     \* what the cron handler has still to do
          updates,  \* MCP updates that have read the row they will write
          msgs,     \* every queue message ever sent, with its delivery
          events    \* outside events left

vars == <<now, rows, cron, updates, msgs, events>>

Instants == 1..MaxTime
Beyond   == MaxTime + 1     \* an instant after the last one

Row == [cron_schedule : Schedules, next_run_at : 1..Beyond, enabled : BOOLEAN,
        last_run_at : 0..MaxTime, last_error : BOOLEAN]

(* The delivery of a message.  "queued" includes the delay of a retry,     *)
(* "gone" means acknowledged or given up, "lost" acknowledged by the queue *)
(* itself.  row holds what the consumer still uses of the row it read;     *)
(* reported is a history variable.                                         *)
Msg == [job : Jobs,
        at : {"queued", "loading", "loaded", "failed", "acking", "gone", "lost"},
        attempts : 0..MaxRetries,
        row : [cron_schedule : Schedules, next_run_at : 1..Beyond],
        reported : BOOLEAN]

Advance == [op : {"advance"}, job : Jobs, next : 1..Beyond]
Send    == [op : {"send"}, job : Jobs]
Update  == [job : Jobs, cron_schedule : Schedules]

TypeOK ==
  /\ now \in Instants
  /\ DOMAIN rows \subseteq Jobs
  /\ rows \in [DOMAIN rows -> Row]
  /\ cron \subseteq Advance \cup Send
  /\ updates \subseteq Update
  /\ msgs \in Seq(Msg)
  /\ events \in 0..MaxEvents

Init ==
  /\ now = 1
  /\ rows = [j \in {} |-> 0]
  /\ cron = {}
  /\ updates = {}
  /\ msgs = <<>>
  /\ events = MaxEvents

-----------------------------------------------------------------------------
(* Helpers.                                                                *)

(* new Cron(schedule).nextRun(): the first instant after the present one.  *)
NextRun(schedule) ==
  CHOOSE t \in schedule \cup {Beyond} :
    t > now /\ \A u \in schedule : u > now => t <= u

(* UPDATE load_jobs SET ... WHERE id = ?: without a row it does nothing.   *)
UpdateRow(j, new) ==
  rows' = [k \in DOMAIN rows |-> IF k = j THEN new ELSE rows[k]]

(* What stands in a message's row when no handler holds one.               *)
NoRow == [cron_schedule |-> CHOOSE s \in Schedules : TRUE, next_run_at |-> 1]

Enqueue(j) ==
  msgs' = Append(msgs, [job |-> j, at |-> "queued", attempts |-> 0,
                        row |-> NoRow, reported |-> FALSE])

Outside(kind) ==
  /\ kind \in Events /\ events > 0
  /\ events' = events - 1

-----------------------------------------------------------------------------
(* scheduled: the cron handler.  It reads the due jobs, computes the next  *)
(* run of each and then, all at once, advances the rows and sends the      *)
(* messages.  An invocation has finished when the next one begins.         *)

(* Seeded bug: next_run_at = now instead of next_run_at <= now.            *)
DueExactlyNow == {j \in DOMAIN rows : rows[j].enabled /\ rows[j].next_run_at = now}

Due == {j \in DOMAIN rows : rows[j].enabled /\ rows[j].next_run_at <= now}

Scheduled ==
  /\ cron = {} /\ Due # {}
  /\ cron' = {[op |-> "advance", job |-> j,
               next |-> NextRun(rows[j].cron_schedule)] : j \in Due}
             \cup {[op |-> "send", job |-> j] : j \in Due}
  /\ UNCHANGED <<now, rows, updates, msgs, events>>

AdvanceNextRunAt(e) ==
  /\ e \in cron /\ e.op = "advance"
  /\ cron' = cron \ {e}
  /\ UpdateRow(e.job, [rows[e.job] EXCEPT !.next_run_at = e.next])
  /\ UNCHANGED <<now, updates, msgs, events>>

SendMessage(e) ==
  /\ e \in cron /\ e.op = "send"
  /\ cron' = cron \ {e}
  /\ Enqueue(e.job)
  /\ UNCHANGED <<now, rows, updates, events>>

(* One of the two fails, the other one is not affected.                    *)
CronFault(e) ==
  /\ Outside("fault")
  /\ e \in cron
  /\ cron' = cron \ {e}
  /\ UNCHANGED <<now, rows, updates, msgs>>

-----------------------------------------------------------------------------
(* queue: the consumer, once per delivered message.                        *)

(* The copy of the row dies with the handler.                              *)
HoldsRow(new) == new.at \in {"loading", "loaded", "failed"}

Handle(m, new) ==
  /\ msgs' = [msgs EXCEPT ![m] =
                IF HoldsRow(new) THEN new ELSE [new EXCEPT !.row = NoRow]]
  /\ UNCHANGED <<now, cron, updates>>

(* Seeded bug: a message of a disabled job is acknowledged, too.           *)
SkipDisabled(m) ==
  /\ msgs[m].at = "queued"
  /\ msgs[m].job \in DOMAIN rows => ~ rows[msgs[m].job].enabled
  /\ Handle(m, [msgs[m] EXCEPT !.at = "gone"])
  /\ UNCHANGED <<rows, events>>

(* The message of a job that was deleted is acknowledged.                  *)
Skip(m) ==
  /\ msgs[m].at = "queued"
  /\ msgs[m].job \notin DOMAIN rows
  /\ Handle(m, [msgs[m] EXCEPT !.at = "gone"])
  /\ UNCHANGED <<rows, events>>

StartLoad(m) ==
  LET j == msgs[m].job IN
  /\ msgs[m].at = "queued"
  /\ j \in DOMAIN rows
  /\ Handle(m, [msgs[m] EXCEPT
                  !.at = "loading",
                  !.row = [cron_schedule |-> rows[j].cron_schedule,
                           next_run_at |-> rows[j].next_run_at]])
  /\ UNCHANGED <<rows, events>>

(* The loader has fetched the data, written the object and committed it.   *)
Load(m) ==
  /\ msgs[m].at = "loading"
  /\ Handle(m, [msgs[m] EXCEPT !.at = "loaded"])
  /\ UNCHANGED <<rows, events>>

(* The loader throws: no credential or backend, an upstream or storage     *)
(* error, too many pages, a commit that is refused or not confirmed.       *)
LoadFails(m) ==
  /\ Outside("failure")
  /\ msgs[m].at = "loading"
  /\ Handle(m, [msgs[m] EXCEPT !.at = "failed"])
  /\ UNCHANGED rows

(* The outcome is written with what was read when the load began.          *)
ReportSuccess(m) ==
  LET j == msgs[m].job IN
  /\ msgs[m].at = "loaded"
  /\ Handle(m, [msgs[m] EXCEPT !.at = "acking", !.reported = TRUE])
  /\ UpdateRow(j, [rows[j] EXCEPT !.last_run_at = now, !.last_error = FALSE,
                                  !.next_run_at = NextRun(msgs[m].row.cron_schedule)])
  /\ UNCHANGED events

(* The jobs that the commit triggered have been dispatched, or not.        *)
Ack(m) ==
  /\ msgs[m].at = "acking"
  /\ Handle(m, [msgs[m] EXCEPT !.at = "gone"])
  /\ UNCHANGED <<rows, events>>

(* The queue delivers a message again until its retries are used up.       *)
Redeliver(m, reported) ==
  IF msgs[m].attempts < MaxRetries
  THEN [msgs[m] EXCEPT !.at = "queued", !.attempts = @ + 1, !.reported = reported]
  ELSE [msgs[m] EXCEPT !.at = "gone", !.reported = reported]

ReportFailure(m) ==
  LET j == msgs[m].job IN
  /\ msgs[m].at = "failed"
  /\ Handle(m, Redeliver(m, TRUE))
  /\ UpdateRow(j, [rows[j] EXCEPT !.last_run_at = now, !.last_error = TRUE,
                                  !.next_run_at = msgs[m].row.next_run_at])
  /\ UNCHANGED events

(* The consumer is cut off: the queue delivers the message again.          *)
Crash(m) ==
  /\ Outside("crash")
  /\ HoldsRow(msgs[m]) \/ msgs[m].at = "acking"
  /\ Handle(m, Redeliver(m, msgs[m].reported))
  /\ UNCHANGED rows

(* A statement of the consumer throws outside the try: allSettled ignores  *)
(* it, and the queue acknowledges what a finished handler did not retry.   *)
ConsumerFault(m) ==
  /\ Outside("fault")
  /\ msgs[m].at \in {"queued", "loaded", "failed"}
  /\ Handle(m, [msgs[m] EXCEPT !.at = "lost"])
  /\ UNCHANGED rows

-----------------------------------------------------------------------------
(* Requests over HTTP and MCP.                                             *)

(* Ids are random: one that is in use somewhere is not drawn.              *)
Create(j, s) ==
  /\ j \notin DOMAIN rows
  /\ \A m \in DOMAIN msgs : msgs[m].job # j
  /\ \A x \in cron \cup updates : x.job # j
  /\ rows' = [k \in DOMAIN rows \cup {j} |->
                IF k = j THEN [cron_schedule |-> s, next_run_at |-> NextRun(s),
                               enabled |-> TRUE, last_run_at |-> 0,
                               last_error |-> FALSE]
                ELSE rows[k]]
  /\ UNCHANGED <<now, cron, updates, msgs, events>>

(* UPDATE of a row: the next run is computed anew, whatever was changed.   *)
WriteRow(j, s) ==
  UpdateRow(j, [rows[j] EXCEPT !.cron_schedule = s, !.next_run_at = NextRun(s)])

(* PATCH /api/load-jobs/:id takes the schedule from its body.              *)
Patch(j, s) ==
  /\ Outside("edit")
  /\ j \in DOMAIN rows
  /\ WriteRow(j, s)
  /\ UNCHANGED <<now, cron, updates, msgs>>

(* update_load_job reads the row and replaces the fields it was given; the *)
(* schedule may or may not be one of them.                                 *)
ReadForUpdate(j, s) ==
  /\ Outside("edit")
  /\ j \in DOMAIN rows
  /\ updates' = updates \cup {[job |-> j, cron_schedule |-> s]}
  /\ UNCHANGED <<now, rows, cron, msgs>>

WriteUpdate(u) ==
  /\ u \in updates
  /\ updates' = updates \ {u}
  /\ WriteRow(u.job, u.cron_schedule)
  /\ UNCHANGED <<now, cron, msgs, events>>

SetEnabled(j, enabled) ==
  /\ Outside("enable")
  /\ j \in DOMAIN rows
  /\ UpdateRow(j, [rows[j] EXCEPT !.enabled = enabled])
  /\ UNCHANGED <<now, cron, updates, msgs>>

Delete(j) ==
  /\ Outside("delete")
  /\ j \in DOMAIN rows
  /\ rows' = [k \in DOMAIN rows \ {j} |-> rows[k]]
  /\ UNCHANGED <<now, cron, updates, msgs>>

Trigger(j) ==
  /\ Outside("trigger")
  /\ j \in DOMAIN rows
  /\ Enqueue(j)
  /\ UNCHANGED <<now, rows, cron, updates>>

-----------------------------------------------------------------------------
Tick ==
  /\ now < MaxTime
  /\ now' = now + 1
  /\ UNCHANGED <<rows, cron, updates, msgs, events>>

CronNext == Scheduled \/ \E e \in cron : AdvanceNextRunAt(e) \/ SendMessage(e)

ConsumerNext ==
  \E m \in DOMAIN msgs :
    \/ Skip(m) \/ StartLoad(m) \/ Load(m)
    \/ ReportSuccess(m) \/ Ack(m) \/ ReportFailure(m)

FaultNext ==
  \/ \E e \in cron : CronFault(e)
  \/ \E m \in DOMAIN msgs : LoadFails(m) \/ Crash(m) \/ ConsumerFault(m)

RequestNext ==
  \E j \in Jobs :
    \/ \E s \in Schedules : Create(j, s) \/ Patch(j, s) \/ ReadForUpdate(j, s)
    \/ \E b \in BOOLEAN : SetEnabled(j, b)
    \/ Delete(j) \/ Trigger(j)

Next ==
  \/ CronNext \/ ConsumerNext \/ FaultNext \/ RequestNext \/ Tick
  \/ \E u \in updates : WriteUpdate(u)

(* The cron fires every minute, the queue delivers, calls return.          *)
Spec ==
  /\ Init /\ [][Next]_vars
  /\ WF_vars(CronNext) /\ WF_vars(ConsumerNext) /\ WF_vars(Tick)

-----------------------------------------------------------------------------
(* Properties.                                                             *)

(* Whoever triggers a job, enabled or not, can see an outcome in its row:  *)
(* no message is given up without one, unless the job was deleted or every *)
(* retry was interrupted.                                                  *)
EveryRunReported ==
  \A m \in DOMAIN msgs :
    msgs[m].at = "gone" => \/ msgs[m].reported
                           \/ msgs[m].job \notin DOMAIN rows
                           \/ msgs[m].attempts = MaxRetries

(* A due job does not stay due: the scheduler gets to it even if it comes  *)
(* late, if requests and failing runs interfere, or if the slot is given   *)
(* back by a run that failed.                                              *)
Overdue(j) ==
  j \in DOMAIN rows /\ rows[j].enabled /\ rows[j].next_run_at <= now

DueIsEnqueued == \A j \in Jobs : Overdue(j) ~> ~ Overdue(j)

(* A run that began before an edit writes a next_run_at of the schedule it *)
(* read; so does the cron handler.  The row does not keep it: it returns   *)
(* to an instant of the schedule it has.                                   *)
OnSchedule(j) ==
  /\ j \in DOMAIN rows
  /\ rows[j].next_run_at \in rows[j].cron_schedule \cup {Beyond}

ScheduleHeals ==
  \A j \in Jobs :
    j \in DOMAIN rows ~> OnSchedule(j) \/ j \notin DOMAIN rows \/ ~ rows[j].enabled
=============================================================================
