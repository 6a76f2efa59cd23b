-------------------------- MODULE LoadJobs_proofs ---------------------------
(***************************************************************************)
(* Proofs about the load jobs, for any number of jobs, schedules, retries  *)
(* and requests.                                                           *)
(***************************************************************************)
EXTENDS LoadJobs, SequenceTheorems, WellFoundedInduction, TLAPS

(* A non-empty set of natural numbers has a least element.                 *)
LEMMA LeastNatural ==
  ASSUME NEW T \in SUBSET Nat, T # {}
  PROVE  \E x \in T : \A y \in T : x <= y
<1> DEFINE R == OpToRel(<, Nat)
<1>1. IsWellFoundedOn(R, Nat)
  BY NatLessThanWellFounded
<1>2. PICK x \in T : \A y \in T : <<y, x>> \notin R
  <2> HIDE DEF R
  <2> QED BY <1>1, WFMin
<1>3. \A y \in T : ~ (y < x)
  BY <1>2 DEF OpToRel
<1> HIDE DEF R
<1> QED
  BY <1>2, <1>3

(* A cron schedule has a next run, which lies in the future.               *)
LEMMA NextRunType ==
  ASSUME now \in Instants, NEW s \in Schedules
  PROVE  /\ NextRun(s) \in s \cup {Beyond} /\ NextRun(s) \in 1..Beyond
         /\ NextRun(s) > now
<1> DEFINE T == {t \in s \cup {Beyond} : t > now}
<1>1. s \subseteq 1..MaxTime /\ MaxTime \in Nat
  BY LoadAssumption
<1>2. T \subseteq Nat /\ Beyond \in T
  <2>1. s \cup {Beyond} \subseteq Nat /\ Beyond \in Nat /\ now < Beyond
    BY <1>1 DEF Instants, Beyond
  <2> QED
    BY <2>1
<1>3. PICK t \in T : \A u \in T : t <= u
  BY <1>2, LeastNatural
<1>4. t > now /\ \A u \in s : u > now => t <= u
  BY <1>3
<1>5. t \in s \cup {Beyond} /\ t > now /\ \A u \in s : u > now => t <= u
  BY <1>4
<1>6. NextRun(s) \in s \cup {Beyond} /\ NextRun(s) > now
  <2> DEFINE P(n) == n > now /\ \A u \in s : u > now => n <= u
  <2>1. NextRun(s) = CHOOSE n \in s \cup {Beyond} : P(n)
    BY DEF NextRun
  <2>2. P(t) /\ t \in s \cup {Beyond}
    BY <1>5
  <2> HIDE DEF P
  <2>3. NextRun(s) \in s \cup {Beyond} /\ P(NextRun(s))
    BY <2>1, <2>2, Zenon
  <2> QED
    BY <2>3 DEF P
<1>7. s \cup {Beyond} \subseteq 1..Beyond
  BY <1>1 DEF Beyond
<1> HIDE DEF T
<1> QED
  BY <1>6, <1>7

(* Whatever stands in place of a row has a row's type.                     *)
LEMMA NoRowType ==
  NoRow \in [cron_schedule : Schedules, next_run_at : 1..Beyond]
<1>1. (CHOOSE s \in Schedules : TRUE) \in Schedules
  BY LoadAssumption
<1>2. 1 \in 1..Beyond
  BY LoadAssumption DEF Beyond
<1> QED
  BY <1>1, <1>2 DEF NoRow

(* An update keeps the rows that there are.                                *)
LEMMA UpdateRowType ==
  ASSUME TypeOK, NEW j, NEW new, j \in DOMAIN rows => new \in Row, UpdateRow(j, new)
  PROVE  DOMAIN rows' = DOMAIN rows /\ rows' \in [DOMAIN rows' -> Row]
BY DEF UpdateRow, TypeOK

(* A new message comes last and is queued.                                 *)
LEMMA EnqueueType ==
  ASSUME TypeOK, NEW j \in Jobs, Enqueue(j)
  PROVE  /\ msgs' \in Seq(Msg)
         /\ DOMAIN msgs' = 1..(Len(msgs) + 1) /\ DOMAIN msgs = 1..Len(msgs)
         /\ \A m \in DOMAIN msgs : msgs'[m] = msgs[m]
         /\ msgs'[Len(msgs) + 1].at = "queued"
<1> DEFINE msg == [job |-> j, at |-> "queued", attempts |-> 0,
                   row |-> NoRow, reported |-> FALSE]
<1>1. msg \in Msg /\ msg.at = "queued"
  <2>1. 0 \in 0..MaxRetries
    BY LoadAssumption
  <2> QED
    BY <2>1, NoRowType DEF Msg
<1>2. msgs' = Append(msgs, msg) /\ msgs \in Seq(Msg)
  BY DEF Enqueue, TypeOK
<1> HIDE DEF msg
<1> QED
  BY <1>1, <1>2

(* A step of the consumer replaces one message and keeps its fields, but   *)
(* for the row's copy when the handler ends.                               *)
LEMMA HandleType ==
  ASSUME TypeOK, NEW m \in DOMAIN msgs, NEW new \in Msg, Handle(m, new)
  PROVE  /\ msgs' \in Seq(Msg) /\ DOMAIN msgs' = DOMAIN msgs
         /\ \A k \in DOMAIN msgs \ {m} : msgs'[k] = msgs[k]
         /\ msgs'[m].job = new.job /\ msgs'[m].at = new.at
         /\ msgs'[m].attempts = new.attempts /\ msgs'[m].reported = new.reported
<1> DEFINE kept == IF HoldsRow(new) THEN new ELSE [new EXCEPT !.row = NoRow]
<1>1. /\ kept \in Msg /\ kept.job = new.job /\ kept.at = new.at
      /\ kept.attempts = new.attempts /\ kept.reported = new.reported
  BY NoRowType DEF Msg
<1>2. msgs' = [msgs EXCEPT ![m] = kept] /\ msgs \in Seq(Msg)
  BY DEF Handle, TypeOK
<1> HIDE DEF kept
<1> QED
  BY <1>1, <1>2

(* A message that is delivered again, or was for the last time.            *)
LEMMA RedeliverType ==
  ASSUME TypeOK, NEW m \in DOMAIN msgs, NEW reported \in BOOLEAN
  PROVE  /\ Redeliver(m, reported) \in Msg
         /\ Redeliver(m, reported).job = msgs[m].job
         /\ Redeliver(m, reported).reported = reported
         /\ Redeliver(m, reported).at = "gone"
              => Redeliver(m, reported).attempts = MaxRetries
<1>1. msgs[m] \in Msg
  BY DEF TypeOK
<1>2. CASE msgs[m].attempts < MaxRetries
  <2> DEFINE new == [msgs[m] EXCEPT !.at = "queued", !.attempts = @ + 1,
                                    !.reported = reported]
  <2>1. msgs[m].attempts + 1 \in 0..MaxRetries
    BY <1>1, <1>2, LoadAssumption DEF Msg
  <2>2. new \in Msg /\ new.job = msgs[m].job /\ new.reported = reported
        /\ new.at = "queued"
    BY <1>1, <2>1 DEF Msg
  <2> QED
    BY <1>2, <2>2 DEF Redeliver
<1>3. CASE ~ (msgs[m].attempts < MaxRetries)
  <2> DEFINE new == [msgs[m] EXCEPT !.at = "gone", !.reported = reported]
  <2>1. msgs[m].attempts = MaxRetries
    BY <1>1, <1>3, LoadAssumption DEF Msg
  <2>2. new \in Msg /\ new.job = msgs[m].job /\ new.reported = reported
        /\ new.attempts = MaxRetries
    BY <1>1, <2>1 DEF Msg
  <2> QED
    BY <1>3, <2>2 DEF Redeliver
<1> QED
  BY <1>2, <1>3

(* The outcome of a run is known before its message is acknowledged, and a *)
(* message that is gone has left an outcome, or no row to show it in, or   *)
(* was delivered as often as the queue delivers a message.                 *)
Accounted(msg, ids) ==
  /\ msg.at = "acking" => msg.reported
  /\ msg.at = "gone" => \/ msg.reported
                        \/ msg.job \notin ids
                        \/ msg.attempts = MaxRetries

AllAccounted == \A m \in DOMAIN msgs : Accounted(msgs[m], DOMAIN rows)

(* What a step of the consumer has to preserve, of one message.            *)
Handled(m) ==
  /\ msgs' \in Seq(Msg) /\ DOMAIN msgs' = DOMAIN msgs
  /\ \A k \in DOMAIN msgs \ {m} : msgs'[k] = msgs[k]
  /\ Accounted(msgs'[m], DOMAIN rows)
  /\ UNCHANGED <<now, cron, updates>>

LEMMA HandledWith ==
  ASSUME TypeOK, NEW m \in DOMAIN msgs, NEW new \in Msg, Handle(m, new),
         Accounted(new, DOMAIN rows)
  PROVE  Handled(m)
<1>1. Accounted(msgs'[m], DOMAIN rows)
  BY HandleType DEF Accounted
<1> QED
  BY <1>1, HandleType DEF Handled, Handle

(* Every step of the consumer, and every interruption of it.               *)
ConsumerStep(m) ==
  \/ Skip(m) \/ StartLoad(m) \/ Load(m) \/ LoadFails(m) \/ ReportSuccess(m)
  \/ Ack(m) \/ ReportFailure(m) \/ Crash(m) \/ ConsumerFault(m)

LEMMA ConsumerHandles ==
  ASSUME TypeOK, AllAccounted, NEW m \in DOMAIN msgs, ConsumerStep(m)
  PROVE  Handled(m)
<1> DEFINE At(a) == [msgs[m] EXCEPT !.at = a]
<1>1. msgs[m] \in Msg /\ Accounted(msgs[m], DOMAIN rows)
  BY DEF TypeOK, AllAccounted
<1>2. \A a \in {"gone", "loaded", "failed", "lost"} :
        At(a) \in Msg /\ At(a).at = a /\ At(a).job = msgs[m].job
        /\ At(a).reported = msgs[m].reported
  BY <1>1 DEF Msg
<1> HIDE DEF At
<1>3. CASE Skip(m)
  <2>1. Accounted(At("gone"), DOMAIN rows) /\ Handle(m, At("gone"))
    BY <1>2, <1>3 DEF Skip, Accounted, At
  <2> QED
    BY <1>2, <2>1, HandledWith
<1>4. CASE StartLoad(m)
  <2> DEFINE copy == [cron_schedule |-> rows[msgs[m].job].cron_schedule,
                      next_run_at |-> rows[msgs[m].job].next_run_at]
             new == [msgs[m] EXCEPT !.at = "loading", !.row = copy]
  <2>1. rows[msgs[m].job] \in Row
    BY <1>4 DEF StartLoad, TypeOK
  <2>2. copy \in [cron_schedule : Schedules, next_run_at : 1..Beyond]
    BY <2>1 DEF Row
  <2> HIDE DEF copy
  <2>3. new \in Msg /\ new.at = "loading"
    BY <1>1, <2>2 DEF Msg
  <2>4. Handle(m, new)
    BY <1>4 DEF StartLoad, copy
  <2> QED
    BY <2>3, <2>4, HandledWith DEF Accounted
<1>5. CASE Load(m)
  <2>1. Accounted(At("loaded"), DOMAIN rows) /\ Handle(m, At("loaded"))
    BY <1>2, <1>5 DEF Load, Accounted, At
  <2> QED
    BY <1>2, <2>1, HandledWith
<1>6. CASE LoadFails(m)
  <2>1. Accounted(At("failed"), DOMAIN rows) /\ Handle(m, At("failed"))
    BY <1>2, <1>6 DEF LoadFails, Accounted, At
  <2> QED
    BY <1>2, <2>1, HandledWith
<1>7. CASE ReportSuccess(m)
  <2> DEFINE new == [msgs[m] EXCEPT !.at = "acking", !.reported = TRUE]
  <2>1. new \in Msg /\ new.at = "acking" /\ new.reported
    BY <1>1 DEF Msg
  <2>2. Handle(m, new)
    BY <1>7 DEF ReportSuccess
  <2> QED
    BY <2>1, <2>2, HandledWith DEF Accounted
<1>8. CASE Ack(m)
  <2>1. Accounted(At("gone"), DOMAIN rows) /\ Handle(m, At("gone"))
    BY <1>1, <1>2, <1>8 DEF Ack, Accounted, At
  <2> QED
    BY <1>2, <2>1, HandledWith
<1>9. CASE ReportFailure(m)
  <2>1. Redeliver(m, TRUE) \in Msg /\ Redeliver(m, TRUE).reported
    BY RedeliverType
  <2>2. Handle(m, Redeliver(m, TRUE))
    BY <1>9 DEF ReportFailure
  <2> QED
    BY <2>1, <2>2, HandledWith DEF Accounted
<1>10. CASE Crash(m)
  <2> DEFINE new == Redeliver(m, msgs[m].reported)
  <2>1. msgs[m].reported \in BOOLEAN
    BY <1>1 DEF Msg
  <2>2. new \in Msg /\ (new.at = "gone" => new.attempts = MaxRetries)
    BY <2>1, RedeliverType
  <2>3. new.at \in {"queued", "gone"}
    BY <1>1 DEF Redeliver, Msg
  <2>4. Handle(m, new)
    BY <1>10 DEF Crash
  <2> QED
    BY <2>2, <2>3, <2>4, HandledWith DEF Accounted
<1>11. CASE ConsumerFault(m)
  <2>1. Accounted(At("lost"), DOMAIN rows) /\ Handle(m, At("lost"))
    BY <1>2, <1>11 DEF ConsumerFault, Accounted, At
  <2> QED
    BY <1>2, <2>1, HandledWith
<1> QED
  BY <1>3, <1>4, <1>5, <1>6, <1>7, <1>8, <1>9, <1>10, <1>11 DEF ConsumerStep

(* The consumer updates rows and neither inserts nor deletes any.          *)
RowsKept == DOMAIN rows' = DOMAIN rows /\ rows' \in [DOMAIN rows' -> Row]

LEMMA ConsumerKeepsRows ==
  ASSUME TypeOK, NEW m \in DOMAIN msgs, ConsumerStep(m)
  PROVE  RowsKept /\ events' \in 0..MaxEvents
<1> DEFINE j == msgs[m].job
<1>1. msgs[m] \in Msg /\ now \in 0..MaxTime
  BY LoadAssumption DEF TypeOK, Instants
<1>2. CASE ReportSuccess(m)
  <2> DEFINE next == NextRun(msgs[m].row.cron_schedule)
             new == [rows[j] EXCEPT !.last_run_at = now, !.last_error = FALSE,
                                    !.next_run_at = next]
  <2>1. next \in 1..Beyond
    BY <1>1, NextRunType DEF TypeOK, Msg
  <2> HIDE DEF next
  <2>2. j \in DOMAIN rows => new \in Row
    BY <1>1, <2>1 DEF TypeOK, Row
  <2>3. UpdateRow(j, new)
    BY <1>2 DEF ReportSuccess, next
  <2> QED
    BY <1>2, <2>2, <2>3, UpdateRowType DEF RowsKept, ReportSuccess, TypeOK
<1>3. CASE ReportFailure(m)
  <2> DEFINE next == msgs[m].row.next_run_at
             new == [rows[j] EXCEPT !.last_run_at = now, !.last_error = TRUE,
                                    !.next_run_at = next]
  <2>0. next \in 1..Beyond
    BY <1>1 DEF Msg
  <2> HIDE DEF next
  <2>1. j \in DOMAIN rows => new \in Row
    BY <1>1, <2>0 DEF TypeOK, Row
  <2>2. UpdateRow(j, new)
    BY <1>3 DEF ReportFailure, next
  <2> QED
    BY <1>3, <2>1, <2>2, UpdateRowType DEF RowsKept, ReportFailure, TypeOK
<1>4. CASE Skip(m) \/ StartLoad(m) \/ Load(m) \/ LoadFails(m) \/ Ack(m)
           \/ Crash(m) \/ ConsumerFault(m)
  BY <1>4, LoadAssumption DEF Skip, StartLoad, Load, LoadFails, Ack, Crash,
     ConsumerFault, Outside, TypeOK, RowsKept
<1> QED
  BY <1>2, <1>3, <1>4 DEF ConsumerStep

(* What is left of the cron handler's work.                                *)
LEMMA CronType ==
  ASSUME TypeOK, CronNext \/ \E e \in cron : CronFault(e)
  PROVE  /\ cron' \subseteq Advance \cup Send /\ RowsKept /\ events' \in 0..MaxEvents
         /\ UNCHANGED msgs \/ \E j \in Jobs : Enqueue(j)
<1>1. CASE Scheduled
  <2>1. \A j \in Due : /\ j \in Jobs
                       /\ NextRun(rows[j].cron_schedule) \in 1..Beyond
    BY NextRunType DEF Due, TypeOK, Row
  <2>2. {[op |-> "advance", job |-> j,
          next |-> NextRun(rows[j].cron_schedule)] : j \in Due} \subseteq Advance
    BY <2>1 DEF Advance
  <2>3. {[op |-> "send", job |-> j] : j \in Due} \subseteq Send
    BY <2>1 DEF Send
  <2> QED
    BY <1>1, <2>2, <2>3 DEF Scheduled, TypeOK, RowsKept
<1>2. CASE \E e \in cron : AdvanceNextRunAt(e)
  <2>1. PICK e \in cron : AdvanceNextRunAt(e)
    BY <1>2
  <2>2. e \in Advance
    BY <2>1 DEF AdvanceNextRunAt, TypeOK, Advance, Send
  <2> DEFINE new == [rows[e.job] EXCEPT !.next_run_at = e.next]
  <2>3. e.job \in DOMAIN rows => new \in Row
    BY <2>2 DEF TypeOK, Row, Advance
  <2>4. UpdateRow(e.job, new)
    BY <2>1 DEF AdvanceNextRunAt
  <2>5. RowsKept
    BY <2>3, <2>4, UpdateRowType DEF RowsKept
  <2> QED
    BY <2>1, <2>5 DEF AdvanceNextRunAt, TypeOK
<1>3. CASE \E e \in cron : SendMessage(e)
  <2>1. PICK e \in cron : SendMessage(e)
    BY <1>3
  <2>2. e.job \in Jobs
    BY DEF TypeOK, Advance, Send
  <2> QED
    BY <2>1, <2>2 DEF SendMessage, TypeOK, RowsKept
<1>4. CASE \E e \in cron : CronFault(e)
  BY <1>4, LoadAssumption DEF CronFault, Outside, TypeOK, RowsKept
<1> QED
  BY <1>1, <1>2, <1>3, <1>4 DEF CronNext

(* Requests that change a row.                                             *)
LEMMA RequestType ==
  ASSUME TypeOK, NEW j \in Jobs, NEW s \in Schedules, NEW b \in BOOLEAN,
         Patch(j, s) \/ SetEnabled(j, b)
  PROVE  RowsKept /\ events' \in 0..MaxEvents
<1>1. NextRun(s) \in 1..Beyond
  BY NextRunType DEF TypeOK
<1>2. CASE Patch(j, s)
  <2> DEFINE new == [rows[j] EXCEPT !.cron_schedule = s, !.next_run_at = NextRun(s)]
  <2>1. j \in DOMAIN rows => new \in Row
    BY <1>1 DEF TypeOK, Row
  <2>2. UpdateRow(j, new) /\ events' \in 0..MaxEvents
    BY <1>2, LoadAssumption DEF Patch, WriteRow, Outside, TypeOK
  <2> QED
    BY <2>1, <2>2, UpdateRowType DEF RowsKept
<1>3. CASE SetEnabled(j, b)
  <2> DEFINE new == [rows[j] EXCEPT !.enabled = b]
  <2>1. j \in DOMAIN rows => new \in Row
    BY DEF TypeOK, Row
  <2>2. UpdateRow(j, new) /\ events' \in 0..MaxEvents
    BY <1>3, LoadAssumption DEF SetEnabled, Outside, TypeOK
  <2> QED
    BY <2>1, <2>2, UpdateRowType DEF RowsKept
<1> QED
  BY <1>2, <1>3

(* A job that is created has an id that no message carries.                *)
LEMMA CreateType ==
  ASSUME TypeOK, NEW j \in Jobs, NEW s \in Schedules, Create(j, s)
  PROVE  /\ DOMAIN rows' = DOMAIN rows \cup {j} /\ rows' \in [DOMAIN rows' -> Row]
         /\ \A m \in DOMAIN msgs : msgs[m].job # j
<1> DEFINE new == [cron_schedule |-> s, next_run_at |-> NextRun(s), enabled |-> TRUE,
                   last_run_at |-> 0, last_error |-> FALSE]
<1>1. NextRun(s) \in 1..Beyond /\ 0 \in 0..MaxTime
  BY NextRunType, LoadAssumption DEF TypeOK
<1>2. new \in Row
  BY <1>1 DEF Row
<1>3. rows' = [k \in DOMAIN rows \cup {j} |-> IF k = j THEN new ELSE rows[k]]
  BY DEF Create
<1> HIDE DEF new
<1> QED
  BY <1>2, <1>3 DEF TypeOK, Create

Safe == TypeOK /\ AllAccounted

LEMMA SafeStep == Safe /\ [Next]_vars => Safe'
<1> SUFFICES ASSUME Safe, [Next]_vars
             PROVE  Safe'
  OBVIOUS
<1> USE DEF Safe
<1>1. ASSUME NEW m \in DOMAIN msgs, ConsumerStep(m)
      PROVE  Safe'
  <2>1. Handled(m) /\ RowsKept /\ events' \in 0..MaxEvents
    BY <1>1, ConsumerHandles, ConsumerKeepsRows
  <2> QED
    BY <2>1 DEF TypeOK, AllAccounted, Handled, RowsKept
<1>2. ASSUME CronNext \/ \E e \in cron : CronFault(e)
      PROVE  Safe'
  <2>1. /\ cron' \subseteq Advance \cup Send /\ RowsKept /\ events' \in 0..MaxEvents
        /\ UNCHANGED msgs \/ \E j \in Jobs : Enqueue(j)
    BY <1>2, CronType
  <2>2. UNCHANGED <<now, updates>>
    BY <1>2 DEF CronNext, Scheduled, AdvanceNextRunAt, SendMessage, CronFault
  <2>3. CASE UNCHANGED msgs
    BY <2>1, <2>2, <2>3 DEF TypeOK, AllAccounted, RowsKept
  <2>4. CASE \E j \in Jobs : Enqueue(j)
    <3>1. PICK j \in Jobs : Enqueue(j)
      BY <2>4
    <3>2. /\ msgs' \in Seq(Msg)
          /\ \A m \in DOMAIN msgs' : \/ m \in DOMAIN msgs /\ msgs'[m] = msgs[m]
                                     \/ msgs'[m].at = "queued"
      BY <3>1, EnqueueType
    <3> QED
      BY <2>1, <2>2, <3>2 DEF TypeOK, AllAccounted, RowsKept, Accounted
  <2> QED
    BY <2>1, <2>3, <2>4
<1>3. ASSUME NEW j \in Jobs, NEW s \in Schedules, Create(j, s)
      PROVE  Safe'
  BY <1>3, CreateType DEF TypeOK, AllAccounted, Accounted, Create
<1>4. ASSUME NEW j \in Jobs, NEW s \in Schedules, NEW b \in BOOLEAN,
             Patch(j, s) \/ SetEnabled(j, b)
      PROVE  Safe'
  <2>1. RowsKept /\ events' \in 0..MaxEvents
    BY <1>4, RequestType
  <2> QED
    BY <1>4, <2>1 DEF TypeOK, AllAccounted, RowsKept, Patch, SetEnabled
<1>5. ASSUME NEW j \in Jobs, NEW s \in Schedules, ReadForUpdate(j, s)
      PROVE  Safe'
  <2>1. updates' \subseteq Update /\ events' \in 0..MaxEvents
    BY <1>5, LoadAssumption DEF ReadForUpdate, Outside, TypeOK, Update
  <2> QED
    BY <1>5, <2>1 DEF TypeOK, AllAccounted, ReadForUpdate
<1>6. ASSUME NEW u \in updates, WriteUpdate(u)
      PROVE  Safe'
  <2> DEFINE new == [rows[u.job] EXCEPT !.cron_schedule = u.cron_schedule,
                                        !.next_run_at = NextRun(u.cron_schedule)]
  <2>1. u.cron_schedule \in Schedules /\ NextRun(u.cron_schedule) \in 1..Beyond
    BY NextRunType DEF TypeOK, Update
  <2>2. u.job \in DOMAIN rows => new \in Row
    BY <2>1 DEF TypeOK, Row
  <2>3. UpdateRow(u.job, new)
    BY <1>6 DEF WriteUpdate, WriteRow
  <2>4. RowsKept
    BY <2>2, <2>3, UpdateRowType DEF RowsKept
  <2> QED
    BY <1>6, <2>4 DEF TypeOK, AllAccounted, RowsKept, WriteUpdate
<1>7. ASSUME NEW j \in Jobs, Delete(j)
      PROVE  Safe'
  <2>1. /\ DOMAIN rows' = DOMAIN rows \ {j} /\ rows' \in [DOMAIN rows' -> Row]
        /\ events' \in 0..MaxEvents
    BY <1>7, LoadAssumption DEF Delete, Outside, TypeOK
  <2> QED
    BY <1>7, <2>1 DEF TypeOK, AllAccounted, Accounted, Delete
<1>8. ASSUME NEW j \in Jobs, Trigger(j)
      PROVE  Safe'
  <2>1. Enqueue(j) /\ events' \in 0..MaxEvents
    BY <1>8, LoadAssumption DEF Trigger, Outside, TypeOK
  <2>2. /\ msgs' \in Seq(Msg)
        /\ \A m \in DOMAIN msgs' : \/ m \in DOMAIN msgs /\ msgs'[m] = msgs[m]
                                   \/ msgs'[m].at = "queued"
    BY <2>1, EnqueueType
  <2> QED
    BY <1>8, <2>1, <2>2 DEF TypeOK, AllAccounted, Accounted, Trigger
<1>9. CASE Tick
  <2>1. now' \in Instants
    BY <1>9, LoadAssumption DEF Tick, TypeOK, Instants
  <2> QED
    BY <1>9, <2>1 DEF Tick, TypeOK, AllAccounted
<1>10. CASE UNCHANGED vars
  BY <1>10 DEF vars, TypeOK, AllAccounted
<1>11. CASE RequestNext
  <2>1. PICK j \in Jobs :
          \/ \E s \in Schedules : Create(j, s) \/ Patch(j, s) \/ ReadForUpdate(j, s)
          \/ \E b \in BOOLEAN : SetEnabled(j, b)
          \/ Delete(j) \/ Trigger(j)
    BY <1>11 DEF RequestNext
  <2>2. ASSUME NEW b \in BOOLEAN, SetEnabled(j, b)
        PROVE  Safe'
    <3>1. PICK s \in Schedules : TRUE
      BY LoadAssumption
    <3> QED
      BY <1>4, <2>2
  <2>3. ASSUME NEW s \in Schedules, Create(j, s) \/ Patch(j, s) \/ ReadForUpdate(j, s)
        PROVE  Safe'
    BY <1>3, <1>4, <1>5, <2>3
  <2> QED
    BY <1>7, <1>8, <2>1, <2>2, <2>3
<1>12. CASE ConsumerNext \/ FaultNext
  BY <1>1, <1>2, <1>12 DEF ConsumerNext, FaultNext, ConsumerStep
<1> QED
  BY <1>2, <1>6, <1>9, <1>10, <1>11, <1>12 DEF Next

LEMMA Safety == Spec => []Safe
<1>1. Init => Safe
  BY LoadAssumption DEF Init, Safe, TypeOK, AllAccounted, Instants
<1> QED
  BY <1>1, SafeStep, PTL DEF Spec

(* Every variable keeps its type: what the handlers compute for a row is a *)
(* row, and a message is not delivered more often than the queue allows.   *)
THEOREM TypeCorrect == Spec => []TypeOK
<1>1. Safe => TypeOK
  BY DEF Safe
<1> QED
  BY <1>1, Safety, PTL

(* No message is given up without an outcome in the row of its job, unless *)
(* the job was deleted or the last delivery, too, was interrupted.         *)
THEOREM RunsAreReported == Spec => []EveryRunReported
<1>1. Safe => EveryRunReported
  BY DEF Safe, AllAccounted, Accounted, EveryRunReported
<1> QED
  BY <1>1, Safety, PTL
=============================================================================
