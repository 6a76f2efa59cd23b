----------------------------- MODULE CatalogDO ------------------------------
(***************************************************************************)
(* The Catalog Durable Object (src/catalog/do.ts): one SQLite database per *)
(* user with its tables, their snapshots, the transform jobs and the       *)
(* triggers that enqueue a job when a watched table is committed.  Every   *)
(* request handler runs without an await, so each is one atomic action.    *)
(*                                                                         *)
(* A table's name stands for its row (a name never gets a second row, rows *)
(* are only soft-deleted).  A row of "commits" is the snapshot it inserts. *)
(* A request that its handler rejects leaves the action disabled: it       *)
(* changes nothing.                                                        *)
(***************************************************************************)
EXTENDS Naturals, Sequences

CONSTANTS Tables,        \* table names
          Jobs,          \* transform job ids
          Triggers,      \* trigger ids
          Uris,          \* contents of a snapshot (its uri and format)
          MaxTime,       \* bound on Date.now()
          MaxSnapshots   \* bound on the number of commits

ASSUME CatalogAssumption == MaxTime \in Nat \ {0} /\ MaxSnapshots \in Nat

VARIABLES tables,      \* [Tables -> absent, live or (soft-)deleted]
          snapshots,   \* the snapshots in the order of their commits
          jobs,        \* the rows of transform_jobs, by id
          triggers,    \* the rows of triggers, by id
          now          \* Date.now(), as every handler reads it

catalogVars == <<tables, snapshots, jobs, triggers, now>>

Time      == 1..MaxTime
Snapshot  == [table : Tables, uri : Uris, created_at : Time]
JobRow    == [status : {"idle", "pending", "running", "done", "failed"},
              output_table : Tables,
              updated_at : Time,
              last_completed_at : 0..MaxTime]   \* 0 is SQL NULL (?? 0)
Trigger   == [watches : (SUBSET Tables) \ {{}}, policy : {"any", "all"},
              job_id : Jobs, created_at : Time]

TypeOK ==
  /\ tables \in [Tables -> {"absent", "live", "deleted"}]
  /\ snapshots \in Seq(Snapshot)
  /\ DOMAIN jobs \subseteq Jobs
  /\ jobs \in [DOMAIN jobs -> JobRow]
  /\ DOMAIN triggers \subseteq Triggers
  /\ triggers \in [DOMAIN triggers -> Trigger]
  /\ now \in Time

Init ==
  /\ tables = [t \in Tables |-> "absent"]
  /\ snapshots = <<>>
  /\ jobs = [j \in {} |-> 0]
  /\ triggers = [g \in {} |-> 0]
  /\ now = 1

-----------------------------------------------------------------------------
(* SQL helpers: the row inserted into a table, the update of one job or of *)
(* a set of jobs.                                                          *)

Insert(rows, id, row) ==
  [k \in DOMAIN rows \cup {id} |-> IF k = id THEN row ELSE rows[k]]

SetStatus(S, s) ==
  [j \in DOMAIN jobs |->
     IF j \in S THEN [jobs[j] EXCEPT !.status = s, !.updated_at = now]
                ELSE jobs[j]]

InStatus(S) == {j \in DOMAIN jobs : jobs[j].status \in S}

-----------------------------------------------------------------------------
(* Tables and snapshots.                                                   *)

(* A watched name counts as fresh when some snapshot of it, of a deleted   *)
(* table as well, is newer than the baseline.                              *)
NewerThan(t, baseline, snaps) ==
  \E i \in DOMAIN snaps : snaps[i].table = t /\ snaps[i].created_at > baseline

(* Seeded bug: jobs that already ran are not enqueued again.               *)
FiredOnlyIdle(t, snaps) ==
  {j \in InStatus({"idle"}) :
     \E g \in DOMAIN triggers :
       triggers[g].job_id = j /\ t \in triggers[g].watches}

(* The jobs a commit of table t enqueues; snaps includes its snapshot.     *)
Fired(t, snaps) ==
  {j \in InStatus({"idle", "done", "failed"}) :
     \E g \in DOMAIN triggers :
       /\ triggers[g].job_id = j
       /\ t \in triggers[g].watches
       /\ \/ triggers[g].policy = "any"
          \/ /\ triggers[g].policy = "all"
             /\ \A w \in triggers[g].watches :
                  NewerThan(w, jobs[j].last_completed_at, snaps)}

(* Insert or restore the table, insert the snapshot, fire the triggers:    *)
(* one SQL transaction.                                                    *)
Commit(t, u) ==
  LET snaps == Append(snapshots, [table |-> t, uri |-> u, created_at |-> now])
  IN  /\ Len(snapshots) < MaxSnapshots
      /\ tables' = [tables EXCEPT ![t] = "live"]
      /\ snapshots' = snaps
      /\ jobs' = SetStatus(Fired(t, snaps), "pending")
      /\ UNCHANGED <<triggers, now>>

(* Seeded bug: the row is removed, its snapshots are not.                  *)
DeleteTableRow(t) ==
  /\ tables[t] = "live"
  /\ tables' = [tables EXCEPT ![t] = "absent"]
  /\ UNCHANGED <<snapshots, jobs, triggers, now>>

DeleteTable(t) ==
  /\ tables[t] = "live"
  /\ tables' = [tables EXCEPT ![t] = "deleted"]
  /\ UNCHANGED <<snapshots, jobs, triggers, now>>

(* The uri is written before the format is validated, so that a request    *)
(* answered with 400 may still have changed the snapshot.                  *)
PatchSnapshot(i, u) ==
  /\ snapshots' = [snapshots EXCEPT ![i].uri = u]
  /\ UNCHANGED <<tables, jobs, triggers, now>>

(* Seeded bug: ORDER BY created_at ASC.                                    *)
LatestAscending(t) ==
  {i \in DOMAIN snapshots :
     /\ tables[t] = "live"
     /\ snapshots[i].table = t
     /\ \A k \in DOMAIN snapshots :
          snapshots[k].table = t => snapshots[i].created_at <= snapshots[k].created_at}

(* What GET /snapshots-latest may return for a live table: ORDER BY        *)
(* created_at DESC LIMIT 1 picks any of the rows that share the maximum.   *)
Latest(t) ==
  {i \in DOMAIN snapshots :
     /\ tables[t] = "live"
     /\ snapshots[i].table = t
     /\ ~ NewerThan(t, snapshots[i].created_at, snapshots)}

-----------------------------------------------------------------------------
(* Transform jobs.                                                         *)

CreateJob(j, t) ==
  /\ j \in Jobs \ DOMAIN jobs
  /\ jobs' = Insert(jobs, j, [status |-> "idle", output_table |-> t,
                              updated_at |-> now, last_completed_at |-> 0])
  /\ UNCHANGED <<tables, snapshots, triggers, now>>

DeleteJob(j) ==
  /\ j \in DOMAIN jobs \ InStatus({"running"})
  /\ triggers' = [g \in {g \in DOMAIN triggers : triggers[g].job_id # j} |->
                    triggers[g]]
  /\ jobs' = [k \in DOMAIN jobs \ {j} |-> jobs[k]]
  /\ UNCHANGED <<tables, snapshots, now>>

PatchJob(j, t) ==
  /\ j \in DOMAIN jobs \ InStatus({"running"})
  /\ jobs' = [jobs EXCEPT ![j].output_table = t, ![j].updated_at = now]
  /\ UNCHANGED <<tables, snapshots, triggers, now>>

TriggerJob(j) ==
  /\ j \in DOMAIN jobs \ InStatus({"running"})
  /\ jobs' = SetStatus({j}, "pending")
  /\ UNCHANGED <<tables, snapshots, triggers, now>>

(* Seeded bug: a claim does not look at the status.                        *)
ClaimAnyJob(j) ==
  /\ j \in DOMAIN jobs
  /\ jobs' = SetStatus({j}, "running")
  /\ UNCHANGED <<tables, snapshots, triggers, now>>

ClaimJob(j) ==
  /\ j \in InStatus({"pending"})
  /\ jobs' = SetStatus({j}, "running")
  /\ UNCHANGED <<tables, snapshots, triggers, now>>

(* Neither of the next two looks at the status it overwrites.              *)
CompleteJob(j) ==
  /\ j \in DOMAIN jobs
  /\ jobs' = [jobs EXCEPT ![j].status = "done", ![j].updated_at = now,
                          ![j].last_completed_at = now]
  /\ UNCHANGED <<tables, snapshots, triggers, now>>

(* Seeded bug: the status is the one of the tab's message.                 *)
FailJobAsError(j) ==
  /\ j \in DOMAIN jobs
  /\ jobs' = SetStatus({j}, "error")
  /\ UNCHANGED <<tables, snapshots, triggers, now>>

FailJob(j) ==
  /\ j \in DOMAIN jobs
  /\ jobs' = SetStatus({j}, "failed")
  /\ UNCHANGED <<tables, snapshots, triggers, now>>

(* Seeded bug: IN instead of NOT IN.                                       *)
ResetClaimedJobs(claimed) ==
  /\ jobs' = SetStatus(InStatus({"running"}) \cap claimed, "pending")
  /\ UNCHANGED <<tables, snapshots, triggers, now>>

ResetOrphanedJobs(claimed) ==
  /\ jobs' = SetStatus(InStatus({"running"}) \ claimed, "pending")
  /\ UNCHANGED <<tables, snapshots, triggers, now>>

ResetJobsPending(ids) ==
  /\ jobs' = SetStatus(InStatus({"running"}) \cap ids, "pending")
  /\ UNCHANGED <<tables, snapshots, triggers, now>>

-----------------------------------------------------------------------------
(* Triggers.                                                               *)

CreateTrigger(g, w, p, j) ==
  /\ g \in Triggers \ DOMAIN triggers
  /\ j \in DOMAIN jobs
  /\ triggers' = Insert(triggers, g, [watches |-> w, policy |-> p,
                                      job_id |-> j, created_at |-> now])
  /\ UNCHANGED <<tables, snapshots, jobs, now>>

DeleteTrigger(g) ==
  /\ g \in DOMAIN triggers
  /\ triggers' = [k \in DOMAIN triggers \ {g} |-> triggers[k]]
  /\ UNCHANGED <<tables, snapshots, jobs, now>>

-----------------------------------------------------------------------------
Tick ==
  /\ now < MaxTime
  /\ now' = now + 1
  /\ UNCHANGED <<tables, snapshots, jobs, triggers>>

TableNext ==
  \/ \E t \in Tables, u \in Uris : Commit(t, u)
  \/ \E t \in Tables : DeleteTable(t)
  \/ \E i \in DOMAIN snapshots, u \in Uris : PatchSnapshot(i, u)

JobNext ==
  \/ \E j \in Jobs, t \in Tables : CreateJob(j, t) \/ PatchJob(j, t)
  \/ \E j \in Jobs : \/ DeleteJob(j) \/ TriggerJob(j) \/ ClaimJob(j)
                     \/ CompleteJob(j) \/ FailJob(j)
  \/ \E S \in SUBSET Jobs : ResetOrphanedJobs(S) \/ ResetJobsPending(S)

TriggerNext ==
  \/ \E g \in Triggers, w \in (SUBSET Tables) \ {{}}, p \in {"any", "all"},
        j \in Jobs : CreateTrigger(g, w, p, j)
  \/ \E g \in Triggers : DeleteTrigger(g)

Next == TableNext \/ JobNext \/ TriggerNext \/ Tick

Spec == Init /\ [][Next]_catalogVars

-----------------------------------------------------------------------------
(* Properties.                                                             *)

(* A trigger row never outlives its job (triggers.job_id REFERENCES        *)
(* transform_jobs), whatever the order of the create and delete requests.  *)
TriggersHaveJobs ==
  \A g \in DOMAIN triggers : triggers[g].job_id \in DOMAIN jobs

(* A table row exists exactly when the table was committed at least once,  *)
(* through deletes and restores: the LEFT JOIN of GET /snapshots-latest    *)
(* never yields a live table without a snapshot.                           *)
TablesHaveSnapshots ==
  \A t \in Tables :
    tables[t] # "absent" <=> \E i \in DOMAIN snapshots : snapshots[i].table = t

(* The last snapshot committed to a table.                                 *)
IsLastCommit(i) ==
  ~ \E k \in DOMAIN snapshots : k > i /\ snapshots[k].table = snapshots[i].table

(* The last commit of a live table is always one of the snapshots that the *)
(* catalog may present as the table's latest.                              *)
LastCommitIsLatest ==
  \A i \in DOMAIN snapshots :
    tables[snapshots[i].table] = "live" /\ IsLastCommit(i)
      => i \in Latest(snapshots[i].table)

(* No missed commit: a job that rests in 'done' has no trigger that a      *)
(* commit since its completion (and since the trigger exists) satisfied.   *)
(* It takes a commit, a completion and a trigger in some order to violate. *)
Baseline(g) ==
  LET done_at == jobs[triggers[g].job_id].last_completed_at
  IN  IF triggers[g].created_at > done_at THEN triggers[g].created_at ELSE done_at

Satisfied(g) ==
  IF triggers[g].policy = "any"
  THEN \E w \in triggers[g].watches : NewerThan(w, Baseline(g), snapshots)
  ELSE \A w \in triggers[g].watches : NewerThan(w, Baseline(g), snapshots)

NoMissedCommit ==
  \A g \in DOMAIN triggers :
    triggers[g].job_id \in InStatus({"done"}) => ~ Satisfied(g)

(* The catalog implements the abstract job queue.                          *)
jobStatus ==
  [j \in Jobs |-> IF j \in DOMAIN jobs THEN jobs[j].status ELSE "absent"]

JQ == INSTANCE JobQueue WITH status <- jobStatus
ImplementsJobQueue == JQ!Spec

(* "After every catalog commit, the DO checks whether all watched input    *)
(* tables [...] have commits newer than the trigger's last run.  If so, it *)
(* enqueues the transform job": when a run completes, no other table that  *)
(* a trigger of the job has watched since the claim was committed after    *)
(* the claim (updated_at of a running job), or the commit wakes nobody.    *)
(* The code does not do so (README, section 3): no run checks this.        *)
CompletedRunSawCommits ==
  [][\A g \in DOMAIN triggers :
       LET j == triggers[g].job_id
           inputs == triggers[g].watches \ {jobs[j].output_table}
       IN  /\ triggers[g].policy = "any"
           /\ triggers[g].created_at < jobs[j].updated_at
           /\ jobs[j].status = "running"
           /\ j \in DOMAIN jobs' /\ jobs'[j].status = "done"
           => \A w \in inputs : ~ NewerThan(w, jobs[j].updated_at, snapshots)
    ]_catalogVars
=============================================================================
