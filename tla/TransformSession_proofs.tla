---------------------- MODULE TransformSession_proofs -----------------------
(***************************************************************************)
(* Proofs about transform jobs.  The first part is about the Catalog       *)
(* Durable Object alone: type correctness, the safety invariants and the   *)
(* implementation of the abstract job queue, for every set of tables,      *)
(* jobs, triggers and uris and all bounds.  The second part is about their *)
(* execution, for any number of tabs, jobs and tables, any triggers, any   *)
(* of the outside events and calls that overtake each other or do not.     *)
(***************************************************************************)
EXTENDS TransformSession, SequenceTheorems, TLAPS

-----------------------------------------------------------------------------
(* The catalog.                                                            *)

Status == {"idle", "pending", "running", "done", "failed"}

(* Updating the status of some jobs keeps the rows and their types.        *)
LEMMA SetStatusType ==
  ASSUME TypeOK, NEW S, NEW s \in Status
  PROVE  /\ DOMAIN SetStatus(S, s) = DOMAIN jobs
         /\ SetStatus(S, s) \in [DOMAIN jobs -> JobRow]
         /\ \A j \in DOMAIN jobs :
              /\ SetStatus(S, s)[j].status = IF j \in S THEN s ELSE jobs[j].status
              /\ SetStatus(S, s)[j].last_completed_at = jobs[j].last_completed_at
BY DEF SetStatus, TypeOK, JobRow, Status, Time

(* What the handlers that only update job rows leave alone.                *)
JobsOnly == UNCHANGED <<tables, snapshots, triggers, now>>

LEMMA JobsOnlyType ==
  ASSUME TypeOK, JobsOnly,
         jobs' \in [DOMAIN jobs' -> JobRow], DOMAIN jobs' \subseteq Jobs
  PROVE  TypeOK'
BY DEF TypeOK, JobsOnly, Time, Snapshot, JobRow, Trigger

(* The row that POST /jobs/:id/complete leaves behind, and no other change. *)
LEMMA CompletedRow ==
  ASSUME TypeOK, NEW j \in DOMAIN jobs, CompleteJob(j)
  PROVE  /\ DOMAIN jobs' = DOMAIN jobs /\ jobs' \in [DOMAIN jobs -> JobRow]
         /\ jobs'[j].status = "done" /\ jobs'[j].last_completed_at = now
         /\ \A k \in DOMAIN jobs \ {j} : jobs'[k] = jobs[k]
<1> DEFINE row == [jobs[j] EXCEPT !.status = "done", !.updated_at = now,
                                  !.last_completed_at = now]
<1>1. jobs' = [jobs EXCEPT ![j] = row]
  BY DEF CompleteJob, TypeOK
<1>2. row \in JobRow /\ row.status = "done" /\ row.last_completed_at = now
  <2>1. jobs[j] \in JobRow /\ now \in Time /\ now \in 0..MaxTime
    BY CatalogAssumption DEF TypeOK, Time
  <2> QED
    BY <2>1 DEF JobRow
<1> HIDE DEF row
<1> QED
  BY <1>1, <1>2 DEF TypeOK

(* A snapshot that is patched keeps its table and its time.                *)
LEMMA PatchedSnapshot ==
  ASSUME TypeOK, NEW i \in DOMAIN snapshots, NEW u \in Uris, PatchSnapshot(i, u)
  PROVE  /\ snapshots' \in Seq(Snapshot)
         /\ DOMAIN snapshots' = DOMAIN snapshots
         /\ \A k \in DOMAIN snapshots :
              /\ snapshots'[k].table = snapshots[k].table
              /\ snapshots'[k].created_at = snapshots[k].created_at
<1> DEFINE snap == [snapshots[i] EXCEPT !.uri = u]
<1>1. snapshots' = [snapshots EXCEPT ![i] = snap]
  BY DEF PatchSnapshot
<1>2. i \in 1..Len(snapshots) /\ snapshots \in Seq(Snapshot)
  BY DEF TypeOK
<1>3. snapshots[i] \in Snapshot
  BY <1>2
<1>4. /\ snap \in Snapshot
      /\ snap.table = snapshots[i].table /\ snap.created_at = snapshots[i].created_at
  BY <1>3 DEF Snapshot
<1> HIDE DEF snap
<1>5. /\ snapshots' \in Seq(Snapshot) /\ Len(snapshots') = Len(snapshots)
      /\ \A k \in 1..Len(snapshots) :
           snapshots'[k] = IF k = i THEN snap ELSE snapshots[k]
  BY <1>1, <1>2, <1>4, ExceptSeq
<1> QED
  BY <1>2, <1>4, <1>5

(* Every handler preserves all parts of TypeOK.                             *)
LEMMA CatalogStepTyped == TypeOK /\ [Next]_catalogVars => TypeOK'
<1> SUFFICES ASSUME TypeOK, [Next]_catalogVars
             PROVE  TypeOK'
  OBVIOUS
<1>1. CASE TableNext
  <2>1. ASSUME NEW t \in Tables, NEW u \in Uris, Commit(t, u)
        PROVE  TypeOK'
    <3> DEFINE snap == [table |-> t, uri |-> u, created_at |-> now]
               snaps == Append(snapshots, snap)
    <3>1. snap \in Snapshot
      BY DEF TypeOK, Snapshot
    <3>2. snapshots' \in Seq(Snapshot)
      BY <2>1, <3>1 DEF Commit, TypeOK
    <3>3. jobs' = SetStatus(Fired(t, snaps), "pending")
      BY <2>1 DEF Commit
    <3>4. DOMAIN jobs' = DOMAIN jobs /\ jobs' \in [DOMAIN jobs -> JobRow]
      BY <3>3, SetStatusType DEF Status
    <3> QED
      BY <2>1, <3>2, <3>4 DEF Commit, TypeOK
  <2>2. ASSUME NEW t \in Tables, DeleteTable(t)
        PROVE  TypeOK'
    BY <2>2 DEF DeleteTable, TypeOK
  <2>3. ASSUME NEW i \in DOMAIN snapshots, NEW u \in Uris, PatchSnapshot(i, u)
        PROVE  TypeOK'
    BY <2>3, PatchedSnapshot DEF PatchSnapshot, TypeOK
  <2> QED
    BY <1>1, <2>1, <2>2, <2>3 DEF TableNext
<1>2. CASE JobNext
  <2>1. ASSUME NEW j \in Jobs, NEW t \in Tables, CreateJob(j, t)
        PROVE  TypeOK'
    <3>1. DOMAIN jobs' = DOMAIN jobs \cup {j} /\ jobs' \in [DOMAIN jobs' -> JobRow]
      BY <2>1, CatalogAssumption DEF CreateJob, Insert, TypeOK, JobRow, Time
    <3> QED
      BY <2>1, <3>1, JobsOnlyType DEF CreateJob, JobsOnly, TypeOK
  <2>2. ASSUME NEW j \in Jobs, NEW t \in Tables, PatchJob(j, t)
        PROVE  TypeOK'
    <3>1. DOMAIN jobs' = DOMAIN jobs /\ jobs' \in [DOMAIN jobs' -> JobRow]
      BY ZenonT(30), <2>2 DEF PatchJob, TypeOK, JobRow, Time
    <3> QED
      BY <2>2, <3>1, JobsOnlyType DEF PatchJob, JobsOnly, TypeOK
  <2>3. ASSUME NEW j \in Jobs, DeleteJob(j)
        PROVE  TypeOK'
    <3>1. DOMAIN jobs' \subseteq Jobs /\ jobs' \in [DOMAIN jobs' -> JobRow]
      BY <2>3 DEF DeleteJob, TypeOK
    <3>2. /\ DOMAIN triggers' \subseteq Triggers
          /\ triggers' \in [DOMAIN triggers' -> Trigger]
      BY <2>3 DEF DeleteJob, TypeOK
    <3> QED
      BY <2>3, <3>1, <3>2 DEF DeleteJob, TypeOK
  <2>4. ASSUME NEW j \in Jobs, CompleteJob(j)
        PROVE  TypeOK'
    <3>1. DOMAIN jobs' = DOMAIN jobs /\ jobs' \in [DOMAIN jobs' -> JobRow]
      BY <2>4, CompletedRow DEF CompleteJob
    <3> QED
      BY <2>4, <3>1, JobsOnlyType DEF CompleteJob, JobsOnly, TypeOK
  <2>5. ASSUME NEW j \in Jobs, TriggerJob(j) \/ ClaimJob(j) \/ FailJob(j)
        PROVE  TypeOK'
    <3>1. /\ JobsOnly
          /\ \E s \in Status : jobs' = SetStatus({j}, s)
      BY <2>5 DEF TriggerJob, ClaimJob, FailJob, JobsOnly, Status
    <3> QED
      BY <3>1, SetStatusType, JobsOnlyType DEF TypeOK
  <2>6. ASSUME NEW S \in SUBSET Jobs, ResetOrphanedJobs(S) \/ ResetJobsPending(S)
        PROVE  TypeOK'
    <3>1. /\ JobsOnly
          /\ \E T : jobs' = SetStatus(T, "pending")
      BY <2>6 DEF ResetOrphanedJobs, ResetJobsPending, JobsOnly
    <3> QED
      BY <3>1, SetStatusType, JobsOnlyType DEF TypeOK, Status
  <2> QED
    BY <1>2, <2>1, <2>2, <2>3, <2>4, <2>5, <2>6 DEF JobNext
<1>3. CASE TriggerNext
  <2>1. ASSUME NEW g \in Triggers, NEW w \in (SUBSET Tables) \ {{}},
               NEW p \in {"any", "all"}, NEW j \in Jobs, CreateTrigger(g, w, p, j)
        PROVE  TypeOK'
    <3>1. /\ DOMAIN triggers' \subseteq Triggers
          /\ triggers' \in [DOMAIN triggers' -> Trigger]
      BY <2>1 DEF CreateTrigger, Insert, TypeOK, Trigger
    <3> QED
      BY <2>1, <3>1 DEF CreateTrigger, TypeOK
  <2>2. ASSUME NEW g \in Triggers, DeleteTrigger(g)
        PROVE  TypeOK'
    <3>1. /\ DOMAIN triggers' \subseteq Triggers
          /\ triggers' \in [DOMAIN triggers' -> Trigger]
      BY <2>2 DEF DeleteTrigger, TypeOK
    <3> QED
      BY <2>2, <3>1 DEF DeleteTrigger, TypeOK
  <2> QED
    BY <1>3, <2>1, <2>2 DEF TriggerNext
<1>4. CASE Tick
  BY <1>4, CatalogAssumption DEF Tick, TypeOK, Time
<1>5. CASE UNCHANGED catalogVars
  BY <1>5 DEF catalogVars, TypeOK
<1> QED
  BY <1>1, <1>2, <1>3, <1>4, <1>5 DEF Next

(* All parts of TypeOK hold initially and are preserved by every handler.  *)
THEOREM TypeCorrect == Spec => []TypeOK
<1>1. Init => TypeOK
  BY CatalogAssumption DEF Init, TypeOK, Time, Snapshot
<1>2. TypeOK /\ [Next]_catalogVars => TypeOK'
  BY CatalogStepTyped
<1> QED
  BY <1>1, <1>2, PTL DEF Spec

-----------------------------------------------------------------------------
(* The rows of triggers and of transform_jobs stay consistent: the job of  *)
(* a trigger is deleted only together with the trigger.                    *)
THEOREM TriggersKeepJobs == Spec => []TriggersHaveJobs
<1>1. Init => TriggersHaveJobs
  BY DEF Init, TriggersHaveJobs
<1>2. TypeOK /\ TriggersHaveJobs /\ [Next]_catalogVars => TriggersHaveJobs'
  <2> SUFFICES ASSUME TypeOK, TriggersHaveJobs, [Next]_catalogVars
               PROVE  TriggersHaveJobs'
    OBVIOUS
  <2>1. ASSUME UNCHANGED triggers, DOMAIN jobs \subseteq DOMAIN jobs'
        PROVE  TriggersHaveJobs'
    BY <2>1 DEF TriggersHaveJobs
  <2>2. CASE TableNext
    <3>1. DOMAIN jobs \subseteq DOMAIN jobs'
      <4>1. ASSUME NEW t \in Tables, NEW u \in Uris, Commit(t, u)
            PROVE  DOMAIN jobs \subseteq DOMAIN jobs'
        <5>1. \E S : jobs' = SetStatus(S, "pending")
          BY <4>1 DEF Commit
        <5> QED
          BY <5>1, SetStatusType DEF Status
      <4> QED
        BY <2>2, <4>1 DEF TableNext, DeleteTable, PatchSnapshot
    <3> QED
      BY <2>1, <2>2, <3>1 DEF TableNext, Commit, DeleteTable, PatchSnapshot
  <2>3. CASE JobNext
    <3>1. ASSUME NEW j \in Jobs, DeleteJob(j)
          PROVE  TriggersHaveJobs'
      BY <3>1 DEF DeleteJob, TriggersHaveJobs
    <3>2. ASSUME NEW j \in Jobs, NEW t \in Tables, CreateJob(j, t) \/ PatchJob(j, t)
          PROVE  TriggersHaveJobs'
      BY <3>2, <2>1 DEF CreateJob, PatchJob, Insert, TypeOK
    <3>3. ASSUME NEW j \in Jobs, CompleteJob(j)
          PROVE  TriggersHaveJobs'
      BY <3>3, <2>1, CompletedRow DEF CompleteJob
    <3>4. ASSUME NEW S, NEW x \in Status, jobs' = SetStatus(S, x), UNCHANGED triggers
          PROVE  TriggersHaveJobs'
      BY <3>4, <2>1, SetStatusType
    <3>5. ASSUME NEW j \in Jobs, TriggerJob(j) \/ ClaimJob(j) \/ FailJob(j)
          PROVE  TriggersHaveJobs'
      BY <3>5, <3>4 DEF TriggerJob, ClaimJob, FailJob, Status
    <3>6. ASSUME NEW S \in SUBSET Jobs, ResetOrphanedJobs(S) \/ ResetJobsPending(S)
          PROVE  TriggersHaveJobs'
      BY <3>6, <3>4 DEF ResetOrphanedJobs, ResetJobsPending, Status
    <3> QED
      BY <2>3, <3>1, <3>2, <3>3, <3>5, <3>6 DEF JobNext
  <2>4. CASE TriggerNext
    <3>1. ASSUME NEW g \in Triggers, NEW w \in (SUBSET Tables) \ {{}},
                 NEW p \in {"any", "all"}, NEW j \in Jobs, CreateTrigger(g, w, p, j)
          PROVE  TriggersHaveJobs'
      BY <3>1 DEF CreateTrigger, Insert, TriggersHaveJobs
    <3>2. ASSUME NEW g \in Triggers, DeleteTrigger(g)
          PROVE  TriggersHaveJobs'
      BY <3>2 DEF DeleteTrigger, TriggersHaveJobs
    <3> QED
      BY <2>4, <3>1, <3>2 DEF TriggerNext
  <2>5. CASE Tick \/ UNCHANGED catalogVars
    BY <2>5, <2>1 DEF Tick, catalogVars
  <2> QED
    BY <2>2, <2>3, <2>4, <2>5 DEF Next
<1> QED
  BY <1>1, <1>2, TypeCorrect, PTL DEF Spec

-----------------------------------------------------------------------------
(* No snapshot is from the future, and snapshots are in the order of their *)
(* commits: what the comparisons of the triggers and of snapshots-latest   *)
(* rest on.                                                                *)
InOrder ==
  \A i \in DOMAIN snapshots :
    /\ snapshots[i].created_at <= now
    /\ \A k \in DOMAIN snapshots :
         i < k => snapshots[i].created_at <= snapshots[k].created_at

(* The sequence of snapshots after a commit.                               *)
LEMMA CommittedSnapshots ==
  ASSUME TypeOK, NEW t \in Tables, NEW u \in Uris, Commit(t, u)
  PROVE  /\ DOMAIN snapshots = 1..Len(snapshots) /\ Len(snapshots) \in Nat
         /\ DOMAIN snapshots' = 1..(Len(snapshots) + 1)
         /\ \A k \in DOMAIN snapshots : snapshots'[k] = snapshots[k]
         /\ snapshots'[Len(snapshots) + 1].table = t
         /\ snapshots'[Len(snapshots) + 1].created_at = now
<1> DEFINE snap == [table |-> t, uri |-> u, created_at |-> now]
<1>1. snap.table = t /\ snap.created_at = now /\ snap \in Snapshot
  BY DEF TypeOK, Snapshot
<1>2. snapshots' = Append(snapshots, snap) /\ snapshots \in Seq(Snapshot)
  BY DEF Commit, TypeOK
<1> HIDE DEF snap
<1> QED
  BY <1>1, <1>2

(* What a commit makes newer.                                              *)
LEMMA NewerAfterCommit ==
  ASSUME TypeOK, NEW t \in Tables, NEW u \in Uris, Commit(t, u),
         NEW w, NEW baseline
  PROVE  NewerThan(w, baseline, snapshots')
           <=> NewerThan(w, baseline, snapshots) \/ (w = t /\ now > baseline)
BY CommittedSnapshots DEF NewerThan

LEMMA InOrderStep ==
  ASSUME TypeOK, InOrder, [Next]_catalogVars
  PROVE  InOrder'
<1>1. ASSUME NEW t \in Tables, NEW u \in Uris, Commit(t, u)
      PROVE  InOrder'
  <2>1. now' = now /\ now \in Nat
    BY <1>1 DEF Commit, TypeOK, Time
  <2> QED
    BY <1>1, <2>1, CommittedSnapshots DEF InOrder
<1>2. ASSUME NEW i \in DOMAIN snapshots, NEW u \in Uris, PatchSnapshot(i, u)
      PROVE  InOrder'
  <2>1. now' = now
    BY <1>2 DEF PatchSnapshot
  <2> QED
    BY <1>2, <2>1, PatchedSnapshot DEF InOrder
<1>3. ASSUME UNCHANGED snapshots, now' = now \/ now' = now + 1
      PROVE  InOrder'
  <2>1. /\ now \in Nat
        /\ \A i \in DOMAIN snapshots : snapshots[i].created_at \in Nat
    <3>1. \A i \in DOMAIN snapshots : snapshots[i] \in Snapshot
      BY DEF TypeOK
    <3> QED
      BY <3>1 DEF TypeOK, Time, Snapshot
  <2> QED
    BY <1>3, <2>1 DEF InOrder
<1>4. CASE TableNext
  BY <1>1, <1>2, <1>3, <1>4 DEF TableNext, DeleteTable
<1>5. CASE JobNext
  BY <1>3, <1>5 DEF JobNext, CreateJob, PatchJob, DeleteJob, TriggerJob, ClaimJob,
                    CompleteJob, FailJob, ResetOrphanedJobs, ResetJobsPending
<1>6. CASE TriggerNext \/ Tick \/ UNCHANGED catalogVars
  BY <1>3, <1>6 DEF TriggerNext, CreateTrigger, DeleteTrigger, Tick, catalogVars
<1> QED
  BY <1>4, <1>5, <1>6 DEF Next

-----------------------------------------------------------------------------
(* A baseline is a time that is no earlier than the job's last completion. *)
LEMMA BaselineType ==
  ASSUME TypeOK, NEW g \in DOMAIN triggers, triggers[g].job_id \in DOMAIN jobs
  PROVE  /\ Baseline(g) \in Nat /\ now \in Nat
         /\ jobs[triggers[g].job_id].last_completed_at \in Nat
         /\ Baseline(g) >= jobs[triggers[g].job_id].last_completed_at
         /\ Baseline(g) >= triggers[g].created_at
<1>1. jobs[triggers[g].job_id] \in JobRow /\ triggers[g] \in Trigger
  BY DEF TypeOK
<1> QED
  BY <1>1 DEF Baseline, TypeOK, JobRow, Trigger, Time

(* The larger the baseline, the fewer snapshots are newer.                 *)
LEMMA NewerThanSmaller ==
  ASSUME NEW w, NEW x \in Nat, NEW y \in Nat, x <= y, TypeOK,
         NewerThan(w, y, snapshots)
  PROVE  NewerThan(w, x, snapshots)
<1>1. \A i \in DOMAIN snapshots : snapshots[i] \in Snapshot
  BY DEF TypeOK
<1> QED
  BY <1>1 DEF NewerThan, Snapshot, Time

(* A trigger stays unsatisfied as long as its baseline stays and none of   *)
(* its tables becomes newer.                                               *)
LEMMA StaysUnsatisfied ==
  ASSUME NEW g \in DOMAIN triggers, triggers'[g] = triggers[g],
         jobs'[triggers[g].job_id].last_completed_at
           = jobs[triggers[g].job_id].last_completed_at,
         \A w \in triggers[g].watches :
           NewerThan(w, Baseline(g), snapshots') => NewerThan(w, Baseline(g), snapshots),
         ~ Satisfied(g)
  PROVE  ~ Satisfied(g)'
BY DEF Satisfied, Baseline, NewerThan

(* A commit satisfies no trigger whose job it leaves in 'done'.            *)
LEMMA CommitMissesNoJob ==
  ASSUME TypeOK, NoMissedCommit, NEW t \in Tables, NEW u \in Uris, Commit(t, u)
  PROVE  NoMissedCommit'
<1> SUFFICES ASSUME NEW g \in DOMAIN triggers', triggers'[g].job_id \in InStatus({"done"})'
             PROVE  ~ Satisfied(g)'
  BY DEF NoMissedCommit
<1> DEFINE j == triggers[g].job_id
<1>1. triggers' = triggers /\ g \in DOMAIN triggers
  BY DEF Commit
<1>2. jobs' = SetStatus(Fired(t, snapshots'), "pending")
  BY DEF Commit
<1>3. /\ j \in DOMAIN jobs /\ jobs[j].status = "done" /\ j \notin Fired(t, snapshots')
      /\ jobs'[j].last_completed_at = jobs[j].last_completed_at
  BY <1>1, <1>2, SetStatusType DEF InStatus, Status
<1>4. ~ Satisfied(g)
  BY <1>1, <1>3 DEF NoMissedCommit, InStatus
<1>5. /\ Baseline(g) \in Nat /\ now \in Nat /\ jobs[j].last_completed_at \in Nat
      /\ Baseline(g) >= jobs[j].last_completed_at
  BY <1>1, <1>3, BaselineType
<1>6. CASE t \notin triggers[g].watches
  BY <1>1, <1>3, <1>4, <1>6, NewerAfterCommit, StaysUnsatisfied
<1>7. CASE t \in triggers[g].watches
  <2>1. PICK w \in triggers[g].watches :
          /\ triggers[g].policy # "any"
          /\ ~ NewerThan(w, jobs[j].last_completed_at, snapshots')
    <3>1. triggers[g].policy \in {"any", "all"}
      BY <1>1 DEF TypeOK, Trigger
    <3> QED
      BY <1>1, <1>3, <1>7, <3>1 DEF Fired, InStatus
  <2>2. ~ NewerThan(w, Baseline(g), snapshots')
    BY <1>5, <2>1, NewerAfterCommit, NewerThanSmaller
  <2>3. triggers'[g] = triggers[g] /\ Baseline(g)' = Baseline(g)
    BY <1>1, <1>3 DEF Baseline
  <2> QED
    BY <2>1, <2>2, <2>3 DEF Satisfied
<1> QED
  BY <1>6, <1>7

(* A new trigger, and the triggers of a job that completes now, have no    *)
(* snapshot newer than their baseline.                                     *)
LEMMA FreshBaseline ==
  ASSUME TypeOK', InOrder', NEW g \in DOMAIN triggers',
         triggers'[g].job_id \in DOMAIN jobs',
         \/ triggers'[g].created_at = now'
         \/ jobs'[triggers'[g].job_id].last_completed_at = now',
         triggers'[g].watches # {}
  PROVE  ~ Satisfied(g)'
<1>1. Baseline(g)' \in Nat /\ Baseline(g)' >= now'
  <2>1. jobs'[triggers'[g].job_id] \in JobRow /\ triggers'[g] \in Trigger
    BY DEF TypeOK
  <2> QED
    BY <2>1 DEF Baseline, TypeOK, JobRow, Trigger, Time
<1>2. \A i \in DOMAIN snapshots' : snapshots'[i].created_at <= now'
                                  /\ snapshots'[i] \in Snapshot
  BY DEF TypeOK, InOrder
<1>3. \A w : ~ NewerThan(w, Baseline(g)', snapshots')
  BY <1>1, <1>2 DEF NewerThan, Snapshot, TypeOK, Time
<1> QED
  BY <1>3 DEF Satisfied

LEMMA NoMissedCommitStep ==
  ASSUME TypeOK, TypeOK', InOrder', NoMissedCommit, [Next]_catalogVars
  PROVE  NoMissedCommit'
<1>1. ASSUME UNCHANGED <<triggers, snapshots>>,
             \A j \in DOMAIN jobs' : jobs'[j].status = "done" =>
               /\ j \in DOMAIN jobs /\ jobs[j].status = "done"
               /\ jobs'[j].last_completed_at = jobs[j].last_completed_at
      PROVE  NoMissedCommit'
  BY <1>1, StaysUnsatisfied DEF NoMissedCommit, InStatus
<1>2. CASE TableNext
  <2>1. ASSUME NEW i \in DOMAIN snapshots, NEW u \in Uris, PatchSnapshot(i, u)
        PROVE  NoMissedCommit'
    <3>1. \A w, x : NewerThan(w, x, snapshots') <=> NewerThan(w, x, snapshots)
      BY <2>1, PatchedSnapshot DEF NewerThan
    <3>2. UNCHANGED <<jobs, triggers>>
      BY <2>1 DEF PatchSnapshot
    <3> QED
      BY <3>1, <3>2, StaysUnsatisfied DEF NoMissedCommit, InStatus
  <2> QED
    BY <1>1, <1>2, <2>1, CommitMissesNoJob DEF TableNext, DeleteTable
<1>3. CASE JobNext
  <2>1. ASSUME NEW j \in Jobs, NEW t \in Tables, CreateJob(j, t)
        PROVE  NoMissedCommit'
    BY <2>1, <1>1 DEF CreateJob, Insert
  <2>2. ASSUME NEW j \in Jobs, NEW t \in Tables, PatchJob(j, t)
        PROVE  NoMissedCommit'
    BY <2>2, <1>1 DEF PatchJob, TypeOK, JobRow
  <2>3. ASSUME NEW j \in Jobs, DeleteJob(j)
        PROVE  NoMissedCommit'
    <3> SUFFICES ASSUME NEW g \in DOMAIN triggers',
                        triggers'[g].job_id \in InStatus({"done"})'
                 PROVE  ~ Satisfied(g)'
      BY DEF NoMissedCommit
    <3>1. /\ g \in DOMAIN triggers /\ triggers'[g] = triggers[g]
          /\ triggers[g].job_id \in DOMAIN jobs
          /\ jobs'[triggers[g].job_id] = jobs[triggers[g].job_id]
          /\ snapshots' = snapshots
      BY <2>3 DEF DeleteJob, InStatus
    <3> QED
      BY <3>1, StaysUnsatisfied DEF NoMissedCommit, InStatus
  <2>4. ASSUME NEW j \in Jobs, CompleteJob(j)
        PROVE  NoMissedCommit'
    <3> SUFFICES ASSUME NEW g \in DOMAIN triggers',
                        triggers'[g].job_id \in InStatus({"done"})'
                 PROVE  ~ Satisfied(g)'
      BY DEF NoMissedCommit
    <3>1. UNCHANGED <<triggers, snapshots, now>>
      BY <2>4 DEF CompleteJob
    <3>2. CASE triggers[g].job_id = j
      <4>1. triggers'[g].watches # {}
        BY DEF TypeOK, Trigger
      <4> QED
        BY <2>4, <3>1, <3>2, <4>1, CompletedRow, FreshBaseline DEF CompleteJob
    <3>3. CASE triggers[g].job_id # j
      <4>1. /\ triggers[g].job_id \in DOMAIN jobs
            /\ jobs'[triggers[g].job_id] = jobs[triggers[g].job_id]
        BY <2>4, <3>1, <3>3, CompletedRow DEF CompleteJob, InStatus
      <4> QED
        BY <3>1, <4>1, StaysUnsatisfied DEF NoMissedCommit, InStatus
    <3> QED
      BY <3>2, <3>3
  <2>5. ASSUME NEW S, NEW x \in Status \ {"done"}, jobs' = SetStatus(S, x),
               UNCHANGED <<triggers, snapshots>>
        PROVE  NoMissedCommit'
    BY <2>5, <1>1, SetStatusType
  <2>6. ASSUME NEW j \in Jobs, TriggerJob(j) \/ ClaimJob(j) \/ FailJob(j)
        PROVE  NoMissedCommit'
    BY <2>6, <2>5 DEF TriggerJob, ClaimJob, FailJob, Status
  <2>7. ASSUME NEW S \in SUBSET Jobs, ResetOrphanedJobs(S) \/ ResetJobsPending(S)
        PROVE  NoMissedCommit'
    BY <2>7, <2>5 DEF ResetOrphanedJobs, ResetJobsPending, Status
  <2> QED
    BY <1>3, <2>1, <2>2, <2>3, <2>4, <2>6, <2>7 DEF JobNext
<1>4. CASE TriggerNext
  <2>1. ASSUME NEW h \in Triggers, NEW w \in (SUBSET Tables) \ {{}},
               NEW p \in {"any", "all"}, NEW j \in Jobs, CreateTrigger(h, w, p, j)
        PROVE  NoMissedCommit'
    <3> SUFFICES ASSUME NEW g \in DOMAIN triggers',
                        triggers'[g].job_id \in InStatus({"done"})'
                 PROVE  ~ Satisfied(g)'
      BY DEF NoMissedCommit
    <3>1. UNCHANGED <<jobs, snapshots, now>>
      BY <2>1 DEF CreateTrigger
    <3>2. CASE g = h
      <4>1. triggers'[g].created_at = now' /\ triggers'[g].watches # {}
        BY <2>1, <3>1, <3>2 DEF CreateTrigger, Insert
      <4> QED
        BY <4>1, FreshBaseline DEF InStatus
    <3>3. CASE g # h
      <4>1. g \in DOMAIN triggers /\ triggers'[g] = triggers[g]
        BY <2>1, <3>3 DEF CreateTrigger, Insert
      <4> QED
        BY <3>1, <4>1, StaysUnsatisfied DEF NoMissedCommit, InStatus
    <3> QED
      BY <3>2, <3>3
  <2>2. ASSUME NEW h \in Triggers, DeleteTrigger(h)
        PROVE  NoMissedCommit'
    BY <2>2, StaysUnsatisfied DEF DeleteTrigger, NoMissedCommit, InStatus
  <2> QED
    BY <1>4, <2>1, <2>2 DEF TriggerNext
<1>5. CASE Tick \/ UNCHANGED catalogVars
  BY <1>1, <1>5 DEF Tick, catalogVars
<1> QED
  BY <1>2, <1>3, <1>4, <1>5 DEF Next

(* No job rests in 'done' while one of its triggers is satisfied by the    *)
(* commits since its completion, whatever the order of the requests.       *)
THEOREM NoCommitMissed == Spec => []NoMissedCommit
<1>1. Init => InOrder /\ NoMissedCommit
  BY DEF Init, InOrder, NoMissedCommit
<1>2. TypeOK /\ TypeOK' /\ InOrder /\ NoMissedCommit /\ [Next]_catalogVars
        => InOrder' /\ NoMissedCommit'
  BY InOrderStep, NoMissedCommitStep
<1> QED
  BY <1>1, <1>2, TypeCorrect, PTL DEF Spec

-----------------------------------------------------------------------------
(* A table row exists exactly if some snapshot of the table does.          *)
THEOREM TablesKeepSnapshots == Spec => []TablesHaveSnapshots
<1>1. Init => TablesHaveSnapshots
  <2> SUFFICES ASSUME Init, NEW t \in Tables
               PROVE  tables[t] = "absent" /\ ~ \E i \in DOMAIN snapshots : TRUE
    BY DEF TablesHaveSnapshots
  <2> QED
    BY DEF Init
<1>2. TypeOK /\ TablesHaveSnapshots /\ [Next]_catalogVars => TablesHaveSnapshots'
  <2> SUFFICES ASSUME TypeOK, TablesHaveSnapshots, [Next]_catalogVars
               PROVE  TablesHaveSnapshots'
    OBVIOUS
  <2>1. ASSUME NEW t \in Tables, NEW u \in Uris, Commit(t, u)
        PROVE  TablesHaveSnapshots'
    <3>1. \A s \in Tables : tables'[s] = IF s = t THEN "live" ELSE tables[s]
      BY <2>1 DEF Commit, TypeOK
    <3> QED
      BY <2>1, <3>1, CommittedSnapshots DEF TablesHaveSnapshots
  <2>2. ASSUME NEW t \in Tables, DeleteTable(t)
        PROVE  TablesHaveSnapshots'
    BY <2>2 DEF DeleteTable, TablesHaveSnapshots, TypeOK
  <2>3. ASSUME NEW i \in DOMAIN snapshots, NEW u \in Uris, PatchSnapshot(i, u)
        PROVE  TablesHaveSnapshots'
    <3>1. UNCHANGED tables
      BY <2>3 DEF PatchSnapshot
    <3> QED
      BY <2>3, <3>1, PatchedSnapshot DEF TablesHaveSnapshots
  <2>4. ASSUME UNCHANGED <<tables, snapshots>>
        PROVE  TablesHaveSnapshots'
    BY <2>4 DEF TablesHaveSnapshots
  <2>5. CASE TableNext
    BY <2>1, <2>2, <2>3, <2>5 DEF TableNext
  <2>6. CASE JobNext
    BY <2>4, <2>6 DEF JobNext, CreateJob, PatchJob, DeleteJob, TriggerJob, ClaimJob,
                      CompleteJob, FailJob, ResetOrphanedJobs, ResetJobsPending
  <2>7. CASE TriggerNext \/ Tick \/ UNCHANGED catalogVars
    BY <2>4, <2>7 DEF TriggerNext, CreateTrigger, DeleteTrigger, Tick, catalogVars
  <2> QED
    BY <2>5, <2>6, <2>7 DEF Next
<1> QED
  BY <1>1, <1>2, TypeCorrect, PTL DEF Spec

(* The last commit of a live table is among the latest snapshots, because  *)
(* snapshots are in the order of their commits.                            *)
THEOREM LastCommitStaysLatest == Spec => []LastCommitIsLatest
<1>1. Init => InOrder
  BY DEF Init, InOrder
<1>2. TypeOK /\ InOrder /\ [Next]_catalogVars => InOrder'
  BY InOrderStep
<1>3. TypeOK /\ InOrder => LastCommitIsLatest
  <2> SUFFICES ASSUME TypeOK, InOrder, NEW i \in DOMAIN snapshots,
                      tables[snapshots[i].table] = "live", IsLastCommit(i),
                      NEW k \in DOMAIN snapshots,
                      snapshots[k].table = snapshots[i].table
               PROVE  ~ (snapshots[k].created_at > snapshots[i].created_at)
    BY DEF LastCommitIsLatest, Latest, NewerThan
  <2>1. /\ i \in Nat /\ k \in Nat
        /\ snapshots[i] \in Snapshot /\ snapshots[k] \in Snapshot
    BY DEF TypeOK
  <2>2. k <= i
    BY <2>1 DEF IsLastCommit
  <2> QED
    BY <2>1, <2>2 DEF InOrder, Snapshot, Time
<1> QED
  BY <1>1, <1>2, <1>3, TypeCorrect, PTL DEF Spec

-----------------------------------------------------------------------------
(* The catalog implements the abstract job queue: every handler is one     *)
(* step of the queue or invisible to it.                                   *)
(* What the queue sees when some jobs get a new status.                    *)
LEMMA StatusAfterSet ==
  ASSUME TypeOK, NEW S, S \subseteq DOMAIN jobs, NEW x \in Status, jobs' = SetStatus(S, x)
  PROVE  jobStatus' = [j \in Jobs |-> IF j \in S THEN x ELSE jobStatus[j]]
BY SetStatusType DEF jobStatus, TypeOK

LEMMA QueueStep ==
  ASSUME TypeOK, [Next]_catalogVars
  PROVE  [JQ!Next]_jobStatus
<1>0. /\ \A j \in DOMAIN jobs : j \in Jobs /\ jobStatus[j] = jobs[j].status
                              /\ jobs[j].status # "absent"
      /\ jobStatus = [j \in Jobs |-> jobStatus[j]]
  BY DEF jobStatus, TypeOK, JobRow
<1>1. ASSUME UNCHANGED jobs
      PROVE  UNCHANGED jobStatus
  BY <1>1 DEF jobStatus
<1>2. CASE TableNext
  <2>1. ASSUME NEW t \in Tables, NEW u \in Uris, Commit(t, u)
        PROVE  JQ!Next
    <3> DEFINE S == Fired(t, snapshots')
    <3>1. jobs' = SetStatus(S, "pending")
      BY <2>1 DEF Commit
    <3>2. /\ S \subseteq DOMAIN jobs /\ S \subseteq Jobs
          /\ \A j \in S : jobs[j].status # "running"
      BY DEF Fired, InStatus, TypeOK
    <3> HIDE DEF S
    <3>3. JQ!Enqueue(S)
      BY <1>0, <3>1, <3>2, StatusAfterSet DEF JQ!Enqueue, JQ!Put, Status
    <3> QED
      BY <3>2, <3>3 DEF JQ!Next
  <2> QED
    BY <1>1, <1>2, <2>1 DEF TableNext, DeleteTable, PatchSnapshot
<1>3. CASE JobNext
  <2>1. ASSUME NEW j \in Jobs, NEW t \in Tables, CreateJob(j, t)
        PROVE  JQ!Next
    <3>1. JQ!Add(j)
      BY <2>1 DEF CreateJob, Insert, JQ!Add, jobStatus
    <3> QED
      BY <3>1 DEF JQ!Next
  <2>2. ASSUME NEW j \in Jobs, NEW t \in Tables, PatchJob(j, t)
        PROVE  UNCHANGED jobStatus
    BY <2>2 DEF PatchJob, TypeOK, JobRow, jobStatus
  <2>3. ASSUME NEW j \in Jobs, DeleteJob(j)
        PROVE  JQ!Next
    <3>1. JQ!Remove(j)
      <4>1. jobs[j] \in JobRow /\ j \in DOMAIN jobs /\ jobs[j].status # "running"
        BY <2>3 DEF DeleteJob, InStatus, TypeOK
      <4> QED
        BY <2>3, <4>1 DEF DeleteJob, JQ!Remove, JobRow, jobStatus
    <3> QED
      BY <3>1 DEF JQ!Next
  <2>4. ASSUME NEW j \in Jobs, TriggerJob(j)
        PROVE  JQ!Next
    <3>1. JQ!Enqueue({j})
      <4>1. /\ {j} \subseteq DOMAIN jobs /\ jobs[j] \in JobRow
            /\ jobs[j].status # "running" /\ jobs' = SetStatus({j}, "pending")
        BY <2>4 DEF TriggerJob, InStatus, TypeOK
      <4> QED
        BY <1>0, <4>1, StatusAfterSet DEF JQ!Enqueue, JQ!Put, Status
    <3> QED
      BY <3>1 DEF JQ!Next
  <2>5. ASSUME NEW j \in Jobs, ClaimJob(j)
        PROVE  JQ!Next
    <3>1. JQ!Claim(j)
      <4>1. /\ {j} \subseteq DOMAIN jobs /\ jobs[j].status = "pending"
            /\ jobs' = SetStatus({j}, "running")
        BY <2>5 DEF ClaimJob, InStatus
      <4>2. jobStatus' = [k \in Jobs |-> IF k \in {j} THEN "running" ELSE jobStatus[k]]
        BY <4>1, StatusAfterSet DEF Status
      <4> QED
        BY <1>0, <4>1, <4>2 DEF JQ!Claim
    <3> QED
      BY <3>1 DEF JQ!Next
  <2>6. ASSUME NEW j \in Jobs, CompleteJob(j)
        PROVE  JQ!Next
    <3>1. JQ!Finish(j, "done")
      <4>1. j \in DOMAIN jobs /\ jobs[j] \in JobRow
        BY <2>6 DEF CompleteJob, TypeOK
      <4> QED
        BY <2>6, <4>1, CompletedRow DEF JQ!Finish, JobRow, jobStatus
    <3> QED
      BY <3>1 DEF JQ!Next
  <2>7. ASSUME NEW j \in Jobs, FailJob(j)
        PROVE  JQ!Next
    <3>1. JQ!Finish(j, "failed")
      <4>1. j \in DOMAIN jobs /\ jobs[j] \in JobRow /\ jobs' = SetStatus({j}, "failed")
        BY <2>7 DEF FailJob, TypeOK
      <4>2. jobStatus' = [k \in Jobs |-> IF k \in {j} THEN "failed" ELSE jobStatus[k]]
        BY <4>1, StatusAfterSet DEF Status
      <4> QED
        BY <1>0, <4>1, <4>2 DEF JQ!Finish
    <3> QED
      BY <3>1 DEF JQ!Next
  <2>8. ASSUME NEW S \in SUBSET Jobs, ResetOrphanedJobs(S) \/ ResetJobsPending(S)
        PROVE  JQ!Next
    <3>1. PICK T \in SUBSET InStatus({"running"}) : jobs' = SetStatus(T, "pending")
      BY <2>8 DEF ResetOrphanedJobs, ResetJobsPending
    <3>2. T \subseteq DOMAIN jobs /\ T \subseteq Jobs /\ \A j \in T : jobs[j].status = "running"
      BY <3>1 DEF InStatus, TypeOK
    <3>3. JQ!Requeue(T)
      BY <1>0, <3>1, <3>2, StatusAfterSet DEF JQ!Requeue, JQ!Put, Status
    <3> QED
      BY <3>2, <3>3 DEF JQ!Next
  <2> QED
    BY <1>3, <2>1, <2>2, <2>3, <2>4, <2>5, <2>6, <2>7, <2>8 DEF JobNext
<1>4. CASE TriggerNext \/ Tick \/ UNCHANGED catalogVars
  BY <1>1, <1>4 DEF TriggerNext, CreateTrigger, DeleteTrigger, Tick, catalogVars
<1> QED
  BY <1>2, <1>3, <1>4 DEF Next

(* The catalog DO is a job queue: whatever its requests do, a job's status *)
(* changes as JobQueue says (queue, claim, finish, requeue, delete).       *)
THEOREM CatalogImplementsJobQueue == Spec => ImplementsJobQueue
<1>1. Init => JQ!Init
  BY DEF Init, JQ!Init, jobStatus
<1>2. TypeOK /\ [Next]_catalogVars => [JQ!Next]_jobStatus
  BY QueueStep
<1> QED
  BY <1>1, <1>2, TypeCorrect, PTL DEF Spec, ImplementsJobQueue, JQ!Spec

-----------------------------------------------------------------------------
(* The suspended handlers by the call they are at, and what the other      *)
(* variables hold.                                                         *)

Claiming   == [at : {"claim", "claimFailed"}, s : Sockets, j : Jobs,
               ids : SUBSET Jobs, fresh : BOOLEAN]
Reporting  == [at : {"spec", "collect", "complete", "fail"}, s : Sockets, j : Jobs]
Committing == [at : {"commit"}, s : Sockets, j : Jobs, table : Tables]
Resetting  == [at : {"reset"}, s : Sockets, j : Jobs \cup {None}, ids : SUBSET Jobs]
Listing    == [at : {"list"}, s : Sockets, j : Jobs \cup {None}]
Requeuing  == [at : {"requeue"}, s : Sockets, ids : SUBSET Jobs]
Pushing    == [at : {"push"}, s : {None}, ids : SUBSET Jobs]
                \cup [at : {"pushList"}, s : Sockets, ids : SUBSET Jobs]

Handler == UNION {Claiming, Reporting, Committing, Resetting, Listing,
                  Requeuing, Pushing}

Connections ==
  /\ conn \in [Sockets -> {"none", "open", "gone"}]
  /\ inflight \in [Sockets -> SUBSET Jobs]
  /\ fresh \in [Sockets -> BOOLEAN]

Channels ==
  /\ DOMAIN down \subseteq Sockets \X Jobs /\ DOMAIN tasks \subseteq Sockets \X Jobs
  /\ up \in [Sockets -> Seq(Message)]

Rest ==
  /\ owner \in [Jobs -> Sockets \cup {None}]
  /\ calm \in BOOLEAN /\ events \in 0..MaxEvents
  /\ slips \subseteq {"write-back", "copy", "close"}

Shape == Connections /\ Channels /\ Rest /\ handlers \in Seq(Handler)

(* A handler's record, given the call it is at.                            *)
LEMMA HandlerAt ==
  ASSUME NEW h \in Handler
  PROVE  /\ h.s \in Sockets \cup {None}
         /\ h.at \in {"claim", "claimFailed"} => h \in Claiming
         /\ h.at \in {"spec", "collect", "complete", "fail"} => h \in Reporting
         /\ h.at = "commit" => h \in Committing
         /\ h.at = "reset" => h \in Resetting
         /\ h.at = "list" => h \in Listing
         /\ h.at = "requeue" => h \in Requeuing
         /\ h.at \in {"push", "pushList"} => h \in Pushing
BY DEF Handler, Claiming, Reporting, Committing, Resetting, Listing, Requeuing, Pushing

LEMMA ShapeTypes ==
  ASSUME TypeOK, Shape
  PROVE  SessionTypeOK
<1>1. \A i \in DOMAIN handlers : handlers[i] \in Handler
  BY DEF Shape
<1>2. \A i \in DOMAIN handlers : handlers[i].s \in Sockets \cup {None}
  BY <1>1, HandlerAt
<1> QED
  BY <1>2 DEF SessionTypeOK, Shape, Connections, Channels, Rest, BagToSet

-----------------------------------------------------------------------------
(* How the handlers go on: each one that is there afterwards was there     *)
(* before, or is one of the new ones.                                      *)

Goes(new) ==
  /\ handlers' \in Seq(Handler)
  /\ \A k \in DOMAIN handlers' :
       (\E l \in DOMAIN handlers : handlers'[k] = handlers[l]) \/ handlers'[k] \in new

(* A sequence with one element more.                                       *)
LEMMA OneMore ==
  ASSUME NEW S, NEW s \in Seq(S), NEW r \in S
  PROVE  /\ s \o <<r>> \in Seq(S) /\ DOMAIN (s \o <<r>>) = 1 .. Len(s) + 1
         /\ \A k \in 1 .. Len(s) + 1 :
              (s \o <<r>>)[k] = IF k <= Len(s) THEN s[k] ELSE r
<1> DEFINE new == <<r>>
<1>1. new \in Seq(S) /\ Len(new) = 1 /\ new[1] = r
  OBVIOUS
<1> HIDE DEF new
<1>2. s \o new \in Seq(S) /\ Len(s \o new) = Len(s) + 1
  BY <1>1, ConcatProperties
<1>3. \A k \in 1 .. Len(s) + 1 : (s \o new)[k] = IF k <= Len(s) THEN s[k] ELSE r
  BY <1>1
<1> QED
  BY <1>2, <1>3 DEF new

LEMMA NothingStarts ==
  ASSUME handlers \in Seq(Handler), Start(<<>>)
  PROVE  Goes({})
<1>1. handlers' = handlers
  BY DEF Start
<1> QED
  BY <1>1 DEF Goes

LEMMA OneStarts ==
  ASSUME handlers \in Seq(Handler), NEW r \in Handler, Start(<<r>>)
  PROVE  Goes({r})
<1>1. handlers' = handlers \o <<r>>
  BY DEF Start
<1>2. DOMAIN handlers = 1 .. Len(handlers) /\ Len(handlers) \in Nat
  OBVIOUS
<1>3. handlers' \in Seq(Handler) /\ DOMAIN handlers' = 1 .. Len(handlers) + 1
  BY <1>1, OneMore
<1>4. \A k \in 1 .. Len(handlers) + 1 :
        handlers'[k] = IF k <= Len(handlers) THEN handlers[k] ELSE r
  BY <1>1, OneMore
<1> QED
  BY <1>2, <1>3, <1>4 DEF Goes

LEMMA RemovedHandler ==
  ASSUME handlers \in Seq(Handler), NEW i \in DOMAIN handlers
  PROVE  /\ RemoveAt(handlers, i) \in Seq(Handler)
         /\ \A k \in DOMAIN RemoveAt(handlers, i) :
              \E l \in DOMAIN handlers : RemoveAt(handlers, i)[k] = handlers[l]
<1> DEFINE a == SubSeq(handlers, 1, i - 1)
           b == SubSeq(handlers, i + 1, Len(handlers))
<1>1. i \in 1 .. Len(handlers) /\ Len(handlers) \in Nat
  OBVIOUS
<1>2. /\ a \in Seq(Handler) /\ Len(a) = i - 1
      /\ \A k \in 1 .. i - 1 : a[k] = handlers[k]
  BY <1>1
<1>3. /\ b \in Seq(Handler) /\ Len(b) = Len(handlers) - i
      /\ \A k \in 1 .. Len(handlers) - i : b[k] = handlers[i + k]
  BY <1>1
<1>4. RemoveAt(handlers, i) = a \o b
  BY DEF RemoveAt
<1> HIDE DEF a, b
<1>5. /\ a \o b \in Seq(Handler) /\ Len(a \o b) = Len(handlers) - 1
      /\ \A k \in 1 .. Len(handlers) - 1 :
           (a \o b)[k] = IF k <= i - 1 THEN a[k] ELSE b[k - (i - 1)]
  BY SMTT(20), <1>1, <1>2, <1>3
<1>6. \A k \in 1 .. Len(handlers) - 1 :
        (a \o b)[k] = IF k <= i - 1 THEN handlers[k] ELSE handlers[k + 1]
  <2> SUFFICES ASSUME NEW k \in 1 .. Len(handlers) - 1
               PROVE  (a \o b)[k] = IF k <= i - 1 THEN handlers[k] ELSE handlers[k + 1]
    OBVIOUS
  <2>1. CASE k <= i - 1
    BY <1>1, <1>2, <1>5, <2>1
  <2>2. CASE ~ (k <= i - 1)
    <3>1. k - (i - 1) \in 1 .. Len(handlers) - i /\ i + (k - (i - 1)) = k + 1
      BY <1>1, <2>2
    <3>2. (a \o b)[k] = b[k - (i - 1)]
      BY <1>5, <2>2
    <3> QED
      BY <1>3, <2>2, <3>1, <3>2
  <2> QED
    BY <2>1, <2>2
<1>7. DOMAIN (a \o b) = 1 .. Len(handlers) - 1
  BY <1>1, <1>5
<1>8. \A k \in 1 .. Len(handlers) - 1 : k \in DOMAIN handlers /\ k + 1 \in DOMAIN handlers
  BY <1>1
<1>9. \A k \in DOMAIN (a \o b) : \E l \in DOMAIN handlers : (a \o b)[k] = handlers[l]
  BY <1>6, <1>7, <1>8
<1> QED
  BY <1>4, <1>5, <1>9

LEMMA HandlerEnds ==
  ASSUME handlers \in Seq(Handler), NEW i \in DOMAIN handlers, Continue(i, <<>>)
  PROVE  Goes({})
<1>1. handlers' = RemoveAt(handlers, i)
  BY RemovedHandler DEF Continue
<1> QED
  BY <1>1, RemovedHandler DEF Goes

LEMMA HandlerContinues ==
  ASSUME handlers \in Seq(Handler), NEW i \in DOMAIN handlers, NEW r \in Handler,
         Continue(i, <<r>>)
  PROVE  Goes({r})
<1> DEFINE rest == RemoveAt(handlers, i)
<1>1. handlers' = rest \o <<r>>
  BY DEF Continue
<1>2. rest \in Seq(Handler)
  BY RemovedHandler
<1>3. \A k \in DOMAIN rest : \E l \in DOMAIN handlers : rest[k] = handlers[l]
  BY RemovedHandler
<1> HIDE DEF rest
<1>4. DOMAIN rest = 1 .. Len(rest) /\ Len(rest) \in Nat
  BY <1>2
<1>5. handlers' \in Seq(Handler) /\ DOMAIN handlers' = 1 .. Len(rest) + 1
  BY <1>1, <1>2, OneMore
<1>6. \A k \in 1 .. Len(rest) + 1 : handlers'[k] = IF k <= Len(rest) THEN rest[k] ELSE r
  BY <1>1, <1>2, OneMore
<1> QED
  BY <1>3, <1>4, <1>5, <1>6 DEF Goes

-----------------------------------------------------------------------------
(* The session's use of the catalog: each of its steps is a request of the *)
(* catalog or leaves it alone.                                             *)

Requests ==
  \/ \E t \in Tables, u \in Uris : Commit(t, u)
  \/ \E j \in Jobs : ClaimJob(j) \/ CompleteJob(j) \/ FailJob(j) \/ TriggerJob(j)
                     \/ DeleteJob(j)
  \/ \E S \in SUBSET Jobs : ResetOrphanedJobs(S) \/ ResetJobsPending(S)

LEMMA HandlerRequests ==
  ASSUME Shape, NEW i \in DOMAIN handlers
  PROVE  /\ Claim(i) \/ ClaimFailed(i) \/ ReadSpec(i) \/ CommitOutput(i) \/ Collect(i)
              => Requests \/ UNCHANGED catalogVars
         /\ ResetOrphaned(i) \/ ListAndSend(i) \/ Complete(i) \/ Fail(i) \/ Requeue(i)
              \/ Push(i) \/ PushList(i) \/ CallFails(i)
              => Requests \/ UNCHANGED catalogVars
<1> DEFINE h == handlers[i]
<1>1. h \in Handler
  BY DEF Shape
<1>2. /\ h.at \in {"claim", "complete", "fail"} => h.j \in Jobs
      /\ h.at = "commit" => h.table \in Tables
      /\ h.at \in {"reset", "requeue"} => h.ids \in SUBSET Jobs
  <2>1. /\ h.at = "claim" => h \in Claiming
        /\ h.at \in {"complete", "fail"} => h \in Reporting
        /\ h.at = "commit" => h \in Committing
        /\ h.at = "reset" => h \in Resetting
        /\ h.at = "requeue" => h \in Requeuing
    BY <1>1, HandlerAt
  <2> QED
    BY <2>1 DEF Claiming, Reporting, Committing, Resetting, Requeuing
<1>3. Claim(i) => Requests \/ UNCHANGED catalogVars
  BY <1>2 DEF Claim, Calls, Requests
<1>4. CommitOutput(i) => Requests
  BY <1>2 DEF CommitOutput, Calls, Requests
<1>5. ResetOrphaned(i) \/ Requeue(i) => Requests
  BY <1>2 DEF ResetOrphaned, Requeue, Calls, Requests
<1>6. Complete(i) \/ Fail(i) => Requests \/ UNCHANGED catalogVars
  BY <1>2 DEF Complete, Fail, Calls, Requests
<1>7. ClaimFailed(i) \/ ReadSpec(i) \/ Collect(i) \/ ListAndSend(i) \/ Push(i)
        \/ PushList(i) \/ CallFails(i) => UNCHANGED catalogVars
  BY DEF ClaimFailed, ReadSpec, Collect, ListAndSend, Push, PushList, CallFails
<1> QED
  BY <1>3, <1>4, <1>5, <1>6, <1>7

LEMMA StepRequests ==
  ASSUME Shape, [SessionNext]_vars
  PROVE  Requests \/ UNCHANGED catalogVars
<1>1. CASE HandlerNext
  BY <1>1, HandlerRequests DEF HandlerNext
<1>2. CASE BrowserNext
  BY <1>2 DEF BrowserNext, BrowserStart, BrowserFinish
<1>3. CASE MessageNext
  BY <1>3 DEF MessageNext, Close, ReceiveClaimed, ReceiveComplete, ReceiveError, Receive
<1>4. CASE OutsideNext
  <2>1. ASSUME NEW s \in Sockets, Connect(s) \/ Disconnect(s) \/ GoStale(s) \/ Ping(s)
        PROVE  UNCHANGED catalogVars
    BY <2>1 DEF Connect, Disconnect, GoStale, Ping
  <2>2. CASE Restart
    BY <2>2 DEF Restart
  <2>3. ASSUME NEW i \in DOMAIN handlers, CallFails(i)
        PROVE  UNCHANGED catalogVars
    BY <2>3 DEF CallFails
  <2>4. ASSUME NEW j \in Jobs, UserTrigger(j) \/ UserDelete(j)
        PROVE  Requests
    BY <2>4 DEF UserTrigger, UserDelete, Requests
  <2>5. ASSUME NEW t \in Tables, UserCommit(t)
        PROVE  Requests
    BY <2>5 DEF UserCommit, Requests
  <2> QED
    BY <1>4, <2>1, <2>2, <2>3, <2>4, <2>5 DEF OutsideNext
<1>5. CASE UNCHANGED vars
  BY <1>5 DEF vars
<1> QED
  BY <1>1, <1>2, <1>3, <1>4, <1>5 DEF SessionNext

LEMMA RequestsAreCatalogs == Requests => Next
BY DEF Requests, Next, TableNext, JobNext

LEMMA SessionStepUsesCatalog ==
  ASSUME Shape, [SessionNext]_vars
  PROVE  [Next]_catalogVars
BY StepRequests, RequestsAreCatalogs

-----------------------------------------------------------------------------
(* Types.                                                                  *)

LEMMA SessionInitTyped == SessionInit => TypeOK /\ Shape
<1> SUFFICES ASSUME SessionInit
             PROVE  TypeOK /\ Shape
  OBVIOUS
<1>1. TypeOK
  <2>1. 1 \in Time /\ 0 \in 0 .. MaxTime
    BY CatalogAssumption DEF Time
  <2>2. now \in Time /\ snapshots \in Seq(Snapshot)
        /\ tables \in [Tables -> {"absent", "live", "deleted"}]
    BY <2>1 DEF SessionInit
  <2>3. DOMAIN jobs = Jobs /\ jobs \in [DOMAIN jobs -> JobRow]
    BY <2>1 DEF SessionInit, JobRow
  <2>4. DOMAIN triggers \subseteq Triggers /\ triggers \in [DOMAIN triggers -> Trigger]
    BY <2>1, SessionAssumption DEF SessionInit, Trigger
  <2> QED
    BY <2>2, <2>3, <2>4 DEF TypeOK
<1>2. Connections /\ Rest /\ handlers \in Seq(Handler)
  <2>1. Connections
    BY DEF SessionInit, Connections
  <2>2. calm = FALSE /\ events = MaxEvents /\ owner = [j \in Jobs |-> None] /\ slips = {}
    BY DEF SessionInit
  <2>3. events \in 0..MaxEvents
    BY <2>2, SessionAssumption
  <2>4. owner \in [Jobs -> Sockets \cup {None}]
    BY <2>2
  <2>5. handlers \in Seq(Handler)
    BY DEF SessionInit
  <2> QED
    BY <2>1, <2>2, <2>3, <2>4, <2>5 DEF Rest
<1>3. Channels
  BY DEF SessionInit, Channels, EmptyBag, SetToBag
<1> QED
  BY <1>1, <1>2, <1>3 DEF Shape

(* What remains the same or typed of the history.                           *)
HistoryTyped ==
  /\ calm' \in BOOLEAN /\ events' \in 0..MaxEvents
  /\ slips' \subseteq {"write-back", "copy", "close"}

LEMMA OwnersTyped ==
  ASSUME Rest
  PROVE  /\ KeepOwner => owner' \in [Jobs -> Sockets \cup {None}]
         /\ \A S : Release(S) => owner' \in [Jobs -> Sockets \cup {None}]
         /\ Quiet => HistoryTyped
         /\ \A way, condition :
              Slip(way, condition) /\ way \in {"write-back", "copy", "close"} => HistoryTyped
         /\ \A kind : Disturb(kind) => HistoryTyped
<1>1. KeepOwner => owner' \in [Jobs -> Sockets \cup {None}]
  BY DEF Rest, KeepOwner
<1>2. \A S : Release(S) => owner' \in [Jobs -> Sockets \cup {None}]
  BY DEF Rest, Release
<1>3. Quiet => HistoryTyped
  BY DEF Rest, Quiet, HistoryTyped
<1>4. ASSUME NEW way, NEW condition, Slip(way, condition),
             way \in {"write-back", "copy", "close"}
      PROVE  HistoryTyped
  BY <1>4 DEF Rest, Slip, HistoryTyped
<1>5. ASSUME NEW kind, Disturb(kind)
      PROVE  HistoryTyped
  <2>1. calm' = FALSE /\ slips' = slips
    BY <1>5 DEF Disturb
  <2>2. events > 0 /\ events' = events - 1 /\ events \in 0..MaxEvents
    BY <1>5 DEF Disturb, Rest
  <2>3. events' \in 0..MaxEvents
    BY <2>2, SessionAssumption
  <2> QED
    BY <2>1, <2>3 DEF HistoryTyped, Rest
<1> QED
  BY <1>1, <1>2, <1>3, <1>4, <1>5

LEMMA MessagesSent ==
  ASSUME Channels, NEW s \in Sockets, NEW S, S \subseteq Jobs, Send(s, S)
  PROVE  DOMAIN down' \subseteq Sockets \X Jobs
<1>1. down' = down \/ down' = down (+) SetToBag({s} \X S)
  BY DEF Send
<1>2. DOMAIN (down (+) SetToBag({s} \X S)) = DOMAIN down \cup ({s} \X S)
  BY DEF (+), SetToBag
<1>3. {s} \X S \subseteq Sockets \X Jobs
  OBVIOUS
<1> QED
  BY <1>1, <1>2, <1>3 DEF Channels

LEMMA PendingAreJobs ==
  ASSUME TypeOK, NEW T
  PROVE  InStatus(T) \subseteq Jobs
BY DEF InStatus, TypeOK

LEMMA ClaimedAreJobs ==
  ASSUME Connections
  PROVE  ClaimedByLive \subseteq Jobs
BY DEF Connections, ClaimedByLive

(* A handler that continues or ends.                                       *)
LEMMA HandlerStepTyped ==
  ASSUME TypeOK, Shape, NEW i \in DOMAIN handlers,
         \/ Claim(i) \/ ClaimFailed(i) \/ ReadSpec(i) \/ CommitOutput(i)
         \/ Collect(i) \/ ResetOrphaned(i) \/ ListAndSend(i) \/ Complete(i)
         \/ Fail(i) \/ Requeue(i) \/ Push(i) \/ PushList(i) \/ CallFails(i)
  PROVE  \E new \in SUBSET Handler : Goes(new)
<1> DEFINE h == handlers[i]
<1>1. h \in Handler /\ handlers \in Seq(Handler)
  BY DEF Shape
<1>2. Continue(i, <<>>) => Goes({})
  BY <1>1, HandlerEnds
<1>3. \A r \in Handler : Continue(i, <<r>>) => Goes({r})
  BY <1>1, HandlerContinues
<1>4. CASE Claim(i)
  <2>1. h \in Claiming
    BY <1>1, <1>4, HandlerAt DEF Claim, Calls
  <2>2. PICK r : r = [h EXCEPT !.at = "claimFailed"]
    OBVIOUS
  <2>3. r \in Handler
    BY <2>1, <2>2 DEF Claiming, Handler
  <2>4. Continue(i, <<>>) \/ Continue(i, <<r>>)
    BY <1>4, <2>2 DEF Claim
  <2> QED
    BY <1>2, <1>3, <2>3, <2>4
<1>5. CASE ClaimFailed(i) \/ Complete(i) \/ Fail(i) \/ Requeue(i) \/ PushList(i)
  <2>1. Continue(i, <<>>)
    BY <1>5 DEF ClaimFailed, Complete, Fail, Requeue, PushList
  <2> QED
    BY <1>2, <2>1
<1>6. CASE ReadSpec(i)
  <2>1. h \in Reporting
    BY <1>1, <1>6, HandlerAt DEF ReadSpec, Calls
  <2>2. PICK r : r = [h EXCEPT !.at = "complete"]
    OBVIOUS
  <2>3. r \in Handler
    BY <2>1, <2>2 DEF Reporting, Handler
  <2>4. PICK q : q = [at |-> "commit", s |-> h.s, j |-> h.j, table |-> jobs[h.j].output_table]
    OBVIOUS
  <2>5. h.j \in DOMAIN jobs => q \in Handler
    <3> SUFFICES ASSUME h.j \in DOMAIN jobs
                 PROVE  q \in Handler
      OBVIOUS
    <3>1. jobs[h.j].output_table \in Tables
      BY DEF TypeOK, JobRow
    <3> QED
      BY <2>1, <2>4, <3>1 DEF Reporting, Committing, Handler
  <2>6. \/ h.j \in DOMAIN jobs /\ Continue(i, <<q>>)
        \/ Continue(i, <<r>>)
    BY <1>6, <2>2, <2>4 DEF ReadSpec
  <2> QED
    BY <1>3, <2>3, <2>5, <2>6
<1>7. CASE CommitOutput(i)
  <2>1. h \in Committing
    BY <1>1, <1>7, HandlerAt DEF CommitOutput, Calls
  <2>2. PICK r : r = [at |-> IF jobs' = jobs THEN "complete" ELSE "collect",
                      s |-> h.s, j |-> h.j]
    OBVIOUS
  <2>3. r \in Handler
    BY <2>1, <2>2 DEF Committing, Reporting, Handler
  <2>4. Continue(i, <<r>>)
    BY <1>7, <2>2 DEF CommitOutput
  <2> QED
    BY <1>3, <2>3, <2>4
<1>8. CASE Collect(i)
  <2>1. h \in Reporting
    BY <1>1, <1>8, HandlerAt DEF Collect, Resumes
  <2>2. PICK r : r = [at |-> "reset", s |-> h.s, j |-> h.j, ids |-> ClaimedByLive]
    OBVIOUS
  <2>3. r \in Handler
    <3>1. ClaimedByLive \in SUBSET Jobs
      BY ClaimedAreJobs DEF Shape
    <3> QED
      BY <2>1, <2>2, <3>1 DEF Reporting, Resetting, Handler
  <2>4. Continue(i, <<r>>)
    BY <1>8, <2>2 DEF Collect
  <2> QED
    BY <1>3, <2>3, <2>4
<1>9. CASE ResetOrphaned(i)
  <2>1. h \in Resetting
    BY <1>1, <1>9, HandlerAt DEF ResetOrphaned, Calls
  <2>2. PICK r : r = [at |-> "list", s |-> h.s, j |-> h.j]
    OBVIOUS
  <2>3. r \in Handler
    BY <2>1, <2>2 DEF Resetting, Listing, Handler
  <2>4. Continue(i, <<r>>)
    BY <1>9, <2>2 DEF ResetOrphaned
  <2> QED
    BY <1>3, <2>3, <2>4
<1>10. CASE ListAndSend(i)
  <2>1. h \in Listing
    BY <1>1, <1>10, HandlerAt DEF ListAndSend, Calls
  <2>2. PICK r : r = [h EXCEPT !.at = "complete"]
    OBVIOUS
  <2>3. h.j # None => r \in Handler
    BY <2>1, <2>2 DEF Listing, Reporting, Handler
  <2>4. Continue(i, <<>>) \/ (h.j # None /\ Continue(i, <<r>>))
    BY <1>10, <2>2 DEF ListAndSend
  <2> QED
    BY <1>2, <1>3, <2>3, <2>4
<1>11. CASE Push(i)
  <2>1. h \in Pushing /\ h.at = "push"
    BY <1>1, <1>11, HandlerAt DEF Push, Resumes
  <2>2. ASSUME NEW s \in Sockets
        PROVE  [h EXCEPT !.at = "pushList", !.s = s] \in Handler
    BY <2>1 DEF Pushing, Handler
  <2>3. \/ Continue(i, <<>>)
        \/ \E s \in Sockets : Continue(i, <<[h EXCEPT !.at = "pushList", !.s = s]>>)
    BY <1>11 DEF Push
  <2> QED
    BY <1>2, <1>3, <2>2, <2>3
<1>12. CASE CallFails(i)
  <2>1. PICK r : r = [at |-> "complete", s |-> h.s, j |-> h.j]
    OBVIOUS
  <2>2. h.at \in {"spec", "reset", "list"} /\ h.j # None => r \in Handler
    <3>1. /\ h.at = "spec" => h \in Reporting
          /\ h.at = "reset" => h \in Resetting
          /\ h.at = "list" => h \in Listing
      BY <1>1, HandlerAt
    <3> QED
      BY <2>1, <3>1 DEF Reporting, Resetting, Listing, Handler
  <2>3. \/ Continue(i, <<>>)
        \/ h.at \in {"spec", "reset", "list"} /\ h.j # None /\ Continue(i, <<r>>)
    BY <1>12, <2>1 DEF CallFails
  <2> QED
    BY <1>2, <1>3, <2>2, <2>3
<1> QED
  BY <1>4, <1>5, <1>6, <1>7, <1>8, <1>9, <1>10, <1>11, <1>12

(* Of the connections and channels, a handler changes what it sends and    *)
(* the attachment of the socket whose claim was refused.                   *)
LEMMA HandlerStepShape ==
  ASSUME TypeOK, Shape, NEW i \in DOMAIN handlers,
         \/ Claim(i) \/ ClaimFailed(i) \/ ReadSpec(i) \/ CommitOutput(i)
         \/ Collect(i) \/ ResetOrphaned(i) \/ ListAndSend(i) \/ Complete(i)
         \/ Fail(i) \/ Requeue(i) \/ Push(i) \/ PushList(i) \/ CallFails(i)
  PROVE  Shape'
<1> DEFINE h == handlers[i]
<1>1. h \in Handler
  BY DEF Shape
<1>2. handlers' \in Seq(Handler)
  BY HandlerStepTyped DEF Goes
<1>3. Connections'
  <2>1. CASE UNCHANGED sessionVars
    BY <2>1 DEF sessionVars, Shape, Connections
  <2>2. CASE ClaimFailed(i)
    <3>1. h \in Claiming
      BY <1>1, <2>2, HandlerAt DEF ClaimFailed, Resumes
    <3>2. h.s \in Sockets /\ h.ids \ {h.j} \in SUBSET Jobs /\ h.fresh \in BOOLEAN
      BY <3>1 DEF Claiming
    <3>3. conn' = conn
      BY <2>2 DEF ClaimFailed
    <3>4. \/ UNCHANGED <<inflight, fresh>>
          \/ /\ inflight' = [inflight EXCEPT ![h.s] = h.ids \ {h.j}]
             /\ fresh' = [fresh EXCEPT ![h.s] = h.fresh]
      BY <2>2 DEF ClaimFailed
    <3>5. fresh' \in [Sockets -> BOOLEAN]
      BY <3>2, <3>4 DEF Shape, Connections
    <3>6. inflight' \in [Sockets -> SUBSET Jobs]
      BY <3>2, <3>4 DEF Shape, Connections
    <3> QED
      BY <3>3, <3>5, <3>6 DEF Shape, Connections
  <2> QED
    BY <2>1, <2>2 DEF Claim, ReadSpec, CommitOutput, Collect, ResetOrphaned,
       ListAndSend, Complete, Fail, Requeue, Push, PushList, CallFails
<1>4. Channels'
  <2>1. CASE UNCHANGED channelVars
    BY <2>1 DEF channelVars, Shape, Channels
  <2>2. CASE ListAndSend(i) \/ PushList(i)
    <3>1. h.s \in Sockets
      <4>1. h \in Listing \/ (h \in Pushing /\ h.at = "pushList")
        BY <1>1, <2>2, HandlerAt DEF ListAndSend, PushList, Calls
      <4> QED
        BY <4>1 DEF Listing, Pushing
    <3>2. InStatus({"pending"}) \subseteq Jobs
      BY PendingAreJobs
    <3>3. Send(h.s, InStatus({"pending"})) \/ Send(h.s, InStatus({"pending"}) \cap h.ids)
      BY <2>2 DEF ListAndSend, PushList
    <3>4. DOMAIN down' \subseteq Sockets \X Jobs
      BY <3>1, <3>2, <3>3, MessagesSent DEF Shape
    <3> QED
      BY <2>2, <3>4 DEF ListAndSend, PushList, Shape, Channels
  <2> QED
    BY <2>1, <2>2 DEF Claim, ClaimFailed, ReadSpec, CommitOutput, Collect, ResetOrphaned,
       Complete, Fail, Requeue, Push, CallFails
<1>5. Rest'
  <2>1. HistoryTyped
    <3>1. CASE ClaimFailed(i)
      <4>1. \E condition : Slip("write-back", condition)
        BY <3>1 DEF ClaimFailed
      <4> QED
        BY <4>1, OwnersTyped DEF Shape
    <3>2. CASE ListAndSend(i) \/ PushList(i)
      <4>1. \E condition : Slip("copy", condition)
        BY <3>2 DEF ListAndSend, PushList
      <4> QED
        BY <4>1, OwnersTyped DEF Shape
    <3>3. CASE Quiet \/ Disturb("fault")
      BY <3>3, OwnersTyped DEF Shape
    <3> QED
      BY <3>1, <3>2, <3>3 DEF Claim, ReadSpec, CommitOutput, Collect, ResetOrphaned,
         Complete, Fail, Requeue, Push, CallFails
  <2>2. owner' \in [Jobs -> Sockets \cup {None}]
    <3>1. CASE owner' = owner \/ KeepOwner
      BY <3>1, OwnersTyped DEF Shape, Rest
    <3>2. CASE Claim(i)
      <4>1. h \in Claiming
        BY <1>1, <3>2, HandlerAt DEF Claim, Calls
      <4>2. h.s \in Sockets
        BY <4>1 DEF Claiming
      <4>3. \/ owner' = owner
            \/ owner' = [owner EXCEPT ![h.j] = IF conn[h.s] = "none" THEN None ELSE h.s]
        BY <3>2 DEF Claim
      <4> QED
        BY <4>2, <4>3 DEF Shape, Rest
    <3> QED
      BY <3>1, <3>2 DEF ClaimFailed, ReadSpec, CommitOutput, Collect, ResetOrphaned,
         ListAndSend, Complete, Fail, Requeue, Push, PushList, CallFails
  <2> QED
    BY <2>1, <2>2 DEF Shape, Rest, HistoryTyped
<1> QED
  BY <1>2, <1>3, <1>4, <1>5 DEF Shape

(* The tab announces a claim, then an end.                                 *)
LEMMA BrowserStepShape ==
  ASSUME Shape, BrowserNext
  PROVE  Shape'
<1> SUFFICES ASSUME NEW s \in Sockets, NEW j \in Jobs,
                    BrowserStart(s, j)
                      \/ \E type \in {"complete", "error"} : BrowserFinish(s, j, type)
             PROVE  Shape'
  BY DEF BrowserNext
<1>1. \E m \in Message : up' = [up EXCEPT ![s] = Append(@, m)]
  BY DEF BrowserStart, BrowserFinish, Message
<1>2. up' \in [Sockets -> Seq(Message)]
  BY <1>1 DEF Shape, Channels
<1>3. DOMAIN down' \subseteq Sockets \X Jobs /\ DOMAIN tasks' \subseteq Sockets \X Jobs
  <2>1. /\ DOMAIN BagRemove(down, <<s, j>>) \subseteq DOMAIN down
        /\ DOMAIN BagRemove(tasks, <<s, j>>) \subseteq DOMAIN tasks
    BY DEF BagRemove
  <2>2. DOMAIN BagAdd(tasks, <<s, j>>) \subseteq DOMAIN tasks \cup {<<s, j>>}
    BY DEF BagAdd
  <2>3. <<s, j>> \in Sockets \X Jobs
    OBVIOUS
  <2>4. CASE BrowserStart(s, j)
    <3>1. down' = BagRemove(down, <<s, j>>) /\ tasks' = BagAdd(tasks, <<s, j>>)
      BY <2>4 DEF BrowserStart
    <3> QED
      BY <2>1, <2>2, <2>3, <3>1 DEF Shape, Channels
  <2>5. CASE \E type \in {"complete", "error"} : BrowserFinish(s, j, type)
    <3>1. down' = down /\ tasks' = BagRemove(tasks, <<s, j>>)
      BY <2>5 DEF BrowserFinish
    <3> QED
      BY <2>1, <3>1 DEF Shape, Channels
  <2> QED
    BY <2>4, <2>5
<1>4. UNCHANGED <<conn, inflight, fresh, handlers, owner, calm, slips, events>>
  BY DEF BrowserStart, BrowserFinish, sessionVars, Quiet
<1> QED
  BY <1>2, <1>3, <1>4 DEF Shape, Connections, Channels, Rest

(* What the session DO receives.                                           *)
LEMMA HeadIsMessage ==
  ASSUME Channels, NEW s \in Sockets, up[s] # <<>>
  PROVE  Head(up[s]) \in Message /\ Tail(up[s]) \in Seq(Message)
BY DEF Channels

LEMMA ReceivedShape ==
  ASSUME Shape, NEW s \in Sockets, NEW type, NEW ids \in SUBSET Jobs, NEW r \in Handler,
         Receive(s, type, ids, r)
  PROVE  Shape' /\ Goes({r})
<1>1. Goes({r})
  BY OneStarts DEF Receive, Shape
<1>2. up' \in [Sockets -> Seq(Message)]
  BY HeadIsMessage DEF Receive, Shape, Channels
<1>3. inflight' \in [Sockets -> SUBSET Jobs]
  BY DEF Receive, Shape, Connections
<1>4. UNCHANGED <<conn, fresh, down, tasks, owner, calm, slips, events>>
  BY DEF Receive, Quiet
<1> QED
  BY <1>1, <1>2, <1>3, <1>4 DEF Shape, Connections, Channels, Rest, Goes

LEMMA MessageStepShape ==
  ASSUME Shape, MessageNext
  PROVE  /\ Shape'
         /\ \E new \in SUBSET Handler :
              Goes(new) /\ \A r \in new : r.at \in {"requeue", "claim", "spec", "fail"}
<1> SUFFICES ASSUME NEW s \in Sockets,
                    Close(s) \/ ReceiveClaimed(s) \/ ReceiveComplete(s) \/ ReceiveError(s)
             PROVE  /\ Shape'
                    /\ \E new \in SUBSET Handler :
                         Goes(new) /\ \A r \in new : r.at \in {"requeue", "claim", "spec", "fail"}
  BY DEF MessageNext
<1>0. inflight[s] \in SUBSET Jobs /\ fresh[s] \in BOOLEAN
  BY DEF Shape, Connections
<1>1. CASE Close(s)
  <2>1. PICK r : r = [at |-> "requeue", s |-> s, ids |-> inflight[s]]
    OBVIOUS
  <2>2. r \in Handler /\ r.at = "requeue"
    BY <1>0, <2>1 DEF Requeuing, Handler
  <2>3. Start(<<>>) \/ Start(<<r>>)
    BY <1>1, <2>1 DEF Close
  <2>4. Goes({}) \/ Goes({r})
    BY <2>2, <2>3, NothingStarts, OneStarts DEF Shape
  <2>5. Connections'
    BY <1>1 DEF Close, Shape, Connections
  <2>6. Rest'
    <3>1. \E condition : Slip("close", condition)
      BY <1>1 DEF Close
    <3>2. HistoryTyped /\ Release({s})
      BY <1>1, <3>1, OwnersTyped DEF Close, Shape
    <3> QED
      BY <3>2, OwnersTyped DEF Shape, Rest, HistoryTyped
  <2>7. Channels'
    BY <1>1 DEF Close, Shape, Channels, channelVars
  <2>8. Shape'
    BY <2>4, <2>5, <2>6, <2>7 DEF Shape, Goes
  <2>9. {r} \in SUBSET Handler /\ \A q \in {r} : q.at \in {"requeue", "claim", "spec", "fail"}
    BY <2>2
  <2> QED
    BY <2>4, <2>8, <2>9
<1>2. ASSUME up[s] # <<>>
      PROVE  Head(up[s]).job \in Jobs
  <2>1. Head(up[s]) \in Message
    BY <1>2, HeadIsMessage DEF Shape
  <2> QED
    BY <2>1 DEF Message
<1> DEFINE j == Head(up[s]).job
<1>3. CASE ReceiveClaimed(s)
  <2>1. PICK ids : ids = inflight[s] \cup {j}
    OBVIOUS
  <2>2. PICK r : r = [at |-> "claim", s |-> s, j |-> j, ids |-> ids, fresh |-> fresh[s]]
    OBVIOUS
  <2>3. Receive(s, "claimed", ids, r)
    BY <1>3, <2>1, <2>2 DEF ReceiveClaimed
  <2>4. j \in Jobs
    BY <1>2, <2>3 DEF Receive
  <2>5. ids \in SUBSET Jobs /\ r \in Handler /\ r.at = "claim"
    BY <1>0, <2>1, <2>2, <2>4 DEF Claiming, Handler
  <2>6. Shape' /\ Goes({r})
    BY <2>3, <2>5, ReceivedShape
  <2>7. {r} \in SUBSET Handler /\ \A q \in {r} : q.at \in {"requeue", "claim", "spec", "fail"}
    BY <2>5
  <2> QED
    BY <2>6, <2>7
<1>4. CASE ReceiveComplete(s) \/ ReceiveError(s)
  <2>1. PICK q : q = [at |-> "spec", s |-> s, j |-> j]
    OBVIOUS
  <2>2. PICK r : r = [at |-> "fail", s |-> s, j |-> j]
    OBVIOUS
  <2>3. \/ Receive(s, "complete", inflight[s] \ {j}, q)
        \/ Receive(s, "error", inflight[s] \ {j}, r)
    BY <1>4, <2>1, <2>2 DEF ReceiveComplete, ReceiveError
  <2>4. j \in Jobs
    BY <1>2, <2>3 DEF Receive
  <2>5. q \in Handler /\ q.at = "spec" /\ r \in Handler /\ r.at = "fail"
    BY <2>1, <2>2, <2>4 DEF Reporting, Handler
  <2>6. inflight[s] \ {j} \in SUBSET Jobs
    BY <1>0
  <2>7. Shape' /\ (Goes({q}) \/ Goes({r}))
    BY <2>3, <2>5, <2>6, ReceivedShape
  <2>8. \A new \in {{q}, {r}} :
          new \in SUBSET Handler /\ \A x \in new : x.at \in {"requeue", "claim", "spec", "fail"}
    BY <2>5
  <2> QED
    BY <2>7, <2>8
<1> QED
  BY <1>1, <1>3, <1>4

(* What happens from outside.  A handler that starts waits to dispatch.    *)
LEMMA WithoutSocket ==
  ASSUME NEW B, NEW s
  PROVE  DOMAIN Without(B, s) \subseteq DOMAIN B
BY DEF Without

LEMMA ConnectShape ==
  ASSUME Shape, NEW s \in Sockets, Connect(s)
  PROVE  Shape' /\ Goes({[at |-> "reset", s |-> s, j |-> None, ids |-> ClaimedByLive]})
<1>1. PICK r : r = [at |-> "reset", s |-> s, j |-> None, ids |-> ClaimedByLive]
  OBVIOUS
<1>2. ClaimedByLive \in SUBSET Jobs
  BY ClaimedAreJobs DEF Shape
<1>3. r \in Handler
  BY <1>1, <1>2 DEF Resetting, Handler
<1>4. Goes({r})
  BY <1>1, <1>3, OneStarts DEF Connect, Shape
<1>5. Connections'
  BY DEF Connect, Shape, Connections
<1>6. Channels'
  BY DEF Connect, Shape, Channels, channelVars
<1>7. Rest'
  <2>1. events > 0 /\ events' = events - 1 /\ events \in 0..MaxEvents
    BY DEF Connect, Shape, Rest
  <2>2. events' \in 0..MaxEvents
    BY <2>1, SessionAssumption
  <2>3. calm' \in BOOLEAN /\ owner' = owner /\ slips' = slips
    BY DEF Connect
  <2> QED
    BY <2>2, <2>3 DEF Shape, Rest
<1> QED
  BY <1>1, <1>4, <1>5, <1>6, <1>7 DEF Shape, Goes

(* Going stale only marks the handlers' copies of the attachment.          *)
LEMMA StaleHandlers ==
  ASSUME Shape, NEW s \in Sockets, GoStale(s)
  PROVE  /\ handlers' \in Seq(Handler) /\ DOMAIN handlers' = DOMAIN handlers
         /\ \A k \in DOMAIN handlers :
              \/ handlers'[k] = handlers[k]
              \/ handlers'[k].at \in {"claim", "claimFailed"}
<1> DEFINE Old(k) == handlers[k].at \in {"claim", "claimFailed"} /\ handlers[k].s = s
           New(k) == IF Old(k) THEN [handlers[k] EXCEPT !.fresh = FALSE] ELSE handlers[k]
<1>1. DOMAIN handlers = 1 .. Len(handlers) /\ Len(handlers) \in Nat
  BY DEF Shape
<1>2. handlers' = [k \in 1 .. Len(handlers) |-> New(k)]
  BY <1>1 DEF GoStale
<1>3. ASSUME NEW k \in 1 .. Len(handlers)
      PROVE  /\ New(k) \in Handler
             /\ New(k) = handlers[k] \/ New(k).at \in {"claim", "claimFailed"}
  <2>1. handlers[k] \in Handler
    BY <1>1 DEF Shape
  <2>2. CASE Old(k)
    <3>1. handlers[k] \in Claiming
      BY <2>1, <2>2, HandlerAt
    <3>2. PICK r : r = [handlers[k] EXCEPT !.fresh = FALSE]
      OBVIOUS
    <3>3. r \in Claiming
      BY <3>1, <3>2 DEF Claiming
    <3>4. r \in Handler /\ r.at \in {"claim", "claimFailed"}
      BY <3>3 DEF Claiming, Handler
    <3>5. New(k) = r
      BY <2>2, <3>2
    <3> QED
      BY <3>4, <3>5
  <2>3. CASE ~ Old(k)
    BY <2>1, <2>3
  <2> QED
    BY <2>2, <2>3
<1> HIDE DEF New, Old
<1> QED
  BY <1>1, <1>2, <1>3

LEMMA SocketStepShape ==
  ASSUME Shape, NEW s \in Sockets, Disconnect(s) \/ GoStale(s) \/ Ping(s)
  PROVE  Shape'
<1>1. CASE Disconnect(s)
  <2>1. Connections' /\ handlers' = handlers
    BY <1>1 DEF Disconnect, Shape, Connections
  <2>2. Rest'
    BY <1>1, OwnersTyped DEF Disconnect, Shape, Rest, HistoryTyped
  <2>3. DOMAIN down' \subseteq Sockets \X Jobs /\ DOMAIN tasks' \subseteq Sockets \X Jobs
    BY <1>1, WithoutSocket DEF Disconnect, Shape, Channels
  <2>4. PICK n \in 0 .. Len(up[s]) : up' = [up EXCEPT ![s] = SubSeq(@, 1, n)]
    BY <1>1 DEF Disconnect
  <2>5. SubSeq(up[s], 1, n) \in Seq(Message)
    BY DEF Shape, Channels
  <2>6. up' \in [Sockets -> Seq(Message)]
    BY <2>4, <2>5 DEF Shape, Channels
  <2> QED
    BY <2>1, <2>2, <2>3, <2>6 DEF Shape, Channels
<1>2. CASE GoStale(s)
  <2>1. Connections' /\ UNCHANGED <<down, tasks, up, owner, slips, events>> /\ calm' = FALSE
    BY <1>2 DEF GoStale, Shape, Connections, channelVars
  <2>2. handlers' \in Seq(Handler)
    BY <1>2, StaleHandlers
  <2> QED
    BY <2>1, <2>2 DEF Shape, Channels, Rest
<1>3. CASE Ping(s)
  <2>1. /\ Connections'
        /\ UNCHANGED <<handlers, down, tasks, up, owner, events, calm, slips>>
    BY <1>3 DEF Ping, Shape, Connections, channelVars, Quiet
  <2> QED
    BY <2>1 DEF Shape, Channels, Rest
<1> QED
  BY <1>1, <1>2, <1>3

LEMMA RestartShape ==
  ASSUME Shape, Restart
  PROVE  Shape' /\ handlers' = <<>>
<1>1. Connections' /\ handlers' = <<>> /\ handlers' \in Seq(Handler)
  BY DEF Restart, Connections
<1>2. Channels'
  BY DEF Restart, Channels, EmptyBag, SetToBag
<1>3. Rest'
  BY OwnersTyped DEF Restart, Shape, Rest, HistoryTyped
<1> QED
  BY <1>1, <1>2, <1>3 DEF Shape

LEMMA UserStepShape ==
  ASSUME TypeOK, Shape,
         \/ \E j \in Jobs : UserTrigger(j) \/ UserDelete(j)
         \/ \E t \in Tables : UserCommit(t)
  PROVE  /\ Shape'
         /\ \E new \in SUBSET Handler : Goes(new) /\ \A r \in new : r.at = "push"
<1>1. PICK r : r = [at |-> "push", s |-> None, ids |-> Jobs]
  OBVIOUS
<1>2. PICK q : q = [at |-> "push", s |-> None,
                    ids |-> {j \in DOMAIN jobs : jobs'[j] # jobs[j]}]
  OBVIOUS
<1>3. DOMAIN jobs \subseteq Jobs
  BY DEF TypeOK
<1>4. {r} \in SUBSET Handler /\ {q} \in SUBSET Handler /\ r.at = "push" /\ q.at = "push"
  BY <1>1, <1>2, <1>3 DEF Pushing, Handler
<1>5. Start(<<r>>) \/ Start(<<q>>) \/ Start(<<>>) \/ handlers' = handlers
  BY <1>1, <1>2 DEF UserTrigger, UserDelete, UserCommit
<1>6. Goes({r}) \/ Goes({q}) \/ Goes({})
  <2>1. handlers' = handlers => Start(<<>>)
    BY DEF Start, Shape
  <2> QED
    BY <1>4, <1>5, <2>1, OneStarts, NothingStarts DEF Shape
<1>7. /\ UNCHANGED <<conn, inflight, fresh, down, tasks, up>>
      /\ owner' = owner \/ KeepOwner
      /\ \E kind : Disturb(kind)
  BY DEF UserTrigger, UserDelete, UserCommit, sessionVars, channelVars
<1>8. Connections' /\ Channels'
  BY <1>7 DEF Shape, Connections, Channels
<1>9. Rest'
  BY <1>7, OwnersTyped DEF Shape, Rest, HistoryTyped
<1>10. \A new \in {{r}, {q}, {}} : new \in SUBSET Handler /\ \A x \in new : x.at = "push"
  BY <1>4
<1> QED
  BY <1>6, <1>8, <1>9, <1>10 DEF Shape, Goes

LEMMA SessionStepShape ==
  ASSUME TypeOK, Shape, [SessionNext]_vars
  PROVE  TypeOK' /\ Shape'
<1>0. TypeOK'
  BY SessionStepUsesCatalog, CatalogStepTyped
<1> SUFFICES Shape'
  BY <1>0
<1>1. CASE HandlerNext
  BY <1>1, HandlerStepShape DEF HandlerNext
<1>2. CASE BrowserNext
  BY <1>2, BrowserStepShape
<1>3. CASE MessageNext
  BY <1>3, MessageStepShape
<1>4. CASE OutsideNext
  <2>1. ASSUME NEW s \in Sockets, Connect(s)
        PROVE  Shape'
    BY <2>1, ConnectShape
  <2>2. ASSUME NEW s \in Sockets, Disconnect(s) \/ GoStale(s) \/ Ping(s)
        PROVE  Shape'
    BY <2>2, SocketStepShape
  <2>3. CASE Restart
    BY <2>3, RestartShape
  <2>4. ASSUME NEW i \in DOMAIN handlers, CallFails(i)
        PROVE  Shape'
    BY <2>4, HandlerStepShape
  <2>5. CASE \/ \E j \in Jobs : UserTrigger(j) \/ UserDelete(j)
             \/ \E t \in Tables : UserCommit(t)
    BY <2>5, UserStepShape
  <2> QED
    BY <1>4, <2>1, <2>2, <2>3, <2>4, <2>5 DEF OutsideNext
<1>5. CASE UNCHANGED vars
  BY <1>5 DEF vars, sessionVars, channelVars, Shape, Connections, Channels, Rest
<1> QED
  BY <1>1, <1>2, <1>3, <1>4, <1>5 DEF SessionNext

(* The types of the session's variables, whatever handlers interleave.     *)
THEOREM SessionTypeCorrect == SessionSpec => []SessionTypeOK
<1>1. SessionInit => TypeOK /\ Shape
  BY SessionInitTyped
<1>2. TypeOK /\ Shape /\ [SessionNext]_vars => TypeOK' /\ Shape'
  BY SessionStepShape
<1>3. TypeOK /\ Shape => SessionTypeOK
  BY ShapeTypes
<1> QED
  BY <1>1, <1>2, <1>3, PTL DEF SessionSpec

-----------------------------------------------------------------------------
(* A job that is reported done has been committed.                         *)

Committed == {snapshots[i].table : i \in DOMAIN snapshots}

(* A handler that has left getJobSpec behind knows the job's table and has *)
(* committed to it when it goes on; but the job may be gone.  D are the    *)
(* jobs that there are, T the tables with a commit.                        *)
Vouched(h, D, T) ==
  /\ h.at = "commit" => h.table = OutputTable[h.j]
  /\ h.at \in {"collect", "reset", "list", "complete"} /\ h.j # None
       => h.j \notin D \/ OutputTable[h.j] \in T

OutputsKept == \A j \in DOMAIN jobs : jobs[j].output_table = OutputTable[j]
DoneCommitted == \A j \in InStatus({"done"}) : OutputTable[j] \in Committed
AllVouched == \A k \in DOMAIN handlers : Vouched(handlers[k], DOMAIN jobs, Committed)

Vouching == OutputsKept /\ DoneCommitted /\ AllVouched

(* getJobSpec is answered.  The code catches its failure and goes on to    *)
(* report the job complete (README, section 3).                            *)
SpecIsAnswered == \A i \in DOMAIN handlers : handlers[i].at = "spec" => ~ CallFails(i)

(* What the catalog's requests leave alone.                                *)
LEMMA RequestsKeep ==
  ASSUME TypeOK, Requests \/ UNCHANGED catalogVars
  PROVE  /\ DOMAIN jobs' \subseteq DOMAIN jobs
         /\ \A j \in DOMAIN jobs' : jobs'[j].output_table = jobs[j].output_table
         /\ Committed \subseteq Committed'
<1> DEFINE Keeps == /\ DOMAIN jobs' \subseteq DOMAIN jobs
                    /\ \A j \in DOMAIN jobs' : jobs'[j].output_table = jobs[j].output_table
                    /\ Committed \subseteq Committed'
<1>1. ASSUME NEW S, NEW x \in Status
      PROVE  /\ DOMAIN SetStatus(S, x) = DOMAIN jobs
             /\ \A j \in DOMAIN jobs : SetStatus(S, x)[j].output_table = jobs[j].output_table
  BY DEF SetStatus, TypeOK, JobRow
<1>2. ASSUME UNCHANGED snapshots
      PROVE  Committed \subseteq Committed'
  BY <1>2 DEF Committed
<1>3. ASSUME NEW t \in Tables, NEW u \in Uris, Commit(t, u)
      PROVE  Keeps
  <2>1. jobs' = SetStatus(Fired(t, snapshots'), "pending")
    BY <1>3 DEF Commit
  <2>2. /\ \A k \in DOMAIN snapshots : snapshots'[k] = snapshots[k]
        /\ DOMAIN snapshots \subseteq DOMAIN snapshots'
    BY <1>3, CommittedSnapshots
  <2>3. Committed \subseteq Committed'
    BY <2>2 DEF Committed
  <2> QED
    BY <1>1, <2>1, <2>3 DEF Status
<1>4. ASSUME NEW j \in Jobs, ClaimJob(j) \/ FailJob(j) \/ TriggerJob(j)
      PROVE  Keeps
  <2>1. (\E x \in Status : jobs' = SetStatus({j}, x)) /\ UNCHANGED snapshots
    BY <1>4 DEF ClaimJob, FailJob, TriggerJob, Status
  <2> QED
    BY <1>1, <1>2, <2>1
<1>5. ASSUME NEW j \in Jobs, CompleteJob(j)
      PROVE  Keeps
  <2>1. /\ DOMAIN jobs' = DOMAIN jobs /\ UNCHANGED snapshots
        /\ \A k \in DOMAIN jobs : jobs'[k].output_table = jobs[k].output_table
    BY <1>5 DEF CompleteJob, TypeOK, JobRow
  <2> QED
    BY <1>2, <2>1
<1>6. ASSUME NEW j \in Jobs, DeleteJob(j)
      PROVE  Keeps
  <2>1. /\ DOMAIN jobs' \subseteq DOMAIN jobs /\ UNCHANGED snapshots
        /\ \A k \in DOMAIN jobs' : jobs'[k] = jobs[k]
    BY <1>6 DEF DeleteJob
  <2> QED
    BY <1>2, <2>1
<1>7. ASSUME NEW S \in SUBSET Jobs, ResetOrphanedJobs(S) \/ ResetJobsPending(S)
      PROVE  Keeps
  <2>1. (\E T : jobs' = SetStatus(T, "pending")) /\ UNCHANGED snapshots
    BY <1>7 DEF ResetOrphanedJobs, ResetJobsPending
  <2> QED
    BY <1>1, <1>2, <2>1 DEF Status
<1>8. CASE UNCHANGED catalogVars
  BY <1>2, <1>8 DEF catalogVars
<1> QED
  BY <1>3, <1>4, <1>5, <1>6, <1>7, <1>8 DEF Requests

(* A job becomes done by POST /jobs/:id/complete only.                     *)
LEMMA DoneByComplete ==
  ASSUME TypeOK, Requests \/ UNCHANGED catalogVars, NEW j \in InStatus({"done"})'
  PROVE  j \in InStatus({"done"}) \/ CompleteJob(j)
<1>0. j \in DOMAIN jobs' /\ jobs'[j].status = "done"
  BY DEF InStatus
<1>1. ASSUME NEW S, NEW x \in Status \ {"done"}, jobs' = SetStatus(S, x)
      PROVE  j \in InStatus({"done"})
  BY <1>0, <1>1, SetStatusType DEF InStatus
<1>2. ASSUME NEW t \in Tables, NEW u \in Uris, Commit(t, u)
      PROVE  j \in InStatus({"done"})
  <2>1. jobs' = SetStatus(Fired(t, snapshots'), "pending")
    BY <1>2 DEF Commit
  <2> QED
    BY <1>1, <2>1 DEF Status
<1>3. ASSUME NEW k \in Jobs, ClaimJob(k) \/ FailJob(k) \/ TriggerJob(k)
      PROVE  j \in InStatus({"done"})
  <2>1. \E x \in Status \ {"done"} : jobs' = SetStatus({k}, x)
    BY <1>3 DEF ClaimJob, FailJob, TriggerJob, Status
  <2> QED
    BY <1>1, <2>1
<1>4. ASSUME NEW k \in Jobs, CompleteJob(k)
      PROVE  j \in InStatus({"done"}) \/ CompleteJob(j)
  <2>1. k \in DOMAIN jobs
    BY <1>4 DEF CompleteJob
  <2> QED
    BY <1>0, <1>4, <2>1, CompletedRow DEF InStatus
<1>5. ASSUME NEW k \in Jobs, DeleteJob(k)
      PROVE  j \in InStatus({"done"})
  BY <1>0, <1>5 DEF DeleteJob, InStatus
<1>6. ASSUME NEW S \in SUBSET Jobs, ResetOrphanedJobs(S) \/ ResetJobsPending(S)
      PROVE  j \in InStatus({"done"})
  <2>1. \E T : jobs' = SetStatus(T, "pending")
    BY <1>6 DEF ResetOrphanedJobs, ResetJobsPending
  <2> QED
    BY <1>1, <2>1 DEF Status
<1>7. CASE UNCHANGED catalogVars
  BY <1>0, <1>7 DEF catalogVars, InStatus
<1> QED
  BY <1>2, <1>3, <1>4, <1>5, <1>6, <1>7 DEF Requests

LEMMA VouchedStill ==
  ASSUME NEW h, NEW D, NEW T, NEW E \in SUBSET D, NEW U, T \subseteq U, Vouched(h, D, T)
  PROVE  Vouched(h, E, U)
BY DEF Vouched

(* It is enough to look at the handlers that are new.                      *)
LEMMA NewOnesVouch ==
  ASSUME TypeOK, Requests \/ UNCHANGED catalogVars, AllVouched, NEW new, Goes(new),
         \A r \in new : Vouched(r, DOMAIN jobs', Committed')
  PROVE  AllVouched'
<1>1. DOMAIN jobs' \in SUBSET DOMAIN jobs /\ Committed \subseteq Committed'
  BY RequestsKeep
<1>2. \A l \in DOMAIN handlers : Vouched(handlers[l], DOMAIN jobs', Committed')
  BY <1>1, VouchedStill DEF AllVouched
<1>3. \A k \in DOMAIN handlers' : Vouched(handlers'[k], DOMAIN jobs', Committed')
  BY <1>2 DEF Goes
<1> QED
  BY <1>3 DEF AllVouched

LEMMA HandlerVouches ==
  ASSUME TypeOK, Shape, Vouching, SpecIsAnswered, NEW i \in DOMAIN handlers,
         \/ Claim(i) \/ ClaimFailed(i) \/ ReadSpec(i) \/ CommitOutput(i)
         \/ Collect(i) \/ ResetOrphaned(i) \/ ListAndSend(i) \/ Complete(i)
         \/ Fail(i) \/ Requeue(i) \/ Push(i) \/ PushList(i) \/ CallFails(i)
  PROVE  AllVouched'
<1> DEFINE h == handlers[i]
<1>1. h \in Handler /\ handlers \in Seq(Handler)
  BY DEF Shape
<1>2. Requests \/ UNCHANGED catalogVars
  BY HandlerRequests
<1>3. Vouched(h, DOMAIN jobs, Committed)
  BY DEF Vouching, AllVouched
<1>4. DOMAIN jobs' \in SUBSET DOMAIN jobs /\ Committed \subseteq Committed'
  BY <1>2, RequestsKeep
<1>5. Vouched(h, DOMAIN jobs', Committed')
  BY <1>3, <1>4, VouchedStill
<1>6. Continue(i, <<>>) => AllVouched'
  BY <1>1, <1>2, HandlerEnds, NewOnesVouch DEF Vouching
<1>7. ASSUME NEW r \in Handler, Continue(i, <<r>>), Vouched(r, DOMAIN jobs', Committed')
      PROVE  AllVouched'
  <2>1. Goes({r})
    BY <1>1, <1>7, HandlerContinues
  <2> QED
    BY <1>2, <1>7, <2>1, NewOnesVouch DEF Vouching
<1>8. CASE Claim(i)
  <2>1. h \in Claiming
    BY <1>1, <1>8, HandlerAt DEF Claim, Calls
  <2>2. PICK r : r = [h EXCEPT !.at = "claimFailed"]
    OBVIOUS
  <2>3. r \in Handler /\ r.at = "claimFailed"
    BY <2>1, <2>2 DEF Claiming, Handler
  <2>4. Continue(i, <<>>) \/ Continue(i, <<r>>)
    BY <1>8, <2>2 DEF Claim
  <2>5. Vouched(r, DOMAIN jobs', Committed')
    BY <2>3 DEF Vouched
  <2> QED
    BY <1>6, <1>7, <2>3, <2>4, <2>5
<1>9. CASE ClaimFailed(i) \/ Complete(i) \/ Fail(i) \/ Requeue(i) \/ PushList(i)
  <2>1. Continue(i, <<>>)
    BY <1>9 DEF ClaimFailed, Complete, Fail, Requeue, PushList
  <2> QED
    BY <1>6, <2>1
<1>10. CASE ReadSpec(i)
  <2>1. h \in Reporting /\ jobs' = jobs
    BY <1>1, <1>10, HandlerAt DEF ReadSpec, Calls, catalogVars
  <2>2. PICK r : r = [h EXCEPT !.at = "complete"]
    OBVIOUS
  <2>3. r \in Handler /\ r.at = "complete" /\ r.j = h.j
    BY <2>1, <2>2 DEF Reporting, Handler
  <2>4. PICK q : q = [at |-> "commit", s |-> h.s, j |-> h.j, table |-> jobs[h.j].output_table]
    OBVIOUS
  <2>5. CASE h.j \in DOMAIN jobs
    <3>1. jobs[h.j].output_table \in Tables /\ jobs[h.j].output_table = OutputTable[h.j]
      BY <2>5 DEF TypeOK, JobRow, Vouching, OutputsKept
    <3>2. q \in Handler /\ q.at = "commit" /\ q.table = OutputTable[q.j]
      BY <2>1, <2>4, <3>1 DEF Reporting, Committing, Handler
    <3>3. Continue(i, <<q>>)
      BY <1>10, <2>4, <2>5 DEF ReadSpec
    <3>4. Vouched(q, DOMAIN jobs', Committed')
      BY <3>2 DEF Vouched
    <3> QED
      BY <1>7, <3>2, <3>3, <3>4
  <2>6. CASE h.j \notin DOMAIN jobs
    <3>1. Continue(i, <<r>>)
      BY <1>10, <2>2, <2>6 DEF ReadSpec
    <3>2. Vouched(r, DOMAIN jobs', Committed')
      BY <2>1, <2>3, <2>6 DEF Vouched
    <3> QED
      BY <1>7, <2>3, <3>1, <3>2
  <2> QED
    BY <2>5, <2>6
<1>11. CASE CommitOutput(i)
  <2>1. h \in Committing /\ h.at = "commit" /\ h.table \in Tables
    <3>1. h \in Committing /\ h.at = "commit"
      BY <1>1, <1>11, HandlerAt DEF CommitOutput, Calls
    <3> QED
      BY <3>1 DEF Committing
  <2>2. PICK r : r = [at |-> IF jobs' = jobs THEN "complete" ELSE "collect",
                      s |-> h.s, j |-> h.j]
    OBVIOUS
  <2>3. r \in Handler /\ r.j = h.j /\ r.at \in {"complete", "collect"}
    BY <2>1, <2>2 DEF Committing, Reporting, Handler
  <2>4. Continue(i, <<r>>)
    BY <1>11, <2>2 DEF CommitOutput
  <2>5. PICK u \in Uris : Commit(h.table, u)
    BY <1>11 DEF CommitOutput
  <2>6. h.table \in Committed'
    <3>1. /\ Len(snapshots) + 1 \in DOMAIN snapshots'
          /\ snapshots'[Len(snapshots) + 1].table = h.table
      BY <2>1, <2>5, CommittedSnapshots
    <3> QED
      BY <3>1 DEF Committed
  <2>7. h.table = OutputTable[h.j]
    BY <1>3, <2>1 DEF Vouched
  <2>8. Vouched(r, DOMAIN jobs', Committed')
    BY <2>3, <2>6, <2>7 DEF Vouched
  <2> QED
    BY <1>7, <2>3, <2>4, <2>8
<1>12. CASE Collect(i)
  <2>1. h \in Reporting /\ h.at = "collect"
    BY <1>1, <1>12, HandlerAt DEF Collect, Resumes
  <2>2. PICK r : r = [at |-> "reset", s |-> h.s, j |-> h.j, ids |-> ClaimedByLive]
    OBVIOUS
  <2>3. ClaimedByLive \in SUBSET Jobs
    BY ClaimedAreJobs DEF Shape
  <2>4. r \in Handler /\ r.at = "reset" /\ r.j = h.j
    BY <2>1, <2>2, <2>3 DEF Reporting, Resetting, Handler
  <2>5. Continue(i, <<r>>)
    BY <1>12, <2>2 DEF Collect
  <2>6. Vouched(r, DOMAIN jobs', Committed')
    BY <1>5, <2>1, <2>4 DEF Vouched
  <2> QED
    BY <1>7, <2>4, <2>5, <2>6
<1>13. CASE ResetOrphaned(i)
  <2>1. h \in Resetting /\ h.at = "reset"
    BY <1>1, <1>13, HandlerAt DEF ResetOrphaned, Calls
  <2>2. PICK r : r = [at |-> "list", s |-> h.s, j |-> h.j]
    OBVIOUS
  <2>3. r \in Handler /\ r.at = "list" /\ r.j = h.j
    BY <2>1, <2>2 DEF Resetting, Listing, Handler
  <2>4. Continue(i, <<r>>)
    BY <1>13, <2>2 DEF ResetOrphaned
  <2>5. Vouched(r, DOMAIN jobs', Committed')
    BY <1>5, <2>1, <2>3 DEF Vouched
  <2> QED
    BY <1>7, <2>3, <2>4, <2>5
<1>14. CASE ListAndSend(i)
  <2>1. h \in Listing /\ h.at = "list"
    BY <1>1, <1>14, HandlerAt DEF ListAndSend, Calls
  <2>2. PICK r : r = [h EXCEPT !.at = "complete"]
    OBVIOUS
  <2>3. h.j # None => r \in Handler /\ r.at = "complete" /\ r.j = h.j
    BY <2>1, <2>2 DEF Listing, Reporting, Handler
  <2>4. Continue(i, <<>>) \/ (h.j # None /\ Continue(i, <<r>>))
    BY <1>14, <2>2 DEF ListAndSend
  <2>5. h.j # None => Vouched(r, DOMAIN jobs', Committed')
    BY <1>5, <2>1, <2>3 DEF Vouched
  <2> QED
    BY <1>6, <1>7, <2>3, <2>4, <2>5
<1>15. CASE Push(i)
  <2>1. h \in Pushing
    BY <1>1, <1>15, HandlerAt DEF Push, Resumes
  <2>2. ASSUME NEW s \in Sockets, Continue(i, <<[h EXCEPT !.at = "pushList", !.s = s]>>)
        PROVE  AllVouched'
    <3>1. PICK r : r = [h EXCEPT !.at = "pushList", !.s = s]
      OBVIOUS
    <3>2. r \in Handler /\ r.at = "pushList"
      BY <2>1, <3>1 DEF Pushing, Handler
    <3>3. Vouched(r, DOMAIN jobs', Committed')
      BY <3>2 DEF Vouched
    <3> QED
      BY <1>7, <2>2, <3>1, <3>2, <3>3
  <2>3. \/ Continue(i, <<>>)
        \/ \E s \in Sockets : Continue(i, <<[h EXCEPT !.at = "pushList", !.s = s]>>)
    BY <1>15 DEF Push
  <2> QED
    BY <1>6, <2>2, <2>3
<1>16. CASE CallFails(i)
  <2>1. PICK r : r = [at |-> "complete", s |-> h.s, j |-> h.j]
    OBVIOUS
  <2>2. h.at # "spec"
    BY <1>16 DEF SpecIsAnswered
  <2>3. h.at \in {"reset", "list"} /\ h.j # None
          => r \in Handler /\ r.at = "complete" /\ r.j = h.j
    <3>1. /\ h.at = "reset" => h \in Resetting
          /\ h.at = "list" => h \in Listing
      BY <1>1, HandlerAt
    <3> QED
      BY <2>1, <3>1 DEF Reporting, Resetting, Listing, Handler
  <2>4. \/ Continue(i, <<>>)
        \/ h.at \in {"reset", "list"} /\ h.j # None /\ Continue(i, <<r>>)
    BY <1>16, <2>1, <2>2 DEF CallFails
  <2>5. h.at \in {"reset", "list"} /\ h.j # None => Vouched(r, DOMAIN jobs', Committed')
    BY <1>5, <2>3 DEF Vouched
  <2> QED
    BY <1>6, <1>7, <2>3, <2>4, <2>5
<1> QED
  BY <1>8, <1>9, <1>10, <1>11, <1>12, <1>13, <1>14, <1>15, <1>16

LEMMA OthersVouch ==
  ASSUME TypeOK, Shape, Vouching, BrowserNext \/ MessageNext \/ OutsideNext \/ UNCHANGED vars,
         SpecIsAnswered
  PROVE  AllVouched'
<1>1. Requests \/ UNCHANGED catalogVars
  <2>1. [SessionNext]_vars
    BY DEF SessionNext
  <2> QED
    BY <2>1, StepRequests
<1>2. AllVouched /\ DOMAIN jobs' \in SUBSET DOMAIN jobs /\ Committed \subseteq Committed'
  BY <1>1, RequestsKeep DEF Vouching
<1>3. ASSUME UNCHANGED handlers
      PROVE  AllVouched'
  BY <1>2, <1>3, VouchedStill DEF AllVouched
<1>4. CASE BrowserNext
  BY <1>3, <1>4 DEF BrowserNext, BrowserStart, BrowserFinish
<1>5. CASE MessageNext
  <2>1. PICK new \in SUBSET Handler :
           Goes(new) /\ \A r \in new : r.at \in {"requeue", "claim", "spec", "fail"}
    BY <1>5, MessageStepShape
  <2>2. \A r \in new : Vouched(r, DOMAIN jobs', Committed')
    BY <2>1 DEF Vouched
  <2> QED
    BY <1>1, <1>2, <2>1, <2>2, NewOnesVouch
<1>6. ASSUME NEW s \in Sockets, Connect(s)
      PROVE  AllVouched'
  <2>1. PICK r : r = [at |-> "reset", s |-> s, j |-> None, ids |-> ClaimedByLive]
    OBVIOUS
  <2>2. Goes({r})
    BY <1>6, <2>1, ConnectShape
  <2>3. Vouched(r, DOMAIN jobs', Committed')
    BY <2>1 DEF Vouched
  <2> QED
    BY <1>1, <1>2, <2>2, <2>3, NewOnesVouch
<1>7. ASSUME NEW s \in Sockets, GoStale(s)
      PROVE  AllVouched'
  <2>1. /\ handlers' \in Seq(Handler) /\ DOMAIN handlers' = DOMAIN handlers
        /\ \A k \in DOMAIN handlers :
             handlers'[k] = handlers[k] \/ handlers'[k].at \in {"claim", "claimFailed"}
    BY <1>7, StaleHandlers
  <2> SUFFICES ASSUME NEW k \in DOMAIN handlers
               PROVE  Vouched(handlers'[k], DOMAIN jobs', Committed')
    BY <2>1 DEF AllVouched
  <2>2. CASE handlers'[k] = handlers[k]
    BY <1>2, <2>2, VouchedStill DEF AllVouched
  <2>3. CASE handlers'[k].at \in {"claim", "claimFailed"}
    BY <2>3 DEF Vouched
  <2> QED
    BY <2>1, <2>2, <2>3
<1>8. CASE Restart
  BY <1>8, RestartShape DEF AllVouched
<1>9. CASE \/ \E j \in Jobs : UserTrigger(j) \/ UserDelete(j)
           \/ \E t \in Tables : UserCommit(t)
  <2>1. PICK new \in SUBSET Handler : Goes(new) /\ \A r \in new : r.at = "push"
    BY <1>9, UserStepShape
  <2>2. \A r \in new : Vouched(r, DOMAIN jobs', Committed')
    BY <2>1 DEF Vouched
  <2> QED
    BY <1>1, <1>2, <2>1, <2>2, NewOnesVouch
<1>10. CASE OutsideNext
  <2>1. ASSUME NEW s \in Sockets, Disconnect(s) \/ Ping(s)
        PROVE  AllVouched'
    BY <1>3, <2>1 DEF Disconnect, Ping
  <2>2. ASSUME NEW i \in DOMAIN handlers, CallFails(i)
        PROVE  AllVouched'
    BY <2>2, HandlerVouches
  <2> QED
    BY <1>6, <1>7, <1>8, <1>9, <1>10, <2>1, <2>2 DEF OutsideNext
<1>11. CASE UNCHANGED vars
  BY <1>3, <1>11 DEF vars
<1> QED
  BY <1>4, <1>5, <1>10, <1>11

(* The job that a handler reports complete was vouched for.                *)
LEMMA OnlyVouchedComplete ==
  ASSUME TypeOK, Shape, Vouching, [SessionNext]_vars,
         NEW j \in InStatus({"done"})', j \notin InStatus({"done"})
  PROVE  OutputTable[j] \in Committed
<1>1. j \in DOMAIN jobs' /\ jobs'[j].status = "done"
  BY DEF InStatus
<1>2. Requests \/ UNCHANGED catalogVars
  BY StepRequests
<1>3. CompleteJob(j)
  BY <1>2, DoneByComplete
<1>4. j \in DOMAIN jobs /\ jobs[j].status # "done"
  BY <1>3 DEF CompleteJob, InStatus
<1>5. ASSUME NEW i \in DOMAIN handlers, Complete(i)
      PROVE  OutputTable[j] \in Committed
  <2>1. handlers[i] \in Reporting /\ handlers[i].at = "complete"
    BY <1>5, HandlerAt DEF Shape, Complete, Calls
  <2>2. handlers[i].j \in Jobs /\ handlers[i].j # None
    BY <2>1, SessionAssumption DEF Reporting
  <2>3. CASE handlers[i].j = j
    BY <1>4, <2>1, <2>2, <2>3 DEF Vouching, AllVouched, Vouched
  <2>4. CASE handlers[i].j # j
    <3>1. CompleteJob(handlers[i].j) \/ jobs' = jobs
      BY <1>5 DEF Complete, catalogVars
    <3>2. jobs'[j] = jobs[j]
      BY <1>4, <2>4, <3>1, CompletedRow DEF CompleteJob
    <3> QED
      BY <1>1, <1>4, <3>2
  <2> QED
    BY <2>3, <2>4
<1>6. ASSUME NEW S, NEW x \in Status \ {"done"}, jobs' = SetStatus(S, x)
      PROVE  FALSE
  BY <1>1, <1>4, <1>6, SetStatusType
<1>7. jobs' # jobs
  BY <1>1, <1>4
<1>8. ASSUME NEW k, NEW S, NEW t, NEW u,
             \/ ClaimJob(k) \/ FailJob(k) \/ TriggerJob(k)
             \/ ResetOrphanedJobs(S) \/ ResetJobsPending(S) \/ Commit(t, u)
      PROVE  FALSE
  <2>1. \E X : \E x \in Status \ {"done"} : jobs' = SetStatus(X, x)
    BY <1>8 DEF ClaimJob, FailJob, TriggerJob, ResetOrphanedJobs, ResetJobsPending,
                Commit, Status
  <2> QED
    BY <1>6, <2>1
<1>9. ASSUME NEW i \in DOMAIN handlers,
             \/ Claim(i) \/ ClaimFailed(i) \/ ReadSpec(i) \/ CommitOutput(i)
             \/ Collect(i) \/ ResetOrphaned(i) \/ ListAndSend(i)
             \/ Fail(i) \/ Requeue(i) \/ Push(i) \/ PushList(i) \/ CallFails(i)
      PROVE  FALSE
  BY <1>7, <1>8, <1>9 DEF Claim, ClaimFailed, ReadSpec, CommitOutput, Collect, ResetOrphaned,
     ListAndSend, Fail, Requeue, Push, PushList, CallFails, catalogVars
<1>10. CASE HandlerNext
  BY <1>5, <1>9, <1>10 DEF HandlerNext
<1>11. CASE BrowserNext \/ MessageNext
  BY <1>7, <1>11 DEF BrowserNext, BrowserStart, BrowserFinish, MessageNext, Close,
     ReceiveClaimed, ReceiveComplete, ReceiveError, Receive, catalogVars
<1>12. CASE OutsideNext
  <2>1. ASSUME NEW s \in Sockets, Connect(s) \/ Disconnect(s) \/ GoStale(s) \/ Ping(s)
        PROVE  FALSE
    BY <1>7, <2>1 DEF Connect, Disconnect, GoStale, Ping, catalogVars
  <2>2. ASSUME NEW k \in Jobs, UserTrigger(k)
        PROVE  FALSE
    BY <1>8, <2>2 DEF UserTrigger
  <2>3. ASSUME NEW k \in Jobs, UserDelete(k)
        PROVE  FALSE
    BY <1>1, <1>4, <2>3 DEF UserDelete, DeleteJob
  <2>4. ASSUME NEW t \in Tables, UserCommit(t)
        PROVE  FALSE
    BY <1>8, <2>4 DEF UserCommit
  <2>5. ~ Restart
    BY <1>7 DEF Restart, catalogVars
  <2> QED
    BY <1>9, <1>12, <2>1, <2>2, <2>3, <2>4, <2>5 DEF OutsideNext
<1>13. CASE UNCHANGED vars
  BY <1>7, <1>13 DEF vars, catalogVars
<1> QED
  BY <1>10, <1>11, <1>12, <1>13 DEF SessionNext

LEMMA VouchingStep ==
  ASSUME TypeOK, Shape, Vouching, [SessionNext]_vars, SpecIsAnswered
  PROVE  Vouching'
<1>1. Requests \/ UNCHANGED catalogVars
  BY StepRequests
<1>2. OutputsKept'
  BY <1>1, RequestsKeep DEF Vouching, OutputsKept
<1>3. DoneCommitted'
  <2> SUFFICES ASSUME NEW j \in InStatus({"done"})'
               PROVE  OutputTable[j] \in Committed'
    BY DEF DoneCommitted
  <2>1. OutputTable[j] \in Committed
    BY OnlyVouchedComplete DEF Vouching, DoneCommitted
  <2> QED
    BY <1>1, <2>1, RequestsKeep
<1>4. AllVouched'
  BY HandlerVouches, OthersVouch DEF SessionNext, HandlerNext
<1> QED
  BY <1>2, <1>3, <1>4 DEF Vouching

LEMMA VouchingInit == SessionInit => Vouching
BY DEF SessionInit, Vouching, OutputsKept, DoneCommitted, AllVouched, InStatus

(* A job is reported done only after its output was committed, provided    *)
(* that getJobSpec does not fail: with every other fault, lost tab,        *)
(* restart, deletion, requeueing and reordering there is.                  *)
THEOREM DoneJobsCommitted == SessionSpec /\ [][SpecIsAnswered]_vars => []DoneMeansCommitted
<1>1. SessionInit => TypeOK /\ Shape /\ Vouching
  BY SessionInitTyped, VouchingInit
<1>2. TypeOK /\ Shape /\ Vouching /\ [SessionNext]_vars /\ [SpecIsAnswered]_vars
        => TypeOK' /\ Shape' /\ Vouching'
  <2> SUFFICES ASSUME TypeOK, Shape, Vouching, [SessionNext]_vars, [SpecIsAnswered]_vars
               PROVE  TypeOK' /\ Shape' /\ Vouching'
    OBVIOUS
  <2>1. TypeOK' /\ Shape'
    BY SessionStepShape
  <2>2. CASE SpecIsAnswered
    BY <2>1, <2>2, VouchingStep
  <2>3. CASE UNCHANGED vars
    BY <2>1, <2>3 DEF vars, catalogVars, Vouching, OutputsKept, DoneCommitted, AllVouched,
       InStatus, Committed
  <2> QED
    BY <2>2, <2>3
<1>3. Vouching => DoneMeansCommitted
  BY DEF Vouching, OutputsKept, DoneCommitted, DoneMeansCommitted, Committed, InStatus
<1> QED
  BY <1>1, <1>2, <1>3, PTL DEF SessionSpec

(* Without faults nothing is left to suppose.                              *)
THEOREM DoneWithoutFaults ==
  ASSUME "fault" \notin Events
  PROVE  SessionSpec => []DoneMeansCommitted
<1>1. [SessionNext]_vars => [SpecIsAnswered]_vars
  BY DEF SpecIsAnswered, CallFails, Disturb
<1>2. SessionSpec => [][SpecIsAnswered]_vars
  BY <1>1, PTL DEF SessionSpec
<1> QED
  BY <1>2, DoneJobsCommitted, PTL
=============================================================================
