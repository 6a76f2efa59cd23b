------------------------------ MODULE JobQueue ------------------------------
(***************************************************************************)
(* What the Catalog Durable Object promises to everybody who drives a      *)
(* transform job: a work queue with one status per job.  A job is claimed  *)
(* by one caller at a time, nobody can take a running job away by editing, *)
(* deleting or enqueueing it, and a running job leaves that state only by  *)
(* being finished or by being put back in the queue.  Everything else the  *)
(* catalog keeps (tables, snapshots, triggers, timestamps) is invisible.   *)
(***************************************************************************)
CONSTANT Jobs

VARIABLE status

Statuses == {"absent", "idle", "pending", "running", "done", "failed"}

Init == status = [j \in Jobs |-> "absent"]

(* A job row is inserted; it waits for somebody to enqueue it.             *)
Add(j) ==
  /\ status[j] = "absent"
  /\ status' = [status EXCEPT ![j] = "idle"]

(* A job that nobody is running may be removed.                            *)
Remove(j) ==
  /\ status[j] \notin {"absent", "running"}
  /\ status' = [status EXCEPT ![j] = "absent"]

Put(S) == status' = [j \in Jobs |-> IF j \in S THEN "pending" ELSE status[j]]

(* Jobs that are not running are (re-)queued, by a user or by a commit.    *)
Enqueue(S) ==
  /\ \A j \in S : status[j] \notin {"absent", "running"}
  /\ Put(S)

(* Running jobs whose browser is lost go back to the queue.                *)
Requeue(S) ==
  /\ \A j \in S : status[j] = "running"
  /\ Put(S)

(* One caller takes a queued job; a second claim finds it running.         *)
Claim(j) ==
  /\ status[j] = "pending"
  /\ status' = [status EXCEPT ![j] = "running"]

(* The outcome of a run, reported by whoever believes to hold the job.     *)
Finish(j, outcome) ==
  /\ status[j] # "absent"
  /\ status' = [status EXCEPT ![j] = outcome]

Next ==
  \/ \E j \in Jobs : Add(j) \/ Remove(j) \/ Claim(j)
  \/ \E j \in Jobs, outcome \in {"done", "failed"} : Finish(j, outcome)
  \/ \E S \in SUBSET Jobs : Enqueue(S) \/ Requeue(S)

Spec == Init /\ [][Next]_status

TypeOK == status \in [Jobs -> Statuses]
=============================================================================
