-------------------------- MODULE TransformSession --------------------------
(***************************************************************************)
(* How transform jobs get executed: the Session Durable Object             *)
(* (src/session/do.ts) hands the catalog's pending jobs to the browser     *)
(* tabs connected to it (frontend/src/sessionWs.ts) and reports to the     *)
(* catalog what the tabs say about them.                                   *)
(*                                                                         *)
(* A handler of the session DO runs up to its next await, so other events  *)
(* are handled between its calls to the catalog.  "handlers" holds the     *)
(* suspended handlers in the order in which they made their calls, each a  *)
(* record with the call it is at and the local variables it still needs.   *)
(* Every call goes through a stub of its own, which promises no order: a   *)
(* call may overtake an earlier one if the constant Overtaking says so.    *)
(***************************************************************************)
EXTENDS CatalogDO, Bags, BagsExt, SequencesExt

CONSTANTS Sockets,      \* session WebSockets, reused for later connections
          OutputTable,  \* [Jobs -> Tables]
          Watches,      \* [Jobs -> SUBSET Tables], each job's 'any' trigger
          Events,       \* the kinds of outside events that may happen ...
          MaxEvents,    \* ... and how many of them, connects included and
                        \* errors of transforms not
          Overtaking,   \* may calls to the catalog overtake each other?
          None

ASSUME SessionAssumption ==
  /\ OutputTable \in [Jobs -> Tables]
  /\ Watches \in [Jobs -> SUBSET Tables]
  /\ MaxEvents \in Nat
  /\ Overtaking \in BOOLEAN
  /\ Events \subseteq {"disconnect", "stale", "trigger", "commit", "delete",
                       "restart", "fault", "error"}
  /\ None \notin Sockets \cup Jobs
  /\ Triggers = Jobs

VARIABLES conn,      \* none, open, or gone: the tab is lost, the DO unaware
          inflight,  \* inflightJobIds of the socket's attachment
          fresh,     \* has it pinged within STALE_AFTER_MS?
          handlers,  \* suspended handlers, in the order of their calls
          down,      \* bag of <<socket, job>>: transform_job messages
          tasks,     \* bag of <<socket, job>>: transforms a tab executes
          up,        \* [Sockets -> Seq(Message)], messages of the tab
          owner,     \* history: whose claim made the job run
          calm,      \* history: undisturbed since a connect (see Recovery)
          slips,     \* history: how the session DO has lost track of jobs
          events     \* outside events left

sessionVars == <<conn, inflight, fresh>>
channelVars == <<down, tasks, up>>
vars == <<catalogVars, sessionVars, handlers, channelVars, owner, calm, slips,
          events>>

Message == [type : {"claimed", "complete", "error"}, job : Jobs]

SessionInit ==
  /\ tables = [t \in Tables |-> "absent"]
  /\ snapshots = <<>>
  /\ now = 1
  /\ triggers = [g \in {j \in Jobs : Watches[j] # {}} |->
                   [watches |-> Watches[g], policy |-> "any", job_id |-> g,
                    created_at |-> 1]]
  /\ jobs \in [Jobs -> {[status |-> st, output_table |-> t, updated_at |-> 1,
                          last_completed_at |-> 0] :
                            st \in {"idle", "pending"}, t \in Tables}]
  /\ \A j \in Jobs : jobs[j].output_table = OutputTable[j]
  /\ conn = [s \in Sockets |-> "none"]
  /\ inflight = [s \in Sockets |-> {}]
  /\ fresh = [s \in Sockets |-> FALSE]
  /\ handlers = <<>>
  /\ down = EmptyBag
  /\ tasks = EmptyBag
  /\ up = [s \in Sockets |-> <<>>]
  /\ owner = [j \in Jobs |-> None]
  /\ calm = FALSE
  /\ slips = {}
  /\ events = MaxEvents

-----------------------------------------------------------------------------
(* Helpers.                                                                *)

StatusOf(j) == IF j \in DOMAIN jobs THEN jobs[j].status ELSE "absent"

(* An outside event of this kind happens and disturbs a calm period.       *)
Disturb(kind) ==
  /\ kind \in Events /\ events > 0
  /\ events' = events - 1
  /\ calm' = FALSE
  /\ UNCHANGED slips

Quiet == UNCHANGED <<calm, slips, events>>

(* A step slips in this way, if the condition holds.                       *)
Slip(way, condition) ==
  /\ slips' = IF condition THEN slips \cup {way} ELSE slips
  /\ UNCHANGED <<calm, events>>

(* The history variable follows the status: whoever held a job that is no  *)
(* longer running holds it no more.                                        *)
KeepOwner ==
  owner' = [j \in Jobs |-> IF j \in DOMAIN jobs' /\ jobs'[j].status = "running"
                           THEN owner[j] ELSE None]

(* Nobody holds the jobs of the connections S any more.                    *)
Release(S) ==
  owner' = [j \in Jobs |-> IF owner[j] \in S THEN None ELSE owner[j]]

(* Handler i has its answer and goes on as next, at most one handler.      *)
Continue(i, next) == handlers' = RemoveAt(handlers, i) \o next

Start(next) == handlers' = handlers \o next

(* Handler i is suspended at this point.  The first group only waits to be *)
(* resumed or started, the other one for the catalog to answer its call.   *)
Resuming == {"claimFailed", "collect", "push"}
Resumes(i, at) == handlers[i].at = at
Calls(i, at) ==
  /\ handlers[i].at = at
  /\ Overtaking \/ \A k \in 1..i-1 : handlers[k].at \in Resuming

Live(s) == conn[s] # "none" /\ fresh[s]

(* Seeded bug: the staleness test is negated.                              *)
ClaimedByStale == UNION {inflight[s] : s \in {s \in Sockets : ~ Live(s)}}

(* The jobs claimed by non-stale sockets, from their attachments.          *)
ClaimedByLive == UNION {inflight[s] : s \in {s \in Sockets : Live(s)}}

(* transform_job messages for the jobs S; lost when the tab is gone.       *)
Send(s, S) ==
  down' = IF conn[s] = "open" THEN down (+) SetToBag({s} \X S) ELSE down

ClaimsOf(s, j) ==
  {i \in DOMAIN handlers :
     handlers[i].s = s /\ handlers[i].at = "claim" /\ handlers[i].j = j}

(* One of the jobs S is sent to a tab that has it already, or has said so. *)
Repeats(s, S) ==
  /\ conn[s] = "open"
  /\ \E j \in S :
       \/ BagIn(<<s, j>>, down (+) tasks)
       \/ \E m \in ToSet(up[s]) : m.job = j
       \/ ClaimsOf(s, j) # {}

Without(B, s) == [e \in {e \in DOMAIN B : e[1] # s} |-> B[e]]

-----------------------------------------------------------------------------
(* Connections.                                                            *)

(* handleUpgrade accepts the socket and runs dispatchPendingJobs up to its *)
(* first await.  A socket id is reused once no handler refers to it.       *)
Connect(s) ==
  /\ conn[s] = "none" /\ events > 0
  /\ \A i \in DOMAIN handlers : handlers[i].s # s
  /\ conn' = [conn EXCEPT ![s] = "open"]
  /\ inflight' = [inflight EXCEPT ![s] = {}]
  /\ fresh' = [fresh EXCEPT ![s] = TRUE]
  /\ Start(<<[at |-> "reset", s |-> s, j |-> None, ids |-> ClaimedByLive]>>)
  /\ events' = events - 1
  /\ calm' = (handlers = <<>> /\ \A x \in Sockets : conn[x] = "none")
  /\ UNCHANGED <<catalogVars, channelVars, owner, slips>>

(* The tab closes or loses its network.  What it is executing comes to     *)
(* nothing; of what it sent, a prefix is still delivered.                  *)
Disconnect(s) ==
  /\ conn[s] = "open" /\ Disturb("disconnect")
  /\ conn' = [conn EXCEPT ![s] = "gone"]
  /\ down' = Without(down, s)
  /\ tasks' = Without(tasks, s)
  /\ \E n \in 0..Len(up[s]) : up' = [up EXCEPT ![s] = SubSeq(@, 1, n)]
  /\ UNCHANGED <<catalogVars, inflight, fresh, handlers, owner>>

(* Seeded bug: a closed socket resets no job.                              *)
CloseWithoutReset(s) ==
  /\ conn[s] = "gone" /\ up[s] = <<>>
  /\ conn' = [conn EXCEPT ![s] = "none"]
  /\ inflight' = [inflight EXCEPT ![s] = {}]
  /\ fresh' = [fresh EXCEPT ![s] = FALSE]
  /\ Release({s})
  /\ UNCHANGED <<catalogVars, handlers, channelVars>>
  /\ Quiet

(* webSocketClose or webSocketError: resetInflightJobs.                    *)
Close(s) ==
  /\ conn[s] = "gone" /\ up[s] = <<>>
  /\ conn' = [conn EXCEPT ![s] = "none"]
  /\ inflight' = [inflight EXCEPT ![s] = {}]
  /\ fresh' = [fresh EXCEPT ![s] = FALSE]
  /\ Start(IF inflight[s] = {} THEN <<>>
           ELSE <<[at |-> "requeue", s |-> s, ids |-> inflight[s]]>>)
  /\ Release({s})
  /\ Slip("close", \E j \in inflight[s] : owner[j] # s)
  /\ UNCHANGED <<catalogVars, channelVars>>

(* No ping for 75 seconds: the tab is gone, or the browser throttles it.   *)
(* A copy of the attachment in a handler is as old, or older.              *)
GoStale(s) ==
  /\ Live(s)
  /\ conn[s] = "gone" \/ "stale" \in Events
  /\ fresh' = [fresh EXCEPT ![s] = FALSE]
  /\ handlers' = [i \in DOMAIN handlers |->
                    IF handlers[i].at \in {"claim", "claimFailed"} /\ handlers[i].s = s
                    THEN [handlers[i] EXCEPT !.fresh = FALSE] ELSE handlers[i]]
  /\ calm' = FALSE
  /\ UNCHANGED <<catalogVars, conn, inflight, channelVars, owner, slips, events>>

Ping(s) ==
  /\ conn[s] = "open" /\ ~ fresh[s]
  /\ fresh' = [fresh EXCEPT ![s] = TRUE]
  /\ UNCHANGED <<catalogVars, conn, inflight, handlers, channelVars, owner>>
  /\ Quiet

(* The session DO is evicted or redeployed: its sockets break and its      *)
(* handlers vanish, no close handler runs.                                 *)
Restart ==
  /\ Disturb("restart")
  /\ conn' = [s \in Sockets |-> "none"]
  /\ inflight' = [s \in Sockets |-> {}]
  /\ fresh' = [s \in Sockets |-> FALSE]
  /\ handlers' = <<>>
  /\ down' = EmptyBag
  /\ tasks' = EmptyBag
  /\ up' = [s \in Sockets |-> <<>>]
  /\ Release(Sockets)
  /\ UNCHANGED catalogVars

-----------------------------------------------------------------------------
(* The browser tab: handleTransformJob announces the claim and executes    *)
(* the job without waiting for the claim's outcome.                        *)

BrowserStart(s, j) ==
  /\ BagIn(<<s, j>>, down)
  /\ down' = BagRemove(down, <<s, j>>)
  /\ tasks' = BagAdd(tasks, <<s, j>>)
  /\ up' = [up EXCEPT ![s] = Append(@, [type |-> "claimed", job |-> j])]
  /\ UNCHANGED <<catalogVars, sessionVars, handlers, owner>>
  /\ Quiet

(* A transform succeeds, or fails if Events has that.                      *)
BrowserFinish(s, j, type) ==
  /\ BagIn(<<s, j>>, tasks)
  /\ type = "error" => type \in Events
  /\ tasks' = BagRemove(tasks, <<s, j>>)
  /\ up' = [up EXCEPT ![s] = Append(@, [type |-> type, job |-> j])]
  /\ UNCHANGED <<catalogVars, sessionVars, handlers, down, owner>>
  /\ Quiet

-----------------------------------------------------------------------------
(* webSocketMessage, up to its first await.                                *)

Receive(s, type, ids, next) ==
  /\ conn[s] # "none" /\ up[s] # <<>>
  /\ Head(up[s]).type = type
  /\ up' = [up EXCEPT ![s] = Tail(@)]
  /\ inflight' = [inflight EXCEPT ![s] = ids]
  /\ Start(<<next>>)
  /\ UNCHANGED <<catalogVars, conn, fresh, down, tasks, owner>>
  /\ Quiet

(* Seeded bug: only a granted claim should be tracked, and none is.        *)
ReceiveClaimedUntracked(s) ==
  LET j == Head(up[s]).job
  IN  Receive(s, "claimed", inflight[s],
              [at |-> "claim", s |-> s, j |-> j, ids |-> inflight[s], fresh |-> fresh[s]])

(* The attachment is updated before the claim is made; the handler keeps   *)
(* the attachment as it read it.                                           *)
ReceiveClaimed(s) ==
  LET j == Head(up[s]).job
      ids == inflight[s] \cup {j}
  IN  Receive(s, "claimed", ids,
              [at |-> "claim", s |-> s, j |-> j, ids |-> ids, fresh |-> fresh[s]])

ReceiveComplete(s) ==
  LET j == Head(up[s]).job
  IN  Receive(s, "complete", inflight[s] \ {j}, [at |-> "spec", s |-> s, j |-> j])

ReceiveError(s) ==
  LET j == Head(up[s]).job
  IN  Receive(s, "error", inflight[s] \ {j}, [at |-> "fail", s |-> s, j |-> j])

-----------------------------------------------------------------------------
(* The calls of the suspended handlers to the catalog, in the order in     *)
(* which each handler makes them.                                          *)

(* job_claimed: nothing of the session's state depends on a granted claim. *)
Claim(i) ==
  LET h == handlers[i] IN
  /\ Calls(i, "claim")
  /\ \/ /\ ClaimJob(h.j)
        /\ Continue(i, <<>>)
        /\ owner' = [owner EXCEPT ![h.j] = IF conn[h.s] = "none" THEN None ELSE h.s]
     \/ /\ StatusOf(h.j) # "pending"
        /\ Continue(i, <<[h EXCEPT !.at = "claimFailed"]>>)
        /\ UNCHANGED <<catalogVars, owner>>
  /\ UNCHANGED <<sessionVars, channelVars>>
  /\ Quiet

(* The attachment is overwritten with the copy read before the call: a     *)
(* slip if that does more than take away the one job, or should not.       *)
ClaimFailed(i) ==
  LET h == handlers[i] IN
  /\ Resumes(i, "claimFailed")
  /\ Continue(i, <<>>)
  /\ IF conn[h.s] = "none" THEN UNCHANGED <<inflight, fresh>>
     ELSE /\ inflight' = [inflight EXCEPT ![h.s] = h.ids \ {h.j}]
          /\ fresh' = [fresh EXCEPT ![h.s] = h.fresh]
  /\ Slip("write-back",
          /\ conn[h.s] # "none"
          /\ \/ h.ids \ {h.j} # inflight[h.s] \ {h.j}
             \/ owner[h.j] = h.s \/ ClaimsOf(h.s, h.j) # {})
  /\ UNCHANGED <<catalogVars, conn, channelVars, owner>>

(* Seeded bug: the job is reported complete, its output not committed.     *)
ReadSpecOnly(i) ==
  LET h == handlers[i] IN
  /\ Calls(i, "spec")
  /\ Continue(i, <<[h EXCEPT !.at = "complete"]>>)
  /\ UNCHANGED <<catalogVars, sessionVars, channelVars, owner>>
  /\ Quiet

(* job_complete: getJobSpec, commit the output, dispatch what the commit   *)
(* triggered, and only then report the job complete.                       *)
ReadSpec(i) ==
  LET h == handlers[i] IN
  /\ Calls(i, "spec")
  /\ Continue(i, <<IF h.j \in DOMAIN jobs
                  THEN [at |-> "commit", s |-> h.s, j |-> h.j,
                        table |-> jobs[h.j].output_table]
                  ELSE [h EXCEPT !.at = "complete"]>>)
  /\ UNCHANGED <<catalogVars, sessionVars, channelVars, owner>>
  /\ Quiet

CommitOutput(i) ==
  LET h == handlers[i] IN
  /\ Calls(i, "commit")
  /\ \E u \in Uris : Commit(h.table, u)
  /\ Continue(i, <<[at |-> IF jobs' = jobs THEN "complete" ELSE "collect",
                   s |-> h.s, j |-> h.j]>>)
  /\ KeepOwner
  /\ UNCHANGED <<sessionVars, channelVars>>
  /\ Quiet

(* dispatchPendingJobs, inside job_complete (on connect it is part of      *)
(* Connect): the claimed jobs are collected before the call.               *)
Collect(i) ==
  LET h == handlers[i] IN
  /\ Resumes(i, "collect")
  /\ Continue(i, <<[at |-> "reset", s |-> h.s, j |-> h.j, ids |-> ClaimedByLive]>>)
  /\ UNCHANGED <<catalogVars, sessionVars, channelVars, owner>>
  /\ Quiet

ResetOrphaned(i) ==
  LET h == handlers[i] IN
  /\ Calls(i, "reset")
  /\ ResetOrphanedJobs(h.ids)
  /\ Continue(i, <<[at |-> "list", s |-> h.s, j |-> h.j]>>)
  /\ KeepOwner
  /\ UNCHANGED <<sessionVars, channelVars>>
  /\ Quiet

(* Seeded bug: only the jobs of this handler's own socket are sent.        *)
ListAndSendClaimed(i) ==
  LET h == handlers[i] IN
  /\ Calls(i, "list")
  /\ Send(h.s, InStatus({"pending"}) \cap inflight[h.s])
  /\ Continue(i, IF h.j = None THEN <<>> ELSE <<[h EXCEPT !.at = "complete"]>>)
  /\ UNCHANGED <<catalogVars, sessionVars, tasks, up, owner>>
  /\ Quiet

ListAndSend(i) ==
  LET h == handlers[i] IN
  /\ Calls(i, "list")
  /\ Send(h.s, InStatus({"pending"}))
  /\ Slip("copy", Repeats(h.s, InStatus({"pending"})))
  /\ Continue(i, IF h.j = None THEN <<>> ELSE <<[h EXCEPT !.at = "complete"]>>)
  /\ UNCHANGED <<catalogVars, sessionVars, tasks, up, owner>>

Complete(i) ==
  LET h == handlers[i] IN
  /\ Calls(i, "complete")
  /\ \/ CompleteJob(h.j)
     \/ h.j \notin DOMAIN jobs /\ UNCHANGED catalogVars
  /\ Continue(i, <<>>)
  /\ KeepOwner
  /\ UNCHANGED <<sessionVars, channelVars>>
  /\ Quiet

(* job_error.                                                              *)
Fail(i) ==
  LET h == handlers[i] IN
  /\ Calls(i, "fail")
  /\ \/ FailJob(h.j)
     \/ h.j \notin DOMAIN jobs /\ UNCHANGED catalogVars
  /\ Continue(i, <<>>)
  /\ KeepOwner
  /\ UNCHANGED <<sessionVars, channelVars>>
  /\ Quiet

(* resetInflightJobs of a closed socket.                                   *)
Requeue(i) ==
  LET h == handlers[i] IN
  /\ Calls(i, "requeue")
  /\ ResetJobsPending(h.ids)
  /\ Continue(i, <<>>)
  /\ KeepOwner
  /\ UNCHANGED <<sessionVars, channelVars>>
  /\ Quiet

(* handleDispatchJobs: choose a live socket, then list the pending jobs.   *)
Push(i) ==
  LET h == handlers[i] IN
  /\ Resumes(i, "push")
  /\ \/ /\ \A s \in Sockets : ~ Live(s)
        /\ Continue(i, <<>>)
     \/ \E s \in Sockets : /\ Live(s)
                           /\ Continue(i, <<[h EXCEPT !.at = "pushList", !.s = s]>>)
  /\ UNCHANGED <<catalogVars, sessionVars, channelVars, owner>>
  /\ Quiet

PushList(i) ==
  LET h == handlers[i] IN
  /\ Calls(i, "pushList")
  /\ Send(h.s, InStatus({"pending"}) \cap h.ids)
  /\ Slip("copy", Repeats(h.s, InStatus({"pending"}) \cap h.ids))
  /\ Continue(i, <<>>)
  /\ UNCHANGED <<catalogVars, sessionVars, tasks, up, owner>>

(* A call to the catalog throws.  getJobSpec and dispatchPendingJobs catch *)
(* it and job_complete goes on, every other handler ends there.            *)
CallFails(i) ==
  LET h == handlers[i] IN
  /\ Disturb("fault")
  /\ h.at \notin {"claimFailed", "collect"}
  /\ Continue(i, IF h.at \in {"spec", "reset", "list"} /\ h.j # None
                 THEN <<[at |-> "complete", s |-> h.s, j |-> h.j]>> ELSE <<>>)
  /\ UNCHANGED <<catalogVars, sessionVars, channelVars, owner>>

-----------------------------------------------------------------------------
(* The rest of the worker (src/index.ts, src/mcp/server.ts): requests that *)
(* change the catalog and then ask the session DO to dispatch.             *)

UserTrigger(j) ==
  /\ Disturb("trigger")
  /\ TriggerJob(j)
  /\ Start(<<[at |-> "push", s |-> None, ids |-> Jobs]>>)
  /\ UNCHANGED <<sessionVars, channelVars, owner>>

UserCommit(t) ==
  /\ Disturb("commit")
  /\ \E u \in Uris : Commit(t, u)
  /\ LET triggered == {j \in DOMAIN jobs : jobs'[j] # jobs[j]}
     IN  Start(IF triggered = {} THEN <<>>
               ELSE <<[at |-> "push", s |-> None, ids |-> triggered]>>)
  /\ KeepOwner
  /\ UNCHANGED <<sessionVars, channelVars>>

UserDelete(j) ==
  /\ Disturb("delete")
  /\ DeleteJob(j)
  /\ UNCHANGED <<sessionVars, handlers, channelVars, owner>>

-----------------------------------------------------------------------------
HandlerNext ==
  \E i \in DOMAIN handlers :
    \/ Claim(i) \/ ClaimFailed(i) \/ ReadSpec(i) \/ CommitOutput(i)
    \/ Collect(i) \/ ResetOrphaned(i) \/ ListAndSend(i) \/ Complete(i)
    \/ Fail(i) \/ Requeue(i) \/ Push(i) \/ PushList(i)

BrowserNext ==
  \E s \in Sockets, j \in Jobs :
    BrowserStart(s, j) \/ \E type \in {"complete", "error"} : BrowserFinish(s, j, type)

MessageNext ==
  \E s \in Sockets :
    Close(s) \/ ReceiveClaimed(s) \/ ReceiveComplete(s) \/ ReceiveError(s)

OutsideNext ==
  \/ \E s \in Sockets : Connect(s) \/ Disconnect(s) \/ GoStale(s) \/ Ping(s)
  \/ Restart
  \/ \E i \in DOMAIN handlers : CallFails(i)
  \/ \E j \in Jobs : UserTrigger(j) \/ UserDelete(j)
  \/ \E t \in Tables : UserCommit(t)

SessionNext == HandlerNext \/ BrowserNext \/ MessageNext \/ OutsideNext

SessionSpec ==
  /\ SessionInit /\ [][SessionNext]_vars
  /\ WF_vars(HandlerNext) /\ WF_vars(BrowserNext) /\ WF_vars(MessageNext)

-----------------------------------------------------------------------------
(* Properties.                                                             *)

SessionTypeOK ==
  /\ TypeOK
  /\ conn \in [Sockets -> {"none", "open", "gone"}]
  /\ inflight \in [Sockets -> SUBSET Jobs]
  /\ fresh \in [Sockets -> BOOLEAN]
  /\ \A i \in DOMAIN handlers : handlers[i].s \in Sockets \cup {None}
  /\ BagToSet(down) \cup BagToSet(tasks) \subseteq Sockets \X Jobs
  /\ up \in [Sockets -> Seq(Message)]
  /\ owner \in [Jobs -> Sockets \cup {None}]
  /\ calm \in BOOLEAN
  /\ slips \subseteq {"write-back", "copy", "close"}
  /\ events \in 0..MaxEvents

(* A job is reported done only after its output was committed, whichever   *)
(* handlers of however many tabs interleave, are cut off or repeat.        *)
DoneMeansCommitted ==
  \A j \in InStatus({"done"}) :
    \E i \in DOMAIN snapshots : snapshots[i].table = jobs[j].output_table

(* After a tab has connected to a session DO with nothing else going on,   *)
(* and unless something disturbs it, every queued or orphaned job is done  *)
(* or has failed at some later moment: no job is stuck in running.         *)
Settled == InStatus({"pending", "running"}) = {}
Recovery == calm ~> (Settled \/ ~ calm)

(* "If the browser session closes mid-job, the session DO resets the job   *)
(* to pending": the attachment of a socket names each job that its tab     *)
(* claimed and is executing, so that closing the socket will reset it.     *)
(* The code does not always do so (README, section 3): no run checks this. *)
EveryClaimIsTracked ==
  \A j \in Jobs, s \in Sockets :
    owner[j] = s /\ conn[s] = "open" /\ BagIn(<<s, j>>, tasks) => j \in inflight[s]

(* Two slips lose a claim, and nothing else does: a refused claim wrote    *)
(* back a copy of the attachment that was out of date, or a tab got a job  *)
(* again that it already had.                                              *)
ClaimsAreTracked ==
  EveryClaimIsTracked \/ slips \cap {"write-back", "copy"} # {}

(* "A running job must NOT be reset": only a job whose socket is closed,   *)
(* lost or stale is taken away from it and queued again.  While its        *)
(* job_complete is under way it is (README, section 3): no run checks this.*)
NeverTakenFromLiveTab ==
  [][\A j \in DOMAIN jobs :
       /\ jobs[j].status = "running"
       /\ j \in DOMAIN jobs' /\ jobs'[j].status = "pending"
       /\ owner[j] # None
       => ~ (conn[owner[j]] = "open" /\ fresh[owner[j]])]_vars

(* The same of a tab that still executes the job: connecting, closing and  *)
(* completing others takes no job from it, unless it has lost track of one *)
(* or a socket was closed while its claim, refused later, was under way.   *)
NeverTakenWhileExecuting ==
  [][\A j \in DOMAIN jobs :
       /\ jobs[j].status = "running"
       /\ j \in DOMAIN jobs' /\ jobs'[j].status = "pending"
       /\ owner[j] # None /\ BagIn(<<owner[j], j>>, tasks)
       => \/ ~ (conn[owner[j]] = "open" /\ fresh[owner[j]])
          \/ slips # {}]_vars

(* A running job whose tab is lost, or was never there, does not stay so,  *)
(* whatever the tab said last, while the claims are tracked.               *)
Orphaned(j) ==
  StatusOf(j) = "running" /\ (owner[j] # None => conn[owner[j]] = "gone")

LostJobsAreRequeued ==
  \A j \in Jobs :
    Orphaned(j) ~> (~ Orphaned(j) \/ slips \cap {"write-back", "copy"} # {})
=============================================================================
