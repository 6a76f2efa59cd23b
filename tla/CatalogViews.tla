---------------------------- MODULE CatalogViews ----------------------------
(***************************************************************************)
(* How a browser tab keeps its DuckDB views at the latest snapshots: the   *)
(* catalog WebSocket (frontend/src/catalogWs.ts), the registration of      *)
(* views (catalogViews.ts, duckdb.ts) and the shell that starts both and   *)
(* tracks them (WorkbenchShell.tsx; App.tsx has the same code).            *)
(*                                                                         *)
(* A snapshot is the number of the commit that made it.  What runs between *)
(* two awaits of the tab is a step.  Asynchronous work is a task; a        *)
(* promise is the set of the tasks it still waits for, so that             *)
(* Promise.all is union and a task that ends is removed from every set.    *)
(***************************************************************************)
EXTENDS Naturals, Sequences, FiniteSets, FiniteSetsExt, Functions

CONSTANTS Tables,
          MaxSockets,   \* WebSockets of the tab at the same time
          Events,       \* the kinds of outside events that may happen ...
          MaxEvents,    \* ... and how many of them
          MaxCommits,   \* commits to the catalog
          MaxTasks      \* tasks at the same time

ASSUME ViewsAssumption ==
  /\ MaxSockets \in Nat \ {0}
  /\ MaxTasks \in Nat \ {0} /\ MaxCommits \in Nat \ {0}  \* as Init uses one
  /\ MaxEvents \in Nat
  /\ Events \subseteq {"lose", "visible", "manual", "toggle", "fault"}

VARIABLES latest,      \* [Tables -> Nat]: the catalog DO, 0 without snapshot
          conn,        \* readyState of each socket, "none" before and after
          dead,        \* sockets that broke, which the tab has not noticed
          wire,        \* [Sockets -> Seq(message)], commit messages under way
          ws,          \* the socket the connection calls its own, or None
          timer,       \* reconnectTimer is armed
          connects,    \* calls of connect() under way, and those due from
                       \* a timer that reconnectTimer no longer names
          before,      \* hasConnectedBefore
          tasks,       \* a function from task numbers to tasks
          refreshing,  \* currentRefreshPromise
          ready,       \* catalogReadyRef.current
          db,          \* dbInitPromise: none, creating, ready
          view,        \* [Tables -> Nat]: the snapshot each view reads
          listed,      \* catalogTables: [Tables -> Nat]
          failed,      \* catalogFailed
          error,       \* catalogError
          loading,     \* catalogLoading
          enabled,     \* sessionEnabled
          received,    \* history: the commit received last, per table
          missed,      \* history: a commit before the first open was lost
          overlap,     \* history: a pass beside other work, see StartPass,
                       \* and FinishList
          outdated,    \* history: a commit arrived while a list was under way
          gaveUp,      \* history: connect() failed and nothing is scheduled
          events       \* outside events left

socketVars == <<conn, dead, wire, ws, timer, connects, before>>
promiseVars == <<tasks, refreshing, ready>>
shellVars == <<view, listed, failed, error, loading>>
historyVars == <<received, missed, overlap, outdated, gaveUp>>
vars == <<latest, socketVars, promiseVars, db, shellVars, enabled,
          historyVars, events>>

Sockets == 1 .. MaxSockets   \* a socket is used again after its close
None == 0
Ids == 1 .. MaxTasks

IsTask(task) ==
  /\ task.kind \in {"init", "resync", "manual", "meta", "refresh"}
  /\ task.at \in {"wait", "db", "list", "views", "rejected"}
  /\ task.waits \subseteq Ids              \* the barrier of a refresh
  /\ DOMAIN task.entries \subseteq Tables  \* the snapshots to show, by table
  /\ \A t \in DOMAIN task.entries : task.entries[t] \in 1 .. MaxCommits
  /\ task.todo \subseteq DOMAIN task.entries \* still to do in this pass
  /\ task.bad \subseteq DOMAIN task.entries  \* failed[] of this pass
  /\ task.pass \in {1, 2}                  \* the second one retries what failed
  /\ task.attempt \in {1, 2}               \* of the whole initialisation

Outside(kind) == kind \in Events /\ events > 0 /\ events' = events - 1

-----------------------------------------------------------------------------
(* Tasks and promises.                                                     *)

HasRoom == DOMAIN tasks # Ids
NewId == Min(Ids \ DOMAIN tasks)

NewTask(kind, at, entries) ==
  [kind |-> kind, at |-> at, waits |-> {}, entries |-> entries,
   todo |-> DOMAIN entries, bad |-> {}, pass |-> 1, attempt |-> 1]

NoEntries == [t \in {} |-> 0]

Spawn(T, id, task) == [i \in DOMAIN T \cup {id} |-> IF i = id THEN task ELSE T[i]]

(* Task id ends: every promise that waits for it waits for the rest.       *)
End(id) ==
  /\ tasks' = [i \in DOMAIN tasks \ {id} |->
                 [tasks[i] EXCEPT !.waits = @ \ {id}]]
  /\ refreshing' = refreshing \ {id}
  /\ ready' = ready \ {id}

(* Task id goes on, with nothing else of the promises changed.             *)
Continue(id, task) ==
  /\ tasks' = Spawn(tasks, id, task)
  /\ UNCHANGED <<refreshing, ready>>

(* Seeded bug: the new work is not folded in.                              *)
WorkForgotten(work) == ready

(* catalogReadyRef.current = Promise.all([catalogReadyRef.current, work])  *)
ChainReady(work) == ready \cup work

(* Seeded bug: the barrier is read after the refresh was folded into it.   *)
BarrierWithItself(id) == ready \cup {id}

(* What refresh id waits for: the catalog-ready promise of its arrival.    *)
Barrier(id) == ready \ {id}

Listing == \E i \in DOMAIN tasks :
             tasks[i].kind # "refresh" /\ tasks[i].at = "views"

-----------------------------------------------------------------------------
(* initDuckDB: one promise for all callers, forgotten when it fails.       *)

(* A task that calls it is at this point afterwards.                       *)
AfterDb(next) == IF db = "ready" THEN next ELSE "db"

CallDb == db' = IF db = "none" THEN "creating" ELSE db

DbOpens ==
  /\ db = "creating"
  /\ db' = "ready"
  /\ tasks' = [i \in DOMAIN tasks |->
                 IF tasks[i].at # "db" THEN tasks[i]
                 ELSE [tasks[i] EXCEPT !.at = IF tasks[i].kind = "refresh"
                                              THEN "views" ELSE "list"]]
  /\ UNCHANGED <<latest, socketVars, refreshing, ready, shellVars, enabled,
                 historyVars, events>>

DbFails ==
  /\ Outside("fault")
  /\ db = "creating"
  /\ db' = "none"
  /\ tasks' = [i \in DOMAIN tasks |->
                 IF tasks[i].at # "db" THEN tasks[i]
                 ELSE [tasks[i] EXCEPT !.at = "rejected"]]
  /\ UNCHANGED <<latest, socketVars, refreshing, ready, shellVars,
                 enabled, historyVars>>

-----------------------------------------------------------------------------
(* Registering all views: runCatalogInit and registerCatalogViews.         *)

(* runCatalogInit up to its first await.  A pass that runs beside other    *)
(* work may overwrite a newer view; the history says whether it does, and  *)
(* whether the refresh button, which is in no promise, has part in it.     *)
StartPass(kind, id) ==
  /\ tasks' = Spawn(tasks, id, NewTask(kind, AfterDb("list"), NoEntries))
  /\ CallDb
  /\ loading' = TRUE
  /\ error' = FALSE
  /\ failed' = {}
  /\ overlap' = IF tasks = <<>> THEN "no"
                ELSE IF kind = "manual" \/ overlap = "manual"
                        \/ \E i \in DOMAIN tasks : tasks[i].kind = "manual"
                THEN "manual" ELSE "pass"
  /\ UNCHANGED <<view, listed>>

(* The session is off: only the list is fetched.                           *)
StartMeta(id, flags) ==
  /\ tasks' = Spawn(tasks, id, NewTask("meta", "list", NoEntries))
  /\ loading' = TRUE
  /\ error' = FALSE
  /\ failed' = flags
  /\ UNCHANGED <<db, view, listed, overlap>>

(* Seeded bug: a reconnect only replaces the list of tables.               *)
ResyncListOnly(id) == StartMeta(id, failed)

(* resyncCatalog, the caller's part of a reconnect.                        *)
Resync(id) == IF enabled THEN StartPass("resync", id) ELSE StartMeta(id, failed)

(* The catalog answers /catalog/snapshots-latest.                          *)
FetchList(i) ==
  LET entries == Restrict(latest, {t \in Tables : latest[t] > 0}) IN
  /\ tasks[i].at = "list"
  /\ Continue(i, [tasks[i] EXCEPT
       !.at = "views", !.entries = entries,
       !.todo = IF tasks[i].kind = "meta" THEN {} ELSE DOMAIN entries])
  /\ missed' = FALSE
  /\ outdated' = Listing
  /\ UNCHANGED <<latest, socketVars, db, shellVars, enabled, received,
                 overlap, gaveUp, events>>

FetchFails(i) ==
  /\ Outside("fault")
  /\ tasks[i].at = "list"
  /\ Continue(i, [tasks[i] EXCEPT !.at = "rejected"])
  /\ UNCHANGED <<latest, socketVars, db, shellVars, enabled, historyVars>>

(* At the end of the first pass, what failed is tried once more.           *)
Advance(task) ==
  IF task.todo = {} /\ task.bad # {} /\ task.pass = 1
  THEN [task EXCEPT !.todo = task.bad, !.bad = {}, !.pass = 2] ELSE task

(* CREATE OR REPLACE VIEW for one table of a pass, or for a refresh.       *)
CreateView(i, t) ==
  /\ tasks[i].at = "views" /\ t \in tasks[i].todo
  /\ view' = [view EXCEPT ![t] = tasks[i].entries[t]]
  /\ Continue(i, Advance([tasks[i] EXCEPT !.todo = @ \ {t}]))
  /\ UNCHANGED <<latest, socketVars, db, listed, failed, error, loading,
                 enabled, historyVars, events>>

(* Its credential, its token URL or the statement fails.                   *)
ViewFails(i, t) ==
  /\ Outside("fault")
  /\ tasks[i].at = "views" /\ t \in tasks[i].todo
  /\ Continue(i, Advance([tasks[i] EXCEPT !.todo = @ \ {t}, !.bad = @ \cup {t}]))
  /\ UNCHANGED <<latest, socketVars, db, shellVars, enabled, historyVars>>

Done(i) == tasks[i].at = "views" /\ tasks[i].todo = {}

(* setCatalogTables and setCatalogFailed at the end of a list.  What the   *)
(* pass failed for replaces the marks that other work has set meanwhile:   *)
(* the history says when it drops one.                                     *)
FinishList(i) ==
  /\ tasks[i].kind # "refresh" /\ Done(i)
  /\ listed' = [t \in Tables |-> IF t \in DOMAIN tasks[i].entries
                                  THEN tasks[i].entries[t] ELSE 0]
  /\ failed' = IF tasks[i].bad = {} THEN failed ELSE tasks[i].bad
  /\ overlap' = IF overlap # "manual" /\ ~ failed \subseteq failed'
                THEN "marks" ELSE overlap
  /\ loading' = FALSE
  /\ End(i)
  /\ UNCHANGED <<latest, socketVars, db, view, error, enabled,
                 received, missed, outdated, gaveUp, events>>

(* The whole initialisation is tried once more, two seconds later ...      *)
RetryInit(i) ==
  /\ tasks[i].at = "rejected" /\ tasks[i].attempt = 1
  /\ tasks[i].kind \in {"init", "resync", "manual"}
  /\ Continue(i, [NewTask(tasks[i].kind, AfterDb("list"), NoEntries)
                   EXCEPT !.attempt = 2])
  /\ CallDb
  /\ UNCHANGED <<latest, socketVars, shellVars, enabled, historyVars, events>>

(* ... and then given up; a list alone is given up at once.                *)
InitFails(i) ==
  /\ tasks[i].at = "rejected"
  /\ tasks[i].kind # "refresh"
  /\ tasks[i].kind = "meta" \/ tasks[i].attempt = 2
  /\ error' = TRUE
  /\ loading' = FALSE
  /\ End(i)
  /\ UNCHANGED <<latest, socketVars, db, view, listed, failed, enabled,
                 historyVars, events>>

-----------------------------------------------------------------------------
(* The refresh of one view after a commit message.                         *)

(* The barrier is passed; getDb throws if the session is off.              *)
RefreshStarts(i) ==
  /\ tasks[i].at = "wait" /\ tasks[i].waits = {}
  /\ IF enabled THEN CallDb ELSE UNCHANGED db
  /\ Continue(i, [tasks[i] EXCEPT
       !.at = IF enabled THEN AfterDb("views") ELSE "rejected"])
  /\ UNCHANGED <<latest, socketVars, shellVars, enabled, historyVars, events>>

FinishRefresh(i) ==
  /\ tasks[i].kind = "refresh"
  /\ tasks[i].at = "rejected" \/ Done(i)
  /\ failed' = IF (tasks[i].at = "rejected" \/ tasks[i].bad # {}) /\ enabled
               THEN failed \cup DOMAIN tasks[i].entries ELSE failed
  /\ End(i)
  /\ UNCHANGED <<latest, socketVars, db, view, listed, error, loading,
                 enabled, historyVars, events>>

-----------------------------------------------------------------------------
(* The catalog and its WebSocket.                                          *)

(* The sockets that the catalog DO sends its commits to.                   *)
Subscribed == {c \in Sockets : conn[c] = "open"} \ dead

(* A commit is broadcast.                                                  *)
Commit(t) ==
  LET v == latest[t] + 1 IN
  /\ v <= MaxCommits
  /\ latest' = [latest EXCEPT ![t] = v]
  /\ wire' = [c \in Sockets |->
                IF c \in Subscribed
                THEN Append(wire[c], [table |-> t, snapshot |-> v]) ELSE wire[c]]
  /\ missed' = (missed \/ ~ before)
  /\ UNCHANGED <<conn, dead, ws, timer, connects, before, promiseVars, db,
                 shellVars, enabled, received, overlap, outdated, gaveUp, events>>

(* connect() has its headers and opens a socket.                           *)
OpenSocket(c) ==
  /\ connects > 0
  /\ c = Min({k \in Sockets : conn[k] = "none"} \cup {MaxSockets + 1})
  /\ connects' = connects - 1
  /\ conn' = [conn EXCEPT ![c] = "connecting"]
  /\ ws' = c
  /\ UNCHANGED <<latest, dead, wire, timer, before, promiseVars, db, shellVars,
                 enabled, historyVars, events>>

(* There is no token, or asking for one throws: nobody tries again.        *)
ConnectFails ==
  /\ Outside("fault")
  /\ connects > 0
  /\ connects' = connects - 1
  /\ gaveUp' = TRUE
  /\ UNCHANGED <<latest, conn, dead, wire, ws, timer, before, promiseVars, db,
                 shellVars, enabled, received, missed, overlap, outdated>>

(* The catalog DO accepts a socket: its onopen, for the first time, ...    *)
FirstOpen(c) ==
  /\ conn[c] = "connecting" /\ c \notin dead /\ ~ before
  /\ conn' = [conn EXCEPT ![c] = "open"]
  /\ before' = TRUE
  /\ UNCHANGED <<latest, dead, wire, ws, timer, connects, promiseVars, db,
                 shellVars, enabled, historyVars, events>>

(* ... and after a reconnect: resync and onResync.                         *)
Reopen(c) ==
  /\ conn[c] = "connecting" /\ c \notin dead /\ before /\ HasRoom
  /\ conn' = [conn EXCEPT ![c] = "open"]
  /\ gaveUp' = FALSE
  /\ Resync(NewId)
  /\ refreshing' = refreshing \cup {NewId}
  /\ ready' = ChainReady(refreshing')
  /\ UNCHANGED <<latest, dead, wire, ws, timer, connects, before, enabled,
                 received, missed, outdated, events>>

(* handleCommit puts the snapshot of the message into the list.            *)
ListSnapshot(t, v) == [listed EXCEPT ![t] = v]

(* onmessage with a commit, and handleCommit.                              *)
Receive(c) ==
  LET id == NewId
      m == Head(wire[c]) IN
  /\ conn[c] = "open" /\ wire[c] # <<>> /\ HasRoom
  /\ wire' = [wire EXCEPT ![c] = Tail(@)]
  /\ tasks' = Spawn(tasks, id,
                    [NewTask("refresh", "wait", [t \in {m.table} |-> m.snapshot])
                     EXCEPT !.waits = Barrier(id)])
  /\ refreshing' = refreshing \cup {id}
  /\ ready' = ChainReady(refreshing')
  /\ listed' = ListSnapshot(m.table, m.snapshot)
  /\ failed' = failed \ {m.table}
  /\ received' = [received EXCEPT ![m.table] = m.snapshot]
  /\ overlap' = IF \E i \in DOMAIN tasks : tasks[i].kind = "manual"
                THEN "manual" ELSE overlap
  /\ outdated' = (outdated \/ Listing)
  /\ UNCHANGED <<latest, conn, dead, ws, timer, connects, before, db, view,
                 error, loading, enabled, missed, gaveUp, events>>

(* The network goes, with what is under way.                               *)
Lose(c) ==
  /\ Outside("lose")
  /\ conn[c] # "none" /\ c \notin dead
  /\ dead' = dead \cup {c}
  /\ wire' = [wire EXCEPT ![c] = <<>>]
  /\ UNCHANGED <<latest, conn, ws, timer, connects, before, promiseVars, db,
                 shellVars, enabled, historyVars>>

(* Seeded bug: no reconnect is scheduled.                                  *)
NoTimer == UNCHANGED <<timer, connects>>

(* The reconnect timer of onclose; one that is armed already goes on.      *)
TimerArmed ==
  /\ timer' = TRUE
  /\ connects' = IF timer THEN connects + 1 ELSE connects

(* Seeded bug: ws still names the socket that is closed.                   *)
OnCloseKeepsSocket(c) ==
  /\ c \in dead
  /\ dead' = dead \ {c}
  /\ conn' = [conn EXCEPT ![c] = "none"]
  /\ TimerArmed
  /\ UNCHANGED <<latest, wire, ws, before, promiseVars, db, shellVars, enabled,
                 historyVars, events>>

OnClose(c) ==
  /\ c \in dead
  /\ dead' = dead \ {c}
  /\ conn' = [conn EXCEPT ![c] = "none"]
  /\ ws' = None
  /\ TimerArmed
  /\ UNCHANGED <<latest, wire, before, promiseVars, db, shellVars,
                 enabled, historyVars, events>>

(* Five seconds later.                                                     *)
TimerFires ==
  /\ timer
  /\ timer' = FALSE
  /\ connects' = connects + 1
  /\ UNCHANGED <<latest, conn, dead, wire, ws, before, promiseVars, db,
                 shellVars, enabled, historyVars, events>>

(* The tab becomes visible while its socket is not open: it connects now,  *)
(* and no more when the timer would have.                                  *)
BecomeVisible ==
  /\ Outside("visible")
  /\ ws \notin {c \in Sockets : conn[c] = "open"}
  /\ timer' = FALSE
  /\ connects' = connects + 1
  /\ UNCHANGED <<latest, conn, dead, wire, ws, before, promiseVars, db,
                 shellVars, enabled, historyVars>>

-----------------------------------------------------------------------------
(* The user.                                                               *)

(* The button of the query panel: runCatalogInit, in no promise.           *)
Refresh ==
  /\ Outside("manual")
  /\ ~ loading /\ HasRoom
  /\ enabled => db = "ready"
  /\ StartPass("manual", NewId)
  /\ UNCHANGED <<latest, socketVars, refreshing, ready, enabled,
                 received, missed, outdated, gaveUp>>

(* The session is switched on: the effects run again, in their order.      *)
SwitchOn ==
  /\ Outside("toggle")
  /\ ~ enabled /\ HasRoom
  /\ enabled' = TRUE
  /\ StartPass("init", NewId)
  /\ ready' = ChainReady({NewId})
  /\ UNCHANGED <<latest, socketVars, refreshing, received, missed, outdated, gaveUp>>

SwitchOff ==
  /\ Outside("toggle")
  /\ enabled /\ HasRoom
  /\ enabled' = FALSE
  /\ StartMeta(NewId, {})
  /\ UNCHANGED <<latest, socketVars, refreshing, ready, received,
                 missed, outdated, gaveUp>>

-----------------------------------------------------------------------------
(* The effects of the first rendering have run: connect() and either the   *)
(* initial registration or, with the session off, the list.                *)
Init ==
  /\ latest \in [Tables -> {0, 1}]
  /\ conn = [c \in Sockets |-> "none"]
  /\ dead = {}
  /\ wire = [c \in Sockets |-> <<>>]
  /\ ws = None
  /\ timer = FALSE /\ connects = 1
  /\ before = FALSE
  /\ enabled \in BOOLEAN
  /\ tasks = [i \in {1} |-> NewTask(IF enabled THEN "init" ELSE "meta",
                                    IF enabled THEN "db" ELSE "list", NoEntries)]
  /\ refreshing = {}
  /\ ready = IF enabled THEN {1} ELSE {}
  /\ db = IF enabled THEN "creating" ELSE "none"
  /\ view = [t \in Tables |-> 0]
  /\ listed = [t \in Tables |-> 0]
  /\ failed = {} /\ error = FALSE /\ loading = TRUE
  /\ received = [t \in Tables |-> 0]
  /\ missed = FALSE /\ overlap = "no" /\ outdated = FALSE /\ gaveUp = FALSE
  /\ events = MaxEvents

TaskStep(i) ==
  \/ FetchList(i)
  \/ \E t \in Tables : CreateView(i, t)
  \/ FinishList(i)
  \/ RetryInit(i) \/ InitFails(i)
  \/ RefreshStarts(i) \/ FinishRefresh(i)

SocketStep(c) ==
  OpenSocket(c) \/ FirstOpen(c) \/ Reopen(c) \/ Receive(c) \/ OnClose(c)

(* What goes on by itself: a request of the tab is answered, by success or *)
(* failure, a socket is accepted, delivers or is noticed to be broken, and *)
(* DuckDB starts.                                                          *)
Work ==
  \/ \E i \in DOMAIN tasks : TaskStep(i)
  \/ \E c \in Sockets : SocketStep(c)
  \/ DbOpens \/ TimerFires

Next ==
  \/ Work
  \/ \E t \in Tables : Commit(t)
  \/ \E i \in DOMAIN tasks : FetchFails(i)
  \/ \E i \in DOMAIN tasks, t \in Tables : ViewFails(i, t)
  \/ \E c \in Sockets : Lose(c)
  \/ DbFails \/ ConnectFails
  \/ BecomeVisible \/ Refresh \/ SwitchOn \/ SwitchOff

(* Nothing is assumed of the user, of commits or of faults.                *)
Fairness == WF_vars(Work)

Spec == Init /\ [][Next]_vars /\ Fairness

-----------------------------------------------------------------------------
(* Properties.                                                             *)

(* The variables have their types, promises wait only for tasks that run,  *)
(* and the connection's own socket is one that exists.                     *)
TypeOK ==
  /\ latest \in [Tables -> 0 .. MaxCommits]
  /\ conn \in [Sockets -> {"none", "connecting", "open"}]
  /\ dead \subseteq Sockets
  /\ wire \in [Sockets -> Seq([table : Tables, snapshot : 1 .. MaxCommits])]
  /\ ws \in {None} \cup {c \in Sockets : conn[c] # "none"}
  /\ timer \in BOOLEAN /\ connects \in Nat
  /\ before \in BOOLEAN
  /\ DOMAIN tasks \subseteq Ids
  /\ \A i \in DOMAIN tasks : IsTask(tasks[i])
  /\ \A S \in {refreshing, ready} : S \subseteq DOMAIN tasks
  /\ db \in {"none", "creating", "ready"}
  /\ view \in [Tables -> 0 .. MaxCommits]
  /\ listed \in [Tables -> 0 .. MaxCommits]
  /\ failed \subseteq Tables
  /\ {error, loading, enabled, missed, outdated, gaveUp} \subseteq BOOLEAN
  /\ received \in [Tables -> 0 .. MaxCommits]
  /\ overlap \in {"no", "pass", "marks", "manual"}
  /\ events \in 0 .. MaxEvents

(* The user is told that a view may be old: its table or the whole catalog *)
(* is marked.                                                              *)
Told(t) == t \in failed \/ error

(* When catalogReadyRef resolves, every commit whose message has arrived   *)
(* is in its view or its table is marked: a query that waits for the       *)
(* promise sees them all.  The refresh button is in no promise, and its    *)
(* pass can put an older snapshot back; a pass that fails for one table    *)
(* may drop the mark of another.                                           *)
ReadyMeansShown ==
  ready = {} /\ enabled /\ overlap \notin {"marks", "manual"}
    /\ (\A i \in DOMAIN tasks : tasks[i].kind # "manual") =>
      \A t \in Tables : view[t] >= received[t] \/ Told(t)

(* The tab is connected and nothing is under way.                          *)
Settled ==
  /\ tasks = <<>> /\ dead = {} /\ ~ timer /\ connects = 0
  /\ Subscribed # {}
  /\ \A c \in Sockets : conn[c] # "connecting" /\ wire[c] = <<>>

(* Once nothing is under way, every view is at the latest snapshot or its  *)
(* table is marked, whatever was lost, retried and resynchronised before,  *)
(* unless a pass ran beside other work; and the list of tables shows the   *)
(* latest ones, unless a commit arrived between the answer of a list and   *)
(* its display, which puts the older snapshot back.  Neither holds after a *)
(* commit between the first list and the first open, or when a reconnect   *)
(* was given up.                                                           *)
SettledTabIsLatest ==
  Settled /\ ~ missed /\ ~ gaveUp =>
    /\ enabled /\ overlap = "no" =>
         \A t \in Tables : view[t] = latest[t] \/ Told(t)
    /\ ~ outdated /\ ~ error => listed = latest

(* The catalog-ready promise always resolves: no refresh waits, through    *)
(* the barrier it captured, for itself or for one that waits for it.       *)
ReadyResolves == ready # {} ~> ready = {}

(* A tab whose socket is gone is connected again, unless connect() failed. *)
Reconnects == []<>(gaveUp \/ Subscribed # {})
=============================================================================
