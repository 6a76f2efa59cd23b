# A verification development for data-shack

data-shack is a personal data warehouse: a Cloudflare Worker with two Durable
Objects per user, a D1 database, R2 storage and a queue on one side, and a
browser tab that runs DuckDB-WASM on the other. SQL runs in the tab, the worker
decides what has to run and remembers what was committed. This directory holds
TLA+ models of the parts where that division of labour is hard to get right,
the TLC configurations that check them and TLAPS proofs about them.

Source paths below are relative to the repository: `src/catalog/do.ts` is the
worker's file of that name, `frontend/src/sessionWs.ts` the browser's.

## 1. The system

### Catalog Durable Object (`src/catalog/do.ts`)

*State*: one SQLite database per user with `tables` (soft-deleted rows),
`snapshots`, `commits`, `transform_jobs`, `triggers`; plus the WebSockets that
subscribed to commits.
*Operations*: commit a snapshot (restores the table, evaluates the triggers and
enqueues jobs, broadcasts), delete a table, patch a snapshot; create, list,
patch, delete, trigger, claim, complete and fail a transform job;
`reset-orphaned` and `reset-pending`; create and delete triggers.
*Interactions*: called by the worker's routes and MCP tools, by the loaders
(commit) and by the session DO (claim, complete, fail, reset, list, commit).
*Hard*: every handler is atomic (no await), so nothing interleaves inside it,
but the requests arrive in any order: commit against completion against trigger
creation, completion of a job that was requeued meanwhile, deletion and
re-commit of a table, two events in one millisecond.
*Correct if*: a job is claimed by one caller at a time and leaves `running` only
by a report or a reset; no commit that satisfies a trigger is missed; triggers
do not outlive jobs; the last commit is what `snapshots-latest` presents.

### Session Durable Object and browser session (`src/session/do.ts`, `frontend/src/sessionWs.ts`)

*State*: the accepted WebSockets with an attachment each (`userId`,
`inflightJobIds`, `lastPingAt`), the in-memory map `pendingQueries` with a
timer per entry.
*Operations*: connect, ping, `job_claimed`, `job_complete`, `job_error`,
`query_result`, `query_error`, close and error; POST `/query` and
`/dispatch-jobs`. The tab's side: receive a `transform_job`, announce the claim,
run the SQL, write the Parquet file, report; receive a `query`, run it, answer;
ping every 25 s, reconnect with back-off.
*Interactions*: calls the catalog DO for everything about jobs; is called by
`index.ts` and `mcp/server.ts` after commits and triggers.
*Hard*: handlers await up to five calls to the catalog while other messages,
connects and closes are handled; attachments are read before an await and
written after it; a tab does not wait for its claim to be granted; tabs die
silently (no ping for 75 s makes them stale), are throttled, compete for jobs;
the DO is evicted and its sockets break without a close handler; calls fail.
*Correct if*: a job that is queued gets executed once a tab is there; a job whose
tab is lost is queued again; a job that a live tab is executing is not taken
away; a job is `done` only when its output was committed; each MCP query gets
one outcome in bounded time and leaves nothing behind.

### Load jobs (`src/db/load-jobs.ts`, `src/loaders/*.ts`, `scheduled` and `queue` in `src/index.ts`)

*State*: rows of `load_jobs` in D1 (`next_run_at`, `enabled`, `last_run_at`,
`last_error`, configuration); messages in a Cloudflare Queue (`max_retries` 3).
*Operations*: CRUD over HTTP and MCP; the minute cron reads the due jobs,
advances `next_run_at` and sends a message each; the consumer reads the job,
runs the loader (fetch, write the object, commit to the catalog), writes the
outcome, dispatches what the commit triggered, acknowledges or retries.
*Hard*: the row is read at the start of a run and written at its end; cron, edit,
disable, delete, manual trigger and retries interleave with it; the queue
delivers at least once; the cron's two effects are separate.
*Correct if*: a due job is run; an edited schedule is honoured; a failing job is
retried a bounded number of times; an object is committed only when complete.

### Catalog view synchronisation (`frontend/src/catalogWs.ts`, `catalogViews.ts`, `duckdb.ts`, `App.tsx`, `WorkbenchShell.tsx`)

*State*: DuckDB views, one per table, pointing to the latest snapshot; the
catalog WebSocket with its reconnect timer; the list of tables; a promise,
*catalog ready*, that transforms and queries wait for.
*Operations*: open the database (memoised), load all snapshots (retried once,
with a second pass for views that failed), replace a view on a commit message,
resync after a reconnect, refresh by hand, switch the session off and on.
*Interactions*: the catalog DO broadcasts each commit to its subscribers; the
session client awaits *catalog ready* before it runs a query.
*Hard*: commits that are broadcast between the load and the socket's opening; a
resync that races single updates; a message handler that waits for the promise
it has just been made a part of; a timer, a tab that becomes visible and the
close of an older socket that all connect; no closing event for a dead socket.
*Correct if*: once nothing is under way, each view shows the latest snapshot;
*catalog ready* resolves, and means that what was known at its creation is
shown; a lost socket is replaced.

### OAuth and identity (`src/auth/*.ts`, `src/db/oauth.ts`, `src/db/queries.ts`, `frontend/src/auth.ts`)

*State*: D1 rows for clients, login states, authorization codes, refresh
tokens, users, identities, credentials; in the browser `localStorage` (client
id, tokens), which the tabs share, and cookies (state, verifier).
*Operations*: register a client, authorize, connect Google Sheets, callback
from Google, exchange of a code, refresh. *Hard*: a row is read and then deleted
or claimed by another statement; a first login looks for an identity, then for
a user, and creates both; a rotation interrupted in the middle; two tabs that
share what they store; reloads of the callback address.
*Correct if*: a state, a code and a refresh token are used once; an account has
one user; a tab does not hold a dead token for a live one; a login that nothing
disturbs succeeds.

### Workbench: dashboards, saved queries, backends, credentials, jobs (`frontend/src/WorkbenchShell.tsx` and its editors, the panels, routes in `src/index.ts`, tools in `src/mcp/server.ts`, `src/db/*.ts`)

*State*: rows in D1 and in the catalog; in each window the lists, a tab bar of
which only the active tab is shown, and what its editor has loaded.
*Operations*: open, focus and close tabs; create, save and delete rows of six
kinds; the same by MCP tools and by the panels of the older interface.
*Hard*: a dashboard's slug is looked up and then written; its old text is read,
kept as a snapshot and overwritten by three statements; a transform's editor
replaces triggers by several requests; answers arrive after the tab was closed
or another one was shown; users, windows and agents edit the same row.
*Correct if*: no text of a dashboard is lost; a slug is refused only when another
request took it meanwhile; an editor shows the triggers that exist; the tab bar
stays sound.

### Storage (`src/storage/*.ts`, `frontend/src/storage.ts`, `resolveQuery.ts`, `src/db/settings.ts`)

*State*: backends in D1; credentials for the proxy in Workers KV, which becomes
consistent within a minute, with a life of an hour; in the browser a cache of
credentials by name, DuckDB's secrets and the views registered with them; objects and
multipart uploads in R2 and S3-compatible stores, sheets.
*Operations*: resolve the names in a query and acquire a credential for each
(vend, write to KV, read back up to five times), set the secrets, run; the
proxy checks a request's credential and forwards it to the bound bucket, an
S3-compatible store or a sheet; data-source tokens for HTTP feeds.
*Hard*: a cached credential outlives a rename; several rows of `credentials` may
have one name, and one of another type hides the others; secrets are shared by all queries;
KV may not show the credential where the request arrives; a write in parts is
interrupted or its backend changes.
*Correct if*: a name reaches the backend it denotes, or denoted in the last hour; a query whose names exist is
not refused; an object is whole or absent.

### The rest

* Cryptography (`src/crypto.ts`, `src/auth/jwt.ts`): AES-GCM, JWT, PKCE.
* Rendering (`frontend/src/*.tsx`): tables, charts, forms, the dashboards' frames.
* Migrations, scripts, Pages functions: run once, or stateless.

The hazards of each, with their lines, are listed in `PROJECT.json`.

## 2. Modules

| module | models | composes |
| --- | --- | --- |
| `JobQueue` | abstract: what the catalog promises about jobs | |
| `CatalogDO` | the catalog DO | implements `JobQueue` |
| `TransformSession` | execution of transform jobs: session DO, tabs, dispatching routes | extends `CatalogDO` |
| `QueryService` | abstract: what a caller of `/query` sees | |
| `QueryRelay` | `/query` of the session DO with the tab's answer | implements `QueryService` |
| `LoadJobs` | load jobs: rows in D1, cron handler, queue consumer, requests | |
| `Loader` | one run of a load job: pages, parts, object, commit | the `Load` step of `LoadJobs` in detail |
| `CatalogViews` | a tab's views, catalog socket and *catalog ready* promise, against the catalog's commits | |
| `OAuthFlow` | OAuth server with its tables, and the tabs that sign in | |
| `Workbench` | windows, agents and panels editing rows; dashboards statement by statement | |
| `Storage` | credentials of the proxy, the browser's cache and secrets, reads and writes | |
| `MC*` | instances for TLC | |
| `*_proofs` | theorems for every value of the constants | |

### CatalogDO

`tables`, `snapshots`, `jobs` and `triggers` are the SQLite tables (a row of
`commits` is the snapshot it belongs to; the sequence is the order of insertion);
`now` is `Date.now()`, which two requests may see unchanged. Each action is one
request handler from its validation to its response; a request that a handler
rejects changes nothing, and its action is disabled (`PatchSnapshot` is the
exception that the code makes: the uri is updated before the format is
validated). `Commit` contains the evaluation of triggers, `Fired`, with both
policies. `last_completed_at` 0 stands for NULL, which the code reads as 0.
The broadcast on the catalog WebSocket has no effect on this state and belongs
to the view synchronisation.

### TransformSession

Extends `CatalogDO` and uses its actions for the calls. `handlers` holds the
suspended handlers of the session DO in the order of their calls, as records
with the call each is at and the locals it still needs; e.g. `job_claimed` keeps
the attachment as it was read, because `ClaimFailed` writes that copy back.
`conn` tells `gone` (the tab is lost, the DO does not know) from `none`;
`inflight` and `fresh` are the attachment; `down`, `tasks` and `up` are messages
to the tab, transforms it executes, and its messages in order (a WebSocket keeps
order; the tab handles `transform_job` messages concurrently, hence a bag).
`owner`, `calm` and `slips` are history variables for the properties; `slips` names the
three ways in which the DO loses track of a job: `"write-back"`, a refused claim
wrote back an attachment that had changed meanwhile; `"copy"`, a job was sent to a
tab that had it already; `"close"`, a socket was closed with a job in its attachment
that it did not hold. `events` bounds the outside events, connects included and
errors of transforms not. Where the code's steps are:

* `handleUpgrade`: `Connect`, then `ResetOrphaned`, `ListAndSend`;
* `job_claimed`: `ReceiveClaimed`, `Claim`, on refusal `ClaimFailed`;
* `job_complete`: `ReceiveComplete`, `ReadSpec`, `CommitOutput`, if the commit
  enqueued something `Collect`, `ResetOrphaned`, `ListAndSend`, then `Complete`;
* `job_error`: `ReceiveError`, `Fail`; close and error: `Close`, `Requeue`;
* `/dispatch-jobs`: `Push`, `PushList`; its callers: `UserTrigger`, `UserCommit`;
* the tab: `BrowserStart`, `BrowserFinish`, `Disconnect`, `Ping`, `GoStale`;
* `CallFails` is a call that throws before it has an effect. A call that took
  effect and whose answer is lost is covered by the restart after that step.

Abstractions: time is fixed in these runs (only `any` triggers, which do not
look at it; `CatalogDO` checks `all`); attachments copied into a suspended
handler become stale with the original; a socket is reused only when no handler
refers to it.

The constant `Overtaking` says whether a call to the catalog may overtake an
earlier one. The session DO makes a new stub per call, for which the platform
promises no order, though in practice calls from one object to another arrive in
order. The runs name the choice: properties hold with `Overtaking = FALSE`,
except that `session_faults` checks recovery with `TRUE`. Two things are lost
without order, as runs with changed configurations show: in a chain, a
`job_error` that overtakes its own job's claim leaves the job running without an
owner, and a `reset-pending` that overtakes a claim does the same.

### QueryRelay

`pendingQueries` and `timers` are the map and the armed `setTimeout`s, `call`
what the caller of `/query` got, `message` where the query or its answer is.
All handlers are atomic but for the wait. `AskFails` is `ws.send` throwing,
`Timeout` the 30-second timer, `Close` `rejectPendingForSocket`.

### LoadJobs

`rows` is the D1 table `load_jobs`, reduced to the schedule and what is written
about runs (`cron_schedule`, `next_run_at`, `enabled`, `last_run_at`,
`last_error`); a cron expression is the set of instants at which it fires, and
`Beyond` is the first instant after the last one of the model. Every D1
statement and every queue operation is a step of its own:

* `scheduled`: `Scheduled` reads the due rows; for each it leaves two effects in
  `cron`, the advance and the message, which `Promise.all` carries out in any
  order (`AdvanceNextRunAt`, `SendMessage`) and of which one may fail
  (`CronFault`);
* `queue`: `StartLoad` reads the row (or `Skip` finds none), `Load` or `LoadFails`
  is the loader, `ReportSuccess` and `ReportFailure` write the outcome with what
  was read before the load, `Ack` follows the dispatch of triggered jobs.
  `Redeliver` is the queue's retry (`wrangler.toml`: 3), also after a consumer that
  is cut off (`Crash`). A statement that throws outside the consumer's `try` ends
  in `lost`: `Promise.allSettled` ignores it and the queue acknowledges the
  message of a handler that returned (`ConsumerFault`);
* requests: `Create`, `Patch`, the MCP update in its two steps (`ReadForUpdate`,
  `WriteUpdate`), `SetEnabled`, `Delete`, `Trigger`.

A message carries its own copy of the row (`msgs[m].row`) only while a handler
uses it. Abstractions: one invocation of the cron handler ends before the next
begins (it is a minute long at most); a message that the queue delivers twice
without a crash behaves like an additional `Trigger`; `last_error` is a flag.
`reported` is a history variable.

### Loader

`runHttpLoadJob` and `runGoogleSheetsLoadJob` from configuration to commit. `pc` is
the call or loop the run is at; `buf`, `bufSize`, `first` are the writer's locals,
`stored`, `partSizes`, `upload`, `object` the object store as the code sees it,
`fetched` a history of what the upstream delivered. An item is a record of its
position and the size of its text, so that losing, doubling or reordering one is
visible while nothing is put together character by character; brackets and
commas are chunks of size 1. R2 and S3 writers have the same steps (`Initiate`,
`EnqueueItem`, `FlushPart`, `FlushLast`, `Abort`, `Complete`); in both, the completing
call is outside of the `try`. The buffer is emptied before the part is uploaded
(`FlushFails`), and a failed commit may have taken effect (`CommitFails`). The
sheet loader shares the variables, with `bufSize` as its `totalSize`.
`UpdateFormat` is `update_load_job` before the run reads the row. A status of
success is taken for success: an S3 store that answers a completion with 200 and
an error in the body is outside of the model.

### CatalogViews

A snapshot is the number of its commit, `latest` what the catalog holds,
`view` and `listed` what the tab shows. What runs between two awaits is a step
(the mount effects of the shell are `Init`). Asynchronous work is a *task* with the
await it is at: the initial load (`init`), a `resync`, a `manual` refresh, the list
alone (`meta`, when the session is off) or the handling of a commit message
(`refresh`). A promise is the set of tasks it waits for, so that `Promise.all` is
union (`ChainReady`), and a task that ends leaves every set (`End`). `ready` is
`catalogReadyRef.current`, `refreshing` the client's `currentRefreshPromise`, and a
task's `waits` is the barrier it captured. `ws`, `timer`, `conn`, `wire`, `dead` are
the socket the client calls its own, `reconnectTimer`, the ready states, the
messages under way and the sockets whose loss is not noticed yet.

Abstractions: accepting a socket on the server and `onopen` are one step; the
await of `dbReady` in a refresh is a guard on `db`; `Advance` is the end of a pass
with the start of the second one. `App.tsx` (162-352) and `WorkbenchShell.tsx` (300-479)
have the same code, which is modelled once. Deletions of tables are not
broadcast. History variables name what the properties exempt: `missed` (a
commit before the first open), `overlap` (a pass of all views beside other
work; `"marks"` when its failures also replace the marks of a table that such work
had set), `outdated` (a commit while a list is under way), `gaveUp` (`connect()` found
no token, after which nothing retries).

### OAuthFlow

A *flow* is one visit to Google: its number stands for the state and the verifier
drawn for it, the row of `oauth_states` and the code in the end. A request is a
record with the D1 statement it is at; `SelectState` and `TakeState` are the two
statements of `getAndDeleteOAuthState`, `ClaimCode` and `ClaimToken` are single updates whose
count decides. `FindIdentity`, `FindOwner`, `LinkIdentity`, `CreateUser` are
`resolveUserId`, with the one retry of its caller (`Throws`). `store` is
`localStorage`, one per context (an installed app has its own), `cookies` the
browser's, a tab the page it is at; `clientId` is the local variable with which `startLogin`
goes on, whatever the storage holds by then. A tab may close, reload the callback address,
lose a request before or after it was served; rows expire. `Hop` is Google's page
coming back in the browser's tab after the login began in the installed app.

### Workbench

`rows` holds the rows of all six kinds, numbered by ids; a *text* is one version of
what a row holds. A *call* is one run of an asynchronous function of the browser
or one MCP tool, at one of its D1 statements or requests. A dashboard is updated by
`ReadDashboard`, `TrySlug` for each candidate, `TakeSnapshot`, `UpdateRow`; deleted by
`ReadDashboard`, `TakeSnapshot`, `WriteDelete`; created by `TrySlug`, `InsertRow`. Saving a
transform is `PutTransform`, a `ClearTrigger` for each trigger the editor knows of, in any
order, `PostTrigger`. A window has its lists, tabs, the active tab, and for a
transform the triggers shown; showing another tab unmounts the component (`Show`),
whose calls go on and keep nothing. `Lose` is a request that fails, before or after
it was served.

Agents (`Agent`) and the older interface's panels (`Panels`) are writers without
windows: of panels only the requests are modelled, not their own lists and forms.
`others` says which of them take part. Kinds do not touch each other, so
each behaviour has rows of one kind. All slugs come from one title: digits after
the first are suffixes. A new tab gets a number above those in use, which stands for
the random id the code draws. History variables: `overlapped` (dashboards that a request
read while another had read and not yet written them), `astray` (transforms that not one
sound editor alone edited: another writer, a save before the load or across a change of
tabs, a failed request), `raced` (a slug was given to a dashboard since the lookup).

### Storage

`rows` are the rows of `storage_backends` (`bound`, `s3`, `sheet`) and of `credentials` (`http`
and any other type, `google`), 0 the bucket that the worker is bound to. The names of
backends are unique (migration 0006); nothing makes those of credentials so, neither
an index nor the routes (`src/index.ts:330-394`). A name is looked up as in
`src/db/settings.ts:98-116`: the first row of that name in the table its URI refers to, of
whatever type, and only then the type is checked. So an older row of type `google`
hides a feed of its name (`Lookup`). `creds` are the credentials that were vended, with their
backend, their bucket (the scope of the secret), an age of 0 (cached), 1 (the
browser asks for a new one) or 2 (expired), and the places where KV shows them. A
*task* is a query, a registration of a view, a read of a view or a write:
`Resolve` each name (`Cached`, or `Vend`, `Check` up to `MaxChecks`, `Acquire`; for http-ds
`VendToken`), then `SetSecret`, then reads (`ReadOwn`, `ReadRemote`, `ReadSheet`, `ReadFeed`, or
`ReadFails`) or a write (`PutOwn`, ... or `Initiate`, `UploadPart`, `Complete`), then `Leave`,
which leaves the secrets behind. A secret is found by its scope and replaced by its
sanitised name (`Clean`). An object is a sequence of chunks labelled with the write
they come from. `Roam` moves the tab to another place of the network, `Propagate` is
KV.

Abstractions: a registration makes one view (the code shares one map among all
views of a pass); a request is answered within the minute between the
browser's margin and the expiry, unless `slow`; of the rows of one name the oldest is
the first, as the tables are scanned; a name denotes what the worker
itself would read under it (`Denotes`, from `catalog-fetch.ts`; a sheet, which that
file cannot read, denotes itself). `former` records what each name denoted before an edit
and how many credentials were out by then.

## 3. What is checked

| run | question | instance |
| --- | --- | --- |
| `catalog` | a live table has a snapshot; the last commit is presented; no commit missed; jobs follow `JobQueue` | 2 tables, 1 job, 1 trigger, 3 commits, 3 instants |
| `session_chain` | done means committed; a calm connection brings every queued or orphaned job of a chain to an end | 1 tab, 2 jobs, 3 of disconnect, restart, delete |
| `session_tabs` | lost jobs are queued again, unless their claim was erased | 2 tabs, 1 job, 4 of connect, disconnect, throttling |
| `session_pair` | nothing but the two known slips makes the attachment forget a job that the tab executes; a job is not taken from a tab that executes it, unless the DO has slipped | 2 tabs, 2 jobs, 3 of connect, disconnect; symmetry of tabs and of jobs |
| `session_faults` | recovery with failing and overtaking calls and dispatches by the worker | 1 tab, 3 outside events |
| `load_jobs` | every message leaves an outcome; no job stays due; an outdated `next_run_at` heals | 1 job, 2 schedules, 3 instants, 1 retry, 2 outside events |
| `loader` | a committed object is complete; parts are large enough; every run ends | 3 formats, 5 items of 2 sizes, 3 pages, least part 4, largest sheet 6 |
| `catalog_views` | *catalog ready* means shown and resolves; a tab at rest shows the latest snapshots; a lost socket is replaced | 1 table, 2 commits, 2 sockets, 3 tasks, 2 outside events of 5 kinds |
| `oauth` | one user per account; states, codes and tokens are used once; the stored token is live; an undisturbed login succeeds | 2 tabs in one context or two, 1 account (unknown, allowed or not, or an old user), 2 flows, 2 requests at a time, 1 outside event of 5 kinds |
| `workbench` | no text is lost; slugs fail only in a race; editors show their triggers; tab bars are sound | 1 or 2 windows, agents, panels; 1 or 2 rows of one kind, 3 or 4 acts, 3 calls at a time, 1 failure |
| `storage` | a name reaches its backend; objects are whole; served queries and views | 11 cases over 5 types of backend and credential, two rows of one name among them; 2 tasks at a time, 3 queries, 2 places, 2 outside events |
| `query_relay` | a call waits exactly while map and timer know it; each call is answered, once | 3 calls, 2 tabs, no bound on connects |

Each has the instance that makes the hazard happen: a second commit after a
completion for `NoMissedCommit`, a chain for the dispatch inside `job_complete`,
two tabs for refused claims, and two jobs so that one tab's refused claim is under
way while it makes another, two queries on a socket when it closes, an edit and
a failure around one run, a buffer that ends exactly at, below and above the
least part size, a text that only its brackets push over a boundary. One connect
is an outside event too, so with three or four of them a tab can be lost and
replaced. `session_pair` has three of them for its two jobs: two tabs, one of which is
lost or replaced; it has no restart, throttling or overtaking call, and its calls
succeed. `catalog_views` has one table because views do not influence each other but
through the tasks that load them, and two events so that a socket can be lost
again while the resync of the first loss runs. In `oauth` two flows and two tabs
let an older login end after a newer one began, and two requests at a time let
any two statements interleave. In `workbench` a behaviour has rows of one kind,
because no statement looks at two; two dashboards may want one slug. In `storage`
each case is a combination of backends and tasks whose requests meet.
Each property has a mutant in its module ("Seeded bug") that breaks it.

The type invariants of `CatalogDO`, `QueryRelay`, `LoadJobs` and `Loader`, and
`TriggersHaveJobs` and `PendingOnConnected`, are proved and therefore not run; the
other modules' type invariants are proved and run.

### Where the code does not do what it says

Seen while modelling; none is a run of its own. Where a configuration is named, TLC
finds it with the change that is given, which also takes the place of the
configuration's own properties.

* *A transform runs twice.* `job_complete` removes the job from the attachment
  (`src/session/do.ts:298`) before five awaits. A dispatch in between finds it
  running and unclaimed, and queues it again; `test/session.test.ts:930` says that a
  running job of a live socket "must NOT be reset". `MCSessionPair.cfg` with
  `PROPERTY NeverTakenFromLiveTab`.
* *A refused claim erases a granted one.* On a 409 the handler writes back the attachment as it
  read it before the claim, less the refused job (`src/session/do.ts:287`): a job that the
  same tab has claimed in the meantime is gone from it, so closing the
  tab resets nothing, though README.md:228 says "if the browser session closes
  mid-job, the session DO resets the job to `pending`". `MCSessionPair.cfg` with
  `INVARIANT EveryClaimIsTracked`. With one job it takes a second message for it: a job
  that is sent twice to one tab is claimed twice, and the second claim's refusal
  removes it (`MCSessionTabs.cfg` with `Sockets = {s1}`, `Events = {"trigger"}`,
  `MaxEvents = 2`). `ClaimsAreTracked` says that there is no third way, and
  `LostJobsAreRequeued` holds but for these two.
* *A commit during a run is not noticed* (`src/catalog/do.ts:442`), though
  README.md:232 says that after every commit the job is enqueued if there is
  something newer than its last run. `MCCatalogDO.cfg` with
  `PROPERTY CompletedRunSawCommits` and no symmetry.
* *A paginated job becomes csv.* `update_load_job` checks the pagination against
  the format only when it is given one (`src/mcp/server.ts:1354`); line 275 says
  "Requires format json or ndjson". `MCLoader.cfg` with
  `INVARIANT PaginationRequiresJson`.
* *A login that comes back in the browser's tab fails.* `frontend/src/auth.ts:7-10`
  keeps verifier and state in cookies so that they survive the hop out of the
  installed app; the client id is only in `localStorage`, and `auth.ts:173` gives up.
  `MCOAuthFlow.cfg` with `PROPERTY HopSurvives`.
* *`getJobSpec` fails, the job is done* (`src/session/do.ts:302`): `job_complete` skips the
  commit. `DoneMeansCommitted` with one tab and the outside event `"fault"`.
* *A tab requeues another one's job.* `job_claimed` enters the job in the attachment before the
  catalog has granted it (`src/session/do.ts:279`), and a close requeues whatever is
  there (`src/session/do.ts:369-379`). So the job of another tab is taken away by a tab that
  announces a claim and closes before it is refused, and by the late close of a
  stale or lost socket whose job was queued again, claimed and is executed
  elsewhere. `NeverTakenWhileExecuting` exempts what follows a slip of any kind.
* *The cron handler's advance is no claim*, as `build-plan.md:128` calls it: a failing
  run writes back the `next_run_at` it read. `DueIsEnqueued` and `ScheduleHeals`
  say what holds instead.
* *New dashboards cannot be saved in the workbench*: `DashboardEditView` sends a POST
  for which there is no route (`NoRoute`), though README.md:56 lists "create/edit/delete".
* *Overlapping updates of a dashboard lose a text*, though README.md:46 says
  "auto-snapshots on every update and delete": both keep the same old text, and
  the first one's new text is overwritten unkept (`overlapped`). Snapshots have no slug.
* *A backend of type r2-bound under a name of the user's cannot be queried*: its
  credential is for the bucket `r2-bound` (`src/storage/router.ts:152`), whose secret does
  not match `s3://name/`; README.md:157 and 289 say that any name works.
* *A view stops working after an hour or less*: it stays registered with a secret or token
  of one hour, counted from its vending, and nothing refreshes it. A registration takes
  the credential from the tab's cache (`frontend/src/storage.ts:22`), where it may be 59 minutes
  old, so the view may stop working a minute later. `ViewsExpireWithCredentials` is what holds.

What the properties exempt, because the code does not handle it and no text says
that it does:

* `CatalogViews`: a commit between the answer of the first list and the first open
  of the socket; a resync or manual refresh beside single updates (an older
  snapshot may be registered last, `overlap`); a pass that fails for one table
  and thereby drops the mark another task has set meanwhile
  (`setCatalogFailed(result.failed)`, `WorkbenchShell.tsx:317`); a list that arrives after a
  newer commit message (`outdated`); `connect()` without a token (`gaveUp`).
* `OAuthFlow`: an older callback deletes the cookies of a newer login; a failing
  refresh clears the tokens another tab has just stored (`auth.ts:121`); two first
  logins may register two clients, and the mismatch burns the code; an old user
  without an address whose address was taken cannot sign in (`LeftOut`).
* `Workbench`: a failed load of a dashboard is ignored and its default text can be
  saved over it (the old text is in a snapshot); tabs of new rows stay new, so that saving twice
  creates two rows and moves the triggers of the first; editors that save before
  they have loaded, whose requests fail, or that overlap leave duplicate or
  unseen triggers (`astray`); a saved query that is listed before its tab is renamed
  may get two tabs; a lost answer of `TransformJobsPanel`'s trigger request leaves the
  form in its create mode, and resubmitting doubles the job.
* `Storage`: a credential that was vended before a rename, a replacement or the arrival of another row of its name
  reaches the old backend; `NamesHoldForAnHour` bounds that by the life of the credentials
  that were out at the edit. A credential of another type hides a feed of its name, whose
  queries then fail as for a name that does not exist; an older query may set its secrets after a newer
  one (`overtaken`); names that are equal without punctuation share a secret
  (`Clashing`); writing a sheet leaves old rows below shorter data; interrupted
  uploads are never aborted.

`EveryRunReported` has its exceptions in its formula, and they are the code's: the
job was deleted, every delivery was cut off, or a statement outside the
consumer's `try` threw (`lost`).

`LostJobsAreRequeued` needs calls that succeed: if `reset-pending` fails, the
comment at `src/session/do.ts:382` relies on a scheduled cleanup that does not
exist, and the job stays running until a tab connects.

### Fairness

`TransformSession` assumes weak fairness of three groups of steps: handlers
(a call to the catalog returns), tabs (a message is handled and a transform
terminates, by success or error), messages (delivered while the socket lives, and
a broken socket is eventually reported to `webSocketClose`). No fairness is
assumed of connects, user requests, pings or staleness: that is why `Recovery`
starts at a connect. `QueryRelay` assumes fairness only of timers, so that its
liveness does not depend on a tab's answer. `LoadJobs` assumes it of the cron
handler (it is invoked every minute and its calls return), of the consumer (the
queue delivers, the loader returns or throws) and of time; not of requests or
faults. `Loader` assumes that a run that has begun goes on, for calls return, and
nothing about what they return. `CatalogViews` assumes that the tab's asynchronous
work, its timers and the delivery over a live socket go on (`Work`); not that
anybody commits, refreshes, or that the database opens at once. `OAuthFlow` assumes
it of requests that are under way and pages that load, not of users nor of Google. `Storage` and
`Workbench` state no fairness: their properties are safety.

`CHECK_DEADLOCK FALSE` stands where the system may come to rest: the session
configurations (jobs are finished, outside events used up), `load_jobs` (the last
instant has passed), `loader` (a run ends), `catalog_views` (nothing left to commit),
`oauth` (the tabs are signed in), `workbench` (the acts are used up) and `storage` (a tab
between queries).

## 4. What is proved

`TransformSession_proofs` holds the proofs of `CatalogDO` too, because the session
object's handlers are suspended in the middle of requests to the catalog. From
`CatalogAssumption` alone, about `CatalogDO`'s `Spec`:

* `TypeCorrect`: `[]TypeOK`; `TriggersKeepJobs`; `TablesKeepSnapshots`.
* `NoCommitMissed`: `NoMissedCommit` is not inductive alone. The invariant that
  is adds that timestamps never lie in the future and, with it, that a
  job in `done` completed after every commit that would satisfy its triggers; a
  commit that satisfies one moves the job to `pending` in the same step.
* `LastCommitStaysLatest` uses `InOrder`, the snapshots' timestamps do not
  decrease with their position.
* `CatalogImplementsJobQueue`: step by step simulation under
  `status <- jobStatus`.

`QueryRelay_proofs`: `TypeCorrect`; `CallsAreTracked` and `NobodyWaitsForClosed`
from one invariant, `Tracked`; `EachCallIsAnsweredOnce`, the safety half of
`ImplementsQueryService`.

`LoadJobs_proofs`, from `LoadAssumption`: `TypeCorrect` and `RunsAreReported`, from the
invariant `Safe`: typing together with `AllAccounted`, which adds to
`EveryRunReported` that a message that waits for its acknowledgement has left an
outcome already. It is inductive only with the typing of the messages, because
what gives a message up without an outcome is the bound of its retries; a job that was deleted
does not come back under its id, which is what `Create` requires of random ids.
`NextRun` is a `CHOOSE`: that the first instant exists is `LeastNatural`, by the
well-foundedness of the naturals.

`Loader_proofs`, from `LoaderAssumption`, for items of any number and size:

* `TypeCorrect`. `TypeOK` is not inductive: `PageBound` adds that fewer than
  `MaxPages` pages were followed while there is a next one to fetch.
* `CommitsAreComplete`, from `CompleteInv`: while pages are read, what was fetched
  is some items that are done followed by those pending, and the stored parts
  followed by the buffer are the text of those done (for json an open list,
  by the position of each item and comma: `FirstJsonItem`, `NextJsonItem`,
  `JsonEnd`); cutting a part moves the boundary and not the text; the object is
  the closed text of everything.
* `PartsStayLargeEnough`, from `Buffered`: an empty buffer has size 0 and any other
  a positive one, and a part that is too small ends the loop.

From `SessionAssumption` and `CatalogAssumption`, about `SessionSpec`:

* `SessionTypeCorrect`: `TypeOK` of the catalog with `Shape`, which says what a handler
  holds at each of its awaits.
* `DoneJobsCommitted`, from `Vouching`: a handler that has read the job's specification
  and gone on past its commit *vouches* for it, that is, the output table has a
  commit or the job is gone; a `done` job was vouched for. It supposes that no call
  of `getJobSpec` fails (`[][SpecIsAnswered]_vars`): the code goes on without a commit
  when it does (section 3), so that the property is false otherwise, as TLC shows.
  All other faults, restarts and closings are allowed. `DoneWithoutFaults` draws
  the conclusion for the instances whose `Events` has no `"fault"`.

`OAuthFlow_proofs`, from `OAuthAssumption`, for any number of tabs, contexts, accounts
and requests:

* `TypeCorrect`. `TypeOK` bounds the flows, and is not inductive: `Typed` adds that
  rows refer to rows, what a request at each statement holds, which request a
  tab waits for, and that the flows that tabs are about to start have room
  (`Reserved`); `ClientsFit`, that a tab that goes on to authorize has the id of a
  client there is.
* `CallbacksExchangeOnce`, from `OneExchange`: Google's code of a flow is used
  up by the callback that goes on, and a code is made only by it.
* `CredentialsAreSingle`, from `OneHolder`: the unused code, the request that issues
  and the live token of a flow are one at most, because each hands the flow on by a
  single update whose count decides.
* `AccountsHaveOneUser`, from `OwnUsers`: the user of an identity has its address, or
  none yet (an old user), and no two users share one; the unique columns make
  the loser of a race throw, and `resolveUserId` is called again.
* `CodesMeetTheirVerifier`, from `Paired`: the two cookies are of one flow whenever
  both are there, and what a tab sends comes from them.
* `StoredTokensAreLive`, from `Lineage`: unless an answer was lost, a stored token
  that is not live is being succeeded: by a request that its own context awaits,
  whose answer will store a token that nobody else holds.

`CatalogViews_proofs`, from `ViewsAssumption`, for any number of tables, commits,
sockets and tasks:

* `TypeCorrect`: promises wait only for tasks there are.
* `ReadyViewsAreShown`, from `Shown`: before a task puts an older snapshot into a
  view, a refresh has come that waits for that task and puts the newer one back
  (`Behind`); what was received is in the view, marked, or the work of a task that
  the promise waits for (`Covered`). This is the barrier of `handleCommit`.
* `SettledTabsAreLatest`, from `Follows`: a commit that is not shown is in a message
  that will be read (`Links`: the last word on a wire about a table is the latest),
  or the resync of a reconnect is due, or a task shows it last (`Chased`, `Caught`);
  the list follows in the same way (`ListFollows`). A pass that started alone
  stays the only one (`Only`).

`Storage_proofs`, from `StorageAssumption`, for any names, places, backends and bounds:

* `TypeCorrect`, from `Typed`: a task has the credentials that its place in the
  protocol says, and a secret is named after the bucket of its credential.
* `ObjectsStayWhole`, from `Whole`.
* `TabReadsWhatIsNamed`, from `Fresh`, `Tokens`, `ViewsFit` and `Ages`: a credential is for what its
  name denotes now, or for what it denoted before an edit that came after its
  vending (`Fresh`); what a task or view presents for a name was vended for it; and since
  credentials age in their order, one that is accepted bounds the age of the
  edit. No uniqueness of names is supposed.
* `NamedObjectsAreServed` and `ViewsStayReadable` (until the credential of the registration
  expires, whatever its age was then), from `Serving`: credentials age in the
  order in which they were vended (`Ages`), and a task notices when one of its own
  ages (`Timed`); where a task or a view has put a credential there is a secret at
  least as new (`Scoped`, `ViewsIn`), hence one that expires no earlier, unless an
  older preamble overtook; while the tab stays, whatever it holds is known at
  its place (`Seen`).

`Workbench_proofs`, from `WorkbenchAssumption`, for any number of windows, rows, calls
under way, acts of users and failures. Calls are a sequence from which any may be
removed, so every proof needs to know what became of the other ones. The relation
`Goes(cs, ds, i, new, V)` says it once: there is an injection of the places in `ds`
into those in `cs` under which each call but the `i`-th goes on as it was
(`Lasts`: at most its component was unmounted, and not in the windows `V`), and whatever
else is there is one of `new` or unmounted from it. The three proofs that follow calls over
several requests rest on it; for those about dashboards a step is shown once to be
`Quiet` (it writes no dashboard and none of its calls has read one) or to be one of the six
statements of `dashboards.ts`.

* `TypeCorrect`, from `Typed`. `TypeOK` is not inductive: that an id refers to a row needs
  what each kind of call holds at each of its requests (`FitsKind`), that a tab's row
  is of the tab's kind, that the tab from which a query is saved stays one for
  queries (`QueriesFit`), and that a slug is looked up only while tries are left.
* `TabBarsAreSound`: a conjunct of `Typed`, with the tabs' numbers being distinct. That the
  active tab is open follows from what `closeTab` takes as
  the next one, by the positions in the bar before and after (`RemoveAt`); that a row has
  one tab, from the search in `openTab` and the fact that only a new row's id, or a saved query's, is
  put into a tab that is there.
* `SlugsFailInRaces`, from `SlugsHold`: the property speaks of what the unique index would
  say, the invariant of the dashboards that are there (`SlugTaken`). A lookup that finds
  the slug free establishes it; a step that gives a dashboard a slug marks every call
  that has looked one up.
* `VersionsAreKept`, from `VersionsKept`: for a row that nobody overlapped, at most one
  call is between its read and its write (`OneWriter`), it holds the stored text (`WriterRead`),
  and once it is past its snapshot that text is kept. So what it overwrites is in
  a snapshot.
* `EditorsShowTriggers`, from `Editors`. The property speaks of editors at rest, the
  invariant of every moment: of the job of a window's active tab (`Job`) that is not
  astray, at most one call works for it (`WorksFor`: a save that will write the row, or
  delete a trigger of it), that call is of this window and still mounted, and what it
  knows as found is exactly the set of the job's triggers (`Knows`), while an answer to the editor's load
  that is not read yet carries them (`EditorAlone`). Without it, the editor shows them.
  `EditorFits` adds, for all jobs, that one load at most can reach an editor and only before it
  is loaded, and that a mounted save is of the active tab's job, or of the one it is about to
  create there. `WatchesFit`, that only a save that wants triggers posts one, is
  what makes a save of an agent that found none passive (`Passive`).

TLC had checked the strengthened invariants on the instance of `workbench` before they
were proved.

Where a theorem excuses a case (`overtaken`, `roamed`, `interrupted`, `overlapped`, `astray`, ...) so
does the property that the run checks: the theorems state the runs' formulas, and
section 3 says why each excuse is the code's.

Only model-checked:

* `ClaimsAreTracked` of `TransformSession`, on two tabs and two jobs. What it excuses is
  in `slips`; a proof would need an invariant that follows each copy of a `transform_job` message
  from the socket to the handler (section 6).
* `NeverTakenWhileExecuting` of `TransformSession`, on the same instance, with all three
  slips excused.
* Liveness (the second half of `ImplementsQueryService`, `Recovery`, `LostJobsAreRequeued`,
  `DueIsEnqueued`, `ScheduleHeals`, `Terminates`, `ReadyResolves`, `Reconnects`, `LoginSucceeds`),
  which is outside the prover's reach, as is ENABLED.

## 5. Not modelled

* Cryptography, JWT, PKCE and URL signing: arithmetic of libraries.
* Listings, ranges and headers of the storage proxy, paging of feeds (which stops
  silently after 45 pages, `src/index.ts:212`), `pathPrefix` (always empty), the MCP tool
  that reads an object in the worker.
* Of the interface: rendering, forms, tables and charts; the panels' own lists,
  among them the optimistic "pending" of `TransformJobsPanel`, which may overwrite a
  newer event, and `DashboardsPanel`'s queries of an earlier dashboard, which may
  end after a later one was opened; loading other kinds than transforms.
* The fallback of the lookups by name to a row of that id (`src/db/settings.ts:110`); the change of a
  backend's or credential's configuration in place: what a credential reaches is
  read from the row when it is used, so that only renaming changes what a name
  denotes.
* Connecting Google Sheets when Google returns no refresh token (`no_refresh_token`,
  `src/auth/oauth.ts:352-354`): the flow ends with an error page and nothing stored. Signing out
  because the refresh at the mount of a page failed with another answer than `invalid_grant`
  (`frontend/src/App.tsx:141`): the token of a tab whose refresh failed is dropped.
* Signing out while work is under way; deletion of saved queries, which no
  interface offers; several users, who share nothing.
* Migrations, scripts, Pages functions: run once, or stateless.

## 6. Plan

1. An invariant for `TransformSession` that follows the copies of a message, so that
   `ClaimsAreTracked` and `NeverTakenWhileExecuting` can be proved for all constants.
2. The worker's own reads of storage as a task of `Storage`; the panels' lists.
