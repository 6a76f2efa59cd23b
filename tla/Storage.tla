------------------------------- MODULE Storage -------------------------------
(***************************************************************************)
(* How a browser tab reads and writes objects: proxy credentials and       *)
(* tokens (storage/router.ts, storage/resolve.ts, frontend/src/storage.ts, *)
(* resolveQuery.ts), the requests DuckDB makes with them, and the backends *)
(* behind the proxy.                                                       *)
(*                                                                         *)
(* A credential lives for an hour in the worker's KV store and is given    *)
(* out by the tab's cache for 59 minutes: its age is 0, then 1, then 2.    *)
(* A token of an http-ds:// URI is one that needs no store and no cache.   *)
(* A name is what stands for the backend in a URI; each backend holds one  *)
(* object, a sequence of rows marked with the write they are from.  The    *)
(* backends of http-ds:// URIs are rows of credentials, which need not be  *)
(* of type http nor have a name of their own.                              *)
(***************************************************************************)
EXTENDS Naturals, Sequences, FiniteSets, FiniteSetsExt, Functions

CONSTANTS Names,        \* names in URIs
          Feeds,        \* ... those in http-ds:// URIs
          BuiltIn,      \* ... those of the worker's own bucket
          Clean,        \* [Names -> name of a DuckDB secret]
          Starts,       \* how it begins: the backends that are stored, and
                        \* what will happen: kinds and names of queries,
                        \* outside events
          Types,        \* of backends that are added
          Places,       \* where the tab's requests reach the worker
          MaxChecks,    \* reads of a credential just written, 5 in the code
          MaxTasks, MaxQueries, MaxRows,
          MaxEvents     \* changes of place, of backends, lost requests

Own == "r2-bound"       \* backendName of backends of that type

CredentialTypes == {"http", "google"}   \* of rows of credentials
AllTypes == {"bound", "s3", "sheet"} \cup CredentialTypes
Kinds == {"query", "register", "view", "write"}

ASSUME StorageAssumption ==
  /\ Feeds \cup BuiltIn \subseteq Names /\ Feeds \cap BuiltIn = {}
  /\ Own \in BuiltIn
  /\ Clean \in [Names -> Range(Clean)]
  /\ Types \subseteq AllTypes
  /\ Places # {}
  /\ \A start \in Starts :
       /\ start.rows \in Seq([name : Names \ BuiltIn, type : AllTypes, live : {TRUE}])
       /\ Len(start.rows) <= MaxRows
       /\ start.kinds \subseteq Kinds /\ start.names \subseteq Names
       /\ start.outside \subseteq {"lose", "roam", "edit"}
       /\ start.edited \subseteq Names
       /\ start.queries \in 0 .. MaxQueries /\ start.events \in 0 .. MaxEvents
  /\ MaxChecks \in Nat \ {0}
  /\ {MaxTasks, MaxQueries, MaxRows, MaxEvents} \subseteq Nat

VARIABLES rows,        \* of storage_backends and credentials, as inserted
          creds,       \* a sequence of all credentials and tokens vended
          cache,       \* credCache: [Names -> Nat], 0 for none
          secrets,     \* of DuckDB, by name: the credential in it, or 0
          views,       \* [Names -> Nat]: what a view was registered with
          tasks,       \* a function: the calls of runQuery, with what
                       \* prepares them
          objects,     \* by backend, 0 is the worker's own bucket
          uploads,     \* multipart uploads: <<backend, text, parts>>
          place,       \* where the tab is
          former,      \* history: what a name denoted before an edit, with
                       \* the number of credentials that were out by then
          slow,        \* history: a credential expired under a task
          overtaken,   \* history: a secret was replaced by an older one
          roamed,      \* history: the tab changed its place
          usage,       \* what happens in this behaviour: kinds and names of
                       \* queries, outside events
          queries, events

storeVars == <<rows, objects, uploads>>
tabVars == <<cache, secrets, views>>
historyVars == <<former, slow, overtaken, roamed>>
boundVars == <<usage, queries, events>>
vars == <<storeVars, creds, tabVars, tasks, place, historyVars, usage,
          queries, events>>

Ids == 1 .. MaxTasks
NoRow == MaxRows + 1
Outside(kind) == kind \in usage.outside /\ events > 0 /\ events' = events - 1

NewTask(kind, names, size) ==
  [kind |-> kind,            \* query, register, view, write
   names |-> names,          \* the backends its SQL reads or writes
   text |-> [by |-> IF size = 0 THEN 0 ELSE queries, size |-> size],
                             \* the rows it writes
   at |-> "resolve",
   todo |-> names,           \* names left in this phase
   keys |-> [n \in Names |-> 0],   \* its preamble, and its tokens
   key |-> 0,                \* a credential that is on its way
   name |-> Own,             \* ... and the name it is for
   checks |-> 0,             \* reads of it so far
   aged |-> {},              \* history: keys that became old meanwhile
   wrong |-> FALSE]          \* history: another backend answered

Put(i, task) == tasks' = [tasks EXCEPT ![i] = task]

(* The tasks are numbered as they come.                                    *)
IsNext(i) == DOMAIN tasks # Ids /\ i = Min(Ids \ DOMAIN tasks)

(* What is kept of a task that is over.                                    *)
Over(task, at) ==
  [NewTask(task.kind, {}, 0) EXCEPT !.at = at, !.wrong = task.wrong]

(* A phase ends with its last name.                                        *)
Onward(task) ==
  IF task.todo # {} THEN task
  ELSE CASE task.at = "resolve" ->
              [task EXCEPT !.at = IF task.names \subseteq Feeds THEN "run" ELSE "secrets",
                           !.todo = IF task.names \subseteq Feeds THEN task.names
                                    ELSE task.names \ Feeds]
         [] task.at = "secrets" -> [task EXCEPT !.at = "run", !.todo = task.names]
         [] task.at = "run" -> Over(task, "done")

-----------------------------------------------------------------------------
(* Names of backends.                                                      *)

Live == {b \in DOMAIN rows : rows[b].live}

(* The rows of this name in the table that its URIs refer to.              *)
Rows(n) ==
  {b \in Live : rows[b].name = n /\ (rows[b].type \in CredentialTypes <=> n \in Feeds)}

(* The worker's answer to a name: getStorageBackendByNameOrId and          *)
(* getCredentialByNameOrId, after the names that are its own.  Of several  *)
(* rows that is the first one, whatever its type: the oldest, as there is  *)
(* no index that would bring them in another order.                        *)
Lookup(n) ==
  IF n \in BuiltIn THEN 0
  ELSE IF Rows(n) = {} THEN NoRow ELSE Min(Rows(n))

TypeOf(b) == IF b = 0 THEN "bound" ELSE rows[b].type

(* What a backend is reached by: all of type r2-bound share one bucket.    *)
Target(b) == IF b \in Live /\ rows[b].type = "bound" THEN 0 ELSE b

(* fetchStorageUri, and resolveHttpDsUri for tokens: the backend a name    *)
(* denotes now.  A sheet, which the former does not read, denotes itself.  *)
Denotes(n) ==
  LET b == Lookup(n) IN
  IF b \in Live /\ TypeOf(b) \in {"bound", "google"} THEN NoRow ELSE b

-----------------------------------------------------------------------------
(* Acquiring credentials.                                                  *)

Start(i, kind, names, size) ==
  /\ queries > 0 /\ queries' = queries - 1
  /\ IsNext(i)
  /\ tasks' = [j \in DOMAIN tasks \cup {i} |->
                 IF j = i THEN NewTask(kind, names, size) ELSE tasks[j]]
  /\ UNCHANGED <<storeVars, creds, tabVars, place, historyVars, events, usage>>

(* A query of views names no URI: there is nothing to prepare.             *)
StartView(i, n) ==
  /\ queries > 0 /\ queries' = queries - 1
  /\ IsNext(i)
  /\ views[n] # 0
  /\ tasks' = [j \in DOMAIN tasks \cup {i} |->
                 IF j = i THEN [NewTask("view", {n}, 0) EXCEPT !.at = "run"]
                 ELSE tasks[j]]
  /\ UNCHANGED <<storeVars, creds, tabVars, place, historyVars, events, usage>>

Cached(n) == cache[n] # 0 /\ creds[cache[n]].age = 0

(* The backends in the order of their URIs, http-ds:// last.               *)
Resolve(i, n) ==
  LET task == tasks[i] IN
  /\ task.at = "resolve" /\ n \in task.todo
  /\ n \in Feeds => task.todo \subseteq Feeds
  /\ Put(i, IF n \notin Feeds /\ Cached(n)
            THEN Onward([task EXCEPT !.keys[n] = cache[n], !.todo = @ \ {n}])
            ELSE [task EXCEPT !.at = "vend", !.name = n])
  /\ UNCHANGED <<storeVars, creds, tabVars, place, historyVars, boundVars>>

(* POST /proxy-credentials up to its put.                                  *)
Vend(i) ==
  LET task == tasks[i]
      b == Lookup(task.name) IN
  /\ task.at = "vend" /\ task.name \notin Feeds
  /\ IF b = NoRow
     THEN Put(i, Over(task, "refused")) /\ UNCHANGED creds
     ELSE /\ creds' = Append(creds,
               [backend |-> Target(b),
                bucket |-> IF b \in Live /\ TypeOf(b) = "bound" THEN Own ELSE task.name,
                age |-> 0, seen |-> {}])
          /\ Put(i, [task EXCEPT !.at = "check", !.key = Len(creds) + 1, !.checks = 0])
  /\ UNCHANGED <<storeVars, tabVars, place, historyVars, boundVars>>

(* Seeded bug: it is read once more.                                       *)
CheckOnceMore(i) ==
  LET task == tasks[i] IN
  /\ task.at = "check"
  /\ Put(i, IF place \in creds[task.key].seen THEN [task EXCEPT !.at = "answer"]
            ELSE IF task.checks < MaxChecks THEN [task EXCEPT !.checks = @ + 1]
            ELSE Over(task, "refused"))
  /\ UNCHANGED <<storeVars, creds, tabVars, place, historyVars, boundVars>>

(* The read-back loop.                                                     *)
Check(i) ==
  LET task == tasks[i] IN
  /\ task.at = "check"
  /\ Put(i, IF place \in creds[task.key].seen THEN [task EXCEPT !.at = "answer"]
            ELSE IF task.checks + 1 < MaxChecks THEN [task EXCEPT !.checks = @ + 1]
            ELSE Over(task, "refused"))
  /\ UNCHANGED <<storeVars, creds, tabVars, place, historyVars, boundVars>>

(* POST /resolve: a URI without a credential, or with one of another type, *)
(* is left out of the answer, and of the preparation.                      *)
VendToken(i) ==
  LET task == tasks[i]
      b == Lookup(task.name) IN
  /\ task.at = "vend" /\ task.name \in Feeds
  /\ IF b = NoRow \/ TypeOf(b) # "http"
     THEN Put(i, [task EXCEPT !.at = "answer", !.key = 0]) /\ UNCHANGED creds
     ELSE /\ creds' = Append(creds, [backend |-> b, bucket |-> task.name, age |-> 0,
                                     seen |-> Places])
          /\ Put(i, [task EXCEPT !.at = "answer", !.key = Len(creds) + 1])
  /\ UNCHANGED <<storeVars, tabVars, place, historyVars, boundVars>>

(* The credential arrives in the tab.                                      *)
Acquire(i) ==
  LET task == tasks[i]
      n == task.name IN
  /\ task.at = "answer"
  /\ cache' = IF n \in Feeds THEN cache ELSE [cache EXCEPT ![n] = task.key]
  /\ Put(i, Onward([task EXCEPT !.at = "resolve", !.keys[n] = task.key, !.key = 0,
                                !.name = Own, !.checks = 0,
                                !.todo = @ \ {n}]))
  /\ UNCHANGED <<storeVars, creds, secrets, views, place, historyVars,
                 boundVars>>

-----------------------------------------------------------------------------
(* DuckDB.                                                                 *)

(* Seeded bug: one secret for all.                                         *)
OneSecret(k) == CHOOSE s \in Range(Clean) : TRUE

(* buildS3Secret: its name comes from the bucket of the credential.        *)
SecretName(k) == Clean[creds[k].bucket]

(* One statement of the preamble.                                          *)
SetSecret(i, n) ==
  LET task == tasks[i]
      k == task.keys[n] IN
  /\ task.at = "secrets" /\ n \in task.todo
  /\ secrets' = [secrets EXCEPT ![SecretName(k)] = k]
  /\ overtaken' = (overtaken \/ secrets[SecretName(k)] > k)
  /\ Put(i, Onward([task EXCEPT !.todo = @ \ {n}]))
  /\ UNCHANGED <<storeVars, creds, cache, views, place, former, slow, roamed,
                 boundVars>>

(* What a request for n is made with: the token in the SQL, or the secret  *)
(* whose scope is the bucket of that name.                                 *)
KeyFor(task, n) ==
  IF n \in Feeds THEN IF task.kind = "view" THEN views[n] ELSE task.keys[n]
  ELSE LET k == secrets[Clean[n]] IN IF k # 0 /\ creds[k].bucket = n THEN k ELSE 0

(* Seeded bug: a token is taken however old it is.                         *)
VerdictOfTokens(k) ==
  IF k = 0 THEN "unscoped"
  ELSE IF creds[k].age = 2 /\ creds[k].bucket \notin Feeds THEN "expired"
  ELSE IF place \notin creds[k].seen THEN "unseen"
  ELSE IF creds[k].backend \notin Live \cup {0} THEN "missing"
  ELSE "served"

(* parseS3ProxyRequest and the look-up of the backend's row; or            *)
(* verifyDataSourceToken and the look-up of the credential.                *)
Verdict(k) ==
  IF k = 0 THEN "unscoped"
  ELSE IF creds[k].age = 2 THEN "expired"
  ELSE IF place \notin creds[k].seen THEN "unseen"
  ELSE IF creds[k].backend \notin Live \cup {0} THEN "missing"
  ELSE "served"

(* The name denotes this backend, or did less than an hour ago: no         *)
(* credential has been vended and has expired since the edit.              *)
Denoted(n, b) ==
  \/ Denotes(n) = b
  \/ \E c \in 0 .. Len(creds) :
       <<n, b, c>> \in former /\ (c = Len(creds) \/ creds[c + 1].age < 2)

Wrong(task, n, k) == task.wrong \/ ~Denoted(n, creds[k].backend)

(* A task reads from n, which is refused ...                               *)
Reads(i, n) == tasks[i].at = "run" /\ tasks[i].kind # "write" /\ n \in tasks[i].todo

ReadFails(i, n) ==
  LET v == Verdict(KeyFor(tasks[i], n)) IN
  /\ Reads(i, n) /\ v # "served"
  /\ Put(i, Over(tasks[i], v))
  /\ UNCHANGED <<storeVars, creds, tabVars, place, historyVars, boundVars>>

(* ... or answered: a view is made with what it was read with.             *)
GetsRows(i, n, types) ==
  LET task == tasks[i]
      k == KeyFor(task, n) IN
  /\ Reads(i, n) /\ Verdict(k) = "served"
  /\ TypeOf(creds[k].backend) \in types
  /\ Put(i, Onward([task EXCEPT !.todo = @ \ {n}, !.wrong = Wrong(task, n, k)]))
  /\ views' = IF task.kind = "register" THEN [views EXCEPT ![n] = k] ELSE views
  /\ UNCHANGED <<storeVars, creds, cache, secrets, place, historyVars,
                 boundVars>>

ReadOwn(i, n) == GetsRows(i, n, {"bound"})
ReadRemote(i, n) == GetsRows(i, n, {"s3"})
ReadSheet(i, n) == GetsRows(i, n, {"sheet"})
ReadFeed(i, n) == GetsRows(i, n, {"http"})

-----------------------------------------------------------------------------
(* Writing: one PUT, or a multipart upload whose parts are the rows.       *)

Content(text, size) == [r \in 1 .. size |-> text]

KeyOf(i) == LET task == tasks[i] IN
  KeyFor(task, CHOOSE n \in task.names : TRUE)
Server(i) == creds[KeyOf(i)].backend

(* A request of a write, when it is not served.                            *)
WriteFails(i) ==
  LET task == tasks[i]
      v == Verdict(KeyOf(i)) IN
  /\ task.kind = "write" /\ task.at \in {"run", "parts"}
  /\ v # "served"
  /\ Put(i, Over(task, v))
  /\ UNCHANGED <<storeVars, creds, tabVars, place, historyVars, boundVars>>

Serves(i, at) ==
  /\ tasks[i].kind = "write" /\ tasks[i].at = at
  /\ Verdict(KeyOf(i)) = "served"
Judged(i, at) ==
  [tasks[i] EXCEPT !.at = at,
     !.wrong = Wrong(tasks[i], CHOOSE n \in tasks[i].names : TRUE, KeyOf(i))]

Stores(i, content) ==
  /\ objects' = [objects EXCEPT ![Server(i)] = content]
  /\ Put(i, Over(Judged(i, "done"), "done"))
  /\ UNCHANGED <<rows, uploads, creds, tabVars, place, historyVars, boundVars>>

NewContent(i) == Content(tasks[i].text, tasks[i].text.size)

PutOwn(i) ==
  Serves(i, "run") /\ TypeOf(Server(i)) = "bound" /\ Stores(i, NewContent(i))

PutRemote(i) ==
  Serves(i, "run") /\ TypeOf(Server(i)) = "s3" /\ Stores(i, NewContent(i))

(* A sheet is written from its first row on, what is below stays.          *)
PutSheet(i) ==
  LET old == objects[Server(i)]
      new == NewContent(i) IN
  /\ Serves(i, "run") /\ TypeOf(Server(i)) = "sheet"
  /\ Stores(i, new \o SubSeq(old, Len(new) + 1, Len(old)))

(* More than one row may be uploaded in parts.                             *)
Initiate(i) ==
  /\ Serves(i, "run") /\ tasks[i].text.size > 1
  /\ TypeOf(Server(i)) \in {"bound", "s3"}
  /\ Put(i, Judged(i, "parts"))
  /\ uploads' = uploads \cup {<<Server(i), tasks[i].text, 0>>}
  /\ UNCHANGED <<rows, objects, creds, tabVars, place, historyVars, boundVars>>

(* A sheet takes the request for a read: its answer has no upload id.      *)
InitiateSheet(i) ==
  /\ Serves(i, "run") /\ tasks[i].text.size > 1
  /\ TypeOf(Server(i)) = "sheet"
  /\ Put(i, Over(tasks[i], "refused"))
  /\ UNCHANGED <<storeVars, creds, tabVars, place, historyVars, boundVars>>

Parts(i) == {u \in uploads : u[2] = tasks[i].text}
IsAt(i, b) == \E u \in Parts(i) : u[1] = b

(* Seeded bug: the case of a whole object comes first.                     *)
PartIsObject(i) ==
  LET b == Server(i) IN
  /\ Serves(i, "parts") /\ IsAt(i, b)
  /\ \E u \in Parts(i) :
       /\ u[3] < tasks[i].text.size
       /\ uploads' = (uploads \ {u}) \cup {<<b, u[2], u[3] + 1>>}
  /\ objects' = [objects EXCEPT ![b] = Content(tasks[i].text, 1)]
  /\ UNCHANGED <<rows, creds, tabVars, tasks, place, historyVars, boundVars>>

UploadPart(i) ==
  LET b == Server(i) IN
  /\ Serves(i, "parts") /\ IsAt(i, b)
  /\ \E u \in Parts(i) :
       /\ u[3] < tasks[i].text.size
       /\ uploads' = (uploads \ {u}) \cup {<<b, u[2], u[3] + 1>>}
  /\ UNCHANGED <<rows, objects, creds, tabVars, tasks, place, historyVars,
                 boundVars>>

Complete(i) ==
  LET b == Server(i) IN
  /\ Serves(i, "parts") /\ IsAt(i, b)
  /\ \E u \in Parts(i) : u[3] = tasks[i].text.size
  /\ objects' = [objects EXCEPT ![b] = Content(tasks[i].text, tasks[i].text.size)]
  /\ uploads' = uploads \ Parts(i)
  /\ Put(i, Over(Judged(i, "done"), "done"))
  /\ UNCHANGED <<rows, creds, tabVars, place, historyVars, boundVars>>

(* Another backend has the name now and knows no such upload.              *)
NoSuchUpload(i) ==
  /\ Serves(i, "parts") /\ ~IsAt(i, Server(i))
  /\ Put(i, Over(tasks[i], "missing"))
  /\ UNCHANGED <<storeVars, creds, tabVars, place, historyVars, boundVars>>

-----------------------------------------------------------------------------
Ended(i) ==
  tasks[i].at \in {"done", "refused", "unscoped", "expired", "unseen", "missing"}

(* Seeded bug: its secrets are dropped with the connection.                *)
LeaveNoSecret(i) ==
  /\ Ended(i)
  /\ tasks' = [j \in DOMAIN tasks \ {i} |-> tasks[j]]
  /\ secrets' = [s \in DOMAIN secrets |-> 0]
  /\ UNCHANGED <<storeVars, creds, cache, views, place, historyVars, boundVars>>

(* The end of a task: runQuery closes its connection.                      *)
Leave(i) ==
  /\ Ended(i)
  /\ tasks' = [j \in DOMAIN tasks \ {i} |-> tasks[j]]
  /\ UNCHANGED <<storeVars, creds, tabVars, place, historyVars, boundVars>>

(* A request of the tab is lost.                                           *)
Lose(i) ==
  /\ Outside("lose")
  /\ tasks[i].at \in {"vend", "answer", "run", "parts"}
  /\ Put(i, Over(tasks[i], "refused"))
  /\ UNCHANGED <<storeVars, creds, tabVars, place, historyVars, queries,
                 usage>>

-----------------------------------------------------------------------------
(* The world: the KV store is eventually consistent and forgets a          *)
(* credential after its hour.                                              *)

(* When somebody looks for it.                                             *)
Propagate(k, p) ==
  /\ p \notin creds[k].seen /\ p = place
  /\ roamed \/ \E i \in DOMAIN tasks : tasks[i].at = "check" /\ tasks[i].key = k
  /\ creds' = [creds EXCEPT ![k].seen = @ \cup {p}]
  /\ UNCHANGED <<storeVars, tabVars, tasks, place, historyVars, boundVars>>

(* Older ones first; the answer to a request takes less than a minute.     *)
Age(k) ==
  /\ creds[k].age < 2
  /\ \A j \in 1 .. k - 1 : creds[j].age > creds[k].age \/ creds[j].age = 2
  /\ \A i \in DOMAIN tasks : tasks[i].key # k
  /\ creds' = [creds EXCEPT ![k].age = @ + 1]
  /\ IF creds[k].age = 0
     THEN /\ tasks' = [i \in DOMAIN tasks |->
                 IF k \in Range(tasks[i].keys) THEN [tasks[i] EXCEPT !.aged = @ \cup {k}]
                 ELSE tasks[i]]
          /\ UNCHANGED slow
     ELSE /\ slow' = (slow \/ \E i \in DOMAIN tasks : k \in tasks[i].aged)
          /\ UNCHANGED tasks
  /\ UNCHANGED <<storeVars, tabVars, place, former, overtaken, roamed, boundVars>>

(* The tab's requests reach the worker in another place.                   *)
Roam(p) ==
  /\ Outside("roam")
  /\ p # place /\ place' = p
  /\ roamed' = TRUE
  /\ UNCHANGED <<storeVars, creds, tabVars, tasks, former, slow, overtaken,
                 queries, usage>>

-----------------------------------------------------------------------------
(* The user edits the backends.  Their names are unique, which those of    *)
(* credentials are not.                                                    *)

Free(n, type) ==
  /\ n \notin BuiltIn /\ (type \in CredentialTypes <=> n \in Feeds)
  /\ type \notin CredentialTypes => Rows(n) = {}

(* An edit changes what names denote, the credentials that are out remain. *)
Edited ==
  /\ former' = former \cup {<<n, Denotes(n), Len(creds)>> : n \in Names}
  /\ UNCHANGED <<objects, uploads, creds, tabVars, tasks, place, slow, overtaken,
                 roamed, queries, usage>>

Add(n, type) ==
  /\ Outside("edit")
  /\ Free(n, type) /\ Len(rows) < MaxRows
  /\ rows' = Append(rows, [name |-> n, type |-> type, live |-> TRUE])
  /\ Edited

Rename(b, n) ==
  /\ Outside("edit")
  /\ b \in Live /\ Free(n, rows[b].type)
  /\ rows' = [rows EXCEPT ![b].name = n]
  /\ Edited

Remove(b) ==
  /\ Outside("edit")
  /\ b \in Live
  /\ rows' = [rows EXCEPT ![b].live = FALSE]
  /\ Edited

-----------------------------------------------------------------------------
Init ==
  /\ \E start \in Starts :
       /\ rows = start.rows
       /\ usage = [kinds |-> start.kinds, names |-> start.names,
                    outside |-> start.outside, edited |-> start.edited]
       /\ queries = start.queries /\ events = start.events
  /\ creds = <<>>
  /\ cache = [n \in Names |-> 0]
  /\ secrets = [s \in Range(Clean) |-> 0]
  /\ views = [n \in Names |-> 0]
  /\ tasks = <<>>
  /\ objects = [b \in 0 .. MaxRows |-> <<>>]
  /\ uploads = {}
  /\ place = CHOOSE p \in Places : TRUE
  /\ former = {} /\ slow = FALSE /\ overtaken = FALSE /\ roamed = FALSE

(* What goes on by itself.                                                 *)
Work == \E i \in DOMAIN tasks :
  \/ \E n \in Names :
       \/ Resolve(i, n) \/ SetSecret(i, n) \/ ReadFails(i, n)
       \/ ReadOwn(i, n) \/ ReadRemote(i, n) \/ ReadSheet(i, n) \/ ReadFeed(i, n)
  \/ Vend(i) \/ Check(i) \/ VendToken(i) \/ Acquire(i)
  \/ PutOwn(i) \/ PutRemote(i) \/ PutSheet(i)
  \/ Initiate(i) \/ InitiateSheet(i) \/ UploadPart(i) \/ Complete(i)
  \/ NoSuchUpload(i) \/ WriteFails(i) \/ Leave(i)

User == \E i \in Ids, n \in usage.names, kind \in usage.kinds :
  \/ kind = "register" /\ Start(i, kind, {n}, 0)
  \/ kind = "query" /\ \E m \in usage.names : Start(i, kind, {n, m}, 0)
  \/ kind = "view" /\ StartView(i, n)
  \/ kind = "write" /\ n \notin Feeds /\ \E size \in {1, 2} : Start(i, kind, {n}, size)

World ==
  \/ \E k \in DOMAIN creds : Age(k) \/ \E p \in Places : Propagate(k, p)
  \/ \E p \in Places : Roam(p)
  \/ \E i \in DOMAIN tasks : Lose(i)
  \/ \E n \in usage.edited, type \in Types : Add(n, type)
  \/ \E b \in DOMAIN rows : Remove(b) \/ \E n \in usage.edited : Rename(b, n)

Next == Work \/ User \/ World

Spec == Init /\ [][Next]_vars

-----------------------------------------------------------------------------
(* Properties.                                                             *)

IsTask(task) ==
  /\ task.kind \in Kinds
  /\ task.at \in {"resolve", "vend", "check", "answer", "secrets", "run", "parts",
                  "done", "refused", "unscoped", "expired", "unseen", "missing"}
  /\ task.todo \subseteq task.names /\ task.names \subseteq Names
  /\ Range(task.keys) \cup {task.key} \subseteq 0 .. Len(creds)
  /\ task.checks < MaxChecks
  /\ task.at = "secrets" => \A n \in task.names \ Feeds : task.keys[n] # 0

(* Credentials that are used exist, those out of the cache and in a        *)
(* preamble are real ones, and a secret holds one for a bucket of its name.*)
TypeOK ==
  /\ \A b \in DOMAIN rows : rows[b].name \in Names \ BuiltIn
  /\ \A k \in DOMAIN creds : creds[k].age \in 0 .. 2 /\ creds[k].seen \subseteq Places
  /\ cache \in [Names -> 0 .. Len(creds)]
  /\ views \in [Names -> 0 .. Len(creds)]
  /\ \A s \in DOMAIN secrets : secrets[s] # 0 => SecretName(secrets[s]) = s
  /\ DOMAIN tasks \subseteq Ids /\ \A i \in DOMAIN tasks : IsTask(tasks[i])
  /\ \A b \in DOMAIN objects, u \in uploads : u[3] <= u[2].size
  /\ place \in Places

(* Task i is refused for this reason in this step.                         *)
Refused(i, why) ==
  /\ tasks[i].at \in {"run", "parts"}
  /\ i \in DOMAIN tasks' /\ tasks'[i].at = why

Clashing(n) == \E m \in Names \ {n} : Clean[m] = Clean[n]

(* A name without a credential that DuckDB finds: a token's that is not    *)
(* known, or a row's of type r2-bound, whose credential is for another     *)
(* bucket.                                                                 *)
Unservable(task) == \E n \in task.names :
  \/ task.keys[n] = 0 \/ Clashing(n)
  \/ creds[task.keys[n]].bucket # n

(* README.md:65: a query that names its objects is not refused.  The proxy *)
(* knows its credential and DuckDB finds it, whatever other queries do to  *)
(* the shared secrets, unless it has run for the minute's margin, the tab  *)
(* moved or an older preamble ran after a newer one.                       *)
QueriesAreServed ==
  [][\A i \in DOMAIN tasks :
       tasks[i].kind # "view" /\ ~Unservable(tasks[i]) =>
         /\ Refused(i, "expired") => slow \/ overtaken
         /\ Refused(i, "unseen") => roamed
         /\ ~Refused(i, "unscoped")]_tasks

(* A view can be read until the credential expires that it was registered  *)
(* with, an hour after that was vended, with whatever secret is there by   *)
(* then.  The credential may come from the cache of the tab, where it has  *)
(* been for up to 59 minutes.                                              *)
ViewsExpireWithCredentials ==
  [][\A i \in DOMAIN tasks : tasks[i].kind = "view" =>
       \A n \in tasks[i].names :
         /\ Refused(i, "expired") => creds[views[n]].age = 2 \/ overtaken
         /\ Refused(i, "unseen") => roamed
         /\ Refused(i, "unscoped") => Clashing(n)]_tasks

(* README.md:289: a name is resolved when a credential is vended.  What    *)
(* the tab reaches under a name is what the worker itself would read under *)
(* it (catalog-fetch.ts), now or at some time of the last hour: backends   *)
(* and credentials are renamed, removed and added, names used twice, while *)
(* the tab keeps credentials, secrets and views that were made before.     *)
NamesHoldForAnHour == \A i \in DOMAIN tasks : ~tasks[i].wrong

(* An object is never a part of what one write writes, nor a mixture of    *)
(* two, but in a sheet, where shorter data leave the end of what was there.*)
ObjectsAreWhole ==
  \A b \in DOMAIN objects : LET o == objects[b] IN
    (b = 0 \/ (b \in DOMAIN rows /\ rows[b].type # "sheet")) /\ o # <<>>
      => o = Content(o[1], o[1].size)
=============================================================================
