----------------------------- MODULE Workbench -----------------------------
(***************************************************************************)
(* The workbench's windows (frontend/src/WorkbenchShell.tsx and the        *)
(* editors it shows) and the rows they edit: dashboards with their         *)
(* snapshots, backends, credentials, load jobs and saved queries in D1,    *)
(* transforms and their triggers in the catalog.  MCP tools change         *)
(* dashboards and transforms as well.                                      *)
(*                                                                         *)
(* A call is one run of an asynchronous function of the browser, or of one *)
(* MCP tool, together with the requests it waits for.  Each statement on   *)
(* D1 and each request to the catalog is a step.  A text is one version of *)
(* what a row holds beside its name.  All slugs come from one title: 1 is  *)
(* its slug, a further digit is a suffix (12 is the slug with suffix 2),   *)
(* numbers from 1000 end in a random suffix, and 0 is none.                *)
(***************************************************************************)
EXTENDS Naturals, Sequences, FiniteSets, FiniteSetsExt, SequencesExt, Functions

CONSTANTS Windows,
          Starts,      \* how it begins: the kinds of the rows that are
                       \* stored, the windows that open, who else acts,
                       \* the budgets
          None,
          MaxTries,    \* numbered slugs that are tried, 20 in the code
          MaxCalls,    \* calls under way at a time
          MaxActs,     \* bounds what users and agents do
          MaxEvents    \* failures of the network

Kinds == {"dashboard", "transform", "backend", "cred", "job", "saved"}

ASSUME WorkbenchAssumption ==
  /\ Starts \subseteq
       [kinds : Seq(Kinds), windows : Seq(Windows),
        others : SUBSET {"agent", "panels"}, acts : 0 .. MaxActs,
        events : 0 .. MaxEvents]
  /\ \A start \in Starts : Len(start.windows) <= MaxCalls
  /\ None \notin Windows \cup Nat
  /\ MaxTries \in 1 .. 9
  /\ {MaxCalls, MaxActs, MaxEvents} \subseteq Nat

VARIABLES rows,        \* a sequence: a row's number is its id
          snapshots,   \* dashboard_snapshots: ids and texts
          triggers,    \* a sequence of the jobs they start, 0 when deleted
          windows,
          calls,       \* a sequence, in the order in which they began
          overlapped,  \* history: rows with overlapping writers
          astray,      \* history: transforms not edited by one sound editor
          others,      \* who acts besides the windows: agents, old panels
          acts, events

vars == <<rows, snapshots, triggers, windows, calls, overlapped, astray,
          others, acts, events>>

Row(kind, name, text) ==
  [kind |-> kind, name |-> name, text |-> text, live |-> TRUE,
   past |-> {text}]                        \* history: the texts it has had
Live == {r \in DOMAIN rows : rows[r].live}
Here == {rows[r].kind : r \in DOMAIN rows} \* kinds do not touch each other

TriggersOf(r) == {g \in DOMAIN triggers : triggers[g] = r}
TextsOf(r) == {s[2] : s \in {x \in snapshots : x[1] = r}}
NewText == MaxActs - acts + 2              \* texts are numbered by their acts

(* The UNIQUE indexes on slugs and on the names of backends.               *)
Conflict(r, name, kind) ==
  /\ kind \in {"dashboard", "backend"}
  /\ name # 0
  /\ \E s \in Live \ {r} : rows[s].kind = kind /\ rows[s].name = name

Random == 1 + Max({999} \cup {rows[r].name : r \in DOMAIN rows})

-----------------------------------------------------------------------------
(* Calls.                                                                  *)

HasRoom(cs) == Len(cs) < MaxCalls
Without(i) == RemoveAt(calls, i)

Call(op, w, at) ==
  [op |-> op, window |-> w, tab |-> 0, at |-> at,
   mounted |-> TRUE,      \* the component that made it is still shown
   kind |-> "dashboard", row |-> 0, text |-> 0,
   name |-> None,         \* the slug or name asked for, None to keep it
   count |-> 0,           \* slugs tried
   base |-> 0,            \* the text that was read
   found |-> {},          \* what was read, or the triggers still to delete
   watches |-> FALSE,     \* triggers are wanted
   raced |-> FALSE]       \* history: a slug was given away meanwhile

(* What is left to do when the answer comes.                              *)
Answered(c, found) ==
  [Call(c.op, c.window, "answer") EXCEPT
     !.tab = c.tab, !.mounted = c.mounted, !.kind = c.kind, !.row = c.row,
     !.found = found]

At(i, op, at) == calls[i].op \in op /\ calls[i].at = at
To(i, at) == calls' = [calls EXCEPT ![i].at = at]
End(i) == calls' = Without(i)

(* They have read row r, and have not written it yet.                      *)
WritesTo(r) == {i \in DOMAIN calls : /\ calls[i].row = r
                                     /\ calls[i].at \notin {"read", "answer"}
                                     /\ calls[i].op \in {"save", "delete"}}

-----------------------------------------------------------------------------
(* Tabs: only the active one is shown, and showing a tab makes a new       *)
(* component.                                                              *)

Place(tabs, n) == CHOOSE k \in DOMAIN tabs : tabs[k].n = n
HasTab(w, n) == \E t \in ToSet(windows[w].tabs) : t.n = n
Active(w) == windows[w].tabs[Place(windows[w].tabs, windows[w].active)]

IsSaving(w) == \E i \in DOMAIN calls :
  calls[i].window = w /\ calls[i].op = "save" /\ calls[i].mounted
IsDeleting(w) == \E i \in DOMAIN calls :
  calls[i].window = w /\ calls[i].op = "delete" /\ calls[i].mounted

(* A transform's component asks for the job's triggers.  A save writes the *)
(* triggers it knows of, which are another job's when the component is one *)
(* for a new transform and has made that job before.                       *)
Touches(c, r) ==
  /\ c.op = "save" /\ c.kind = "transform"
  /\ c.row = r \/ \E g \in c.found : triggers[g] = r
Shows(tab) == tab.kind = "transform" /\ tab.row # 0
LoadCall(w, tab) ==
  [Call("load", w, "read") EXCEPT !.kind = "transform", !.row = tab.row,
                                  !.tab = tab.n]
Unmounted(cs, w) ==
  [i \in DOMAIN cs |->
     IF cs[i].window = w THEN [cs[i] EXCEPT !.mounted = FALSE] ELSE cs[i]]

(* Window w has these tabs and shows this one; cs are the calls so far.    *)
Show(w, tabs, active, cs) ==
  LET shown == tabs[Place(tabs, active)]
      loads == active # 0 /\ Shows(shown)
  IN IF active = windows[w].active
     THEN /\ windows' = [windows EXCEPT ![w].tabs = tabs]
          /\ calls' = cs
          /\ UNCHANGED astray
     ELSE /\ windows' = [windows EXCEPT ![w].tabs = tabs,
               ![w].active = active, ![w].loaded = FALSE, ![w].shown = {}]
          /\ loads => HasRoom(cs)
          /\ calls' = IF loads THEN Append(Unmounted(cs, w), LoadCall(w, shown))
                               ELSE Unmounted(cs, w)
          /\ astray' = IF loads /\ \E i \in DOMAIN cs : Touches(cs[i], shown.row)
                       THEN astray \cup {shown.row} ELSE astray

(* openTab: a tab that is open is shown again, a new one gets a number     *)
(* that no tab of the window and no call has.                              *)
Opened(w, kind, row) ==
  {k \in DOMAIN windows[w].tabs : /\ row # 0
                                  /\ windows[w].tabs[k].kind = kind
                                  /\ windows[w].tabs[k].row = row}
OpenTab(w, kind, row) ==
  LET used == {t.n : t \in ToSet(windows[w].tabs)}
                \cup {calls[i].tab : i \in DOMAIN calls}
      n == 1 + Max({0} \cup used)
      open == Opened(w, kind, row)
  IN IF open # {} THEN Show(w, windows[w].tabs, windows[w].tabs[Min(open)].n, calls)
     ELSE Show(w, Append(windows[w].tabs, [n |-> n, kind |-> kind, row |-> row]),
               n, calls)

(* Seeded bug: the last tab has no neighbour.                              *)
NextOnTheRight(w, n, tabs) ==
  LET i == Place(windows[w].tabs, n) IN
  IF windows[w].active = n /\ i \in DOMAIN tabs THEN tabs[i].n
  ELSE windows[w].active

(* closeTab: the neighbour on the right is shown, or the one on the left.  *)
NextActive(w, n, tabs) ==
  LET i == Place(windows[w].tabs, n) IN
  IF windows[w].active # n THEN windows[w].active
  ELSE IF tabs = <<>> THEN 0
  ELSE IF i \in DOMAIN tabs THEN tabs[i].n ELSE tabs[i - 1].n
CloseTab(w, n, cs) ==
  IF ~HasTab(w, n)
  THEN calls' = cs /\ UNCHANGED <<windows, astray>>
  ELSE LET tabs == RemoveAt(windows[w].tabs, Place(windows[w].tabs, n))
       IN Show(w, tabs, NextActive(w, n, tabs), cs)

-----------------------------------------------------------------------------
(* A window is opened: loadExplorerData asks for all lists.                *)

Act == acts > 0 /\ acts' = acts - 1

Mount(w) ==
  /\ Act /\ ~windows[w].open
  /\ HasRoom(calls)
  /\ windows' = [windows EXCEPT ![w].open = TRUE]
  /\ calls' = Append(calls, Call("list", w, "read"))
  /\ UNCHANGED <<rows, snapshots, triggers, overlapped, astray, events>>

ReadList(i) ==
  /\ At(i, {"list"}, "read")
  /\ calls' = [calls EXCEPT ![i] = Answered(@, Live)]
  /\ UNCHANGED <<rows, snapshots, triggers, windows, overlapped, astray, acts,
                 events>>

ShowList(i) ==
  /\ At(i, {"list"}, "answer")
  /\ windows' = [windows EXCEPT ![calls[i].window].listed = calls[i].found]
  /\ End(i)
  /\ UNCHANGED <<rows, snapshots, triggers, overlapped, astray, acts, events>>

-----------------------------------------------------------------------------
(* What a user does in a window.                                           *)

OpenRow(w, r) ==
  /\ Act /\ r \in windows[w].listed
  /\ OpenTab(w, rows[r].kind, r)
  /\ UNCHANGED <<rows, snapshots, triggers, overlapped, events>>

OpenNew(w, kind) ==
  /\ Act /\ windows[w].open
  /\ OpenTab(w, kind, 0)
  /\ UNCHANGED <<rows, snapshots, triggers, overlapped, events>>

Focus(w, n) ==
  /\ Act /\ n # windows[w].active
  /\ Show(w, windows[w].tabs, n, calls)
  /\ UNCHANGED <<rows, snapshots, triggers, overlapped, events>>

Close(w, n) ==
  /\ Act
  /\ CloseTab(w, n, calls)
  /\ UNCHANGED <<rows, snapshots, triggers, overlapped, events>>

Touched(w) == {Active(w).row} \cup {triggers[g] : g \in windows[w].shown}
ShownElsewhere(w, r) ==
  \E v \in Windows \ {w} :
    /\ windows[v].active # 0
    /\ Active(v).kind = "transform" /\ Active(v).row = r
Unsound(w, r) ==
  \/ Active(w).row # 0 /\ ~windows[w].loaded
  \/ ShownElsewhere(w, r)
  \/ \E i \in DOMAIN calls : Touches(calls[i], r)

(* Save: the shown component starts a call.  Every one but a transform's   *)
(* shows no editor while it loads its row.                                 *)
Saves(w, kind, at, name, watches) ==
  /\ Act /\ HasRoom(calls)
  /\ windows[w].active # 0 /\ Active(w).kind = kind
  /\ ~IsSaving(w)
  /\ calls' = Append(calls, [Call("save", w, at) EXCEPT
       !.tab = Active(w).n, !.kind = kind, !.row = Active(w).row,
       !.text = NewText, !.name = name, !.watches = watches,
       !.found = windows[w].shown])
  /\ UNCHANGED <<rows, snapshots, triggers, windows, overlapped, events>>

(* A slug is sent when it is not empty.                                    *)
SaveDashboard(w, name) ==
  /\ Saves(w, "dashboard", IF Active(w).row = 0 THEN "missing" ELSE "read",
           name, FALSE)
  /\ name \in {None, 1} \/ (Active(w).row # 0 /\ name = rows[Active(w).row].name)
  /\ UNCHANGED astray

SaveTransform(w, watches) ==
  /\ Saves(w, "transform", "put", None, watches)
  /\ astray' = astray \cup {r \in Touched(w) : Unsound(w, r)}

CreateBackend(w, name) ==
  /\ Saves(w, "backend", "write", name, FALSE)
  /\ Active(w).row = 0 /\ name # None
  /\ UNCHANGED astray

EditBackend(w, name) ==
  /\ Saves(w, "backend", "write", name, FALSE)
  /\ Active(w).row # 0
  /\ UNCHANGED astray

(* Names of credentials and of jobs are not unique.                        *)
SaveCred(w) == Saves(w, "cred", "write", None, FALSE) /\ UNCHANGED astray
SaveJob(w) == Saves(w, "job", "write", None, FALSE) /\ UNCHANGED astray

Deletes(w, kind, at) ==
  /\ Act /\ HasRoom(calls)
  /\ windows[w].active # 0
  /\ Active(w).kind = kind /\ Active(w).row # 0
  /\ ~IsDeleting(w)
  /\ calls' = Append(calls, [Call("delete", w, at) EXCEPT
       !.tab = Active(w).n, !.kind = kind, !.row = Active(w).row])
  /\ UNCHANGED <<rows, snapshots, triggers, windows, overlapped, astray, events>>

DeleteDashboard(w) == Deletes(w, "dashboard", "read")
DeleteBackend(w) == Deletes(w, "backend", "write")
DeleteCred(w) == Deletes(w, "cred", "write")

(* saveQuery: always a new row.                                            *)
SaveQuery(w) ==
  /\ Act /\ HasRoom(calls)
  /\ windows[w].active # 0 /\ Active(w).kind = "saved"
  /\ calls' = Append(calls, [Call("query", w, "write") EXCEPT
       !.tab = Active(w).n, !.kind = "saved", !.text = NewText])
  /\ UNCHANGED <<rows, snapshots, triggers, windows, overlapped, astray, events>>

-----------------------------------------------------------------------------
(* What an agent does: submit_dashboard and update_dashboard take several  *)
(* statements, the tools for transforms are one request to the catalog.    *)

Submit(name) ==
  /\ Act /\ HasRoom(calls)
  /\ calls' = Append(calls, [Call("save", None, IF name = 0 THEN "write" ELSE "slug")
                            EXCEPT !.text = NewText, !.name = name])
  /\ UNCHANGED <<rows, snapshots, triggers, windows, overlapped, astray, events>>

(* text 0: the text is kept, as when only the slug is to change.           *)
Update(r, text, name) ==
  /\ Act /\ HasRoom(calls)
  /\ text # 0 \/ name # None
  /\ calls' = Append(calls, [Call("save", None, "read")
                            EXCEPT !.row = r, !.text = text, !.name = name])
  /\ UNCHANGED <<rows, snapshots, triggers, windows, overlapped, astray, events>>

(* The triggers of r change while an editor shows them or is saving them.  *)
ToldToNobody(r) ==
  astray' = IF ShownElsewhere(None, r)
               \/ \E i \in DOMAIN calls : Touches(calls[i], r)
            THEN astray \cup {r} ELSE astray

CreateTrigger(r) ==
  /\ Act
  /\ triggers' = Append(triggers, r)
  /\ ToldToNobody(r)
  /\ UNCHANGED <<rows, snapshots, windows, calls, overlapped, events>>

DeleteTrigger(g) ==
  /\ Act
  /\ triggers' = [triggers EXCEPT ![g] = 0]
  /\ ToldToNobody(triggers[g])
  /\ UNCHANGED <<rows, snapshots, windows, calls, overlapped, events>>

DeleteJob(r) ==
  /\ Act
  /\ rows' = [rows EXCEPT ![r].live = FALSE]
  /\ triggers' = [g \in DOMAIN triggers |-> IF triggers[g] = r THEN 0 ELSE triggers[g]]
  /\ UNCHANGED <<snapshots, windows, calls, overlapped, astray, events>>

(* One statement of somebody who keeps nothing of it.                      *)
Insert(kind, name) ==
  /\ Act
  /\ rows' = Append(rows, Row(kind, name, NewText))
  /\ UNCHANGED <<snapshots, triggers, windows, calls, overlapped, astray, events>>

Change(r, name) ==
  /\ Act
  /\ rows' = [rows EXCEPT ![r].name = name, ![r].text = NewText,
                          ![r].past = @ \cup {NewText}]
  /\ UNCHANGED <<snapshots, triggers, windows, calls, overlapped, astray, events>>

Drop(r) ==
  /\ Act
  /\ rows' = [rows EXCEPT ![r].live = FALSE]
  /\ UNCHANGED <<snapshots, triggers, windows, calls, overlapped, astray, events>>

CreateTransform == Insert("transform", 0)
UpdateTransform(r) == Change(r, 0)

-----------------------------------------------------------------------------
(* What the user does in the old interface, whose panels show lists that   *)
(* are loaded again after each request: only the requests matter here.     *)

AddBackend(name) == ~Conflict(0, name, "backend") /\ Insert("backend", name)
ChangeBackend(r, name) == ~Conflict(r, name, "backend") /\ Change(r, name)
RemoveBackend(r) == Drop(r)

AddCred == Insert("cred", 0)
RemoveCred(r) == Drop(r)

SubmitJob(r) == IF r = 0 THEN Insert("job", 0) ELSE Change(r, 0)
RemoveJob(r) == Drop(r)

(* The dialog for a new transform may also ask for one trigger.            *)
SubmitTransform(r, watches) ==
  /\ Act /\ HasRoom(calls)
  /\ calls' = Append(calls, [Call("save", None, "put") EXCEPT
       !.kind = "transform", !.row = r, !.text = NewText,
       !.watches = watches /\ r = 0])
  /\ UNCHANGED <<rows, snapshots, triggers, windows, overlapped, astray, events>>

RemoveTransform(r) == DeleteJob(r)
AddTrigger(r) == CreateTrigger(r)
RemoveTrigger(g) == DeleteTrigger(g)

RemoveDashboard(r) ==
  /\ Act /\ HasRoom(calls)
  /\ calls' = Append(calls, [Call("delete", None, "read") EXCEPT !.row = r])
  /\ UNCHANGED <<rows, snapshots, triggers, windows, overlapped, astray, events>>

-----------------------------------------------------------------------------
(* Dashboards in the worker.                                               *)

(* getDashboardByIdOrSlug, for an update or a deletion.                    *)
ReadDashboard(i) ==
  LET c == calls[i] IN
  /\ At(i, {"save", "delete"}, "read")
  /\ IF c.row \in Live
     THEN /\ calls' = [calls EXCEPT ![i].base = rows[c.row].text,
                ![i].at = IF c.name \in Nat \ {0} THEN "slug" ELSE "snapshot"]
          /\ overlapped' = IF WritesTo(c.row) # {} THEN overlapped \cup {c.row}
                           ELSE overlapped
     ELSE /\ calls' = [calls EXCEPT ![i] = Answered(c, {})]
          /\ UNCHANGED overlapped
  /\ UNCHANGED <<rows, snapshots, triggers, windows, astray, acts, events>>

(* resolveUniqueSlug: one candidate is looked up.                          *)
Candidate(c) == IF c.count = 0 THEN c.name ELSE 10 * c.name + c.count + 1

(* Seeded bug: a suffix is not looked up.                                  *)
TakenByTitle(c) ==
  c.count = 0 /\ Conflict(c.row, c.name, "dashboard")

Taken(c) == Conflict(c.row, Candidate(c), "dashboard")

(* Seeded bug: no snapshot with a new slug.                                *)
AfterSlugOfNew(c) == "write"

AfterSlug(c) == IF c.row = 0 THEN "write" ELSE "snapshot"

(* Seeded bug: no limit on the suffix.                                     *)
TrySlugForever(i) ==
  LET c == calls[i] IN
  /\ At(i, {"save"}, "slug")
  /\ calls' = [calls EXCEPT ![i] =
       IF Taken(c) THEN [c EXCEPT !.count = @ + 1]
       ELSE [c EXCEPT !.name = Candidate(c), !.at = AfterSlug(c), !.raced = FALSE]]
  /\ UNCHANGED <<rows, snapshots, triggers, windows, overlapped, astray, acts,
                 events>>

TrySlug(i) ==
  LET c == calls[i] IN
  /\ At(i, {"save"}, "slug")
  /\ calls' = [calls EXCEPT ![i] =
       IF ~Taken(c) THEN [c EXCEPT !.name = Candidate(c), !.at = AfterSlug(c),
                                   !.raced = FALSE]
       ELSE IF c.count + 1 < MaxTries THEN [c EXCEPT !.count = @ + 1]
       ELSE [c EXCEPT !.name = Random, !.at = AfterSlug(c), !.raced = FALSE]]
  /\ UNCHANGED <<rows, snapshots, triggers, windows, overlapped, astray, acts,
                 events>>

TakeSnapshot(i) ==
  /\ At(i, {"save", "delete"}, "snapshot")
  /\ snapshots' = snapshots \cup {<<calls[i].row, calls[i].base>>}
  /\ To(i, "write")
  /\ UNCHANGED <<rows, triggers, windows, overlapped, astray, acts, events>>

-----------------------------------------------------------------------------
(* Statements that write.  A name that is taken fails the request, a row   *)
(* that is gone leaves it without effect.                                  *)

NewName(c) == IF c.name = None THEN 0 ELSE c.name

Updated(row, c) ==
  [row EXCEPT !.name = IF c.name = None THEN @ ELSE c.name,
              !.text = IF c.text = 0 THEN @ ELSE c.text,
              !.past = IF c.text = 0 THEN @ ELSE @ \cup {c.text}]

(* Others that have looked a slug up may now find it taken.                *)
Raced(cs, i) ==
  [j \in DOMAIN cs |-> IF j # i /\ cs[j].kind = "dashboard"
                       THEN [cs[j] EXCEPT !.raced = TRUE] ELSE cs[j]]

Refused(c) == c.name # None /\ Conflict(c.row, c.name, c.kind)

RefuseWrite(i) ==
  /\ At(i, {"save"}, "write") /\ Refused(calls[i])
  /\ calls' = [calls EXCEPT ![i] = Answered(@, {})]
  /\ UNCHANGED <<rows, snapshots, triggers, windows, overlapped, astray, acts,
                 events>>

Inserts(i, kind) ==
  LET c == calls[i] IN
  /\ rows' = Append(rows, Row(kind, NewName(c), c.text))
  /\ calls' = [Raced(calls, i) EXCEPT ![i] = Answered(c, {Len(rows) + 1})]
  /\ UNCHANGED <<snapshots, triggers, windows, overlapped, astray, acts, events>>

InsertRow(i) ==
  /\ At(i, {"save"}, "write") /\ calls[i].row = 0 /\ ~Refused(calls[i])
  /\ Inserts(i, calls[i].kind)

InsertQuery(i) == At(i, {"query"}, "write") /\ Inserts(i, "saved")

UpdateRow(i) ==
  LET c == calls[i] IN
  /\ At(i, {"save"}, "write") /\ c.row # 0 /\ ~Refused(c)
  /\ rows' = IF c.row \in Live THEN [rows EXCEPT ![c.row] = Updated(@, c)]
             ELSE rows
  /\ calls' = [Raced(calls, i) EXCEPT ![i] = Answered(c, {})]
  /\ UNCHANGED <<snapshots, triggers, windows, overlapped, astray, acts, events>>

WriteDelete(i) ==
  LET c == calls[i] IN
  /\ At(i, {"delete"}, "write")
  /\ rows' = [rows EXCEPT ![c.row].live = FALSE]
  /\ calls' = [calls EXCEPT ![i] =
       Answered(c, IF c.kind = "dashboard" THEN {c.row} ELSE Live \cap {c.row})]
  /\ UNCHANGED <<snapshots, triggers, windows, overlapped, astray, acts, events>>

-----------------------------------------------------------------------------
(* TransformView.save: the job, then the triggers it knows of are deleted  *)
(* all at once, then one is made for the tables to watch.                  *)

AfterPut(c) ==
  IF c.found # {} THEN [c EXCEPT !.at = "clear"]
  ELSE IF c.watches THEN [c EXCEPT !.at = "post"]
  ELSE Answered(c, {})

PutTransform(i) ==
  LET c == calls[i] IN
  /\ At(i, {"save"}, "put")
  /\ IF c.row # 0 /\ c.row \notin Live
     THEN End(i) /\ UNCHANGED rows
     ELSE /\ rows' = IF c.row = 0 THEN Append(rows, Row("transform", 0, c.text))
                     ELSE [rows EXCEPT ![c.row] = Updated(@, c)]
          /\ calls' = [calls EXCEPT ![i] =
               AfterPut([c EXCEPT !.row = IF @ = 0 THEN Len(rows) + 1 ELSE @])]
  /\ UNCHANGED <<snapshots, triggers, windows, overlapped, astray, acts, events>>

ClearTrigger(i, g) ==
  LET c == [calls[i] EXCEPT !.found = @ \ {g}, !.count = @ + 1] IN
  /\ At(i, {"save"}, "clear")
  /\ g \in calls[i].found
  /\ triggers' = [triggers EXCEPT ![g] = 0]
  /\ calls' = [calls EXCEPT ![i] = AfterPut(c)]
  /\ UNCHANGED <<rows, snapshots, windows, overlapped, astray, acts, events>>

PostTrigger(i) ==
  LET c == calls[i] IN
  /\ At(i, {"save"}, "post")
  /\ IF c.row \in Live
     THEN /\ triggers' = Append(triggers, c.row)
          /\ calls' = [calls EXCEPT ![i] = Answered(c, {Len(triggers) + 1})]
     ELSE End(i) /\ UNCHANGED triggers
  /\ UNCHANGED <<rows, snapshots, windows, overlapped, astray, acts, events>>

LoadTriggers(i) ==
  /\ At(i, {"load"}, "read")
  /\ calls' = [calls EXCEPT ![i] = Answered(@, TriggersOf(@.row))]
  /\ UNCHANGED <<rows, snapshots, triggers, windows, overlapped, astray, acts,
                 events>>

ShowTriggers(i) ==
  LET c == calls[i] IN
  /\ At(i, {"load"}, "answer")
  /\ windows' = IF c.mounted
                THEN [windows EXCEPT ![c.window].shown = c.found,
                                     ![c.window].loaded = TRUE]
                ELSE windows
  /\ End(i)
  /\ UNCHANGED <<rows, snapshots, triggers, overlapped, astray, acts, events>>

-----------------------------------------------------------------------------
(* Answers.                                                                *)

(* Seeded bug: no setTrTriggers([]).                                       *)
ReceiveTrigger(i) ==
  LET c == calls[i] IN
  /\ At(i, {"save"}, "answer")
  /\ windows' = IF c.mounted /\ c.found # {} /\ c.kind = "transform" /\ c.window # None
                THEN [windows EXCEPT ![c.window].shown = c.found]
                ELSE windows
  /\ End(i)
  /\ UNCHANGED <<rows, snapshots, triggers, overlapped, astray, acts, events>>

(* A save ends: only a transform's component keeps something of it.  The   *)
(* tab of a new row stays one for a new row.                               *)
ReceiveSaved(i) ==
  LET c == calls[i] IN
  /\ At(i, {"save"}, "answer")
  /\ windows' = IF c.kind = "transform" /\ c.mounted /\ c.window # None
                THEN [windows EXCEPT ![c.window].shown = c.found]
                ELSE windows
  /\ End(i)
  /\ UNCHANGED <<rows, snapshots, triggers, overlapped, astray, acts, events>>

(* POST /api/dashboards: there is no such route.                           *)
NoRoute(i) ==
  /\ At(i, {"save"}, "missing")
  /\ End(i)
  /\ UNCHANGED <<rows, snapshots, triggers, windows, overlapped, astray, acts,
                 events>>

(* A deletion ends: the tab is closed, and after that of a dashboard the   *)
(* lists are loaded again.                                                 *)
Refreshes(c) == c.kind = "dashboard"
ReceiveDeleted(i) ==
  LET c == calls[i]
      cs == IF Refreshes(c) THEN Append(Without(i), Call("list", c.window, "read"))
            ELSE Without(i)
  IN
  /\ At(i, {"delete"}, "answer")
  /\ IF c.found = {} \/ c.window = None THEN End(i) /\ UNCHANGED <<windows, astray>>
     ELSE CloseTab(c.window, c.tab, cs)
  /\ UNCHANGED <<rows, snapshots, triggers, overlapped, acts, events>>

(* The tab becomes the one of the saved query.                             *)
ReceiveQuery(i) ==
  LET c == calls[i]
      q == Max(c.found)
      Renamed(t) == IF t.n = c.tab THEN [t EXCEPT !.row = q] ELSE t
      tabs == windows[c.window].tabs
  IN
  /\ At(i, {"query"}, "answer")
  /\ windows' = [windows EXCEPT ![c.window].listed = @ \cup {q},
                   ![c.window].tabs = [k \in DOMAIN tabs |-> Renamed(tabs[k])]]
  /\ End(i)
  /\ UNCHANGED <<rows, snapshots, triggers, overlapped, astray, acts, events>>

(* The network fails before a window's request arrives or after it has     *)
(* been served.                                                            *)
Lose(i) ==
  LET c == calls[i] IN
  /\ events > 0 /\ events' = events - 1
  /\ c.window # None
  /\ \/ c.at \in {"read", "put", "post", "answer"}
     \/ c.at = "write" /\ c.kind # "dashboard"
     \/ c.at = "clear" /\ c.count = 0
  /\ End(i)
  /\ astray' = IF c.op = "save" /\ c.kind = "transform"
               THEN astray \cup {c.row} ELSE astray
  /\ UNCHANGED <<rows, snapshots, triggers, windows, overlapped, acts>>

(* A failed deletion of a trigger is ignored.                              *)
LoseClear(i, g) ==
  LET c == [calls[i] EXCEPT !.found = @ \ {g}, !.count = @ + 1] IN
  /\ At(i, {"save"}, "clear")
  /\ g \in calls[i].found
  /\ events > 0 /\ events' = events - 1
  /\ calls' = [calls EXCEPT ![i] = AfterPut(c)]
  /\ astray' = astray \cup ({c.row, triggers[g]} \ {0})
  /\ UNCHANGED <<rows, snapshots, triggers, windows, overlapped, acts>>

-----------------------------------------------------------------------------
FirstSlug(r) == IF r = 1 THEN 1 ELSE 10 + r

Init ==
  /\ \E start \in Starts : LET kinds == start.kinds IN
       /\ rows = [r \in DOMAIN kinds |->
                    Row(kinds[r], IF kinds[r] = "dashboard" THEN FirstSlug(r)
                                  ELSE IF kinds[r] = "backend" THEN r ELSE 0, 1)]
       /\ triggers = [r \in DOMAIN kinds |-> IF kinds[r] = "transform" THEN r ELSE 0]
       /\ windows = [w \in Windows |->
            [open |-> w \in ToSet(start.windows), listed |-> {}, tabs |-> <<>>,
             active |-> 0, loaded |-> FALSE, shown |-> {}]]
       /\ calls = [i \in DOMAIN start.windows |->
                     Call("list", start.windows[i], "read")]
       /\ others = start.others /\ acts = start.acts /\ events = start.events
  /\ snapshots = {} /\ overlapped = {} /\ astray = {}

Work == UNCHANGED others /\ \E i \in DOMAIN calls :
  \/ ReadList(i) \/ ShowList(i)
  \/ ReadDashboard(i) \/ TrySlug(i) \/ TakeSnapshot(i)
  \/ RefuseWrite(i) \/ InsertRow(i) \/ InsertQuery(i) \/ UpdateRow(i)
  \/ WriteDelete(i)
  \/ PutTransform(i) \/ (\E g \in calls[i].found : ClearTrigger(i, g))
  \/ PostTrigger(i) \/ LoadTriggers(i) \/ ShowTriggers(i)
  \/ ReceiveSaved(i) \/ NoRoute(i) \/ ReceiveDeleted(i) \/ ReceiveQuery(i)

User == \E w \in Windows :
  \/ Mount(w)
  \/ \E r \in DOMAIN rows : OpenRow(w, r)
  \/ \E kind \in Here : OpenNew(w, kind)
  \/ \E t \in ToSet(windows[w].tabs) : Focus(w, t.n) \/ Close(w, t.n)
  \/ \E name \in {None, 1, 12} : SaveDashboard(w, name)
  \/ \E watches \in BOOLEAN : SaveTransform(w, watches)
  \/ \E name \in {None, 1, 2} : CreateBackend(w, name) \/ EditBackend(w, name)
  \/ SaveCred(w) \/ SaveJob(w) \/ SaveQuery(w)
  \/ DeleteDashboard(w) \/ DeleteBackend(w) \/ DeleteCred(w)

Agent == "agent" \in others /\
  \/ \E r \in DOMAIN rows : rows[r].kind = "dashboard" /\
       \/ \E name \in {None, 1} : Update(r, NewText, name)
       \/ Update(r, 0, 0)
  \/ "dashboard" \in Here /\ \E name \in {0, 1} : Submit(name)
  \/ \E r \in Live : rows[r].kind = "transform" /\
       (CreateTrigger(r) \/ DeleteJob(r) \/ UpdateTransform(r))
  \/ "transform" \in Here /\ CreateTransform
  \/ \E g \in DOMAIN triggers : triggers[g] # 0 /\ DeleteTrigger(g)

Panels == "panels" \in others /\
  \/ \E name \in {1, 2} :
       \/ "backend" \in Here /\ AddBackend(name)
       \/ \E r \in Live : rows[r].kind = "backend" /\ ChangeBackend(r, name)
  \/ "cred" \in Here /\ AddCred
  \/ "job" \in Here /\ SubmitJob(0)
  \/ "transform" \in Here /\ \E watches \in BOOLEAN : SubmitTransform(0, watches)
  \/ \E r \in Live :
       \/ rows[r].kind = "backend" /\ RemoveBackend(r)
       \/ rows[r].kind = "cred" /\ RemoveCred(r)
       \/ rows[r].kind = "job" /\ (SubmitJob(r) \/ RemoveJob(r))
       \/ rows[r].kind = "transform" /\
            (SubmitTransform(r, FALSE) \/ RemoveTransform(r) \/ AddTrigger(r))
       \/ rows[r].kind = "dashboard" /\ RemoveDashboard(r)
  \/ \E g \in DOMAIN triggers : triggers[g] # 0 /\ RemoveTrigger(g)

Fail == \E i \in DOMAIN calls :
  Lose(i) \/ \E g \in calls[i].found : LoseClear(i, g)

Next == Work \/ ((User \/ Agent \/ Panels \/ Fail) /\ UNCHANGED others)

Spec == Init /\ [][Next]_vars

-----------------------------------------------------------------------------
(* Properties.                                                             *)

IsCall(c) ==
  /\ c.op \in {"list", "load", "save", "delete", "query"}
  /\ c.at \in {"read", "slug", "snapshot", "write", "put", "clear", "post",
               "missing", "answer"}
  /\ c.window \in Windows \cup {None}
  /\ c.kind \in Kinds
  /\ c.row \in 0 .. Len(rows)
  /\ c.text \in 0 .. MaxActs + 1
  /\ c.name \in Nat \cup {None}
  /\ c.at = "slug" => c.count < MaxTries
  /\ c.found \subseteq 1 .. Len(rows) + Len(triggers)
  /\ {c.mounted, c.watches, c.raced} \subseteq BOOLEAN

IsWindow(w) ==
  /\ {w.open, w.loaded} \subseteq BOOLEAN
  /\ w.listed \subseteq DOMAIN rows
  /\ w.shown \subseteq DOMAIN triggers
  /\ \A t \in ToSet(w.tabs) : t.kind \in Kinds /\ t.row \in 0 .. Len(rows)

(* Ids denote rows and triggers that have existed, a slug is looked up at  *)
(* most MaxTries times.                                                    *)
TypeOK ==
  /\ \A r \in DOMAIN rows : rows[r].kind \in Kinds /\ rows[r].name \in Nat
                           /\ rows[r].text \in rows[r].past
  /\ \A g \in DOMAIN triggers : triggers[g] \in 0 .. Len(rows)
  /\ snapshots \subseteq (DOMAIN rows) \X Nat
  /\ \A w \in Windows : IsWindow(windows[w])
  /\ Len(calls) <= MaxCalls
  /\ \A i \in DOMAIN calls : IsCall(calls[i])
  /\ overlapped \subseteq DOMAIN rows
  /\ others \subseteq {"agent", "panels"}
  /\ acts \in 0 .. MaxActs /\ events \in 0 .. MaxEvents

(* README.md:46, "auto-snapshots on every update and delete": each text a  *)
(* dashboard has had is still its text or is in a snapshot, whoever wrote  *)
(* over it (an editor with a stale form, one whose load failed, an agent), *)
(* unless two requests for it overlapped.                                  *)
Kept(r) == rows[r].past \subseteq
  TextsOf(r) \cup (IF rows[r].live THEN {rows[r].text} ELSE {})
EveryVersionIsKept ==
  \A r \in DOMAIN rows \ overlapped : rows[r].kind = "dashboard" => Kept(r)

(* db/dashboards.ts:34: a slug that was found free is still free when it   *)
(* is written, unless another dashboard was written in between.            *)
SlugsFailOnlyInARace ==
  \A i \in DOMAIN calls : LET c == calls[i] IN
    (c.kind = "dashboard" /\ c.op = "save" /\ c.at \in {"snapshot", "write"}
       /\ Refused(c)) => c.raced

(* TransformView.tsx:122: what the editor of a transform shows as its      *)
(* triggers are the triggers of the job, when it alone edits them, has     *)
(* loaded them before the first save and no request of it has failed.      *)
EditorShowsTriggers ==
  \A w \in Windows :
    (/\ windows[w].active # 0 /\ windows[w].loaded /\ ~IsSaving(w)
     /\ Active(w).row \in Live \ astray)
    => windows[w].shown = TriggersOf(Active(w).row)

(* WorkbenchShell.tsx:536, 555: a row has one tab in a window, unless it   *)
(* is a saved query (it may be listed and opened before the tab it was     *)
(* saved from has got its id), and the active tab is an open one, whatever *)
(* deletions end meanwhile.                                                *)
TabBarIsSound ==
  \A w \in Windows : LET tabs == windows[w].tabs IN
    /\ \A j, k \in DOMAIN tabs :
         (j # k /\ tabs[j].row = tabs[k].row /\ tabs[j].row # 0)
           => tabs[j].kind = "saved"
    /\ IF tabs = <<>> THEN windows[w].active = 0
       ELSE HasTab(w, windows[w].active)
=============================================================================
