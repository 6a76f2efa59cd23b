------------------------ MODULE CatalogViews_proofs ------------------------
(***************************************************************************)
(* Proofs about the view synchronisation, for any tables, sockets, commits *)
(* and tasks and any of the outside events: the types; that a query which  *)
(* waits for the catalog-ready promise reads the commits that have         *)
(* arrived, or its table is marked; and that a tab with nothing under way  *)
(* shows the latest commits, or marks their tables.                        *)
(***************************************************************************)
EXTENDS CatalogViews, SequenceTheorems, WellFoundedInduction, TLAPS

-----------------------------------------------------------------------------
(* The types, in the parts that the handlers change together, and what is  *)
(* true of a task wherever it has come to.                                 *)

Messages == [table : Tables, snapshot : 1 .. MaxCommits]

Connection ==
  /\ latest \in [Tables -> 0 .. MaxCommits]
  /\ conn \in [Sockets -> {"none", "connecting", "open"}]
  /\ dead \subseteq Sockets
  /\ wire \in [Sockets -> Seq(Messages)]
  /\ ws \in {None} \cup {c \in Sockets : conn[c] # "none"}
  /\ connects \in Nat

Switches ==
  /\ timer \in BOOLEAN /\ before \in BOOLEAN
  /\ error \in BOOLEAN /\ loading \in BOOLEAN /\ enabled \in BOOLEAN
  /\ missed \in BOOLEAN /\ outdated \in BOOLEAN /\ gaveUp \in BOOLEAN

Display ==
  /\ db \in {"none", "creating", "ready"}
  /\ view \in [Tables -> 0 .. MaxCommits]
  /\ listed \in [Tables -> 0 .. MaxCommits]
  /\ failed \subseteq Tables
  /\ received \in [Tables -> 0 .. MaxCommits]
  /\ overlap \in {"no", "pass", "marks", "manual"}
  /\ events \in 0 .. MaxEvents

Entries == UNION {[D -> 1 .. MaxCommits] : D \in SUBSET Tables}

Task == [kind : {"init", "resync", "manual", "meta", "refresh"},
         at : {"wait", "db", "list", "views", "rejected"},
         waits : SUBSET Ids, entries : Entries,
         todo : SUBSET Tables, bad : SUBSET Tables,
         pass : {1, 2}, attempt : {1, 2}]

(* What a task has still to show, or has failed to show so far.            *)
Left(task) == task.todo \cup task.bad

(* Only a refresh waits, and only before it starts; what fetches a list    *)
(* has nothing to show before it is there, and a list alone never has.     *)
Sound(task) ==
  /\ Left(task) \subseteq DOMAIN task.entries
  /\ task.waits # {} => task.at = "wait"
  /\ task.at = "wait" => task.kind = "refresh"
  /\ task.at = "list" => task.kind # "refresh"
  /\ task.at = "db" => task.kind # "meta"
  /\ task.kind # "refresh" /\ task.at # "views" => Left(task) = {}
  /\ task.kind = "meta" => Left(task) = {}

TasksSound ==
  /\ DOMAIN tasks \subseteq Ids
  /\ \A i \in DOMAIN tasks : tasks[i] \in Task /\ Sound(tasks[i])

(* Every task but the user's is part of the catalog-ready promise.         *)
Promises ==
  /\ refreshing \subseteq DOMAIN tasks /\ ready \subseteq DOMAIN tasks
  /\ \A i \in DOMAIN tasks :
       tasks[i].kind \in {"init", "resync", "refresh"} => i \in ready

Typed == Connection /\ Switches /\ Display /\ TasksSound /\ Promises

LEMMA TypedIsTypeOK == Typed => TypeOK
<1> SUFFICES ASSUME Typed PROVE TypeOK
  OBVIOUS
<1>1. \A i \in DOMAIN tasks : IsTask(tasks[i])
  <2> SUFFICES ASSUME NEW i \in DOMAIN tasks PROVE IsTask(tasks[i])
    OBVIOUS
  <2>1. tasks[i] \in Task /\ Sound(tasks[i])
    BY DEF Typed, TasksSound
  <2>2. PICK D \in SUBSET Tables : tasks[i].entries \in [D -> 1 .. MaxCommits]
    BY <2>1 DEF Task, Entries
  <2> QED
    BY <2>1, <2>2 DEF Task, Sound, Left, IsTask
<1>2. Connection /\ Switches /\ Display
  BY DEF Typed
<1>3. {error, loading, enabled, missed, outdated, gaveUp} \subseteq BOOLEAN
      /\ timer \in BOOLEAN /\ before \in BOOLEAN
  BY <1>2, Zenon DEF Switches
<1>4. \A S \in {refreshing, ready} : S \subseteq DOMAIN tasks
  BY DEF Typed, Promises
<1>5. DOMAIN tasks \subseteq Ids
  BY DEF Typed, TasksSound
<1> QED
  BY <1>1, <1>2, <1>3, <1>4, <1>5 DEF TypeOK, Connection, Display, Messages

-----------------------------------------------------------------------------
(* The three ways in which tasks change: one starts or goes on, one ends,  *)
(* all those at DuckDB go on.                                              *)

(* A non-empty set of natural numbers has a least element.                 *)
LEMMA LeastNatural ==
  ASSUME NEW T \in SUBSET Nat, T # {}
  PROVE  Min(T) \in T
<1> DEFINE R == OpToRel(<, Nat)
<1>1. IsWellFoundedOn(R, Nat)
  BY NatLessThanWellFounded
<1>2. PICK x \in T : \A y \in T : <<y, x>> \notin R
  <2> HIDE DEF R
  <2> QED BY <1>1, WFMin
<1>3. \A y \in T : ~ (y < x)
  BY <1>2 DEF OpToRel
<1> HIDE DEF R
<1>4. \E y \in T : \A z \in T : y =< z
  BY <1>2, <1>3
<1> QED
  BY <1>4, Zenon DEF Min

LEMMA NewIdIsFree ==
  ASSUME TasksSound, HasRoom
  PROVE  NewId \in Ids /\ NewId \notin DOMAIN tasks
<1> DEFINE T == Ids \ DOMAIN tasks
<1>1. Ids \in SUBSET Nat
  BY DEF Ids
<1>2. T \in SUBSET Nat /\ T # {}
  BY <1>1, Zenon DEF TasksSound, HasRoom
<1>3. Min(T) \in T
  <2> HIDE DEF T
  <2> QED BY <1>2, LeastNatural
<1> QED
  BY <1>3 DEF NewId

LEMMA Placed ==
  ASSUME TasksSound, NEW id \in Ids, NEW task \in Task, Sound(task),
         tasks' = Spawn(tasks, id, task)
  PROVE  /\ TasksSound'
         /\ DOMAIN tasks' = DOMAIN tasks \cup {id}
         /\ tasks'[id] = task
         /\ \A i \in DOMAIN tasks \ {id} : tasks'[i] = tasks[i]
<1>1. /\ DOMAIN tasks' = DOMAIN tasks \cup {id}
      /\ tasks'[id] = task
      /\ \A i \in DOMAIN tasks \ {id} : tasks'[i] = tasks[i]
  BY Zenon DEF Spawn
<1>2. \A i \in DOMAIN tasks' : tasks'[i] \in Task /\ Sound(tasks'[i])
  BY <1>1 DEF TasksSound
<1>3. DOMAIN tasks' \subseteq Ids
  BY <1>1 DEF TasksSound
<1> QED
  BY <1>1, <1>2, <1>3, Zenon DEF TasksSound, Sound, Left

(* A task without those that it no longer waits for.                       *)
Without(task, id) == [task EXCEPT !.waits = @ \ {id}]

LEMMA WithoutSound ==
  ASSUME NEW task \in Task, Sound(task), NEW id
  PROVE  /\ Without(task, id) \in Task /\ Sound(Without(task, id))
         /\ Without(task, id).waits = task.waits \ {id}
         /\ Without(task, id).kind = task.kind /\ Without(task, id).at = task.at
         /\ Without(task, id).entries = task.entries
         /\ Without(task, id).todo = task.todo /\ Without(task, id).bad = task.bad
BY DEF Task, Sound, Left, Without

LEMMA Ended ==
  ASSUME TasksSound, Promises, NEW id \in DOMAIN tasks, End(id)
  PROVE  /\ TasksSound' /\ Promises'
         /\ DOMAIN tasks' = DOMAIN tasks \ {id}
         /\ \A i \in DOMAIN tasks' : tasks'[i] = Without(tasks[i], id)
<1>1. /\ DOMAIN tasks' = DOMAIN tasks \ {id}
      /\ \A i \in DOMAIN tasks' : tasks'[i] = Without(tasks[i], id)
  BY Zenon DEF End, Without
<1>2. \A i \in DOMAIN tasks' :
        /\ tasks'[i] \in Task /\ Sound(tasks'[i]) /\ tasks'[i].kind = tasks[i].kind
  BY <1>1, WithoutSound DEF TasksSound
<1>3. TasksSound'
  BY <1>1, <1>2 DEF TasksSound, Sound, Left
<1>4. refreshing' = refreshing \ {id} /\ ready' = ready \ {id}
  BY DEF End
<1>5. Promises'
  BY <1>1, <1>2, <1>4 DEF Promises
<1> QED
  BY <1>1, <1>3, <1>5

(* The tasks at DuckDB go to another point, those of a refresh to one that *)
(* may be another.                                                         *)
AllAt(pass, refresh) ==
  tasks' = [i \in DOMAIN tasks |->
              IF tasks[i].at # "db" THEN tasks[i]
              ELSE [tasks[i] EXCEPT !.at = IF tasks[i].kind = "refresh"
                                           THEN refresh ELSE pass]]

LEMMA Moved ==
  ASSUME TasksSound, NEW task \in Task, Sound(task), task.at = "db",
         NEW at \in {"list", "views", "rejected"},
         at = "list" => task.kind # "refresh",
         at = "views" => task.kind = "refresh",
         NEW new, new = [task EXCEPT !.at = at]
  PROVE  /\ new \in Task /\ Sound(new) /\ new.at = at /\ new.kind = task.kind
         /\ new.entries = task.entries /\ new.waits = task.waits
         /\ new.todo = task.todo /\ new.bad = task.bad
BY DEF Task, Sound, Left

(* A task does what it did, further on: it neither starts to show tables   *)
(* nor has shown or given up any.                                          *)
SameWork(old, new) ==
  /\ new.kind = old.kind /\ new.entries = old.entries /\ new.waits = old.waits
  /\ new.todo = old.todo /\ new.bad = old.bad
  /\ old.at # "views" /\ old.kind # "refresh" => new.at # "views"
  /\ old.at = "views" => new.at = "views"

LEMMA AllMoved ==
  ASSUME TasksSound, Promises, UNCHANGED <<refreshing, ready>>,
         AllAt("list", "views") \/ AllAt("rejected", "rejected")
  PROVE  /\ TasksSound' /\ Promises'
         /\ DOMAIN tasks' = DOMAIN tasks
         /\ \A i \in DOMAIN tasks : SameWork(tasks[i], tasks'[i])
<1>1. PICK p \in {"list", "rejected"}, r \in {"views", "rejected"} : AllAt(p, r)
  OBVIOUS
<1>2. DOMAIN tasks' = DOMAIN tasks
  BY <1>1, Zenon DEF AllAt
<1>3. \A i \in DOMAIN tasks : tasks'[i] \in Task /\ Sound(tasks'[i])
                              /\ SameWork(tasks[i], tasks'[i])
  <2> SUFFICES ASSUME NEW i \in DOMAIN tasks
               PROVE  tasks'[i] \in Task /\ Sound(tasks'[i])
                      /\ SameWork(tasks[i], tasks'[i])
    OBVIOUS
  <2>1. tasks[i] \in Task /\ Sound(tasks[i])
    BY DEF TasksSound
  <2>2. CASE tasks[i].at # "db"
    <3>1. tasks'[i] = tasks[i]
      BY <1>1, <2>2, Zenon DEF AllAt
    <3> QED
      BY <2>1, <3>1 DEF SameWork
  <2>3. CASE tasks[i].at = "db"
    <3> DEFINE at == IF tasks[i].kind = "refresh" THEN r ELSE p
    <3>1. tasks'[i] = [tasks[i] EXCEPT !.at = at]
      BY <1>1, <2>3, Zenon DEF AllAt
    <3>2. /\ at \in {"list", "views", "rejected"}
          /\ at = "list" => tasks[i].kind # "refresh"
          /\ at = "views" => tasks[i].kind = "refresh"
      OBVIOUS
    <3> HIDE DEF at
    <3> QED
      BY <2>1, <2>3, <3>1, <3>2, Moved DEF SameWork
  <2> QED
    BY <2>2, <2>3
<1>4. TasksSound'
  BY <1>2, <1>3 DEF TasksSound, Sound, Left
<1>5. Promises'
  BY <1>2, <1>3 DEF Promises, SameWork
<1> QED
  BY <1>2, <1>3, <1>4, <1>5
-----------------------------------------------------------------------------
(* The types.                                                              *)

LEMMA FreshTask ==
  ASSUME NEW kind \in {"init", "resync", "manual", "meta"},
         NEW at \in {"db", "list"}, at = "db" => kind # "meta"
  PROVE  /\ NewTask(kind, at, NoEntries) \in Task /\ Sound(NewTask(kind, at, NoEntries))
         /\ NewTask(kind, at, NoEntries).kind = kind
         /\ NewTask(kind, at, NoEntries).at = at
         /\ NewTask(kind, at, NoEntries).waits = {}
         /\ Left(NewTask(kind, at, NoEntries)) = {}
<1>1. NoEntries \in Entries /\ DOMAIN NoEntries = {}
  <2>1. NoEntries \in [{} -> 1 .. MaxCommits]
    BY DEF NoEntries
  <2> QED
    BY <2>1 DEF Entries
<1>2. NewTask(kind, at, NoEntries) =
        [kind |-> kind, at |-> at, waits |-> {}, entries |-> NoEntries,
         todo |-> {}, bad |-> {}, pass |-> 1, attempt |-> 1]
  BY <1>1 DEF NewTask
<1> QED
  BY <1>1, <1>2 DEF Task, Sound, Left

(* A pass or a list starts.                                                *)
LEMMA PassStarts ==
  ASSUME Typed, HasRoom, NEW kind \in {"init", "resync", "manual"},
         StartPass(kind, NewId)
  PROVE  /\ TasksSound' /\ DOMAIN tasks' = DOMAIN tasks \cup {NewId}
         /\ tasks'[NewId].kind = kind /\ tasks'[NewId].at \in {"db", "list"}
         /\ Left(tasks'[NewId]) = {} /\ tasks'[NewId].waits = {}
         /\ \A i \in DOMAIN tasks \ {NewId} : tasks'[i] = tasks[i]
         /\ db' \in {"none", "creating", "ready"} /\ failed' = {}
         /\ loading' = TRUE /\ error' = FALSE
         /\ overlap' \in {"no", "pass", "manual"} /\ UNCHANGED <<view, listed>>
<1>1. AfterDb("list") \in {"db", "list"}
  BY DEF AfterDb
<1> DEFINE task == NewTask(kind, AfterDb("list"), NoEntries)
<1>2. /\ task \in Task /\ Sound(task) /\ task.kind = kind
      /\ task.at = AfterDb("list") /\ task.waits = {} /\ Left(task) = {}
  BY <1>1, FreshTask
<1>3. tasks' = Spawn(tasks, NewId, task)
  BY DEF StartPass
<1>4. NewId \in Ids /\ NewId \notin DOMAIN tasks /\ TasksSound
  BY NewIdIsFree DEF Typed
<1>5. /\ db' \in {"none", "creating", "ready"} /\ failed' = {}
      /\ loading' = TRUE /\ error' = FALSE
      /\ overlap' \in {"no", "pass", "manual"} /\ UNCHANGED <<view, listed>>
  BY DEF StartPass, CallDb, Typed, Display
<1> HIDE DEF task
<1> QED
  BY <1>1, <1>2, <1>3, <1>4, <1>5, Placed

LEMMA MetaStarts ==
  ASSUME Typed, HasRoom, NEW flags \in SUBSET Tables, StartMeta(NewId, flags)
  PROVE  /\ TasksSound' /\ DOMAIN tasks' = DOMAIN tasks \cup {NewId}
         /\ tasks'[NewId].kind = "meta" /\ Left(tasks'[NewId]) = {}
         /\ tasks'[NewId].waits = {}
         /\ \A i \in DOMAIN tasks \ {NewId} : tasks'[i] = tasks[i]
         /\ failed' = flags /\ loading' = TRUE /\ error' = FALSE
         /\ UNCHANGED <<db, view, listed, overlap>>
<1> DEFINE task == NewTask("meta", "list", NoEntries)
<1>1. /\ task \in Task /\ Sound(task) /\ task.kind = "meta"
      /\ task.waits = {} /\ Left(task) = {}
  BY FreshTask
<1>2. tasks' = Spawn(tasks, NewId, task)
  BY DEF StartMeta
<1>3. NewId \in Ids /\ NewId \notin DOMAIN tasks /\ TasksSound
  BY NewIdIsFree DEF Typed
<1>4. /\ failed' = flags /\ loading' = TRUE /\ error' = FALSE
      /\ UNCHANGED <<db, view, listed, overlap>>
  BY DEF StartMeta
<1> HIDE DEF task
<1> QED
  BY <1>1, <1>2, <1>3, <1>4, Placed

(* Once a task is placed, every other one is as it was and the promises    *)
(* may have gained it.                                                     *)
LEMMA PlacedPromises ==
  ASSUME Typed, NEW id \in Ids, DOMAIN tasks' = DOMAIN tasks \cup {id},
         \A i \in DOMAIN tasks \ {id} : tasks'[i] = tasks[i],
         refreshing' \in {refreshing, refreshing \cup {id}},
         ready \subseteq ready', ready' \subseteq ready \cup refreshing' \cup {id},
         tasks'[id].kind \in {"init", "resync", "refresh"} => id \in ready'
  PROVE  Promises'
<1>1. refreshing' \subseteq DOMAIN tasks'
  BY DEF Typed, Promises
<1>2. ready' \subseteq DOMAIN tasks'
  BY <1>1 DEF Typed, Promises
<1>3. \A i \in DOMAIN tasks' :
        tasks'[i].kind \in {"init", "resync", "refresh"} => i \in ready'
  BY DEF Typed, Promises
<1> QED
  BY <1>1, <1>2, <1>3 DEF Promises
-----------------------------------------------------------------------------
(* What a step makes of its task.                                          *)

(* The list has come.                                                      *)
LEMMA ListFetched ==
  ASSUME Typed, NEW i \in DOMAIN tasks, FetchList(i)
  PROVE  /\ TasksSound' /\ DOMAIN tasks' = DOMAIN tasks
         /\ \A k \in DOMAIN tasks \ {i} : tasks'[k] = tasks[k]
         /\ tasks'[i].kind = tasks[i].kind /\ tasks'[i].waits = {}
         /\ tasks[i].waits = {} /\ tasks[i].kind # "refresh"
         /\ \A t \in Left(tasks'[i]) : tasks'[i].entries[t] = latest[t]
         /\ tasks[i].kind # "meta" =>
              \A t \in Tables : latest[t] > 0 => t \in Left(tasks'[i])
         /\ UNCHANGED <<refreshing, ready>>
<1> DEFINE D == {t \in Tables : latest[t] > 0}
           entries == Restrict(latest, D)
           todo == IF tasks[i].kind = "meta" THEN {} ELSE D
           new == [tasks[i] EXCEPT !.at = "views", !.entries = entries, !.todo = todo]
<1>1. entries \in [D -> 1 .. MaxCommits] /\ DOMAIN entries = D
      /\ \A t \in D : entries[t] = latest[t]
  <2>1. \A t \in D : latest[t] \in 1 .. MaxCommits
    BY ViewsAssumption DEF Typed, Connection
  <2> QED
    BY <2>1 DEF Restrict
<1>2. entries \in Entries
  BY <1>1 DEF Entries
<1>3. tasks'= Spawn(tasks, i, new) /\ UNCHANGED <<refreshing, ready>>
  BY <1>1 DEF FetchList, Continue
<1>4. /\ tasks[i] \in Task /\ Sound(tasks[i]) /\ tasks[i].at = "list" /\ i \in Ids
      /\ Left(tasks[i]) = {} /\ tasks[i].waits = {} /\ tasks[i].kind # "refresh"
  BY DEF FetchList, Typed, TasksSound, Sound
<1> HIDE DEF entries
<1>5. /\ new \in Task /\ new.kind = tasks[i].kind /\ new.waits = {} /\ new.at = "views"
      /\ new.entries = entries /\ new.todo = todo /\ new.bad = {}
  BY <1>2, <1>4 DEF Task, Left
<1> HIDE DEF new
<1>6. Left(new) = todo
  BY <1>5 DEF Left
<1>7. Sound(new)
  BY <1>1, <1>4, <1>5, <1>6 DEF Sound
<1>8. /\ TasksSound' /\ DOMAIN tasks' = DOMAIN tasks
      /\ \A k \in DOMAIN tasks \ {i} : tasks'[k] = tasks[k]
      /\ tasks'[i] = new
  BY <1>3, <1>4, <1>5, <1>7, Placed DEF Typed
<1> QED
  BY <1>1, <1>3, <1>4, <1>5, <1>6, <1>8

(* The end of the first pass leaves the same tables to do or to report.    *)
LEMMA Advanced ==
  ASSUME NEW task \in Task, Sound(task)
  PROVE  /\ Advance(task) \in Task /\ Sound(Advance(task))
         /\ Advance(task).kind = task.kind /\ Advance(task).at = task.at
         /\ Advance(task).entries = task.entries /\ Advance(task).waits = task.waits
         /\ Left(Advance(task)) = Left(task)
BY DEF Advance, Task, Sound, Left

(* One table of a task is shown or fails.                                  *)
LEMMA TableTried ==
  ASSUME Typed, NEW i \in DOMAIN tasks, NEW t \in Tables,
         tasks[i].at = "views", t \in tasks[i].todo,
         NEW bad \in {tasks[i].bad, tasks[i].bad \cup {t}},
         Continue(i, Advance([tasks[i] EXCEPT !.todo = @ \ {t}, !.bad = bad]))
  PROVE  /\ TasksSound' /\ DOMAIN tasks' = DOMAIN tasks
         /\ \A k \in DOMAIN tasks \ {i} : tasks'[k] = tasks[k]
         /\ tasks[i].waits = {}
         /\ tasks'[i].kind = tasks[i].kind /\ tasks'[i].at = "views"
         /\ tasks'[i].entries = tasks[i].entries
         /\ tasks'[i].waits = {}
         /\ Left(tasks'[i]) = (tasks[i].todo \ {t}) \cup bad
         /\ UNCHANGED <<refreshing, ready>>
<1> DEFINE task == [tasks[i] EXCEPT !.todo = @ \ {t}, !.bad = bad]
<1>1. /\ tasks[i] \in Task /\ Sound(tasks[i]) /\ i \in Ids
      /\ tasks[i].waits = {}
  BY DEF Typed, TasksSound, Sound
<1>2. /\ task \in Task /\ task.kind = tasks[i].kind /\ task.at = "views"
      /\ task.entries = tasks[i].entries /\ task.waits = {}
      /\ task.todo = tasks[i].todo \ {t} /\ task.bad = bad
  BY <1>1 DEF Task
<1>3. tasks' = Spawn(tasks, i, Advance(task)) /\ UNCHANGED <<refreshing, ready>>
  BY DEF Continue
<1> HIDE DEF task
<1>4. Sound(task)
  BY <1>1, <1>2 DEF Sound, Left
<1>5. Left(task) = (tasks[i].todo \ {t}) \cup bad
  BY <1>2 DEF Left
<1>6. Advance(task) \in Task /\ Sound(Advance(task))
  BY <1>2, <1>4, Advanced
<1>7. /\ TasksSound' /\ DOMAIN tasks' = DOMAIN tasks
      /\ \A k \in DOMAIN tasks \ {i} : tasks'[k] = tasks[k]
      /\ tasks'[i] = Advance(task)
  BY <1>1, <1>3, <1>6, Placed DEF Typed
<1> QED
  BY <1>1, <1>2, <1>3, <1>4, <1>5, <1>7, Advanced

LEMMA ViewCreated ==
  ASSUME Typed, NEW i \in DOMAIN tasks, NEW t \in Tables, CreateView(i, t)
  PROVE  /\ TasksSound' /\ DOMAIN tasks' = DOMAIN tasks
         /\ \A k \in DOMAIN tasks \ {i} : tasks'[k] = tasks[k]
         /\ tasks[i].at = "views" /\ t \in Left(tasks[i]) /\ tasks[i].waits = {}
         /\ tasks'[i].kind = tasks[i].kind /\ tasks'[i].at = "views"
         /\ tasks'[i].entries = tasks[i].entries /\ tasks'[i].waits = {}
         /\ Left(tasks'[i]) \subseteq Left(tasks[i])
         /\ Left(tasks[i]) \ {t} \subseteq Left(tasks'[i])
         /\ tasks[i].entries[t] \in 1 .. MaxCommits
         /\ UNCHANGED <<refreshing, ready>>
<1>1. tasks[i].at = "views" /\ t \in tasks[i].todo
  BY DEF CreateView
<1>2. tasks[i] \in Task /\ Sound(tasks[i])
  BY DEF Typed, TasksSound
<1>3. tasks[i].entries[t] \in 1 .. MaxCommits
  BY <1>1, <1>2 DEF Task, Entries, Sound, Left
<1>4. [tasks[i] EXCEPT !.todo = @ \ {t}]
        = [tasks[i] EXCEPT !.todo = @ \ {t}, !.bad = tasks[i].bad]
  BY <1>2 DEF Task
<1>5. Continue(i, Advance([tasks[i] EXCEPT !.todo = @ \ {t}, !.bad = tasks[i].bad]))
  BY <1>4 DEF CreateView
<1>6. /\ TasksSound' /\ DOMAIN tasks' = DOMAIN tasks
      /\ \A k \in DOMAIN tasks \ {i} : tasks'[k] = tasks[k]
      /\ tasks[i].waits = {}
      /\ tasks'[i].kind = tasks[i].kind /\ tasks'[i].at = "views"
      /\ tasks'[i].entries = tasks[i].entries /\ tasks'[i].waits = {}
      /\ Left(tasks'[i]) = (tasks[i].todo \ {t}) \cup tasks[i].bad
      /\ UNCHANGED <<refreshing, ready>>
  BY <1>1, <1>5, TableTried
<1> QED
  BY <1>1, <1>3, <1>6 DEF Left

LEMMA ViewFailed ==
  ASSUME Typed, NEW i \in DOMAIN tasks, NEW t \in Tables, ViewFails(i, t)
  PROVE  /\ TasksSound' /\ DOMAIN tasks' = DOMAIN tasks
         /\ \A k \in DOMAIN tasks \ {i} : tasks'[k] = tasks[k]
         /\ tasks[i].at = "views" /\ tasks[i].waits = {}
         /\ tasks'[i].kind = tasks[i].kind /\ tasks'[i].at = "views"
         /\ tasks'[i].entries = tasks[i].entries /\ tasks'[i].waits = {}
         /\ Left(tasks'[i]) = Left(tasks[i])
         /\ UNCHANGED <<refreshing, ready>>
<1>1. tasks[i].at = "views" /\ t \in tasks[i].todo
  BY DEF ViewFails
<1>2. tasks[i] \in Task
  BY DEF Typed, TasksSound
<1>3. [tasks[i] EXCEPT !.todo = @ \ {t}, !.bad = @ \cup {t}]
        = [tasks[i] EXCEPT !.todo = @ \ {t}, !.bad = tasks[i].bad \cup {t}]
  BY <1>2 DEF Task
<1>4. Continue(i, Advance([tasks[i] EXCEPT !.todo = @ \ {t},
                                           !.bad = tasks[i].bad \cup {t}]))
  BY <1>3 DEF ViewFails
<1>5. /\ TasksSound' /\ DOMAIN tasks' = DOMAIN tasks
      /\ \A k \in DOMAIN tasks \ {i} : tasks'[k] = tasks[k]
      /\ tasks[i].waits = {}
      /\ tasks'[i].kind = tasks[i].kind /\ tasks'[i].at = "views"
      /\ tasks'[i].entries = tasks[i].entries /\ tasks'[i].waits = {}
      /\ Left(tasks'[i]) = (tasks[i].todo \ {t}) \cup (tasks[i].bad \cup {t})
      /\ UNCHANGED <<refreshing, ready>>
  BY <1>1, <1>4, TableTried
<1> QED
  BY <1>1, <1>5 DEF Left

(* A request fails.                                                        *)
LEMMA FetchFailed ==
  ASSUME Typed, NEW i \in DOMAIN tasks, FetchFails(i)
  PROVE  /\ TasksSound' /\ DOMAIN tasks' = DOMAIN tasks
         /\ \A k \in DOMAIN tasks \ {i} : tasks'[k] = tasks[k]
         /\ tasks[i].waits = {} /\ SameWork(tasks[i], tasks'[i])
         /\ UNCHANGED <<refreshing, ready>>
<1> DEFINE new == [tasks[i] EXCEPT !.at = "rejected"]
<1>1. /\ tasks[i] \in Task /\ Sound(tasks[i]) /\ i \in Ids /\ tasks[i].at = "list"
      /\ tasks[i].waits = {}
  BY DEF FetchFails, Typed, TasksSound, Sound
<1>2. new \in Task /\ Sound(new) /\ SameWork(tasks[i], new)
  BY <1>1 DEF Task, Sound, Left, SameWork
<1>3. tasks' = Spawn(tasks, i, new) /\ UNCHANGED <<refreshing, ready>>
  BY DEF FetchFails, Continue
<1> HIDE DEF new
<1>4. /\ TasksSound' /\ DOMAIN tasks' = DOMAIN tasks
      /\ \A k \in DOMAIN tasks \ {i} : tasks'[k] = tasks[k]
      /\ tasks'[i] = new
  BY <1>1, <1>2, <1>3, Placed DEF Typed
<1> QED
  BY <1>1, <1>2, <1>3, <1>4

(* The initialisation is tried once more.                                  *)
LEMMA InitRetried ==
  ASSUME Typed, NEW i \in DOMAIN tasks, RetryInit(i)
  PROVE  /\ TasksSound' /\ DOMAIN tasks' = DOMAIN tasks
         /\ \A k \in DOMAIN tasks \ {i} : tasks'[k] = tasks[k]
         /\ tasks[i].waits = {} /\ tasks'[i].waits = {}
         /\ tasks'[i].kind = tasks[i].kind
         /\ tasks[i].kind \in {"init", "resync", "manual"}
         /\ tasks'[i].at # "views" /\ Left(tasks'[i]) = {}
         /\ db' \in {"none", "creating", "ready"}
         /\ UNCHANGED <<refreshing, ready>>
<1> DEFINE kind == tasks[i].kind
           task == NewTask(kind, AfterDb("list"), NoEntries)
           new == [task EXCEPT !.attempt = 2]
<1>1. /\ tasks[i] \in Task /\ Sound(tasks[i]) /\ i \in Ids
      /\ tasks[i].at = "rejected" /\ kind \in {"init", "resync", "manual"}
      /\ tasks[i].waits = {}
  BY DEF RetryInit, Typed, TasksSound, Sound
<1>2. AfterDb("list") \in {"db", "list"}
  BY DEF AfterDb
<1>3. /\ task \in Task /\ Sound(task) /\ task.kind = kind
      /\ task.at = AfterDb("list") /\ task.waits = {} /\ Left(task) = {}
  BY <1>1, <1>2, FreshTask
<1>4. tasks' = Spawn(tasks, i, new) /\ UNCHANGED <<refreshing, ready>>
  BY DEF RetryInit, Continue
<1>5. db' \in {"none", "creating", "ready"}
  BY DEF RetryInit, CallDb, Typed, Display
<1> HIDE DEF task
<1>6. /\ new \in Task /\ Sound(new) /\ new.kind = kind /\ new.at = AfterDb("list")
      /\ new.waits = {} /\ Left(new) = {}
  BY <1>3 DEF Task, Sound, Left
<1> HIDE DEF new
<1>7. /\ TasksSound' /\ DOMAIN tasks' = DOMAIN tasks
      /\ \A k \in DOMAIN tasks \ {i} : tasks'[k] = tasks[k]
      /\ tasks'[i] = new
  BY <1>1, <1>4, <1>6, Placed DEF Typed
<1> QED
  BY <1>1, <1>2, <1>4, <1>5, <1>6, <1>7

(* A refresh starts.                                                       *)
LEMMA RefreshStarted ==
  ASSUME Typed, NEW i \in DOMAIN tasks, RefreshStarts(i)
  PROVE  /\ TasksSound' /\ DOMAIN tasks' = DOMAIN tasks
         /\ \A k \in DOMAIN tasks \ {i} : tasks'[k] = tasks[k]
         /\ tasks[i].waits = {} /\ SameWork(tasks[i], tasks'[i])
         /\ db' \in {"none", "creating", "ready"}
         /\ UNCHANGED <<refreshing, ready>>
<1> DEFINE at == IF enabled THEN AfterDb("views") ELSE "rejected"
           new == [tasks[i] EXCEPT !.at = at]
<1>1. /\ tasks[i] \in Task /\ Sound(tasks[i]) /\ i \in Ids
      /\ tasks[i].at = "wait" /\ tasks[i].waits = {} /\ tasks[i].kind = "refresh"
  BY DEF RefreshStarts, Typed, TasksSound, Sound
<1>2. at \in {"db", "views", "rejected"}
  BY DEF AfterDb
<1>3. tasks' = Spawn(tasks, i, new) /\ UNCHANGED <<refreshing, ready>>
  BY DEF RefreshStarts, Continue
<1>4. db' \in {"none", "creating", "ready"}
  BY DEF RefreshStarts, CallDb, Typed, Display
<1> HIDE DEF at
<1>5. new \in Task /\ Sound(new) /\ SameWork(tasks[i], new)
  BY <1>1, <1>2 DEF Task, Sound, Left, SameWork
<1> HIDE DEF new
<1>6. /\ TasksSound' /\ DOMAIN tasks' = DOMAIN tasks
      /\ \A k \in DOMAIN tasks \ {i} : tasks'[k] = tasks[k]
      /\ tasks'[i] = new
  BY <1>1, <1>3, <1>5, Placed DEF Typed
<1> QED
  BY <1>1, <1>3, <1>4, <1>5, <1>6

(* A commit message is handled.                                            *)
LEMMA CommitReceived ==
  ASSUME Typed, NEW c \in Sockets, Receive(c)
  PROVE  /\ Head(wire[c]) \in Messages /\ wire[c] # <<>>
         /\ NewId \in Ids /\ NewId \notin DOMAIN tasks
         /\ TasksSound' /\ DOMAIN tasks' = DOMAIN tasks \cup {NewId}
         /\ \A k \in DOMAIN tasks \ {NewId} : tasks'[k] = tasks[k]
         /\ tasks'[NewId].kind = "refresh" /\ tasks'[NewId].waits = ready \ {NewId}
         /\ Left(tasks'[NewId]) = {Head(wire[c]).table}
         /\ tasks'[NewId].entries[Head(wire[c]).table] = Head(wire[c]).snapshot
<1> DEFINE m == Head(wire[c])
           id == NewId
           entries == [t \in {m.table} |-> m.snapshot]
           task == [NewTask("refresh", "wait", entries) EXCEPT !.waits = Barrier(id)]
<1>1. wire[c] # <<>> /\ wire[c] \in Seq(Messages) /\ HasRoom
  BY DEF Receive, Typed, Connection
<1>2. m \in Messages
  BY <1>1, HeadTailProperties
<1>3. id \in Ids /\ id \notin DOMAIN tasks
  BY <1>1, NewIdIsFree DEF Typed
<1>4. tasks' = Spawn(tasks, id, task)
  BY DEF Receive
<1>5. /\ entries \in [{m.table} -> 1 .. MaxCommits] /\ DOMAIN entries = {m.table}
      /\ {m.table} \in SUBSET Tables /\ entries[m.table] = m.snapshot
  BY <1>2 DEF Messages
<1>6. entries \in Entries
  BY <1>5 DEF Entries
<1>7. Barrier(id) = ready \ {id} /\ Barrier(id) \in SUBSET Ids
  BY DEF Barrier, Typed, Promises, TasksSound
<1> HIDE DEF entries
<1>8. task = [kind |-> "refresh", at |-> "wait", waits |-> Barrier(id),
              entries |-> entries, todo |-> {m.table}, bad |-> {},
              pass |-> 1, attempt |-> 1]
  BY <1>5 DEF NewTask
<1> HIDE DEF task
<1>9. task \in Task /\ Left(task) = {m.table}
  BY <1>5, <1>6, <1>7, <1>8 DEF Task, Left
<1>10. Sound(task)
  BY <1>5, <1>8, <1>9 DEF Sound
<1>11. /\ TasksSound' /\ DOMAIN tasks' = DOMAIN tasks \cup {id}
       /\ \A k \in DOMAIN tasks \ {id} : tasks'[k] = tasks[k]
       /\ tasks'[id] = task
  BY <1>3, <1>4, <1>9, <1>10, Placed DEF Typed
<1>12. /\ task.kind = "refresh" /\ task.waits = ready \ {id}
       /\ task.entries[m.table] = m.snapshot
  BY <1>5, <1>7, <1>8
<1> HIDE DEF id, m
<1>13. /\ tasks'[id].kind = "refresh" /\ tasks'[id].waits = ready \ {id}
       /\ Left(tasks'[id]) = {m.table}
       /\ tasks'[id].entries[m.table] = m.snapshot
  BY <1>9, <1>11, <1>12
<1> QED
  BY <1>1, <1>2, <1>3, <1>11, <1>13 DEF id, m
-----------------------------------------------------------------------------
(* Every step keeps the types.                                             *)

LEMMA TypedInit == Init => Typed
<1> SUFFICES ASSUME Init PROVE Typed
  OBVIOUS
<1> DEFINE kind == IF enabled THEN "init" ELSE "meta"
           at == IF enabled THEN "db" ELSE "list"
           task == NewTask(kind, at, NoEntries)
<1>1. kind \in {"init", "resync", "manual", "meta"} /\ at \in {"db", "list"}
      /\ (at = "db" => kind # "meta") /\ (kind = "init" => enabled)
  OBVIOUS
<1>2. tasks = [i \in {1} |-> task] /\ 1 \in Ids
  BY ViewsAssumption DEF Init, Ids
<1>3. ready = IF enabled THEN {1} ELSE {}
  BY DEF Init
<1>4. kind # "resync" /\ kind # "refresh"
  OBVIOUS
<1> HIDE DEF kind, at
<1>5. task \in Task /\ Sound(task) /\ task.kind = kind
  BY <1>1, FreshTask
<1> HIDE DEF task
<1>6. DOMAIN tasks = {1} /\ tasks[1] = task
  BY <1>2
<1>7. TasksSound
  BY <1>2, <1>5, <1>6 DEF TasksSound
<1>8. Promises
  BY <1>1, <1>3, <1>4, <1>5, <1>6 DEF Init, Promises
<1>9. Connection
  <2>1. 0 .. MaxCommits \in SUBSET Nat /\ {0, 1} \subseteq 0 .. MaxCommits
    BY ViewsAssumption
  <2> QED
    BY <2>1 DEF Init, Connection
<1>10. Display
  BY ViewsAssumption DEF Init, Display
<1>11. Switches
  BY Zenon DEF Init, Switches
<1> QED
  BY <1>7, <1>8, <1>9, <1>10, <1>11 DEF Typed

(* What the sockets do without a word to the shell.                        *)
SocketMove ==
  \/ \E t \in Tables : Commit(t)
  \/ \E c \in Sockets : OpenSocket(c) \/ FirstOpen(c) \/ Lose(c) \/ OnClose(c)
  \/ ConnectFails \/ TimerFires \/ BecomeVisible

LEMMA SocketMoveFrame ==
  ASSUME SocketMove
  PROVE  UNCHANGED <<tasks, refreshing, ready, db, view, listed, failed, error,
                     loading, enabled, received, overlap, outdated>>
BY DEF SocketMove, Commit, OpenSocket, FirstOpen, Lose, OnClose, ConnectFails,
       TimerFires, BecomeVisible, promiseVars, shellVars, historyVars

(* Unchanged tasks and promises are as sound as they were.                 *)
LEMMA SameTasks ==
  ASSUME TasksSound, Promises, UNCHANGED <<tasks, refreshing, ready>>
  PROVE  TasksSound' /\ Promises'
BY DEF TasksSound, Promises, Sound, Left

LEMMA EventsLeft ==
  ASSUME events \in 0 .. MaxEvents, NEW kind, Outside(kind)
  PROVE  events' \in 0 .. MaxEvents
BY ViewsAssumption DEF Outside

LEMMA SocketMoveTyped ==
  ASSUME Typed, SocketMove
  PROVE  Typed'
<1>1. /\ Connection /\ Switches /\ Display
      /\ latest \in [Tables -> 0 .. MaxCommits]
      /\ conn \in [Sockets -> {"none", "connecting", "open"}]
      /\ dead \subseteq Sockets /\ connects \in Nat
      /\ wire \in [Sockets -> Seq(Messages)]
      /\ ws \in {None} \cup {c \in Sockets : conn[c] # "none"}
  BY DEF Typed, Connection
<1>2. TasksSound' /\ Promises'
  BY SocketMoveFrame, SameTasks DEF Typed
<1>3. events' \in 0 .. MaxEvents => Display'
  BY <1>1, SocketMoveFrame DEF Display
<1>4. events \in 0 .. MaxEvents
  BY <1>1 DEF Display
<1> SUFFICES Connection' /\ Switches' /\ Display'
  BY <1>2 DEF Typed
<1>5. ASSUME NEW t \in Tables, Commit(t)
      PROVE  Connection' /\ Switches' /\ Display'
  <2> DEFINE m == [table |-> t, snapshot |-> latest[t] + 1]
  <2>1. latest[t] + 1 \in 1 .. MaxCommits
    BY <1>1, <1>5, ViewsAssumption DEF Commit
  <2>2. m \in Messages
    BY <2>1 DEF Messages
  <2>3. wire' = [c \in Sockets |->
                  IF c \in Subscribed THEN Append(wire[c], m) ELSE wire[c]]
    BY <1>5 DEF Commit
  <2>4. wire' \in [Sockets -> Seq(Messages)]
    <3> HIDE DEF m
    <3> QED BY <1>1, <2>2, <2>3
  <2>5. latest' \in [Tables -> 0 .. MaxCommits]
    <3>1. latest' = [latest EXCEPT ![t] = latest[t] + 1]
      BY <1>5 DEF Commit
    <3> QED
      BY <1>1, <2>1, <3>1
  <2>6. Connection'
    BY <1>1, <1>5, <2>4, <2>5 DEF Commit, Connection
  <2>7. Switches'
    BY <1>1, <1>5, Zenon DEF Commit, Switches, shellVars
  <2> QED
    BY <1>3, <1>4, <1>5, <2>6, <2>7 DEF Commit
<1>6. ASSUME NEW c \in Sockets, OpenSocket(c)
      PROVE  Connection' /\ Switches' /\ Display'
  <2>1. Connection'
    BY <1>1, <1>6 DEF OpenSocket, Connection
  <2>2. Switches'
    BY <1>1, <1>6, Zenon DEF OpenSocket, Switches, shellVars, historyVars
  <2> QED
    BY <1>3, <1>4, <1>6, <2>1, <2>2 DEF OpenSocket
<1>7. ASSUME NEW c \in Sockets, FirstOpen(c)
      PROVE  Connection' /\ Switches' /\ Display'
  <2>1. Connection'
    BY <1>1, <1>7 DEF FirstOpen, Connection
  <2>2. Switches'
    BY <1>1, <1>7, Zenon DEF FirstOpen, Switches, shellVars, historyVars
  <2> QED
    BY <1>3, <1>4, <1>7, <2>1, <2>2 DEF FirstOpen
<1>8. ASSUME NEW c \in Sockets, Lose(c)
      PROVE  Connection' /\ Switches' /\ Display'
  <2>1. Connection'
    BY <1>1, <1>8 DEF Lose, Connection
  <2>2. Switches'
    BY <1>1, <1>8, Zenon DEF Lose, Switches, shellVars, historyVars
  <2> QED
    BY <1>3, <1>4, <1>8, <2>1, <2>2, EventsLeft DEF Lose
<1>9. ASSUME NEW c \in Sockets, OnClose(c)
      PROVE  Connection' /\ Switches' /\ Display'
  <2>1. Connection'
    BY <1>1, <1>9 DEF OnClose, TimerArmed, Connection
  <2>2. Switches'
    BY <1>1, <1>9, Zenon DEF OnClose, TimerArmed, Switches, shellVars, historyVars
  <2> QED
    BY <1>3, <1>4, <1>9, <2>1, <2>2 DEF OnClose
<1>10. CASE ConnectFails
  <2>1. Connection'
    BY <1>1, <1>10 DEF ConnectFails, Connection
  <2>2. Switches'
    BY <1>1, <1>10, Zenon DEF ConnectFails, Switches, shellVars
  <2> QED
    BY <1>3, <1>4, <1>10, <2>1, <2>2, EventsLeft DEF ConnectFails
<1>11. CASE TimerFires
  <2>1. Connection'
    BY <1>1, <1>11 DEF TimerFires, Connection
  <2>2. Switches'
    BY <1>1, <1>11, Zenon DEF TimerFires, Switches, shellVars, historyVars
  <2> QED
    BY <1>3, <1>4, <1>11, <2>1, <2>2 DEF TimerFires
<1>12. CASE BecomeVisible
  <2>1. Connection'
    BY <1>1, <1>12 DEF BecomeVisible, Connection
  <2>2. Switches'
    BY <1>1, <1>12, Zenon DEF BecomeVisible, Switches, shellVars, historyVars
  <2> QED
    BY <1>3, <1>4, <1>12, <2>1, <2>2, EventsLeft DEF BecomeVisible
<1> QED
  BY <1>5, <1>6, <1>7, <1>8, <1>9, <1>10, <1>11, <1>12 DEF SocketMove

(* What the tasks do by themselves.                                        *)
TaskMove ==
  \/ DbOpens \/ DbFails
  \/ \E i \in DOMAIN tasks : TaskStep(i) \/ FetchFails(i)
  \/ \E i \in DOMAIN tasks, t \in Tables : ViewFails(i, t)

LEMMA TaskMoveFrame ==
  ASSUME TaskMove
  PROVE  UNCHANGED <<latest, conn, dead, wire, ws, timer, connects, before,
                     enabled, received, gaveUp>>
BY DEF TaskMove, DbOpens, DbFails, TaskStep, FetchFails, ViewFails, FetchList,
       CreateView, FinishList, RetryInit, InitFails, RefreshStarts,
       FinishRefresh, socketVars, historyVars

LEMMA TaskMoveTasks ==
  ASSUME Typed, TaskMove
  PROVE  TasksSound' /\ Promises'
<1>1. TasksSound /\ Promises
  BY DEF Typed
<1>2. CASE DbOpens
  <2>1. AllAt("list", "views") /\ UNCHANGED <<refreshing, ready>>
    BY <1>2 DEF DbOpens, AllAt
  <2> QED
    BY <1>1, <2>1, AllMoved
<1>3. CASE DbFails
  <2>1. AllAt("rejected", "rejected") /\ UNCHANGED <<refreshing, ready>>
    <3>1. \A k : (IF k = "refresh" THEN "rejected" ELSE "rejected") = "rejected"
      OBVIOUS
    <3> QED
      BY <1>3, <3>1 DEF DbFails, AllAt
  <2> QED
    BY <1>1, <2>1, AllMoved
<1>4. ASSUME NEW i \in DOMAIN tasks, FinishList(i) \/ InitFails(i) \/ FinishRefresh(i)
      PROVE  TasksSound' /\ Promises'
  <2>1. End(i)
    BY <1>4 DEF FinishList, InitFails, FinishRefresh
  <2> QED
    BY <1>1, <2>1, Ended
<1>5. ASSUME NEW i \in DOMAIN tasks,
             \/ FetchList(i) \/ FetchFails(i) \/ RetryInit(i) \/ RefreshStarts(i)
             \/ \E t \in Tables : CreateView(i, t) \/ ViewFails(i, t)
      PROVE  TasksSound' /\ Promises'
  <2>1. /\ TasksSound' /\ DOMAIN tasks' = DOMAIN tasks
        /\ \A k \in DOMAIN tasks \ {i} : tasks'[k] = tasks[k]
        /\ tasks'[i].kind = tasks[i].kind
        /\ UNCHANGED <<refreshing, ready>>
    BY <1>5, ListFetched, FetchFailed, InitRetried, RefreshStarted, ViewCreated,
       ViewFailed DEF SameWork
  <2> QED
    BY <1>1, <2>1 DEF Promises
<1> QED
  BY <1>2, <1>3, <1>4, <1>5 DEF TaskMove, TaskStep

LEMMA TaskMoveTyped ==
  ASSUME Typed, TaskMove
  PROVE  Typed'
<1>1. /\ Connection /\ Switches /\ Display
      /\ view \in [Tables -> 0 .. MaxCommits]
      /\ listed \in [Tables -> 0 .. MaxCommits]
      /\ failed \subseteq Tables /\ events \in 0 .. MaxEvents
  BY DEF Typed, Display
<1>2. \A i \in DOMAIN tasks : tasks[i] \in Task /\ Sound(tasks[i])
  BY DEF Typed, TasksSound
<1>3. Connection'
  BY <1>1, TaskMoveFrame DEF Connection
<1>4. TasksSound' /\ Promises'
  BY TaskMoveTasks
<1>5. /\ timer' \in BOOLEAN /\ before' \in BOOLEAN /\ enabled' \in BOOLEAN
      /\ gaveUp' \in BOOLEAN
  BY <1>1, TaskMoveFrame DEF Switches
<1> SUFFICES Display' /\ Switches'
  BY <1>3, <1>4 DEF Typed
<1>6. CASE DbOpens
  <2>1. Display'
    BY <1>1, <1>6 DEF DbOpens, Display, shellVars, historyVars
  <2>2. Switches'
    BY <1>1, <1>6, <1>5, Zenon DEF DbOpens, Switches, shellVars, historyVars
  <2> QED
    BY <2>1, <2>2
<1>7. CASE DbFails
  <2>1. Display'
    BY <1>1, <1>7, EventsLeft DEF DbFails, Display, shellVars, historyVars
  <2>2. Switches'
    BY <1>1, <1>7, <1>5, Zenon DEF DbFails, Switches, shellVars, historyVars
  <2> QED
    BY <2>1, <2>2
<1>8. ASSUME NEW i \in DOMAIN tasks, FetchList(i)
      PROVE  Display' /\ Switches'
  <2>1. Display'
    BY <1>1, <1>8 DEF FetchList, Display, shellVars
  <2>2. Listing \in BOOLEAN
    BY Zenon DEF Listing
  <2>3. outdated' = Listing /\ missed' = FALSE /\ UNCHANGED <<error, loading>>
    BY <1>8 DEF FetchList, shellVars
  <2>4. Switches'
    BY <1>1, <1>5, <2>2, <2>3, Zenon DEF Switches
  <2> QED
    BY <2>1, <2>4
<1>9. ASSUME NEW i \in DOMAIN tasks, FetchFails(i)
      PROVE  Display' /\ Switches'
  <2>1. Display'
    BY <1>1, <1>9, EventsLeft DEF FetchFails, Display, shellVars, historyVars
  <2>2. Switches'
    BY <1>1, <1>9, <1>5, Zenon DEF FetchFails, Switches, shellVars, historyVars
  <2> QED
    BY <2>1, <2>2
<1>10. ASSUME NEW i \in DOMAIN tasks, NEW t \in Tables, CreateView(i, t)
       PROVE  Display' /\ Switches'
  <2>1. tasks[i].entries[t] \in 0 .. MaxCommits
    BY <1>10, ViewCreated
  <2>2. Display'
    BY <1>1, <1>10, <2>1 DEF CreateView, Display, historyVars
  <2>3. Switches'
    BY <1>1, <1>10, <1>5, Zenon DEF CreateView, Switches, historyVars
  <2> QED
    BY <2>2, <2>3
<1>11. ASSUME NEW i \in DOMAIN tasks, NEW t \in Tables, ViewFails(i, t)
       PROVE  Display' /\ Switches'
  <2>1. Display'
    BY <1>1, <1>11, EventsLeft DEF ViewFails, Display, shellVars, historyVars
  <2>2. Switches'
    BY <1>1, <1>11, <1>5, Zenon DEF ViewFails, Switches, shellVars, historyVars
  <2> QED
    BY <2>1, <2>2
<1>12. ASSUME NEW i \in DOMAIN tasks, FinishList(i)
       PROVE  Display' /\ Switches'
  <2>1. tasks[i].bad \subseteq Tables
    BY <1>2 DEF Task
  <2>2. listed' \in [Tables -> 0 .. MaxCommits]
    <3>1. \A t \in Tables : t \in DOMAIN tasks[i].entries =>
                              tasks[i].entries[t] \in 0 .. MaxCommits
      BY <1>2 DEF Task, Entries
    <3>2. 0 \in 0 .. MaxCommits
      BY ViewsAssumption
    <3> QED
      BY <1>12, <3>1, <3>2 DEF FinishList
  <2>3. Display'
    BY <1>1, <1>12, <2>1, <2>2 DEF FinishList, Display
  <2>4. Switches'
    BY <1>1, <1>12, <1>5, Zenon DEF FinishList, Switches
  <2> QED
    BY <2>3, <2>4
<1>13. ASSUME NEW i \in DOMAIN tasks, RetryInit(i)
       PROVE  Display' /\ Switches'
  <2>1. db' \in {"none", "creating", "ready"}
    BY <1>13, InitRetried
  <2>2. Display'
    BY <1>1, <1>13, <2>1 DEF RetryInit, Display, shellVars, historyVars
  <2>3. Switches'
    BY <1>1, <1>13, <1>5, Zenon DEF RetryInit, Switches, shellVars, historyVars
  <2> QED
    BY <2>2, <2>3
<1>14. ASSUME NEW i \in DOMAIN tasks, InitFails(i)
       PROVE  Display' /\ Switches'
  <2>1. Display'
    BY <1>1, <1>14 DEF InitFails, Display, historyVars
  <2>2. Switches'
    BY <1>1, <1>14, <1>5, Zenon DEF InitFails, Switches, historyVars
  <2> QED
    BY <2>1, <2>2
<1>15. ASSUME NEW i \in DOMAIN tasks, RefreshStarts(i)
       PROVE  Display' /\ Switches'
  <2>1. db' \in {"none", "creating", "ready"}
    BY <1>15, RefreshStarted
  <2>2. Display'
    BY <1>1, <1>15, <2>1 DEF RefreshStarts, Display, shellVars, historyVars
  <2>3. Switches'
    BY <1>1, <1>15, <1>5, Zenon DEF RefreshStarts, Switches, shellVars, historyVars
  <2> QED
    BY <2>2, <2>3
<1>16. ASSUME NEW i \in DOMAIN tasks, FinishRefresh(i)
       PROVE  Display' /\ Switches'
  <2>1. DOMAIN tasks[i].entries \subseteq Tables
    BY <1>2 DEF Task, Entries
  <2>2. Display'
    BY <1>1, <1>16, <2>1 DEF FinishRefresh, Display, historyVars
  <2>3. Switches'
    BY <1>1, <1>16, <1>5, Zenon DEF FinishRefresh, Switches, historyVars
  <2> QED
    BY <2>2, <2>3
<1> QED
  BY <1>6, <1>7, <1>8, <1>9, <1>10, <1>11, <1>12, <1>13, <1>14, <1>15, <1>16
     DEF TaskMove, TaskStep

(* What starts work: a reconnect, a commit message and the user.           *)
ShellMove ==
  \/ \E c \in Sockets : Reopen(c) \/ Receive(c)
  \/ Refresh \/ SwitchOn \/ SwitchOff

LEMMA ResyncStarts ==
  ASSUME Typed, HasRoom, Resync(NewId)
  PROVE  /\ TasksSound' /\ DOMAIN tasks' = DOMAIN tasks \cup {NewId}
         /\ tasks'[NewId].kind \in {"resync", "meta"}
         /\ \A i \in DOMAIN tasks \ {NewId} : tasks'[i] = tasks[i]
         /\ db' \in {"none", "creating", "ready"} /\ failed' \subseteq Tables
         /\ loading' = TRUE /\ error' = FALSE
         /\ overlap' \in {"no", "pass", "marks", "manual"}
         /\ UNCHANGED <<view, listed>>
<1>1. failed \in SUBSET Tables /\ db \in {"none", "creating", "ready"}
      /\ overlap \in {"no", "pass", "marks", "manual"}
  BY DEF Typed, Display
<1>2. CASE enabled
  <2>1. StartPass("resync", NewId)
    BY <1>2 DEF Resync
  <2> QED
    BY <2>1, PassStarts
<1>3. CASE ~ enabled
  <2>1. StartMeta(NewId, failed)
    BY <1>3 DEF Resync
  <2> QED
    BY <1>1, <2>1, MetaStarts
<1> QED
  BY <1>2, <1>3

LEMMA ShellMoveTyped ==
  ASSUME Typed, ShellMove
  PROVE  Typed'
<1>1. /\ Connection /\ Switches /\ Display /\ TasksSound /\ Promises
      /\ events \in 0 .. MaxEvents
      /\ overlap \in {"no", "pass", "marks", "manual"}
      /\ view \in [Tables -> 0 .. MaxCommits]
      /\ listed \in [Tables -> 0 .. MaxCommits]
      /\ received \in [Tables -> 0 .. MaxCommits]
      /\ db \in {"none", "creating", "ready"} /\ failed \subseteq Tables
      /\ wire \in [Sockets -> Seq(Messages)]
  BY DEF Typed, Display, Connection
<1>2. HasRoom => NewId \in Ids /\ NewId \notin DOMAIN tasks
  BY NewIdIsFree DEF Typed
<1>3. ASSUME NEW c \in Sockets, Reopen(c)
      PROVE  Typed'
  <2>1. HasRoom /\ Resync(NewId) /\ refreshing' = refreshing \cup {NewId}
        /\ ready' = ready \cup refreshing'
    BY <1>3 DEF Reopen, ChainReady
  <2>2. Promises'
    BY <1>2, <2>1, ResyncStarts, PlacedPromises
  <2>3. Connection'
    BY <1>1, <1>3 DEF Reopen, Connection
  <2>4. Display'
    BY <1>1, <1>3, <2>1, ResyncStarts DEF Reopen, Display
  <2>5. loading' = TRUE /\ error' = FALSE
    BY <2>1, ResyncStarts
  <2>6. Switches'
    BY <1>1, <1>3, <2>5, Zenon DEF Reopen, Switches
  <2>7. TasksSound'
    BY <2>1, ResyncStarts
  <2> QED
    BY <2>2, <2>3, <2>4, <2>6, <2>7 DEF Typed
<1>4. ASSUME NEW c \in Sockets, Receive(c)
      PROVE  Typed'
  <2> DEFINE m == Head(wire[c])
  <2>1. /\ m \in Messages /\ wire[c] # <<>>
        /\ NewId \in Ids /\ NewId \notin DOMAIN tasks
        /\ TasksSound' /\ DOMAIN tasks' = DOMAIN tasks \cup {NewId}
        /\ \A k \in DOMAIN tasks \ {NewId} : tasks'[k] = tasks[k]
        /\ tasks'[NewId].kind = "refresh"
    BY <1>4, CommitReceived
  <2>2. refreshing' = refreshing \cup {NewId} /\ ready' = ready \cup refreshing'
    BY <1>4 DEF Receive, ChainReady
  <2>3. Promises'
    BY <2>1, <2>2, PlacedPromises
  <2>4. Connection'
    <3>1. wire' = [wire EXCEPT ![c] = Tail(wire[c])]
      BY <1>4 DEF Receive
    <3>2. Tail(wire[c]) \in Seq(Messages)
      BY <1>1, <2>1, HeadTailProperties
    <3>3. wire' \in [Sockets -> Seq(Messages)]
      BY <1>1, <3>1, <3>2
    <3> QED
      BY <1>1, <1>4, <3>3 DEF Receive, Connection
  <2>5. /\ received' = [received EXCEPT ![m.table] = m.snapshot]
        /\ listed' = [listed EXCEPT ![m.table] = m.snapshot]
        /\ failed' = failed \ {m.table} /\ overlap' \in {"manual", overlap}
        /\ outdated' = (outdated \/ Listing)
        /\ UNCHANGED <<db, view, events, timer, before, error, loading, enabled,
                       missed, gaveUp>>
    BY <1>4, Zenon DEF Receive, ListSnapshot
  <2>6. m.table \in Tables /\ m.snapshot \in 0 .. MaxCommits
    BY <2>1 DEF Messages
  <2>7. Display'
    <3> HIDE DEF m
    <3> QED BY <1>1, <2>5, <2>6 DEF Display
  <2>8. Listing \in BOOLEAN
    BY Zenon DEF Listing
  <2>9. Switches'
    BY <1>1, <2>5, <2>8, Zenon DEF Switches
  <2> QED
    BY <2>1, <2>3, <2>4, <2>7, <2>9 DEF Typed
<1>5. CASE Refresh
  <2>1. HasRoom /\ StartPass("manual", NewId) /\ UNCHANGED <<refreshing, ready>>
    BY <1>5 DEF Refresh
  <2>2. Promises'
    BY <1>2, <2>1, PassStarts, PlacedPromises
  <2>3. Connection'
    BY <1>1, <1>5 DEF Refresh, Connection, socketVars
  <2>4. Display'
    BY <1>1, <1>5, <2>1, PassStarts, EventsLeft DEF Refresh, Display
  <2>5. loading' = TRUE /\ error' = FALSE
    BY <2>1, PassStarts
  <2>6. Switches'
    BY <1>1, <1>5, <2>5, Zenon DEF Refresh, Switches, socketVars
  <2>7. TasksSound'
    BY <2>1, PassStarts
  <2> QED
    BY <2>2, <2>3, <2>4, <2>6, <2>7 DEF Typed
<1>6. CASE SwitchOn
  <2>1. HasRoom /\ StartPass("init", NewId) /\ UNCHANGED refreshing
        /\ ready' = ready \cup {NewId}
    BY <1>6 DEF SwitchOn, ChainReady
  <2>2. Promises'
    BY <1>2, <2>1, PassStarts, PlacedPromises
  <2>3. Connection'
    BY <1>1, <1>6 DEF SwitchOn, Connection, socketVars
  <2>4. Display'
    BY <1>1, <1>6, <2>1, PassStarts, EventsLeft DEF SwitchOn, Display
  <2>5. loading' = TRUE /\ error' = FALSE
    BY <2>1, PassStarts
  <2>6. Switches'
    BY <1>1, <1>6, <2>5, Zenon DEF SwitchOn, Switches, socketVars
  <2>7. TasksSound'
    BY <2>1, PassStarts
  <2> QED
    BY <2>2, <2>3, <2>4, <2>6, <2>7 DEF Typed
<1>7. CASE SwitchOff
  <2>1. HasRoom /\ StartMeta(NewId, {}) /\ UNCHANGED <<refreshing, ready>>
        /\ {} \in SUBSET Tables
    BY <1>7 DEF SwitchOff
  <2>2. Promises'
    BY <1>2, <2>1, MetaStarts, PlacedPromises
  <2>3. Connection'
    BY <1>1, <1>7 DEF SwitchOff, Connection, socketVars
  <2>4. Display'
    BY <1>1, <1>7, <2>1, MetaStarts, EventsLeft DEF SwitchOff, Display
  <2>5. loading' = TRUE /\ error' = FALSE
    BY <2>1, MetaStarts
  <2>6. Switches'
    BY <1>1, <1>7, <2>5, Zenon DEF SwitchOff, Switches, socketVars
  <2>7. TasksSound'
    BY <2>1, MetaStarts
  <2> QED
    BY <2>2, <2>3, <2>4, <2>6, <2>7 DEF Typed
<1> QED
  BY <1>3, <1>4, <1>5, <1>6, <1>7 DEF ShellMove

LEMMA EveryMove == Next => SocketMove \/ TaskMove \/ ShellMove
BY DEF Next, Work, SocketStep, SocketMove, TaskMove, ShellMove

LEMMA TypedStep == Typed /\ [Next]_vars => Typed'
<1> SUFFICES ASSUME Typed, [Next]_vars PROVE Typed'
  OBVIOUS
<1>1. CASE Next
  BY <1>1, EveryMove, SocketMoveTyped, TaskMoveTyped, ShellMoveTyped
<1>2. CASE UNCHANGED vars
  <2>1. UNCHANGED vars
    BY <1>2
  <2>2. TasksSound' /\ Promises'
    BY <2>1, SameTasks DEF vars, promiseVars, Typed
  <2>3. Connection'
    BY <2>1 DEF vars, socketVars, Typed, Connection
  <2>4. Switches'
    BY <2>1, Zenon DEF vars, socketVars, shellVars, historyVars, Typed, Switches
  <2>5. Display'
    BY <2>1 DEF vars, shellVars, historyVars, Typed, Display
  <2> QED
    BY <2>2, <2>3, <2>4, <2>5 DEF Typed
<1> QED
  BY <1>1, <1>2

(* All variables keep their types and promises wait only for tasks that    *)
(* run, however connections, commits, refreshes and failures interleave.   *)
THEOREM TypeCorrect == Spec => []TypeOK
<1>1. Init => Typed
  BY TypedInit
<1>2. Typed /\ [Next]_vars => Typed'
  BY TypedStep
<1> QED
  BY <1>1, <1>2, TypedIsTypeOK, PTL DEF Spec
-----------------------------------------------------------------------------
(* The invariant behind the catalog-ready promise.                         *)

(* No message brings a snapshot that the catalog does not have.            *)
Known ==
  /\ \A t \in Tables : received[t] <= latest[t]
  /\ \A c \in Sockets : \A n \in 1 .. Len(wire[c]) :
       wire[c][n].snapshot <= latest[wire[c][n].table]

(* Task r still shows, or has failed to show, what table t received last.  *)
Brings(r, t) == t \in Left(tasks[r]) /\ tasks[r].entries[t] >= received[t]

(* Before a task puts an older snapshot into a view, a refresh has arrived *)
(* that waits for it and puts the newer one back.                          *)
Behind ==
  overlap # "manual" =>
    \A k \in DOMAIN tasks : \A t \in Left(tasks[k]) :
      \/ tasks[k].entries[t] >= received[t]
      \/ \E r \in DOMAIN tasks : k \in tasks[r].waits /\ Brings(r, t)

(* A pass that has no list yet will show every table, or tell.             *)
Full(task) == task.kind \in {"init", "resync", "manual"} /\ task.at # "views"

Covers(i, t) == Full(tasks[i]) \/ Brings(i, t)

Watched == enabled /\ overlap \notin {"marks", "manual"}

(* What has been received is shown, told, or the work of a task.           *)
Covered ==
  Watched =>
    \A t \in Tables :
      view[t] >= received[t] \/ Told(t) \/ \E i \in DOMAIN tasks : Covers(i, t)

Shown == Known /\ Behind /\ Covered

LEMMA ReadyShown == Typed /\ Shown => ReadyMeansShown
<1> SUFFICES ASSUME Typed, Shown, ready = {}, Watched,
                    \A i \in DOMAIN tasks : tasks[i].kind # "manual",
                    NEW t \in Tables
             PROVE  view[t] >= received[t] \/ Told(t)
  BY DEF ReadyMeansShown, Watched
<1>1. \A i \in DOMAIN tasks : tasks[i].kind = "meta" /\ Left(tasks[i]) = {}
  BY DEF Typed, TasksSound, Promises, Task, Sound
<1>2. \A i \in DOMAIN tasks : ~ Covers(i, t)
  BY <1>1 DEF Covers, Full, Brings
<1> QED
  BY <1>2 DEF Shown, Covered

LEMMA ShownInit == Init => Shown
<1> SUFFICES ASSUME Init PROVE Shown
  OBVIOUS
<1>1. /\ latest \in [Tables -> {0, 1}] /\ received = [t \in Tables |-> 0]
      /\ view = [t \in Tables |-> 0] /\ wire = [c \in Sockets |-> <<>>]
  BY DEF Init
<1>2. Known
  BY <1>1 DEF Known
<1>3. Covered
  BY <1>1 DEF Covered
<1>4. tasks = [i \in {1} |-> NewTask(IF enabled THEN "init" ELSE "meta",
                                     IF enabled THEN "db" ELSE "list", NoEntries)]
  BY DEF Init
<1>5. \A i \in DOMAIN tasks : Left(tasks[i]) = {}
  BY <1>4 DEF NewTask, Left, NoEntries
<1>6. Behind
  BY <1>5 DEF Behind
<1> QED
  BY <1>2, <1>3, <1>6 DEF Shown

LEMMA TailElement ==
  ASSUME NEW S, NEW q \in Seq(S), q # <<>>, NEW n \in 1 .. Len(Tail(q))
  PROVE  n + 1 \in 1 .. Len(q) /\ Tail(q)[n] = q[n + 1]
OBVIOUS

LEMMA KnownStep == Typed /\ Known /\ [Next]_vars => Known'
<1> SUFFICES ASSUME Typed, Known, [Next]_vars PROVE Known'
  OBVIOUS
<1>1. /\ latest \in [Tables -> 0 .. MaxCommits] /\ wire \in [Sockets -> Seq(Messages)]
      /\ received \in [Tables -> 0 .. MaxCommits]
      /\ \A t \in Tables : latest[t] \in Nat
      /\ \A c \in Sockets : /\ wire[c] \in Seq(Messages) /\ Len(wire[c]) \in Nat
                            /\ \A n \in 1 .. Len(wire[c]) : wire[c][n] \in Messages
  BY DEF Typed, Connection, Display
<1>2. CASE UNCHANGED <<latest, wire, received>>
  BY <1>2 DEF Known
<1>3. ASSUME NEW u \in Tables, Commit(u)
      PROVE  Known'
  <2> DEFINE m == [table |-> u, snapshot |-> latest[u] + 1]
  <2>1. /\ latest' = [latest EXCEPT ![u] = latest[u] + 1]
        /\ wire' = [c \in Sockets |->
                      IF c \in Subscribed THEN Append(wire[c], m) ELSE wire[c]]
        /\ received' = received /\ latest[u] + 1 <= MaxCommits
    BY <1>3 DEF Commit
  <2>2. \A t \in Tables : latest'[t] \in Nat /\ latest[t] <= latest'[t]
    BY <1>1, <2>1
  <2>3. m.table = u /\ m.snapshot <= latest'[u] /\ m \in Messages
    BY <1>1, <2>1, ViewsAssumption DEF Messages
  <2> HIDE DEF m
  <2>4. \A t \in Tables : received'[t] <= latest'[t]
    BY <1>1, <2>1, <2>2 DEF Known
  <2>5. ASSUME NEW c \in Sockets, NEW n \in 1 .. Len(wire'[c])
        PROVE  wire'[c][n].snapshot <= latest'[wire'[c][n].table]
    <3>1. \A k \in 1 .. Len(wire[c]) :
            wire[c][k].snapshot <= latest'[wire[c][k].table]
      <4> SUFFICES ASSUME NEW k \in 1 .. Len(wire[c])
                   PROVE  wire[c][k].snapshot <= latest'[wire[c][k].table]
        OBVIOUS
      <4>1. wire[c][k].table \in Tables /\ wire[c][k].snapshot \in Nat
        BY SMTT(20), <1>1 DEF Messages
      <4>2. wire[c][k].snapshot <= latest[wire[c][k].table]
        BY DEF Known
      <4> QED
        BY <1>1, <2>2, <4>1, <4>2
    <3>2. CASE c \in Subscribed
      <4>1. wire'[c] = Append(wire[c], m)
        BY <2>1, <3>2
      <4>2. wire'[c][n] = IF n <= Len(wire[c]) THEN wire[c][n] ELSE m
        BY <1>1, <2>3, <4>1
      <4>3. n \in 1 .. Len(wire[c]) + 1
        BY <1>1, <2>3, <4>1
      <4> QED
        BY <1>1, <2>3, <3>1, <4>2, <4>3
    <3>3. CASE c \notin Subscribed
      <4>1. wire'[c] = wire[c]
        BY <2>1, <3>3
      <4> QED
        BY <3>1, <4>1
    <3> QED
      BY <3>2, <3>3
  <2> QED
    BY <2>4, <2>5 DEF Known
<1>4. ASSUME NEW c \in Sockets, Receive(c)
      PROVE  Known'
  <2> DEFINE m == Head(wire[c])
  <2>1. /\ wire[c] # <<>> /\ latest' = latest
        /\ wire' = [wire EXCEPT ![c] = Tail(wire[c])]
        /\ received' = [received EXCEPT ![m.table] = m.snapshot]
    BY <1>4 DEF Receive
  <2>2. m = wire[c][1] /\ 1 \in 1 .. Len(wire[c])
    BY <1>1, <2>1
  <2>3. m \in Messages /\ m.snapshot <= latest[m.table]
    BY <1>1, <2>2 DEF Known
  <2> HIDE DEF m
  <2>4. \A t \in Tables : received'[t] <= latest'[t]
    BY <1>1, <2>1, <2>3 DEF Known, Messages
  <2>5. ASSUME NEW d \in Sockets, NEW n \in 1 .. Len(wire'[d])
        PROVE  wire'[d][n].snapshot <= latest'[wire'[d][n].table]
    <3>1. CASE d = c
      <4>1. wire'[d] = Tail(wire[c])
        BY <1>1, <2>1, <3>1
      <4>2. n + 1 \in 1 .. Len(wire[c]) /\ wire'[d][n] = wire[c][n + 1]
        BY <1>1, <2>1, <4>1, TailElement
      <4> QED
        BY <2>1, <4>2 DEF Known
    <3>2. CASE d # c
      <4>1. wire'[d] = wire[d]
        BY <1>1, <2>1, <3>2
      <4> QED
        BY <2>1, <4>1 DEF Known
    <3> QED
      BY <3>1, <3>2
  <2> QED
    BY <2>4, <2>5 DEF Known
<1>5. ASSUME NEW c \in Sockets, Lose(c)
      PROVE  Known'
  <2>1. wire' = [wire EXCEPT ![c] = <<>>] /\ UNCHANGED <<latest, received>>
    BY <1>5 DEF Lose, historyVars
  <2>2. \A d \in Sockets : wire'[d] = IF d = c THEN <<>> ELSE wire[d]
    BY <1>1, <2>1
  <2>3. \A d \in Sockets : \A n \in 1 .. Len(wire'[d]) :
          d # c /\ wire'[d] = wire[d]
    BY <2>2
  <2> QED
    BY <2>1, <2>2, <2>3 DEF Known
<1>6. CASE UNCHANGED vars
  BY <1>2, <1>6 DEF vars, socketVars, historyVars
<1>7. CASE TaskMove
  BY <1>2, <1>7, TaskMoveFrame
<1>8. CASE SocketMove
  <2>1. ASSUME NEW c \in Sockets, OpenSocket(c) \/ FirstOpen(c) \/ OnClose(c)
        PROVE  Known'
    BY <1>2, <2>1 DEF OpenSocket, FirstOpen, OnClose, historyVars
  <2>2. CASE ConnectFails \/ TimerFires \/ BecomeVisible
    BY <1>2, <2>2 DEF ConnectFails, TimerFires, BecomeVisible, historyVars
  <2> QED
    BY <1>3, <1>5, <1>8, <2>1, <2>2 DEF SocketMove
<1>9. CASE ShellMove
  <2>1. ASSUME NEW c \in Sockets, Reopen(c)
        PROVE  Known'
    BY <1>2, <2>1 DEF Reopen
  <2>2. CASE Refresh \/ SwitchOn \/ SwitchOff
    BY <1>2, <2>2 DEF Refresh, SwitchOn, SwitchOff, socketVars
  <2> QED
    BY <1>4, <1>9, <2>1, <2>2 DEF ShellMove
<1> QED
  BY <1>6, <1>7, <1>8, <1>9, EveryMove

(* Behind holds on when no task gains anything to show that is older than  *)
(* what has been received, and the refreshes that wait go on waiting.      *)
LEMMA BehindKept ==
  ASSUME Behind, UNCHANGED received, overlap' # "manual" => overlap # "manual",
         \A k \in DOMAIN tasks' : \A t \in Left(tasks'[k]) :
           \/ tasks'[k].entries[t] >= received[t]
           \/ /\ k \in DOMAIN tasks /\ t \in Left(tasks[k])
              /\ tasks'[k].entries[t] = tasks[k].entries[t],
         \A r \in DOMAIN tasks : \A k \in tasks[r].waits :
           k \in DOMAIN tasks' => /\ r \in DOMAIN tasks' /\ k \in tasks'[r].waits
                                 /\ Left(tasks'[r]) = Left(tasks[r])
                                 /\ tasks'[r].entries = tasks[r].entries
  PROVE  Behind'
<1> SUFFICES ASSUME overlap' # "manual", NEW k \in DOMAIN tasks', NEW t \in Left(tasks'[k]),
                    ~ (tasks'[k].entries[t] >= received[t])
             PROVE  \E r \in DOMAIN tasks' : k \in tasks'[r].waits /\ Brings(r, t)'
  BY DEF Behind, Brings
<1>1. k \in DOMAIN tasks /\ t \in Left(tasks[k]) /\ ~ (tasks[k].entries[t] >= received[t])
  OBVIOUS
<1>2. PICK r \in DOMAIN tasks : k \in tasks[r].waits /\ Brings(r, t)
  BY <1>1 DEF Behind
<1>3. /\ r \in DOMAIN tasks' /\ k \in tasks'[r].waits
      /\ Left(tasks'[r]) = Left(tasks[r]) /\ tasks'[r].entries = tasks[r].entries
  BY <1>2
<1>4. Brings(r, t)'
  BY <1>2, <1>3 DEF Brings
<1> QED
  BY <1>3, <1>4

(* The parts of the display that Covered reads, but for the views.         *)
SameFlags == UNCHANGED <<enabled, overlap, received, failed, error>>

LEMMA SameWorkShown ==
  ASSUME Typed, Behind, Covered, SameFlags, UNCHANGED view,
         DOMAIN tasks' = DOMAIN tasks,
         \A i \in DOMAIN tasks : SameWork(tasks[i], tasks'[i])
  PROVE  Behind' /\ Covered'
<1>1. \A i \in DOMAIN tasks : /\ Left(tasks'[i]) = Left(tasks[i])
                             /\ tasks'[i].entries = tasks[i].entries
                             /\ tasks'[i].waits = tasks[i].waits
  BY DEF SameWork, Left
<1>2. UNCHANGED received /\ UNCHANGED overlap
  BY DEF SameFlags
<1>3. Behind'
  BY <1>1, <1>2, BehindKept
<1>4. \A i \in DOMAIN tasks, t \in Tables : Covers(i, t) => Covers(i, t)'
  <2> SUFFICES ASSUME NEW i \in DOMAIN tasks, NEW t \in Tables, Covers(i, t)
               PROVE  Covers(i, t)'
    OBVIOUS
  <2>1. CASE Brings(i, t)
    BY <1>1, <1>2, <2>1 DEF Brings, Covers
  <2>2. CASE Full(tasks[i])
    BY <2>2 DEF Full, SameWork, Covers
  <2> QED
    BY <2>1, <2>2 DEF Covers
<1>5. Watched' = Watched /\ \A t : Told(t)' = Told(t)
  BY DEF SameFlags, Watched, Told
<1>6. Covered'
  BY <1>2, <1>4, <1>5 DEF Covered
<1> QED
  BY <1>3, <1>6

(* A task that has just been looked at goes on: the others are as before.  *)
LEMMA OneTaskGoesOn ==
  ASSUME Typed, NEW i \in DOMAIN tasks, UNCHANGED received,
         DOMAIN tasks' = DOMAIN tasks, tasks[i].waits = {},
         \A k \in DOMAIN tasks \ {i} : tasks'[k] = tasks[k]
  PROVE  /\ \A r \in DOMAIN tasks : \A k \in tasks[r].waits :
              /\ r \in DOMAIN tasks' /\ k \in tasks'[r].waits
              /\ Left(tasks'[r]) = Left(tasks[r])
              /\ tasks'[r].entries = tasks[r].entries
         /\ \A k \in DOMAIN tasks \ {i} : \A t :
              /\ Brings(k, t)' = Brings(k, t)
              /\ Covers(k, t)' = Covers(k, t)
<1>1. \A r \in DOMAIN tasks : \A k \in tasks[r].waits : r # i
  OBVIOUS
<1> QED
  BY <1>1 DEF Brings, Covers, Full

LEMMA FetchListShown ==
  ASSUME Typed, Known, Behind, Covered, NEW i \in DOMAIN tasks, FetchList(i)
  PROVE  Behind' /\ Covered'
<1>1. SameFlags /\ UNCHANGED view /\ UNCHANGED latest
  BY DEF FetchList, SameFlags, shellVars
<1>2. /\ DOMAIN tasks' = DOMAIN tasks
      /\ \A k \in DOMAIN tasks \ {i} : tasks'[k] = tasks[k]
      /\ tasks[i].waits = {} /\ tasks[i].kind # "refresh"
      /\ \A t \in Left(tasks'[i]) : tasks'[i].entries[t] = latest[t]
      /\ tasks[i].kind # "meta" =>
           \A t \in Tables : latest[t] > 0 => t \in Left(tasks'[i])
  BY ListFetched
<1>3. /\ \A t \in Tables : received[t] \in Nat /\ latest[t] \in Nat
                           /\ view[t] \in Nat /\ received[t] <= latest[t]
      /\ tasks[i] \in Task /\ Sound(tasks[i]) /\ tasks[i].at = "list"
      /\ tasks'[i] \in Task
  <2>1. TasksSound'
    BY ListFetched
  <2> QED
    BY <1>2, <2>1 DEF FetchList, Known, Typed, Connection, Display, TasksSound
<1>4. \A t \in Left(tasks'[i]) : tasks'[i].entries[t] >= received[t]
  <2>1. Left(tasks'[i]) \subseteq Tables
    BY <1>3 DEF Left, Task
  <2> QED
    BY <1>2, <1>3, <2>1
<1>5. UNCHANGED received /\ UNCHANGED overlap
  BY <1>1 DEF SameFlags
<1>6. /\ \A r \in DOMAIN tasks : \A k \in tasks[r].waits :
              /\ r \in DOMAIN tasks' /\ k \in tasks'[r].waits
              /\ Left(tasks'[r]) = Left(tasks[r])
              /\ tasks'[r].entries = tasks[r].entries
      /\ \A k \in DOMAIN tasks \ {i} : \A t : Covers(k, t)' = Covers(k, t)
  BY <1>2, <1>5, OneTaskGoesOn
<1>7. Behind'
  <2>1. \A k \in DOMAIN tasks' : \A t \in Left(tasks'[k]) :
           \/ tasks'[k].entries[t] >= received[t]
           \/ /\ k \in DOMAIN tasks /\ t \in Left(tasks[k])
              /\ tasks'[k].entries[t] = tasks[k].entries[t]
    BY <1>2, <1>4
  <2> QED
    BY <1>5, <1>6, <2>1, BehindKept
<1>8. Watched' = Watched /\ \A t : Told(t)' = Told(t)
  BY <1>1 DEF SameFlags, Watched, Told
<1>9. \A t \in Tables : Covers(i, t) => view[t] >= received[t] \/ Covers(i, t)'
  <2> SUFFICES ASSUME NEW t \in Tables, Covers(i, t), ~ (view[t] >= received[t])
               PROVE  Covers(i, t)'
    OBVIOUS
  <2>1. tasks[i].kind # "meta"
    BY <1>3 DEF Covers, Full, Brings, Sound
  <2>2. latest[t] > 0
    BY <1>3
  <2>3. t \in Left(tasks'[i]) /\ tasks'[i].entries[t] >= received[t]
    BY <1>2, <1>4, <2>1, <2>2
  <2> QED
    BY <1>5, <2>3 DEF Covers, Brings
<1>10. Covered'
  BY <1>1, <1>2, <1>5, <1>6, <1>8, <1>9 DEF Covered
<1> QED
  BY <1>7, <1>10

LEMMA CreateViewShown ==
  ASSUME Typed, Behind, Covered, NEW i \in DOMAIN tasks, NEW t \in Tables,
         CreateView(i, t)
  PROVE  Behind' /\ Covered'
<1>1. SameFlags /\ view' = [view EXCEPT ![t] = tasks[i].entries[t]]
  BY DEF CreateView, SameFlags, historyVars
<1>2. /\ DOMAIN tasks' = DOMAIN tasks
      /\ \A k \in DOMAIN tasks \ {i} : tasks'[k] = tasks[k]
      /\ tasks[i].at = "views" /\ t \in Left(tasks[i]) /\ tasks[i].waits = {}
      /\ tasks'[i].entries = tasks[i].entries
      /\ Left(tasks'[i]) \subseteq Left(tasks[i])
      /\ Left(tasks[i]) \ {t} \subseteq Left(tasks'[i])
  BY ViewCreated
<1>3. UNCHANGED received /\ UNCHANGED overlap
  BY <1>1 DEF SameFlags
<1>4. /\ \A r \in DOMAIN tasks : \A k \in tasks[r].waits :
              /\ r \in DOMAIN tasks' /\ k \in tasks'[r].waits
              /\ Left(tasks'[r]) = Left(tasks[r])
              /\ tasks'[r].entries = tasks[r].entries
      /\ \A k \in DOMAIN tasks \ {i} : \A u :
              Brings(k, u)' = Brings(k, u) /\ Covers(k, u)' = Covers(k, u)
  BY <1>2, <1>3, OneTaskGoesOn
<1>5. Behind'
  <2>1. \A k \in DOMAIN tasks' : \A u \in Left(tasks'[k]) :
           /\ k \in DOMAIN tasks /\ u \in Left(tasks[k])
           /\ tasks'[k].entries[u] = tasks[k].entries[u]
    BY <1>2
  <2> QED
    BY <1>3, <1>4, <2>1, BehindKept
<1>6. Watched' = Watched /\ \A u : Told(u)' = Told(u)
  BY <1>1 DEF SameFlags, Watched, Told
<1>7. \A u \in Tables \ {t} : view'[u] = view[u]
  BY <1>1 DEF Typed, Display
<1>8. \A u \in Tables \ {t} : Covers(i, u) => Covers(i, u)'
  BY <1>2, <1>3 DEF Covers, Full, Brings
<1>9. Watched => view'[t] >= received[t] \/ \E r \in DOMAIN tasks' : Covers(r, t)'
  <2> SUFFICES ASSUME Watched
               PROVE  view'[t] >= received[t] \/ \E r \in DOMAIN tasks' : Covers(r, t)'
    OBVIOUS
  <2>1. view'[t] = tasks[i].entries[t]
    BY <1>1 DEF Typed, Display
  <2>2. CASE tasks[i].entries[t] >= received[t]
    BY <2>1, <2>2
  <2>3. CASE ~ (tasks[i].entries[t] >= received[t])
    <3>1. PICK r \in DOMAIN tasks : i \in tasks[r].waits /\ Brings(r, t)
      BY <1>2, <2>3 DEF Behind, Watched
    <3>2. r # i
      BY <1>2, <3>1
    <3>3. Brings(r, t)'
      BY <1>4, <3>1, <3>2
    <3> QED
      BY <1>2, <3>3 DEF Covers
  <2> QED
    BY <2>2, <2>3
<1>10. Covered'
  <2> SUFFICES ASSUME Watched, NEW u \in Tables
               PROVE  \/ (view[u] >= received[u])' \/ Told(u)'
                      \/ \E j \in DOMAIN tasks' : Covers(j, u)'
    BY <1>6 DEF Covered
  <2>1. CASE u = t
    BY <1>3, <1>9, <2>1
  <2>2. CASE u # t
    <3>1. view[u] >= received[u] \/ Told(u) \/ \E j \in DOMAIN tasks : Covers(j, u)
      BY DEF Covered
    <3>2. \A j \in DOMAIN tasks : Covers(j, u) => Covers(j, u)'
      BY <1>4, <1>8, <2>2
    <3> QED
      BY <1>2, <1>3, <1>6, <1>7, <2>2, <3>1, <3>2
  <2> QED
    BY <2>1, <2>2
<1> QED
  BY <1>5, <1>10

LEMMA ViewFailsShown ==
  ASSUME Typed, Behind, Covered, NEW i \in DOMAIN tasks, NEW t \in Tables,
         ViewFails(i, t)
  PROVE  Behind' /\ Covered'
<1>1. SameFlags /\ UNCHANGED view
  BY DEF ViewFails, SameFlags, historyVars, shellVars
<1>2. /\ DOMAIN tasks' = DOMAIN tasks
      /\ \A k \in DOMAIN tasks \ {i} : tasks'[k] = tasks[k]
      /\ tasks[i].at = "views" /\ tasks[i].waits = {}
      /\ tasks'[i].entries = tasks[i].entries
      /\ Left(tasks'[i]) = Left(tasks[i])
  BY ViewFailed
<1>3. UNCHANGED received /\ UNCHANGED overlap
  BY <1>1 DEF SameFlags
<1>4. /\ \A r \in DOMAIN tasks : \A k \in tasks[r].waits :
              /\ r \in DOMAIN tasks' /\ k \in tasks'[r].waits
              /\ Left(tasks'[r]) = Left(tasks[r])
              /\ tasks'[r].entries = tasks[r].entries
      /\ \A k \in DOMAIN tasks \ {i} : \A u : Covers(k, u)' = Covers(k, u)
  BY <1>2, <1>3, OneTaskGoesOn
<1>5. Behind'
  <2>1. \A k \in DOMAIN tasks' : \A u \in Left(tasks'[k]) :
           /\ k \in DOMAIN tasks /\ u \in Left(tasks[k])
           /\ tasks'[k].entries[u] = tasks[k].entries[u]
    BY <1>2
  <2> QED
    BY <1>3, <1>4, <2>1, BehindKept
<1>6. Watched' = Watched /\ \A u : Told(u)' = Told(u)
  BY <1>1 DEF SameFlags, Watched, Told
<1>7. \A u \in Tables : Covers(i, u) => Covers(i, u)'
  BY <1>2, <1>3 DEF Covers, Full, Brings
<1>8. \A j \in DOMAIN tasks, u \in Tables : Covers(j, u) => Covers(j, u)'
  BY <1>4, <1>7
<1>9. Covered'
  BY <1>1, <1>2, <1>3, <1>6, <1>8 DEF Covered
<1> QED
  BY <1>5, <1>9

LEMMA RetryInitShown ==
  ASSUME Typed, Behind, Covered, NEW i \in DOMAIN tasks, RetryInit(i)
  PROVE  Behind' /\ Covered'
<1>1. SameFlags /\ UNCHANGED view
  BY DEF RetryInit, SameFlags, historyVars, shellVars
<1>2. /\ DOMAIN tasks' = DOMAIN tasks
      /\ \A k \in DOMAIN tasks \ {i} : tasks'[k] = tasks[k]
      /\ tasks[i].waits = {} /\ tasks'[i].kind = tasks[i].kind
      /\ tasks[i].kind \in {"init", "resync", "manual"}
      /\ tasks'[i].at # "views" /\ Left(tasks'[i]) = {}
  BY InitRetried
<1>3. UNCHANGED received /\ UNCHANGED overlap
  BY <1>1 DEF SameFlags
<1>4. \A r \in DOMAIN tasks : \A k \in tasks[r].waits :
         /\ r \in DOMAIN tasks' /\ k \in tasks'[r].waits
         /\ Left(tasks'[r]) = Left(tasks[r])
         /\ tasks'[r].entries = tasks[r].entries
  BY <1>2, <1>3, OneTaskGoesOn
<1>5. Behind'
  <2>1. \A k \in DOMAIN tasks' : \A u \in Left(tasks'[k]) :
           /\ k \in DOMAIN tasks /\ u \in Left(tasks[k])
           /\ tasks'[k].entries[u] = tasks[k].entries[u]
    BY <1>2
  <2> QED
    BY <1>3, <1>4, <2>1, BehindKept
<1>6. \A u : Covers(i, u)'
  BY <1>2 DEF Covers, Full
<1>7. Covered'
  BY <1>2, <1>6 DEF Covered
<1> QED
  BY <1>5, <1>7

(* A task that ends leaves the others with what they had to show.          *)
LEMMA TaskEnds ==
  ASSUME Typed, Behind, NEW i \in DOMAIN tasks, End(i), tasks[i].waits = {},
         UNCHANGED received, overlap' # "manual" => overlap # "manual"
  PROVE  /\ Behind' /\ DOMAIN tasks' = DOMAIN tasks \ {i}
         /\ \A k \in DOMAIN tasks' : \A u : Covers(k, u)' = Covers(k, u)
<1>1. TasksSound /\ Promises
  BY DEF Typed
<1>2. /\ DOMAIN tasks' = DOMAIN tasks \ {i}
      /\ \A k \in DOMAIN tasks' : tasks'[k] = Without(tasks[k], i)
  BY <1>1, Ended
<1>3. \A k \in DOMAIN tasks' :
         /\ tasks'[k].waits = tasks[k].waits \ {i}
         /\ tasks'[k].kind = tasks[k].kind /\ tasks'[k].at = tasks[k].at
         /\ tasks'[k].entries = tasks[k].entries
         /\ Left(tasks'[k]) = Left(tasks[k])
  BY <1>1, <1>2, WithoutSound DEF TasksSound, Left
<1>4. \A r \in DOMAIN tasks : \A k \in tasks[r].waits :
         k \in DOMAIN tasks' => /\ r \in DOMAIN tasks' /\ k \in tasks'[r].waits
                               /\ Left(tasks'[r]) = Left(tasks[r])
                               /\ tasks'[r].entries = tasks[r].entries
  BY <1>2, <1>3
<1>5. \A k \in DOMAIN tasks' : \A t \in Left(tasks'[k]) :
         /\ k \in DOMAIN tasks /\ t \in Left(tasks[k])
         /\ tasks'[k].entries[t] = tasks[k].entries[t]
  BY <1>2, <1>3
<1>6. Behind'
  BY <1>4, <1>5, BehindKept
<1>7. \A k \in DOMAIN tasks' : \A u : Covers(k, u)' = Covers(k, u)
  BY <1>3 DEF Covers, Full, Brings
<1> QED
  BY <1>2, <1>6, <1>7

LEMMA FinishListShown ==
  ASSUME Typed, Behind, Covered, NEW i \in DOMAIN tasks, FinishList(i)
  PROVE  Behind' /\ Covered'
<1>1. /\ End(i) /\ UNCHANGED <<received, view, error, enabled>>
      /\ tasks[i].at = "views" /\ tasks[i].todo = {}
      /\ failed' = IF tasks[i].bad = {} THEN failed ELSE tasks[i].bad
      /\ overlap' = IF overlap # "manual" /\ ~ failed \subseteq failed'
                    THEN "marks" ELSE overlap
  BY DEF FinishList, Done
<1>2. tasks[i].waits = {}
  BY <1>1 DEF Typed, TasksSound, Sound
<1>3. /\ Behind' /\ DOMAIN tasks' = DOMAIN tasks \ {i}
      /\ \A k \in DOMAIN tasks' : \A u : Covers(k, u)' = Covers(k, u)
  BY <1>1, <1>2, TaskEnds
<1>4. Watched' => Watched /\ failed \subseteq failed'
  BY <1>1 DEF Watched
<1>5. \A u : Covers(i, u) => u \in failed'
  <2>1. \A u : Covers(i, u) => u \in tasks[i].bad
    BY <1>1 DEF Covers, Full, Brings, Left
  <2> QED
    BY <1>1, <2>1
<1>6. Covered'
  <2> SUFFICES ASSUME Watched', NEW u \in Tables
               PROVE  \/ (view[u] >= received[u])' \/ Told(u)'
                      \/ \E j \in DOMAIN tasks' : Covers(j, u)'
    BY DEF Covered
  <2>1. view[u] >= received[u] \/ Told(u) \/ \E j \in DOMAIN tasks : Covers(j, u)
    BY <1>4 DEF Covered
  <2>2. CASE view[u] >= received[u]
    BY <1>1, <2>2
  <2>3. CASE Told(u)
    BY <1>1, <1>4, <2>3 DEF Told
  <2>4. CASE \E j \in DOMAIN tasks : Covers(j, u)
    BY <1>3, <1>5, <2>4 DEF Told
  <2> QED
    BY <2>1, <2>2, <2>3, <2>4
<1> QED
  BY <1>3, <1>6

LEMMA InitFailsShown ==
  ASSUME Typed, Behind, Covered, NEW i \in DOMAIN tasks, InitFails(i)
  PROVE  Behind' /\ Covered'
<1>1. /\ End(i) /\ UNCHANGED <<received, overlap>> /\ error' = TRUE
      /\ tasks[i].at = "rejected"
  BY DEF InitFails, historyVars
<1>2. tasks[i].waits = {}
  BY <1>1 DEF Typed, TasksSound, Sound
<1>3. Behind'
  BY <1>1, <1>2, TaskEnds
<1>4. Covered'
  BY <1>1 DEF Covered, Told
<1> QED
  BY <1>3, <1>4

LEMMA FinishRefreshShown ==
  ASSUME Typed, Behind, Covered, NEW i \in DOMAIN tasks, FinishRefresh(i)
  PROVE  Behind' /\ Covered'
<1>1. /\ End(i) /\ UNCHANGED <<received, view, error, enabled, overlap>>
      /\ tasks[i].kind = "refresh"
      /\ tasks[i].at = "rejected" \/ (tasks[i].at = "views" /\ tasks[i].todo = {})
      /\ failed' = IF (tasks[i].at = "rejected" \/ tasks[i].bad # {}) /\ enabled
                   THEN failed \cup DOMAIN tasks[i].entries ELSE failed
  BY DEF FinishRefresh, Done, historyVars
<1>2. tasks[i].waits = {} /\ Left(tasks[i]) \subseteq DOMAIN tasks[i].entries
  BY <1>1 DEF Typed, TasksSound, Sound
<1>3. /\ Behind' /\ DOMAIN tasks' = DOMAIN tasks \ {i}
      /\ \A k \in DOMAIN tasks' : \A u : Covers(k, u)' = Covers(k, u)
  BY <1>1, <1>2, TaskEnds
<1>4. Watched' = Watched /\ failed \subseteq failed'
  BY <1>1 DEF Watched
<1>5. \A u : Watched /\ Covers(i, u) => u \in failed'
  <2> SUFFICES ASSUME NEW u, Watched, Covers(i, u)
               PROVE  u \in failed'
    OBVIOUS
  <2>1. u \in Left(tasks[i])
    BY <1>1 DEF Covers, Full, Brings
  <2>2. tasks[i].at = "rejected" \/ tasks[i].bad # {}
    BY <1>1, <2>1 DEF Left
  <2> QED
    BY <1>1, <1>2, <2>1, <2>2 DEF Watched
<1>6. Covered'
  <2> SUFFICES ASSUME Watched, NEW u \in Tables
               PROVE  \/ (view[u] >= received[u])' \/ Told(u)'
                      \/ \E j \in DOMAIN tasks' : Covers(j, u)'
    BY <1>4 DEF Covered
  <2>1. view[u] >= received[u] \/ Told(u) \/ \E j \in DOMAIN tasks : Covers(j, u)
    BY DEF Covered
  <2>2. CASE view[u] >= received[u]
    BY <1>1, <2>2
  <2>3. CASE Told(u)
    BY <1>1, <1>4, <2>3 DEF Told
  <2>4. CASE \E j \in DOMAIN tasks : Covers(j, u)
    BY <1>3, <1>5, <2>4 DEF Told
  <2> QED
    BY <2>1, <2>2, <2>3, <2>4
<1> QED
  BY <1>3, <1>6

(* A pass or a list that starts has nothing older to show.                 *)
LEMMA StartBehind ==
  ASSUME Typed, Behind, NewId \notin DOMAIN tasks, UNCHANGED received,
         DOMAIN tasks' = DOMAIN tasks \cup {NewId}, Left(tasks'[NewId]) = {},
         \A i \in DOMAIN tasks \ {NewId} : tasks'[i] = tasks[i],
         overlap' # "manual" => overlap # "manual" \/ DOMAIN tasks = {}
  PROVE  Behind'
<1> DEFINE id == NewId
<1> HIDE DEF id
<1>1. /\ DOMAIN tasks' = DOMAIN tasks \cup {id} /\ Left(tasks'[id]) = {}
      /\ \A i \in DOMAIN tasks : tasks'[i] = tasks[i]
  BY DEF id
<1>2. CASE overlap' # "manual" => overlap # "manual"
  <2>1. \A k \in DOMAIN tasks' : \A u \in Left(tasks'[k]) :
          /\ k \in DOMAIN tasks /\ u \in Left(tasks[k])
          /\ tasks'[k].entries[u] = tasks[k].entries[u]
    BY <1>1
  <2>2. \A r \in DOMAIN tasks : \A k \in tasks[r].waits :
          /\ r \in DOMAIN tasks' /\ k \in tasks'[r].waits
          /\ Left(tasks'[r]) = Left(tasks[r])
          /\ tasks'[r].entries = tasks[r].entries
    BY <1>1
  <2> QED
    BY <1>2, <2>1, <2>2, BehindKept
<1>3. CASE DOMAIN tasks = {}
  <2>1. \A k \in DOMAIN tasks' : Left(tasks'[k]) = {}
    BY <1>1, <1>3
  <2> QED
    BY <2>1 DEF Behind
<1> QED
  BY <1>2, <1>3

LEMMA StartPassShown ==
  ASSUME Typed, Behind, HasRoom, UNCHANGED received,
         NEW kind \in {"init", "resync", "manual"}, StartPass(kind, NewId)
  PROVE  Behind' /\ Covered'
<1>1. NewId \notin DOMAIN tasks
  BY NewIdIsFree DEF Typed
<1>2. /\ DOMAIN tasks' = DOMAIN tasks \cup {NewId}
      /\ tasks'[NewId].kind = kind /\ tasks'[NewId].at \in {"db", "list"}
      /\ Left(tasks'[NewId]) = {}
      /\ \A i \in DOMAIN tasks \ {NewId} : tasks'[i] = tasks[i]
  BY PassStarts
<1>3. overlap' # "manual" => overlap # "manual" \/ tasks = <<>>
  BY DEF StartPass
<1>4. tasks = <<>> => DOMAIN tasks = {}
  OBVIOUS
<1>5. Behind'
  BY <1>1, <1>2, <1>3, <1>4, StartBehind
<1>6. PICK i \in DOMAIN tasks' : Full(tasks'[i])
  BY <1>2 DEF Full
<1>7. \A u : Covers(i, u)'
  BY <1>6 DEF Covers
<1>8. Covered'
  BY <1>6, <1>7 DEF Covered
<1> QED
  BY <1>5, <1>8

LEMMA StartMetaShown ==
  ASSUME Typed, Behind, HasRoom, UNCHANGED received, ~ enabled',
         NEW flags \in SUBSET Tables, StartMeta(NewId, flags)
  PROVE  Behind' /\ Covered'
<1>1. NewId \notin DOMAIN tasks
  BY NewIdIsFree DEF Typed
<1>2. /\ DOMAIN tasks' = DOMAIN tasks \cup {NewId} /\ Left(tasks'[NewId]) = {}
      /\ \A i \in DOMAIN tasks \ {NewId} : tasks'[i] = tasks[i]
      /\ UNCHANGED overlap
  BY MetaStarts
<1>3. Behind'
  BY <1>1, <1>2, StartBehind
<1>4. Covered'
  BY DEF Covered, Watched
<1> QED
  BY <1>3, <1>4

LEMMA ReopenShown ==
  ASSUME Typed, Behind, NEW c \in Sockets, Reopen(c)
  PROVE  Behind' /\ Covered'
<1>1. HasRoom /\ Resync(NewId) /\ UNCHANGED <<received, enabled>>
      /\ failed \in SUBSET Tables
  BY DEF Reopen, Typed, Display
<1>2. CASE enabled
  <2>1. StartPass("resync", NewId)
    BY <1>1, <1>2 DEF Resync
  <2> QED
    BY <1>1, <2>1, StartPassShown
<1>3. CASE ~ enabled
  <2>1. StartMeta(NewId, failed)
    BY <1>1, <1>3 DEF Resync
  <2> QED
    BY <1>1, <1>3, <2>1, StartMetaShown
<1> QED
  BY <1>2, <1>3

LEMMA UserShown ==
  ASSUME Typed, Behind, Refresh \/ SwitchOn \/ SwitchOff
  PROVE  Behind' /\ Covered'
<1>1. CASE Refresh
  <2>1. HasRoom /\ StartPass("manual", NewId) /\ UNCHANGED received
    BY <1>1 DEF Refresh
  <2> QED
    BY <2>1, StartPassShown
<1>2. CASE SwitchOn
  <2>1. HasRoom /\ StartPass("init", NewId) /\ UNCHANGED received
    BY <1>2 DEF SwitchOn
  <2> QED
    BY <2>1, StartPassShown
<1>3. CASE SwitchOff
  <2>1. HasRoom /\ StartMeta(NewId, {}) /\ UNCHANGED received /\ ~ enabled'
    BY <1>3 DEF SwitchOff
  <2>2. {} \in SUBSET Tables
    OBVIOUS
  <2> QED
    BY <2>1, <2>2, StartMetaShown
<1> QED
  BY <1>1, <1>2, <1>3

(* The refresh of a new commit waits for everything that could undo it.    *)
LEMMA ReceiveShown ==
  ASSUME Typed, Behind, Covered, NEW c \in Sockets, Receive(c)
  PROVE  Behind' /\ Covered'
<1> DEFINE m == Head(wire[c])
           id == NewId
<1>1. /\ received' = [received EXCEPT ![m.table] = m.snapshot]
      /\ failed' = failed \ {m.table} /\ UNCHANGED <<view, error, enabled>>
      /\ overlap' = IF \E i \in DOMAIN tasks : tasks[i].kind = "manual"
                    THEN "manual" ELSE overlap
  BY DEF Receive
<1>2. /\ m \in Messages /\ id \notin DOMAIN tasks
      /\ DOMAIN tasks' = DOMAIN tasks \cup {id}
      /\ \A k \in DOMAIN tasks \ {id} : tasks'[k] = tasks[k]
      /\ tasks'[id].waits = ready \ {id} /\ Left(tasks'[id]) = {m.table}
      /\ tasks'[id].entries[m.table] = m.snapshot
  BY CommitReceived
<1> DEFINE t == m.table
           v == m.snapshot
           new == tasks'[id]
<1>3. t \in Tables /\ v \in Nat
  BY <1>2 DEF Messages
<1> HIDE DEF m, id, t, v, new
<1>4. /\ id \notin DOMAIN tasks /\ DOMAIN tasks' = DOMAIN tasks \cup {id}
      /\ \A k \in DOMAIN tasks : tasks'[k] = tasks[k]
      /\ tasks'[id].waits = ready \ {id} /\ Left(tasks'[id]) = {t}
      /\ tasks'[id].entries[t] = v
  BY <1>2 DEF t, v
<1>5. received'[t] = v /\ \A u \in Tables \ {t} : received'[u] = received[u]
  BY <1>1, <1>3 DEF Typed, Display, t, v
<1>6. tasks'[id].entries[t] >= received'[t]
  BY <1>3, <1>4, <1>5
<1>7. \A k \in DOMAIN tasks : tasks[k].kind # "manual" /\ Left(tasks[k]) # {} => k \in ready
  <2> SUFFICES ASSUME NEW k \in DOMAIN tasks, tasks[k].kind # "manual", Left(tasks[k]) # {}
               PROVE  k \in ready
    OBVIOUS
  <2>1. tasks[k] \in Task /\ Sound(tasks[k])
    BY DEF Typed, TasksSound
  <2>2. tasks[k].kind \in {"init", "resync", "refresh"}
    BY <2>1 DEF Task, Sound
  <2> QED
    BY <2>2 DEF Typed, Promises
<1>8. \A k \in DOMAIN tasks : Left(tasks[k]) \subseteq Tables
  BY DEF Typed, TasksSound, Task, Left
<1>9. Behind'
  <2> SUFFICES ASSUME overlap' # "manual", NEW k \in DOMAIN tasks', NEW u \in Left(tasks'[k])
               PROVE  \/ tasks'[k].entries[u] >= received'[u]
                      \/ \E r \in DOMAIN tasks' :
                           /\ k \in tasks'[r].waits /\ u \in Left(tasks'[r])
                           /\ tasks'[r].entries[u] >= received'[u]
    BY DEF Behind, Brings
  <2>1. overlap # "manual" /\ \A i \in DOMAIN tasks : tasks[i].kind # "manual"
    BY <1>1
  <2>2. CASE k = id
    BY <1>4, <1>6, <2>2
  <2>3. CASE k # id /\ u = t
    <3>1. k \in DOMAIN tasks /\ tasks'[k] = tasks[k] /\ Left(tasks[k]) # {}
      BY <1>4, <2>3
    <3>2. k \in ready
      BY <1>7, <2>1, <3>1
    <3> QED
      BY <1>4, <1>6, <2>3, <3>2
  <2>4. CASE k # id /\ u # t
    <3>1. k \in DOMAIN tasks /\ tasks'[k] = tasks[k] /\ u \in Left(tasks[k])
      BY <1>4, <2>4
    <3>2. u \in Tables /\ received'[u] = received[u]
      BY <1>5, <1>8, <2>4, <3>1
    <3>3. \/ tasks[k].entries[u] >= received[u]
          \/ \E r \in DOMAIN tasks : k \in tasks[r].waits /\ Brings(r, u)
      BY <2>1, <3>1 DEF Behind
    <3> QED
      BY <1>4, <3>1, <3>2, <3>3 DEF Brings
  <2> QED
    BY <2>2, <2>3, <2>4
<1>10. Covered'
  <2> SUFFICES ASSUME Watched', NEW u \in Tables
               PROVE  \/ view'[u] >= received'[u] \/ Told(u)'
                      \/ \E j \in DOMAIN tasks' : Covers(j, u)'
    BY DEF Covered
  <2>1. Watched
    BY <1>1 DEF Watched
  <2>2. CASE u = t
    <3>1. PICK j \in DOMAIN tasks' : u \in Left(tasks'[j])
                                   /\ tasks'[j].entries[u] >= received'[u]
      BY <1>4, <1>6, <2>2
    <3>2. Covers(j, u)'
      BY <3>1 DEF Covers, Brings
    <3> QED
      BY <3>1, <3>2
  <2>3. CASE u # t
    <3>1. view[u] >= received[u] \/ Told(u) \/ \E j \in DOMAIN tasks : Covers(j, u)
      BY <2>1 DEF Covered
    <3>2. Told(u) => Told(u)'
      BY <1>1, <2>3 DEF Told, t
    <3>3. \A j \in DOMAIN tasks : Covers(j, u) => Covers(j, u)'
      BY <1>4, <1>5, <2>3 DEF Covers, Full, Brings
    <3> QED
      BY <1>1, <1>4, <1>5, <2>3, <3>1, <3>2, <3>3
  <2> QED
    BY <2>2, <2>3
<1> QED
  BY <1>9, <1>10

LEMMA SocketMoveShown ==
  ASSUME Typed, Behind, Covered,
         UNCHANGED <<tasks, view, failed, error, enabled, received, overlap>>
  PROVE  Behind' /\ Covered'
BY DEF Behind, Covered, Watched, Told, Covers, Full, Brings, Left

LEMMA ShownStep == Typed /\ Shown /\ [Next]_vars => Shown'
<1> SUFFICES ASSUME Typed, Shown, [Next]_vars PROVE Shown'
  OBVIOUS
<1>1. Known /\ Behind /\ Covered /\ Known'
  BY KnownStep DEF Shown
<1> SUFFICES Behind' /\ Covered'
  BY <1>1 DEF Shown
<1>2. CASE UNCHANGED vars
  BY <1>1, <1>2, SocketMoveShown DEF vars, promiseVars, shellVars, historyVars
<1>3. CASE SocketMove
  BY <1>1, <1>3, SocketMoveFrame, SocketMoveShown
<1>4. CASE TaskMove
  <2>1. CASE DbOpens \/ DbFails
    <3>1. SameFlags /\ UNCHANGED view /\ UNCHANGED <<refreshing, ready>>
      BY <2>1 DEF DbOpens, DbFails, SameFlags, shellVars, historyVars
    <3>2. AllAt("list", "views") \/ AllAt("rejected", "rejected")
      <4>1. \A k : (IF k = "refresh" THEN "rejected" ELSE "rejected") = "rejected"
        OBVIOUS
      <4> QED
        BY <2>1, <4>1 DEF DbOpens, DbFails, AllAt
    <3>3. TasksSound /\ Promises
      BY DEF Typed
    <3> QED
      BY <1>1, <3>1, <3>2, <3>3, AllMoved, SameWorkShown
  <2>2. ASSUME NEW i \in DOMAIN tasks, FetchFails(i) \/ RefreshStarts(i)
        PROVE  Behind' /\ Covered'
    <3>1. SameFlags /\ UNCHANGED view
      BY <2>2 DEF FetchFails, RefreshStarts, SameFlags, shellVars, historyVars
    <3>2. /\ DOMAIN tasks' = DOMAIN tasks
          /\ \A k \in DOMAIN tasks \ {i} : tasks'[k] = tasks[k]
          /\ SameWork(tasks[i], tasks'[i])
      BY <2>2, FetchFailed, RefreshStarted
    <3>3. \A k \in DOMAIN tasks : SameWork(tasks[k], tasks'[k])
      BY <3>2 DEF SameWork
    <3> QED
      BY <1>1, <3>1, <3>2, <3>3, SameWorkShown
  <2>3. ASSUME NEW i \in DOMAIN tasks,
               \/ FetchList(i) \/ RetryInit(i) \/ FinishList(i) \/ InitFails(i)
               \/ FinishRefresh(i)
        PROVE  Behind' /\ Covered'
    BY <1>1, <2>3, FetchListShown, RetryInitShown, FinishListShown, InitFailsShown,
       FinishRefreshShown
  <2>4. ASSUME NEW i \in DOMAIN tasks, NEW t \in Tables, CreateView(i, t) \/ ViewFails(i, t)
        PROVE  Behind' /\ Covered'
    BY <1>1, <2>4, CreateViewShown, ViewFailsShown
  <2> QED
    BY <1>4, <2>1, <2>2, <2>3, <2>4 DEF TaskMove, TaskStep
<1>5. CASE ShellMove
  BY <1>1, <1>5, ReopenShown, ReceiveShown, UserShown DEF ShellMove
<1> QED
  BY <1>2, <1>3, <1>4, <1>5, EveryMove

(* A query that waits for the catalog-ready promise reads every commit     *)
(* whose message has arrived, or the user is told: the refresh of a commit *)
(* waits for every pass and refresh that could put an older snapshot back  *)
(* after it, and what fails is marked.                                     *)
THEOREM ReadyViewsAreShown == Spec => []ReadyMeansShown
<1>1. Init => Typed /\ Shown
  BY TypedInit, ShownInit
<1>2. Typed /\ Shown /\ [Next]_vars => (Typed /\ Shown)'
  BY TypedStep, ShownStep
<1> QED
  BY <1>1, <1>2, ReadyShown, PTL DEF Spec
-----------------------------------------------------------------------------
(* The sockets: what is under way on them, and that a tab without one gets *)
(* another.                                                                *)

Connecting == \E c \in Sockets : conn[c] = "connecting"

(* A reconnect is due, and with it a resync, or none is scheduled.         *)
Reconnecting ==
  gaveUp \/ (before /\ (dead # {} \/ timer \/ connects > 0 \/ Connecting))

(* A commit of table t is on its way to the tab.                           *)
InFlight(t) == \E c \in Sockets : \E n \in 1 .. Len(wire[c]) : wire[c][n].table = t

(* Only a socket that is open carries messages.                            *)
WiresLive ==
  /\ \A c \in Sockets : wire[c] # <<>> => c \in Subscribed
  /\ \A c \in Sockets : conn[c] = "open" => before

(* The last message of a table on a socket is the latest commit.           *)
Outdone(w, n, L) ==
  \E m \in n .. Len(w) : w[m].table = w[n].table /\ w[m].snapshot = L[w[n].table]

LastWord ==
  \A c \in Sockets : \A n \in 1 .. Len(wire[c]) : Outdone(wire[c], n, latest)

(* The tab hears the catalog, or a reconnect is due or given up.           *)
Alive == Subscribed # {} \/ dead # {} \/ timer \/ connects > 0 \/ Connecting \/ gaveUp

Unopened == ~ before => \A i \in DOMAIN tasks : tasks[i].kind # "refresh"

Links == WiresLive /\ LastWord /\ Alive /\ Unopened

LEMMA WireTypes ==
  ASSUME Typed
  PROVE  \A c \in Sockets : /\ wire[c] \in Seq(Messages) /\ Len(wire[c]) \in Nat
                           /\ \A n \in 1 .. Len(wire[c]) : wire[c][n] \in Messages
BY DEF Typed, Connection

(* A message that is delivered was the last word, or another is under way. *)
LEMMA ReceiveLinks ==
  ASSUME Typed, LastWord, NEW c \in Sockets, Receive(c)
  PROVE  /\ LastWord'
         /\ \A u \in Tables : u # Head(wire[c]).table /\ InFlight(u) => InFlight(u)'
         /\ \A u \in Tables : u = Head(wire[c]).table =>
              InFlight(u)' \/ Head(wire[c]).snapshot = latest[u]
<1>1. /\ wire[c] # <<>> /\ wire' = [wire EXCEPT ![c] = Tail(wire[c])] /\ latest' = latest
  BY DEF Receive
<1>2. /\ wire \in [Sockets -> Seq(Messages)]
      /\ \A d \in Sockets : wire[d] \in Seq(Messages) /\ Len(wire[d]) \in Nat
  BY DEF Typed, Connection
<1> DEFINE w == wire[c]
           v == wire'[c]
<1>3. v = Tail(w) /\ \A d \in Sockets \ {c} : wire'[d] = wire[d]
  BY <1>1, <1>2
<1>4. /\ Len(w) \in Nat \ {0} /\ Len(v) = Len(w) - 1 /\ Head(w) = w[1]
      /\ v \in Seq(Messages)
  BY <1>1, <1>2, <1>3, HeadTailProperties
<1>5. \A n \in 1 .. Len(v) : n + 1 \in 1 .. Len(w) /\ v[n] = w[n + 1]
  BY <1>1, <1>2, <1>3, TailElement
<1>6. \A n \in 2 .. Len(w) : n - 1 \in 1 .. Len(v) /\ v[n - 1] = w[n]
  <2> SUFFICES ASSUME NEW n \in 2 .. Len(w)
               PROVE  n - 1 \in 1 .. Len(v) /\ v[n - 1] = w[n]
    OBVIOUS
  <2>1. n - 1 \in 1 .. Len(v) /\ (n - 1) + 1 = n
    BY <1>4
  <2> QED
    BY <1>5, <2>1
<1> HIDE DEF w, v
<1>7. LastWord'
  <2> SUFFICES ASSUME NEW d \in Sockets, NEW n \in 1 .. Len(wire'[d])
               PROVE  Outdone(wire'[d], n, latest)
    BY <1>1 DEF LastWord
  <2>1. CASE d # c
    <3>1. wire'[d] = wire[d]
      BY <1>3, <2>1
    <3> QED
      BY <3>1 DEF LastWord
  <2>2. CASE d = c
    <3>1. n \in 1 .. Len(v) /\ v[n] = w[n + 1] /\ n + 1 \in 1 .. Len(w)
      BY <1>5, <2>2 DEF v
    <3>2. PICK m \in (n + 1) .. Len(w) : /\ w[m].table = w[n + 1].table
                                       /\ w[m].snapshot = latest[w[n + 1].table]
      BY <3>1 DEF LastWord, Outdone, w
    <3>3. m \in 2 .. Len(w) /\ m - 1 \in n .. Len(v)
      BY <1>4, <3>1, <3>2
    <3>4. v[m - 1] = w[m]
      BY <1>6, <3>3
    <3>5. Outdone(v, n, latest)
      BY <3>1, <3>2, <3>3, <3>4 DEF Outdone
    <3> QED
      BY <2>2, <3>5 DEF v
  <2> QED
    BY <2>1, <2>2
<1>8. ASSUME NEW u \in Tables, NEW d \in Sockets, NEW n \in 1 .. Len(wire[d]),
             wire[d][n].table = u, d # c \/ n # 1
      PROVE  InFlight(u)'
  <2>1. CASE d # c
    <3>1. wire'[d] = wire[d]
      BY <1>3, <2>1
    <3> QED
      BY <1>8, <3>1 DEF InFlight
  <2>2. CASE d = c
    <3>1. n \in 2 .. Len(w) /\ w[n].table = u
      BY <1>4, <1>8, <2>2 DEF w
    <3>2. n - 1 \in 1 .. Len(v) /\ v[n - 1] = w[n]
      BY <1>6, <3>1
    <3>3. n - 1 \in 1 .. Len(wire'[c]) /\ wire'[c][n - 1].table = u
      BY <3>1, <3>2 DEF v
    <3> QED
      BY <3>3 DEF InFlight
  <2> QED
    BY <2>1, <2>2
<1>9. \A u \in Tables : u # Head(wire[c]).table /\ InFlight(u) => InFlight(u)'
  <2> SUFFICES ASSUME NEW u \in Tables, u # Head(wire[c]).table, InFlight(u)
               PROVE  InFlight(u)'
    OBVIOUS
  <2>1. PICK d \in Sockets : \E n \in 1 .. Len(wire[d]) : wire[d][n].table = u
    BY DEF InFlight
  <2>2. PICK n \in 1 .. Len(wire[d]) : wire[d][n].table = u
    BY <2>1
  <2>3. d # c \/ n # 1
    BY <1>4, <2>2 DEF w
  <2> QED
    BY <1>8, <2>2, <2>3
<1>10. \A u \in Tables : u = Head(wire[c]).table =>
              InFlight(u)' \/ Head(wire[c]).snapshot = latest[u]
  <2> SUFFICES ASSUME NEW u \in Tables, u = Head(wire[c]).table
               PROVE  InFlight(u)' \/ Head(wire[c]).snapshot = latest[u]
    OBVIOUS
  <2>1. 1 \in 1 .. Len(wire[c]) /\ Head(wire[c]) = wire[c][1]
    BY <1>4 DEF w
  <2>2. PICK m \in 1 .. Len(wire[c]) : wire[c][m].table = u /\ wire[c][m].snapshot = latest[u]
    BY <2>1 DEF LastWord, Outdone
  <2>3. CASE m = 1
    BY <2>1, <2>2, <2>3
  <2>4. CASE m # 1
    BY <1>8, <2>2, <2>4
  <2> QED
    BY <2>3, <2>4
<1> QED
  BY <1>7, <1>9, <1>10

(* A commit reaches the sockets that are subscribed, as their last word.   *)
LEMMA CommitLinks ==
  ASSUME Typed, WiresLive, LastWord, NEW t \in Tables, Commit(t)
  PROVE  /\ WiresLive' /\ LastWord'
         /\ \A u \in Tables : InFlight(u) => InFlight(u)'
         /\ Subscribed # {} => InFlight(t)'
         /\ \A u \in Tables \ {t} : latest'[u] = latest[u]
<1> DEFINE m == [table |-> t, snapshot |-> latest[t] + 1]
<1>1. /\ latest' = [latest EXCEPT ![t] = latest[t] + 1]
      /\ wire' = [c \in Sockets |->
                    IF c \in Subscribed THEN Append(wire[c], m) ELSE wire[c]]
      /\ latest[t] + 1 <= MaxCommits /\ UNCHANGED <<conn, dead, before>>
  BY DEF Commit
<1>2. /\ latest \in [Tables -> 0 .. MaxCommits]
      /\ \A c \in Sockets : wire[c] \in Seq(Messages) /\ Len(wire[c]) \in Nat
  BY DEF Typed, Connection
<1>3. latest'[t] = latest[t] + 1 /\ \A u \in Tables \ {t} : latest'[u] = latest[u]
  BY <1>1, <1>2
<1>4. m \in Messages /\ m.table = t /\ m.snapshot = latest'[t]
  BY <1>1, <1>2, <1>3, ViewsAssumption DEF Messages
<1> HIDE DEF m
<1>5. \A c \in Sockets : c \notin Subscribed => wire[c] = <<>> /\ wire'[c] = <<>>
  BY <1>1 DEF WiresLive
<1>6. \A c \in Sockets : c \in Subscribed =>
        /\ Len(wire'[c]) = Len(wire[c]) + 1 /\ wire'[c][Len(wire[c]) + 1] = m
        /\ \A n \in 1 .. Len(wire[c]) : wire'[c][n] = wire[c][n]
  <2> SUFFICES ASSUME NEW c \in Sockets, c \in Subscribed
               PROVE  /\ Len(wire'[c]) = Len(wire[c]) + 1 /\ wire'[c][Len(wire[c]) + 1] = m
                      /\ \A n \in 1 .. Len(wire[c]) : wire'[c][n] = wire[c][n]
    OBVIOUS
  <2>1. wire'[c] = Append(wire[c], m)
    BY <1>1
  <2> QED
    BY <1>2, <1>4, <2>1
<1>7. WiresLive'
  <2>1. Subscribed' = Subscribed
    BY <1>1 DEF Subscribed
  <2> QED
    BY <1>1, <1>5, <2>1 DEF WiresLive
<1>8. LastWord'
  <2> SUFFICES ASSUME NEW c \in Sockets, NEW n \in 1 .. Len(wire'[c])
               PROVE  Outdone(wire'[c], n, latest')
    BY DEF LastWord
  <2>1. c \in Subscribed
    BY <1>5
  <2> DEFINE w == wire[c]
             v == wire'[c]
  <2>2. /\ w \in Seq(Messages) /\ Len(w) \in Nat
        /\ Len(v) = Len(w) + 1 /\ v[Len(w) + 1] = m
        /\ \A k \in 1 .. Len(w) : v[k] = w[k]
        /\ n \in 1 .. Len(v) /\ (n <= Len(w) => Outdone(w, n, latest))
    BY <1>2, <1>6, <2>1 DEF LastWord
  <2> HIDE DEF w, v
  <2>3. CASE n = Len(w) + 1
    BY <1>4, <2>2, <2>3 DEF Outdone, v
  <2>4. CASE n <= Len(w) /\ w[n].table = t
    <3>1. v[n].table = t /\ Len(w) + 1 \in n .. Len(v)
      BY <2>2, <2>4
    <3> QED
      BY <1>4, <2>2, <3>1 DEF Outdone, v
  <2>5. CASE n <= Len(w) /\ w[n].table # t
    <3>1. n \in 1 .. Len(w) /\ w[n] \in Messages
      BY <2>2, <2>5
    <3>2. PICK k \in n .. Len(w) : w[k].table = w[n].table /\ w[k].snapshot = latest[w[n].table]
      BY <2>2, <2>5 DEF Outdone
    <3>3. k \in 1 .. Len(w) /\ k \in n .. Len(v) /\ v[k] = w[k] /\ v[n] = w[n]
      BY <2>2, <3>1, <3>2
    <3>4. latest'[w[n].table] = latest[w[n].table]
      BY <1>3, <2>5, <3>1 DEF Messages
    <3> QED
      BY <3>2, <3>3, <3>4 DEF Outdone, v
  <2> QED
    BY <2>2, <2>3, <2>4, <2>5
<1>9. \A u \in Tables : InFlight(u) => InFlight(u)'
  <2> SUFFICES ASSUME NEW u \in Tables, NEW c \in Sockets, NEW n \in 1 .. Len(wire[c]),
                      wire[c][n].table = u
               PROVE  InFlight(u)'
    BY DEF InFlight
  <2>1. c \in Subscribed
    BY <1>5
  <2>2. n \in 1 .. Len(wire'[c]) /\ wire'[c][n].table = u
    BY <1>2, <1>6, <2>1
  <2> QED
    BY <2>2 DEF InFlight
<1>10. Subscribed # {} => InFlight(t)'
  <2> SUFFICES ASSUME NEW c \in Subscribed PROVE InFlight(t)'
    OBVIOUS
  <2>1. c \in Sockets
    BY DEF Subscribed
  <2>2. Len(wire[c]) + 1 \in 1 .. Len(wire'[c]) /\ wire'[c][Len(wire[c]) + 1].table = t
    BY <1>2, <1>4, <1>6, <2>1
  <2> QED
    BY <2>1, <2>2 DEF InFlight
<1> QED
  BY <1>3, <1>7, <1>8, <1>9, <1>10

(* Sockets that the tab opens and closes carry nothing.                    *)
LEMMA SocketLinks ==
  ASSUME Typed, WiresLive, NEW c \in Sockets,
         OpenSocket(c) \/ FirstOpen(c) \/ OnClose(c) \/ Reopen(c)
  PROVE  WiresLive' /\ UNCHANGED <<wire, latest>>
<1>1. conn \in [Sockets -> {"none", "connecting", "open"}]
  BY DEF Typed, Connection
<1>2. CASE OpenSocket(c)
  <2>1. /\ conn' = [conn EXCEPT ![c] = "connecting"]
        /\ UNCHANGED <<wire, latest, dead, before>>
    BY <1>2 DEF OpenSocket
  <2>2. conn[c] # "open"
    <3>1. c \in {k \in Sockets : conn[k] = "none"} \cup {MaxSockets + 1}
      <4> DEFINE T == {k \in Sockets : conn[k] = "none"} \cup {MaxSockets + 1}
      <4>1. T \in SUBSET Nat /\ T # {}
        BY ViewsAssumption DEF Sockets
      <4>2. c = Min(T)
        BY <1>2 DEF OpenSocket
      <4> HIDE DEF T
      <4>3. c \in T
        BY <4>1, <4>2, LeastNatural
      <4> QED
        BY <4>3 DEF T
    <3>2. c # MaxSockets + 1
      BY ViewsAssumption DEF Sockets
    <3> QED
      BY <3>1, <3>2
  <2> QED
    BY <1>1, <2>1, <2>2 DEF WiresLive, Subscribed
<1>3. CASE FirstOpen(c) \/ Reopen(c)
  <2>1. /\ conn' = [conn EXCEPT ![c] = "open"] /\ before' = TRUE
        /\ UNCHANGED <<wire, latest, dead>> /\ conn[c] = "connecting"
    BY <1>3 DEF FirstOpen, Reopen
  <2> QED
    BY <1>1, <2>1 DEF WiresLive, Subscribed
<1>4. CASE OnClose(c)
  <2>1. /\ conn' = [conn EXCEPT ![c] = "none"] /\ dead' = dead \ {c} /\ c \in dead
        /\ UNCHANGED <<wire, latest, before>>
    BY <1>4 DEF OnClose
  <2> QED
    BY <1>1, <2>1 DEF WiresLive, Subscribed
<1> QED
  BY <1>2, <1>3, <1>4

(* A socket that breaks takes its messages with it: a reconnect is due.    *)
LEMMA LoseLinks ==
  ASSUME Typed, WiresLive, LastWord, NEW c \in Sockets, Lose(c)
  PROVE  /\ WiresLive' /\ LastWord' /\ UNCHANGED latest
         /\ Reconnecting' \/ UNCHANGED wire
<1>1. /\ conn[c] # "none" /\ dead' = dead \cup {c} /\ wire' = [wire EXCEPT ![c] = <<>>]
      /\ UNCHANGED <<latest, conn, before>>
  BY DEF Lose
<1>2. wire \in [Sockets -> Seq(Messages)]
  BY DEF Typed, Connection
<1>3. \A d \in Sockets : wire'[d] = IF d = c THEN <<>> ELSE wire[d]
  BY <1>1, <1>2
<1>4. WiresLive'
  BY <1>1, <1>3 DEF WiresLive, Subscribed
<1>5. \A d \in Sockets : \A n \in 1 .. Len(wire'[d]) : d # c /\ wire'[d] = wire[d]
  BY <1>3
<1>6. LastWord'
  <2> SUFFICES ASSUME NEW d \in Sockets, NEW n \in 1 .. Len(wire'[d])
               PROVE  Outdone(wire'[d], n, latest)
    BY <1>1 DEF LastWord
  <2>1. wire'[d] = wire[d]
    BY <1>5
  <2> QED
    BY <2>1 DEF LastWord
<1>7. CASE wire[c] = <<>>
  <2>1. wire' = wire
    BY <1>1, <1>2, <1>7
  <2> QED
    BY <1>1, <1>4, <1>6, <2>1
<1>8. CASE wire[c] # <<>>
  <2>1. before' /\ dead' # {}
    BY <1>1, <1>8 DEF WiresLive, Subscribed
  <2>2. Reconnecting'
    BY <2>1 DEF Reconnecting
  <2> QED
    BY <1>1, <1>4, <1>6, <2>2
<1> QED
  BY <1>7, <1>8

LEMMA AliveStep == Typed /\ Alive /\ [Next]_vars => Alive'
<1> SUFFICES ASSUME Typed, Alive, [Next]_vars PROVE Alive'
  OBVIOUS
<1>1. CASE UNCHANGED <<conn, dead, timer, connects, gaveUp>>
  BY <1>1 DEF Alive, Subscribed, Connecting
<1>2. conn \in [Sockets -> {"none", "connecting", "open"}] /\ connects \in Nat
  BY DEF Typed, Connection
<1>3. ASSUME NEW c \in Sockets, OpenSocket(c)
      PROVE  Alive'
  <2>1. conn'[c] = "connecting"
    BY <1>2, <1>3 DEF OpenSocket
  <2> QED
    BY <2>1 DEF Alive, Connecting
<1>4. ASSUME NEW c \in Sockets, FirstOpen(c) \/ Reopen(c)
      PROVE  Alive'
  <2>1. conn'[c] = "open" /\ c \notin dead'
    BY <1>2, <1>4 DEF FirstOpen, Reopen
  <2> QED
    BY <2>1 DEF Alive, Subscribed
<1>5. ASSUME NEW c \in Sockets, Lose(c) \/ OnClose(c)
      PROVE  Alive'
  BY <1>5 DEF Lose, OnClose, TimerArmed, Alive
<1>6. CASE ConnectFails
  BY <1>6 DEF ConnectFails, Alive
<1>7. CASE TimerFires \/ BecomeVisible
  <2>1. connects' = connects + 1
    BY <1>7 DEF TimerFires, BecomeVisible
  <2> QED
    BY <1>2, <2>1 DEF Alive
<1>8. CASE UNCHANGED vars
  BY <1>1, <1>8 DEF vars, socketVars, historyVars
<1>9. CASE TaskMove
  BY <1>1, <1>9, TaskMoveFrame
<1>10. CASE ShellMove
  <2>1. ASSUME NEW c \in Sockets, Receive(c)
        PROVE  Alive'
    BY <1>1, <2>1 DEF Receive
  <2>2. CASE Refresh \/ SwitchOn \/ SwitchOff
    BY <1>1, <2>2 DEF Refresh, SwitchOn, SwitchOff, socketVars
  <2> QED
    BY <1>4, <1>10, <2>1, <2>2 DEF ShellMove
<1>11. CASE SocketMove
  <2>1. ASSUME NEW t \in Tables, Commit(t)
        PROVE  Alive'
    BY <1>1, <2>1 DEF Commit
  <2> QED
    BY <1>3, <1>4, <1>5, <1>6, <1>7, <1>11, <2>1 DEF SocketMove
<1> QED
  BY <1>8, <1>9, <1>10, <1>11, EveryMove

LEMMA WiresStep == Typed /\ WiresLive /\ LastWord /\ [Next]_vars => WiresLive' /\ LastWord'
<1> SUFFICES ASSUME Typed, WiresLive, LastWord, [Next]_vars PROVE WiresLive' /\ LastWord'
  OBVIOUS
<1>1. UNCHANGED <<latest, wire>> => LastWord'
  BY DEF LastWord
<1>2. UNCHANGED <<wire, conn, dead, before>> => WiresLive'
  BY DEF WiresLive, Subscribed
<1>3. CASE UNCHANGED vars
  BY <1>1, <1>2, <1>3 DEF vars, socketVars
<1>4. CASE TaskMove
  BY <1>1, <1>2, <1>4, TaskMoveFrame
<1>5. CASE SocketMove
  <2>1. ASSUME NEW t \in Tables, Commit(t)
        PROVE  WiresLive' /\ LastWord'
    BY <2>1, CommitLinks
  <2>2. ASSUME NEW c \in Sockets, OpenSocket(c) \/ FirstOpen(c) \/ OnClose(c)
        PROVE  WiresLive' /\ LastWord'
    BY <1>1, <2>2, SocketLinks
  <2>3. ASSUME NEW c \in Sockets, Lose(c)
        PROVE  WiresLive' /\ LastWord'
    BY <2>3, LoseLinks
  <2>4. CASE ConnectFails \/ TimerFires \/ BecomeVisible
    BY <1>1, <1>2, <2>4 DEF ConnectFails, TimerFires, BecomeVisible
  <2> QED
    BY <1>5, <2>1, <2>2, <2>3, <2>4 DEF SocketMove
<1>6. CASE ShellMove
  <2>1. ASSUME NEW c \in Sockets, Reopen(c)
        PROVE  WiresLive' /\ LastWord'
    BY <1>1, <2>1, SocketLinks
  <2>2. ASSUME NEW c \in Sockets, Receive(c)
        PROVE  WiresLive' /\ LastWord'
    <3>1. /\ wire[c] # <<>> /\ wire' = [wire EXCEPT ![c] = Tail(wire[c])]
          /\ UNCHANGED <<conn, dead, before>>
      BY <2>2 DEF Receive
    <3>2. wire \in [Sockets -> Seq(Messages)]
      BY DEF Typed, Connection
    <3>3. \A d \in Sockets : wire'[d] # <<>> => wire[d] # <<>>
      BY <3>1, <3>2
    <3>4. WiresLive'
      BY <3>1, <3>3 DEF WiresLive, Subscribed
    <3> QED
      BY <2>2, <3>4, ReceiveLinks
  <2>3. CASE Refresh \/ SwitchOn \/ SwitchOff
    BY <1>1, <1>2, <2>3 DEF Refresh, SwitchOn, SwitchOff, socketVars
  <2> QED
    BY <1>6, <2>1, <2>2, <2>3 DEF ShellMove
<1> QED
  BY <1>3, <1>4, <1>5, <1>6, EveryMove

(* A reconnect that is due stays so until a socket is open again.          *)
LEMMA ReconnectStays ==
  ASSUME Typed, [Next]_vars, Reconnecting
  PROVE  Reconnecting' \/ \E c \in Sockets : Reopen(c)
<1>1. UNCHANGED <<conn, dead, timer, connects, before, gaveUp>> => Reconnecting'
  BY DEF Reconnecting, Connecting
<1>2. conn \in [Sockets -> {"none", "connecting", "open"}] /\ connects \in Nat
  BY DEF Typed, Connection
<1>3. CASE UNCHANGED vars
  BY <1>1, <1>3 DEF vars, socketVars, historyVars
<1>4. CASE TaskMove
  BY <1>1, <1>4, TaskMoveFrame
<1>5. ASSUME NEW t \in Tables, Commit(t)
      PROVE  Reconnecting'
  BY <1>1, <1>5 DEF Commit
<1>6. ASSUME NEW c \in Sockets, OpenSocket(c)
      PROVE  Reconnecting'
  <2>1. conn'[c] = "connecting" /\ before' = before /\ gaveUp' = gaveUp
    BY <1>2, <1>6 DEF OpenSocket, historyVars
  <2> QED
    BY <2>1 DEF Reconnecting, Connecting
<1>7. ASSUME NEW c \in Sockets, FirstOpen(c)
      PROVE  Reconnecting'
  BY <1>7 DEF FirstOpen, Reconnecting, historyVars
<1>8. ASSUME NEW c \in Sockets, Lose(c)
      PROVE  Reconnecting'
  BY <1>8 DEF Lose, Reconnecting, historyVars
<1>9. ASSUME NEW c \in Sockets, OnClose(c)
      PROVE  Reconnecting'
  BY <1>9 DEF OnClose, TimerArmed, Reconnecting, historyVars
<1>10. CASE ConnectFails
  BY <1>10 DEF ConnectFails, Reconnecting
<1>11. CASE TimerFires \/ BecomeVisible
  <2>1. connects' = connects + 1 /\ UNCHANGED <<before, gaveUp>>
    BY <1>11 DEF TimerFires, BecomeVisible, historyVars
  <2> QED
    BY <1>2, <2>1 DEF Reconnecting
<1>12. ASSUME NEW c \in Sockets, Receive(c)
       PROVE  Reconnecting'
  BY <1>1, <1>12 DEF Receive
<1>13. CASE Refresh \/ SwitchOn \/ SwitchOff
  BY <1>1, <1>13 DEF Refresh, SwitchOn, SwitchOff, socketVars
<1> QED
  BY <1>3, <1>4, <1>5, <1>6, <1>7, <1>8, <1>9, <1>10, <1>11, <1>12, <1>13, EveryMove
     DEF SocketMove, ShellMove

-----------------------------------------------------------------------------
(* What the tasks do by themselves, in one formula.                        *)

(* Tasks go on or end, and those that wait for others stay as they are;    *)
(* what a task has to show, it had before, or has just fetched.            *)
TasksGoOn ==
  /\ DOMAIN tasks' \subseteq DOMAIN tasks
  /\ \A k \in DOMAIN tasks' :
       /\ tasks'[k].kind = tasks[k].kind
       /\ tasks[k].waits \cap DOMAIN tasks' \subseteq tasks'[k].waits
       /\ \/ \A t \in Left(tasks'[k]) :
               t \in Left(tasks[k]) /\ tasks'[k].entries[t] = tasks[k].entries[t]
          \/ FetchList(k)
  /\ \A r \in DOMAIN tasks : tasks[r].waits # {} =>
       /\ r \in DOMAIN tasks' /\ Left(tasks'[r]) = Left(tasks[r])
       /\ tasks'[r].entries = tasks[r].entries

LEMMA SameWorkGoesOn ==
  ASSUME DOMAIN tasks' = DOMAIN tasks,
         \A i \in DOMAIN tasks : SameWork(tasks[i], tasks'[i])
  PROVE  TasksGoOn
<1>1. \A i \in DOMAIN tasks : /\ Left(tasks'[i]) = Left(tasks[i])
                             /\ tasks'[i].entries = tasks[i].entries
                             /\ tasks'[i].waits = tasks[i].waits
                             /\ tasks'[i].kind = tasks[i].kind
  BY DEF SameWork, Left
<1> QED
  BY <1>1 DEF TasksGoOn

LEMMA OneGoesOn ==
  ASSUME NEW i \in DOMAIN tasks, DOMAIN tasks' = DOMAIN tasks,
         \A k \in DOMAIN tasks \ {i} : tasks'[k] = tasks[k],
         tasks[i].waits = {}, tasks'[i].kind = tasks[i].kind,
         \/ FetchList(i)
         \/ \A t \in Left(tasks'[i]) :
              t \in Left(tasks[i]) /\ tasks'[i].entries[t] = tasks[i].entries[t]
  PROVE  TasksGoOn
<1>1. \A k \in DOMAIN tasks' :
        /\ tasks'[k].kind = tasks[k].kind
        /\ tasks[k].waits \cap DOMAIN tasks' \subseteq tasks'[k].waits
        /\ \/ \A t \in Left(tasks'[k]) :
                t \in Left(tasks[k]) /\ tasks'[k].entries[t] = tasks[k].entries[t]
           \/ FetchList(k)
  <2> SUFFICES ASSUME NEW k \in DOMAIN tasks'
               PROVE  /\ tasks'[k].kind = tasks[k].kind
                      /\ tasks[k].waits \cap DOMAIN tasks' \subseteq tasks'[k].waits
                      /\ \/ \A t \in Left(tasks'[k]) :
                              t \in Left(tasks[k]) /\ tasks'[k].entries[t] = tasks[k].entries[t]
                         \/ FetchList(k)
    OBVIOUS
  <2>1. CASE k = i
    BY <2>1
  <2>2. CASE k # i
    BY <2>2
  <2> QED
    BY <2>1, <2>2
<1>2. \A r \in DOMAIN tasks : tasks[r].waits # {} => r # i
  OBVIOUS
<1> QED
  BY <1>1, <1>2 DEF TasksGoOn

LEMMA TaskMoveGoesOn ==
  ASSUME Typed, TaskMove
  PROVE  TasksGoOn
<1>1. TasksSound /\ Promises
  BY DEF Typed
<1>2. CASE DbOpens \/ DbFails
  <2>1. UNCHANGED <<refreshing, ready>>
    BY <1>2 DEF DbOpens, DbFails
  <2>2. AllAt("list", "views") \/ AllAt("rejected", "rejected")
    <3>1. \A k : (IF k = "refresh" THEN "rejected" ELSE "rejected") = "rejected"
      OBVIOUS
    <3> QED
      BY <1>2, <3>1 DEF DbOpens, DbFails, AllAt
  <2> QED
    BY <1>1, <2>1, <2>2, AllMoved, SameWorkGoesOn
<1>3. ASSUME NEW i \in DOMAIN tasks, FetchFails(i) \/ RefreshStarts(i)
      PROVE  TasksGoOn
  <2>1. /\ DOMAIN tasks' = DOMAIN tasks
        /\ \A k \in DOMAIN tasks \ {i} : tasks'[k] = tasks[k]
        /\ SameWork(tasks[i], tasks'[i])
    BY <1>3, FetchFailed, RefreshStarted
  <2>2. \A k \in DOMAIN tasks : SameWork(tasks[k], tasks'[k])
    BY <2>1 DEF SameWork
  <2> QED
    BY <2>1, <2>2, SameWorkGoesOn
<1>4. ASSUME NEW i \in DOMAIN tasks, FetchList(i)
      PROVE  TasksGoOn
  BY <1>4, ListFetched, OneGoesOn
<1>5. ASSUME NEW i \in DOMAIN tasks, RetryInit(i)
      PROVE  TasksGoOn
  BY <1>5, InitRetried, OneGoesOn
<1>6. ASSUME NEW i \in DOMAIN tasks, NEW t \in Tables, CreateView(i, t)
      PROVE  TasksGoOn
  BY <1>6, ViewCreated, OneGoesOn
<1>7. ASSUME NEW i \in DOMAIN tasks, NEW t \in Tables, ViewFails(i, t)
      PROVE  TasksGoOn
  BY <1>7, ViewFailed, OneGoesOn
<1>8. ASSUME NEW i \in DOMAIN tasks, FinishList(i) \/ InitFails(i) \/ FinishRefresh(i)
      PROVE  TasksGoOn
  <2>1. End(i) /\ tasks[i].at # "wait"
    BY <1>8 DEF FinishList, InitFails, FinishRefresh, Done
  <2>2. tasks[i].waits = {}
    BY <2>1 DEF Typed, TasksSound, Sound
  <2>3. /\ DOMAIN tasks' = DOMAIN tasks \ {i}
        /\ \A k \in DOMAIN tasks' : tasks'[k] = Without(tasks[k], i)
    BY <1>1, <2>1, Ended
  <2>4. \A k \in DOMAIN tasks' :
          /\ tasks'[k].waits = tasks[k].waits \ {i} /\ tasks'[k].kind = tasks[k].kind
          /\ tasks'[k].entries = tasks[k].entries /\ Left(tasks'[k]) = Left(tasks[k])
    BY <1>1, <2>3, WithoutSound DEF TasksSound, Left
  <2> QED
    BY <2>2, <2>3, <2>4 DEF TasksGoOn
<1> QED
  BY <1>2, <1>3, <1>4, <1>5, <1>6, <1>7, <1>8 DEF TaskMove, TaskStep

LEMMA LinksInit == Init => Links
<1> SUFFICES ASSUME Init PROVE Links
  OBVIOUS
<1>1. WiresLive /\ Alive
  BY DEF Init, WiresLive, Alive
<1>2. \A c \in Sockets : wire[c] = <<>>
  BY DEF Init
<1>3. LastWord
  BY <1>2 DEF LastWord
<1>4. tasks = [i \in {1} |-> NewTask(IF enabled THEN "init" ELSE "meta",
                                     IF enabled THEN "db" ELSE "list", NoEntries)]
  BY DEF Init
<1>5. Unopened
  BY <1>4 DEF NewTask, Unopened
<1> QED
  BY <1>1, <1>3, <1>5 DEF Links

(* What starts with a list of its own.                                     *)
ListStarts ==
  /\ HasRoom
  /\ \/ \E kind \in {"init", "resync", "manual"} : StartPass(kind, NewId)
     \/ ~ enabled' /\ \E flags \in SUBSET Tables : StartMeta(NewId, flags)
  /\ UNCHANGED <<latest, wire>>

LEMMA ShellMoveKinds ==
  ASSUME Typed, ShellMove
  PROVE  ListStarts \/ \E c \in Sockets : Receive(c)
<1>1. ASSUME NEW c \in Sockets, Reopen(c)
      PROVE  ListStarts
  <2>1. HasRoom /\ Resync(NewId) /\ UNCHANGED <<latest, wire, enabled>>
        /\ failed \in SUBSET Tables
    BY <1>1 DEF Reopen, Typed, Display
  <2> QED
    BY <2>1 DEF Resync, ListStarts
<1>2. CASE Refresh \/ SwitchOn
  BY <1>2 DEF Refresh, SwitchOn, ListStarts, socketVars
<1>3. CASE SwitchOff
  <2>1. HasRoom /\ StartMeta(NewId, {}) /\ ~ enabled' /\ UNCHANGED <<latest, wire>>
        /\ {} \in SUBSET Tables
    BY <1>3 DEF SwitchOff, socketVars
  <2> QED
    BY <2>1 DEF ListStarts
<1> QED
  BY <1>1, <1>2, <1>3 DEF ShellMove

(* The one task that has come with it.                                     *)
LEMMA ListStarted ==
  ASSUME Typed, ListStarts
  PROVE  \E i \in DOMAIN tasks' :
           /\ DOMAIN tasks' = DOMAIN tasks \cup {i} /\ i \notin DOMAIN tasks
           /\ \A k \in DOMAIN tasks : tasks'[k] = tasks[k]
           /\ tasks'[i].kind # "refresh" /\ Left(tasks'[i]) = {}
           /\ tasks'[i].at # "views"
           /\ enabled' => /\ tasks'[i].kind \in {"init", "resync", "manual"}
                          /\ overlap' = "no" => DOMAIN tasks = {}
<1>1. HasRoom /\ NewId \notin DOMAIN tasks
  BY NewIdIsFree DEF Typed, ListStarts
<1>2. ASSUME NEW kind \in {"init", "resync", "manual"}, StartPass(kind, NewId)
      PROVE  /\ DOMAIN tasks' = DOMAIN tasks \cup {NewId}
             /\ \A k \in DOMAIN tasks \ {NewId} : tasks'[k] = tasks[k]
             /\ tasks'[NewId].kind = kind /\ Left(tasks'[NewId]) = {}
             /\ tasks'[NewId].at # "views"
             /\ overlap' = "no" => DOMAIN tasks = {}
  <2>1. overlap' = "no" => tasks = <<>>
    BY <1>2 DEF StartPass
  <2>2. tasks = <<>> => DOMAIN tasks = {}
    OBVIOUS
  <2>3. tasks'[NewId].at \in {"db", "list"}
    BY <1>1, <1>2, PassStarts
  <2> QED
    BY <1>1, <1>2, <2>1, <2>2, <2>3, PassStarts
<1>3. ASSUME NEW flags \in SUBSET Tables, StartMeta(NewId, flags)
      PROVE  /\ DOMAIN tasks' = DOMAIN tasks \cup {NewId}
             /\ \A k \in DOMAIN tasks \ {NewId} : tasks'[k] = tasks[k]
             /\ tasks'[NewId].kind = "meta" /\ Left(tasks'[NewId]) = {}
             /\ tasks'[NewId].at # "views"
  <2>1. tasks' = Spawn(tasks, NewId, NewTask("meta", "list", NoEntries))
    BY <1>3 DEF StartMeta
  <2>2. tasks'[NewId] = NewTask("meta", "list", NoEntries)
    BY <2>1, Zenon DEF Spawn
  <2>3. tasks'[NewId].at # "views"
    BY <2>2 DEF NewTask
  <2> QED
    BY <1>1, <1>3, <2>3, MetaStarts
<1>4. \E i : i = NewId
  OBVIOUS
<1>5. PICK i : i = NewId
  BY <1>4
<1>6. CASE \E kind \in {"init", "resync", "manual"} : StartPass(kind, NewId)
  <2>1. /\ DOMAIN tasks' = DOMAIN tasks \cup {i} /\ i \notin DOMAIN tasks
        /\ \A k \in DOMAIN tasks : tasks'[k] = tasks[k]
        /\ tasks'[i].kind \in {"init", "resync", "manual"} /\ Left(tasks'[i]) = {}
        /\ tasks'[i].at # "views"
        /\ overlap' = "no" => DOMAIN tasks = {}
    BY <1>1, <1>2, <1>5, <1>6
  <2> QED
    BY <2>1
<1>7. CASE ~ enabled' /\ \E flags \in SUBSET Tables : StartMeta(NewId, flags)
  <2>1. /\ DOMAIN tasks' = DOMAIN tasks \cup {i} /\ i \notin DOMAIN tasks
        /\ \A k \in DOMAIN tasks : tasks'[k] = tasks[k]
        /\ tasks'[i].kind = "meta" /\ Left(tasks'[i]) = {}
        /\ tasks'[i].at # "views"
    BY <1>1, <1>3, <1>5, <1>7
  <2> QED
    BY <1>7, <2>1
<1> QED
  BY <1>6, <1>7 DEF ListStarts

LEMMA LinksStep == Typed /\ Links /\ [Next]_vars => Links'
<1> SUFFICES ASSUME Typed, Links, [Next]_vars PROVE Links'
  OBVIOUS
<1>1. WiresLive' /\ LastWord' /\ Alive'
  BY WiresStep, AliveStep DEF Links
<1> SUFFICES Unopened'
  BY <1>1 DEF Links
<1>2. CASE UNCHANGED vars
  BY <1>2 DEF vars, socketVars, promiseVars, Links, Unopened
<1>3. CASE TaskMove
  BY <1>3, TaskMoveFrame, TaskMoveGoesOn DEF TasksGoOn, Links, Unopened
<1>4. CASE SocketMove
  <2>1. before => before'
    BY <1>4 DEF SocketMove, Commit, OpenSocket, FirstOpen, Lose, OnClose, ConnectFails,
                TimerFires, BecomeVisible
  <2> QED
    BY <1>4, <2>1, SocketMoveFrame DEF Links, Unopened
<1>5. CASE ShellMove
  <2>1. ASSUME NEW c \in Sockets, Receive(c)
        PROVE  before'
    BY <2>1 DEF Receive, Links, WiresLive
  <2>2. before' = before
    BY <1>5 DEF ShellMove, Reopen, Receive, Refresh, SwitchOn, SwitchOff, socketVars
  <2>3. CASE ListStarts
    BY <2>2, <2>3, ListStarted DEF Links, Unopened
  <2> QED
    BY <1>5, <2>1, <2>3, ShellMoveKinds DEF Unopened
<1> QED
  BY <1>2, <1>3, <1>4, <1>5, EveryMove

-----------------------------------------------------------------------------
(* The invariant behind the settled tab.                                   *)

(* Nothing shows or will show more than the catalog has.                   *)
Bounded ==
  \A t \in Tables :
    /\ view[t] <= latest[t]
    /\ \A k \in DOMAIN tasks : t \in Left(tasks[k]) => tasks[k].entries[t] <= latest[t]

(* A pass that started alone stays the only one, and the refreshes that    *)
(* come wait for it.                                                       *)
Only ==
  enabled /\ overlap = "no" =>
    /\ \A i \in DOMAIN tasks : tasks[i].kind # "meta"
    /\ \A i, j \in DOMAIN tasks :
         tasks[i].kind # "refresh" =>
           IF tasks[j].kind = "refresh" THEN i \in tasks[j].waits ELSE i = j

LEMMA LatestGrows ==
  ASSUME Typed, [Next]_vars
  PROVE  \A t \in Tables : /\ latest[t] \in Nat /\ latest'[t] \in Nat
                          /\ latest[t] <= latest'[t]
<1>1. latest \in [Tables -> 0 .. MaxCommits]
  BY DEF Typed, Connection
<1>2. CASE UNCHANGED latest
  BY <1>1, <1>2
<1>3. ASSUME NEW t \in Tables, Commit(t)
      PROVE  \A u \in Tables : /\ latest[u] \in Nat /\ latest'[u] \in Nat
                              /\ latest[u] <= latest'[u]
  <2>1. latest' = [latest EXCEPT ![t] = latest[t] + 1]
    BY <1>3 DEF Commit
  <2> QED
    BY <1>1, <2>1
<1>4. CASE UNCHANGED vars
  BY <1>2, <1>4 DEF vars
<1>5. CASE TaskMove
  BY <1>2, <1>5, TaskMoveFrame
<1>6. CASE ShellMove
  BY <1>2, <1>6 DEF ShellMove, Reopen, Receive, Refresh, SwitchOn, SwitchOff
<1>7. CASE SocketMove
  BY <1>2, <1>3, <1>7 DEF SocketMove, OpenSocket, FirstOpen, Lose, OnClose, ConnectFails,
                TimerFires, BecomeVisible
<1> QED
  BY <1>4, <1>5, <1>6, <1>7, EveryMove

LEMMA BoundedInit == Init => Bounded
<1> SUFFICES ASSUME Init PROVE Bounded
  OBVIOUS
<1>1. \A t \in Tables : view[t] = 0 /\ latest[t] \in {0, 1}
  BY DEF Init
<1>2. tasks = [i \in {1} |-> NewTask(IF enabled THEN "init" ELSE "meta",
                                     IF enabled THEN "db" ELSE "list", NoEntries)]
  BY DEF Init
<1>3. \A i \in DOMAIN tasks : Left(tasks[i]) = {}
  BY <1>2 DEF NewTask, Left, NoEntries
<1> QED
  BY <1>1, <1>3 DEF Bounded

LEMMA BoundedStep == Typed /\ Known /\ Bounded /\ [Next]_vars => Bounded'
<1> SUFFICES ASSUME Typed, Known, Bounded, [Next]_vars PROVE Bounded'
  OBVIOUS
<1>1. \A t \in Tables : /\ latest[t] \in Nat /\ latest'[t] \in Nat
                       /\ latest[t] <= latest'[t] /\ view[t] \in Nat
  BY LatestGrows DEF Typed, Display
<1>2. \A k \in DOMAIN tasks : \A t \in Left(tasks[k]) :
        t \in Tables /\ tasks[k].entries[t] \in Nat /\ tasks[k].entries[t] <= latest[t]
  <2> SUFFICES ASSUME NEW k \in DOMAIN tasks, NEW t \in Left(tasks[k])
               PROVE  t \in Tables /\ tasks[k].entries[t] \in Nat /\ tasks[k].entries[t] <= latest[t]
    OBVIOUS
  <2>1. tasks[k] \in Task /\ Sound(tasks[k])
    BY DEF Typed, TasksSound
  <2>2. t \in Tables
    BY <2>1 DEF Task, Left
  <2>3. tasks[k].entries[t] \in Nat
    BY <2>1 DEF Task, Entries, Sound
  <2> QED
    BY <2>2, <2>3 DEF Bounded
<1>3. CASE UNCHANGED vars \/ SocketMove
  <2>1. UNCHANGED <<tasks, view>>
    BY <1>3, SocketMoveFrame DEF vars, promiseVars, shellVars
  <2>2. \A t \in Tables : view[t] <= latest[t]
    BY DEF Bounded
  <2> QED
    BY <1>1, <1>2, <2>1, <2>2 DEF Bounded
<1>4. CASE TaskMove
  <2>1. latest' = latest
    BY <1>4, TaskMoveFrame
  <2>2. \A k \in DOMAIN tasks' : \A t \in Left(tasks'[k]) : tasks'[k].entries[t] <= latest[t]
    <3> SUFFICES ASSUME NEW k \in DOMAIN tasks', NEW t \in Left(tasks'[k])
                 PROVE  tasks'[k].entries[t] <= latest[t]
      OBVIOUS
    <3>1. k \in DOMAIN tasks
      BY <1>4, TaskMoveGoesOn DEF TasksGoOn
    <3>2. CASE FetchList(k)
      <4>1. tasks'[k].entries[t] = latest[t] /\ TasksSound'
        BY <3>1, <3>2, ListFetched
      <4>2. t \in Tables
        BY <4>1 DEF TasksSound, Task, Left
      <4> QED
        BY <1>1, <4>1, <4>2
    <3>3. CASE t \in Left(tasks[k]) /\ tasks'[k].entries[t] = tasks[k].entries[t]
      BY <1>2, <3>1, <3>3
    <3> QED
      BY <1>4, <3>2, <3>3, TaskMoveGoesOn DEF TasksGoOn
  <2>3. \A t \in Tables : view'[t] <= latest[t]
    <3>1. CASE UNCHANGED view
      BY <3>1 DEF Bounded
    <3>2. ASSUME NEW i \in DOMAIN tasks, NEW t \in Tables, CreateView(i, t)
          PROVE  \A u \in Tables : view'[u] <= latest[u]
      <4>1. view' = [view EXCEPT ![t] = tasks[i].entries[t]] /\ t \in Left(tasks[i])
        BY <3>2 DEF CreateView, Left
      <4>2. tasks[i].entries[t] <= latest[t]
        BY <1>2, <4>1
      <4> QED
        BY <4>1, <4>2 DEF Bounded, Typed, Display
    <3> QED
      BY <1>4, <3>1, <3>2 DEF TaskMove, DbOpens, DbFails, TaskStep, FetchFails, ViewFails,
         FetchList, FinishList, RetryInit, InitFails, RefreshStarts, FinishRefresh, shellVars
  <2> QED
    BY <2>1, <2>2, <2>3 DEF Bounded
<1>5. CASE ListStarts
  <2>1. UNCHANGED <<latest, view>>
    BY <1>5 DEF ListStarts, StartPass, StartMeta
  <2>2. \A k \in DOMAIN tasks' : \A t \in Left(tasks'[k]) : tasks'[k].entries[t] <= latest[t]
    BY <1>2, <1>5, ListStarted
  <2> QED
    BY <2>1, <2>2 DEF Bounded
<1>6. ASSUME NEW c \in Sockets, Receive(c)
      PROVE  Bounded'
  <2>1. /\ wire[c] # <<>> /\ UNCHANGED <<latest, view>>
    BY <1>6 DEF Receive
  <2>2. Head(wire[c]) = wire[c][1] /\ 1 \in 1 .. Len(wire[c])
    BY <2>1, WireTypes
  <2>3. Head(wire[c]).snapshot <= latest[Head(wire[c]).table]
    BY <2>2 DEF Known
  <2>4. \A k \in DOMAIN tasks' : \A t \in Left(tasks'[k]) : tasks'[k].entries[t] <= latest[t]
    BY <1>2, <1>6, <2>3, CommitReceived
  <2> QED
    BY <2>1, <2>4 DEF Bounded
<1> QED
  BY <1>3, <1>4, <1>5, <1>6, EveryMove, ShellMoveKinds

LEMMA OnlyInit == Init => Only
<1> SUFFICES ASSUME Init PROVE Only
  OBVIOUS
<1>1. tasks = [i \in {1} |-> NewTask(IF enabled THEN "init" ELSE "meta",
                                     IF enabled THEN "db" ELSE "list", NoEntries)]
  BY DEF Init
<1>2. enabled => \A i \in DOMAIN tasks : i = 1 /\ tasks[i].kind = "init"
  BY <1>1 DEF NewTask
<1> QED
  BY <1>2 DEF Only

LEMMA OnlyStep == Typed /\ Only /\ [Next]_vars => Only'
<1> SUFFICES ASSUME Typed, Only, [Next]_vars PROVE Only'
  OBVIOUS
<1>1. CASE UNCHANGED vars \/ SocketMove
  <2>1. UNCHANGED <<tasks, enabled, overlap>>
    BY <1>1, SocketMoveFrame DEF vars, promiseVars, historyVars
  <2> QED
    BY <2>1 DEF Only
<1>2. CASE TaskMove
  <2>1. enabled' = enabled
    BY <1>2, TaskMoveFrame
  <2>2. overlap' = "no" => overlap = "no"
    BY <1>2 DEF TaskMove, DbOpens, DbFails, TaskStep, FetchFails, ViewFails, CreateView,
         FetchList, FinishList, RetryInit, InitFails, RefreshStarts, FinishRefresh, historyVars
  <2>3. TasksGoOn
    BY <1>2, TaskMoveGoesOn
  <2> QED
    BY <2>1, <2>2, <2>3 DEF Only, TasksGoOn
<1>3. CASE ListStarts
  BY <1>3, ListStarted DEF Only
<1>4. ASSUME NEW c \in Sockets, Receive(c)
      PROVE  Only'
  <2> SUFFICES ASSUME enabled', overlap' = "no"
               PROVE  /\ \A i \in DOMAIN tasks' : tasks'[i].kind # "meta"
                      /\ \A i, j \in DOMAIN tasks' :
                           tasks'[i].kind # "refresh" =>
                             IF tasks'[j].kind = "refresh" THEN i \in tasks'[j].waits ELSE i = j
    BY DEF Only
  <2>1. /\ enabled /\ overlap = "no" /\ \A i \in DOMAIN tasks : tasks[i].kind # "manual"
    BY <1>4 DEF Receive
  <2>2. \A i \in DOMAIN tasks : tasks[i].kind # "refresh" => i \in ready
    <3>1. \A i \in DOMAIN tasks : tasks[i].kind # "meta" /\ tasks[i].kind # "manual"
      BY <2>1 DEF Only
    <3> QED
      BY <3>1 DEF Typed, TasksSound, Promises, Task
  <2>3. PICK id : id = NewId
    OBVIOUS
  <2>4. /\ id \notin DOMAIN tasks /\ DOMAIN tasks' = DOMAIN tasks \cup {id}
        /\ \A k \in DOMAIN tasks \ {id} : tasks'[k] = tasks[k]
        /\ tasks'[id].kind = "refresh" /\ tasks'[id].waits = ready \ {id}
    BY <1>4, <2>3, CommitReceived
  <2> QED
    BY <2>1, <2>2, <2>4 DEF Only
<1> QED
  BY <1>1, <1>2, <1>3, <1>4, EveryMove, ShellMoveKinds

-----------------------------------------------------------------------------
(* A connected tab follows the catalog.                                    *)

(* Task k still shows, or has failed to show, the latest commit of t.      *)
Latest(k, t) == t \in Left(tasks[k]) /\ tasks[k].entries[t] = latest[t]

Following == enabled /\ overlap = "no" /\ ~ Reconnecting

(* What task k will show of table t, if anything, is the latest commit, or *)
(* it is followed by a refresh that waits for k and shows that one.        *)
Chases(k, t) ==
  t \in Left(tasks[k]) =>
    Latest(k, t) \/ \E r \in DOMAIN tasks : k \in tasks[r].waits /\ Latest(r, t)

Chased ==
  Following =>
    \A t \in Tables :
      \/ InFlight(t)
      \/ \A k \in DOMAIN tasks : tasks[k].kind = "refresh" \/ ~ missed => Chases(k, t)

(* The latest commit of a table is under way, shown, told, or the work of  *)
(* a task.                                                                 *)
Handled(t) == \E i \in DOMAIN tasks : Full(tasks[i]) \/ Latest(i, t)

Caught ==
  Following /\ ~ missed =>
    \A t \in Tables : InFlight(t) \/ view[t] = latest[t] \/ Told(t) \/ Handled(t)

(* A list is due, or the ones that have come show the latest snapshots.    *)
ListDue == \E i \in DOMAIN tasks : tasks[i].kind # "refresh" /\ tasks[i].at # "views"

ListHas(i, t) ==
  latest[t] = IF t \in DOMAIN tasks[i].entries THEN tasks[i].entries[t] ELSE 0

ListsHave(t) ==
  /\ \A i \in DOMAIN tasks :
       tasks[i].kind # "refresh" /\ tasks[i].at = "views" => ListHas(i, t)
  /\ ~ Listing => listed[t] = latest[t]

ListFollows ==
  ~ outdated /\ ~ error /\ ~ missed /\ ~ Reconnecting =>
    \A t \in Tables : InFlight(t) \/ ListDue \/ ListsHave(t)

LEMMA FollowInit == Init => Chased /\ Caught /\ ListFollows
<1> SUFFICES ASSUME Init PROVE Chased /\ Caught /\ ListFollows
  OBVIOUS
<1>1. tasks = [i \in {1} |-> NewTask(IF enabled THEN "init" ELSE "meta",
                                     IF enabled THEN "db" ELSE "list", NoEntries)]
  BY DEF Init
<1>2. /\ DOMAIN tasks = {1} /\ Left(tasks[1]) = {}
      /\ tasks[1].kind # "refresh" /\ tasks[1].at # "views"
      /\ enabled => Full(tasks[1])
  BY <1>1 DEF NewTask, Left, NoEntries, Full
<1>3. Chased
  BY <1>2 DEF Chased, Chases
<1>4. Caught
  BY <1>2 DEF Caught, Following, Handled
<1>5. ListFollows
  BY <1>2 DEF ListFollows, ListDue
<1> QED
  BY <1>3, <1>4, <1>5

LEMMA ShellMoveSpawns ==
  ASSUME Typed, ShellMove
  PROVE  tasks' # tasks
<1>1. CASE ListStarts
  BY <1>1, ListStarted
<1>2. ASSUME NEW c \in Sockets, Receive(c)
      PROVE  tasks' # tasks
  <2>1. PICK id : id = NewId
    OBVIOUS
  <2>2. id \notin DOMAIN tasks /\ DOMAIN tasks' = DOMAIN tasks \cup {id}
    BY <1>2, <2>1, CommitReceived
  <2> QED
    BY <2>2
<1> QED
  BY <1>1, <1>2, ShellMoveKinds

(* Nothing that a connected tab should hear of is lost in this step.       *)
Heard == \A t \in Tables : InFlight(t)' \/ (~ InFlight(t) /\ latest'[t] = latest[t])

NoRefresh == \A i \in DOMAIN tasks : tasks[i].kind # "refresh"

(* What the network and the catalog do, while no reconnect is due: either  *)
(* nothing is lost, or the tab has not been connected yet.                 *)
LEMMA SocketsHear ==
  ASSUME Typed, Links, [Next]_vars, SocketMove \/ UNCHANGED vars, ~ Reconnecting'
  PROVE  /\ ~ Reconnecting
         /\ (missed' /\ NoRefresh) \/ (missed' = missed /\ Heard)
<1>1. ~ Reconnecting
  <2>1. tasks' = tasks
    BY SocketMoveFrame DEF vars, promiseVars
  <2>2. \A c \in Sockets : ~ Reopen(c)
    BY <2>1, ShellMoveSpawns DEF ShellMove
  <2> QED
    BY <2>2, ReconnectStays
<1>2. CASE UNCHANGED <<wire, latest, missed>>
  <2>1. \A t : InFlight(t) => InFlight(t)'
    BY <1>2 DEF InFlight
  <2> QED
    BY <1>1, <1>2, <2>1 DEF Heard
<1>3. ASSUME NEW t \in Tables, Commit(t)
      PROVE  (missed' /\ NoRefresh) \/ (missed' = missed /\ Heard)
  <2>1. missed' = (missed \/ ~ before) /\ missed \in BOOLEAN
    BY <1>3 DEF Commit, Typed, Switches
  <2>2. CASE before
    <3>1. Subscribed # {}
      BY <1>1, <2>2 DEF Links, Alive, Reconnecting
    <3>2. missed' = missed
      BY <2>1, <2>2, Zenon
    <3> QED
      BY <1>3, <3>1, <3>2, CommitLinks DEF Links, Heard
  <2>3. CASE ~ before
    BY <2>1, <2>3 DEF Links, Unopened, NoRefresh
  <2> QED
    BY <2>2, <2>3
<1>4. ASSUME NEW c \in Sockets, Lose(c)
      PROVE  UNCHANGED <<wire, latest, missed>>
  BY <1>4, LoseLinks DEF Lose, Links, historyVars
<1>5. CASE ConnectFails
  BY <1>5 DEF ConnectFails, Reconnecting
<1>6. CASE TimerFires \/ BecomeVisible \/ UNCHANGED vars
  BY <1>2, <1>6 DEF TimerFires, BecomeVisible, vars, socketVars, historyVars
<1>7. ASSUME NEW c \in Sockets, OpenSocket(c) \/ FirstOpen(c) \/ OnClose(c)
      PROVE  UNCHANGED <<wire, latest, missed>>
  BY <1>7 DEF OpenSocket, FirstOpen, OnClose, historyVars
<1> QED
  BY <1>1, <1>2, <1>3, <1>4, <1>5, <1>6, <1>7 DEF SocketMove

LEMMA SocketsFollow ==
  ASSUME Typed, Links, [Next]_vars, SocketMove \/ UNCHANGED vars,
         Chased, Caught, ListFollows
  PROVE  Chased' /\ Caught' /\ ListFollows'
<1>1. UNCHANGED <<tasks, view, listed, failed, error, enabled, overlap, outdated>>
  BY SocketMoveFrame DEF vars, promiseVars, shellVars, historyVars
<1>2. CASE Reconnecting'
  BY <1>2 DEF Chased, Caught, ListFollows, Following
<1>3. CASE missed' /\ NoRefresh
  BY <1>1, <1>3 DEF Chased, Caught, ListFollows, NoRefresh
<1>4. CASE ~ Reconnecting' /\ ~ Reconnecting /\ missed' = missed /\ Heard
  <2>1. \A t \in Tables : latest'[t] = latest[t] =>
          /\ \A k : Latest(k, t)' = Latest(k, t)
          /\ \A k : ListHas(k, t)' = ListHas(k, t)
    BY <1>1 DEF Latest, Left, ListHas
  <2>2. \A t \in Tables : latest'[t] = latest[t] =>
          /\ \A k : Chases(k, t) => Chases(k, t)'
          /\ Handled(t) => Handled(t)'
          /\ ListsHave(t) => ListsHave(t)'
    BY <1>1, <2>1 DEF Chases, Left, Handled, Full, ListsHave, Listing
  <2>3. Chased'
    BY <1>1, <1>4, <2>2 DEF Chased, Following, Heard
  <2>4. Caught'
    BY <1>1, <1>4, <2>2 DEF Caught, Following, Told, Heard
  <2>5. ListFollows'
    BY <1>1, <1>4, <2>2 DEF ListFollows, ListDue, Heard
  <2> QED
    BY <2>3, <2>4, <2>5
<1> QED
  BY <1>2, <1>3, <1>4, SocketsHear

(* A list that starts alone takes care of everything.                      *)
LEMMA StartFollows ==
  ASSUME Typed, ListStarts
  PROVE  Chased' /\ Caught' /\ ListFollows'
<1>1. PICK i \in DOMAIN tasks' :
        /\ DOMAIN tasks' = DOMAIN tasks \cup {i}
        /\ tasks'[i].kind # "refresh" /\ Left(tasks'[i]) = {}
        /\ tasks'[i].at # "views"
        /\ enabled' => /\ tasks'[i].kind \in {"init", "resync", "manual"}
                       /\ overlap' = "no" => DOMAIN tasks = {}
  BY ListStarted
<1>2. Chased'
  <2>1. \A k \in DOMAIN tasks' : Following' => k = i
    BY <1>1 DEF Following
  <2> QED
    BY <1>1, <2>1 DEF Chased, Chases
<1>3. Caught'
  BY <1>1 DEF Caught, Following, Handled, Full
<1>4. ListFollows'
  BY <1>1 DEF ListFollows, ListDue
<1> QED
  BY <1>2, <1>3, <1>4

(* A message that arrives is the latest commit of its table, or another is *)
(* under way; its refresh waits for all that could show an older one.      *)
LEMMA ReceiveFollows ==
  ASSUME Typed, Links, Chased, Caught, ListFollows, NEW c \in Sockets, Receive(c)
  PROVE  Chased' /\ Caught' /\ ListFollows'
<1>1. PICK id, t, v : id = NewId /\ t = Head(wire[c]).table /\ v = Head(wire[c]).snapshot
  OBVIOUS
<1>2. /\ t \in Tables /\ id \notin DOMAIN tasks /\ DOMAIN tasks' = DOMAIN tasks \cup {id}
      /\ \A k \in DOMAIN tasks : tasks'[k] = tasks[k]
      /\ tasks'[id].kind = "refresh" /\ tasks'[id].waits = ready
      /\ Left(tasks'[id]) = {t} /\ tasks'[id].entries[t] = v
  <2>1. ready \subseteq DOMAIN tasks
    BY DEF Typed, Promises
  <2> QED
    BY ZenonT(30), <1>1, <2>1, CommitReceived DEF Messages
<1>3. /\ listed' = [listed EXCEPT ![t] = v] /\ failed' = failed \ {t}
      /\ UNCHANGED <<latest, view, error, enabled, missed>>
      /\ overlap' = "no" => /\ overlap = "no"
                            /\ \A i \in DOMAIN tasks : tasks[i].kind # "manual"
      /\ ~ outdated' => ~ outdated /\ ~ Listing
  BY <1>1 DEF Receive, ListSnapshot
<1>4. Reconnecting' = Reconnecting
  BY DEF Receive, Reconnecting, Connecting
<1>5. /\ \A u \in Tables \ {t} : InFlight(u) => InFlight(u)'
      /\ ~ InFlight(t)' => v = latest[t]
  BY <1>1, <1>2, ReceiveLinks DEF Links
<1>6. \A k \in DOMAIN tasks, u \in Tables : Latest(k, u) => Latest(k, u)'
  BY <1>2, <1>3 DEF Latest
<1>7. ~ InFlight(t)' => Latest(id, t)'
  BY <1>2, <1>3, <1>5 DEF Latest
<1>8. Chased'
  <2> SUFFICES ASSUME Following', NEW u \in Tables, ~ InFlight(u)', NEW k \in DOMAIN tasks',
                      tasks'[k].kind = "refresh" \/ ~ missed', u \in Left(tasks'[k])
               PROVE  \/ Latest(k, u)'
                      \/ \E r \in DOMAIN tasks' : k \in tasks'[r].waits /\ Latest(r, u)'
    BY DEF Chased, Chases
  <2>1. Following /\ \A i \in DOMAIN tasks : tasks[i].kind # "manual"
    BY <1>3, <1>4 DEF Following
  <2>2. CASE k = id
    BY <1>2, <1>7, <2>2
  <2>3. CASE k # id /\ u = t
    <3>1. k \in DOMAIN tasks /\ Left(tasks[k]) # {} /\ tasks[k] \in Task /\ Sound(tasks[k])
      BY <1>2, <2>3 DEF Typed, TasksSound
    <3>2. tasks[k].kind \in {"init", "resync", "refresh"}
      BY <2>1, <3>1 DEF Task, Sound
    <3>3. k \in ready
      BY <3>1, <3>2 DEF Typed, Promises
    <3> QED
      BY <1>2, <1>7, <2>3, <3>3
  <2>4. CASE k # id /\ u # t
    <3>1. k \in DOMAIN tasks /\ tasks'[k] = tasks[k] /\ ~ InFlight(u)
      BY <1>2, <1>5, <2>4
    <3>2. Chases(k, u) /\ u \in Left(tasks[k])
      BY <1>3, <2>1, <3>1 DEF Chased
    <3> QED
      BY <1>2, <1>6, <3>1, <3>2 DEF Chases
  <2> QED
    BY <2>2, <2>3, <2>4
<1>9. Caught'
  <2> SUFFICES ASSUME Following', ~ missed', NEW u \in Tables, ~ InFlight(u)'
               PROVE  view'[u] = latest'[u] \/ Told(u)' \/ Handled(u)'
    BY DEF Caught
  <2>1. CASE u = t
    BY <1>2, <1>7, <2>1 DEF Handled
  <2>2. CASE u # t
    <3>1. view[u] = latest[u] \/ Told(u) \/ Handled(u)
      BY <1>3, <1>4, <1>5, <2>2 DEF Caught, Following
    <3>2. Handled(u) => Handled(u)'
      BY <1>2, <1>6 DEF Handled
    <3> QED
      BY <1>3, <2>2, <3>1, <3>2 DEF Told
  <2> QED
    BY <2>1, <2>2
<1>10. ListFollows'
  <2> SUFFICES ASSUME ~ outdated', ~ error', ~ missed', ~ Reconnecting', ~ ListDue',
                      NEW u \in Tables, ~ InFlight(u)'
               PROVE  ListsHave(u)'
    BY DEF ListFollows
  <2>1. ~ ListDue
    BY <1>2 DEF ListDue
  <2>2. \A i \in DOMAIN tasks' : tasks'[i].kind = "refresh" \/ tasks'[i].at # "views"
    BY <1>2, <1>3 DEF Listing
  <2>3. listed'[u] = latest'[u]
    <3>1. CASE u = t
      BY <1>2, <1>3, <1>5, <3>1 DEF Typed, Display
    <3>2. CASE u # t
      <4>1. ~ InFlight(u) /\ ~ Listing
        BY <1>3, <1>5, <3>2
      <4>2. listed[u] = latest[u]
        BY <1>3, <1>4, <2>1, <4>1 DEF ListFollows, ListsHave
      <4> QED
        BY <1>3, <3>2, <4>2 DEF Typed, Display
    <3> QED
      BY <3>1, <3>2
  <2> QED
    BY <2>2, <2>3 DEF ListsHave
<1> QED
  BY <1>8, <1>9, <1>10

-----------------------------------------------------------------------------
(* The tasks of a connected tab by themselves.                             *)

LEMMA TaskMoveHears ==
  ASSUME TaskMove
  PROVE  /\ UNCHANGED <<latest, enabled>> /\ (Reconnecting' <=> Reconnecting)
         /\ \A t : InFlight(t)' <=> InFlight(t)
<1>1. UNCHANGED <<latest, enabled, conn, dead, wire, timer, connects, before, gaveUp>>
  BY TaskMoveFrame
<1> QED
  BY <1>1 DEF Reconnecting, Connecting, InFlight

(* Only a list that comes makes up for what was missed.                    *)
LEMMA TaskMoveHistory ==
  ASSUME TaskMove
  PROVE  /\ overlap' = "no" => overlap = "no"
         /\ missed' = missed \/ (~ missed' /\ \E i \in DOMAIN tasks : FetchList(i))
BY DEF TaskMove, DbOpens, DbFails, TaskStep, FetchFails, ViewFails, CreateView,
   FetchList, FinishList, RetryInit, InitFails, RefreshStarts, FinishRefresh, historyVars

LEMMA TaskMoveChased ==
  ASSUME Typed, Only, Chased, TaskMove
  PROVE  Chased'
<1> SUFFICES ASSUME Following', NEW t \in Tables, ~ InFlight(t)', NEW k \in DOMAIN tasks',
                    tasks'[k].kind = "refresh" \/ ~ missed', t \in Left(tasks'[k])
             PROVE  \/ Latest(k, t)'
                    \/ \E r \in DOMAIN tasks' : k \in tasks'[r].waits /\ Latest(r, t)'
  BY DEF Chased, Chases
<1>1. Following /\ ~ InFlight(t) /\ latest' = latest
  BY TaskMoveHears, TaskMoveHistory DEF Following
<1>2. TasksGoOn
  BY TaskMoveGoesOn
<1>3. k \in DOMAIN tasks /\ tasks'[k].kind = tasks[k].kind
  BY <1>2 DEF TasksGoOn
<1>4. CASE FetchList(k)
  BY <1>1, <1>3, <1>4, ListFetched DEF Latest
<1>5. CASE t \in Left(tasks[k]) /\ tasks'[k].entries[t] = tasks[k].entries[t]
  <2>1. CASE tasks[k].kind = "refresh" \/ ~ missed
    <3>1. Chases(k, t)
      BY <1>1, <1>3, <2>1 DEF Chased
    <3>2. CASE Latest(k, t)
      BY <1>1, <1>5, <3>2 DEF Latest
    <3>3. ASSUME NEW r \in DOMAIN tasks, k \in tasks[r].waits, Latest(r, t)
          PROVE  r \in DOMAIN tasks' /\ k \in tasks'[r].waits /\ Latest(r, t)'
      <4>1. /\ r \in DOMAIN tasks' /\ Left(tasks'[r]) = Left(tasks[r])
            /\ tasks'[r].entries = tasks[r].entries
            /\ tasks[r].waits \cap DOMAIN tasks' \subseteq tasks'[r].waits
        BY <1>2, <3>3 DEF TasksGoOn
      <4> QED
        BY <1>1, <3>3, <4>1 DEF Latest
    <3> QED
      BY <1>5, <3>1, <3>2, <3>3 DEF Chases
  <2>2. CASE tasks[k].kind # "refresh" /\ missed
    <3>1. PICK i \in DOMAIN tasks : FetchList(i)
      BY <1>3, <2>2, TaskMoveHistory
    <3>2. tasks[i].kind # "refresh"
      BY <3>1, ListFetched
    <3>3. i = k
      BY <1>1, <1>3, <2>2, <3>2 DEF Only, Following
    <3> QED
      BY <1>4, <3>1, <3>3
  <2> QED
    BY <2>1, <2>2
<1> QED
  BY <1>2, <1>4, <1>5 DEF TasksGoOn

(* Caught holds on when every table that was shown, told or the work of a  *)
(* task is so afterwards.                                                  *)
LEMMA CaughtKept ==
  ASSUME Caught, TaskMove, missed' = missed,
         \A t \in Tables : Following' /\ ~ missed' /\ ~ InFlight(t) =>
           /\ view[t] = latest[t] => view'[t] = latest[t] \/ Handled(t)'
           /\ Told(t) => Told(t)'
           /\ \A k \in DOMAIN tasks : Full(tasks[k]) \/ Latest(k, t) =>
                view'[t] = latest[t] \/ Told(t)' \/ Handled(t)'
  PROVE  Caught'
<1> SUFFICES ASSUME Following', ~ missed', NEW t \in Tables, ~ InFlight(t)'
             PROVE  view'[t] = latest'[t] \/ Told(t)' \/ Handled(t)'
  BY DEF Caught
<1>1. Following /\ ~ missed /\ ~ InFlight(t) /\ latest' = latest
  BY TaskMoveHears, TaskMoveHistory DEF Following
<1>2. view[t] = latest[t] \/ Told(t) \/ Handled(t)
  BY <1>1 DEF Caught
<1> QED
  BY <1>1, <1>2 DEF Handled

LEMMA SameWorkCaught ==
  ASSUME Caught, TaskMove, UNCHANGED <<view, failed, error, missed>>,
         DOMAIN tasks' = DOMAIN tasks,
         \A i \in DOMAIN tasks : SameWork(tasks[i], tasks'[i])
  PROVE  Caught'
<1>1. latest' = latest
  BY TaskMoveFrame
<1>2. \A i \in DOMAIN tasks, t \in Tables :
        Full(tasks[i]) \/ Latest(i, t) => Handled(t)'
  <2> SUFFICES ASSUME NEW i \in DOMAIN tasks, NEW t \in Tables, Full(tasks[i]) \/ Latest(i, t)
               PROVE  Handled(t)'
    OBVIOUS
  <2>1. CASE Full(tasks[i])
    BY <2>1 DEF Full, SameWork, Handled
  <2>2. CASE Latest(i, t)
    BY <1>1, <2>2 DEF Latest, Left, SameWork, Handled
  <2> QED
    BY <2>1, <2>2
<1> QED
  BY <1>2, CaughtKept DEF Told

LEMMA FetchListCaught ==
  ASSUME Typed, Bounded, Only, NEW i \in DOMAIN tasks, FetchList(i)
  PROVE  Caught'
<1>1. /\ DOMAIN tasks' = DOMAIN tasks
      /\ tasks[i].kind # "refresh"
      /\ \A t \in Left(tasks'[i]) : tasks'[i].entries[t] = latest[t]
      /\ tasks[i].kind # "meta" =>
           \A t \in Tables : latest[t] > 0 => t \in Left(tasks'[i])
  BY ListFetched
<1>2. UNCHANGED <<latest, view, enabled, overlap>>
  BY DEF FetchList, shellVars
<1> SUFFICES ASSUME Following', NEW t \in Tables
             PROVE  view'[t] = latest'[t] \/ Handled(t)'
  BY DEF Caught
<1>3. tasks[i].kind # "meta"
  BY <1>2 DEF Only, Following
<1>4. CASE latest[t] > 0
  BY <1>1, <1>2, <1>3, <1>4 DEF Handled, Latest
<1>5. CASE ~ (latest[t] > 0)
  <2>1. latest[t] \in Nat /\ view[t] \in Nat /\ view[t] <= latest[t]
    BY DEF Typed, Connection, Display, Bounded
  <2> QED
    BY <1>2, <1>5, <2>1
<1> QED
  BY <1>4, <1>5

LEMMA CreateViewCaught ==
  ASSUME Typed, Chased, Caught, NEW i \in DOMAIN tasks, NEW t \in Tables, CreateView(i, t)
  PROVE  Caught'
<1>1. TaskMove
  BY DEF TaskMove, TaskStep
<1>2. /\ UNCHANGED <<failed, error, missed>> /\ latest' = latest
      /\ view'[t] = tasks[i].entries[t]
      /\ \A u \in Tables \ {t} : view'[u] = view[u]
  BY DEF CreateView, historyVars, Typed, Display
<1>3. /\ DOMAIN tasks' = DOMAIN tasks
      /\ \A k \in DOMAIN tasks \ {i} : tasks'[k] = tasks[k]
      /\ tasks[i].at = "views" /\ t \in Left(tasks[i]) /\ tasks[i].waits = {}
      /\ tasks'[i].entries = tasks[i].entries
      /\ Left(tasks[i]) \ {t} \subseteq Left(tasks'[i])
  BY ViewCreated
<1>4. \A k \in DOMAIN tasks \ {i} : \A u \in Tables :
        Full(tasks[k]) \/ Latest(k, u) => Handled(u)'
  BY <1>2, <1>3 DEF Handled, Latest
<1>5. ~ Full(tasks[i])
  BY <1>3 DEF Full
<1>6. \A u \in Tables \ {t} : Latest(i, u) => Handled(u)'
  BY <1>2, <1>3 DEF Handled, Latest
<1>7. Following' /\ ~ missed' /\ ~ InFlight(t) => view'[t] = latest[t] \/ Handled(t)'
  <2> SUFFICES ASSUME Following', ~ missed', ~ InFlight(t)
               PROVE  view'[t] = latest[t] \/ Handled(t)'
    OBVIOUS
  <2>1. Following /\ ~ missed
    BY <1>1, <1>2, TaskMoveHears, TaskMoveHistory DEF Following
  <2>2. Latest(i, t) \/ \E r \in DOMAIN tasks : i \in tasks[r].waits /\ Latest(r, t)
    BY <1>3, <2>1 DEF Chased, Chases
  <2>3. CASE Latest(i, t)
    BY <1>2, <2>3 DEF Latest
  <2>4. ASSUME NEW r \in DOMAIN tasks, i \in tasks[r].waits, Latest(r, t)
        PROVE  Handled(t)'
    <3>1. r # i
      BY <1>3, <2>4
    <3> QED
      BY <1>4, <2>4, <3>1
  <2> QED
    BY <2>2, <2>3, <2>4
<1> QED
  BY <1>1, <1>2, <1>4, <1>5, <1>6, <1>7, CaughtKept DEF Told

LEMMA ViewFailsCaught ==
  ASSUME Typed, Caught, NEW i \in DOMAIN tasks, NEW t \in Tables, ViewFails(i, t)
  PROVE  Caught'
<1>1. TaskMove
  BY DEF TaskMove
<1>2. UNCHANGED <<view, failed, error, missed, latest>>
  BY DEF ViewFails, historyVars, shellVars
<1>3. /\ DOMAIN tasks' = DOMAIN tasks
      /\ \A k \in DOMAIN tasks \ {i} : tasks'[k] = tasks[k]
      /\ tasks[i].at = "views"
      /\ tasks'[i].entries = tasks[i].entries
      /\ Left(tasks'[i]) = Left(tasks[i])
  BY ViewFailed
<1>4. \A k \in DOMAIN tasks, u \in Tables : Full(tasks[k]) \/ Latest(k, u) => Handled(u)'
  BY <1>2, <1>3 DEF Handled, Latest, Full
<1> QED
  BY <1>1, <1>2, <1>4, CaughtKept DEF Told

LEMMA RetryInitCaught ==
  ASSUME Typed, NEW i \in DOMAIN tasks, RetryInit(i)
  PROVE  Caught'
<1>1. i \in DOMAIN tasks' /\ Full(tasks'[i])
  BY InitRetried DEF Full
<1> QED
  BY <1>1 DEF Caught, Handled

(* A task that ends leaves the work of the others.                         *)
LEMMA EndsHandled ==
  ASSUME Typed, NEW i \in DOMAIN tasks, End(i), latest' = latest
  PROVE  /\ DOMAIN tasks' = DOMAIN tasks \ {i}
         /\ \A k \in DOMAIN tasks' : /\ tasks'[k].kind = tasks[k].kind
                                    /\ tasks'[k].at = tasks[k].at
                                    /\ tasks'[k].entries = tasks[k].entries
         /\ \A k \in DOMAIN tasks', u \in Tables :
              Full(tasks[k]) \/ Latest(k, u) => Handled(u)'
<1>1. TasksSound /\ Promises
  BY DEF Typed
<1>2. /\ DOMAIN tasks' = DOMAIN tasks \ {i}
      /\ \A k \in DOMAIN tasks' : tasks'[k] = Without(tasks[k], i)
  BY <1>1, Ended
<1>3. \A k \in DOMAIN tasks' :
        /\ tasks'[k].kind = tasks[k].kind /\ tasks'[k].at = tasks[k].at
        /\ tasks'[k].entries = tasks[k].entries /\ Left(tasks'[k]) = Left(tasks[k])
  BY <1>1, <1>2, WithoutSound DEF TasksSound, Left
<1>4. \A k \in DOMAIN tasks', u \in Tables :
        Full(tasks[k]) \/ Latest(k, u) => Handled(u)'
  BY <1>3 DEF Handled, Latest, Full
<1> QED
  BY <1>2, <1>3, <1>4

LEMMA FinishListCaught ==
  ASSUME Typed, Caught, NEW i \in DOMAIN tasks, FinishList(i)
  PROVE  Caught'
<1>1. TaskMove
  BY DEF TaskMove, TaskStep
<1>2. /\ End(i) /\ UNCHANGED <<latest, view, error, missed>>
      /\ tasks[i].at = "views" /\ tasks[i].todo = {}
      /\ failed' = IF tasks[i].bad = {} THEN failed ELSE tasks[i].bad
      /\ overlap' = "no" => failed \subseteq failed'
  BY DEF FinishList, Done
<1>3. /\ DOMAIN tasks' = DOMAIN tasks \ {i}
      /\ \A k \in DOMAIN tasks', u \in Tables :
           Full(tasks[k]) \/ Latest(k, u) => Handled(u)'
  BY <1>2, EndsHandled
<1>4. \A u \in Tables : Full(tasks[i]) \/ Latest(i, u) => Told(u)'
  <2>1. \A u : Latest(i, u) => u \in tasks[i].bad
    BY <1>2 DEF Latest, Left
  <2> QED
    BY <1>2, <2>1 DEF Full, Told
<1>5. \A u \in Tables : Following' /\ Told(u) => Told(u)'
  BY <1>2 DEF Following, Told
<1> QED
  BY <1>1, <1>2, <1>3, <1>4, <1>5, CaughtKept

LEMMA FinishRefreshCaught ==
  ASSUME Typed, Caught, NEW i \in DOMAIN tasks, FinishRefresh(i)
  PROVE  Caught'
<1>1. TaskMove
  BY DEF TaskMove, TaskStep
<1>2. /\ End(i) /\ UNCHANGED <<latest, view, error, missed, enabled>>
      /\ tasks[i].kind = "refresh"
      /\ tasks[i].at = "rejected" \/ (tasks[i].at = "views" /\ tasks[i].todo = {})
      /\ failed' = IF (tasks[i].at = "rejected" \/ tasks[i].bad # {}) /\ enabled
                   THEN failed \cup DOMAIN tasks[i].entries ELSE failed
  BY DEF FinishRefresh, Done, historyVars
<1>3. /\ DOMAIN tasks' = DOMAIN tasks \ {i}
      /\ \A k \in DOMAIN tasks', u \in Tables :
           Full(tasks[k]) \/ Latest(k, u) => Handled(u)'
  BY <1>2, EndsHandled
<1>4. \A u \in Tables : Following' /\ (Full(tasks[i]) \/ Latest(i, u)) => Told(u)'
  <2> SUFFICES ASSUME NEW u \in Tables, Following', Full(tasks[i]) \/ Latest(i, u)
               PROVE  Told(u)'
    OBVIOUS
  <2>1. u \in Left(tasks[i])
    BY <1>2 DEF Full, Latest
  <2>2. tasks[i].at = "rejected" \/ tasks[i].bad # {}
    BY <1>2, <2>1 DEF Left
  <2>3. Left(tasks[i]) \subseteq DOMAIN tasks[i].entries
    BY DEF Typed, TasksSound, Sound
  <2> QED
    BY <1>2, <2>1, <2>2, <2>3 DEF Following, Told
<1>5. \A u \in Tables : Told(u) => Told(u)'
  BY <1>2 DEF Told
<1> QED
  BY <1>1, <1>2, <1>3, <1>4, <1>5, CaughtKept

LEMMA TaskMoveCaught ==
  ASSUME Typed, Bounded, Only, Chased, Caught, TaskMove
  PROVE  Caught'
<1>1. CASE DbOpens \/ DbFails
  <2>1. UNCHANGED <<view, failed, error, missed, refreshing, ready>>
    BY <1>1 DEF DbOpens, DbFails, shellVars, historyVars
  <2>2. AllAt("list", "views") \/ AllAt("rejected", "rejected")
    <3>1. \A k : (IF k = "refresh" THEN "rejected" ELSE "rejected") = "rejected"
      OBVIOUS
    <3> QED
      BY <1>1, <3>1 DEF DbOpens, DbFails, AllAt
  <2>3. TasksSound /\ Promises
    BY DEF Typed
  <2> QED
    BY <2>1, <2>2, <2>3, AllMoved, SameWorkCaught
<1>2. ASSUME NEW i \in DOMAIN tasks, FetchFails(i) \/ RefreshStarts(i)
      PROVE  Caught'
  <2>1. UNCHANGED <<view, failed, error, missed>>
    BY <1>2 DEF FetchFails, RefreshStarts, shellVars, historyVars
  <2>2. /\ DOMAIN tasks' = DOMAIN tasks
        /\ \A k \in DOMAIN tasks \ {i} : tasks'[k] = tasks[k]
        /\ SameWork(tasks[i], tasks'[i])
    BY <1>2, FetchFailed, RefreshStarted
  <2>3. \A k \in DOMAIN tasks : SameWork(tasks[k], tasks'[k])
    BY <2>2 DEF SameWork
  <2> QED
    BY <2>1, <2>2, <2>3, SameWorkCaught
<1>3. ASSUME NEW i \in DOMAIN tasks, InitFails(i)
      PROVE  Caught'
  BY <1>3 DEF InitFails, Caught, Told
<1>4. ASSUME NEW i \in DOMAIN tasks,
             FetchList(i) \/ RetryInit(i) \/ FinishList(i) \/ FinishRefresh(i)
      PROVE  Caught'
  BY <1>4, FetchListCaught, RetryInitCaught, FinishListCaught, FinishRefreshCaught
<1>5. ASSUME NEW i \in DOMAIN tasks, NEW t \in Tables, CreateView(i, t) \/ ViewFails(i, t)
      PROVE  Caught'
  BY <1>5, CreateViewCaught, ViewFailsCaught
<1> QED
  BY <1>1, <1>2, <1>3, <1>4, <1>5 DEF TaskMove, TaskStep

(* Lists that neither come nor are displayed leave what they have.         *)
SameLists ==
  /\ \A k \in DOMAIN tasks : tasks[k].kind # "refresh" =>
       /\ k \in DOMAIN tasks' /\ tasks'[k].kind # "refresh"
       /\ tasks'[k].at = "views" <=> tasks[k].at = "views"
       /\ tasks[k].at = "views" => tasks'[k].entries = tasks[k].entries
  /\ \A k \in DOMAIN tasks' : tasks'[k].kind # "refresh" =>
       k \in DOMAIN tasks /\ tasks[k].kind # "refresh"

LEMMA SameListsFollow ==
  ASSUME ListFollows, TaskMove, SameLists, UNCHANGED <<listed, outdated, error, missed>>
  PROVE  ListFollows'
<1> SUFFICES ASSUME ~ outdated', ~ error', ~ missed', ~ Reconnecting', NEW t \in Tables,
                    ~ InFlight(t)', ~ ListDue'
             PROVE  ListsHave(t)'
  BY DEF ListFollows
<1>1. latest' = latest /\ ~ Reconnecting /\ ~ InFlight(t)
  BY TaskMoveHears
<1>2. ~ ListDue
  BY DEF SameLists, ListDue
<1>3. ListsHave(t)
  BY <1>1, <1>2 DEF ListFollows
<1>4. Listing' <=> Listing
  BY DEF SameLists, Listing
<1>5. \A i \in DOMAIN tasks' :
        tasks'[i].kind # "refresh" /\ tasks'[i].at = "views" => ListHas(i, t)'
  BY <1>1, <1>3 DEF SameLists, ListsHave, ListHas
<1> QED
  BY <1>1, <1>3, <1>4, <1>5 DEF ListsHave

LEMMA FetchListFollows ==
  ASSUME Typed, NEW i \in DOMAIN tasks, FetchList(i)
  PROVE  ListFollows'
<1> DEFINE D == {t \in Tables : latest[t] > 0}
           entries == Restrict(latest, D)
           todo == IF tasks[i].kind = "meta" THEN {} ELSE DOMAIN entries
           new == [tasks[i] EXCEPT !.at = "views", !.entries = entries, !.todo = todo]
<1>1. /\ DOMAIN tasks' = DOMAIN tasks
      /\ \A k \in DOMAIN tasks \ {i} : tasks'[k] = tasks[k]
      /\ tasks[i].kind # "refresh" /\ tasks'[i].kind # "refresh"
  BY ListFetched
<1>2. tasks' = Spawn(tasks, i, new) /\ outdated' = Listing /\ latest' = latest
  BY DEF FetchList, Continue
<1>3. tasks'[i] = new
  BY <1>2, Zenon DEF Spawn
<1>4. new.at = "views" /\ new.entries = entries
  BY DEF Typed, TasksSound, Task
<1>5. DOMAIN entries = D /\ \A t \in D : entries[t] = latest[t]
  BY DEF Restrict
<1>6. \A t \in Tables : latest[t] \in Nat
  BY DEF Typed, Connection
<1> HIDE DEF new, entries
<1>7. \A t \in Tables : ListHas(i, t)'
  BY <1>2, <1>3, <1>4, <1>5, <1>6 DEF ListHas
<1>8. Listing'
  BY <1>1, <1>3, <1>4 DEF Listing
<1> SUFFICES ASSUME ~ outdated', NEW t \in Tables, ~ ListDue'
             PROVE  ListsHave(t)'
  BY DEF ListFollows
<1>9. \A k \in DOMAIN tasks' :
        tasks'[k].kind # "refresh" /\ tasks'[k].at = "views" => k = i
  BY <1>1, <1>2 DEF Listing
<1> QED
  BY <1>7, <1>8, <1>9 DEF ListsHave

LEMMA FinishListFollows ==
  ASSUME Typed, ListFollows, NEW i \in DOMAIN tasks, FinishList(i)
  PROVE  ListFollows'
<1>1. /\ End(i) /\ UNCHANGED <<latest, error, missed, outdated>>
      /\ tasks[i].kind # "refresh" /\ tasks[i].at = "views"
      /\ \A t \in Tables : listed'[t] = IF t \in DOMAIN tasks[i].entries
                                        THEN tasks[i].entries[t] ELSE 0
  BY DEF FinishList, Done
<1>2. /\ DOMAIN tasks' = DOMAIN tasks \ {i}
      /\ \A k \in DOMAIN tasks' : /\ tasks'[k].kind = tasks[k].kind
                                 /\ tasks'[k].at = tasks[k].at
                                 /\ tasks'[k].entries = tasks[k].entries
  BY <1>1, EndsHandled
<1> SUFFICES ASSUME ~ outdated', ~ error', ~ missed', ~ Reconnecting', NEW t \in Tables,
                    ~ InFlight(t)', ~ ListDue'
             PROVE  ListsHave(t)'
  BY DEF ListFollows
<1>3. TaskMove
  BY DEF TaskMove, TaskStep
<1>4. ~ Reconnecting /\ ~ InFlight(t)
  BY <1>3, TaskMoveHears
<1>5. ~ ListDue
  BY <1>1, <1>2 DEF ListDue
<1>6. ListsHave(t)
  BY <1>1, <1>4, <1>5 DEF ListFollows
<1>7. listed'[t] = latest'[t]
  BY <1>1, <1>6 DEF ListsHave, ListHas
<1>8. \A k \in DOMAIN tasks' :
        tasks'[k].kind # "refresh" /\ tasks'[k].at = "views" => ListHas(k, t)'
  BY <1>1, <1>2, <1>6 DEF ListsHave, ListHas
<1> QED
  BY <1>7, <1>8 DEF ListsHave

LEMMA TaskMoveLists ==
  ASSUME Typed, ListFollows, TaskMove
  PROVE  ListFollows'
<1>1. CASE DbOpens \/ DbFails
  <2>1. UNCHANGED <<listed, outdated, error, missed, refreshing, ready>>
    BY <1>1 DEF DbOpens, DbFails, shellVars, historyVars
  <2>2. AllAt("list", "views") \/ AllAt("rejected", "rejected")
    <3>1. \A k : (IF k = "refresh" THEN "rejected" ELSE "rejected") = "rejected"
      OBVIOUS
    <3> QED
      BY <1>1, <3>1 DEF DbOpens, DbFails, AllAt
  <2>3. TasksSound /\ Promises
    BY DEF Typed
  <2>4. DOMAIN tasks' = DOMAIN tasks /\ \A i \in DOMAIN tasks : SameWork(tasks[i], tasks'[i])
    BY <2>1, <2>2, <2>3, AllMoved
  <2>5. SameLists
    BY <2>4 DEF SameWork, SameLists
  <2> QED
    BY <2>1, <2>5, SameListsFollow
<1>2. ASSUME NEW i \in DOMAIN tasks, FetchFails(i) \/ RefreshStarts(i)
      PROVE  ListFollows'
  <2>1. UNCHANGED <<listed, outdated, error, missed>>
    BY <1>2 DEF FetchFails, RefreshStarts, shellVars, historyVars
  <2>2. /\ DOMAIN tasks' = DOMAIN tasks
        /\ \A k \in DOMAIN tasks \ {i} : tasks'[k] = tasks[k]
        /\ SameWork(tasks[i], tasks'[i])
    BY <1>2, FetchFailed, RefreshStarted
  <2>3. SameLists
    BY <2>2 DEF SameWork, SameLists
  <2> QED
    BY <2>1, <2>3, SameListsFollow
<1>3. ASSUME NEW i \in DOMAIN tasks, NEW t \in Tables, CreateView(i, t) \/ ViewFails(i, t)
      PROVE  ListFollows'
  <2>1. UNCHANGED <<listed, outdated, error, missed>>
    BY <1>3 DEF CreateView, ViewFails, shellVars, historyVars
  <2>2. /\ DOMAIN tasks' = DOMAIN tasks
        /\ \A k \in DOMAIN tasks \ {i} : tasks'[k] = tasks[k]
        /\ tasks[i].at = "views" /\ tasks'[i].at = "views"
        /\ tasks'[i].kind = tasks[i].kind
        /\ tasks'[i].entries = tasks[i].entries
    BY <1>3, ViewCreated, ViewFailed
  <2>3. SameLists
    BY <2>2 DEF SameLists
  <2> QED
    BY <2>1, <2>3, SameListsFollow
<1>4. ASSUME NEW i \in DOMAIN tasks, FinishRefresh(i)
      PROVE  ListFollows'
  <2>1. /\ UNCHANGED <<listed, outdated, error, missed, latest>> /\ End(i)
        /\ tasks[i].kind = "refresh"
    BY <1>4 DEF FinishRefresh, shellVars, historyVars
  <2>2. /\ DOMAIN tasks' = DOMAIN tasks \ {i}
        /\ \A k \in DOMAIN tasks' : /\ tasks'[k].kind = tasks[k].kind
                                   /\ tasks'[k].at = tasks[k].at
                                   /\ tasks'[k].entries = tasks[k].entries
    BY <2>1, EndsHandled
  <2>3. SameLists
    BY <2>1, <2>2 DEF SameLists
  <2> QED
    BY <2>1, <2>3, SameListsFollow
<1>5. ASSUME NEW i \in DOMAIN tasks, RetryInit(i)
      PROVE  ListFollows'
  <2>1. i \in DOMAIN tasks' /\ tasks'[i].kind # "refresh" /\ tasks'[i].at # "views"
    BY <1>5, InitRetried
  <2> QED
    BY <2>1 DEF ListFollows, ListDue
<1>6. ASSUME NEW i \in DOMAIN tasks, InitFails(i)
      PROVE  ListFollows'
  BY <1>6 DEF InitFails, ListFollows
<1>7. ASSUME NEW i \in DOMAIN tasks, FetchList(i) \/ FinishList(i)
      PROVE  ListFollows'
  BY <1>7, FetchListFollows, FinishListFollows
<1> QED
  BY <1>1, <1>2, <1>3, <1>4, <1>5, <1>6, <1>7 DEF TaskMove, TaskStep

(* What a tab that is connected makes sure of.                             *)
Follows == Known /\ Links /\ Bounded /\ Only /\ Chased /\ Caught /\ ListFollows

LEMMA FollowsStep == Typed /\ Follows /\ [Next]_vars => Follows'
<1> SUFFICES ASSUME Typed, Follows, [Next]_vars PROVE Follows'
  OBVIOUS
<1>1. Known' /\ Links' /\ Bounded' /\ Only'
  BY KnownStep, LinksStep, BoundedStep, OnlyStep DEF Follows
<1>2. Links /\ Bounded /\ Only /\ Chased /\ Caught /\ ListFollows
  BY DEF Follows
<1>3. CASE SocketMove \/ UNCHANGED vars
  BY <1>1, <1>2, <1>3, SocketsFollow DEF Follows
<1>4. CASE TaskMove
  BY <1>1, <1>2, <1>4, TaskMoveChased, TaskMoveCaught, TaskMoveLists DEF Follows
<1>5. CASE ShellMove
  <2>1. CASE ListStarts
    BY <1>1, <2>1, StartFollows DEF Follows
  <2>2. ASSUME NEW c \in Sockets, Receive(c)
        PROVE  Follows'
    BY <1>1, <1>2, <2>2, ReceiveFollows DEF Follows
  <2> QED
    BY <1>5, <2>1, <2>2, ShellMoveKinds
<1> QED
  BY <1>3, <1>4, <1>5, EveryMove

LEMMA FollowsSettled == Typed /\ Follows => SettledTabIsLatest
<1> SUFFICES ASSUME Typed, Follows, Settled, ~ missed, ~ gaveUp
             PROVE  /\ enabled /\ overlap = "no" =>
                         \A t \in Tables : view[t] = latest[t] \/ Told(t)
                    /\ ~ outdated /\ ~ error => listed = latest
  BY DEF SettledTabIsLatest
<1>1. DOMAIN tasks = {}
  <2>1. tasks = <<>>
    BY DEF Settled
  <2> QED
    BY <2>1
<1>2. \A t : ~ InFlight(t)
  <2>1. \A c \in Sockets : wire[c] = <<>>
    BY DEF Settled
  <2> QED
    BY <2>1 DEF InFlight
<1>3. ~ Reconnecting
  BY DEF Settled, Reconnecting, Connecting
<1>4. ASSUME enabled, overlap = "no", NEW t \in Tables
      PROVE  view[t] = latest[t] \/ Told(t)
  BY <1>1, <1>2, <1>3, <1>4 DEF Follows, Caught, Following, Handled
<1>5. ASSUME ~ outdated, ~ error
      PROVE  listed = latest
  <2>1. \A t \in Tables : listed[t] = latest[t]
    BY <1>1, <1>2, <1>3, <1>5 DEF Follows, ListFollows, ListDue, ListsHave, Listing
  <2>2. listed \in [Tables -> 0 .. MaxCommits] /\ latest \in [Tables -> 0 .. MaxCommits]
    BY DEF Typed, Display, Connection
  <2> QED
    BY <2>1, <2>2
<1> QED
  BY <1>4, <1>5

(* Once the tab is connected and nothing is under way, every view is at    *)
(* the latest snapshot or its table is marked, and the list of tables      *)
(* shows the latest ones: a commit that the tab has not shown is on its    *)
(* way, in a list that is due, or in a task that comes last.               *)
THEOREM SettledTabsAreLatest == Spec => []SettledTabIsLatest
<1>1. Init => Typed /\ Follows
  BY TypedInit, ShownInit, LinksInit, BoundedInit, OnlyInit, FollowInit DEF Shown, Follows
<1>2. Typed /\ Follows /\ [Next]_vars => (Typed /\ Follows)'
  BY TypedStep, FollowsStep
<1> QED
  BY <1>1, <1>2, FollowsSettled, PTL DEF Spec
=============================================================================
