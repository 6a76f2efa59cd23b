---------------------------- MODULE Storage_proofs ----------------------------
(***************************************************************************)
(* Proofs about the storage credentials of a tab, for any names, places,   *)
(* backends and bounds, and whatever is stored at first: a task reads what *)
(* the worker would read under the same name, objects are written whole,   *)
(* and queries and views are refused only for what they may be refused for.*)
(***************************************************************************)
EXTENDS Storage, SequenceTheorems, WellFoundedInduction, TLAPS

-----------------------------------------------------------------------------
(* What the types say.                                                     *)

Ats == {"resolve", "vend", "check", "answer", "secrets", "run", "parts",
        "done", "refused", "unscoped", "expired", "unseen", "missing"}
Ends == {"done", "refused", "unscoped", "expired", "unseen", "missing"}

Backend == [name : Names \ BuiltIn, type : AllTypes, live : BOOLEAN]
Text == [by : Nat, size : 0 .. 2]
Credential == [backend : 0 .. MaxRows, bucket : Names, age : 0 .. 2,
               seen : SUBSET Places]
Task == [kind : Kinds, names : SUBSET Names, text : Text, at : Ats,
         todo : SUBSET Names, keys : [Names -> Nat], key : Nat, name : Names,
         checks : Nat, aged : SUBSET Nat, wrong : BOOLEAN]

Keys == 0 .. Len(creds)

(* Cap: what the behaviour may do.                                         *)
Plan ==
  /\ usage.kinds \subseteq Kinds
  /\ usage.names \subseteq Names /\ usage.edited \subseteq Names
  /\ queries \in Nat

Stored ==
  /\ rows \in Seq(Backend) /\ Len(rows) <= MaxRows
  /\ objects \in [0 .. MaxRows -> Seq(Text)]
  /\ \A u \in uploads : u[1] \in 0 .. MaxRows /\ u[2] \in Text /\ u[3] \in 0 .. u[2].size

Held ==
  /\ creds \in Seq(Credential)
  /\ cache \in [Names -> Keys] /\ views \in [Names -> Keys]
  /\ secrets \in [Range(Clean) -> Keys]
  /\ place \in Places
  /\ slow \in BOOLEAN /\ overtaken \in BOOLEAN /\ roamed \in BOOLEAN

(* A task has what its place in the protocol says, with n credentials      *)
(* vended so far.                                                          *)
Asking(task) == task.at \in {"resolve", "vend", "check", "answer"}

HasKeys(task) ==
  /\ Asking(task) => \A m \in task.names \ (Feeds \cup task.todo) : task.keys[m] # 0
  /\ task.at \in {"secrets", "run", "parts"} /\ task.kind # "view" =>
       \A m \in task.names \ Feeds : task.keys[m] # 0

IsAsked(task) ==
  /\ task.at \in {"vend", "check", "answer"} => task.name \in task.todo
  /\ task.at = "check" => task.key # 0 /\ task.name \notin Feeds
  /\ task.at = "answer" /\ task.name \notin Feeds => task.key # 0
  /\ task.key # 0 => task.at \in {"check", "answer"}

Phased(task) ==
  /\ task.at = "secrets" => task.todo \cap Feeds = {}
  /\ task.kind = "view" => ~ Asking(task) /\ task.at # "secrets"
  /\ task.at = "parts" => task.kind = "write"
  /\ task.kind = "write" => task.names \cap Feeds = {}
  /\ task.kind = "write" /\ task.at \notin Ends => task.names # {}

Real(task, n) ==
  /\ task \in Task
  /\ task.todo \subseteq task.names
  /\ task.keys \in [Names -> 0 .. n] /\ task.key \in 0 .. n
  /\ task.checks < MaxChecks
  /\ HasKeys(task) /\ IsAsked(task) /\ Phased(task)

(* The tasks are a function whose domain is part of Ids.                   *)
Tasked ==
  /\ tasks \in [DOMAIN tasks -> Task]
  /\ DOMAIN tasks \subseteq Ids
  /\ \A i \in DOMAIN tasks : Real(tasks[i], Len(creds))

(* A secret is named after the bucket of the credential in it.             *)
Named == \A s \in DOMAIN secrets : secrets[s] # 0 => SecretName(secrets[s]) = s

Typed == Plan /\ Stored /\ Held /\ Tasked

-----------------------------------------------------------------------------
(* Lemmas about what tasks are made of.                                    *)

(* The assumptions on the constants that proofs use.                       *)
LEMMA ConstantsAre ==
  /\ Feeds \subseteq Names /\ BuiltIn \subseteq Names /\ Feeds \cap BuiltIn = {}
  /\ Own \in BuiltIn /\ Own \in Names /\ Own \notin Feeds
  /\ Clean \in [Names -> Range(Clean)]
  /\ Types \subseteq AllTypes
  /\ Places # {}
  /\ MaxChecks \in Nat /\ MaxChecks > 0
  /\ MaxTasks \in Nat /\ MaxQueries \in Nat /\ MaxRows \in Nat /\ MaxEvents \in Nat
  /\ NoRow \notin 0 .. MaxRows
<1>1. MaxTasks \in Nat /\ MaxQueries \in Nat /\ MaxRows \in Nat /\ MaxEvents \in Nat
  BY StorageAssumption
<1>2. NoRow \notin 0 .. MaxRows
  BY <1>1 DEF NoRow
<1> QED
  BY <1>1, <1>2, StorageAssumption

(* A new task has nothing yet.                                             *)
LEMMA NewTaskIsReal ==
  ASSUME NEW kind \in Kinds \ {"view"}, NEW names \in SUBSET Names,
         NEW size \in 0 .. 2, NEW n \in Nat, queries \in Nat,
         kind = "write" => names # {} /\ names \cap Feeds = {}
  PROVE  Real(NewTask(kind, names, size), n)
<1> DEFINE t == NewTask(kind, names, size)
<1>1. t \in Task
  BY ConstantsAre DEF NewTask, Task, Text, Ats, Kinds
<1>2. t.at = "resolve" /\ t.todo = names /\ t.names = names /\ t.key = 0 /\ t.checks = 0
      /\ t.kind = kind
  BY DEF NewTask
<1>3. t.keys \in [Names -> 0 .. n]
  BY DEF NewTask
<1>4. HasKeys(t) /\ IsAsked(t) /\ Phased(t)
  BY <1>2 DEF HasKeys, IsAsked, Phased, Asking, Ends
<1> QED
  BY <1>1, <1>2, <1>3, <1>4, ConstantsAre DEF Real

(* What is left of a task that is over.                                    *)
LEMMA OverIs ==
  ASSUME NEW task \in Task, NEW at \in Ends, NEW n \in Nat
  PROVE  /\ Real(Over(task, at), n)
         /\ Over(task, at).at = at /\ Over(task, at).names = {}
         /\ Over(task, at).kind = task.kind /\ Over(task, at).wrong = task.wrong
         /\ Over(task, at).keys = [m \in Names |-> 0]
         /\ Over(task, at).key = 0 /\ Over(task, at).todo = {}
         /\ Over(task, at).aged = {}
<1> DEFINE b == NewTask(task.kind, {}, 0)
           t == Over(task, at)
<1>1. /\ b \in Task /\ b.kind = task.kind /\ b.names = {} /\ b.todo = {} /\ b.key = 0
      /\ b.checks = 0 /\ b.aged = {} /\ b.keys = [m \in Names |-> 0]
  BY ConstantsAre DEF NewTask, Task, Text, Ats, Kinds
<1>2. t = [b EXCEPT !.at = at, !.wrong = task.wrong]
  BY DEF Over
<1>3. at \in Ats /\ task.wrong \in BOOLEAN
  BY DEF Task, Ats, Ends
<1> HIDE DEF b, t
<1>4. t \in Task
  BY <1>1, <1>2, <1>3 DEF Task
<1>5. /\ t.at = at /\ t.kind = task.kind /\ t.names = {} /\ t.todo = {} /\ t.key = 0
      /\ t.checks = 0 /\ t.aged = {} /\ t.keys = [m \in Names |-> 0]
      /\ t.wrong = task.wrong
  BY <1>1, <1>2, <1>3 DEF Task
<1>6. t.keys \in [Names -> 0 .. n]
  BY <1>5
<1>7. HasKeys(t) /\ IsAsked(t) /\ Phased(t)
  BY <1>5 DEF HasKeys, IsAsked, Phased, Asking, Ends
<1>8. Real(t, n)
  BY <1>4, <1>5, <1>6, <1>7, ConstantsAre DEF Real
<1> QED
  BY <1>5, <1>8 DEF t

(* What stays of a task, whatever comes next for it.                       *)
SameTask(t, u) ==
  /\ u.kind = t.kind /\ u.names = t.names /\ u.keys = t.keys /\ u.key = t.key
  /\ u.aged = t.aged /\ u.wrong = t.wrong /\ u.name = t.name

(* Preparing goes on, to the next name or to the next phase.               *)
LEMMA OnwardIs ==
  ASSUME NEW n \in Nat, NEW t, Real(t, n), t.at \in {"resolve", "secrets"}
  PROVE  /\ Real(Onward(t), n) /\ SameTask(t, Onward(t))
         /\ Onward(t).at \in {"resolve", "secrets", "run"}
         /\ t.todo # {} => Onward(t) = t
         /\ Onward(t).at = "resolve" => t.at = "resolve"
         /\ t.at = "secrets" => Onward(t).at \in {"secrets", "run"}
         /\ Onward(t).at = "run" => t.todo = {} /\ (t.at = "resolve" => t.names \subseteq Feeds)
         /\ t.todo = {} => Onward(t).at # t.at
         /\ t.at = "resolve" /\ t.todo = {} /\ Onward(t).at = "secrets" =>
              Onward(t).todo = t.names \ Feeds
<1>1. t \in Task /\ t.kind # "view" /\ t.kind # "parts"
  BY DEF Real, Phased, Asking, Task, Kinds
<1>2. CASE t.todo # {}
  <2>1. Onward(t) = t
    BY <1>2 DEF Onward
  <2> QED
    BY <1>1, <1>2, <2>1 DEF SameTask
<1>3. CASE t.todo = {} /\ t.at = "secrets"
  <2>1. Onward(t) = [t EXCEPT !.at = "run", !.todo = t.names]
    BY <1>3 DEF Onward
  <2>2. SameTask(t, Onward(t)) /\ Onward(t) \in Task /\ Onward(t).at = "run"
        /\ Onward(t).todo = t.names /\ Onward(t).checks = t.checks
    BY <1>1, <2>1 DEF Task, SameTask, Ats
  <2>3. HasKeys(Onward(t)) /\ IsAsked(Onward(t)) /\ Phased(Onward(t))
    BY <1>1, <1>3, <2>2 DEF Real, HasKeys, IsAsked, Phased, SameTask, Asking, Ends
  <2> QED
    BY <1>3, <2>2, <2>3 DEF Real, SameTask
<1>4. CASE t.todo = {} /\ t.at = "resolve"
  <2>0. Onward(t) = [t EXCEPT !.at = IF t.names \subseteq Feeds THEN "run" ELSE "secrets",
                              !.todo = IF t.names \subseteq Feeds THEN t.names
                                       ELSE t.names \ Feeds]
    BY <1>4 DEF Onward
  <2>1. PICK a, todo : /\ Onward(t) = [t EXCEPT !.at = a, !.todo = todo]
                       /\ t.names \subseteq Feeds => a = "run" /\ todo = t.names
                       /\ ~(t.names \subseteq Feeds) => a = "secrets" /\ todo = t.names \ Feeds
    BY <2>0
  <2>2. SameTask(t, Onward(t)) /\ Onward(t) \in Task /\ Onward(t).at = a
        /\ Onward(t).todo = todo /\ Onward(t).checks = t.checks
    BY <1>1, <2>1 DEF Task, SameTask, Ats
  <2>3. a \in {"run", "secrets"} /\ todo \subseteq t.names
    BY <2>1
  <2>4. HasKeys(Onward(t)) /\ IsAsked(Onward(t)) /\ Phased(Onward(t))
    BY <1>1, <1>4, <2>1, <2>2, <2>3
       DEF Real, HasKeys, IsAsked, Phased, SameTask, Asking, Ends
  <2> QED
    BY <1>4, <2>1, <2>2, <2>3, <2>4 DEF Real, SameTask
<1> QED
  BY <1>2, <1>3, <1>4

(* Reading goes on, or is done.                                            *)
LEMMA OnwardRun ==
  ASSUME NEW t, t.at = "run"
  PROVE  Onward(t) = (IF t.todo # {} THEN t ELSE Over(t, "done"))
BY DEF Onward

(* Credentials are only added.                                             *)
LEMMA RealGrows ==
  ASSUME NEW n \in Nat, NEW m \in Nat, n <= m, NEW t, Real(t, n)
  PROVE  Real(t, m)
BY DEF Real

(* Some of the fields of a task change.                                    *)
LEMMA PutTyped ==
  ASSUME Tasked, NEW i \in DOMAIN tasks, NEW t, Put(i, t), Real(t, Len(creds)'),
         Len(creds) \in Nat, Len(creds)' \in Nat, Len(creds) <= Len(creds)'
  PROVE  Tasked' /\ DOMAIN tasks' = DOMAIN tasks
         /\ \A j \in DOMAIN tasks : tasks'[j] = (IF j = i THEN t ELSE tasks[j])
<1>1. t \in Task
  BY DEF Real
<1>2. DOMAIN tasks' = DOMAIN tasks
      /\ \A j \in DOMAIN tasks : tasks'[j] = (IF j = i THEN t ELSE tasks[j])
  BY DEF Put, Tasked
<1>3. tasks' \in [DOMAIN tasks' -> Task]
  BY <1>1, <1>2 DEF Put, Tasked
<1>4. \A j \in DOMAIN tasks : Real(tasks[j], Len(creds)')
  BY RealGrows DEF Tasked
<1> QED
  BY <1>2, <1>3, <1>4 DEF Tasked

-----------------------------------------------------------------------------
(* Lemmas about names and credentials.                                     *)

(* Of several numbers there is a least one.                                *)
LEMMA LeastNumber ==
  ASSUME NEW S \in SUBSET Nat, S # {}
  PROVE  Min(S) \in S
<1>1. IsWellFoundedOn(OpToRel(<, Nat), Nat)
  BY NatLessThanWellFounded
<1>2. \E x \in S : \A y \in S : <<y, x>> \notin OpToRel(<, Nat)
  BY <1>1, WFMin
<1>3. \E x \in S : \A y \in S : ~ (y < x)
  BY <1>2 DEF OpToRel
<1>4. \E x \in S : \A y \in S : x =< y
  BY <1>3
<1> QED
  BY <1>4, Zenon DEF Min

(* A name denotes no backend, the worker's own bucket, or a live row of    *)
(* that name.                                                              *)
LEMMA LookupIs ==
  ASSUME Typed, NEW n
  PROVE  /\ Live \subseteq 1 .. Len(rows) /\ Live \subseteq 1 .. MaxRows
         /\ \/ n \in BuiltIn /\ Lookup(n) = 0
            \/ n \notin BuiltIn /\ Rows(n) = {} /\ Lookup(n) = NoRow
            \/ n \notin BuiltIn /\ Lookup(n) \in Rows(n) /\ Lookup(n) \in Live
<1>1. Live \subseteq 1 .. Len(rows) /\ Live \subseteq 1 .. MaxRows
  BY ConstantsAre DEF Typed, Stored, Live
<1>2. Rows(n) \subseteq Live
  BY DEF Rows
<1>3. Rows(n) \in SUBSET Nat
  <2>1. 1 .. MaxRows \subseteq Nat
    OBVIOUS
  <2> QED
    BY <1>1, <1>2, <2>1
<1>4. Rows(n) # {} => Min(Rows(n)) \in Rows(n)
  BY <1>3, LeastNumber
<1> QED
  BY <1>1, <1>2, <1>4 DEF Lookup

(* What a credential is for.                                               *)
LEMMA TargetIs ==
  ASSUME Typed, NEW n, Lookup(n) # NoRow
  PROVE  /\ Lookup(n) \in 0 .. MaxRows /\ Target(Lookup(n)) \in 0 .. MaxRows
         /\ Lookup(n) \in Live \cup {0}
BY LookupIs, ConstantsAre DEF Target

(* What a request is made with is a credential of the tab, or none.        *)
LEMMA KeyForIs ==
  ASSUME Typed, NEW i \in DOMAIN tasks, NEW n \in Names
  PROVE  /\ KeyFor(tasks[i], n) \in Keys
         /\ n \notin Feeds /\ KeyFor(tasks[i], n) # 0 =>
              /\ KeyFor(tasks[i], n) = secrets[Clean[n]]
              /\ creds[KeyFor(tasks[i], n)].bucket = n
         /\ n \in Feeds => KeyFor(tasks[i], n) =
              (IF tasks[i].kind = "view" THEN views[n] ELSE tasks[i].keys[n])
<1>1. Clean[n] \in Range(Clean) /\ secrets[Clean[n]] \in Keys
  BY ConstantsAre DEF Typed, Held, Range
<1>2. tasks[i].keys[n] \in Keys /\ views[n] \in Keys
  BY DEF Typed, Tasked, Real, Held, Keys
<1>3. Len(creds) \in Nat
  BY DEF Typed, Held
<1> QED
  BY <1>1, <1>2, <1>3 DEF KeyFor, Keys

(* A request that is served has a credential the worker sees, and a        *)
(* backend that is there.                                                  *)
LEMMA ServedIs ==
  ASSUME NEW k, Verdict(k) = "served"
  PROVE  k # 0 /\ creds[k].age # 2 /\ place \in creds[k].seen
         /\ creds[k].backend \in Live \cup {0}
BY DEF Verdict

(* Every other verdict is an end of the task.                              *)
LEMMA VerdictIs ==
  ASSUME NEW k, Verdict(k) # "served"
  PROVE  Verdict(k) \in {"unscoped", "expired", "unseen", "missing"}
BY DEF Verdict

-----------------------------------------------------------------------------
(* Types are kept: first what most actions leave alone.                    *)

QuietStore == UNCHANGED storeVars
QuietTab == UNCHANGED <<creds, tabVars, place, historyVars>>
QuietPlan == UNCHANGED <<usage, queries>>

LEMMA QuietKeeps ==
  ASSUME Typed
  PROVE  /\ QuietStore => Stored'
         /\ QuietTab => Held' /\ Len(creds)' = Len(creds)
         /\ QuietPlan => Plan'
<1>1. QuietStore => Stored'
  BY DEF Typed, Stored, QuietStore, storeVars
<1>2. QuietTab => Held' /\ Len(creds)' = Len(creds)
  BY DEF Typed, Held, QuietTab, tabVars, historyVars, Keys
<1>3. QuietPlan => Plan'
  BY DEF Typed, Plan, QuietPlan
<1> QED
  BY <1>1, <1>2, <1>3

LEMMA CountsKeys ==
  ASSUME Typed
  PROVE  /\ Len(creds) \in Nat /\ Keys = 0 .. Len(creds) /\ DOMAIN creds = 1 .. Len(creds)
         /\ \A k \in 1 .. Len(creds) : creds[k] \in Credential
<1>1. \A k \in 1 .. Len(creds) : creds[k] \in Credential
  BY ElementOfSeq DEF Typed, Held
<1>2. Len(creds) \in Nat /\ Keys = 0 .. Len(creds) /\ DOMAIN creds = 1 .. Len(creds)
  BY DEF Typed, Held, Keys
<1> QED
  BY <1>1, <1>2

(* A task comes.                                                           *)
LEMMA StartTyped ==
  ASSUME Typed, NEW i \in Ids, NEW kind \in Kinds \ {"view"}, NEW names \in SUBSET Names,
         NEW size \in 0 .. 2, kind = "write" => names # {} /\ names \cap Feeds = {},
         Start(i, kind, names, size)
  PROVE  Typed'
<1>1. QuietStore /\ QuietTab
  BY DEF Start, QuietStore, QuietTab
<1>2. Plan'
  BY DEF Typed, Plan, Start
<1>3. queries \in Nat /\ Len(creds) \in Nat /\ Len(creds)' = Len(creds)
  BY <1>1, CountsKeys, QuietKeeps DEF Typed, Plan
<1>4. Real(NewTask(kind, names, size), Len(creds))
  BY <1>3, NewTaskIsReal
<1>5. NewTask(kind, names, size) \in Task
  BY <1>4 DEF Real
<1>6. tasks' = [j \in DOMAIN tasks \cup {i} |->
                  IF j = i THEN NewTask(kind, names, size) ELSE tasks[j]]
  BY DEF Start
<1>7. Tasked'
  BY <1>3, <1>4, <1>5, <1>6 DEF Typed, Tasked
<1> QED
  BY <1>1, <1>2, <1>7, QuietKeeps DEF Typed

(* The task that reads a view.                                             *)
LEMMA ViewTaskIs ==
  ASSUME NEW n \in Names, NEW t, t = [NewTask("view", {n}, 0) EXCEPT !.at = "run"],
         NEW m \in Nat
  PROVE  Real(t, m) /\ t.kind = "view" /\ t.at = "run" /\ t.names = {n} /\ t.todo = {n}
         /\ t.keys = [x \in Names |-> 0] /\ t.key = 0 /\ t.wrong = FALSE
<1> DEFINE b == NewTask("view", {n}, 0)
<1>1. b \in Task /\ b.kind = "view" /\ b.names = {n} /\ b.todo = {n} /\ b.key = 0
      /\ b.checks = 0 /\ b.keys = [x \in Names |-> 0] /\ b.wrong = FALSE
  BY ConstantsAre DEF NewTask, Task, Text, Ats, Kinds
<1> HIDE DEF b
<1>2. t \in Task
  BY <1>1 DEF b, Task, Ats
<1>3. t.kind = "view" /\ t.at = "run" /\ t.names = {n} /\ t.todo = {n}
      /\ t.keys = [x \in Names |-> 0] /\ t.key = 0 /\ t.checks = 0 /\ t.wrong = FALSE
  BY <1>1 DEF b, Task
<1>4. t.keys \in [Names -> 0 .. m]
  BY <1>3
<1>5. HasKeys(t) /\ IsAsked(t) /\ Phased(t)
  BY <1>3 DEF HasKeys, IsAsked, Phased, Asking
<1>6. t.key \in 0 .. m /\ t.checks < MaxChecks
  BY <1>3, ConstantsAre
<1>7. Real(t, m)
  BY <1>2, <1>3, <1>4, <1>5, <1>6 DEF Real
<1> QED
  BY <1>3, <1>7

LEMMA StartViewTyped ==
  ASSUME Typed, NEW i \in Ids, NEW n \in Names, StartView(i, n)
  PROVE  Typed'
<1>1. QuietStore /\ QuietTab
  BY DEF StartView, QuietStore, QuietTab
<1>2. Plan'
  BY DEF Typed, Plan, StartView
<1>3. Len(creds) \in Nat /\ Len(creds)' = Len(creds)
  BY <1>1, CountsKeys, QuietKeeps
<1>4. PICK t : t = [NewTask("view", {n}, 0) EXCEPT !.at = "run"]
  OBVIOUS
<1>5. Real(t, Len(creds)) /\ t \in Task
  BY <1>3, <1>4, ViewTaskIs DEF Real
<1>6. tasks' = [j \in DOMAIN tasks \cup {i} |-> IF j = i THEN t ELSE tasks[j]]
  BY <1>4 DEF StartView
<1>7. Tasked'
  BY <1>3, <1>5, <1>6 DEF Typed, Tasked
<1> QED
  BY <1>1, <1>2, <1>7, QuietKeeps DEF Typed

(* A task ends in a step that leaves the tab alone.                        *)
LEMMA EndsTyped ==
  ASSUME Typed, NEW i \in DOMAIN tasks, NEW t \in Task, NEW at \in Ends,
         Put(i, Over(t, at)), QuietTab, QuietPlan, Stored'
  PROVE  Typed'
<1>1. Len(creds) \in Nat /\ Len(creds)' = Len(creds) /\ Len(creds) <= Len(creds)'
  BY CountsKeys, QuietKeeps
<1>2. Real(Over(t, at), Len(creds)')
  BY <1>1, OverIs
<1>3. Tasked'
  BY <1>1, <1>2, PutTyped DEF Typed
<1> QED
  BY <1>3, QuietKeeps DEF Typed

(* A task goes on in a step that leaves the tab alone.                     *)
LEMMA GoesOnTyped ==
  ASSUME Typed, NEW i \in DOMAIN tasks, NEW t, Real(t, Len(creds)),
         Put(i, t), QuietTab, QuietPlan, Stored'
  PROVE  Typed'
<1>1. Len(creds) \in Nat /\ Len(creds)' = Len(creds) /\ Len(creds) <= Len(creds)'
  BY CountsKeys, QuietKeeps
<1>2. Real(t, Len(creds)')
  BY <1>1
<1>3. Tasked'
  BY <1>1, <1>2, PutTyped DEF Typed
<1> QED
  BY <1>3, QuietKeeps DEF Typed

(* A credential more.                                                      *)
LEMMA AppendsTyped ==
  ASSUME Typed, NEW c \in Credential, creds' = Append(creds, c),
         UNCHANGED <<tabVars, place, historyVars>>
  PROVE  /\ Held' /\ Len(creds)' = Len(creds) + 1
         /\ \A k \in DOMAIN creds : creds'[k] = creds[k]
         /\ creds'[Len(creds) + 1] = c
<1>1. Len(creds)' = Len(creds) + 1 /\ creds' \in Seq(Credential)
      /\ creds'[Len(creds) + 1] = c
      /\ \A k \in DOMAIN creds : creds'[k] = creds[k]
  BY CountsKeys, AppendProperties DEF Typed, Held
<1>2. cache \in [Names -> Keys'] /\ views \in [Names -> Keys']
  BY <1>1, CountsKeys DEF Typed, Held, Keys
<1>3. secrets \in [Range(Clean) -> Keys']
  BY <1>1, CountsKeys DEF Typed, Held, Keys
<1> QED
  BY <1>1, <1>2, <1>3 DEF Typed, Held, tabVars, historyVars

-----------------------------------------------------------------------------
(* Steps by what they do to the tab: the same lemmas serve all invariants. *)

Idle == QuietTab /\ UNCHANGED <<rows, tasks>>

(* A task is judged by what it was served.                                 *)
JudgedBy(i, w) ==
  \/ w = tasks[i].wrong
  \/ \E n \in tasks[i].names : /\ Verdict(KeyFor(tasks[i], n)) = "served"
                               /\ w = Wrong(tasks[i], n, KeyFor(tasks[i], n))

(* It is over, ...                                                         *)
EndsNow(i) ==
  /\ QuietTab /\ UNCHANGED rows
  /\ \E at \in Ends, t \in Task :
       /\ Put(i, Over(t, at)) /\ t.kind = tasks[i].kind /\ JudgedBy(i, t.wrong)

(* ... or goes on with the keys it has.                                    *)
Moves(t, u) ==
  \/ t.at = "resolve" /\ u.at = "vend" /\ u.key = t.key
  \/ t.at = "check" /\ u.at = "check" /\ u.name = t.name /\ u.key = t.key
  \/ t.at = "check" /\ u.at = "answer" /\ u.name = t.name /\ u.key = t.key
     /\ place \in creds[t.key].seen
  \/ t.at = "vend" /\ u.at = "answer" /\ u.key = 0 /\ u.name = t.name
  \/ t.at = "run" /\ u.at = "parts" /\ u.key = t.key

MovesNow(i) ==
  /\ QuietTab /\ UNCHANGED rows
  /\ \E u : /\ Put(i, u) /\ Real(u, Len(creds)) /\ Moves(tasks[i], u)
            /\ u.kind = tasks[i].kind /\ u.names = tasks[i].names
            /\ u.keys = tasks[i].keys /\ u.aged = tasks[i].aged
            /\ JudgedBy(i, u.wrong)

(* It takes a credential out of the cache.                                 *)
Takes(i, n) ==
  /\ QuietTab /\ UNCHANGED rows
  /\ n \in tasks[i].todo \ Feeds /\ Cached(n) /\ tasks[i].at = "resolve"
  /\ \E u : /\ Real(u, Len(creds)) /\ Put(i, Onward(u))
            /\ u.at = "resolve" /\ u.kind = tasks[i].kind /\ u.names = tasks[i].names
            /\ u.todo = tasks[i].todo \ {n}
            /\ u.key = tasks[i].key /\ u.aged = tasks[i].aged /\ u.wrong = tasks[i].wrong
            /\ \A m \in Names : u.keys[m] = (IF m = n THEN cache[n] ELSE tasks[i].keys[m])

(* It gets one that is new.                                                *)
Vends(i) ==
  /\ UNCHANGED <<tabVars, place, historyVars, rows>>
  /\ \E c \in Credential : \E u :
       /\ creds' = Append(creds, c)
       /\ c.age = 0 /\ c.backend = Denotes(c.bucket) /\ Lookup(c.bucket) # NoRow
       /\ Put(i, u) /\ Real(u, Len(creds) + 1) /\ u.key = Len(creds) + 1
       /\ tasks[i].at = "vend"
       /\ u.kind = tasks[i].kind /\ u.names = tasks[i].names /\ u.keys = tasks[i].keys
       /\ u.aged = tasks[i].aged /\ u.wrong = tasks[i].wrong
       /\ \/ u.at = "check"
          \/ u.at = "answer" /\ u.name \in Feeds /\ c.bucket = u.name /\ c.seen = Places

LEMMA EndsNowTyped ==
  ASSUME Typed, NEW i \in DOMAIN tasks, EndsNow(i), QuietPlan, Stored'
  PROVE  Typed'
BY EndsTyped DEF EndsNow

LEMMA MovesTyped ==
  ASSUME Typed, NEW i \in DOMAIN tasks, MovesNow(i), QuietPlan, Stored'
  PROVE  Typed'
BY GoesOnTyped DEF MovesNow

LEMMA TakesTyped ==
  ASSUME Typed, NEW i \in DOMAIN tasks, NEW n \in Names, Takes(i, n), QuietPlan, Stored'
  PROVE  Typed'
BY GoesOnTyped, OnwardIs, CountsKeys DEF Takes

LEMMA VendsTyped ==
  ASSUME Typed, NEW i \in DOMAIN tasks, Vends(i), QuietPlan, Stored'
  PROVE  Typed'
<1>1. PICK c, u :
        c \in Credential /\ creds' = Append(creds, c) /\ Put(i, u) /\ Real(u, Len(creds) + 1)
  BY DEF Vends
<1>2. Held' /\ Len(creds)' = Len(creds) + 1
  BY <1>1, AppendsTyped DEF Vends
<1>3. Tasked'
  BY <1>1, <1>2, PutTyped, CountsKeys DEF Typed
<1> QED
  BY <1>2, <1>3, QuietKeeps DEF Typed

LEMMA ResolveShape ==
  ASSUME Typed, NEW i \in DOMAIN tasks, NEW n \in Names, Resolve(i, n)
  PROVE  MovesNow(i) \/ Takes(i, n)
<1>1. QuietTab /\ UNCHANGED rows
  BY DEF Resolve, QuietTab, storeVars
<1>2. PICK t : t = tasks[i]
  OBVIOUS
<1>3. Real(t, Len(creds)) /\ t \in Task /\ t.at = "resolve" /\ n \in t.todo
  BY <1>2 DEF Typed, Tasked, Real, Resolve
<1>4. CASE n \notin Feeds /\ Cached(n)
  <2>1. PICK u : u = [t EXCEPT !.keys[n] = cache[n], !.todo = @ \ {n}]
    OBVIOUS
  <2>2. Put(i, Onward(u))
    BY <1>2, <1>4, <2>1 DEF Resolve
  <2>3. cache[n] \in 1 .. Len(creds)
    BY <1>4, CountsKeys DEF Typed, Held, Cached
  <2>4. u \in Task /\ u.keys \in [Names -> 0 .. Len(creds)]
    <3>1. PICK keys : keys = [t.keys EXCEPT ![n] = cache[n]]
      OBVIOUS
    <3>2. keys \in [Names -> 0 .. Len(creds)] /\ keys \in [Names -> Nat]
      BY <1>3, <2>3, <3>1, CountsKeys DEF Real
    <3>3. u = [t EXCEPT !.keys = keys, !.todo = @ \ {n}]
      BY <2>1, <3>1
    <3>4. u \in Task /\ u.keys = keys
      BY <1>3, <3>2, <3>3 DEF Task
    <3> QED
      BY <3>2, <3>4
  <2>5. u.at = "resolve" /\ u.todo = t.todo \ {n} /\ u.names = t.names /\ u.kind = t.kind
        /\ u.key = t.key /\ u.checks = t.checks /\ u.name = t.name /\ u.aged = t.aged
        /\ u.wrong = t.wrong
        /\ \A m \in Names : u.keys[m] = (IF m = n THEN cache[n] ELSE t.keys[m])
    BY <1>3, <2>1 DEF Task
  <2>6. HasKeys(u) /\ IsAsked(u) /\ Phased(u)
    BY <1>3, <2>3, <2>5 DEF Real, HasKeys, IsAsked, Phased, Asking, Task
  <2>7. Real(u, Len(creds))
    BY <1>3, <2>4, <2>5, <2>6 DEF Real
  <2> QED
    BY <1>1, <1>2, <1>3, <1>4, <2>2, <2>5, <2>7 DEF Takes
<1>5. CASE ~ (n \notin Feeds /\ Cached(n))
  <2>1. PICK u : u = [t EXCEPT !.at = "vend", !.name = n]
    OBVIOUS
  <2>2. Put(i, u)
    BY <1>2, <1>5, <2>1 DEF Resolve
  <2>3. u \in Task /\ u.at = "vend" /\ u.name = n /\ u.todo = t.todo /\ u.names = t.names
        /\ u.kind = t.kind /\ u.key = t.key /\ u.checks = t.checks /\ u.keys = t.keys
        /\ u.aged = t.aged /\ u.wrong = t.wrong
    BY <1>3, <2>1 DEF Task, Ats
  <2>4. Real(u, Len(creds))
    BY <1>3, <2>3 DEF Real, HasKeys, IsAsked, Phased, Asking, Ends
  <2>5. Moves(tasks[i], u)
    BY <1>2, <1>3, <2>3 DEF Moves
  <2> QED
    BY <1>1, <1>2, <2>2, <2>3, <2>4, <2>5 DEF MovesNow, JudgedBy
<1> QED
  BY <1>4, <1>5

(* A task looks for its next credential.                                   *)
LEMMA ResolveTyped ==
  ASSUME Typed, NEW i \in DOMAIN tasks, NEW n \in Names, Resolve(i, n)
  PROVE  Typed'
<1>1. QuietStore /\ QuietPlan
  BY DEF Resolve, QuietStore, QuietPlan, boundVars
<1> QED
  BY <1>1, ResolveShape, MovesTyped, TakesTyped, QuietKeeps

(* A name without a backend ends the task, any other gets a credential.    *)
LEMMA VendShape ==
  ASSUME Typed, NEW i \in DOMAIN tasks, Vend(i)
  PROVE  EndsNow(i) \/ Vends(i)
<1>1. UNCHANGED <<rows, tabVars, place, historyVars>>
  BY DEF Vend, storeVars
<1>2. PICK t : t = tasks[i]
  OBVIOUS
<1>3. Real(t, Len(creds)) /\ t \in Task /\ t.at = "vend" /\ t.name \in Names \ Feeds
  BY <1>2 DEF Typed, Tasked, Real, Vend, Task
<1>4. CASE Lookup(t.name) = NoRow
  <2>1. Put(i, Over(t, "refused")) /\ UNCHANGED creds
    BY <1>2, <1>4 DEF Vend
  <2> QED
    BY <1>1, <1>2, <1>3, <2>1 DEF EndsNow, JudgedBy, QuietTab, Ends
<1>5. CASE Lookup(t.name) # NoRow
  <2>1. PICK c : c = [backend |-> Target(Lookup(t.name)),
               bucket |-> IF Lookup(t.name) \in Live /\ TypeOf(Lookup(t.name)) = "bound"
                          THEN Own ELSE t.name,
               age |-> 0, seen |-> {}]
    OBVIOUS
  <2>2. creds' = Append(creds, c)
    BY <1>2, <1>5, <2>1 DEF Vend
  <2>3. c \in Credential
    BY <1>3, <1>5, <2>1, TargetIs, ConstantsAre DEF Credential
  <2>4. PICK u : u = [t EXCEPT !.at = "check", !.key = Len(creds) + 1, !.checks = 0]
    OBVIOUS
  <2>5. Put(i, u)
    BY <1>2, <1>5, <2>4 DEF Vend
  <2>6. u \in Task /\ u.at = "check" /\ u.name = t.name /\ u.todo = t.todo /\ u.names = t.names
        /\ u.kind = t.kind /\ u.key = Len(creds) + 1 /\ u.checks = 0 /\ u.keys = t.keys
        /\ u.aged = t.aged /\ u.wrong = t.wrong
    <3>1. PICK k \in Nat : k = Len(creds) + 1
      BY CountsKeys
    <3>2. u = [t EXCEPT !.at = "check", !.key = k, !.checks = 0]
      BY <2>4, <3>1
    <3>3. u \in Task /\ u.at = "check" /\ u.name = t.name /\ u.todo = t.todo
          /\ u.names = t.names /\ u.kind = t.kind /\ u.key = k /\ u.checks = 0
      BY <1>3, <3>2 DEF Task, Ats
    <3>4. u.keys = t.keys /\ u.aged = t.aged /\ u.wrong = t.wrong
      BY <1>3, <3>2 DEF Task
    <3> QED
      BY <3>1, <3>3, <3>4
  <2>7. Real(t, Len(creds) + 1)
    BY <1>3, RealGrows, CountsKeys
  <2>8. Real(u, Len(creds) + 1)
    BY <1>3, <2>6, <2>7, CountsKeys, ConstantsAre
       DEF Real, HasKeys, IsAsked, Phased, Asking, Ends
  <2>9. c.age = 0 /\ c.backend = Denotes(c.bucket) /\ Lookup(c.bucket) # NoRow
    <3>1. CASE Lookup(t.name) \in Live /\ TypeOf(Lookup(t.name)) = "bound"
      <4>1. c.bucket = Own /\ c.age = 0 /\ Lookup(Own) = 0 /\ 0 \notin Live
        BY <3>1, <2>1, ConstantsAre, LookupIs
      <4>2. Lookup(t.name) # 0
        BY <3>1, <4>1
      <4>3. Target(Lookup(t.name)) = 0
        BY <3>1, <4>2 DEF Target, TypeOf
      <4>4. Denotes(Own) = 0
        BY <4>1 DEF Denotes
      <4> QED
        BY <2>1, <4>1, <4>3, <4>4, ConstantsAre
    <3>2. CASE ~ (Lookup(t.name) \in Live /\ TypeOf(Lookup(t.name)) = "bound")
      <4>1. c.bucket = t.name /\ c.age = 0
        BY <3>2, <2>1
      <4>2. Lookup(t.name) \in Live => Lookup(t.name) # 0
        BY LookupIs
      <4>3. Target(Lookup(t.name)) = Lookup(t.name)
        BY <3>2, <4>2 DEF Target, TypeOf
      <4>4. Denotes(t.name) = Lookup(t.name)
        <5>1. Lookup(t.name) \in Live => Lookup(t.name) \in Rows(t.name) /\ Lookup(t.name) # 0
          BY <1>5, <4>2, ConstantsAre, LookupIs
        <5>2. Lookup(t.name) \in Live => TypeOf(Lookup(t.name)) # "google"
          BY <1>3, <5>1 DEF TypeOf, Rows, CredentialTypes
        <5> QED
          BY <3>2, <5>2 DEF Denotes
      <4> QED
        BY <1>5, <2>1, <4>1, <4>3, <4>4
    <3> QED
      BY <3>1, <3>2
  <2>10. u.kind = tasks[i].kind /\ u.names = tasks[i].names /\ u.keys = tasks[i].keys
         /\ u.aged = tasks[i].aged /\ u.wrong = tasks[i].wrong /\ tasks[i].at = "vend"
    BY <1>2, <1>3, <2>6
  <2> QED
    BY <1>1, <2>2, <2>3, <2>5, <2>6, <2>8, <2>9, <2>10 DEF Vends
<1> QED
  BY <1>4, <1>5

LEMMA VendTyped ==
  ASSUME Typed, NEW i \in DOMAIN tasks, Vend(i)
  PROVE  Typed'
<1>1. QuietStore /\ QuietPlan
  BY DEF Vend, QuietStore, QuietPlan, boundVars
<1> QED
  BY <1>1, VendShape, EndsNowTyped, VendsTyped, QuietKeeps

(* A token is made at once.                                                *)
LEMMA VendTokenShape ==
  ASSUME Typed, NEW i \in DOMAIN tasks, VendToken(i)
  PROVE  MovesNow(i) \/ Vends(i)
<1>1. UNCHANGED <<rows, tabVars, place, historyVars>>
  BY DEF VendToken, storeVars
<1>2. PICK t : t = tasks[i]
  OBVIOUS
<1>3. Real(t, Len(creds)) /\ t \in Task /\ t.at = "vend" /\ t.name \in Feeds /\ t.name \in Names
  BY <1>2, ConstantsAre DEF Typed, Tasked, Real, VendToken, Task
<1>4. CASE Lookup(t.name) = NoRow \/ TypeOf(Lookup(t.name)) # "http"
  <2>1. PICK u : u = [t EXCEPT !.at = "answer", !.key = 0]
    OBVIOUS
  <2>2. Put(i, u) /\ UNCHANGED creds
    BY <1>2, <1>4, <2>1 DEF VendToken
  <2>3. u \in Task /\ u.at = "answer" /\ u.name = t.name /\ u.todo = t.todo /\ u.names = t.names
        /\ u.kind = t.kind /\ u.key = 0 /\ u.checks = t.checks /\ u.keys = t.keys
        /\ u.aged = t.aged /\ u.wrong = t.wrong
    BY <1>3, <2>1 DEF Task, Ats
  <2>4. Real(u, Len(creds))
    BY <1>3, <2>3, CountsKeys DEF Real, HasKeys, IsAsked, Phased, Asking, Ends
  <2>5. Moves(tasks[i], u)
    BY <1>2, <1>3, <2>3 DEF Moves
  <2> QED
    BY <1>1, <1>2, <2>2, <2>3, <2>4, <2>5 DEF MovesNow, JudgedBy, QuietTab
<1>5. CASE Lookup(t.name) # NoRow /\ TypeOf(Lookup(t.name)) = "http"
  <2>1. PICK c : c = [backend |-> Lookup(t.name), bucket |-> t.name, age |-> 0,
                      seen |-> Places]
    OBVIOUS
  <2>2. creds' = Append(creds, c)
    BY <1>2, <1>5, <2>1 DEF VendToken
  <2>3. c \in Credential
    BY <1>3, <1>5, <2>1, TargetIs, ConstantsAre DEF Credential
  <2>4. PICK u : u = [t EXCEPT !.at = "answer", !.key = Len(creds) + 1]
    OBVIOUS
  <2>5. Put(i, u)
    BY <1>2, <1>5, <2>4 DEF VendToken
  <2>6. u \in Task /\ u.at = "answer" /\ u.name = t.name /\ u.todo = t.todo /\ u.names = t.names
        /\ u.kind = t.kind /\ u.key = Len(creds) + 1 /\ u.checks = t.checks /\ u.keys = t.keys
        /\ u.aged = t.aged /\ u.wrong = t.wrong
    <3>1. PICK k \in Nat : k = Len(creds) + 1
      BY CountsKeys
    <3>2. u = [t EXCEPT !.at = "answer", !.key = k]
      BY <2>4, <3>1
    <3>3. u \in Task /\ u.at = "answer" /\ u.name = t.name /\ u.todo = t.todo
          /\ u.names = t.names /\ u.kind = t.kind /\ u.key = k /\ u.checks = t.checks
      BY <1>3, <3>2 DEF Task, Ats
    <3>4. u.keys = t.keys /\ u.aged = t.aged /\ u.wrong = t.wrong
      BY <1>3, <3>2 DEF Task
    <3> QED
      BY <3>1, <3>3, <3>4
  <2>7. Real(t, Len(creds) + 1)
    BY <1>3, RealGrows, CountsKeys
  <2>8. Real(u, Len(creds) + 1)
    BY <1>3, <2>6, <2>7, CountsKeys DEF Real, HasKeys, IsAsked, Phased, Asking, Ends
  <2>9. Denotes(t.name) = Lookup(t.name)
    BY <1>5 DEF Denotes
  <2>10. c.age = 0 /\ c.backend = Denotes(c.bucket) /\ Lookup(c.bucket) # NoRow
         /\ c.bucket = t.name /\ c.seen = Places
    BY <1>5, <2>1, <2>9
  <2>11. u.kind = tasks[i].kind /\ u.names = tasks[i].names /\ u.keys = tasks[i].keys
         /\ u.aged = tasks[i].aged /\ u.wrong = tasks[i].wrong /\ tasks[i].at = "vend"
         /\ u.name \in Feeds /\ c.bucket = u.name
    BY <1>2, <1>3, <2>6, <2>10
  <2> QED
    BY <1>1, <2>2, <2>3, <2>5, <2>6, <2>8, <2>10, <2>11 DEF Vends
<1> QED
  BY <1>4, <1>5

LEMMA VendTokenTyped ==
  ASSUME Typed, NEW i \in DOMAIN tasks, VendToken(i)
  PROVE  Typed'
<1>1. QuietStore /\ QuietPlan
  BY DEF VendToken, QuietStore, QuietPlan, boundVars
<1> QED
  BY <1>1, VendTokenShape, MovesTyped, VendsTyped, QuietKeeps

(* The read-back loop ends with its fifth read.                            *)
LEMMA CheckShape ==
  ASSUME Typed, NEW i \in DOMAIN tasks, Check(i)
  PROVE  EndsNow(i) \/ MovesNow(i)
<1>1. QuietTab /\ UNCHANGED rows
  BY DEF Check, QuietTab, storeVars
<1>2. PICK t : t = tasks[i]
  OBVIOUS
<1>3. Real(t, Len(creds)) /\ t \in Task /\ t.at = "check"
  BY <1>2 DEF Typed, Tasked, Real, Check
<1>4. CASE place \in creds[t.key].seen
  <2>1. PICK u : u = [t EXCEPT !.at = "answer"]
    OBVIOUS
  <2>2. Put(i, u)
    BY <1>2, <1>4, <2>1 DEF Check
  <2>3. u \in Task /\ u.at = "answer" /\ u.name = t.name /\ u.todo = t.todo /\ u.names = t.names
        /\ u.kind = t.kind /\ u.key = t.key /\ u.checks = t.checks /\ u.keys = t.keys
        /\ u.aged = t.aged /\ u.wrong = t.wrong
    BY <1>3, <2>1 DEF Task, Ats
  <2>4. Real(u, Len(creds))
    BY <1>3, <2>3 DEF Real, HasKeys, IsAsked, Phased, Asking, Ends
  <2>5. Moves(tasks[i], u)
    BY <1>2, <1>3, <1>4, <2>3 DEF Moves
  <2> QED
    BY <1>1, <1>2, <2>2, <2>3, <2>4, <2>5 DEF MovesNow, JudgedBy
<1>5. CASE place \notin creds[t.key].seen /\ t.checks + 1 < MaxChecks
  <2>1. PICK u : u = [t EXCEPT !.checks = @ + 1]
    OBVIOUS
  <2>2. Put(i, u)
    BY <1>2, <1>5, <2>1 DEF Check
  <2>3. u \in Task /\ u.at = "check" /\ u.name = t.name /\ u.todo = t.todo /\ u.names = t.names
        /\ u.kind = t.kind /\ u.key = t.key /\ u.checks = t.checks + 1 /\ u.keys = t.keys
        /\ u.aged = t.aged /\ u.wrong = t.wrong
    BY <1>3, <2>1 DEF Task, Ats
  <2>4. Real(u, Len(creds))
    BY <1>3, <1>5, <2>3 DEF Real, HasKeys, IsAsked, Phased, Asking, Ends
  <2>5. Moves(tasks[i], u)
    BY <1>2, <1>3, <2>3 DEF Moves
  <2> QED
    BY <1>1, <1>2, <2>2, <2>3, <2>4, <2>5 DEF MovesNow, JudgedBy
<1>6. CASE place \notin creds[t.key].seen /\ ~ (t.checks + 1 < MaxChecks)
  <2>1. Put(i, Over(t, "refused"))
    BY <1>2, <1>6 DEF Check
  <2> QED
    BY <1>1, <1>2, <1>3, <2>1 DEF EndsNow, JudgedBy, Ends
<1> QED
  BY <1>4, <1>5, <1>6

LEMMA CheckTyped ==
  ASSUME Typed, NEW i \in DOMAIN tasks, Check(i)
  PROVE  Typed'
<1>1. QuietStore /\ QuietPlan
  BY DEF Check, QuietStore, QuietPlan, boundVars
<1> QED
  BY <1>1, CheckShape, EndsNowTyped, MovesTyped, QuietKeeps

(* The task an arriving credential leaves.                                 *)
Acquired(t) == [t EXCEPT !.at = "resolve", !.keys[t.name] = t.key, !.key = 0,
                         !.name = Own, !.checks = 0, !.todo = @ \ {t.name}]

LEMMA AcquiredIs ==
  ASSUME NEW m \in Nat, NEW t, Real(t, m), t.at = "answer", NEW u, u = Acquired(t)
  PROVE  /\ Real(u, m) /\ u.at = "resolve" /\ u.todo = t.todo \ {t.name}
         /\ u.names = t.names /\ u.kind = t.kind /\ u.key = 0 /\ u.aged = t.aged
         /\ u.wrong = t.wrong
         /\ \A x \in Names : u.keys[x] = (IF x = t.name THEN t.key ELSE t.keys[x])
<1>1. Real(t, m) /\ t \in Task /\ t.name \in Names /\ t.key \in 0 .. m
      /\ m \in Nat
  BY DEF Real, Task
<1>2. PICK keys : keys = [t.keys EXCEPT ![t.name] = t.key]
  OBVIOUS
<1>3. keys \in [Names -> 0 .. m] /\ keys \in [Names -> Nat]
  BY <1>1, <1>2 DEF Real
<1>4. u = [t EXCEPT !.at = "resolve", !.keys = keys, !.key = 0,
                    !.name = Own, !.checks = 0, !.todo = @ \ {t.name}]
  BY <1>2 DEF Acquired
<1>5. /\ u \in Task /\ u.at = "resolve" /\ u.todo = t.todo \ {t.name}
      /\ u.names = t.names /\ u.kind = t.kind /\ u.key = 0 /\ u.aged = t.aged
      /\ u.wrong = t.wrong /\ u.keys = keys /\ u.checks = 0
  <2>1. PICK todo : todo = t.todo \ {t.name}
    OBVIOUS
  <2>2. u = [t EXCEPT !.at = "resolve", !.keys = keys, !.key = 0,
                      !.name = Own, !.checks = 0, !.todo = todo]
    BY <1>4, <2>1
  <2>3. u \in Task
    <3>1. /\ "resolve" \in Ats /\ keys \in [Names -> Nat] /\ Own \in Names
          /\ todo \in SUBSET Names /\ t \in Task
      BY <1>1, <1>3, <2>1, ConstantsAre DEF Task, Ats
    <3>2. PICK v : v = [t EXCEPT !.at = "resolve", !.keys = keys, !.key = 0]
      OBVIOUS
    <3>3. v \in Task
      BY <3>1, <3>2 DEF Task
    <3>4. PICK w : w = [v EXCEPT !.name = Own, !.checks = 0]
      OBVIOUS
    <3>5. w \in Task
      BY <3>1, <3>3, <3>4 DEF Task
    <3>6. u = [w EXCEPT !.todo = todo]
      BY <2>2, <3>2, <3>4
    <3> QED
      BY <3>1, <3>5, <3>6 DEF Task
  <2>4. /\ u.at = "resolve" /\ u.todo = todo /\ u.names = t.names /\ u.kind = t.kind
        /\ u.key = 0 /\ u.aged = t.aged
    BY <1>1, <2>2 DEF Task
  <2>5. u.wrong = t.wrong /\ u.keys = keys /\ u.checks = 0
    BY <1>1, <2>2 DEF Task
  <2> QED
    BY <2>1, <2>3, <2>4, <2>5
<1>6. \A x \in Names : keys[x] = (IF x = t.name THEN t.key ELSE t.keys[x])
  BY <1>1, <1>2 DEF Real
<1>7. HasKeys(u) /\ IsAsked(u) /\ Phased(u)
  BY <1>1, <1>5, <1>6 DEF Real, HasKeys, IsAsked, Phased, Asking, Task
<1>8. Real(u, m)
  BY <1>1, <1>3, <1>5, <1>7, ConstantsAre DEF Real
<1> QED
  BY <1>5, <1>6, <1>8

LEMMA AcquireTyped ==
  ASSUME Typed, NEW i \in DOMAIN tasks, Acquire(i)
  PROVE  Typed'
<1>1. /\ QuietStore /\ QuietPlan
      /\ UNCHANGED <<creds, secrets, views, place, historyVars>>
  BY DEF Acquire, QuietStore, QuietPlan, boundVars
<1>2. PICK t : t = tasks[i]
  OBVIOUS
<1>3. t.at = "answer" /\ Real(t, Len(creds)) /\ t.name \in Names /\ Len(creds) \in Nat
  BY <1>2, CountsKeys DEF Acquire, Typed, Tasked, Real, Task
<1>4. PICK u : u = Acquired(t)
  OBVIOUS
<1>5. Put(i, Onward(u))
  BY <1>2, <1>4 DEF Acquire, Acquired
<1>6. Real(u, Len(creds)) /\ u.at = "resolve"
  BY <1>2, <1>3, <1>4, AcquiredIs
<1>7. Real(Onward(u), Len(creds))
  BY <1>3, <1>6, OnwardIs
<1>8. cache' \in [Names -> 0 .. Len(creds)]
  BY <1>2, <1>3 DEF Acquire, Typed, Held, Keys, Real
<1>9. Held' /\ Len(creds)' = Len(creds)
  BY <1>1, <1>8 DEF Typed, Held, historyVars, Keys
<1>10. Tasked'
  BY <1>3, <1>5, <1>7, <1>9, PutTyped DEF Typed
<1> QED
  BY <1>1, <1>9, <1>10, QuietKeeps DEF Typed

(* The task one statement of the preamble leaves.                          *)
Prepared(t, n) == [t EXCEPT !.todo = @ \ {n}]

LEMMA PreparedIs ==
  ASSUME NEW m \in Nat, NEW t, Real(t, m), t.at = "secrets", NEW n,
         NEW u, u = Prepared(t, n)
  PROVE  /\ Real(u, m) /\ u.at = "secrets" /\ u.todo = t.todo \ {n}
         /\ SameTask(t, u)
<1>1. Real(t, m) /\ t \in Task
  BY DEF Real
<1>2. /\ u \in Task /\ u.at = "secrets" /\ u.todo = t.todo \ {n} /\ SameTask(t, u)
      /\ u.checks = t.checks
  BY <1>1 DEF Task, SameTask, Prepared
<1>3. HasKeys(u) /\ IsAsked(u) /\ Phased(u)
  BY <1>1, <1>2 DEF Real, HasKeys, IsAsked, Phased, Asking, SameTask
<1> QED
  BY <1>1, <1>2, <1>3 DEF Real, SameTask

(* A secret holds a credential of the preamble.                            *)
LEMMA SecretIs ==
  ASSUME Typed, NEW i \in DOMAIN tasks, NEW n \in tasks[i].todo, tasks[i].at = "secrets"
  PROVE  /\ tasks[i].keys[n] \in 1 .. Len(creds) /\ n \in Names \ Feeds
         /\ SecretName(tasks[i].keys[n]) \in Range(Clean)
         /\ tasks[i].keys[n] # 0
<1>1. Real(tasks[i], Len(creds)) /\ Len(creds) \in Nat
  BY CountsKeys DEF Typed, Tasked
<1>2. n \in Names \ Feeds
  BY <1>1 DEF Real, Phased, Task
<1>3. tasks[i].keys[n] # 0 /\ tasks[i].keys[n] \in 0 .. Len(creds)
  BY <1>1, <1>2 DEF Real, HasKeys, Phased, Task
<1>4. tasks[i].keys[n] \in 1 .. Len(creds)
  BY <1>1, <1>3
<1>5. PICK k \in 1 .. Len(creds) : k = tasks[i].keys[n]
  BY <1>4
<1>6. creds[k].bucket \in Names
  BY <1>5, CountsKeys DEF Credential
<1> QED
  BY <1>2, <1>3, <1>4, <1>5, <1>6, ConstantsAre DEF SecretName, Range

LEMMA SetSecretTyped ==
  ASSUME Typed, NEW i \in DOMAIN tasks, NEW n \in Names, SetSecret(i, n)
  PROVE  Typed'
<1>1. /\ QuietStore /\ QuietPlan
      /\ UNCHANGED <<creds, cache, views, place, slow, roamed>>
  BY DEF SetSecret, QuietStore, QuietPlan, boundVars
<1>2. PICK t : t = tasks[i]
  OBVIOUS
<1>3. t.at = "secrets" /\ n \in t.todo /\ Len(creds) \in Nat
  BY <1>2, CountsKeys DEF SetSecret
<1>4. PICK u : u = Prepared(t, n)
  OBVIOUS
<1>5. Put(i, Onward(u))
  BY <1>2, <1>4 DEF SetSecret, Prepared
<1>6. Real(t, Len(creds))
  BY <1>2 DEF Typed, Tasked
<1>14. Real(u, Len(creds)) /\ u.at = "secrets"
  BY <1>3, <1>4, <1>6, PreparedIs
<1>7. Real(Onward(u), Len(creds))
  BY <1>3, <1>14, OnwardIs
<1>8. PICK k, x : /\ k = t.keys[n] /\ x = SecretName(k)
                  /\ secrets' = [secrets EXCEPT ![x] = k]
  BY <1>2 DEF SetSecret
<1>9. k \in 1 .. Len(creds) /\ x \in Range(Clean)
  BY <1>2, <1>3, <1>8, SecretIs
<1>10. secrets' \in [Range(Clean) -> 0 .. Len(creds)]
  BY <1>3, <1>8, <1>9 DEF Typed, Held, Keys
<1>11. overtaken' \in BOOLEAN
  BY DEF SetSecret, Typed, Held
<1>12. Held' /\ Len(creds)' = Len(creds)
  BY <1>1, <1>10, <1>11 DEF Typed, Held, Keys
<1>13. Tasked'
  BY <1>3, <1>5, <1>7, <1>12, PutTyped DEF Typed
<1> QED
  BY <1>1, <1>12, <1>13, QuietKeeps DEF Typed

-----------------------------------------------------------------------------
(* ... requests for objects.                                               *)

(* What a task is judged by is wrong or not.                               *)
LEMMA WrongIs ==
  ASSUME NEW task, task.wrong \in BOOLEAN, NEW n, NEW k
  PROVE  Wrong(task, n, k) \in BOOLEAN
BY DEF Wrong, Denoted

(* The task a row that was read leaves.                                    *)
Answered(t, n, w) == [t EXCEPT !.todo = @ \ {n}, !.wrong = w]

LEMMA ReadIs ==
  ASSUME NEW m \in Nat, NEW t, Real(t, m), t.at = "run", t.kind # "write",
         NEW n, NEW w \in BOOLEAN, NEW u, u = Answered(t, n, w)
  PROVE  /\ Real(u, m) /\ u.at = "run" /\ u.todo = t.todo \ {n}
         /\ u.wrong = w /\ u.kind = t.kind /\ u.names = t.names /\ u.keys = t.keys
         /\ u.key = t.key /\ u.aged = t.aged /\ u.name = t.name
<1>1. Real(t, m) /\ t \in Task
  BY DEF Real
<1>2. /\ u \in Task /\ u.at = "run" /\ u.todo = t.todo \ {n} /\ u.checks = t.checks
      /\ u.wrong = w /\ u.kind = t.kind /\ u.names = t.names /\ u.keys = t.keys
      /\ u.key = t.key /\ u.aged = t.aged /\ u.name = t.name
  BY <1>1 DEF Task, Answered
<1>3. HasKeys(u) /\ IsAsked(u) /\ Phased(u)
  BY <1>1, <1>2 DEF Real, HasKeys, IsAsked, Phased, Asking
<1> QED
  BY <1>1, <1>2, <1>3 DEF Real

LEMMA GetsRowsTyped ==
  ASSUME Typed, NEW i \in DOMAIN tasks, NEW n \in Names, NEW types, GetsRows(i, n, types)
  PROVE  Typed'
<1>1. /\ QuietStore /\ QuietPlan
      /\ UNCHANGED <<creds, cache, secrets, place, historyVars>>
  BY DEF GetsRows, QuietStore, QuietPlan, boundVars
<1>2. PICK t : t = tasks[i]
  OBVIOUS
<1>3. t.at = "run" /\ t.kind # "write" /\ Len(creds) \in Nat /\ t.wrong \in BOOLEAN /\ t \in Task
  BY <1>2, CountsKeys DEF GetsRows, Reads, Typed, Tasked, Task
<1>4. PICK k : k = KeyFor(t, n)
  OBVIOUS
<1>5. PICK w : w = Wrong(t, n, k)
  OBVIOUS
<1>6. PICK u : u = Answered(t, n, w)
  OBVIOUS
<1>7. Put(i, Onward(u))
  BY <1>2, <1>4, <1>5, <1>6 DEF GetsRows, Answered
<1>14. Real(t, Len(creds)) /\ w \in BOOLEAN
  BY <1>2, <1>3, <1>5, WrongIs DEF Typed, Tasked
<1>8. Real(u, Len(creds)) /\ u.at = "run"
  BY <1>3, <1>6, <1>14, ReadIs
<1>9. Real(Onward(u), Len(creds))
  BY <1>3, <1>8, OnwardRun, OverIs DEF Real, Ends
<1>10. k \in 0 .. Len(creds)
  BY <1>2, <1>4, KeyForIs DEF Keys
<1>11. views' \in [Names -> 0 .. Len(creds)]
  BY <1>2, <1>4, <1>10 DEF GetsRows, Typed, Held, Keys
<1>12. Held' /\ Len(creds)' = Len(creds)
  BY <1>1, <1>11 DEF Typed, Held, historyVars, Keys
<1>13. Tasked'
  BY <1>3, <1>7, <1>9, <1>12, PutTyped DEF Typed
<1> QED
  BY <1>1, <1>12, <1>13, QuietKeeps DEF Typed

LEMMA ReadFailsTyped ==
  ASSUME Typed, NEW i \in DOMAIN tasks, NEW n \in Names, ReadFails(i, n)
  PROVE  Typed'
<1>1. QuietStore /\ QuietTab /\ QuietPlan
  BY DEF ReadFails, QuietStore, QuietTab, QuietPlan, boundVars
<1>2. PICK v : v = Verdict(KeyFor(tasks[i], n))
  OBVIOUS
<1>3. v \in Ends /\ Put(i, Over(tasks[i], v))
  BY <1>2, VerdictIs DEF ReadFails, Ends
<1>4. tasks[i] \in Task
  BY DEF Typed, Tasked
<1> QED
  BY <1>1, <1>3, <1>4, EndsTyped, QuietKeeps

LEMMA WriteFailsTyped ==
  ASSUME Typed, NEW i \in DOMAIN tasks, WriteFails(i)
  PROVE  Typed'
<1>1. QuietStore /\ QuietTab /\ QuietPlan
  BY DEF WriteFails, QuietStore, QuietTab, QuietPlan, boundVars
<1>2. PICK v : v = Verdict(KeyOf(i))
  OBVIOUS
<1>3. v \in Ends /\ Put(i, Over(tasks[i], v))
  BY <1>2, VerdictIs DEF WriteFails, Ends
<1>4. tasks[i] \in Task
  BY DEF Typed, Tasked
<1> QED
  BY <1>1, <1>3, <1>4, EndsTyped, QuietKeeps

(* What a write judges is a task of the same make.                         *)
LEMMA JudgedIs ==
  ASSUME Typed, NEW i \in DOMAIN tasks, NEW at \in Ats
  PROVE  /\ Judged(i, at) \in Task /\ Judged(i, at).at = at
         /\ Judged(i, at).kind = tasks[i].kind /\ Judged(i, at).names = tasks[i].names
         /\ Judged(i, at).todo = tasks[i].todo /\ Judged(i, at).keys = tasks[i].keys
         /\ Judged(i, at).key = tasks[i].key /\ Judged(i, at).aged = tasks[i].aged
         /\ Judged(i, at).checks = tasks[i].checks /\ Judged(i, at).text = tasks[i].text
         /\ Judged(i, at).name = tasks[i].name
         /\ Judged(i, at).wrong =
              Wrong(tasks[i], CHOOSE n \in tasks[i].names : TRUE, KeyOf(i))
<1>1. PICK w : w = Wrong(tasks[i], CHOOSE n \in tasks[i].names : TRUE, KeyOf(i))
  OBVIOUS
<1>2. tasks[i] \in Task /\ w \in BOOLEAN
  BY <1>1, WrongIs DEF Typed, Tasked, Task
<1>3. Judged(i, at) = [tasks[i] EXCEPT !.at = at, !.wrong = w]
  BY <1>1 DEF Judged
<1>4. PICK j : j = Judged(i, at)
  OBVIOUS
<1>5. /\ j \in Task /\ j.at = at
      /\ j.kind = tasks[i].kind /\ j.names = tasks[i].names
      /\ j.todo = tasks[i].todo /\ j.keys = tasks[i].keys
      /\ j.key = tasks[i].key /\ j.aged = tasks[i].aged
      /\ j.checks = tasks[i].checks /\ j.text = tasks[i].text
      /\ j.name = tasks[i].name /\ j.wrong = w
  BY <1>2, <1>3, <1>4 DEF Task
<1> QED
  BY <1>1, <1>4, <1>5

(* A write names one backend of the tab's own or of another's.             *)
LEMMA WriterIs ==
  ASSUME Typed, NEW i \in DOMAIN tasks, tasks[i].kind = "write", tasks[i].at \in {"run", "parts"}
  PROVE  \E n \in tasks[i].names : /\ n = (CHOOSE m \in tasks[i].names : TRUE)
                                   /\ n \in Names \ Feeds
                                   /\ KeyOf(i) = KeyFor(tasks[i], n)
<1>1. tasks[i].names # {} /\ tasks[i].names \subseteq Names /\ tasks[i].names \cap Feeds = {}
  BY DEF Typed, Tasked, Real, Phased, Task, Ends
<1>2. PICK n : n = (CHOOSE m \in tasks[i].names : TRUE)
  OBVIOUS
<1>3. n \in tasks[i].names
  BY <1>1, <1>2
<1>4. KeyOf(i) = KeyFor(tasks[i], n)
  BY <1>2 DEF KeyOf
<1> QED
  BY <1>1, <1>2, <1>3, <1>4

(* Where a write goes.                                                     *)
LEMMA ServerIs ==
  ASSUME Typed, NEW i \in DOMAIN tasks, NEW at, Serves(i, at)
  PROVE  Server(i) \in Live \cup {0} /\ Server(i) \in 0 .. MaxRows
BY ServedIs, LookupIs, ConstantsAre DEF Serves, Server

-----------------------------------------------------------------------------
(* ... writes.                                                             *)

(* Rows of one text are the content of an object.                          *)
LEMMA ContentIs ==
  ASSUME NEW text \in Text, NEW size \in Nat
  PROVE  /\ Content(text, size) \in Seq(Text) /\ Len(Content(text, size)) = size
         /\ \A r \in 1 .. size : Content(text, size)[r] = text
<1>1. Content(text, size) \in [1 .. size -> Text]
  BY DEF Content
<1>2. Content(text, size) \in Seq(Text)
  BY <1>1, SeqDef
<1>3. Len(Content(text, size)) = size
  BY <1>2 DEF Content
<1>4. \A r \in 1 .. size : Content(text, size)[r] = text
  BY DEF Content
<1> QED
  BY <1>2, <1>3, <1>4

LEMMA NewContentIs ==
  ASSUME Typed, NEW i \in DOMAIN tasks
  PROVE  /\ tasks[i].text \in Text /\ tasks[i].text.size \in 0 .. 2
         /\ tasks[i].text.size \in Nat
         /\ NewContent(i) = Content(tasks[i].text, tasks[i].text.size)
         /\ NewContent(i) \in Seq(Text) /\ Len(NewContent(i)) = tasks[i].text.size
<1>1. tasks[i].text \in Text
  BY DEF Typed, Tasked, Task
<1>2. tasks[i].text.size \in 0 .. 2
  BY <1>1 DEF Text
<1> QED
  BY <1>1, <1>2, ContentIs DEF NewContent

(* An object is replaced, and the write is over.                           *)
LEMMA StoresTyped ==
  ASSUME Typed, NEW i \in DOMAIN tasks, NEW at, Serves(i, at), NEW o \in Seq(Text),
         Stores(i, o)
  PROVE  Typed'
<1>1. QuietTab /\ QuietPlan /\ UNCHANGED <<rows, uploads>>
  BY DEF Stores, QuietTab, QuietPlan, boundVars
<1>2. PICK b : b = Server(i)
  OBVIOUS
<1>3. b \in 0 .. MaxRows
  BY <1>2, ServerIs
<1>4. objects' = [objects EXCEPT ![b] = o] /\ Put(i, Over(Judged(i, "done"), "done"))
  BY <1>2 DEF Stores
<1>5. Stored'
  BY <1>1, <1>3, <1>4 DEF Typed, Stored
<1>6. Judged(i, "done") \in Task
  BY JudgedIs DEF Ats
<1> QED
  BY <1>1, <1>4, <1>5, <1>6, EndsTyped DEF Ends

LEMMA PutsTyped ==
  ASSUME Typed, NEW i \in DOMAIN tasks, PutOwn(i) \/ PutRemote(i) \/ PutSheet(i)
  PROVE  Typed'
<1>1. CASE PutOwn(i) \/ PutRemote(i)
  <2>1. Serves(i, "run") /\ Stores(i, NewContent(i))
    BY <1>1 DEF PutOwn, PutRemote
  <2> QED
    BY <2>1, StoresTyped, NewContentIs
<1>2. CASE PutSheet(i)
  <2>1. PICK old : old = objects[Server(i)]
    OBVIOUS
  <2>2. PICK o : o = NewContent(i) \o SubSeq(old, Len(NewContent(i)) + 1, Len(old))
    OBVIOUS
  <2>3. Serves(i, "run") /\ Stores(i, o)
    BY <1>2, <2>1, <2>2 DEF PutSheet
  <2>4. old \in Seq(Text)
    BY <2>1, <2>3, ServerIs DEF Typed, Stored
  <2>5. SubSeq(old, Len(NewContent(i)) + 1, Len(old)) \in Seq(Text)
    BY <2>4, NewContentIs, SubSeqProperties
  <2>6. o \in Seq(Text)
    BY <2>2, <2>5, NewContentIs, ConcatProperties
  <2> QED
    BY <2>3, <2>6, StoresTyped
<1> QED
  BY <1>1, <1>2

LEMMA InitiateTyped ==
  ASSUME Typed, NEW i \in DOMAIN tasks, Initiate(i)
  PROVE  Typed'
<1>1. QuietTab /\ QuietPlan /\ UNCHANGED <<rows, objects>>
  BY DEF Initiate, QuietTab, QuietPlan, boundVars
<1>2. PICK t : t = Judged(i, "parts")
  OBVIOUS
<1>3. Put(i, t) /\ tasks[i].kind = "write" /\ tasks[i].at = "run" /\ Serves(i, "run")
  BY <1>2 DEF Initiate, Serves
<1>4. Real(tasks[i], Len(creds))
  BY DEF Typed, Tasked
<1>5. /\ t \in Task /\ t.at = "parts" /\ t.kind = tasks[i].kind /\ t.names = tasks[i].names
      /\ t.todo = tasks[i].todo /\ t.keys = tasks[i].keys /\ t.key = tasks[i].key
      /\ t.checks = tasks[i].checks
  BY <1>2, JudgedIs DEF Ats
<1>6. HasKeys(t) /\ IsAsked(t) /\ Phased(t)
  BY <1>3, <1>4, <1>5 DEF Real, HasKeys, IsAsked, Phased, Asking, Ends
<1>7. Real(t, Len(creds))
  BY <1>4, <1>5, <1>6 DEF Real
<1>8. PICK u : u = <<Server(i), tasks[i].text, 0>>
  OBVIOUS
<1>9. u[1] \in 0 .. MaxRows /\ u[2] \in Text /\ u[3] \in 0 .. u[2].size
  BY <1>3, <1>8, ServerIs, NewContentIs
<1>10. uploads' = uploads \cup {u}
  BY <1>8 DEF Initiate
<1>11. Stored'
  BY <1>1, <1>9, <1>10 DEF Typed, Stored
<1> QED
  BY <1>1, <1>3, <1>7, <1>11, GoesOnTyped

LEMMA InitiateSheetTyped ==
  ASSUME Typed, NEW i \in DOMAIN tasks, InitiateSheet(i)
  PROVE  Typed'
<1>1. QuietStore /\ QuietTab /\ QuietPlan
  BY DEF InitiateSheet, QuietStore, QuietTab, QuietPlan, boundVars
<1>2. tasks[i] \in Task /\ Put(i, Over(tasks[i], "refused"))
  BY DEF Typed, Tasked, InitiateSheet
<1> QED
  BY <1>1, <1>2, EndsTyped, QuietKeeps DEF Ends

LEMMA UploadPartTyped ==
  ASSUME Typed, NEW i \in DOMAIN tasks, UploadPart(i)
  PROVE  Typed'
<1>1. QuietTab /\ QuietPlan /\ UNCHANGED <<rows, objects, tasks>>
  BY DEF UploadPart, QuietTab, QuietPlan, boundVars
<1>2. PICK u \in Parts(i) : /\ u[3] < tasks[i].text.size
                            /\ uploads' = (uploads \ {u}) \cup {<<Server(i), u[2], u[3] + 1>>}
  BY DEF UploadPart
<1>3. PICK v : v = <<Server(i), u[2], u[3] + 1>>
  OBVIOUS
<1>4. u \in uploads /\ u[2] = tasks[i].text /\ Server(i) \in 0 .. MaxRows
  BY ServerIs DEF Parts, UploadPart
<1>5. v[1] \in 0 .. MaxRows /\ v[2] \in Text /\ v[3] \in 0 .. v[2].size
  BY SMTT(20), <1>2, <1>3, <1>4, NewContentIs DEF Typed, Stored
<1>6. Stored'
  BY <1>1, <1>2, <1>3, <1>5 DEF Typed, Stored
<1>7. Tasked'
  BY <1>1, QuietKeeps DEF Typed, Tasked
<1> QED
  BY <1>1, <1>6, <1>7, QuietKeeps DEF Typed

LEMMA CompleteTyped ==
  ASSUME Typed, NEW i \in DOMAIN tasks, Complete(i)
  PROVE  Typed'
<1>1. QuietTab /\ QuietPlan /\ UNCHANGED rows
  BY DEF Complete, QuietTab, QuietPlan, boundVars
<1>2. PICK b, o : /\ b = Server(i) /\ o = Content(tasks[i].text, tasks[i].text.size)
                  /\ objects' = [objects EXCEPT ![b] = o]
  BY DEF Complete
<1>3. b \in 0 .. MaxRows /\ o \in Seq(Text)
  BY <1>2, ServerIs, NewContentIs DEF Complete
<1>4. uploads' \subseteq uploads
  BY DEF Complete
<1>5. Stored'
  BY <1>1, <1>2, <1>3, <1>4 DEF Typed, Stored
<1>6. Judged(i, "done") \in Task /\ Put(i, Over(Judged(i, "done"), "done"))
  BY JudgedIs DEF Ats, Complete
<1> QED
  BY <1>1, <1>5, <1>6, EndsTyped DEF Ends

LEMMA NoSuchUploadTyped ==
  ASSUME Typed, NEW i \in DOMAIN tasks, NoSuchUpload(i)
  PROVE  Typed'
<1>1. QuietStore /\ QuietTab /\ QuietPlan
  BY DEF NoSuchUpload, QuietStore, QuietTab, QuietPlan, boundVars
<1>2. tasks[i] \in Task /\ Put(i, Over(tasks[i], "missing"))
  BY DEF Typed, Tasked, NoSuchUpload
<1> QED
  BY <1>1, <1>2, EndsTyped, QuietKeeps DEF Ends

-----------------------------------------------------------------------------
(* ... ends of tasks, and the world.                                       *)

LEMMA LeaveTyped ==
  ASSUME Typed, NEW i \in DOMAIN tasks, Leave(i)
  PROVE  Typed'
<1>1. QuietStore /\ QuietTab /\ QuietPlan
  BY DEF Leave, QuietStore, QuietTab, QuietPlan, boundVars
<1>2. tasks' = [j \in DOMAIN tasks \ {i} |-> tasks[j]]
  BY DEF Leave
<1>3. Tasked'
  BY <1>1, <1>2, QuietKeeps DEF Typed, Tasked
<1> QED
  BY <1>1, <1>3, QuietKeeps DEF Typed

LEMMA LoseTyped ==
  ASSUME Typed, NEW i \in DOMAIN tasks, Lose(i)
  PROVE  Typed'
<1>1. QuietStore /\ QuietTab /\ QuietPlan
  BY DEF Lose, QuietStore, QuietTab, QuietPlan
<1>2. tasks[i] \in Task /\ Put(i, Over(tasks[i], "refused"))
  BY DEF Typed, Tasked, Lose
<1> QED
  BY <1>1, <1>2, EndsTyped, QuietKeeps DEF Ends

(* Credentials change in what does not matter to the tasks.                *)
LEMMA SameKeysTyped ==
  ASSUME Typed, creds' \in Seq(Credential), Len(creds') = Len(creds), UNCHANGED tabVars,
         place' \in Places,
         slow' \in BOOLEAN, UNCHANGED overtaken, roamed' \in BOOLEAN, QuietPlan, Stored', Tasked'
  PROVE  Typed'
<1>1. Held'
  BY DEF Typed, Held, tabVars, Keys
<1> QED
  BY <1>1, QuietKeeps DEF Typed

LEMMA PropagateTyped ==
  ASSUME Typed, NEW k \in DOMAIN creds, NEW p \in Places, Propagate(k, p)
  PROVE  Typed'
<1>1. QuietStore /\ QuietPlan /\ UNCHANGED <<tabVars, tasks, place, historyVars>>
  BY DEF Propagate, QuietStore, QuietPlan, boundVars
<1>2. PICK c : c = [creds[k] EXCEPT !.seen = @ \cup {p}]
  OBVIOUS
<1>3. creds' = [creds EXCEPT ![k] = c]
  BY <1>2 DEF Propagate
<1>4. c \in Credential
  BY <1>2, CountsKeys DEF Credential
<1>5. creds' \in Seq(Credential) /\ Len(creds') = Len(creds)
  BY <1>3, <1>4, ExceptSeq DEF Typed, Held
<1>6. Tasked'
  BY <1>1, <1>5 DEF Typed, Tasked
<1>7. slow' \in BOOLEAN /\ roamed' \in BOOLEAN /\ UNCHANGED overtaken /\ place' \in Places
  BY <1>1 DEF Typed, Held, historyVars
<1> QED
  BY <1>1, <1>5, <1>6, <1>7, SameKeysTyped, QuietKeeps

(* What a task notes when its credential becomes old.                      *)
Noted(t, k) == [t EXCEPT !.aged = @ \cup {k}]

LEMMA AgedIs ==
  ASSUME NEW t, NEW n \in Nat, Real(t, n), NEW k \in Nat, NEW u, u = Noted(t, k)
  PROVE  /\ Real(u, n) /\ u.aged = t.aged \cup {k} /\ u.at = t.at
         /\ u.kind = t.kind /\ u.names = t.names /\ u.todo = t.todo /\ u.keys = t.keys
         /\ u.key = t.key /\ u.name = t.name /\ u.wrong = t.wrong
<1>1. t \in Task
  BY DEF Real
<1>2. /\ u \in Task /\ u.aged = t.aged \cup {k} /\ u.at = t.at /\ u.checks = t.checks
      /\ u.kind = t.kind /\ u.names = t.names /\ u.todo = t.todo /\ u.keys = t.keys
      /\ u.key = t.key /\ u.name = t.name /\ u.wrong = t.wrong
  BY <1>1 DEF Task, Noted
<1>3. HasKeys(u) /\ IsAsked(u) /\ Phased(u)
  BY <1>1, <1>2 DEF Real, HasKeys, IsAsked, Phased, Asking
<1> QED
  BY <1>2, <1>3 DEF Real

(* A credential becomes older, and the tasks that have it note that.       *)
LEMMA AgeIs ==
  ASSUME Typed, NEW k \in DOMAIN creds, Age(k)
  PROVE  /\ creds' \in Seq(Credential) /\ Len(creds') = Len(creds)
         /\ \A j \in DOMAIN creds :
              /\ creds'[j].backend = creds[j].backend /\ creds'[j].bucket = creds[j].bucket
              /\ creds'[j].seen = creds[j].seen
              /\ creds'[j].age = (IF j = k THEN creds[j].age + 1 ELSE creds[j].age)
         /\ creds[k].age \in {0, 1}
         /\ DOMAIN tasks' = DOMAIN tasks
         /\ \A i \in DOMAIN tasks :
              tasks'[i] = (IF creds[k].age = 0 /\ k \in Range(tasks[i].keys)
                           THEN Noted(tasks[i], k) ELSE tasks[i])
         /\ tasks' \in [DOMAIN tasks -> {tasks[i] : i \in DOMAIN tasks}
                                        \cup {Noted(tasks[i], k) : i \in DOMAIN tasks}]
<1>1. PICK c : c = [creds[k] EXCEPT !.age = @ + 1]
  OBVIOUS
<1>2. creds' = [creds EXCEPT ![k] = c]
  BY <1>1 DEF Age
<1>3. creds[k] \in Credential /\ creds[k].age \in {0, 1}
  BY CountsKeys DEF Age, Credential
<1>4. /\ c \in Credential /\ c.backend = creds[k].backend /\ c.bucket = creds[k].bucket
      /\ c.seen = creds[k].seen /\ c.age = creds[k].age + 1
  BY <1>1, <1>3 DEF Credential
<1>5. creds' \in Seq(Credential) /\ Len(creds') = Len(creds)
      /\ \A j \in DOMAIN creds : creds'[j] = (IF j = k THEN c ELSE creds[j])
  BY <1>2, <1>4, ExceptSeq, CountsKeys DEF Typed, Held
<1>6. CASE creds[k].age = 0
  <2>1. tasks' = [i \in DOMAIN tasks |->
                   IF k \in Range(tasks[i].keys) THEN Noted(tasks[i], k) ELSE tasks[i]]
    BY <1>6 DEF Age, Noted
  <2> QED
    BY <1>3, <1>4, <1>5, <1>6, <2>1
<1>7. CASE creds[k].age # 0
  <2>1. UNCHANGED tasks
    BY <1>7 DEF Age
  <2>2. tasks' \in [DOMAIN tasks -> {tasks[i] : i \in DOMAIN tasks}
                                    \cup {Noted(tasks[i], k) : i \in DOMAIN tasks}]
    BY <2>1 DEF Typed, Tasked
  <2> QED
    BY <1>3, <1>4, <1>5, <1>7, <2>1, <2>2
<1> QED
  BY <1>6, <1>7

LEMMA AgeTyped ==
  ASSUME Typed, NEW k \in DOMAIN creds, Age(k)
  PROVE  Typed'
<1>1. QuietStore /\ QuietPlan /\ UNCHANGED <<tabVars, place, overtaken, roamed>>
  BY DEF Age, QuietStore, QuietPlan, boundVars
<1>2. k \in Nat /\ Len(creds) \in Nat /\ creds' \in Seq(Credential) /\ Len(creds') = Len(creds)
  BY CountsKeys, AgeIs
<1>3. \A i \in DOMAIN tasks : Real(tasks[i], Len(creds))
  BY DEF Typed, Tasked
<1>4. \A i \in DOMAIN tasks : Real(Noted(tasks[i], k), Len(creds))
  BY <1>2, <1>3, AgedIs
<1>5. DOMAIN tasks' = DOMAIN tasks
      /\ \A i \in DOMAIN tasks : Real(tasks'[i], Len(creds))
  BY <1>3, <1>4, AgeIs
<1>6. tasks' \in [DOMAIN tasks -> Task]
  BY <1>3, <1>4, AgeIs DEF Real
<1>7. Tasked'
  BY <1>2, <1>5, <1>6 DEF Typed, Tasked
<1>8. slow' \in BOOLEAN /\ roamed' \in BOOLEAN /\ UNCHANGED overtaken /\ place' \in Places
  BY <1>1 DEF Age, Typed, Held
<1> QED
  BY <1>1, <1>2, <1>7, <1>8, SameKeysTyped, QuietKeeps

LEMMA RoamTyped ==
  ASSUME Typed, NEW p \in Places, Roam(p)
  PROVE  Typed'
<1>1. QuietStore /\ QuietPlan /\ UNCHANGED <<tabVars, tasks, creds, overtaken, slow>>
  BY DEF Roam, QuietStore, QuietPlan
<1>2. Tasked'
  BY <1>1 DEF Typed, Tasked
<1>3. slow' \in BOOLEAN /\ roamed' \in BOOLEAN /\ place' \in Places
      /\ creds' \in Seq(Credential) /\ Len(creds') = Len(creds)
  BY <1>1 DEF Roam, Typed, Held
<1> QED
  BY <1>1, <1>2, <1>3, SameKeysTyped, QuietKeeps

(* The user edits the backends: nothing of the tab changes.                *)
LEMMA EditedTyped ==
  ASSUME Typed, Edited, rows' \in Seq(Backend), Len(rows') <= MaxRows
  PROVE  Typed'
<1>1. UNCHANGED <<objects, uploads, creds, tabVars, tasks, place, slow, overtaken, roamed,
                  queries, usage>>
  BY DEF Edited
<1>2. QuietPlan /\ Stored' /\ Tasked'
  BY <1>1 DEF Typed, Stored, Tasked, QuietPlan
<1>3. creds' \in Seq(Credential) /\ Len(creds') = Len(creds) /\ place' \in Places
      /\ slow' \in BOOLEAN /\ roamed' \in BOOLEAN
  BY <1>1 DEF Typed, Held
<1> QED
  BY <1>1, <1>2, <1>3, SameKeysTyped

LEMMA AddTyped ==
  ASSUME Typed, NEW n \in Names, NEW type \in Types, Add(n, type)
  PROVE  Typed'
<1>1. PICK r : r = [name |-> n, type |-> type, live |-> TRUE]
  OBVIOUS
<1>2. rows' = Append(rows, r) /\ Len(rows) < MaxRows /\ Edited
  BY <1>1 DEF Add
<1>3. r \in Backend
  BY <1>1, ConstantsAre DEF Backend, Add, Free
<1>4. rows' \in Seq(Backend) /\ Len(rows') <= MaxRows
  BY <1>2, <1>3, ConstantsAre DEF Typed, Stored
<1> QED
  BY <1>2, <1>4, EditedTyped

(* A row that changes.                                                     *)
LEMMA RowChanges ==
  ASSUME Typed, NEW b \in DOMAIN rows, NEW r \in Backend, rows' = [rows EXCEPT ![b] = r],
         Edited
  PROVE  Typed'
<1>1. rows' \in Seq(Backend) /\ Len(rows') <= MaxRows
  BY ExceptSeq DEF Typed, Stored
<1> QED
  BY <1>1, EditedTyped

LEMMA RenameTyped ==
  ASSUME Typed, NEW b \in DOMAIN rows, NEW n \in Names, Rename(b, n)
  PROVE  Typed'
<1>1. PICK r : r = [rows[b] EXCEPT !.name = n]
  OBVIOUS
<1>2. rows' = [rows EXCEPT ![b] = r] /\ n \notin BuiltIn /\ rows[b] \in Backend /\ Edited
  BY <1>1, ElementOfSeq DEF Rename, Free, Typed, Stored
<1>3. r \in Backend
  BY <1>1, <1>2 DEF Backend
<1> QED
  BY <1>2, <1>3, RowChanges

LEMMA RemoveTyped ==
  ASSUME Typed, NEW b \in DOMAIN rows, Remove(b)
  PROVE  Typed'
<1>1. PICK r : r = [rows[b] EXCEPT !.live = FALSE]
  OBVIOUS
<1>2. rows' = [rows EXCEPT ![b] = r] /\ rows[b] \in Backend /\ Edited
  BY <1>1, ElementOfSeq DEF Remove, Typed, Stored
<1>3. r \in Backend
  BY <1>1, <1>2 DEF Backend
<1> QED
  BY <1>2, <1>3, RowChanges

-----------------------------------------------------------------------------
(* All steps.                                                              *)

Comes(i) ==
  \/ \E n \in Names : StartView(i, n)
  \/ \E kind \in Kinds \ {"view"}, names \in SUBSET Names, size \in 0 .. 2 :
       /\ kind = "write" => names # {} /\ names \cap Feeds = {}
       /\ Start(i, kind, names, size)

Prepares(i, n) == Resolve(i, n) \/ SetSecret(i, n) \/ ReadFails(i, n)
GetsAny(i, n) == \E types : GetsRows(i, n, types)
Asks(i) == Vend(i) \/ Check(i) \/ VendToken(i) \/ Acquire(i)
Writes(i) == \/ PutOwn(i) \/ PutRemote(i) \/ PutSheet(i)
             \/ Initiate(i) \/ InitiateSheet(i) \/ UploadPart(i) \/ Complete(i)
             \/ NoSuchUpload(i) \/ WriteFails(i)
Edits == \/ \E n \in Names, type \in Types : Add(n, type)
         \/ \E b \in DOMAIN rows : Remove(b) \/ \E n \in Names : Rename(b, n)

LEMMA EditsIs ==
  ASSUME Edits
  PROVE  Edited
BY DEF Edits, Add, Rename, Remove

(* What the steps are.                                                     *)
LEMMA UserIs ==
  ASSUME Plan, User
  PROVE  \E i \in Ids : Comes(i)
<1>1. usage.names \subseteq Names /\ usage.kinds \subseteq Kinds
  BY DEF Plan
<1>2. PICK i \in Ids, n \in usage.names, kind \in usage.kinds :
        \/ kind = "register" /\ Start(i, kind, {n}, 0)
        \/ kind = "query" /\ \E m \in usage.names : Start(i, kind, {n, m}, 0)
        \/ kind = "view" /\ StartView(i, n)
        \/ kind = "write" /\ n \notin Feeds /\ \E size \in {1, 2} : Start(i, kind, {n}, size)
  BY DEF User
<1>3. n \in Names /\ {n} \in SUBSET Names /\ {n} # {}
  BY <1>1
<1>4. CASE kind = "register" /\ Start(i, kind, {n}, 0)
  <2>1. kind \in Kinds \ {"view"} /\ kind # "write" /\ 0 \in 0 .. 2
    BY <1>4 DEF Kinds
  <2> QED
    BY <1>3, <1>4, <2>1 DEF Comes
<1>5. CASE kind = "query" /\ \E m \in usage.names : Start(i, kind, {n, m}, 0)
  <2>1. PICK m \in usage.names : Start(i, kind, {n, m}, 0)
    BY <1>5
  <2>2. {n, m} \in SUBSET Names
    BY <1>1, <1>3
  <2>3. kind \in Kinds \ {"view"} /\ kind # "write" /\ 0 \in 0 .. 2
    BY <1>5 DEF Kinds
  <2> QED
    BY <2>1, <2>2, <2>3 DEF Comes
<1>6. CASE kind = "view" /\ StartView(i, n)
  BY <1>3, <1>6 DEF Comes
<1>7. CASE kind = "write" /\ n \notin Feeds /\ \E size \in {1, 2} : Start(i, kind, {n}, size)
  <2>1. PICK size \in {1, 2} : Start(i, kind, {n}, size)
    BY <1>7
  <2>2. kind \in Kinds \ {"view"} /\ size \in 0 .. 2 /\ {n} \cap Feeds = {}
    BY <1>7 DEF Kinds
  <2> QED
    BY <1>3, <2>1, <2>2 DEF Comes
<1> QED
  BY <1>2, <1>4, <1>5, <1>6, <1>7

LEMMA NextIs ==
  ASSUME Plan, Next
  PROVE  \/ \E i \in Ids : Comes(i)
         \/ \E i \in DOMAIN tasks : \/ \E n \in Names : Prepares(i, n) \/ GetsAny(i, n)
                                    \/ Asks(i) \/ Writes(i) \/ Leave(i) \/ Lose(i)
         \/ \E k \in DOMAIN creds : Age(k) \/ \E p \in Places : Propagate(k, p)
         \/ \E p \in Places : Roam(p)
         \/ Edits
<1>1. CASE Work
  <2>1. PICK i \in DOMAIN tasks :
          \/ \E n \in Names :
               \/ Resolve(i, n) \/ SetSecret(i, n) \/ ReadFails(i, n)
               \/ ReadOwn(i, n) \/ ReadRemote(i, n) \/ ReadSheet(i, n) \/ ReadFeed(i, n)
          \/ Asks(i) \/ Writes(i) \/ Leave(i)
    BY <1>1 DEF Work, Asks, Writes
  <2>2. \A n \in Names :
          ReadOwn(i, n) \/ ReadRemote(i, n) \/ ReadSheet(i, n) \/ ReadFeed(i, n) => GetsAny(i, n)
    BY DEF ReadOwn, ReadRemote, ReadSheet, ReadFeed, GetsAny
  <2> QED
    BY <2>1, <2>2 DEF Prepares
<1>2. CASE User
  BY <1>2, UserIs
<1>3. CASE World
  <2>1. usage.edited \subseteq Names
    BY DEF Plan
  <2> QED
    BY <1>3, <2>1 DEF World, Edits
<1> QED
  BY <1>1, <1>2, <1>3 DEF Next

LEMMA StepTyped ==
  ASSUME Typed, [Next]_vars
  PROVE  Typed'
<1>1. CASE UNCHANGED vars
  <2>1. UNCHANGED <<rows, objects, uploads, creds, cache, secrets, views, tasks, place,
                    former, slow, overtaken, roamed, usage, queries>>
    BY <1>1 DEF vars, storeVars, tabVars, historyVars
  <2>2. QuietStore /\ QuietTab /\ QuietPlan
    BY <2>1 DEF QuietStore, QuietTab, QuietPlan, storeVars, tabVars, historyVars
  <2>3. Tasked'
    BY <2>1 DEF Typed, Tasked
  <2> QED
    BY <2>2, <2>3, QuietKeeps DEF Typed
<1>2. CASE \E i \in Ids : Comes(i)
  BY <1>2, StartTyped, StartViewTyped DEF Comes
<1>3. ASSUME NEW i \in DOMAIN tasks, NEW n \in Names, Prepares(i, n) \/ GetsAny(i, n)
      PROVE  Typed'
  BY <1>3, ResolveTyped, SetSecretTyped, ReadFailsTyped, GetsRowsTyped DEF Prepares, GetsAny
<1>4. ASSUME NEW i \in DOMAIN tasks, Asks(i)
      PROVE  Typed'
  BY <1>4, VendTyped, CheckTyped, VendTokenTyped, AcquireTyped DEF Asks
<1>5. ASSUME NEW i \in DOMAIN tasks, Writes(i)
      PROVE  Typed'
  BY <1>5, PutsTyped, InitiateTyped, InitiateSheetTyped, UploadPartTyped, CompleteTyped,
     NoSuchUploadTyped, WriteFailsTyped DEF Writes
<1>6. ASSUME NEW i \in DOMAIN tasks, Leave(i) \/ Lose(i)
      PROVE  Typed'
  BY <1>6, LeaveTyped, LoseTyped
<1>7. ASSUME NEW k \in DOMAIN creds, Age(k) \/ \E p \in Places : Propagate(k, p)
      PROVE  Typed'
  BY <1>7, AgeTyped, PropagateTyped
<1>8. CASE \E p \in Places : Roam(p)
  BY <1>8, RoamTyped
<1>9. CASE Edits
  BY <1>9, AddTyped, RemoveTyped, RenameTyped DEF Edits
<1>10. CASE Next
  BY <1>10, <1>2, <1>3, <1>4, <1>5, <1>6, <1>7, <1>8, <1>9, NextIs DEF Typed
<1> QED
  BY <1>1, <1>10

LEMMA InitTyped ==
  ASSUME Init
  PROVE  Typed
<1>1. PICK start \in Starts :
        /\ rows = start.rows
        /\ usage = [kinds |-> start.kinds, names |-> start.names,
                    outside |-> start.outside, edited |-> start.edited]
        /\ queries = start.queries
  BY DEF Init
<1>2. /\ start.rows \in Seq([name : Names \ BuiltIn, type : AllTypes, live : {TRUE}])
      /\ Len(start.rows) <= MaxRows
      /\ start.kinds \subseteq Kinds /\ start.names \subseteq Names
      /\ start.edited \subseteq Names /\ start.queries \in 0 .. MaxQueries
  BY StorageAssumption
<1>3. Plan
  BY <1>1, <1>2, ConstantsAre DEF Plan
<1>4. rows \in Seq(Backend)
  <2>1. [name : Names \ BuiltIn, type : AllTypes, live : {TRUE}] \subseteq Backend
    BY DEF Backend
  <2>2. PICK n \in Nat : rows \in [1 .. n -> [name : Names \ BuiltIn, type : AllTypes,
                                              live : {TRUE}]]
    <3>1. PICK S : S = [name : Names \ BuiltIn, type : AllTypes, live : {TRUE}]
      OBVIOUS
    <3>2. rows \in Seq(S)
      BY <1>1, <1>2, <3>1
    <3>3. rows \in [1 .. Len(rows) -> S] /\ Len(rows) \in Nat
      BY <3>2
    <3> QED
      BY <3>1, <3>3
  <2>3. rows \in [1 .. n -> Backend]
    BY <2>1, <2>2
  <2> QED
    BY <2>3, SeqDef
<1>5. objects \in [0 .. MaxRows -> Seq(Text)] /\ uploads = {}
  <2>1. <<>> \in Seq(Text)
    OBVIOUS
  <2> QED
    BY <2>1 DEF Init
<1>6. Stored
  BY <1>1, <1>2, <1>4, <1>5 DEF Stored
<1>7. creds = <<>> /\ Len(creds) = 0 /\ Keys = {0}
  BY DEF Init, Keys
<1>8. creds \in Seq(Credential) /\ place \in Places
  BY <1>7, ConstantsAre DEF Init
<1>9. cache \in [Names -> Keys] /\ views \in [Names -> Keys] /\ secrets \in [Range(Clean) -> Keys]
  BY <1>7 DEF Init
<1>10. Held
  BY <1>8, <1>9 DEF Init, Held
<1>11. DOMAIN tasks = {} /\ tasks = [i \in {} |-> tasks[i]]
  BY DEF Init
<1>12. Tasked
  BY <1>11 DEF Tasked
<1> QED
  BY <1>3, <1>6, <1>10, <1>12 DEF Typed

-----------------------------------------------------------------------------
(* What the other steps do to the tab.                                     *)

LEMMA FailsShape ==
  ASSUME Typed, NEW i \in DOMAIN tasks,
         \/ \E n \in Names : ReadFails(i, n)
         \/ WriteFails(i) \/ InitiateSheet(i) \/ NoSuchUpload(i) \/ Lose(i)
  PROVE  EndsNow(i)
<1>1. tasks[i] \in Task /\ JudgedBy(i, tasks[i].wrong)
  BY DEF Typed, Tasked, JudgedBy
<1>2. ASSUME NEW n \in Names, ReadFails(i, n)
      PROVE  EndsNow(i)
  <2>1. PICK v : v = Verdict(KeyFor(tasks[i], n))
    OBVIOUS
  <2>2. v \in Ends /\ Put(i, Over(tasks[i], v))
    BY <1>2, <2>1, VerdictIs DEF ReadFails, Ends
  <2>3. QuietTab /\ UNCHANGED rows
    BY <1>2 DEF ReadFails, QuietTab, storeVars
  <2> QED
    BY <1>1, <2>2, <2>3 DEF EndsNow
<1>3. CASE WriteFails(i)
  <2>1. PICK v : v = Verdict(KeyOf(i))
    OBVIOUS
  <2>2. v \in Ends /\ Put(i, Over(tasks[i], v))
    BY <1>3, <2>1, VerdictIs DEF WriteFails, Ends
  <2>3. QuietTab /\ UNCHANGED rows
    BY <1>3 DEF WriteFails, QuietTab, storeVars
  <2> QED
    BY <1>1, <2>2, <2>3 DEF EndsNow
<1>4. CASE InitiateSheet(i) \/ NoSuchUpload(i) \/ Lose(i)
  <2>1. Put(i, Over(tasks[i], "refused")) \/ Put(i, Over(tasks[i], "missing"))
    BY <1>4 DEF InitiateSheet, NoSuchUpload, Lose
  <2>2. QuietTab /\ UNCHANGED rows
    BY <1>4 DEF InitiateSheet, NoSuchUpload, Lose, QuietTab, storeVars
  <2> QED
    BY <1>1, <2>1, <2>2 DEF EndsNow, Ends
<1> QED
  BY <1>2, <1>3, <1>4

(* A write is judged by the request that is served.                        *)
LEMMA JudgedShape ==
  ASSUME Typed, NEW i \in DOMAIN tasks, NEW at \in Ats, NEW was \in {"run", "parts"},
         Serves(i, was)
  PROVE  JudgedBy(i, Judged(i, at).wrong)
<1>1. Verdict(KeyOf(i)) = "served" /\ tasks[i].kind = "write" /\ tasks[i].at \in {"run", "parts"}
  BY DEF Serves
<1>2. PICK n \in tasks[i].names : /\ n = (CHOOSE m \in tasks[i].names : TRUE)
                                  /\ KeyOf(i) = KeyFor(tasks[i], n)
  BY <1>1, WriterIs
<1>3. Judged(i, at).wrong = Wrong(tasks[i], n, KeyFor(tasks[i], n))
  BY <1>2, JudgedIs
<1> QED
  BY <1>1, <1>2, <1>3 DEF JudgedBy

LEMMA WritesShape ==
  ASSUME Typed, NEW i \in DOMAIN tasks, Writes(i)
  PROVE  EndsNow(i) \/ MovesNow(i) \/ Idle
<1>1. ASSUME NEW o, NEW was \in {"run", "parts"}, Serves(i, was), Stores(i, o)
      PROVE  EndsNow(i)
  <2>1. QuietTab /\ UNCHANGED rows /\ Put(i, Over(Judged(i, "done"), "done"))
    BY <1>1 DEF Stores, QuietTab
  <2>2. Judged(i, "done") \in Task /\ Judged(i, "done").kind = tasks[i].kind
        /\ JudgedBy(i, Judged(i, "done").wrong)
    BY <1>1, JudgedIs, JudgedShape DEF Ats
  <2> QED
    BY <2>1, <2>2 DEF EndsNow, Ends
<1>2. CASE PutOwn(i) \/ PutRemote(i) \/ PutSheet(i)
  <2>1. Serves(i, "run") /\ \E o : Stores(i, o)
    BY <1>2 DEF PutOwn, PutRemote, PutSheet
  <2> QED
    BY <1>1, <2>1
<1>3. CASE Complete(i)
  <2>1. QuietTab /\ UNCHANGED rows /\ Put(i, Over(Judged(i, "done"), "done")) /\ Serves(i, "parts")
    BY <1>3 DEF Complete, QuietTab
  <2>2. Judged(i, "done") \in Task /\ Judged(i, "done").kind = tasks[i].kind
        /\ JudgedBy(i, Judged(i, "done").wrong)
    BY <2>1, JudgedIs, JudgedShape DEF Ats
  <2> QED
    BY <2>1, <2>2 DEF EndsNow, Ends
<1>4. CASE Initiate(i)
  <2>1. PICK t : t = Judged(i, "parts")
    OBVIOUS
  <2>2. QuietTab /\ UNCHANGED rows /\ Put(i, t) /\ Serves(i, "run")
    BY <1>4, <2>1 DEF Initiate, QuietTab
  <2>3. Real(tasks[i], Len(creds)) /\ tasks[i].kind = "write" /\ tasks[i].at = "run"
    BY <2>2 DEF Typed, Tasked, Serves
  <2>4. /\ t \in Task /\ t.at = "parts" /\ t.kind = tasks[i].kind /\ t.names = tasks[i].names
        /\ t.todo = tasks[i].todo /\ t.keys = tasks[i].keys /\ t.key = tasks[i].key
        /\ t.checks = tasks[i].checks /\ t.aged = tasks[i].aged
    BY <2>1, JudgedIs DEF Ats
  <2>5. HasKeys(t) /\ IsAsked(t) /\ Phased(t)
    BY <2>3, <2>4 DEF Real, HasKeys, IsAsked, Phased, Asking, Ends
  <2>6. Real(t, Len(creds))
    BY <2>3, <2>4, <2>5 DEF Real
  <2>7. Moves(tasks[i], t)
    BY <2>3, <2>4 DEF Moves
  <2>8. JudgedBy(i, t.wrong)
    BY <2>1, <2>2, JudgedShape DEF Ats
  <2> QED
    BY <2>2, <2>4, <2>6, <2>7, <2>8 DEF MovesNow
<1>5. CASE UploadPart(i)
  BY <1>5 DEF UploadPart, Idle, QuietTab
<1>6. CASE InitiateSheet(i) \/ NoSuchUpload(i) \/ WriteFails(i)
  BY <1>6, FailsShape
<1> QED
  BY <1>2, <1>3, <1>4, <1>5, <1>6 DEF Writes

(* Everything a step can do to the tab.                                    *)
Changes(i) == \/ EndsNow(i) \/ MovesNow(i) \/ Vends(i) \/ Acquire(i) \/ Leave(i)
              \/ \E n \in Names : Takes(i, n) \/ SetSecret(i, n) \/ GetsAny(i, n)

LEMMA StepShape ==
  ASSUME Typed, [Next]_vars
  PROVE  \/ Idle
         \/ \E i \in Ids : Comes(i)
         \/ \E i \in DOMAIN tasks : Changes(i)
         \/ \E k \in DOMAIN creds : Age(k) \/ \E p \in Places : Propagate(k, p)
         \/ \E p \in Places : Roam(p)
         \/ Edits
<1>1. CASE UNCHANGED vars
  BY <1>1 DEF vars, storeVars, tabVars, historyVars, Idle, QuietTab
<1>2. ASSUME NEW i \in DOMAIN tasks, NEW n \in Names, Prepares(i, n) \/ GetsAny(i, n)
      PROVE  Changes(i)
  BY <1>2, ResolveShape, FailsShape DEF Prepares, Changes
<1>3. ASSUME NEW i \in DOMAIN tasks, Asks(i) \/ Leave(i) \/ Lose(i)
      PROVE  Changes(i)
  BY <1>3, VendShape, VendTokenShape, CheckShape, FailsShape DEF Asks, Changes
<1>4. ASSUME NEW i \in DOMAIN tasks, Writes(i)
      PROVE  Changes(i) \/ Idle
  BY <1>4, WritesShape DEF Changes
<1>5. CASE Next
  <2>1. Plan
    BY DEF Typed
  <2> QED
    BY <1>2, <1>3, <1>4, <1>5, <2>1, NextIs
<1> QED
  BY <1>1, <1>5

-----------------------------------------------------------------------------
(* What a step keeps.                                                      *)

LEMMA PropagateIs ==
  ASSUME Typed, NEW k \in DOMAIN creds, NEW p, Propagate(k, p)
  PROVE  /\ Len(creds') = Len(creds) /\ p = place
         /\ \A j \in DOMAIN creds :
              /\ creds'[j].backend = creds[j].backend /\ creds'[j].bucket = creds[j].bucket
              /\ creds'[j].age = creds[j].age
              /\ creds'[j].seen = (IF j = k THEN creds[j].seen \cup {p} ELSE creds[j].seen)
<1>1. PICK c : c = [creds[k] EXCEPT !.seen = @ \cup {p}]
  OBVIOUS
<1>2. creds' = [creds EXCEPT ![k] = c]
  BY <1>1 DEF Propagate
<1>3. creds[k] \in Credential
  BY CountsKeys
<1>4. /\ c.backend = creds[k].backend /\ c.bucket = creds[k].bucket
      /\ c.age = creds[k].age /\ c.seen = creds[k].seen \cup {p}
  BY <1>1, <1>3 DEF Credential
<1>5. Len(creds') = Len(creds)
      /\ \A j \in DOMAIN creds : creds'[j] = (IF j = k THEN c ELSE creds[j])
  BY <1>2 DEF Typed, Held
<1>6. p = place
  BY DEF Propagate
<1> QED
  BY <1>4, <1>5, <1>6

(* A credential is for the same object of the same backend for good, it    *)
(* becomes older, and what has seen it does not forget it.                 *)
Kept(k) ==
  /\ k \in DOMAIN creds'
  /\ creds'[k].bucket = creds[k].bucket /\ creds'[k].backend = creds[k].backend
  /\ creds[k].seen \subseteq creds'[k].seen
  /\ creds[k].age <= creds'[k].age

LEMMA CredsKept ==
  ASSUME Typed, [Next]_vars, NEW k \in DOMAIN creds
  PROVE  Kept(k)
<1>0. Typed' /\ creds[k] \in Credential
  BY StepTyped, CountsKeys
<1>1. CASE UNCHANGED creds
  BY <1>0, <1>1 DEF Kept, Credential
<1>2. ASSUME NEW i \in DOMAIN tasks, Vends(i)
      PROVE  Kept(k)
  <2>1. PICK c \in Credential : creds' = Append(creds, c)
    BY <1>2 DEF Vends
  <2>2. creds'[k] = creds[k] /\ Len(creds') = Len(creds) + 1
    BY <1>2, <2>1, AppendsTyped DEF Vends
  <2>3. Len(creds) \in Nat /\ k \in 1 .. Len(creds) /\ creds' \in Seq(Credential)
    BY <1>0, CountsKeys DEF Typed, Held
  <2>4. k \in DOMAIN creds'
    BY <2>2, <2>3
  <2> QED
    BY <1>0, <2>2, <2>4 DEF Kept, Credential
<1>3. ASSUME NEW j \in DOMAIN creds, Age(j)
      PROVE  Kept(k)
  <2>1. Len(creds') = Len(creds) /\ creds' \in Seq(Credential)
    BY <1>3, AgeIs
  <2>2. /\ creds'[k].backend = creds[k].backend /\ creds'[k].bucket = creds[k].bucket
        /\ creds'[k].seen = creds[k].seen
        /\ creds'[k].age = (IF k = j THEN creds[k].age + 1 ELSE creds[k].age)
    BY <1>3, AgeIs
  <2> QED
    BY <1>0, <2>1, <2>2, CountsKeys DEF Kept, Credential
<1>4. ASSUME NEW j \in DOMAIN creds, NEW p, Propagate(j, p)
      PROVE  Kept(k)
  <2>1. Len(creds') = Len(creds) /\ creds' \in Seq(Credential)
    BY <1>0, <1>4, PropagateIs DEF Typed, Held
  <2>2. k \in DOMAIN creds'
    BY <2>1, CountsKeys
  <2>3. /\ creds'[k].backend = creds[k].backend /\ creds'[k].bucket = creds[k].bucket
        /\ creds'[k].age = creds[k].age /\ creds[k].seen \subseteq creds'[k].seen
    BY <1>4, PropagateIs
  <2> QED
    BY <1>0, <2>2, <2>3 DEF Kept, Credential
<1>6. CASE Idle \/ \E i \in Ids : Comes(i)
  <2>1. UNCHANGED creds
    BY <1>6 DEF Idle, QuietTab, Comes, Start, StartView
  <2> QED
    BY <1>1, <2>1
<1>7. ASSUME NEW i \in DOMAIN tasks, Changes(i)
      PROVE  Kept(k)
  <2>1. Vends(i) \/ UNCHANGED creds
    BY <1>7 DEF Changes, EndsNow, MovesNow, QuietTab, Takes, Acquire, SetSecret, GetsAny,
                GetsRows, Leave
  <2> QED
    BY <1>1, <1>2, <2>1
<1>8. CASE \E p \in Places : Roam(p)
  BY <1>1, <1>8 DEF Roam
<1>9. CASE Edits
  BY <1>1, <1>9, EditsIs DEF Edited
<1> QED
  BY <1>3, <1>4, <1>6, <1>7, <1>8, <1>9, StepShape

(* Only the action for it changes a part of the tab.                       *)
LEMMA TabKept ==
  ASSUME Typed, [Next]_vars
  PROVE  /\ UNCHANGED secrets \/ \E i \in DOMAIN tasks, n \in Names : SetSecret(i, n)
         /\ UNCHANGED views \/ \E i \in DOMAIN tasks, n \in Names : GetsAny(i, n)
         /\ UNCHANGED cache \/ \E i \in DOMAIN tasks : Acquire(i)
<1>1. CASE Idle \/ \E i \in Ids : Comes(i)
  BY <1>1 DEF Idle, QuietTab, Comes, Start, StartView, tabVars
<1>2. CASE \E i \in DOMAIN tasks : Changes(i)
  <2>1. PICK i \in DOMAIN tasks : Changes(i)
    BY <1>2
  <2>2. \/ UNCHANGED tabVars
        \/ Acquire(i) \/ \E n \in Names : SetSecret(i, n) \/ GetsAny(i, n)
    BY <2>1 DEF Changes, EndsNow, MovesNow, QuietTab, Takes, Vends, Leave
  <2>3. \A n \in Names : SetSecret(i, n) => UNCHANGED <<cache, views>>
    BY DEF SetSecret
  <2>4. \A n \in Names : GetsAny(i, n) => UNCHANGED <<cache, secrets>>
    BY DEF GetsAny, GetsRows
  <2>5. Acquire(i) => UNCHANGED <<secrets, views>>
    BY DEF Acquire
  <2> QED
    BY <2>2, <2>3, <2>4, <2>5 DEF tabVars
<1>3. CASE \E k \in DOMAIN creds : Age(k) \/ \E p \in Places : Propagate(k, p)
  BY <1>3 DEF Age, Propagate, tabVars
<1>4. CASE \E p \in Places : Roam(p)
  BY <1>4 DEF Roam, tabVars
<1>5. CASE Edits
  BY <1>5, EditsIs DEF Edited, tabVars
<1> QED
  BY <1>1, <1>2, <1>3, <1>4, <1>5, StepShape

(* A secret is named after what is in it.                                  *)
LEMMA InitNamed ==
  ASSUME Init
  PROVE  Named
BY DEF Init, Named

LEMMA StepNamed ==
  ASSUME Typed, Named, [Next]_vars
  PROVE  Named'
<1>1. Typed'
  BY StepTyped
<1>2. ASSUME NEW s \in DOMAIN secrets', secrets'[s] # 0, UNCHANGED secrets
      PROVE  Clean[creds'[secrets'[s]].bucket] = s
  <2>1. PICK k : k = secrets[s]
    OBVIOUS
  <2>2. k \in DOMAIN creds /\ SecretName(k) = s
    BY <1>2, <2>1, CountsKeys DEF Typed, Held, Named
  <2>3. creds'[k].bucket = creds[k].bucket
    BY <2>2, CredsKept DEF Kept
  <2> QED
    BY <1>2, <2>1, <2>2, <2>3 DEF SecretName
<1>3. ASSUME NEW i \in DOMAIN tasks, NEW n \in Names, SetSecret(i, n),
             NEW s \in DOMAIN secrets', secrets'[s] # 0
      PROVE  Clean[creds'[secrets'[s]].bucket] = s
  <2>1. PICK k, x : /\ k = tasks[i].keys[n] /\ x = SecretName(k)
                    /\ secrets' = [secrets EXCEPT ![x] = k]
    BY <1>3 DEF SetSecret
  <2>2. UNCHANGED creds
    BY <1>3 DEF SetSecret
  <2>3. x \in DOMAIN secrets
    BY <1>3, <2>1, SecretIs DEF SetSecret, Typed, Held
  <2>4. CASE s = x
    BY <2>1, <2>2, <2>3, <2>4 DEF SecretName
  <2>5. CASE s # x
    BY <1>3, <2>1, <2>2, <2>3, <2>5 DEF Named, SecretName
  <2> QED
    BY <2>4, <2>5
<1>4. \A s \in DOMAIN secrets' : secrets'[s] # 0 => Clean[creds'[secrets'[s]].bucket] = s
  BY <1>2, <1>3, TabKept
<1> QED
  BY <1>4 DEF Named, SecretName

-----------------------------------------------------------------------------
(* Type correctness.                                                       *)

LEMMA TypedTasks ==
  ASSUME Typed
  PROVE  DOMAIN tasks \subseteq Ids /\ \A i \in DOMAIN tasks : IsTask(tasks[i])
<1>1. DOMAIN tasks \subseteq Ids
  BY DEF Typed, Tasked
<1>2. ASSUME NEW i \in DOMAIN tasks
      PROVE  IsTask(tasks[i])
  <2>1. PICK t : t = tasks[i]
    OBVIOUS
  <2>2. Real(t, Len(creds)) /\ t \in Task
    BY <2>1 DEF Typed, Tasked
  <2>3. t.kind \in Kinds /\ t.at \in Ats /\ t.names \subseteq Names
    BY <2>2 DEF Task
  <2>4. Range(t.keys) \cup {t.key} \subseteq 0 .. Len(creds)
    BY <2>2 DEF Real, Range
  <2>5. t.at = "secrets" => \A n \in t.names \ Feeds : t.keys[n] # 0
    BY <2>2 DEF Real, HasKeys, Phased
  <2> QED
    BY <2>1, <2>2, <2>3, <2>4, <2>5 DEF IsTask, Real, Ats
<1> QED
  BY <1>1, <1>2

LEMMA TypedOK ==
  ASSUME Typed, Named
  PROVE  TypeOK
<1>1. \A b \in DOMAIN rows : rows[b].name \in Names \ BuiltIn
  <2>1. \A b \in DOMAIN rows : rows[b] \in Backend
    BY ElementOfSeq DEF Typed, Stored
  <2> QED
    BY <2>1 DEF Backend
<1>2. \A k \in DOMAIN creds : creds[k].age \in 0 .. 2 /\ creds[k].seen \subseteq Places
  <2>1. \A k \in DOMAIN creds : creds[k] \in Credential
    BY CountsKeys
  <2> QED
    BY <2>1 DEF Credential
<1>3. cache \in [Names -> 0 .. Len(creds)] /\ views \in [Names -> 0 .. Len(creds)]
      /\ place \in Places
  BY DEF Typed, Held, Keys
<1>4. \A b \in DOMAIN objects, u \in uploads : u[3] <= u[2].size
  BY DEF Typed, Stored, Text
<1> QED
  BY <1>1, <1>2, <1>3, <1>4, TypedTasks DEF TypeOK, Named

(* Credentials that are used exist, those out of the cache and in a        *)
(* preamble are real ones, a secret is named after the bucket of what is   *)
(* in it, and the read-back loop of POST /proxy-credentials ends.          *)
THEOREM TypeCorrect == Spec => []TypeOK
<1>1. Init => Typed /\ Named
  BY InitTyped, InitNamed
<1>2. Typed /\ Named /\ [Next]_vars => Typed' /\ Named'
  BY StepTyped, StepNamed
<1>3. Typed /\ Named => TypeOK
  BY TypedOK
<1> QED
  BY <1>1, <1>2, <1>3, PTL DEF Spec

-----------------------------------------------------------------------------
(* Objects are whole.                                                      *)

IsSheet(b) == b \in DOMAIN rows /\ rows[b].type = "sheet"
IsWhole(o) == o # <<>> => o = Content(o[1], o[1].size)

(* What is in no sheet is what one write wrote; a backend that is yet to   *)
(* come is empty.                                                          *)
Whole ==
  /\ \A b \in DOMAIN objects : IsSheet(b) \/ IsWhole(objects[b])
  /\ \A b \in DOMAIN objects \ ({0} \cup DOMAIN rows) : objects[b] = <<>>

LEMMA InitWhole ==
  ASSUME Init
  PROVE  Whole
BY DEF Init, Whole, IsWhole

(* The rows of a text are a whole.                                         *)
LEMMA ContentIsWhole ==
  ASSUME NEW text \in Text
  PROVE  IsWhole(Content(text, text.size))
<1>1. text.size \in Nat
  BY DEF Text
<1>2. PICK o : o = Content(text, text.size)
  OBVIOUS
<1>3. o \in Seq(Text) /\ Len(o) = text.size /\ \A r \in 1 .. text.size : o[r] = text
  BY <1>1, <1>2, ContentIs
<1>4. o # <<>> => o[1] = text
  BY <1>1, <1>3
<1> QED
  BY <1>2, <1>4 DEF IsWhole

(* What is stored is whole, or in a sheet.                                 *)
LEMMA StoreWhole ==
  ASSUME Typed, Whole, NEW b \in Live \cup {0}, NEW o, objects' = [objects EXCEPT ![b] = o],
         UNCHANGED rows, IsSheet(b) \/ IsWhole(o)
  PROVE  Whole'
<1>1. DOMAIN objects' = DOMAIN objects
      /\ \A x \in DOMAIN objects : objects'[x] = (IF x = b THEN o ELSE objects[x])
  BY DEF Typed, Stored
<1>2. b \in DOMAIN rows \cup {0}
  BY DEF Live
<1>3. \A x \in DOMAIN objects : IsSheet(x)' <=> IsSheet(x)
  BY DEF IsSheet
<1>4. \A x \in DOMAIN objects : IsSheet(x)' \/ IsWhole(objects'[x])
  BY <1>1, <1>3 DEF Whole
<1>5. \A x \in DOMAIN objects \ ({0} \cup DOMAIN rows) : objects'[x] = <<>>
  BY <1>1, <1>2 DEF Whole
<1> QED
  BY <1>1, <1>4, <1>5 DEF Whole, IsWhole

LEMMA EditsWhole ==
  ASSUME Typed, Whole, Edits
  PROVE  Whole'
<1>1. UNCHANGED objects
  BY EditsIs DEF Edited
<1>2. /\ DOMAIN rows \subseteq DOMAIN rows'
      /\ \A b \in DOMAIN rows : rows'[b].type = rows[b].type
  <2>1. ASSUME NEW n \in Names, NEW type \in Types, Add(n, type)
        PROVE  <1>2!1 /\ <1>2!2
    BY <2>1 DEF Add, Typed, Stored
  <2>2. ASSUME NEW b \in DOMAIN rows, NEW n \in Names, Rename(b, n)
        PROVE  <1>2!1 /\ <1>2!2
    <3>1. rows[b] \in Backend
      BY ElementOfSeq DEF Typed, Stored
    <3> QED
      BY <2>2, <3>1 DEF Rename, Typed, Stored, Backend
  <2>3. ASSUME NEW b \in DOMAIN rows, Remove(b)
        PROVE  <1>2!1 /\ <1>2!2
    <3>1. rows[b] \in Backend
      BY ElementOfSeq DEF Typed, Stored
    <3> QED
      BY <2>3, <3>1 DEF Remove, Typed, Stored, Backend
  <2> QED
    BY <2>1, <2>2, <2>3 DEF Edits
<1>3. \A b \in DOMAIN objects : IsSheet(b) => IsSheet(b)'
  BY <1>2 DEF IsSheet
<1>4. \A b \in DOMAIN objects : IsSheet(b)' \/ IsWhole(objects[b])
  BY <1>3 DEF Whole
<1>5. \A b \in DOMAIN objects \ ({0} \cup DOMAIN rows') : objects[b] = <<>>
  BY <1>2 DEF Whole
<1> QED
  BY <1>1, <1>4, <1>5 DEF Whole, IsWhole

(* Where objects and rows change.                                          *)
LEMMA StoreKept ==
  ASSUME Typed, [Next]_vars
  PROVE  \/ UNCHANGED <<rows, objects>> \/ Edits
         \/ \E i \in DOMAIN tasks : PutOwn(i) \/ PutRemote(i) \/ PutSheet(i) \/ Complete(i)
<1>1. CASE UNCHANGED vars
  BY <1>1 DEF vars, storeVars
<1>2. CASE \E i \in Ids : Comes(i)
  BY <1>2 DEF Comes, Start, StartView, storeVars
<1>3. ASSUME NEW i \in DOMAIN tasks, NEW n \in Names, Prepares(i, n) \/ GetsAny(i, n)
      PROVE  UNCHANGED <<rows, objects>>
  BY <1>3 DEF Prepares, Resolve, SetSecret, ReadFails, GetsAny, GetsRows, storeVars
<1>4. ASSUME NEW i \in DOMAIN tasks, Asks(i) \/ Leave(i) \/ Lose(i)
      PROVE  UNCHANGED <<rows, objects>>
  BY <1>4 DEF Asks, Vend, VendToken, Check, Acquire, Leave, Lose, storeVars
<1>5. ASSUME NEW i \in DOMAIN tasks, Writes(i)
      PROVE  \/ UNCHANGED <<rows, objects>>
             \/ PutOwn(i) \/ PutRemote(i) \/ PutSheet(i) \/ Complete(i)
  BY <1>5 DEF Writes, Initiate, InitiateSheet, UploadPart, NoSuchUpload, WriteFails, storeVars
<1>6. ASSUME NEW k \in DOMAIN creds, Age(k) \/ \E p \in Places : Propagate(k, p)
      PROVE  UNCHANGED <<rows, objects>>
  BY <1>6 DEF Age, Propagate, storeVars
<1>7. CASE \E p \in Places : Roam(p)
  BY <1>7 DEF Roam, storeVars
<1>8. CASE Next
  <2>1. Plan
    BY DEF Typed
  <2> QED
    BY <1>2, <1>3, <1>4, <1>5, <1>6, <1>7, <1>8, <2>1, NextIs
<1> QED
  BY <1>1, <1>8

LEMMA StepWhole ==
  ASSUME Typed, Whole, [Next]_vars
  PROVE  Whole'
<1>1. CASE UNCHANGED <<rows, objects>>
  BY <1>1 DEF Whole, IsSheet, IsWhole
<1>2. ASSUME NEW i \in DOMAIN tasks, NEW at, Serves(i, at), Stores(i, NewContent(i))
      PROVE  Whole'
  <2>1. IsWhole(NewContent(i))
    BY NewContentIs, ContentIsWhole
  <2>2. Server(i) \in Live \cup {0}
    BY <1>2, ServerIs
  <2> QED
    BY <1>2, <2>1, <2>2, StoreWhole DEF Stores
<1>3. ASSUME NEW i \in DOMAIN tasks, PutSheet(i)
      PROVE  Whole'
  <2>1. PICK o : Serves(i, "run") /\ TypeOf(Server(i)) = "sheet" /\ Stores(i, o)
    BY <1>3 DEF PutSheet
  <2>2. Server(i) \in Live \cup {0}
    BY <2>1, ServerIs
  <2>3. IsSheet(Server(i))
    BY <2>1, <2>2 DEF TypeOf, Live, IsSheet
  <2> QED
    BY <2>1, <2>2, <2>3, StoreWhole DEF Stores
<1>4. ASSUME NEW i \in DOMAIN tasks, Complete(i)
      PROVE  Whole'
  <2>1. PICK b, o : /\ b = Server(i) /\ o = Content(tasks[i].text, tasks[i].text.size)
                    /\ objects' = [objects EXCEPT ![b] = o]
    BY <1>4 DEF Complete
  <2>2. b \in Live \cup {0} /\ IsWhole(o) /\ UNCHANGED rows
    BY <1>4, <2>1, ServerIs, NewContentIs, ContentIsWhole DEF Complete
  <2> QED
    BY <2>1, <2>2, StoreWhole
<1>5. ASSUME NEW i \in DOMAIN tasks, PutOwn(i) \/ PutRemote(i)
      PROVE  Whole'
  BY <1>2, <1>5 DEF PutOwn, PutRemote
<1> QED
  BY <1>1, <1>3, <1>4, <1>5, EditsWhole, StoreKept

(* An object is what one write wrote, of one part or of several, or what   *)
(* is in a sheet.                                                          *)
THEOREM ObjectsStayWhole == Spec => []ObjectsAreWhole
<1>1. Init => Typed /\ Whole
  BY InitTyped, InitWhole
<1>2. Typed /\ Whole /\ [Next]_vars => Typed' /\ Whole'
  BY StepTyped, StepWhole
<1>3. Typed /\ Whole => ObjectsAreWhole
  <2>1. SUFFICES ASSUME Typed, Whole, NEW b \in DOMAIN objects,
                        b = 0 \/ (b \in DOMAIN rows /\ rows[b].type # "sheet"),
                        objects[b] # <<>>
                 PROVE  objects[b] = Content(objects[b][1], objects[b][1].size)
    BY DEF ObjectsAreWhole
  <2>2. 0 \notin DOMAIN rows
    BY <2>1 DEF Typed, Stored
  <2>3. ~ IsSheet(b)
    BY <2>1, <2>2 DEF IsSheet
  <2> QED
    BY <2>1, <2>3 DEF Whole, IsWhole
<1> QED
  BY <1>1, <1>2, <1>3, PTL DEF Spec

-----------------------------------------------------------------------------
(* Where the keys of a task come from.                                     *)

(* A task that has just come.                                              *)
New(u) == u.keys = [m \in Names |-> 0] /\ u.key = 0 /\ u.wrong = FALSE

(* Its preamble: what it was, or from the cache, or what arrived.          *)
KeyFrom(t, u, m) ==
  \/ u.keys[m] = t.keys[m] \/ u.keys[m] = 0
  \/ m \notin Feeds /\ Cached(m) /\ u.keys[m] = cache[m] /\ UNCHANGED creds
  \/ t.at = "answer" /\ m = t.name /\ u.keys[m] = t.key /\ UNCHANGED creds

(* What is on its way: what it was, or what was vended.                    *)
WayFrom(t, u) ==
  \/ u.key = 0
  \/ /\ u.key = t.key /\ u.name = t.name
     /\ u.at = "answer" => t.at = "answer" \/ place \in creds[t.key].seen
  \/ /\ u.key = Len(creds) + 1 /\ u.key \in DOMAIN creds'
     /\ creds'[u.key].age = 0
     /\ u.at = "answer" => creds'[u.key].bucket = u.name /\ creds'[u.key].seen = Places

From(j, t, u) ==
  /\ \A m \in Names : KeyFrom(t, u, m)
  /\ WayFrom(t, u)
  /\ u.keys = [m \in Names |-> 0] \/ t.aged \subseteq u.aged
  /\ u.kind = t.kind
  /\ JudgedBy(j, u.wrong)

(* The tasks of a step that changes one of them.                           *)
LEMMA PutIs ==
  ASSUME Tasked, NEW i \in DOMAIN tasks, NEW t, Put(i, t)
  PROVE  /\ DOMAIN tasks' = DOMAIN tasks /\ tasks'[i] = t
         /\ \A j \in DOMAIN tasks : j # i => tasks'[j] = tasks[j]
BY DEF Put, Tasked

LEMMA SameFrom ==
  ASSUME Typed, NEW j \in DOMAIN tasks
  PROVE  From(j, tasks[j], tasks[j])
BY DEF From, KeyFrom, WayFrom, JudgedBy

LEMMA OverFrom ==
  ASSUME Typed, NEW i \in DOMAIN tasks, NEW at \in Ends, NEW t \in Task,
         t.kind = tasks[i].kind, JudgedBy(i, t.wrong)
  PROVE  From(i, tasks[i], Over(t, at))
<1>1. PICK u : u = Over(t, at)
  OBVIOUS
<1>2. u.kind = t.kind /\ u.wrong = t.wrong /\ u.keys = [m \in Names |-> 0] /\ u.key = 0
      /\ u.aged = {}
  BY <1>1, OverIs, CountsKeys
<1>3. \A m \in Names : KeyFrom(tasks[i], u, m)
  BY <1>2 DEF KeyFrom
<1>4. WayFrom(tasks[i], u)
  BY <1>2 DEF WayFrom
<1>5. From(i, tasks[i], u)
  BY <1>2, <1>3, <1>4 DEF From
<1> QED
  BY <1>1, <1>5

LEMMA ChangesFrom ==
  ASSUME Typed, NEW i \in DOMAIN tasks, Changes(i), ~ Leave(i)
  PROVE  \E u : Put(i, u) /\ From(i, tasks[i], u)
<1>0. PICK t : t = tasks[i]
  OBVIOUS
<1>00. Real(t, Len(creds)) /\ Len(creds) \in Nat /\ t \in Task
  BY <1>0, CountsKeys DEF Typed, Tasked
<1>1. CASE EndsNow(i)
  BY <1>1, OverFrom DEF EndsNow
<1>2. CASE MovesNow(i)
  <2>1. PICK u : /\ Put(i, u) /\ Moves(t, u) /\ u.kind = t.kind
                 /\ u.keys = t.keys /\ u.aged = t.aged /\ JudgedBy(i, u.wrong)
                 /\ Real(u, Len(creds))
    BY <1>0, <1>2 DEF MovesNow
  <2>2. \A m \in Names : KeyFrom(t, u, m)
    BY <2>1 DEF KeyFrom
  <2>3. WayFrom(t, u)
    BY <1>00, <2>1 DEF WayFrom, Moves, Real, IsAsked
  <2> QED
    BY <1>0, <2>1, <2>2, <2>3 DEF From
<1>3. CASE Vends(i)
  <2>1. PICK c, u :
          /\ c \in Credential /\ creds' = Append(creds, c) /\ c.age = 0 /\ Put(i, u) /\ u.key = Len(creds) + 1
          /\ u.kind = t.kind /\ u.keys = t.keys /\ u.aged = t.aged /\ u.wrong = t.wrong
          /\ \/ u.at = "check"
             \/ u.at = "answer" /\ u.name \in Feeds /\ c.bucket = u.name /\ c.seen = Places
    BY <1>0, <1>3 DEF Vends
  <2>2. creds'[Len(creds) + 1] = c /\ Len(creds') = Len(creds) + 1 /\ Held'
    BY <1>3, <2>1, AppendsTyped DEF Vends
  <2>3. u.key \in DOMAIN creds'
    BY <1>00, <2>1, <2>2 DEF Held
  <2>4. WayFrom(t, u)
    BY <2>1, <2>2, <2>3 DEF WayFrom
  <2>5. \A m \in Names : KeyFrom(t, u, m)
    BY <2>1 DEF KeyFrom
  <2> QED
    BY <1>0, <2>1, <2>4, <2>5 DEF From, JudgedBy
<1>4. CASE Acquire(i)
  <2>1. PICK u : u = Acquired(t)
    OBVIOUS
  <2>2. Put(i, Onward(u)) /\ t.at = "answer" /\ UNCHANGED creds
    BY <1>0, <1>4, <2>1 DEF Acquire, Acquired
  <2>3. /\ Real(u, Len(creds)) /\ u.at = "resolve" /\ u.kind = t.kind /\ u.key = 0
        /\ u.aged = t.aged /\ u.wrong = t.wrong
        /\ \A m \in Names : u.keys[m] = (IF m = t.name THEN t.key ELSE t.keys[m])
    BY <1>00, <2>1, <2>2, AcquiredIs
  <2>4. SameTask(u, Onward(u))
    BY <1>00, <2>3, OnwardIs
  <2>5. \A m \in Names : KeyFrom(t, Onward(u), m)
    BY <2>2, <2>3, <2>4 DEF KeyFrom, SameTask
  <2>6. WayFrom(t, Onward(u))
    BY <2>3, <2>4 DEF WayFrom, SameTask
  <2> QED
    BY <1>0, <2>2, <2>3, <2>4, <2>5, <2>6 DEF From, JudgedBy, SameTask
<1>5. ASSUME NEW n \in Names, Takes(i, n)
      PROVE  \E u : Put(i, u) /\ From(i, tasks[i], u)
  <2>1. PICK u : /\ Real(u, Len(creds)) /\ Put(i, Onward(u)) /\ u.at = "resolve"
                 /\ u.kind = t.kind /\ u.key = t.key /\ u.aged = t.aged /\ u.wrong = t.wrong
                 /\ \A m \in Names : u.keys[m] = (IF m = n THEN cache[n] ELSE t.keys[m])
    BY <1>0, <1>5 DEF Takes
  <2>2. SameTask(u, Onward(u))
    BY <1>00, <2>1, OnwardIs
  <2>3. n \notin Feeds /\ Cached(n) /\ t.at = "resolve" /\ UNCHANGED creds
    BY <1>0, <1>5 DEF Takes, QuietTab
  <2>4. \A m \in Names : KeyFrom(t, Onward(u), m)
    BY <2>1, <2>2, <2>3 DEF KeyFrom, SameTask
  <2>5. t.key = 0
    BY <1>00, <2>3 DEF Real, IsAsked
  <2>6. WayFrom(t, Onward(u))
    BY <2>1, <2>2, <2>5 DEF WayFrom, SameTask
  <2> QED
    BY <1>0, <2>1, <2>2, <2>4, <2>6 DEF From, JudgedBy, SameTask
<1>6. ASSUME NEW n \in Names, SetSecret(i, n)
      PROVE  \E u : Put(i, u) /\ From(i, tasks[i], u)
  <2>1. PICK u : u = Prepared(t, n)
    OBVIOUS
  <2>2. Put(i, Onward(u)) /\ t.at = "secrets"
    BY <1>0, <1>6, <2>1 DEF SetSecret, Prepared
  <2>3. Real(u, Len(creds)) /\ u.at = "secrets" /\ SameTask(t, u)
    BY <1>00, <2>1, <2>2, PreparedIs
  <2>4. SameTask(u, Onward(u)) /\ Onward(u).at \in {"secrets", "run"}
    BY <1>00, <2>3, OnwardIs
  <2>5. \A m \in Names : KeyFrom(t, Onward(u), m)
    BY <2>3, <2>4 DEF KeyFrom, SameTask
  <2>6. WayFrom(t, Onward(u))
    BY <2>3, <2>4 DEF WayFrom, SameTask
  <2> QED
    BY <1>0, <2>2, <2>3, <2>4, <2>5, <2>6 DEF From, JudgedBy, SameTask
<1>7. ASSUME NEW n \in Names, GetsAny(i, n)
      PROVE  \E u : Put(i, u) /\ From(i, tasks[i], u)
  <2>1. PICK w : w = Wrong(t, n, KeyFor(t, n))
    OBVIOUS
  <2>2. PICK u : u = Answered(t, n, w)
    OBVIOUS
  <2>3. /\ Put(i, Onward(u)) /\ t.at = "run" /\ t.kind # "write" /\ n \in t.todo
        /\ Verdict(KeyFor(t, n)) = "served"
    BY <1>0, <1>7, <2>1, <2>2 DEF GetsAny, GetsRows, Answered, Reads
  <2>4. w \in BOOLEAN /\ n \in t.names
    BY <1>00, <2>1, <2>3, WrongIs DEF Task, Real
  <2>5. JudgedBy(i, w)
    BY <1>0, <2>1, <2>3, <2>4 DEF JudgedBy
  <2>6. /\ Real(u, Len(creds)) /\ u.at = "run" /\ u.wrong = w /\ u.kind = t.kind
        /\ u.keys = t.keys /\ u.key = t.key /\ u.aged = t.aged /\ u.name = t.name
    BY <1>00, <2>2, <2>3, <2>4, ReadIs
  <2>7. Onward(u) = u \/ Onward(u) = Over(u, "done")
    BY <2>6, OnwardRun
  <2>8. From(i, t, u)
    <3>1. \A m \in Names : KeyFrom(t, u, m)
      BY <2>6 DEF KeyFrom
    <3>2. WayFrom(t, u)
      BY <2>6 DEF WayFrom
    <3> QED
      BY <2>5, <2>6, <3>1, <3>2 DEF From
  <2>9. u \in Task
    BY <2>6 DEF Real
  <2>10. From(i, t, Over(u, "done"))
    BY <1>0, <2>5, <2>6, <2>9, OverFrom DEF Ends
  <2> QED
    BY <1>0, <2>3, <2>7, <2>8, <2>10
<1> QED
  BY <1>1, <1>2, <1>3, <1>4, <1>5, <1>6, <1>7 DEF Changes

LEMMA ComesFrom ==
  ASSUME Typed, NEW i \in Ids, Comes(i), NEW j \in DOMAIN tasks'
  PROVE  New(tasks'[j]) \/ (j \in DOMAIN tasks /\ tasks'[j] = tasks[j])
<1>1. ASSUME NEW kind, NEW names, NEW size, Start(i, kind, names, size)
      PROVE  New(tasks'[j]) \/ (j \in DOMAIN tasks /\ tasks'[j] = tasks[j])
  <2>1. PICK t : t = NewTask(kind, names, size)
    OBVIOUS
  <2>2. t.keys = [m \in Names |-> 0] /\ t.key = 0 /\ t.wrong = FALSE
    BY <2>1 DEF NewTask
  <2>3. tasks' = [x \in DOMAIN tasks \cup {i} |-> IF x = i THEN t ELSE tasks[x]]
    BY <1>1, <2>1 DEF Start
  <2> QED
    BY <2>2, <2>3 DEF New
<1>2. ASSUME NEW n \in Names, StartView(i, n)
      PROVE  New(tasks'[j]) \/ (j \in DOMAIN tasks /\ tasks'[j] = tasks[j])
  <2>1. PICK t : t = [NewTask("view", {n}, 0) EXCEPT !.at = "run"]
    OBVIOUS
  <2>2. t.keys = [m \in Names |-> 0] /\ t.key = 0 /\ t.wrong = FALSE
    BY <2>1, CountsKeys, ViewTaskIs
  <2>3. tasks' = [x \in DOMAIN tasks \cup {i} |-> IF x = i THEN t ELSE tasks[x]]
    BY <1>2, <2>1 DEF StartView
  <2> QED
    BY <2>2, <2>3 DEF New
<1> QED
  BY <1>1, <1>2 DEF Comes

LEMMA StepFrom ==
  ASSUME Typed, [Next]_vars, NEW j \in DOMAIN tasks'
  PROVE  New(tasks'[j]) \/ (j \in DOMAIN tasks /\ From(j, tasks[j], tasks'[j]))
<1>0. Tasked
  BY DEF Typed
<1>1. CASE UNCHANGED tasks
  BY <1>1, SameFrom
<1>2. ASSUME NEW i \in Ids, Comes(i)
      PROVE  New(tasks'[j]) \/ (j \in DOMAIN tasks /\ From(j, tasks[j], tasks'[j]))
  BY <1>2, ComesFrom, SameFrom
<1>3. ASSUME NEW i \in DOMAIN tasks, Changes(i), ~ Leave(i)
      PROVE  j \in DOMAIN tasks /\ From(j, tasks[j], tasks'[j])
  <2>1. PICK u : Put(i, u) /\ From(i, tasks[i], u)
    BY <1>3, ChangesFrom
  <2>2. /\ DOMAIN tasks' = DOMAIN tasks /\ tasks'[i] = u
        /\ j # i => tasks'[j] = tasks[j]
    BY <1>0, <2>1, PutIs
  <2> QED
    BY <2>1, <2>2, SameFrom
<1>4. ASSUME NEW i \in DOMAIN tasks, Leave(i)
      PROVE  j \in DOMAIN tasks /\ From(j, tasks[j], tasks'[j])
  <2>1. tasks' = [x \in DOMAIN tasks \ {i} |-> tasks[x]]
    BY <1>4 DEF Leave
  <2>2. j \in DOMAIN tasks /\ tasks'[j] = tasks[j]
    BY <2>1
  <2> QED
    BY <2>2, SameFrom
<1>5. ASSUME NEW k \in DOMAIN creds, Age(k)
      PROVE  j \in DOMAIN tasks /\ From(j, tasks[j], tasks'[j])
  <2>1. j \in DOMAIN tasks
    BY <1>5, AgeIs
  <2>2. tasks'[j] = tasks[j] \/ tasks'[j] = Noted(tasks[j], k)
    BY <1>5, <2>1, AgeIs
  <2>3. CASE tasks'[j] = tasks[j]
    BY <2>1, <2>3, SameFrom
  <2>4. CASE tasks'[j] = Noted(tasks[j], k)
    <3>0. PICK t : t = tasks[j]
      OBVIOUS
    <3>1. PICK u : t = tasks[j] /\ u = Noted(t, k)
      BY <3>0
    <3>2. PICK n \in Nat : Real(t, n) /\ k \in Nat
      BY <2>1, <3>1, CountsKeys DEF Typed, Tasked
    <3>3. /\ u.aged = t.aged \cup {k} /\ u.at = t.at /\ u.kind = t.kind /\ u.keys = t.keys
          /\ u.key = t.key /\ u.name = t.name /\ u.wrong = t.wrong
      BY <3>1, <3>2, AgedIs
    <3>4. \A m \in Names : KeyFrom(t, u, m)
      BY <3>3 DEF KeyFrom
    <3>5. WayFrom(t, u)
      BY <3>3 DEF WayFrom
    <3>6. JudgedBy(j, u.wrong)
      BY <3>1, <3>3 DEF JudgedBy
    <3>7. From(j, t, u)
      BY <3>3, <3>4, <3>5, <3>6 DEF From
    <3> QED
      BY <2>1, <2>4, <3>1, <3>7
  <2> QED
    BY <2>2, <2>3, <2>4
<1>6. CASE Idle \/ (\E k \in DOMAIN creds, p \in Places : Propagate(k, p))
           \/ (\E p \in Places : Roam(p)) \/ Edits
  <2>1. UNCHANGED tasks
    BY <1>6, EditsIs DEF Idle, Propagate, Roam, Edited
  <2> QED
    BY <1>1, <2>1
<1> QED
  BY <1>2, <1>3, <1>4, <1>5, <1>6, StepShape

-----------------------------------------------------------------------------
(* What a credential of a name is for.                                     *)

(* A token is for its name, in the SQL of a task and on its way to it; so  *)
(* is what a view was registered with.                                     *)
IsFor(k, n) == k # 0 => creds[k].bucket = n
TokensOf(t) ==
  /\ \A n \in Feeds : IsFor(t.keys[n], n)
  /\ t.at = "answer" /\ t.name \in Feeds => IsFor(t.key, t.name)
Tokens == \A i \in DOMAIN tasks : TokensOf(tasks[i])
ViewsFit == \A n \in Names : IsFor(views[n], n)

LEMMA IsForKept ==
  ASSUME Typed, [Next]_vars, NEW k \in Keys, NEW n, IsFor(k, n)
  PROVE  IsFor(k, n)'
<1>1. CASE k = 0
  BY <1>1 DEF IsFor
<1>2. CASE k # 0
  <2>1. k \in DOMAIN creds
    BY <1>2, CountsKeys
  <2>2. creds'[k].bucket = creds[k].bucket
    BY <2>1, CredsKept DEF Kept
  <2> QED
    BY <2>2 DEF IsFor
<1> QED
  BY <1>1, <1>2

LEMMA StepTokens ==
  ASSUME Typed, Tokens, [Next]_vars
  PROVE  Tokens'
<1>1. SUFFICES ASSUME NEW j \in DOMAIN tasks', NEW u, u = tasks'[j]
               PROVE  TokensOf(u)'
  BY DEF Tokens
<1>2. CASE New(u)
  BY <1>2, ConstantsAre DEF New, TokensOf, IsFor
<1>3. CASE j \in DOMAIN tasks /\ From(j, tasks[j], u)
  <2>1. PICK t : t = tasks[j]
    OBVIOUS
  <2>2. Real(t, Len(creds)) /\ TokensOf(t) /\ t \in Task
    BY <1>3, <2>1 DEF Typed, Tasked, Tokens
  <2>3. ASSUME NEW n \in Feeds
        PROVE  IsFor(u.keys[n], n)'
    <3>1. KeyFrom(t, u, n) /\ n \in Names
      BY <1>3, <2>1, ConstantsAre DEF From
    <3>2. CASE u.keys[n] = t.keys[n]
      <4>1. t.keys[n] \in Keys /\ IsFor(t.keys[n], n)
        BY <2>2, <3>1 DEF Real, Keys, TokensOf
      <4> QED
        BY <3>2, <4>1, IsForKept
    <3>3. CASE u.keys[n] = 0
      BY <3>3 DEF IsFor
    <3>4. CASE t.at = "answer" /\ n = t.name /\ u.keys[n] = t.key
      <4>1. t.key \in Keys /\ IsFor(t.key, n)
        BY <2>2, <3>4 DEF Real, Keys, TokensOf
      <4> QED
        BY <3>4, <4>1, IsForKept
    <3> QED
      BY <3>1, <3>2, <3>3, <3>4 DEF KeyFrom
  <2>4. ASSUME u.at = "answer", u.name \in Feeds
        PROVE  IsFor(u.key, u.name)'
    <3>1. WayFrom(t, u)
      BY <1>3, <2>1 DEF From
    <3>2. CASE u.key = 0
      BY <3>2 DEF IsFor
    <3>3. CASE u.key = t.key /\ u.name = t.name /\ t.key # 0
      <4>1. t.at = "answer"
        BY <2>2, <2>4, <3>3 DEF Real, IsAsked
      <4>2. t.key \in Keys /\ IsFor(t.key, t.name)
        BY <2>2, <2>4, <3>3, <4>1 DEF Real, Keys, TokensOf
      <4> QED
        BY <3>3, <4>2, IsForKept
    <3>4. CASE u.key = Len(creds) + 1 /\ creds'[u.key].bucket = u.name
      BY <3>4 DEF IsFor
    <3> QED
      BY <2>4, <3>1, <3>2, <3>3, <3>4 DEF WayFrom
  <2> QED
    BY <2>3, <2>4 DEF TokensOf
<1> QED
  BY <1>1, <1>2, <1>3, StepFrom

(* What a task is served with is for the name it asks for.                 *)
LEMMA KeyFits ==
  ASSUME Typed, Tokens, ViewsFit, NEW i \in DOMAIN tasks, NEW n \in Names
  PROVE  IsFor(KeyFor(tasks[i], n), n)
BY KeyForIs DEF IsFor, Tokens, TokensOf, ViewsFit

LEMMA StepViewsFit ==
  ASSUME Typed, Tokens, ViewsFit, [Next]_vars
  PROVE  ViewsFit'
<1>1. CASE UNCHANGED views
  <2>1. ASSUME NEW n \in Names
        PROVE  views'[n] # 0 => creds'[views'[n]].bucket = n
    <3>1. PICK k : k = views[n]
      OBVIOUS
    <3>2. k \in Keys /\ IsFor(k, n)
      BY <3>1 DEF Typed, Held, ViewsFit
    <3>3. IsFor(k, n)'
      BY <3>2, IsForKept
    <3>4. views'[n] = k
      BY <1>1, <3>1
    <3> QED
      BY <3>3, <3>4 DEF IsFor
  <2> QED
    BY <2>1 DEF ViewsFit, IsFor
<1>2. ASSUME NEW i \in DOMAIN tasks, NEW n \in Names, GetsAny(i, n)
      PROVE  ViewsFit'
  <2>1. PICK k : k = KeyFor(tasks[i], n)
    OBVIOUS
  <2>2. views' = [views EXCEPT ![n] = k] \/ UNCHANGED views
    BY <1>2, <2>1 DEF GetsAny, GetsRows
  <2>3. k \in Keys /\ IsFor(k, n) /\ UNCHANGED creds
    BY <1>2, <2>1, KeyFits, KeyForIs DEF GetsAny, GetsRows
  <2>4. ASSUME NEW m \in Names
        PROVE  views'[m] # 0 => creds'[views'[m]].bucket = m
    BY <2>2, <2>3 DEF Typed, Held, ViewsFit, IsFor
  <2> QED
    BY <2>4 DEF ViewsFit, IsFor
<1> QED
  BY <1>1, <1>2, TabKept

-----------------------------------------------------------------------------
(* How old credentials are.                                                *)

(* They become old in the order they were vended in.                       *)
Ages == \A j, k \in DOMAIN creds : j < k => creds[j].age >= creds[k].age

(* Only time changes ages.                                                 *)
LEMMA AgesKept ==
  ASSUME Typed, [Next]_vars
  PROVE  \/ \E k \in DOMAIN creds : Age(k)
         \/ /\ \A k \in DOMAIN creds : creds'[k].age = creds[k].age
            /\ slow' = slow
            /\ DOMAIN creds' = DOMAIN creds \/ \E i \in DOMAIN tasks : Vends(i)
<1>1. CASE Idle \/ (\E i \in Ids : Comes(i)) \/ \E p \in Places : Roam(p)
  BY <1>1 DEF Idle, QuietTab, Comes, Start, StartView, Roam, historyVars
<1>2. ASSUME NEW i \in DOMAIN tasks, Vends(i)
      PROVE  (\A k \in DOMAIN creds : creds'[k].age = creds[k].age) /\ slow' = slow
  <2>1. PICK c \in Credential : creds' = Append(creds, c)
    BY <1>2 DEF Vends
  <2>2. \A k \in DOMAIN creds : creds'[k] = creds[k]
    BY <1>2, <2>1, AppendsTyped DEF Vends
  <2> QED
    BY <1>2, <2>2 DEF Vends, historyVars
<1>3. ASSUME NEW i \in DOMAIN tasks, Changes(i)
      PROVE  Vends(i) \/ UNCHANGED <<creds, slow>>
  BY <1>3 DEF Changes, EndsNow, MovesNow, QuietTab, Takes, Acquire, SetSecret, GetsAny,
              GetsRows, Leave, historyVars
<1>4. ASSUME NEW k \in DOMAIN creds, NEW p \in Places, Propagate(k, p)
      PROVE  /\ \A j \in DOMAIN creds : creds'[j].age = creds[j].age
             /\ slow' = slow /\ DOMAIN creds' = DOMAIN creds
  <2>1. \A j \in DOMAIN creds : creds'[j].age = creds[j].age
    BY <1>4, PropagateIs
  <2>2. slow' = slow /\ DOMAIN creds' = DOMAIN creds
    BY <1>4 DEF Propagate, historyVars, Typed, Held
  <2> QED
    BY <2>1, <2>2
<1>5. CASE Edits
  BY <1>5, EditsIs DEF Edited
<1> QED
  BY <1>1, <1>2, <1>3, <1>4, <1>5, StepShape

LEMMA StepAges ==
  ASSUME Typed, Ages, [Next]_vars
  PROVE  Ages'
<1>0. Typed'
  BY StepTyped
<1>1. ASSUME NEW k \in DOMAIN creds, Age(k)
      PROVE  Ages'
  <2>1. /\ DOMAIN creds' = DOMAIN creds
        /\ \A j \in DOMAIN creds :
              creds'[j].age = (IF j = k THEN creds[j].age + 1 ELSE creds[j].age)
    BY <1>1, AgeIs DEF Age
  <2>2. \A j \in 1 .. k - 1 : creds[j].age > creds[k].age \/ creds[j].age = 2
    BY <1>1 DEF Age
  <2>3. creds[k].age \in {0, 1} /\ k \in Nat /\ k > 0
    BY <1>1, AgeIs, CountsKeys
  <2>4. \A j \in DOMAIN creds : creds[j].age \in 0 .. 2 /\ j \in Nat /\ j > 0
    BY CountsKeys DEF Credential
  <2>5. ASSUME NEW j \in DOMAIN creds, j < k
        PROVE  creds[j].age >= creds[k].age + 1
    <3>1. j \in 1 .. k - 1
      BY <2>3, <2>4, <2>5
    <3> QED
      BY <2>2, <2>3, <2>4, <3>1
  <2>6. ASSUME NEW j \in DOMAIN creds, NEW m \in DOMAIN creds, j < m
        PROVE  creds'[j].age >= creds'[m].age
    <3>1. creds[j].age >= creds[m].age
      BY <2>6 DEF Ages
    <3> QED
      BY <2>1, <2>4, <2>5, <2>6, <3>1
  <2> QED
    BY <2>1, <2>6 DEF Ages
<1>2. ASSUME NEW i \in DOMAIN tasks, Vends(i),
             \A k \in DOMAIN creds : creds'[k].age = creds[k].age
      PROVE  Ages'
  <2>1. PICK c \in Credential : creds' = Append(creds, c) /\ c.age = 0
    BY <1>2 DEF Vends
  <2>2. creds'[Len(creds) + 1] = c /\ Len(creds') = Len(creds) + 1
    BY <1>2, <2>1, AppendsTyped DEF Vends
  <2>3. DOMAIN creds' = 1 .. (Len(creds) + 1) /\ Len(creds) \in Nat
        /\ DOMAIN creds = 1 .. Len(creds)
    BY <1>0, <2>2, CountsKeys DEF Typed, Held
  <2>4. \A j \in DOMAIN creds : creds[j].age \in 0 .. 2
    BY CountsKeys DEF Credential
  <2>5. ASSUME NEW j \in DOMAIN creds', NEW k \in DOMAIN creds', j < k
        PROVE  creds'[j].age >= creds'[k].age
    <3>1. j \in DOMAIN creds
      BY <2>3, <2>5
    <3>2. CASE k = Len(creds) + 1
      BY <1>2, <2>1, <2>2, <2>4, <3>1, <3>2
    <3>3. CASE k # Len(creds) + 1
      <4>1. k \in DOMAIN creds
        BY <2>3, <3>3
      <4> QED
        BY <1>2, <2>5, <3>1, <4>1 DEF Ages
    <3> QED
      BY <3>2, <3>3
  <2> QED
    BY <2>5 DEF Ages
<1>3. CASE (\A k \in DOMAIN creds : creds'[k].age = creds[k].age) /\ DOMAIN creds' = DOMAIN creds
  BY <1>3 DEF Ages
<1> QED
  BY <1>1, <1>2, <1>3, AgesKept

-----------------------------------------------------------------------------
(* The tab reaches what the worker would read.                             *)

(* A credential reaches what its name denotes, or did when it was out.     *)
IsFresh(k) ==
  LET n == creds[k].bucket IN
  \/ creds[k].backend = Denotes(n)
  \/ \E c \in k .. Len(creds) : <<n, creds[k].backend, c>> \in former
Fresh == \A k \in DOMAIN creds : IsFresh(k)

(* What a name denotes depends on the rows.                                *)
LEMMA SameRows ==
  ASSUME NEW n, UNCHANGED rows
  PROVE  Lookup(n)' = Lookup(n) /\ Denotes(n)' = Denotes(n)
<1>1. Rows(n)' = Rows(n) /\ Live' = Live
  BY DEF Rows, Live
<1>2. Lookup(n)' = Lookup(n)
  BY <1>1 DEF Lookup
<1>3. TypeOf(Lookup(n))' = TypeOf(Lookup(n))
  BY <1>2 DEF TypeOf
<1> QED
  BY <1>1, <1>2, <1>3 DEF Denotes

LEMMA InitFresh ==
  ASSUME Init
  PROVE  Fresh
BY DEF Init, Fresh

(* An edit keeps in mind what the names denoted.                           *)
LEMMA EditedIs ==
  ASSUME Edited
  PROVE  /\ UNCHANGED creds
         /\ former \subseteq former'
         /\ \A n \in Names : <<n, Denotes(n), Len(creds)>> \in former'
BY DEF Edited

(* A credential stays, whatever other ones come.                           *)
LEMMA FreshKept ==
  ASSUME Typed, Fresh, NEW k \in DOMAIN creds,
         creds'[k].bucket = creds[k].bucket, creds'[k].backend = creds[k].backend,
         Len(creds)' \in Nat, Len(creds) <= Len(creds)',
         UNCHANGED <<rows, former>> \/ Edited
  PROVE  IsFresh(k)'
<1>1. PICK n \in Names, b \in 0 .. MaxRows : n = creds[k].bucket /\ b = creds[k].backend
  BY CountsKeys DEF Credential
<1>2. k \in Nat /\ Len(creds) \in Nat /\ k <= Len(creds)
  BY CountsKeys
<1>3. b = Denotes(n) \/ \E c \in k .. Len(creds) : <<n, b, c>> \in former
  BY <1>1 DEF Fresh, IsFresh
<1>4. creds'[k].bucket = n /\ creds'[k].backend = b
  BY <1>1
<1>5. CASE \E c \in k .. Len(creds) : <<n, b, c>> \in former
  <2>1. PICK c \in k .. Len(creds) : <<n, b, c>> \in former
    BY <1>5
  <2>2. c \in k .. Len(creds)' /\ <<n, b, c>> \in former'
    BY <1>2, <2>1, EditedIs
  <2> QED
    BY <1>4, <2>2 DEF IsFresh
<1>6. CASE b = Denotes(n) /\ UNCHANGED rows
  BY <1>4, <1>6, SameRows DEF IsFresh
<1>7. CASE b = Denotes(n) /\ Edited
  <2>1. PICK c : c = Len(creds) /\ <<n, b, c>> \in former'
    BY <1>7, EditedIs
  <2>2. c \in k .. Len(creds)'
    BY <1>2, <2>1
  <2> QED
    BY <1>4, <2>1, <2>2 DEF IsFresh
<1> QED
  BY <1>3, <1>5, <1>6, <1>7

LEMMA StepFresh ==
  ASSUME Typed, Fresh, [Next]_vars
  PROVE  Fresh'
<1>0. Typed' /\ Len(creds) \in Nat /\ DOMAIN creds = 1 .. Len(creds)
      /\ Len(creds)' \in Nat /\ DOMAIN creds' = 1 .. Len(creds)'
  BY StepTyped, CountsKeys DEF Typed, Held
<1>1. CASE UNCHANGED <<rows, former, creds>>
  BY <1>0, <1>1, FreshKept DEF Fresh
<1>2. ASSUME NEW i \in DOMAIN tasks, Vends(i)
      PROVE  Fresh'
  <2>1. PICK c \in Credential : creds' = Append(creds, c) /\ c.backend = Denotes(c.bucket)
    BY <1>2 DEF Vends
  <2>2. /\ creds'[Len(creds) + 1] = c /\ Len(creds)' = Len(creds) + 1
        /\ \A k \in DOMAIN creds : creds'[k] = creds[k]
    BY <1>2, <2>1, AppendsTyped DEF Vends
  <2>3. PICK z : z = Len(creds) + 1
    OBVIOUS
  <2>4. DOMAIN creds' = DOMAIN creds \cup {z} /\ Len(creds) <= Len(creds)'
    BY <1>0, <2>2, <2>3
  <2>5. UNCHANGED <<rows, former>>
    BY <1>2 DEF Vends, historyVars
  <2>6. PICK n \in Names : n = c.bucket
    BY DEF Credential
  <2>7. IsFresh(z)'
    <3>1. creds'[z].backend = Denotes(n)' /\ creds'[z].bucket = n
      BY <2>1, <2>2, <2>3, <2>5, <2>6, SameRows
    <3> QED
      BY <3>1 DEF IsFresh
  <2>8. \A k \in DOMAIN creds : IsFresh(k)'
    BY <1>0, <2>2, <2>4, <2>5, FreshKept
  <2> QED
    BY <2>4, <2>7, <2>8 DEF Fresh
<1>3. ASSUME NEW k \in DOMAIN creds, Age(k) \/ \E p \in Places : Propagate(k, p)
      PROVE  Fresh'
  <2>1. UNCHANGED <<rows, former>>
    BY <1>3 DEF Age, Propagate, storeVars, historyVars
  <2>2. /\ Len(creds') = Len(creds)
        /\ \A j \in DOMAIN creds :
             creds'[j].backend = creds[j].backend /\ creds'[j].bucket = creds[j].bucket
    BY <1>3, AgeIs, PropagateIs
  <2> QED
    BY <1>0, <2>1, <2>2, FreshKept DEF Fresh
<1>4. CASE Edits
  <2>1. Edited /\ UNCHANGED creds
    BY <1>4, EditsIs, EditedIs
  <2> QED
    BY <1>0, <2>1, FreshKept DEF Fresh
<1>5. CASE Idle \/ (\E i \in Ids : Comes(i)) \/ \E p \in Places : Roam(p)
  BY <1>1, <1>5 DEF Idle, QuietTab, Comes, Start, StartView, Roam, storeVars, historyVars
<1>6. ASSUME NEW i \in DOMAIN tasks, Changes(i)
      PROVE  Fresh'
  <2>1. Vends(i) \/ UNCHANGED <<rows, former, creds>>
    BY <1>6 DEF Changes, EndsNow, MovesNow, QuietTab, Takes, Acquire, SetSecret, GetsAny,
                GetsRows, Leave, storeVars, historyVars
  <2> QED
    BY <1>1, <1>2, <2>1
<1> QED
  BY <1>3, <1>4, <1>5, <1>6, StepShape

(* What comes after a number, up to the last one.                          *)
LEMMA After ==
  ASSUME NEW n \in Nat, NEW k \in 1 .. n, NEW c \in k .. n
  PROVE  /\ c \in 0 .. n
         /\ c = n \/ (c + 1 \in 1 .. n /\ k < c + 1)
OBVIOUS

(* A credential that is served has been out for less than an hour, and so  *)
(* have those that were vended later: the edits that they saw are recent.  *)
LEMMA FreshIsDenoted ==
  ASSUME Typed, Ages, Fresh, NEW k \in DOMAIN creds, creds[k].age # 2
  PROVE  Denoted(creds[k].bucket, creds[k].backend)
<1>1. PICK m \in Nat : m = Len(creds) /\ DOMAIN creds = 1 .. m
  BY CountsKeys
<1>2. k \in 1 .. m
  BY <1>1
<1>3. \A j \in 1 .. m : creds[j].age \in 0 .. 2
  BY <1>1, CountsKeys DEF Credential
<1>4. CASE creds[k].backend = Denotes(creds[k].bucket)
  BY <1>4 DEF Denoted
<1>5. ASSUME NEW c \in k .. m, <<creds[k].bucket, creds[k].backend, c>> \in former
      PROVE  Denoted(creds[k].bucket, creds[k].backend)
  <2>1. c \in 0 .. m /\ (c = m \/ (c + 1 \in 1 .. m /\ k < c + 1))
    BY <1>2, After
  <2>2. c = m \/ creds[c + 1].age < 2
    <3>1. ASSUME NEW j \in 1 .. m, k < j
          PROVE  creds[j].age < 2
      <4>1. creds[k].age >= creds[j].age
        BY <1>1, <1>2, <3>1 DEF Ages
      <4> QED
        BY <1>2, <1>3, <4>1
    <3> QED
      BY <2>1, <3>1
  <2> QED
    BY <1>1, <1>5, <2>1, <2>2 DEF Denoted
<1> QED
  BY <1>1, <1>4, <1>5 DEF Fresh, IsFresh

(* No task has been answered by another backend.                           *)
Right == \A i \in DOMAIN tasks : ~ tasks[i].wrong

LEMMA JudgedRight ==
  ASSUME Typed, Tokens, ViewsFit, Ages, Fresh, NEW i \in DOMAIN tasks, ~ tasks[i].wrong,
         NEW w, JudgedBy(i, w)
  PROVE  ~ w
<1>1. CASE w = tasks[i].wrong
  BY <1>1
<1>2. ASSUME NEW n \in tasks[i].names, Verdict(KeyFor(tasks[i], n)) = "served",
             w = Wrong(tasks[i], n, KeyFor(tasks[i], n))
      PROVE  ~ w
  <2>1. PICK k : k = KeyFor(tasks[i], n)
    OBVIOUS
  <2>2. n \in Names
    BY DEF Typed, Tasked, Task
  <2>3. k # 0 /\ k \in Keys /\ IsFor(k, n) /\ creds[k].age # 2
    BY <1>2, <2>1, <2>2, ServedIs, KeyFits, KeyForIs
  <2>4. k \in DOMAIN creds /\ creds[k].bucket = n
    BY <2>3, CountsKeys DEF IsFor
  <2>5. Denoted(n, creds[k].backend)
    BY <2>3, <2>4, FreshIsDenoted
  <2> QED
    BY <1>2, <2>1, <2>5 DEF Wrong
<1> QED
  BY <1>1, <1>2 DEF JudgedBy

LEMMA StepRight ==
  ASSUME Typed, Tokens, ViewsFit, Ages, Fresh, Right, [Next]_vars
  PROVE  Right'
<1>1. SUFFICES ASSUME NEW j \in DOMAIN tasks', NEW u, u = tasks'[j]
               PROVE  ~ u.wrong
  BY DEF Right
<1>2. CASE New(u)
  BY <1>2 DEF New
<1>3. CASE j \in DOMAIN tasks /\ From(j, tasks[j], u)
  BY <1>3, JudgedRight DEF From, Right
<1> QED
  BY <1>1, <1>2, <1>3, StepFrom

(* A request is answered by a backend that its name denotes, or denoted at *)
(* some time of the last hour, however rows are added, renamed and removed *)
(* and whatever names are used twice.                                      *)
THEOREM TabReadsWhatIsNamed == Spec => []NamesHoldForAnHour
<1>1. Init => Typed /\ Tokens /\ ViewsFit /\ Ages /\ Fresh /\ Right
  <2>1. Init => Tokens /\ ViewsFit /\ Ages /\ Right
    BY DEF Init, Tokens, ViewsFit, IsFor, Ages, Right
  <2> QED
    BY <2>1, InitTyped, InitFresh
<1>2. Typed /\ Tokens /\ ViewsFit /\ Ages /\ Fresh /\ Right /\ [Next]_vars
        => Typed' /\ Tokens' /\ ViewsFit' /\ Ages' /\ Fresh' /\ Right'
  BY StepTyped, StepTokens, StepViewsFit, StepAges, StepFresh, StepRight
<1>3. Right => NamesHoldForAnHour
  BY DEF Right, NamesHoldForAnHour
<1> QED
  BY <1>1, <1>2, <1>3, PTL DEF Spec

-----------------------------------------------------------------------------
(* How old the credentials are that a task presents.                       *)

(* The tasks that have an old one know, and while it is answered for the   *)
(* minute has not passed.                                                  *)
InTime(k, aged) ==
  k # 0 => /\ creds[k].age >= 1 => k \in aged
           /\ creds[k].age = 2 => slow
JustVended(k) == k # 0 => creds[k].age = 0
Timed == \A i \in DOMAIN tasks :
  /\ \A n \in Names : InTime(tasks[i].keys[n], tasks[i].aged)
  /\ JustVended(tasks[i].key)

(* A key that stays in time.                                               *)
LEMMA InTimeKept ==
  ASSUME Typed, \A x \in DOMAIN creds : creds'[x].age = creds[x].age, slow' = slow,
         NEW k \in Keys, NEW aged, NEW noted, aged \subseteq noted, InTime(k, aged)
  PROVE  InTime(k, noted)'
<1>1. CASE k = 0
  BY <1>1 DEF InTime
<1>2. CASE k # 0
  <2>1. creds'[k].age = creds[k].age
    BY <1>2, CountsKeys
  <2> QED
    BY <1>2, <2>1 DEF InTime
<1> QED
  BY <1>1, <1>2

(* What else than time does to the keys of a task.                         *)
LEMMA CalmTimed ==
  ASSUME Typed, Timed, [Next]_vars, slow' = slow,
         \A k \in DOMAIN creds : creds'[k].age = creds[k].age
  PROVE  Timed'
<1>1. SUFFICES ASSUME NEW j \in DOMAIN tasks', NEW u, u = tasks'[j]
               PROVE  (\A n \in Names : InTime(u.keys[n], u.aged)') /\ JustVended(u.key)'
  BY DEF Timed, InTime, JustVended
<1>2. CASE New(u)
  BY <1>2 DEF New, InTime, JustVended
<1>3. CASE j \in DOMAIN tasks /\ From(j, tasks[j], u)
  <2>1. PICK t : t = tasks[j]
    OBVIOUS
  <2>2. /\ Real(t, Len(creds)) /\ t \in Task
        /\ \A n \in Names : InTime(t.keys[n], t.aged)
        /\ JustVended(t.key)
    BY <1>3, <2>1 DEF Typed, Tasked, Timed
  <2>3. ASSUME NEW n \in Names
        PROVE  InTime(u.keys[n], u.aged)'
    <3>1. KeyFrom(t, u, n) /\ (u.keys = [m \in Names |-> 0] \/ t.aged \subseteq u.aged)
      BY <1>3, <2>1 DEF From
    <3>2. CASE u.keys[n] = t.keys[n] /\ t.aged \subseteq u.aged
      <4>1. t.keys[n] \in Keys /\ InTime(t.keys[n], t.aged)
        BY <2>2 DEF Real, Keys
      <4>2. InTime(t.keys[n], u.aged)'
        BY <3>2, <4>1, InTimeKept
      <4> QED
        BY <3>2, <4>2
    <3>3. CASE u.keys[n] = 0
      BY <3>3 DEF InTime
    <3>4. CASE Cached(n) /\ u.keys[n] = cache[n] /\ UNCHANGED creds
      BY <3>4 DEF Cached, InTime
    <3>5. CASE t.at = "answer" /\ u.keys[n] = t.key /\ UNCHANGED creds
      BY <2>2, <3>5 DEF JustVended, InTime
    <3> QED
      BY <3>1, <3>2, <3>3, <3>4, <3>5 DEF KeyFrom
  <2>4. JustVended(u.key)'
    <3>1. WayFrom(t, u)
      BY <1>3, <2>1 DEF From
    <3>2. CASE u.key = 0
      BY <3>2 DEF JustVended
    <3>3. CASE u.key = t.key /\ t.key # 0
      <4>1. t.key \in DOMAIN creds
        BY <2>2, <3>3, CountsKeys DEF Real
      <4> QED
        BY <2>2, <3>3, <4>1 DEF JustVended
    <3>4. CASE creds'[u.key].age = 0
      BY <3>4 DEF JustVended
    <3> QED
      BY <3>1, <3>2, <3>3, <3>4 DEF WayFrom
  <2> QED
    BY <2>3, <2>4
<1> QED
  BY <1>1, <1>2, <1>3, StepFrom

(* Time ages one credential, which the tasks that have it notice.          *)
LEMMA AgeTimed ==
  ASSUME Typed, Timed, NEW k \in DOMAIN creds, Age(k)
  PROVE  Timed'
<1>1. SUFFICES ASSUME NEW i \in DOMAIN tasks', NEW u, u = tasks'[i]
               PROVE  (\A n \in Names : InTime(u.keys[n], u.aged)') /\ JustVended(u.key)'
  BY DEF Timed, InTime, JustVended
<1>2. PICK t : t = tasks[i]
  OBVIOUS
<1>3. /\ i \in DOMAIN tasks
      /\ u = (IF creds[k].age = 0 /\ k \in Range(t.keys) THEN Noted(t, k) ELSE t)
      /\ creds[k].age \in {0, 1}
  BY <1>1, <1>2, AgeIs
<1>4. /\ Real(t, Len(creds)) /\ t.key # k /\ k \in Nat
      /\ \A n \in Names : InTime(t.keys[n], t.aged)
      /\ JustVended(t.key)
  BY <1>2, <1>3, CountsKeys DEF Typed, Tasked, Timed, Age
<1>5. /\ u.keys = t.keys /\ u.key = t.key /\ t.aged \subseteq u.aged
      /\ creds[k].age = 0 /\ k \in Range(t.keys) => k \in u.aged
  <2>1. CASE creds[k].age = 0 /\ k \in Range(t.keys)
    <3>1. Len(creds) \in Nat /\ u = Noted(t, k)
      BY <1>3, <2>1, CountsKeys
    <3>2. u.keys = t.keys /\ u.key = t.key /\ u.aged = t.aged \cup {k}
      BY <1>4, <3>1, AgedIs
    <3> QED
      BY <3>2
  <2>2. CASE ~ (creds[k].age = 0 /\ k \in Range(t.keys))
    <3>1. u = t
      BY <1>3, <2>2
    <3> QED
      BY <2>2, <3>1
  <2> QED
    BY <2>1, <2>2
<1>6. \A j \in DOMAIN creds : creds'[j].age = (IF j = k THEN creds[j].age + 1 ELSE creds[j].age)
  BY AgeIs
<1>7. /\ slow \in BOOLEAN
      /\ creds[k].age = 0 => slow' = slow
      /\ creds[k].age = 1 => slow' = (slow \/ \E j \in DOMAIN tasks : k \in tasks[j].aged)
  BY <1>3 DEF Age, Typed, Held
<1>8. JustVended(u.key)'
  <2>1. t.key = 0 \/ t.key \in DOMAIN creds
    BY <1>4, CountsKeys DEF Real
  <2> QED
    BY <1>4, <1>5, <1>6, <2>1 DEF JustVended
<1>9. ASSUME NEW n \in Names
      PROVE  InTime(u.keys[n], u.aged)'
  <2>1. t.keys \in [Names -> Keys] /\ u.keys[n] = t.keys[n]
    BY <1>4, <1>5 DEF Real, Keys
  <2>2. CASE t.keys[n] = 0
    BY <2>1, <2>2 DEF InTime
  <2>3. CASE t.keys[n] = k
    <3>1. k \in Range(t.keys)
      BY <2>1, <2>3 DEF Range
    <3>2. creds[k].age = 1 => k \in t.aged
      BY <1>4, <2>3, CountsKeys DEF InTime
    <3>3. CASE creds[k].age = 0
      <4>1. creds'[k].age = 1 /\ k \in u.aged
        BY <1>5, <1>6, <3>1, <3>3
      <4> QED
        BY <2>1, <2>3, <4>1 DEF InTime
    <3>4. CASE creds[k].age = 1
      <4>1. k \in u.aged /\ slow'
        BY <1>2, <1>3, <1>5, <1>7, <3>2, <3>4
      <4> QED
        BY <2>1, <2>3, <4>1 DEF InTime
    <3> QED
      BY <1>3, <3>3, <3>4
  <2>4. CASE t.keys[n] # 0 /\ t.keys[n] # k
    <3>1. t.keys[n] \in DOMAIN creds
      BY <2>1, <2>4, CountsKeys
    <3>2. creds'[t.keys[n]].age = creds[t.keys[n]].age
      BY <1>6, <2>4, <3>1
    <3>3. InTime(t.keys[n], t.aged) /\ (slow => slow')
      BY <1>3, <1>4, <1>7
    <3> QED
      BY <1>5, <2>1, <2>4, <3>2, <3>3 DEF InTime
  <2> QED
    BY <2>2, <2>3, <2>4
<1> QED
  BY <1>8, <1>9

LEMMA StepTimed ==
  ASSUME Typed, Timed, [Next]_vars
  PROVE  Timed'
BY AgesKept, AgeTimed, CalmTimed

-----------------------------------------------------------------------------
(* The secrets that the preambles of the tasks make.                       *)

(* Where k was put there is a secret, as new as k.                         *)
Newer(s, k) == secrets[s] # 0 /\ (overtaken \/ secrets[s] >= k)
InPlace(k) == Newer(SecretName(k), k)

Ready(t, n) == t.at \in {"run", "parts"} \/ (t.at = "secrets" /\ n \notin t.todo)
IsReady(t) == \A n \in t.names \ Feeds : Ready(t, n) => InPlace(t.keys[n])
Scoped == \A i \in DOMAIN tasks : tasks[i].kind # "view" => IsReady(tasks[i])

ViewsIn == \A n \in Names \ Feeds : views[n] # 0 => InPlace(views[n])

(* A statement puts its secret in place, ...                               *)
LEMMA SetSecretIs ==
  ASSUME Typed, NEW i \in DOMAIN tasks, NEW n, SetSecret(i, n)
  PROVE  /\ n \in Names \ Feeds /\ n \in tasks[i].todo /\ tasks[i].at = "secrets"
         /\ UNCHANGED creds
         /\ tasks[i].keys[n] \in DOMAIN creds
         /\ SecretName(tasks[i].keys[n]) \in DOMAIN secrets
         /\ secrets' = [secrets EXCEPT ![SecretName(tasks[i].keys[n])] = tasks[i].keys[n]]
         /\ overtaken' = (overtaken \/ secrets[SecretName(tasks[i].keys[n])] > tasks[i].keys[n])
         /\ Put(i, Onward(Prepared(tasks[i], n)))
<1>1. n \in tasks[i].todo /\ tasks[i].at = "secrets"
  BY DEF SetSecret
<1>2. n \in Names \ Feeds /\ tasks[i].keys[n] \in DOMAIN creds
      /\ SecretName(tasks[i].keys[n]) \in DOMAIN secrets
  BY <1>1, SecretIs, CountsKeys DEF Typed, Held
<1> QED
  BY <1>1, <1>2 DEF SetSecret, Prepared

(* ... where one that is in place stays, or is known to be overtaken.      *)
LEMMA InPlaceKept ==
  ASSUME Typed, [Next]_vars, NEW k \in DOMAIN creds, InPlace(k)
  PROVE  InPlace(k)'
<1>1. PICK s : s = SecretName(k)
  OBVIOUS
<1>2. SecretName(k)' = s
  BY <1>1, CredsKept DEF Kept, SecretName
<1>3. Newer(s, k)
  BY <1>1 DEF InPlace
<1>4. CASE UNCHANGED secrets /\ (overtaken => overtaken')
  <2>1. Newer(s, k)'
    BY <1>3, <1>4 DEF Newer
  <2> QED
    BY <1>2, <2>1 DEF InPlace
<1>5. ASSUME NEW i \in DOMAIN tasks, NEW n \in Names, SetSecret(i, n)
      PROVE  InPlace(k)'
  <2>1. PICK m : m = tasks[i].keys[n]
    OBVIOUS
  <2>2. PICK r : r = SecretName(m)
    OBVIOUS
  <2>3. /\ m \in DOMAIN creds /\ r \in DOMAIN secrets
        /\ secrets' = [secrets EXCEPT ![r] = m]
        /\ overtaken' = (overtaken \/ secrets[r] > m)
    BY <1>5, <2>1, <2>2, SetSecretIs
  <2>4. m \in Nat /\ m # 0 /\ k \in Nat
    BY <2>3, CountsKeys
  <2>5. CASE s = r
    <3>1. secrets'[s] = m
      BY <2>3, <2>5
    <3>2. secrets[s] \in Nat
      BY <2>3, <2>5 DEF Typed, Held, Keys
    <3>3. overtaken' \/ m >= k
      <4>1. CASE overtaken
        BY <2>3, <4>1
      <4>2. CASE secrets[s] > m
        BY <2>3, <2>5, <4>2
      <4>3. CASE ~ overtaken /\ ~ (secrets[s] > m)
        <5>1. secrets[s] >= k
          BY <1>3, <4>3 DEF Newer
        <5> QED
          BY <2>4, <3>2, <4>3, <5>1
      <4> QED
        BY <4>1, <4>2, <4>3
    <3>4. Newer(s, k)'
      BY <2>4, <3>1, <3>3 DEF Newer
    <3> QED
      BY <1>2, <3>4 DEF InPlace
  <2>6. CASE s # r
    <3>1. secrets'[s] = secrets[s]
      BY <2>3, <2>6
    <3>2. Newer(s, k)'
      BY <1>3, <2>3, <3>1 DEF Newer
    <3> QED
      BY <1>2, <3>2 DEF InPlace
  <2> QED
    BY <2>5, <2>6
<1>6. UNCHANGED overtaken \/ \E i \in DOMAIN tasks, n \in Names : SetSecret(i, n)
  <2>1. CASE Idle \/ (\E i \in Ids : Comes(i)) \/ (\E p \in Places : Roam(p)) \/ Edits
    BY <2>1, EditsIs DEF Idle, QuietTab, Comes, Start, StartView, Roam, Edited, historyVars
  <2>2. ASSUME NEW j \in DOMAIN creds, Age(j) \/ \E p \in Places : Propagate(j, p)
        PROVE  UNCHANGED overtaken
    BY <2>2 DEF Age, Propagate, historyVars
  <2>3. ASSUME NEW i \in DOMAIN tasks, Changes(i)
        PROVE  UNCHANGED overtaken \/ \E n \in Names : SetSecret(i, n)
    BY <2>3 DEF Changes, EndsNow, MovesNow, QuietTab, Takes, Vends, Acquire, GetsAny,
                GetsRows, Leave, historyVars
  <2> QED
    BY <2>1, <2>2, <2>3, StepShape
<1> QED
  BY <1>4, <1>5, <1>6, TabKept

(* What a step makes of a task, as far as its secrets go: it begins, or    *)
(* whatever it is ready to read was so before or has its secret made now.  *)
Begun(u) ==
  \/ u.kind # "view" /\ u.at = "resolve"
  \/ u.kind = "view" /\ UNCHANGED views /\ \E n \in Names : u.names = {n} /\ views[n] # 0
Remains(j, t, u) ==
  /\ u.kind = t.kind /\ u.names \subseteq t.names
  /\ t.kind = "view" /\ u.at = "run" => t.at = "run"
  /\ t.kind # "view" => \A n \in u.names \ Feeds :
       Ready(u, n) => u.keys[n] = t.keys[n] /\ (Ready(t, n) \/ SetSecret(j, n))

LEMMA OverRemains ==
  ASSUME NEW j, NEW t, NEW u, u.kind = t.kind, u.names = {}, u.at \in Ends
  PROVE  Remains(j, t, u)
BY DEF Remains, Ends

LEMMA SameRemains ==
  ASSUME NEW j, NEW t, NEW u, u.kind = t.kind, u.names = t.names, u.at = t.at,
         u.keys = t.keys, t.at = "run" \/ u.todo = t.todo
  PROVE  Remains(j, t, u)
BY DEF Remains, Ready

(* A task that asks for its credentials is not ready.                      *)
LEMMA AsksRemains ==
  ASSUME NEW j, NEW m \in Nat, NEW t, Real(t, m), Asking(t), NEW u, u.kind = t.kind,
         u.names = t.names, \A n \in u.names \ Feeds : ~ Ready(u, n)
  PROVE  Remains(j, t, u)
BY DEF Remains, Real, Phased

LEMMA PreparesRemains ==
  ASSUME NEW j, NEW m \in Nat, NEW t, Real(t, m), Asking(t), NEW w, Real(w, m),
         w.at = "resolve", w.kind = t.kind, w.names = t.names
  PROVE  Remains(j, t, Onward(w))
<1>1. PICK u : u = Onward(w)
  OBVIOUS
<1>2. /\ u.kind = t.kind /\ u.names = t.names /\ u.at \in {"resolve", "secrets", "run"}
      /\ w.todo # {} => u = w
      /\ u.at = "run" => w.names \subseteq Feeds
      /\ w.todo = {} /\ u.at = "secrets" => u.todo = w.names \ Feeds
  BY <1>1, OnwardIs DEF SameTask
<1>3. \A n \in u.names \ Feeds : ~ Ready(u, n)
  <2>1. CASE u.at = "resolve"
    BY <2>1 DEF Ready
  <2>2. CASE u.at = "run"
    BY <1>2, <2>2
  <2>3. CASE u.at = "secrets"
    BY <1>2, <2>3 DEF Ready
  <2> QED
    BY <1>2, <2>1, <2>2, <2>3
<1> QED
  BY <1>1, <1>2, <1>3, AsksRemains

LEMMA SecretRemains ==
  ASSUME Typed, NEW i \in DOMAIN tasks, NEW n \in Names, SetSecret(i, n)
  PROVE  Remains(i, tasks[i], Onward(Prepared(tasks[i], n)))
<1>1. PICK t : t = tasks[i]
  OBVIOUS
<1>2. PICK w : w = Prepared(t, n)
  OBVIOUS
<1>3. PICK u : u = Onward(w)
  OBVIOUS
<1>4. Real(t, Len(creds)) /\ Len(creds) \in Nat /\ t.at = "secrets"
  BY <1>1, CountsKeys, SetSecretIs DEF Typed, Tasked
<1>5. Real(w, Len(creds)) /\ w.at = "secrets" /\ w.todo = t.todo \ {n} /\ SameTask(t, w)
  BY <1>2, <1>4, PreparedIs
<1>6. /\ SameTask(w, u) /\ u.at \in {"secrets", "run"}
      /\ w.todo # {} => u = w
      /\ w.todo = {} => u.at # "secrets"
      /\ u.at = "run" => w.todo = {}
  BY <1>3, <1>4, <1>5, OnwardIs
<1>7. u.kind = t.kind /\ u.names = t.names /\ u.keys = t.keys
  BY <1>5, <1>6 DEF SameTask
<1>8. t.kind # "view"
  BY <1>4 DEF Real, Phased
<1>9. ASSUME NEW m \in u.names \ Feeds, Ready(u, m)
      PROVE  Ready(t, m) \/ SetSecret(i, m)
  <2>1. m \notin w.todo
    BY <1>5, <1>6, <1>9 DEF Ready
  <2>2. m = n \/ m \notin t.todo
    BY <1>5, <2>1
  <2> QED
    BY <1>4, <2>2 DEF Ready
<1>10. Remains(i, t, u)
  BY <1>7, <1>8, <1>9 DEF Remains
<1> QED
  BY <1>1, <1>2, <1>3, <1>10

LEMMA GetsRemains ==
  ASSUME Typed, NEW i \in DOMAIN tasks, NEW n \in Names, GetsAny(i, n)
  PROVE  \E u : Put(i, u) /\ Remains(i, tasks[i], u)
<1>1. PICK t, w : t = tasks[i] /\ w = Wrong(t, n, KeyFor(t, n))
  OBVIOUS
<1>2. PICK u : u = Answered(t, n, w)
  OBVIOUS
<1>3. Put(i, Onward(u)) /\ t.at = "run" /\ t.kind # "write"
  BY <1>1, <1>2 DEF GetsAny, GetsRows, Reads, Answered
<1>4. Real(t, Len(creds)) /\ Len(creds) \in Nat /\ w \in BOOLEAN
  <2>1. Real(t, Len(creds)) /\ Len(creds) \in Nat /\ t.wrong \in BOOLEAN
    BY <1>1, CountsKeys DEF Typed, Tasked, Task
  <2> QED
    BY <1>1, <2>1, WrongIs
<1>5. Real(u, Len(creds)) /\ u.at = "run" /\ u.kind = t.kind /\ u.names = t.names /\ u.keys = t.keys
  BY <1>2, <1>3, <1>4, ReadIs
<1>6. Remains(i, t, Onward(u))
  <2>1. CASE Onward(u) = u
    BY <1>3, <1>5, <2>1, SameRemains
  <2>2. CASE Onward(u) = Over(u, "done")
    <3>1. u \in Task /\ "done" \in Ends
      BY <1>5 DEF Real, Ends
    <3>2. PICK v : v = Over(u, "done")
      OBVIOUS
    <3>3. v.kind = t.kind /\ v.names = {} /\ v.at \in Ends
      BY <1>4, <1>5, <3>1, <3>2, OverIs
    <3> QED
      BY <2>2, <3>2, <3>3, OverRemains
  <2> QED
    BY <1>5, <2>1, <2>2, OnwardRun
<1> QED
  BY <1>1, <1>3, <1>6

LEMMA ChangesRemains ==
  ASSUME Typed, NEW i \in DOMAIN tasks, Changes(i), ~ Leave(i)
  PROVE  \E u : Put(i, u) /\ Remains(i, tasks[i], u)
<1>1. PICK t : t = tasks[i]
  OBVIOUS
<1>2. Real(t, Len(creds)) /\ Len(creds) \in Nat
  BY <1>1, CountsKeys DEF Typed, Tasked
<1>3. CASE EndsNow(i)
  <2>1. PICK at \in Ends, v \in Task : Put(i, Over(v, at)) /\ v.kind = t.kind
    BY <1>1, <1>3 DEF EndsNow
  <2>2. PICK u : u = Over(v, at)
    OBVIOUS
  <2>3. u.kind = t.kind /\ u.names = {} /\ u.at \in Ends
    BY <1>2, <2>1, <2>2, OverIs
  <2> QED
    BY <1>1, <2>1, <2>2, <2>3, OverRemains
<1>4. CASE MovesNow(i)
  <2>1. PICK u : Put(i, u) /\ Moves(t, u) /\ u.kind = t.kind /\ u.names = t.names /\ u.keys = t.keys
    BY <1>1, <1>4 DEF MovesNow
  <2>2. CASE t.at = "run" /\ u.at = "parts"
    BY <1>1, <2>1, <2>2 DEF Remains, Ready
  <2>3. CASE ~ (t.at = "run" /\ u.at = "parts")
    <3>1. Asking(t) /\ \A n \in u.names \ Feeds : ~ Ready(u, n)
      BY <2>1, <2>3 DEF Moves, Asking, Ready
    <3> QED
      BY <1>1, <1>2, <2>1, <3>1, AsksRemains
  <2> QED
    BY <2>2, <2>3
<1>5. CASE Vends(i)
  <2>1. PICK c \in Credential : \E u :
          /\ Put(i, u) /\ t.at = "vend" /\ u.kind = t.kind /\ u.names = t.names
          /\ u.at \in {"check", "answer"}
    BY <1>1, <1>5 DEF Vends
  <2>2. PICK u : /\ Put(i, u) /\ t.at = "vend" /\ u.kind = t.kind /\ u.names = t.names
                 /\ u.at \in {"check", "answer"}
    BY <2>1
  <2>3. Asking(t) /\ \A n \in u.names \ Feeds : ~ Ready(u, n)
    BY <2>2 DEF Asking, Ready
  <2> QED
    BY <1>1, <1>2, <2>2, <2>3, AsksRemains
<1>6. CASE Acquire(i)
  <2>1. PICK w : w = Acquired(t)
    OBVIOUS
  <2>2. Put(i, Onward(w)) /\ t.at = "answer"
    BY <1>1, <1>6, <2>1 DEF Acquire, Acquired
  <2>3. Real(w, Len(creds)) /\ w.at = "resolve" /\ w.names = t.names /\ w.kind = t.kind
    BY <1>2, <2>1, <2>2, AcquiredIs
  <2>4. Asking(t)
    BY <2>2 DEF Asking
  <2> QED
    BY <1>1, <1>2, <2>2, <2>3, <2>4, PreparesRemains
<1>7. ASSUME NEW n \in Names, Takes(i, n)
      PROVE  \E u : Put(i, u) /\ Remains(i, t, u)
  <2>1. PICK w : /\ Real(w, Len(creds)) /\ Put(i, Onward(w)) /\ w.at = "resolve"
                 /\ w.kind = t.kind /\ w.names = t.names
    BY <1>1, <1>7 DEF Takes
  <2>2. Asking(t)
    BY <1>1, <1>7 DEF Takes, Asking
  <2> QED
    BY <1>2, <2>1, <2>2, PreparesRemains
<1>8. ASSUME NEW n \in Names, SetSecret(i, n)
      PROVE  \E u : Put(i, u) /\ Remains(i, t, u)
  BY <1>1, <1>8, SetSecretIs, SecretRemains
<1> QED
  BY <1>1, <1>3, <1>4, <1>5, <1>6, <1>7, <1>8, GetsRemains DEF Changes

LEMMA NotedRemains ==
  ASSUME NEW j, NEW n \in Nat, NEW t, Real(t, n), NEW k \in Nat, NEW u, u = Noted(t, k)
  PROVE  Remains(j, t, u)
<1>1. /\ u.at = t.at /\ u.kind = t.kind /\ u.names = t.names /\ u.todo = t.todo
      /\ u.keys = t.keys
  BY AgedIs
<1> QED
  BY <1>1, SameRemains

LEMMA StepRemains ==
  ASSUME Typed, [Next]_vars, NEW j \in DOMAIN tasks'
  PROVE  \/ Begun(tasks'[j]) \/ (j \in DOMAIN tasks /\ Remains(j, tasks[j], tasks'[j]))
<1>1. CASE UNCHANGED tasks
  BY <1>1, SameRemains
<1>2. CASE Idle \/ (\E p \in Places : Roam(p)) \/ Edits
  BY <1>1, <1>2, EditsIs DEF Idle, Roam, Edited
<1>3. ASSUME NEW i \in Ids, Comes(i)
      PROVE  Begun(tasks'[j]) \/ (j \in DOMAIN tasks /\ Remains(j, tasks[j], tasks'[j]))
  <2>1. ASSUME NEW n \in Names, StartView(i, n)
        PROVE  Begun(tasks'[j]) \/ (j \in DOMAIN tasks /\ Remains(j, tasks[j], tasks'[j]))
    <3>1. PICK t : t = [NewTask("view", {n}, 0) EXCEPT !.at = "run"]
      OBVIOUS
    <3>2. /\ tasks' = [k \in DOMAIN tasks \cup {i} |-> IF k = i THEN t ELSE tasks[k]]
          /\ UNCHANGED views /\ views[n] # 0
      BY <2>1, <3>1 DEF StartView, tabVars
    <3>3. t.kind = "view" /\ t.names = {n}
      BY <3>1, ViewTaskIs
    <3>4. CASE j = i
      BY <3>2, <3>3, <3>4 DEF Begun
    <3>5. CASE j # i
      BY <3>2, <3>5, SameRemains
    <3> QED
      BY <3>4, <3>5
  <2>2. ASSUME NEW kind \in Kinds \ {"view"}, NEW names, NEW size, Start(i, kind, names, size)
        PROVE  Begun(tasks'[j]) \/ (j \in DOMAIN tasks /\ Remains(j, tasks[j], tasks'[j]))
    <3>1. PICK t : t = NewTask(kind, names, size)
      OBVIOUS
    <3>2. tasks' = [k \in DOMAIN tasks \cup {i} |-> IF k = i THEN t ELSE tasks[k]]
      BY <2>2, <3>1 DEF Start
    <3>3. t.kind # "view" /\ t.at = "resolve"
      BY <3>1 DEF NewTask
    <3>4. CASE j = i
      BY <3>2, <3>3, <3>4 DEF Begun
    <3>5. CASE j # i
      BY <3>2, <3>5, SameRemains
    <3> QED
      BY <3>4, <3>5
  <2> QED
    BY <1>3, <2>1, <2>2 DEF Comes
<1>4. ASSUME NEW k \in DOMAIN creds, Age(k)
      PROVE  j \in DOMAIN tasks /\ Remains(j, tasks[j], tasks'[j])
  <2>1. PICK t : t = tasks[j]
    OBVIOUS
  <2>0. PICK u : u = Noted(t, k)
    OBVIOUS
  <2>2. j \in DOMAIN tasks /\ tasks'[j] \in {t, u}
    BY <1>4, <2>1, <2>0, AgeIs
  <2>3. Real(t, Len(creds)) /\ Len(creds) \in Nat /\ k \in Nat
    BY <2>1, <2>2, CountsKeys DEF Typed, Tasked
  <2>4. Remains(j, t, u)
    BY <2>0, <2>3, NotedRemains
  <2>5. Remains(j, t, t)
    BY SameRemains
  <2> QED
    BY <2>1, <2>2, <2>4, <2>5
<1>5. ASSUME NEW k \in DOMAIN creds, NEW p \in Places, Propagate(k, p)
      PROVE  UNCHANGED tasks
  BY <1>5 DEF Propagate
<1>6. ASSUME NEW i \in DOMAIN tasks, Changes(i)
      PROVE  j \in DOMAIN tasks /\ Remains(j, tasks[j], tasks'[j])
  <2>1. CASE Leave(i)
    <3>1. tasks' = [k \in DOMAIN tasks \ {i} |-> tasks[k]]
      BY <2>1 DEF Leave
    <3> QED
      BY <3>1, SameRemains
  <2>2. CASE ~ Leave(i)
    <3>1. PICK u : Put(i, u) /\ Remains(i, tasks[i], u)
      BY <1>6, <2>2, ChangesRemains
    <3>2. /\ DOMAIN tasks' = DOMAIN tasks /\ tasks'[i] = u
          /\ \A k \in DOMAIN tasks : k # i => tasks'[k] = tasks[k]
      BY <3>1, PutIs DEF Typed
    <3> QED
      BY <3>1, <3>2, SameRemains
  <2> QED
    BY <2>1, <2>2
<1> QED
  BY <1>1, <1>2, <1>3, <1>4, <1>5, <1>6, StepShape

LEMMA StepScoped ==
  ASSUME Typed, Scoped, [Next]_vars
  PROVE  Scoped'
<1>1. SUFFICES ASSUME NEW j \in DOMAIN tasks', NEW u, u = tasks'[j], u.kind # "view",
                      NEW n \in u.names \ Feeds, Ready(u, n), NEW k, k = u.keys[n]
               PROVE  InPlace(k)'
  BY DEF Scoped, IsReady, Ready, InPlace, Newer, SecretName
<1>3. ~ Begun(u)
  BY <1>1 DEF Begun, Ready
<1>4. PICK t : t = tasks[j]
  OBVIOUS
<1>5. j \in DOMAIN tasks /\ Remains(j, t, u)
  BY <1>1, <1>3, <1>4, StepRemains
<1>6. /\ t.kind # "view" /\ n \in t.names \ Feeds
      /\ u.keys[n] = t.keys[n] /\ (Ready(t, n) \/ SetSecret(j, n))
  BY <1>1, <1>5 DEF Remains
<1>7. k = t.keys[n]
  BY <1>1, <1>6
<1>8. CASE Ready(t, n)
  <2>1. InPlace(k)
    BY <1>4, <1>5, <1>6, <1>7, <1>8 DEF Scoped, IsReady
  <2>2. Real(t, Len(creds)) /\ t \in Task
    BY <1>4, <1>5 DEF Typed, Tasked
  <2>3. n \in Names /\ k # 0 /\ k \in 0 .. Len(creds)
    BY <1>6, <1>7, <1>8, <2>2 DEF Real, Task, HasKeys, Ready
  <2>4. k \in DOMAIN creds
    BY <2>3, CountsKeys
  <2> QED
    BY <2>1, <2>4, InPlaceKept
<1>9. CASE SetSecret(j, n)
  <2>1. PICK s : s = SecretName(k)
    OBVIOUS
  <2>2. /\ UNCHANGED creds /\ k \in DOMAIN creds /\ s \in DOMAIN secrets
        /\ secrets' = [secrets EXCEPT ![s] = k]
    BY <1>4, <1>5, <1>7, <1>9, <2>1, SetSecretIs
  <2>3. SecretName(k)' = s
    BY <2>1, <2>2 DEF SecretName
  <2>4. secrets'[s] = k /\ k \in Nat /\ k # 0
    BY <2>2, CountsKeys
  <2>5. Newer(s, k)'
    BY <2>4 DEF Newer
  <2> QED
    BY <2>3, <2>5 DEF InPlace
<1> QED
  BY <1>6, <1>8, <1>9

(* A view is registered with the secret that is there then.                *)
LEMMA StepViewsIn ==
  ASSUME Typed, ViewsIn, [Next]_vars
  PROVE  ViewsIn'
<1>1. SUFFICES ASSUME NEW n \in Names \ Feeds, NEW k, k = views'[n], k # 0
               PROVE  InPlace(k)'
  BY DEF ViewsIn, InPlace, Newer, SecretName
<1>2. CASE views'[n] = views[n]
  <2>1. k = views[n]
    BY <1>1, <1>2
  <2>2. k # 0 /\ k \in Keys
    BY <1>1, <2>1 DEF Typed, Held
  <2>3. k \in DOMAIN creds
    BY <2>2, CountsKeys
  <2>4. InPlace(k)
    BY <2>1, <2>2 DEF ViewsIn
  <2> QED
    BY <2>3, <2>4, InPlaceKept
<1>3. CASE views'[n] # views[n]
  <2>1. PICK i \in DOMAIN tasks, m \in Names : GetsAny(i, m)
    BY <1>3, TabKept
  <2>2. PICK x : x = KeyFor(tasks[i], m)
    OBVIOUS
  <2>3. /\ views' = [views EXCEPT ![m] = x] \/ UNCHANGED views
        /\ UNCHANGED <<creds, secrets, overtaken>>
    BY <2>1, <2>2 DEF GetsAny, GetsRows, historyVars
  <2>4. m = n /\ k = x
    BY <1>1, <1>3, <2>3 DEF Typed, Held
  <2>5. k \in Keys /\ k = secrets[Clean[n]] /\ creds[k].bucket = n
    BY <1>1, <2>2, <2>4, KeyForIs
  <2>6. k \in Nat
    BY <2>5, CountsKeys
  <2>7. PICK s : s = Clean[n]
    OBVIOUS
  <2>8. s = SecretName(k) /\ Newer(s, k)
    BY <1>1, <2>5, <2>6, <2>7 DEF SecretName, Newer
  <2>9. (s = SecretName(k))' /\ Newer(s, k)'
    BY <2>3, <2>8 DEF SecretName, Newer
  <2> QED
    BY <2>9 DEF InPlace
<1> QED
  BY <1>2, <1>3

(* A task that reads a view reads one that is registered.                  *)
IsView(t) == /\ \E n \in Names : t.names \subseteq {n}
             /\ t.at = "run" => \A n \in t.names : views[n] # 0
OfViews == \A i \in DOMAIN tasks : tasks[i].kind = "view" => IsView(tasks[i])

LEMMA StepOfViews ==
  ASSUME Typed, OfViews, [Next]_vars
  PROVE  OfViews'
<1>1. SUFFICES ASSUME NEW j \in DOMAIN tasks', NEW u, u = tasks'[j], u.kind = "view"
               PROVE  /\ \E n \in Names : u.names \subseteq {n}
                      /\ u.at = "run" => \A n \in u.names : views'[n] # 0
  BY DEF OfViews, IsView
<1>2. ASSUME NEW n \in Names, views[n] # 0
      PROVE  views'[n] # 0
  <2>1. CASE UNCHANGED views
    BY <1>2, <2>1
  <2>2. ASSUME NEW i \in DOMAIN tasks, NEW m \in Names, GetsAny(i, m)
        PROVE  views'[n] # 0
    <3>1. PICK k : k = KeyFor(tasks[i], m)
      OBVIOUS
    <3>2. (views' = [views EXCEPT ![m] = k] \/ UNCHANGED views) /\ Verdict(k) = "served"
      BY <2>2, <3>1 DEF GetsAny, GetsRows
    <3>3. k # 0
      BY <3>2, ServedIs
    <3> QED
      BY <1>2, <3>2, <3>3 DEF Typed, Held
  <2> QED
    BY <2>1, <2>2, TabKept
<1>3. CASE Begun(u)
  <2>1. UNCHANGED views /\ \E n \in Names : u.names = {n} /\ views[n] # 0
    BY <1>1, <1>3 DEF Begun
  <2> QED
    BY <2>1
<1>4. CASE j \in DOMAIN tasks /\ Remains(j, tasks[j], u)
  <2>1. PICK t : t = tasks[j]
    OBVIOUS
  <2>2. /\ t.kind = "view" /\ u.names \subseteq t.names
        /\ u.at = "run" => t.at = "run"
    BY <1>1, <1>4, <2>1 DEF Remains
  <2>3. /\ \E n \in Names : t.names \subseteq {n}
        /\ t.at = "run" => \A n \in t.names : views[n] # 0
    BY <1>4, <2>1, <2>2 DEF OfViews, IsView
  <2>4. \E n \in Names : u.names \subseteq {n}
    BY <2>2, <2>3
  <2>5. t.names \subseteq Names
    BY <2>3
  <2> QED
    BY <1>2, <2>2, <2>3, <2>4, <2>5
<1> QED
  BY <1>1, <1>3, <1>4, StepRemains

-----------------------------------------------------------------------------
(* Where the credentials are known.                                        *)

Sees(k) == k # 0 => place \in creds[k].seen
SeesTab == /\ \A n \in Names : Sees(cache[n]) /\ Sees(views[n])
           /\ \A s \in DOMAIN secrets : Sees(secrets[s])
SeesTask(t) == /\ \A n \in Names : Sees(t.keys[n])
               /\ t.at = "answer" => Sees(t.key)

(* As long as the tab stays where it is, what it holds is known there.     *)
Seen == roamed \/ (SeesTab /\ \A i \in DOMAIN tasks : SeesTask(tasks[i]))

LEMMA PlaceKept ==
  ASSUME Typed, [Next]_vars
  PROVE  roamed' \/ (UNCHANGED <<place, roamed>>)
<1>1. CASE Idle \/ (\E i \in Ids : Comes(i)) \/ Edits
  BY <1>1, EditsIs DEF Idle, QuietTab, Comes, Start, StartView, Edited, historyVars
<1>2. CASE \E p \in Places : Roam(p)
  BY <1>2 DEF Roam
<1>3. ASSUME NEW k \in DOMAIN creds, Age(k) \/ \E p \in Places : Propagate(k, p)
      PROVE  UNCHANGED <<place, roamed>>
  BY <1>3 DEF Age, Propagate, historyVars
<1>4. ASSUME NEW i \in DOMAIN tasks, Changes(i)
      PROVE  UNCHANGED <<place, roamed>>
  BY <1>4 DEF Changes, EndsNow, MovesNow, QuietTab, Takes, Vends, Acquire, SetSecret, GetsAny,
              GetsRows, Leave, historyVars
<1> QED
  BY <1>1, <1>2, <1>3, <1>4, StepShape

LEMMA SeesKept ==
  ASSUME Typed, [Next]_vars, UNCHANGED place, NEW k \in Keys, Sees(k)
  PROVE  Sees(k)'
<1>1. CASE k = 0
  BY <1>1 DEF Sees
<1>2. CASE k # 0
  <2>1. k \in DOMAIN creds
    BY <1>2, CountsKeys
  <2>2. creds[k].seen \subseteq creds'[k].seen
    BY <2>1, CredsKept DEF Kept
  <2> QED
    BY <1>2, <2>2 DEF Sees
<1> QED
  BY <1>1, <1>2

LEMMA StepSeen ==
  ASSUME Typed, Seen, [Next]_vars
  PROVE  Seen'
<1>0. Typed'
  BY StepTyped
<1>1. SUFFICES ASSUME SeesTab, \A i \in DOMAIN tasks : SeesTask(tasks[i]),
                      UNCHANGED <<place, roamed>>, ~ roamed
               PROVE  SeesTab' /\ (\A i \in DOMAIN tasks : SeesTask(tasks[i]))'
  BY PlaceKept DEF Seen, Typed, Held
<1>2. ASSUME NEW n \in Names, NEW v, v = cache'[n]
      PROVE  Sees(v)'
  <2>1. PICK c : c = cache[n]
    OBVIOUS
  <2>2. c \in Keys /\ Sees(c)
    BY <1>1, <2>1 DEF SeesTab, Typed, Held
  <2>4. ASSUME NEW i \in DOMAIN tasks, Acquire(i), v # c
        PROVE  Sees(v) /\ v \in Keys
    <3>1. v = tasks[i].key /\ tasks[i].at = "answer"
      BY <1>2, <2>1, <2>4 DEF Acquire, Typed, Held
    <3>2. Sees(v) /\ v \in Keys
      BY <1>1, <3>1 DEF SeesTask, Typed, Tasked, Real, Keys
    <3> QED
      BY <3>2
  <2>5. Sees(v) /\ v \in Keys
    BY <1>2, <2>1, <2>2, <2>4, TabKept
  <2> QED
    BY <1>1, <2>5, SeesKept
<1>3. ASSUME NEW n \in Names, NEW v, v = views'[n]
      PROVE  Sees(v)'
  <2>1. PICK c : c = views[n]
    OBVIOUS
  <2>2. c \in Keys /\ Sees(c)
    BY <1>1, <2>1 DEF SeesTab, Typed, Held
  <2>4. ASSUME NEW i \in DOMAIN tasks, NEW m \in Names, GetsAny(i, m), v # c
        PROVE  Sees(v) /\ v \in Keys
    <3>1. PICK k : k = KeyFor(tasks[i], m)
      OBVIOUS
    <3>2. (views' = [views EXCEPT ![m] = k] \/ UNCHANGED views) /\ Verdict(k) = "served"
      BY <2>4, <3>1 DEF GetsAny, GetsRows
    <3>3. v = k
      BY <1>3, <2>1, <2>4, <3>2 DEF Typed, Held
    <3>4. k \in Keys /\ Sees(k)
      BY <3>1, <3>2, ServedIs, KeyForIs DEF Sees
    <3> QED
      BY <3>3, <3>4
  <2>5. Sees(v) /\ v \in Keys
    BY <1>3, <2>1, <2>2, <2>4, TabKept
  <2> QED
    BY <1>1, <2>5, SeesKept
<1>4. ASSUME NEW s \in Range(Clean), NEW v, v = secrets'[s]
      PROVE  Sees(v)'
  <2>1. PICK c : c = secrets[s]
    OBVIOUS
  <2>2. c \in Keys /\ Sees(c)
    BY <1>1, <2>1 DEF SeesTab, Typed, Held
  <2>4. ASSUME NEW i \in DOMAIN tasks, NEW m \in Names, SetSecret(i, m), v # c
        PROVE  Sees(v) /\ v \in Keys
    <3>1. PICK k, x : /\ k = tasks[i].keys[m] /\ x = SecretName(k)
      OBVIOUS
    <3>2. secrets' = [secrets EXCEPT ![x] = k] /\ k \in DOMAIN creds
      BY <2>4, <3>1, SetSecretIs
    <3>3. v = k
      BY <1>4, <2>1, <2>4, <3>2 DEF Typed, Held
    <3>4. Sees(k) /\ k \in Keys
      BY <1>1, <3>1, <3>2, CountsKeys DEF SeesTask
    <3> QED
      BY <3>3, <3>4
  <2>5. Sees(v) /\ v \in Keys
    BY <1>4, <2>1, <2>2, <2>4, TabKept
  <2> QED
    BY <1>1, <2>5, SeesKept
<1>5. ASSUME NEW j \in DOMAIN tasks', NEW u, u = tasks'[j]
      PROVE  (\A n \in Names : Sees(u.keys[n])') /\ (u.at = "answer" => Sees(u.key)')
  <2>1. CASE New(u)
    BY <2>1 DEF New, Sees
  <2>2. CASE j \in DOMAIN tasks /\ From(j, tasks[j], u)
    <3>1. PICK t : t = tasks[j]
      OBVIOUS
    <3>2. SeesTask(t) /\ Real(t, Len(creds))
      BY <1>1, <2>2, <3>1 DEF Typed, Tasked
    <3>3. ASSUME NEW n \in Names
          PROVE  Sees(u.keys[n])'
      <4>1. PICK v : v = u.keys[n]
        OBVIOUS
      <4>2. v = 0 \/ v = t.keys[n] \/ v = cache[n] \/ (t.at = "answer" /\ v = t.key)
        BY <2>2, <3>1, <4>1 DEF From, KeyFrom
      <4>3. Sees(v) /\ v \in Keys
        BY <1>1, <3>2, <4>2, CountsKeys DEF SeesTask, SeesTab, Sees, Real, Keys, Typed, Held
      <4> QED
        BY <1>1, <4>1, <4>3, SeesKept
    <3>4. ASSUME u.at = "answer"
          PROVE  Sees(u.key)'
      <4>1. WayFrom(t, u)
        BY <2>2, <3>1 DEF From
      <4>2. PICK k : k = u.key
        OBVIOUS
      <4>3. CASE k = 0
        BY <4>2, <4>3 DEF Sees
      <4>4. CASE k = t.key /\ (t.at = "answer" \/ place \in creds[t.key].seen)
        <5>1. Sees(k) /\ k \in Keys
          BY <3>2, <4>4 DEF SeesTask, Sees, Real, Keys
        <5> QED
          BY <1>1, <4>2, <5>1, SeesKept
      <4>5. CASE creds'[k].seen = Places
        <5>1. place' \in Places
          BY <1>0 DEF Typed, Held
        <5> QED
          BY <4>2, <4>5, <5>1 DEF Sees
      <4> QED
        BY <3>4, <4>1, <4>2, <4>3, <4>4, <4>5 DEF WayFrom
    <3> QED
      BY <3>3, <3>4
  <2> QED
    BY <1>5, <2>1, <2>2, StepFrom
<1>6. DOMAIN secrets' = Range(Clean)
  BY <1>0 DEF Typed, Held
<1> QED
  BY <1>2, <1>3, <1>4, <1>5, <1>6 DEF SeesTab, SeesTask, Sees

-----------------------------------------------------------------------------
(* Why a task is refused.                                                  *)

Whys == {"expired", "unseen", "unscoped"}

LEMMA OverAt ==
  ASSUME NEW task, NEW at
  PROVE  Over(task, at).at = at
BY DEF Over, NewTask

(* It is the task that the step is of.                                     *)
LEMMA PutRefuses ==
  ASSUME Tasked, NEW i \in DOMAIN tasks, NEW why \in Whys, Refused(i, why),
         NEW j \in DOMAIN tasks, NEW t, Put(j, t)
  PROVE  i = j /\ t.at = why
BY PutIs DEF Refused, Whys

(* A request of it was not served.                                         *)
LEMMA RefusedIs ==
  ASSUME Typed, [Next]_vars, NEW i \in DOMAIN tasks, NEW why \in Whys, Refused(i, why)
  PROVE  \E n \in tasks[i].names : n \in Names /\ Verdict(KeyFor(tasks[i], n)) = why
<1>1. tasks[i].at \in {"run", "parts"} /\ tasks'[i].at = why
      /\ tasks[i].todo \subseteq tasks[i].names /\ tasks[i].names \subseteq Names
  BY DEF Refused, Typed, Tasked, Real, Task
<1>2. ~ UNCHANGED tasks /\ tasks'[i].at # tasks[i].at
  BY <1>1 DEF Whys
<1>3. ASSUME NEW j \in DOMAIN tasks, NEW n \in Names, ReadFails(j, n)
      PROVE  \E m \in tasks[i].names : m \in Names /\ Verdict(KeyFor(tasks[i], m)) = why
  <2>1. PICK v, t : v = Verdict(KeyFor(tasks[j], n)) /\ t = Over(tasks[j], v)
    OBVIOUS
  <2>2. Put(j, t) /\ n \in tasks[j].todo
    BY <1>3, <2>1 DEF ReadFails, Reads
  <2>3. i = j /\ t.at = why
    BY <2>2, PutRefuses DEF Typed
  <2>4. t.at = v
    BY <2>1, OverAt
  <2> QED
    BY <1>1, <2>1, <2>2, <2>3, <2>4
<1>4. ASSUME NEW j \in DOMAIN tasks, WriteFails(j)
      PROVE  \E m \in tasks[i].names : m \in Names /\ Verdict(KeyFor(tasks[i], m)) = why
  <2>1. PICK v, t : v = Verdict(KeyOf(j)) /\ t = Over(tasks[j], v)
    OBVIOUS
  <2>2. Put(j, t) /\ tasks[j].kind = "write" /\ tasks[j].at \in {"run", "parts"}
    BY <1>4, <2>1 DEF WriteFails
  <2>3. i = j /\ t.at = why
    BY <2>2, PutRefuses DEF Typed
  <2>4. t.at = v
    BY <2>1, OverAt
  <2>5. PICK m \in tasks[i].names : m \in Names /\ KeyOf(i) = KeyFor(tasks[i], m)
    BY <2>2, <2>3, WriterIs
  <2> QED
    BY <2>1, <2>3, <2>4, <2>5
<1>5. ASSUME NEW j \in DOMAIN tasks, NEW n \in Names, Resolve(j, n) \/ SetSecret(j, n)
      PROVE  FALSE
  <2>1. (\E t : Put(j, t)) /\ tasks[j].at \in {"resolve", "secrets"}
    BY <1>5 DEF Resolve, SetSecret
  <2> QED
    BY <1>1, <2>1, PutRefuses DEF Typed
<1>6. ASSUME NEW j \in DOMAIN tasks, Asks(j)
      PROVE  FALSE
  <2>1. (\E t : Put(j, t)) /\ tasks[j].at \in {"vend", "check", "answer"}
    BY <1>6 DEF Asks, Vend, Check, VendToken, Acquire
  <2> QED
    BY <1>1, <2>1, PutRefuses DEF Typed
<1>7. ASSUME NEW j \in DOMAIN tasks, NEW n \in Names, GetsAny(j, n)
      PROVE  FALSE
  <2>1. PICK t, w : t = tasks[j] /\ w = Wrong(t, n, KeyFor(t, n))
    OBVIOUS
  <2>2. PICK u : u = Answered(t, n, w)
    OBVIOUS
  <2>3. Put(j, Onward(u)) /\ t.at = "run"
    BY <1>7, <2>1, <2>2 DEF GetsAny, GetsRows, Reads, Answered
  <2>4. u.at = "run"
    <3>1. t \in Task
      BY <2>1 DEF Typed, Tasked
    <3> QED
      BY <2>2, <2>3, <3>1 DEF Answered, Task
  <2>5. Onward(u).at \in {"run", "done"}
    BY <2>4, OnwardRun, OverAt
  <2>6. Onward(u).at = why
    BY <2>3, PutRefuses DEF Typed
  <2> QED
    BY <2>5, <2>6 DEF Whys
<1>8. ASSUME NEW j \in DOMAIN tasks, Writes(j), ~ WriteFails(j)
      PROVE  FALSE
  <2>1. UNCHANGED tasks \/ \E t : Put(j, t) /\ t.at \notin Whys
    <3>1. CASE PutOwn(j) \/ PutRemote(j) \/ PutSheet(j) \/ Complete(j)
      <4>1. Put(j, Over(Judged(j, "done"), "done"))
        BY <3>1 DEF PutOwn, PutRemote, PutSheet, Complete, Stores
      <4> QED
        BY <4>1, OverAt DEF Whys
    <3>2. CASE Initiate(j)
      <4>1. Put(j, Judged(j, "parts")) /\ Judged(j, "parts").at = "parts"
        BY <3>2, JudgedIs DEF Initiate, Ats
      <4> QED
        BY <4>1 DEF Whys
    <3>3. CASE InitiateSheet(j)
      <4>1. Put(j, Over(tasks[j], "refused"))
        BY <3>3 DEF InitiateSheet
      <4> QED
        BY <4>1, OverAt DEF Whys
    <3>4. CASE UploadPart(j)
      BY <3>4 DEF UploadPart
    <3>5. CASE NoSuchUpload(j)
      <4>1. Put(j, Over(tasks[j], "missing"))
        BY <3>5 DEF NoSuchUpload
      <4> QED
        BY <4>1, OverAt DEF Whys
    <3> QED
      BY <1>8, <3>1, <3>2, <3>3, <3>4, <3>5 DEF Writes
  <2> QED
    BY <1>2, <2>1, PutRefuses DEF Typed
<1>9. ASSUME NEW j \in DOMAIN tasks, Lose(j)
      PROVE  FALSE
  <2>1. Put(j, Over(tasks[j], "refused"))
    BY <1>9 DEF Lose
  <2>2. Over(tasks[j], "refused").at = why
    BY <2>1, PutRefuses DEF Typed
  <2> QED
    BY <2>2, OverAt DEF Whys
<1>10. ASSUME NEW j \in DOMAIN tasks, Leave(j)
       PROVE  FALSE
  <2>1. tasks' = [k \in DOMAIN tasks \ {j} |-> tasks[k]] /\ i \in DOMAIN tasks'
    BY <1>10 DEF Leave, Refused
  <2> QED
    BY <1>2, <2>1
<1>11. ASSUME NEW j \in Ids, Comes(j)
       PROVE  FALSE
  <2>1. ASSUME NEW t, t.at \in {"run", "resolve"},
               tasks' = [k \in DOMAIN tasks \cup {j} |-> IF k = j THEN t ELSE tasks[k]]
        PROVE  FALSE
    BY <1>1, <1>2, <2>1 DEF Whys
  <2>2. ASSUME NEW n \in Names, StartView(j, n)
        PROVE  FALSE
    <3>1. PICK t : t = [NewTask("view", {n}, 0) EXCEPT !.at = "run"]
      OBVIOUS
    <3>2. tasks' = [k \in DOMAIN tasks \cup {j} |-> IF k = j THEN t ELSE tasks[k]]
      BY <2>2, <3>1 DEF StartView
    <3>3. t.at = "run"
      BY <3>1 DEF NewTask
    <3> QED
      BY <2>1, <3>2, <3>3
  <2>3. ASSUME NEW kind, NEW names, NEW size, Start(j, kind, names, size)
        PROVE  FALSE
    <3>1. PICK t : t = NewTask(kind, names, size)
      OBVIOUS
    <3>2. tasks' = [k \in DOMAIN tasks \cup {j} |-> IF k = j THEN t ELSE tasks[k]]
      BY <2>3, <3>1 DEF Start
    <3>3. t.at = "resolve"
      BY <3>1 DEF NewTask
    <3> QED
      BY <2>1, <3>2, <3>3
  <2> QED
    BY <1>11, <2>2, <2>3 DEF Comes
<1>12. ASSUME NEW k \in DOMAIN creds, Age(k)
       PROVE  FALSE
  <2>1. PICK t : t = tasks[i]
    OBVIOUS
  <2>2. PICK u : u = Noted(t, k)
    OBVIOUS
  <2>3. tasks'[i] \in {t, u}
    BY <1>12, <2>1, <2>2, AgeIs
  <2>4. t \in Task
    BY <2>1 DEF Typed, Tasked
  <2>5. u.at = t.at
    BY <2>2, <2>4 DEF Noted, Task
  <2> QED
    BY <1>2, <2>1, <2>3, <2>5
<1>13. (\E k \in DOMAIN creds, p \in Places : Propagate(k, p)) \/ (\E p \in Places : Roam(p)) \/ Edits
         => UNCHANGED tasks
  BY EditsIs DEF Propagate, Roam, Edited
<1>14. Next
  BY <1>2 DEF vars
<1>15. Plan
  BY DEF Typed
<1> QED
  BY <1>2, <1>3, <1>4, <1>5, <1>6, <1>7, <1>8, <1>9, <1>10, <1>11, <1>12, <1>13, <1>14, <1>15,
     NextIs DEF Prepares

(* The secret that stands where a credential was put: it is for the same   *)
(* bucket unless another one has that secret name, and it is as new.       *)
LEMMA PlacedIs ==
  ASSUME Typed, Named, NEW c \in DOMAIN creds, NEW n \in Names, creds[c].bucket = n,
         InPlace(c), NEW k, k = secrets[Clean[n]]
  PROVE  /\ k \in DOMAIN creds /\ (overtaken \/ k >= c)
         /\ Clashing(n) \/ creds[k].bucket = n
<1>1. PICK s : s = Clean[n]
  OBVIOUS
<1>2. SecretName(c) = s /\ k = secrets[s] /\ s \in Range(Clean)
  BY <1>1, ConstantsAre DEF SecretName, Range
<1>3. k # 0 /\ (overtaken \/ k >= c) /\ k \in Keys
  BY <1>2 DEF InPlace, Newer, Typed, Held
<1>4. k \in DOMAIN creds
  BY <1>3, CountsKeys
<1>5. Clean[creds[k].bucket] = s
  BY <1>2, <1>3 DEF Named, SecretName, Typed, Held
<1>6. creds[k].bucket \in Names
  BY <1>4, CountsKeys DEF Credential
<1>7. Clashing(n) \/ creds[k].bucket = n
  BY <1>1, <1>5, <1>6 DEF Clashing
<1> QED
  BY <1>3, <1>4, <1>7

LEMMA VerdictOf ==
  ASSUME NEW k, k # 0
  PROVE  /\ Verdict(k) # "unscoped"
         /\ Verdict(k) = "expired" => creds[k].age = 2
         /\ Verdict(k) = "unseen" => ~ Sees(k)
BY DEF Verdict, Sees

(* Of a credential that is used and the one that was put there before it,  *)
(* the older one has expired when the other has.                           *)
LEMMA OlderIs ==
  ASSUME Typed, Ages, NEW c \in DOMAIN creds, NEW k \in DOMAIN creds, k >= c,
         creds[k].age = 2
  PROVE  creds[c].age = 2
<1>1. c \in Nat /\ k \in Nat /\ creds[c].age \in 0 .. 2
  BY CountsKeys DEF Credential
<1>2. CASE c = k
  BY <1>2
<1>3. CASE c < k
  <2>1. creds[c].age >= creds[k].age
    BY <1>3 DEF Ages
  <2> QED
    BY <1>1, <2>1
<1> QED
  BY <1>1, <1>2, <1>3

(* A task that names the objects it reads or writes.                       *)
LEMMA QueryIsServed ==
  ASSUME Typed, Named, Ages, Timed, Scoped, Seen, NEW i \in DOMAIN tasks,
         tasks[i].kind # "view", tasks[i].at \in {"run", "parts"}, ~ Unservable(tasks[i]),
         NEW n \in tasks[i].names, n \in Names, NEW k, k = KeyFor(tasks[i], n)
  PROVE  /\ Verdict(k) = "expired" => slow \/ overtaken
         /\ Verdict(k) = "unseen" => roamed
         /\ Verdict(k) # "unscoped"
<1>1. PICK t : t = tasks[i]
  OBVIOUS
<1>2. PICK c : c = t.keys[n]
  OBVIOUS
<1>3. c # 0 /\ ~ Clashing(n) /\ creds[c].bucket = n
  BY <1>1, <1>2 DEF Unservable
<1>4. c \in Keys /\ InTime(c, t.aged) /\ (roamed \/ Sees(c))
  BY <1>1, <1>2 DEF Typed, Tasked, Real, Keys, Timed, Seen, SeesTask
<1>5. c \in DOMAIN creds
  BY <1>3, <1>4, CountsKeys
<1>6. creds[c].age = 2 => slow
  BY <1>3, <1>4 DEF InTime
<1>7. CASE n \in Feeds
  <2>1. k = c
    BY <1>1, <1>2, <1>7, KeyForIs
  <2> QED
    BY <1>3, <1>4, <1>6, <2>1, VerdictOf
<1>8. CASE n \notin Feeds
  <2>1. InPlace(c)
    BY <1>1, <1>2, <1>8 DEF Scoped, IsReady, Ready
  <2>2. PICK x : x = secrets[Clean[n]]
    OBVIOUS
  <2>3. x \in DOMAIN creds /\ (overtaken \/ x >= c) /\ creds[x].bucket = n
    BY <1>3, <1>5, <2>1, <2>2, PlacedIs
  <2>4. x # 0
    BY <2>3, CountsKeys
  <2>5. k = x
    BY <1>8, <2>2, <2>3, <2>4 DEF KeyFor
  <2>6. Clean[n] \in Range(Clean)
    BY ConstantsAre DEF Range
  <2>7. roamed \/ Sees(x)
    BY <2>2, <2>6 DEF Seen, SeesTab, Typed, Held
  <2>8. creds[x].age = 2 => slow \/ overtaken
    BY <1>5, <1>6, <2>3, OlderIs
  <2> QED
    BY <2>4, <2>5, <2>7, <2>8, VerdictOf
<1> QED
  BY <1>7, <1>8

(* A task that reads the view of n.                                        *)
LEMMA ViewIsServed ==
  ASSUME Typed, Named, ViewsFit, Ages, ViewsIn, OfViews, Seen, NEW i \in DOMAIN tasks,
         tasks[i].kind = "view", tasks[i].at \in {"run", "parts"},
         NEW n \in tasks[i].names, n \in Names, NEW k, k = KeyFor(tasks[i], n)
  PROVE  /\ Verdict(k) = "expired" => creds[views[n]].age = 2 \/ overtaken
         /\ Verdict(k) = "unseen" => roamed
         /\ Verdict(k) = "unscoped" => Clashing(n)
<1>1. PICK c : c = views[n]
  OBVIOUS
<1>2. tasks[i].at = "run"
  BY DEF Typed, Tasked, Real, Phased
<1>3. c # 0
  BY <1>1, <1>2 DEF OfViews, IsView
<1>4. c \in Keys /\ creds[c].bucket = n /\ (roamed \/ Sees(c))
  BY <1>1, <1>3 DEF Typed, Held, ViewsFit, IsFor, Seen, SeesTab
<1>5. c \in DOMAIN creds
  BY <1>3, <1>4, CountsKeys
<1>6. CASE n \in Feeds
  <2>1. k = c
    BY <1>1, <1>6, KeyForIs
  <2> QED
    BY <1>1, <1>3, <1>4, <2>1, VerdictOf
<1>7. CASE n \notin Feeds
  <2>1. InPlace(c)
    BY <1>1, <1>3, <1>7 DEF ViewsIn
  <2>2. PICK x : x = secrets[Clean[n]]
    OBVIOUS
  <2>3. x \in DOMAIN creds /\ (overtaken \/ x >= c) /\ (Clashing(n) \/ creds[x].bucket = n)
    BY <1>4, <1>5, <2>1, <2>2, PlacedIs
  <2>4. x # 0
    BY <2>3, CountsKeys
  <2>5. CASE creds[x].bucket = n
    <3>1. k = x
      BY <1>7, <2>2, <2>4, <2>5 DEF KeyFor
    <3>2. Clean[n] \in Range(Clean)
      BY ConstantsAre DEF Range
    <3>3. roamed \/ Sees(x)
      BY <2>2, <3>2 DEF Seen, SeesTab, Typed, Held
    <3>4. creds[x].age = 2 => creds[c].age = 2 \/ overtaken
      BY <1>5, <2>3, OlderIs
    <3> QED
      BY <1>1, <2>4, <3>1, <3>3, <3>4, VerdictOf
  <2>6. CASE creds[x].bucket # n
    <3>1. k = 0
      BY <1>7, <2>2, <2>6 DEF KeyFor
    <3> QED
      BY <2>3, <2>6, <3>1 DEF Verdict
  <2> QED
    BY <2>5, <2>6
<1> QED
  BY <1>6, <1>7

-----------------------------------------------------------------------------
(* What the steps keep, together.                                          *)
Serving == /\ Typed /\ Named /\ Tokens /\ ViewsFit
           /\ Ages /\ Timed /\ Scoped /\ ViewsIn /\ OfViews /\ Seen

LEMMA InitServing ==
  ASSUME Init
  PROVE  Serving
<1>1. creds = <<>> /\ tasks = <<>>
  BY DEF Init
<1>2. DOMAIN creds = {} /\ DOMAIN tasks = {}
  BY <1>1
<1>3. Tokens /\ Timed /\ Scoped /\ OfViews /\ Ages
  BY <1>2 DEF Tokens, Timed, Scoped, OfViews, Ages
<1>4. ViewsFit /\ ViewsIn
  BY DEF Init, ViewsFit, ViewsIn, IsFor
<1>5. Seen
  BY <1>2 DEF Init, Seen, SeesTab, Sees
<1> QED
  BY <1>3, <1>4, <1>5, InitTyped, InitNamed DEF Serving

LEMMA StepServing ==
  ASSUME Serving, [Next]_vars
  PROVE  Serving'
BY StepTyped, StepNamed, StepTokens, StepViewsFit, StepAges, StepTimed, StepScoped,
   StepViewsIn, StepOfViews, StepSeen DEF Serving

(* README.md:65: no query that names its objects is refused, unless it has *)
(* run for the minute's margin, an older preamble ran after a newer one    *)
(* (both only let it be expired) or the tab has moved, whatever other      *)
(* queries do to the cache and to the secrets that they share.             *)
THEOREM NamedObjectsAreServed == Spec => QueriesAreServed
<1>1. ASSUME Serving, [Next]_vars, NEW i \in DOMAIN tasks,
             tasks[i].kind # "view", ~ Unservable(tasks[i])
      PROVE  /\ Refused(i, "expired") => slow \/ overtaken
             /\ Refused(i, "unseen") => roamed
             /\ ~ Refused(i, "unscoped")
  <2>1. ASSUME NEW why \in Whys, Refused(i, why)
        PROVE  /\ why = "expired" => slow \/ overtaken
               /\ why = "unseen" => roamed
               /\ why # "unscoped"
    <3>1. PICK n \in tasks[i].names : n \in Names /\ Verdict(KeyFor(tasks[i], n)) = why
      BY <1>1, <2>1, RefusedIs DEF Serving
    <3>2. PICK k : k = KeyFor(tasks[i], n)
      OBVIOUS
    <3>3. tasks[i].at \in {"run", "parts"}
      BY <2>1 DEF Refused
    <3>4. /\ Verdict(k) = "expired" => slow \/ overtaken
          /\ Verdict(k) = "unseen" => roamed
          /\ Verdict(k) # "unscoped"
      BY <1>1, <3>1, <3>2, <3>3, QueryIsServed DEF Serving
    <3> QED
      BY <3>1, <3>2, <3>4
  <2> QED
    BY <2>1 DEF Whys
<1>2. Serving /\ [Next]_vars =>
        [\A i \in DOMAIN tasks :
           tasks[i].kind # "view" /\ ~Unservable(tasks[i]) =>
             /\ Refused(i, "expired") => slow \/ overtaken
             /\ Refused(i, "unseen") => roamed
             /\ ~Refused(i, "unscoped")]_tasks
  BY <1>1
<1>3. Init => Serving
  BY InitServing
<1>4. Serving /\ [Next]_vars => Serving'
  BY StepServing
<1> QED
  BY <1>2, <1>3, <1>4, PTL DEF Spec, QueriesAreServed

(* A view can be read until the credential it was registered with expires, *)
(* with whatever credential of its backend is in the secret by then: no    *)
(* use of the tab takes it away, but that of a name with the same secret.  *)
THEOREM ViewsStayReadable == Spec => ViewsExpireWithCredentials
<1>1. ASSUME Serving, [Next]_vars, NEW i \in DOMAIN tasks, tasks[i].kind = "view",
             NEW n \in tasks[i].names
      PROVE  /\ Refused(i, "expired") => creds[views[n]].age = 2 \/ overtaken
             /\ Refused(i, "unseen") => roamed
             /\ Refused(i, "unscoped") => Clashing(n)
  <2>1. ASSUME NEW why \in Whys, Refused(i, why)
        PROVE  /\ why = "expired" => creds[views[n]].age = 2 \/ overtaken
               /\ why = "unseen" => roamed
               /\ why = "unscoped" => Clashing(n)
    <3>1. PICK m \in tasks[i].names : m \in Names /\ Verdict(KeyFor(tasks[i], m)) = why
      BY <1>1, <2>1, RefusedIs DEF Serving
    <3>2. m = n
      BY <1>1, <3>1 DEF Serving, OfViews, IsView
    <3>3. PICK k : k = KeyFor(tasks[i], m)
      OBVIOUS
    <3>4. tasks[i].at \in {"run", "parts"}
      BY <2>1 DEF Refused
    <3>5. /\ Verdict(k) = "expired" => creds[views[m]].age = 2 \/ overtaken
          /\ Verdict(k) = "unseen" => roamed
          /\ Verdict(k) = "unscoped" => Clashing(m)
      BY <1>1, <3>1, <3>3, <3>4, ViewIsServed DEF Serving
    <3> QED
      BY <3>1, <3>2, <3>3, <3>5
  <2> QED
    BY <2>1 DEF Whys
<1>2. Serving /\ [Next]_vars =>
        [\A i \in DOMAIN tasks : tasks[i].kind = "view" =>
           \A n \in tasks[i].names :
             /\ Refused(i, "expired") => creds[views[n]].age = 2 \/ overtaken
             /\ Refused(i, "unseen") => roamed
             /\ Refused(i, "unscoped") => Clashing(n)]_tasks
  BY <1>1
<1>3. Init => Serving
  BY InitServing
<1>4. Serving /\ [Next]_vars => Serving'
  BY StepServing
<1> QED
  BY <1>2, <1>3, <1>4, PTL DEF Spec, ViewsExpireWithCredentials
=============================================================================
