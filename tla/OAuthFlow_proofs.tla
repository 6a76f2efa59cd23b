-------------------------- MODULE OAuthFlow_proofs --------------------------
(***************************************************************************)
(* Proofs about signing in, for any number of accounts, tabs and contexts, *)
(* any bounds and any of the outside events.                               *)
(***************************************************************************)
EXTENDS OAuthFlow, SequenceTheorems, FiniteSetTheorems, WellFoundedInduction, TLAPS

-----------------------------------------------------------------------------
(* What the types say, and what they rest on.                              *)

Kinds == {"register", "callback", "token", "refresh"}
Exchanged == {"identity", "owner", "link", "create", "finish"}
Steps == {"lookup", "insert", "select", "delete", "google", "claim", "issue",
          "reply"} \cup Exchanged
Places == {"closed", "signedOut", "google", "app"} \cup Busy

Request == [kind : Kinds, at : Steps, flow : Nat, token : Nat, client : Nat,
            verifier : Nat, value : Nat, again : BOOLEAN]
Flow == [provider : Providers, client : Nat, credential : Nat]
Token == [user : Nat, flow : Nat, live : BOOLEAN]
Tab == [at : Places, flow : Nat, wait : Nat]

Stored == [client : Nat, access : {"none", "fresh", "old"}, refresh : Nat]

Tables ==
  /\ clients \in Nat /\ users \in Seq(Accounts \cup {None})
  /\ tokens \in Seq(Token)
  /\ consents \in [DOMAIN consents -> [account : Accounts, used : BOOLEAN]]
  /\ codes \in [DOMAIN codes -> [user : Nat, used : BOOLEAN]]
  /\ identities \in [DOMAIN identities -> Nat]
  /\ credentials \in [DOMAIN credentials -> Nat]

Shape ==
  /\ Tables /\ flows \in Seq(Flow)
  /\ requests \in [DOMAIN requests -> Request] /\ DOMAIN requests \subseteq Ids
  /\ store \in [Contexts -> Stored]
  /\ cookies \in [state : Nat, verifier : Nat]
  /\ tabs \in [Tabs -> Tab]
  /\ allowed \subseteq Accounts /\ contextOf \in Layouts
  /\ interrupted \in BOOLEAN /\ events \in 0 .. MaxEvents

(* Rows refer to rows.                                                     *)
Refer ==
  /\ DOMAIN identities \subseteq Providers \X Accounts
  /\ \A p \in DOMAIN identities : identities[p] \in DOMAIN users
  /\ \A n \in DOMAIN flows : /\ flows[n].client <= clients
                             /\ flows[n].credential \in {0} \cup DOMAIN credentials
  /\ states \subseteq DOMAIN flows /\ DOMAIN consents \subseteq DOMAIN flows
  /\ DOMAIN codes \subseteq DOMAIN flows /\ DOMAIN credentials \subseteq DOMAIN flows
  /\ \A n \in DOMAIN codes : codes[n].user \in DOMAIN users
  /\ \A n \in DOMAIN credentials : credentials[n] \in DOMAIN users
  /\ \A k \in DOMAIN tokens : /\ tokens[k].user \in DOMAIN users
                              /\ tokens[k].flow \in DOMAIN flows

(* What the browser keeps was given to it.                                 *)
Keeps ==
  /\ \A c \in Contexts : /\ store[c].client <= clients
                         /\ store[c].refresh \in {0} \cup DOMAIN tokens
  /\ {cookies.state, cookies.verifier} \subseteq {0} \cup DOMAIN flows
  /\ \A t \in Tabs : tabs[t].flow \in {0} \cup DOMAIN flows

StepsOf(kind) ==
  CASE kind = "register" -> {"lookup", "insert", "reply"}
    [] kind = "callback" -> {"select", "delete", "google", "reply"} \cup Exchanged
    [] OTHER -> {"claim", "issue", "reply"}

(* What a request has found by the step it is at.                          *)
Fits(r) ==
  /\ IsRequest(r)
  /\ r.at \in StepsOf(r.kind)
  /\ r.kind = "callback" => r.flow \in DOMAIN consents
  /\ r.at \in {"link", "finish", "issue"} => r.value \in DOMAIN users
  /\ r.kind = "register" /\ r.at = "reply" => r.value \in 1 .. clients
  /\ r.kind \in {"token", "refresh"} /\ r.at = "reply" => r.value \in {0} \cup DOMAIN tokens
  /\ r.kind = "token" => r.flow # 0
  /\ r.kind = "refresh" /\ r.at = "issue" => r.token # 0

RequestsFit == \A i \in DOMAIN requests : Fits(requests[i])

PlacesOf(kind) ==
  CASE kind = "register" -> {"registering"}
    [] kind = "callback" -> {"returning"}
    [] kind = "token" -> {"exchanging"}
    [] OTHER -> {"mounting", "app"}

(* A tab waits for a request of its own, of the kind that it has sent.     *)
Sits(tab) ==
  /\ tab.wait # 0 => /\ tab.wait \in DOMAIN requests
                     /\ tab.at \in PlacesOf(requests[tab.wait].kind)
  /\ tab.at \in {"google", "landed"} => tab.flow # 0
  /\ tab.at = "returning" => tab.flow \in DOMAIN consents

TabsFit ==
  /\ \A t \in Tabs : Sits(tabs[t])
  /\ \A t, u \in Tabs : tabs[t].wait = tabs[u].wait /\ tabs[t].wait # 0 => t = u

(* The flows that tabs are about to start have room.                       *)
Reserving == {t \in Tabs : tabs[t].at \in {"registering", "starting"}}
Reserved ==
  IsFiniteSet(Reserving) /\ Len(flows) + Cardinality(Reserving) <= MaxFlows

Typed == Shape /\ Refer /\ Keeps /\ RequestsFit /\ TabsFit /\ Reserved

(* A login is begun with a client that was registered.                     *)
ClientsFit == clientId \in [Tabs -> Nat] /\ \A t \in Tabs : clientId[t] <= clients

LEMMA TypedIsTyped == Typed /\ ClientsFit => TypeOK
<1> SUFFICES ASSUME Typed, ClientsFit
             PROVE  TypeOK
  OBVIOUS
<1>1. /\ clients \in Nat /\ users \in Seq(Accounts \cup {None})
      /\ DOMAIN identities \subseteq Providers \X Accounts
      /\ \A p \in DOMAIN identities : identities[p] \in DOMAIN users
      /\ allowed \subseteq Accounts /\ contextOf \in Layouts
      /\ \A n \in DOMAIN credentials : credentials[n] \in DOMAIN users
      /\ DOMAIN requests \subseteq Ids
      /\ interrupted \in BOOLEAN /\ events \in 0 .. MaxEvents
  BY DEF Typed, Shape, Tables, Refer
<1>2. /\ \A n \in DOMAIN flows : /\ flows[n].provider \in Providers
                                 /\ flows[n].client \in 0 .. clients
                                 /\ flows[n].credential \in {0} \cup DOMAIN credentials
      /\ \A S \in {states, DOMAIN consents, DOMAIN codes, DOMAIN credentials} :
           S \subseteq DOMAIN flows
  <2>1. flows \in Seq(Flow) /\ clients \in Nat /\ Refer
    BY DEF Typed, Shape, Tables
  <2>2. \A n \in DOMAIN flows : flows[n] \in Flow
    BY <2>1, ElementOfSeq
  <2>3. \A n \in DOMAIN flows : flows[n].provider \in Providers /\ flows[n].client \in Nat
    BY <2>2 DEF Flow
  <2> QED
    BY <2>1, <2>3 DEF Refer
<1>3. Len(flows) <= MaxFlows
  <2>1. Len(flows) \in Nat /\ MaxFlows \in Nat /\ Cardinality(Reserving) \in Nat
    BY OAuthAssumption, FS_CardinalityType DEF Typed, Shape, Reserved
  <2> QED
    BY <2>1 DEF Typed, Reserved
<1>4. /\ \A n \in DOMAIN consents : consents[n] \in [account : Accounts, used : BOOLEAN]
      /\ \A n \in DOMAIN codes : codes[n] \in [user : DOMAIN users, used : BOOLEAN]
  BY DEF Typed, Shape, Tables, Refer
<1>5. \A k \in DOMAIN tokens :
        tokens[k] \in [user : DOMAIN users, flow : DOMAIN flows, live : BOOLEAN]
  <2>1. tokens \in Seq(Token) /\ Refer
    BY DEF Typed, Shape, Tables
  <2>2. \A k \in DOMAIN tokens : tokens[k] \in Token
    BY <2>1, ElementOfSeq
  <2> QED
    BY <2>1, <2>2 DEF Token, Refer
<1>6. \A i \in DOMAIN requests : IsRequest(requests[i])
  BY DEF Typed, RequestsFit, Fits
<1>7. store \in [Contexts -> [client : 0 .. clients, access : {"none", "fresh", "old"},
                             refresh : {0} \cup DOMAIN tokens]]
  BY DEF Typed, Shape, Keeps, Stored
<1>8. cookies \in [state : {0} \cup DOMAIN flows, verifier : {0} \cup DOMAIN flows]
  BY DEF Typed, Shape, Keeps
<1>9. \A t \in Tabs : /\ tabs[t].at \in {"closed", "signedOut", "google", "app"} \cup Busy
                     /\ tabs[t].flow \in {0} \cup DOMAIN flows
                     /\ tabs[t].wait \in {0} \cup DOMAIN requests
  BY DEF Typed, Shape, Keeps, TabsFit, Sits, Tab, Places
<1>10. clientId \in [Tabs -> 0 .. clients]
  BY <1>1 DEF ClientsFit
<1> QED
  BY <1>1, <1>2, <1>3, <1>4, <1>5, <1>6, <1>7, <1>8, <1>9, <1>10 DEF TypeOK

-----------------------------------------------------------------------------
(* Effects of the operators that actions are made of.                      *)

(* Rows are never deleted, except states.                                  *)
Grows ==
  /\ clients \in Nat /\ clients' \in Nat /\ clients <= clients'
  /\ DOMAIN users \subseteq DOMAIN users' /\ DOMAIN flows \subseteq DOMAIN flows'
  /\ DOMAIN tokens \subseteq DOMAIN tokens'
  /\ DOMAIN consents \subseteq DOMAIN consents'

LEMMA FitsStill ==
  ASSUME Grows, NEW r, Fits(r)
  PROVE  Fits(r)'
BY DEF Grows, Fits, IsRequest

(* A non-empty set of natural numbers has a least element.                 *)
LEMMA LeastNatural ==
  ASSUME NEW T \in SUBSET Nat, T # {}
  PROVE  Min(T) \in T
<1> DEFINE R == OpToRel(<, Nat)
<1>1. IsWellFoundedOn(R, Nat)
  BY NatLessThanWellFounded
<1>2. PICK x \in T : \A y \in T : <<y, x>> \notin R
  <2> HIDE DEF R
  <2> QED BY <1>1, WFMin
<1>3. \A y \in T : ~ (y < x)
  BY <1>2 DEF OpToRel
<1> HIDE DEF R
<1>4. \E y \in T : \A z \in T : y =< z
  BY <1>2, <1>3
<1> QED
  BY <1>4, Zenon DEF Min

LEMMA NewIdIsFree ==
  ASSUME Typed, HasRoom
  PROVE  NewId \in Ids /\ NewId \notin DOMAIN requests /\ NewId \in Nat /\ NewId # 0
<1>1. Ids \in SUBSET Nat /\ 0 \notin Ids
  BY OAuthAssumption DEF Ids
<1>2. DOMAIN requests \subseteq Ids
  BY DEF Typed, Shape
<1>3. NewId \in Ids \ DOMAIN requests
  BY <1>1, <1>2, LeastNatural DEF NewId, HasRoom
<1> QED
  BY <1>1, <1>3

(* A request goes on to another step, with a value.                        *)
Becomes(i, r) ==
  /\ requests' \in [DOMAIN requests -> Request] /\ DOMAIN requests' = DOMAIN requests
  /\ requests'[i] = r
  /\ \A j \in DOMAIN requests \ {i} : requests'[j] = requests[j]

Advanced(r, step, value) == [r EXCEPT !.at = step, !.value = value]

LEMMA AdvancedIs ==
  ASSUME NEW r \in Request, NEW s \in Steps, NEW v \in Nat
  PROVE  /\ Advanced(r, s, v) \in Request
         /\ Advanced(r, s, v).at = s /\ Advanced(r, s, v).value = v
         /\ Advanced(r, s, v).kind = r.kind /\ Advanced(r, s, v).flow = r.flow
         /\ Advanced(r, s, v).token = r.token /\ Advanced(r, s, v).client = r.client
         /\ Advanced(r, s, v).verifier = r.verifier /\ Advanced(r, s, v).again = r.again
BY DEF Advanced, Request

LEMMA StepEffect ==
  ASSUME Typed, NEW i \in DOMAIN requests, NEW s \in Steps, NEW v \in Nat, Step(i, s, v)
  PROVE  Becomes(i, Advanced(requests[i], s, v))
<1>1. requests \in [DOMAIN requests -> Request]
  BY DEF Typed, Shape
<1>2. requests' = [requests EXCEPT ![i] = Advanced(requests[i], s, v)]
  BY DEF Step, Advanced
<1>3. Advanced(requests[i], s, v) \in Request
  BY <1>1, AdvancedIs
<1> QED
  BY <1>1, <1>2, <1>3 DEF Becomes

(* Whatever a request becomes, tabs wait for it as before.                 *)
LEMMA RequestGoesOn ==
  ASSUME Typed, Grows, NEW i \in DOMAIN requests, NEW r, Becomes(i, r),
         r.kind = requests[i].kind, Fits(r)', UNCHANGED <<tabs, flows>>
  PROVE  RequestsFit' /\ TabsFit' /\ Reserved'
<1>1. RequestsFit'
  <2>1. ASSUME NEW j \in DOMAIN requests', NEW q, q = requests'[j]
        PROVE  Fits(q)'
    <3>1. CASE j = i
      BY <2>1, <3>1 DEF Becomes
    <3>2. CASE j # i
      <4>1. Fits(q)
        BY <2>1, <3>2 DEF Becomes, Typed, RequestsFit
      <4> QED
        BY <4>1, FitsStill
    <3> QED
      BY <3>1, <3>2
  <2> QED
    BY <2>1 DEF RequestsFit
<1>2. TabsFit'
  <2>1. \A j \in DOMAIN requests : requests'[j].kind = requests[j].kind
    BY DEF Becomes
  <2>2. \A t \in Tabs : tabs[t].wait # 0 => tabs[t].wait \in DOMAIN requests
    BY DEF Typed, TabsFit, Sits
  <2>3. DOMAIN requests' = DOMAIN requests
    BY DEF Becomes
  <2> QED
    BY <2>1, <2>2, <2>3 DEF Typed, TabsFit, Sits, Grows
<1>3. Reserved'
  BY DEF Typed, Reserved, Reserving
<1> QED
  BY <1>1, <1>2, <1>3

LEMMA AskEffect ==
  ASSUME Typed, NEW t \in Tabs, NEW at \in Places, NEW r \in Request, Ask(t, at, r)
  PROVE  /\ NewId \in Ids /\ NewId \notin DOMAIN requests /\ NewId \in Nat /\ NewId # 0
         /\ DOMAIN requests' = DOMAIN requests \cup {NewId}
         /\ requests' \in [DOMAIN requests' -> Request]
         /\ requests'[NewId] = r
         /\ \A i \in DOMAIN requests : requests'[i] = requests[i]
         /\ tabs' \in [Tabs -> Tab]
         /\ tabs'[t] = [at |-> at, flow |-> tabs[t].flow, wait |-> NewId]
         /\ tabs'[t].at = at /\ tabs'[t].flow = tabs[t].flow /\ tabs'[t].wait = NewId
         /\ \A u \in Tabs \ {t} : tabs'[u] = tabs[u]
<1>1. HasRoom
  BY DEF Ask
<1>2. NewId \in Ids /\ NewId \notin DOMAIN requests /\ NewId \in Nat /\ NewId # 0
  BY <1>1, NewIdIsFree
<1>3. requests \in [DOMAIN requests -> Request] /\ tabs \in [Tabs -> Tab]
  BY DEF Typed, Shape
<1>4. requests' = Set(NewId, r) /\ tabs' = [tabs EXCEPT ![t].at = at, ![t].wait = NewId]
  BY DEF Ask
<1> DEFINE n == NewId
<1>5. n = NewId
  OBVIOUS
<1> HIDE DEF n
<1>6. /\ tabs' \in [Tabs -> Tab]
      /\ tabs'[t] = [at |-> at, flow |-> tabs[t].flow, wait |-> n]
      /\ tabs'[t].at = at /\ tabs'[t].flow = tabs[t].flow /\ tabs'[t].wait = n
      /\ \A u \in Tabs \ {t} : tabs'[u] = tabs[u]
  BY <1>2, <1>3, <1>4, <1>5 DEF Tab
<1>7. /\ DOMAIN requests' = DOMAIN requests \cup {n}
      /\ requests' \in [DOMAIN requests' -> Request]
      /\ requests'[n] = r
      /\ \A i \in DOMAIN requests : requests'[i] = requests[i]
  BY <1>2, <1>3, <1>4, <1>5 DEF Set
<1> QED
  BY <1>2, <1>5, <1>6, <1>7

LEMMA MovesEffect ==
  ASSUME Typed, NEW t \in Tabs, NEW at \in Places, NEW n \in Nat, Moves(t, at, n)
  PROVE  /\ tabs' \in [Tabs -> Tab]
         /\ tabs'[t] = [at |-> at, flow |-> n, wait |-> 0]
         /\ tabs'[t].at = at /\ tabs'[t].flow = n /\ tabs'[t].wait = 0
         /\ \A u \in Tabs \ {t} : tabs'[u] = tabs[u]
BY DEF Typed, Shape, Moves, Tab

(* A step of a request, or Throws, that leaves the browser alone.          *)
LEMMA RequestTyped ==
  ASSUME Typed, Grows, NEW i \in DOMAIN requests, NEW r \in Request, Becomes(i, r),
         r.kind = requests[i].kind, Fits(r)', Shape', Refer',
         UNCHANGED <<flows, browser>>
  PROVE  Typed'
<1>1. RequestsFit' /\ TabsFit' /\ Reserved'
  BY RequestGoesOn DEF browser
<1>2. Keeps'
  BY DEF Typed, Shape, Keeps, Grows, browser, Stored
<1> QED
  BY <1>1, <1>2 DEF Typed

Alone == UNCHANGED <<chosen, flows, browser, interrupted, events>>

LEMMA StepTyped ==
  ASSUME Typed, Grows, NEW i \in DOMAIN requests, NEW s \in Steps, NEW v \in Nat,
         Step(i, s, v),
         s \in StepsOf(requests[i].kind),
         s \in {"link", "finish", "issue"} => v \in DOMAIN users',
         requests[i].kind = "register" /\ s = "reply" => v \in 1 .. clients',
         requests[i].kind \in {"token", "refresh"} /\ s = "reply" => v \in {0} \cup DOMAIN tokens',
         requests[i].kind = "refresh" /\ s = "issue" => requests[i].token # 0,
         Tables', Refer', Alone
  PROVE  Typed'
<1>1. requests[i] \in Request /\ Fits(requests[i])
  BY DEF Typed, Shape, RequestsFit
<1>2. Becomes(i, Advanced(requests[i], s, v))
  BY StepEffect
<1>3. PICK r : r = Advanced(requests[i], s, v)
  OBVIOUS
<1>4. /\ r \in Request /\ r.at = s /\ r.value = v /\ r.kind = requests[i].kind
      /\ r.flow = requests[i].flow /\ r.token = requests[i].token
      /\ r.client = requests[i].client /\ r.verifier = requests[i].verifier
      /\ r.again = requests[i].again
  BY <1>1, <1>3, AdvancedIs
<1>5. Becomes(i, r)
  BY <1>2, <1>3
<1>6. Fits(r)'
  <2>1. r.kind = "callback" => r.flow \in DOMAIN consents'
    BY <1>1, <1>4 DEF Fits, Grows
  <2>2. r.kind = "token" => r.flow # 0
    BY <1>1, <1>4 DEF Fits
  <2>3. IsRequest(r)'
    BY <1>1, <1>4 DEF Fits, IsRequest, Grows, Request, Kinds, Steps, Exchanged
  <2> QED
    BY <1>4, <2>1, <2>2, <2>3 DEF Fits
<1>7. Shape'
  BY <1>5 DEF Typed, Shape, Alone, browser, chosen, Becomes
<1>8. UNCHANGED <<flows, browser>>
  BY DEF Alone
<1> QED
  BY <1>4, <1>5, <1>6, <1>7, <1>8, RequestTyped

(* The steps of requests that write nothing but their own progress.        *)
LEMMA TablesAlone ==
  ASSUME Typed, UNCHANGED <<tables, flows, consents>>
  PROVE  Grows /\ Tables' /\ Refer'
BY DEF Typed, Shape, Tables, Refer, Grows, tables

LEMMA RegisterLookupTyped ==
  ASSUME Typed, NEW i \in DOMAIN requests, RegisterLookup(i)
  PROVE  Typed'
<1>1. Grows /\ Tables' /\ Refer' /\ Alone
  BY TablesAlone DEF RegisterLookup, Alone
<1>2. requests[i].kind = "register" /\ clients' = clients /\ clients \in Nat
  BY DEF RegisterLookup, At, tables, Typed, Shape, Tables
<1>3. CASE clients > 0
  <2>1. Step(i, "reply", 1)
    BY <1>3 DEF RegisterLookup, Answer
  <2> QED
    BY <1>1, <1>2, <1>3, <2>1, StepTyped DEF Steps, StepsOf
<1>4. CASE ~ (clients > 0)
  <2>1. Step(i, "insert", 0)
    BY <1>4 DEF RegisterLookup
  <2> QED
    BY <1>1, <1>2, <2>1, StepTyped DEF Steps, StepsOf
<1> QED
  BY <1>3, <1>4

LEMMA RegisterInsertTyped ==
  ASSUME Typed, NEW i \in DOMAIN requests, RegisterInsert(i)
  PROVE  Typed'
<1>1. requests[i].kind = "register" /\ clients' = clients + 1 /\ clients \in Nat
  BY DEF RegisterInsert, At, Typed, Shape, Tables
<1>2. Grows /\ Tables' /\ Refer' /\ Alone
  <2>1. \A n \in DOMAIN flows : flows[n].client \in Nat
    <3>1. \A n \in DOMAIN flows : flows[n] \in Flow
      BY ElementOfSeq DEF Typed, Shape
    <3> QED
      BY <3>1 DEF Flow
  <2> QED
    BY SMTT(20), <1>1, <2>1 DEF RegisterInsert, Typed, Shape, Tables, Refer, Grows, Alone, Flow
<1>3. Step(i, "reply", clients + 1)
  BY <1>1 DEF RegisterInsert, Answer
<1> QED
  BY <1>1, <1>2, <1>3, StepTyped DEF Steps, StepsOf

LEMMA SelectStateTyped ==
  ASSUME Typed, NEW i \in DOMAIN requests, SelectState(i)
  PROVE  Typed'
<1>1. Grows /\ Tables' /\ Refer' /\ Alone
  BY TablesAlone DEF SelectState, Alone
<1>2. requests[i].kind = "callback"
  BY DEF SelectState, At
<1>3. Step(i, "delete", 0) \/ Step(i, "reply", 0)
  BY DEF SelectState, Answer
<1> QED
  BY <1>1, <1>2, <1>3, StepTyped DEF Steps, StepsOf

LEMMA TakeStateTyped ==
  ASSUME Typed, NEW i \in DOMAIN requests, TakeState(i)
  PROVE  Typed'
<1>1. Grows /\ Tables' /\ Refer' /\ Alone
  BY DEF TakeState, Typed, Shape, Tables, Refer, Grows, Alone
<1>2. requests[i].kind = "callback" /\ Step(i, "google", 0)
  BY DEF TakeState, At
<1> QED
  BY <1>1, <1>2, StepTyped DEF Steps, StepsOf

LEMMA ExchangeTyped ==
  ASSUME Typed, NEW i \in DOMAIN requests, ExchangeAtGoogle(i)
  PROVE  Typed'
<1>1. requests[i].kind = "callback" /\ requests[i].flow \in DOMAIN consents
  BY DEF ExchangeAtGoogle, At, Typed, RequestsFit, Fits
<1>2. Grows /\ Tables' /\ Refer' /\ Alone
  <2>1. /\ DOMAIN consents' = DOMAIN consents
        /\ consents' \in [DOMAIN consents' -> [account : Accounts, used : BOOLEAN]]
    BY <1>1 DEF ExchangeAtGoogle, Typed, Shape, Tables
  <2> QED
    BY <2>1 DEF ExchangeAtGoogle, Typed, Shape, Tables, Refer, Grows, Alone, tables
<1>3. Step(i, "identity", 0) \/ Step(i, "reply", 0)
  BY DEF ExchangeAtGoogle, Answer
<1> QED
  BY <1>1, <1>2, <1>3, StepTyped DEF Steps, StepsOf, Exchanged

(* An account was chosen before the callback, with a known provider.       *)
LEMMA CallbackType ==
  ASSUME Typed, NEW i \in DOMAIN requests, requests[i].kind = "callback"
  PROVE  /\ requests[i].flow \in DOMAIN consents /\ requests[i].flow \in DOMAIN flows
         /\ AccountOf(i) \in Accounts
         /\ flows[requests[i].flow].provider \in Providers
         /\ IdentityOf(i) \in Providers \X Accounts
<1>1. requests[i].flow \in DOMAIN consents /\ requests[i].flow \in DOMAIN flows
  BY DEF Typed, RequestsFit, Fits, Refer
<1>2. flows[requests[i].flow] \in Flow
  BY <1>1, ElementOfSeq DEF Typed, Shape
<1> QED
  BY <1>1, <1>2 DEF AccountOf, IdentityOf, Typed, Shape, Tables, Flow

LEMMA FindOwnerTyped ==
  ASSUME Typed, NEW i \in DOMAIN requests, FindOwner(i)
  PROVE  Typed'
<1>1. Grows /\ Tables' /\ Refer' /\ Alone
  BY TablesAlone DEF FindOwner, Alone
<1>2. requests[i].kind = "callback" /\ users' = users /\ users \in Seq(Accounts \cup {None})
  BY DEF FindOwner, At, tables, Typed, Shape, Tables
<1>3. CASE \E u \in OwnersOf(AccountOf(i)) : Step(i, "link", u)
  <2>1. PICK u \in DOMAIN users : Step(i, "link", u)
    BY <1>3 DEF OwnersOf
  <2>2. u \in Nat
    BY <1>2
  <2> QED
    BY <1>1, <1>2, <2>1, <2>2, StepTyped DEF Steps, StepsOf, Exchanged
<1>4. CASE Step(i, "create", 0) \/ Step(i, "reply", 0)
  BY <1>1, <1>2, <1>4, StepTyped DEF Steps, StepsOf, Exchanged
<1> QED
  BY <1>3, <1>4 DEF FindOwner, Answer

(* A request whose user is found goes on to the end.                       *)
LEMMA WithIdentityType ==
  ASSUME Typed, NEW i \in DOMAIN requests, requests[i].kind = "callback",
         NEW u \in Nat, identities' = WithIdentity(i, u)
  PROVE  /\ identities' \in [DOMAIN identities' -> Nat]
         /\ DOMAIN identities' \subseteq Providers \X Accounts
         /\ DOMAIN identities' = DOMAIN identities \cup {IdentityOf(i)}
         /\ \A p \in DOMAIN identities : identities'[p] = identities[p]
         /\ IdentityOf(i) \notin DOMAIN identities => identities'[IdentityOf(i)] = u
<1>1. IdentityOf(i) \in Providers \X Accounts
  BY CallbackType
<1> QED
  BY <1>1 DEF WithIdentity, Typed, Shape, Tables, Refer

LEMMA LinkIdentityTyped ==
  ASSUME Typed, NEW i \in DOMAIN requests, LinkIdentity(i)
  PROVE  Typed'
<1>1. requests[i].kind = "callback" /\ requests[i].value \in DOMAIN users
      /\ requests[i].value \in Nat
  BY DEF LinkIdentity, At, Typed, RequestsFit, Fits, IsRequest
<1>2. /\ identities' \in [DOMAIN identities' -> Nat]
      /\ DOMAIN identities' \subseteq Providers \X Accounts
      /\ \A p \in DOMAIN identities' : identities'[p] \in DOMAIN users
  BY ZenonT(30), <1>1, WithIdentityType DEF LinkIdentity, Typed, Refer
<1>3. Grows /\ Tables' /\ Refer' /\ Alone
  BY <1>2 DEF LinkIdentity, Typed, Shape, Tables, Refer, Grows, Alone
<1>4. Step(i, "finish", requests[i].value) /\ users' = users
  BY DEF LinkIdentity
<1> QED
  BY <1>1, <1>3, <1>4, StepTyped DEF Steps, StepsOf, Exchanged

(* A statement that breaks a constraint: the request begins again, or ends.*)
LEMMA ThrowsTyped ==
  ASSUME Typed, NEW i \in DOMAIN requests, requests[i].kind = "callback", Throws(i),
         Grows, Tables', Refer', Alone
  PROVE  Typed'
<1>1. CASE Step(i, "reply", 0)
  BY <1>1, StepTyped DEF Steps, StepsOf
<1>2. CASE requests' = [requests EXCEPT ![i].at = "identity", ![i].again = TRUE]
  <2>1. requests[i] \in Request /\ Fits(requests[i])
    BY DEF Typed, Shape, RequestsFit
  <2>2. PICK r : r = [requests[i] EXCEPT !.at = "identity", !.again = TRUE]
    OBVIOUS
  <2>3. /\ r \in Request /\ r.at = "identity" /\ r.value = requests[i].value
        /\ r.kind = requests[i].kind
        /\ r.flow = requests[i].flow /\ r.token = requests[i].token
        /\ r.client = requests[i].client /\ r.verifier = requests[i].verifier
    BY <2>1, <2>2 DEF Request, Steps, Exchanged
  <2>4. Becomes(i, r)
    <3>1. requests' = [requests EXCEPT ![i] = r]
      BY <1>2, <2>2
    <3> QED
      BY <3>1, <2>3 DEF Becomes, Typed, Shape
  <2>5. Fits(r)'
    <3>1. IsRequest(r)'
      BY <2>1, <2>3 DEF Fits, IsRequest, Grows, Request
    <3> QED
      BY <2>1, <2>3, <3>1 DEF Fits, Grows, StepsOf, Exchanged
  <2>6. Shape'
    BY <2>4 DEF Typed, Shape, Alone, browser, chosen, Becomes
  <2> QED
    BY <2>3, <2>4, <2>5, <2>6, RequestTyped DEF Alone
<1> QED
  BY <1>1, <1>2 DEF Throws, Answer

LEMMA FindIdentityTyped ==
  ASSUME Typed, NEW i \in DOMAIN requests, FindIdentity(i)
  PROVE  Typed'
<1> DEFINE u == identities[IdentityOf(i)]
           a == AccountOf(i)
<1>1. requests[i].kind = "callback" /\ a \in Accounts /\ Alone
  BY CallbackType DEF FindIdentity, At, Alone
<1>2. users \in Seq(Accounts \cup {None})
  BY DEF Typed, Shape, Tables
<1>3. CASE Step(i, "owner", 0) /\ UNCHANGED users
  <2>1. Grows /\ Tables' /\ Refer'
    BY <1>3, TablesAlone DEF FindIdentity, tables
  <2> QED
    BY <1>1, <1>3, <2>1, StepTyped DEF Steps, StepsOf, Exchanged
<1>4. CASE /\ IdentityOf(i) \in DOMAIN identities
           /\ users' = [users EXCEPT ![u] = IF @ = None THEN a ELSE @]
           /\ Step(i, "finish", u)
  <2>1. u \in DOMAIN users /\ u \in Nat
    BY <1>2, <1>4 DEF Typed, Refer
  <2>2. users' \in Seq(Accounts \cup {None}) /\ DOMAIN users' = DOMAIN users
    <3>1. PICK b : b = IF users[u] = None THEN a ELSE users[u]
      OBVIOUS
    <3>2. b \in Accounts \cup {None}
      BY <1>1, <1>2, <2>1, <3>1
    <3>3. users' = [users EXCEPT ![u] = b]
      BY <1>4, <3>1
    <3> HIDE DEF u, a
    <3> QED
      BY <1>2, <2>1, <3>2, <3>3, ExceptSeq
  <2>3. Grows /\ Tables' /\ Refer'
    BY <1>1, <2>2 DEF FindIdentity, Typed, Shape, Tables, Refer, Grows
  <2> QED
    BY <1>1, <1>4, <2>1, <2>2, <2>3, StepTyped DEF Steps, StepsOf, Exchanged
<1>5. CASE Throws(i) /\ UNCHANGED users
  <2>1. Grows /\ Tables' /\ Refer'
    BY <1>5, TablesAlone DEF FindIdentity, tables
  <2> QED
    BY <1>1, <1>5, <2>1, ThrowsTyped
<1> QED
  BY <1>3, <1>4, <1>5 DEF FindIdentity

LEMMA CreateUserTyped ==
  ASSUME Typed, NEW i \in DOMAIN requests, CreateUser(i)
  PROVE  Typed'
<1> DEFINE u == Len(users) + 1
<1>1. requests[i].kind = "callback" /\ AccountOf(i) \in Accounts /\ Alone
  BY CallbackType DEF CreateUser, At, Alone
<1>2. users \in Seq(Accounts \cup {None}) /\ u \in Nat
  BY DEF Typed, Shape, Tables
<1>3. CASE /\ users' = Append(users, AccountOf(i))
           /\ IdentityOf(i) \notin DOMAIN identities
           /\ identities' = WithIdentity(i, u)
           /\ Step(i, "finish", u)
  <2>1. /\ users' \in Seq(Accounts \cup {None})
        /\ DOMAIN users \subseteq DOMAIN users' /\ u \in DOMAIN users'
    BY <1>1, <1>2, <1>3
  <2>2. /\ identities' \in [DOMAIN identities' -> Nat]
        /\ DOMAIN identities' \subseteq Providers \X Accounts
        /\ \A p \in DOMAIN identities' : identities'[p] \in DOMAIN users'
    <3> HIDE DEF u
    <3>1. /\ identities' \in [DOMAIN identities' -> Nat]
          /\ DOMAIN identities' \subseteq Providers \X Accounts
          /\ DOMAIN identities' = DOMAIN identities \cup {IdentityOf(i)}
          /\ \A p \in DOMAIN identities : identities'[p] = identities[p]
          /\ identities'[IdentityOf(i)] = u
      BY <1>1, <1>2, <1>3, WithIdentityType
    <3>2. \A p \in DOMAIN identities : identities[p] \in DOMAIN users
      BY DEF Typed, Refer
    <3> QED
      BY <2>1, <3>1, <3>2
  <2>3. Grows /\ Tables' /\ Refer'
    BY <1>1, <2>1, <2>2 DEF CreateUser, Typed, Shape, Tables, Refer, Grows
  <2> QED
    BY <1>1, <1>2, <1>3, <2>1, <2>3, StepTyped DEF Steps, StepsOf, Exchanged
<1>4. CASE Throws(i) /\ UNCHANGED <<users, identities>>
  <2>1. Grows /\ Tables' /\ Refer'
    BY <1>4, TablesAlone DEF CreateUser, tables
  <2> QED
    BY <1>1, <1>4, <2>1, ThrowsTyped
<1> QED
  BY <1>3, <1>4 DEF CreateUser, WithUser

LEMMA InsertCodeTyped ==
  ASSUME Typed, NEW i \in DOMAIN requests, InsertCode(i)
  PROVE  Typed'
<1>1. /\ requests[i].kind = "callback" /\ requests[i].flow \in DOMAIN flows
      /\ requests[i].value \in DOMAIN users /\ requests[i].value \in Nat
  BY CallbackType DEF InsertCode, At, Typed, RequestsFit, Fits, IsRequest
<1>2. /\ codes' \in [DOMAIN codes' -> [user : Nat, used : BOOLEAN]]
      /\ DOMAIN codes' \subseteq DOMAIN flows
      /\ \A n \in DOMAIN codes' : codes'[n].user \in DOMAIN users
  BY <1>1 DEF InsertCode, Typed, Shape, Tables, Refer
<1>3. Grows /\ Tables' /\ Refer' /\ Alone
  <2>1. Alone /\ UNCHANGED <<clients, users, identities, states, tokens, credentials, consents, flows>>
    BY DEF InsertCode, Alone
  <2> QED
    BY <1>2, <2>1 DEF Typed, Shape, Tables, Refer, Grows
<1>4. Step(i, "reply", requests[i].value)
  BY DEF InsertCode, Answer
<1> QED
  BY <1>1, <1>3, <1>4, StepTyped DEF Steps, StepsOf

LEMMA StoreCredentialTyped ==
  ASSUME Typed, NEW i \in DOMAIN requests, StoreCredential(i)
  PROVE  Typed'
<1>1. /\ requests[i].kind = "callback" /\ requests[i].flow \in DOMAIN flows
      /\ requests[i].value \in DOMAIN users /\ requests[i].value \in Nat
  BY CallbackType DEF StoreCredential, At, Typed, RequestsFit, Fits, IsRequest
<1>2. /\ credentials' \in [DOMAIN credentials' -> Nat]
      /\ DOMAIN credentials \subseteq DOMAIN credentials'
      /\ DOMAIN credentials' \subseteq DOMAIN flows
      /\ \A n \in DOMAIN credentials' : credentials'[n] \in DOMAIN users
  BY <1>1 DEF StoreCredential, Typed, Shape, Tables, Refer
<1>3. Grows /\ Tables' /\ Refer' /\ Alone
  <2>1. Alone /\ UNCHANGED <<clients, users, identities, states, codes, tokens, consents, flows>>
    BY DEF StoreCredential, Alone
  <2> QED
    BY <1>2, <2>1 DEF Typed, Shape, Tables, Refer, Grows
<1>4. Step(i, "reply", requests[i].value)
  BY DEF StoreCredential, Answer
<1> QED
  BY <1>1, <1>3, <1>4, StepTyped DEF Steps, StepsOf

(* A code and a token belong to a user.                                    *)
LEMMA ClaimCodeTyped ==
  ASSUME Typed, NEW i \in DOMAIN requests, ClaimCode(i)
  PROVE  Typed'
<1> DEFINE n == requests[i].flow
<1>1. requests[i].kind = "token"
  BY DEF ClaimCode, At
<1>2. /\ codes' \in [DOMAIN codes' -> [user : Nat, used : BOOLEAN]]
      /\ DOMAIN codes' = DOMAIN codes
      /\ \A m \in DOMAIN codes : codes'[m].user = codes[m].user
  BY DEF ClaimCode, Typed, Shape, Tables, Refer
<1>3. Grows /\ Tables' /\ Refer' /\ Alone /\ users' = users
  BY SMTT(20), <1>2 DEF ClaimCode, Typed, Shape, Tables, Refer, Grows, Alone
<1>4. CASE Step(i, "reply", 0)
  BY <1>1, <1>3, <1>4, StepTyped DEF Steps, StepsOf
<1>5. CASE n \in DOMAIN codes /\ Step(i, "issue", codes[n].user)
  <2>1. codes[n].user \in DOMAIN users' /\ codes[n].user \in Nat
    BY <1>3, <1>5 DEF Typed, Shape, Tables, Refer
  <2> QED
    BY <1>1, <1>3, <1>5, <2>1, StepTyped DEF Steps, StepsOf
<1> QED
  BY <1>4, <1>5 DEF ClaimCode, Answer

LEMMA TokenType ==
  ASSUME Typed, NEW k \in DOMAIN tokens
  PROVE  /\ tokens[k] \in Token /\ tokens[k].user \in DOMAIN users
         /\ tokens[k].user \in Nat /\ tokens[k].flow \in DOMAIN flows
         /\ tokens[k].live \in BOOLEAN /\ k \in Nat /\ k # 0 /\ k \in 1 .. Len(tokens)
<1>1. tokens \in Seq(Token) /\ Refer
  BY DEF Typed, Shape, Tables
<1>2. tokens[k] \in Token
  BY <1>1, ElementOfSeq
<1> QED
  BY <1>1, <1>2 DEF Token, Refer

(* A claimed token stays in its row.                                       *)
LEMMA RevokeEffect ==
  ASSUME Typed, NEW i \in DOMAIN requests, ClaimToken(i),
         NEW k \in DOMAIN tokens, k = requests[i].token, Claimable(k)
  PROVE  /\ tokens' \in Seq(Token) /\ Len(tokens') = Len(tokens)
         /\ DOMAIN tokens' = DOMAIN tokens
         /\ \A l \in DOMAIN tokens : /\ tokens'[l].flow = tokens[l].flow
                                     /\ tokens'[l].user = tokens[l].user
                                     /\ l # k => tokens'[l] = tokens[l]
         /\ ~ tokens'[k].live
<1> DEFINE row == [tokens[k] EXCEPT !.live = FALSE]
<1>1. tokens[k] \in Token /\ tokens \in Seq(Token) /\ k \in 1 .. Len(tokens)
  BY TokenType DEF Typed, Shape, Tables
<1>2. /\ row \in Token /\ row.live = FALSE
      /\ row.flow = tokens[k].flow /\ row.user = tokens[k].user
  BY <1>1 DEF Token
<1>3. tokens' = [tokens EXCEPT ![k] = row]
  BY DEF ClaimToken
<1> HIDE DEF row
<1>4. /\ tokens' \in Seq(Token) /\ Len(tokens') = Len(tokens)
      /\ \A l \in 1 .. Len(tokens) : tokens'[l] = IF l = k THEN row ELSE tokens[l]
  BY <1>1, <1>2, <1>3, ExceptSeq
<1> QED
  BY <1>1, <1>2, <1>4

LEMMA ClaimTokenTyped ==
  ASSUME Typed, NEW i \in DOMAIN requests, ClaimToken(i)
  PROVE  Typed'
<1> DEFINE k == requests[i].token
<1>1. requests[i].kind = "refresh" /\ Alone
  BY DEF ClaimToken, At, Alone
<1>2. CASE ~ Claimable(k)
  <2>1. Grows /\ Tables' /\ Refer' /\ Step(i, "reply", 0)
    BY <1>2, TablesAlone DEF ClaimToken, tables, Answer
  <2> QED
    BY <1>1, <2>1, StepTyped DEF Steps, StepsOf
<1>3. CASE Claimable(k)
  <2>1. k \in DOMAIN tokens
    BY <1>3 DEF Claimable
  <2>2. /\ tokens[k].user \in DOMAIN users /\ tokens[k].user \in Nat /\ k # 0
    BY <2>1, TokenType
  <2>3. /\ tokens' \in Seq(Token) /\ DOMAIN tokens' = DOMAIN tokens
        /\ \A l \in DOMAIN tokens : /\ tokens'[l].flow = tokens[l].flow
                                    /\ tokens'[l].user = tokens[l].user
    BY <1>3, <2>1, RevokeEffect DEF ClaimToken
  <2>4. Grows /\ Tables' /\ Refer' /\ users' = users
    BY SMTT(20), <2>3 DEF ClaimToken, Typed, Shape, Tables, Refer, Grows
  <2>5. Step(i, "issue", tokens[k].user) \/ Step(i, "reply", 0)
    BY <1>3 DEF ClaimToken, Answer
  <2> QED
    BY <1>1, <2>2, <2>4, <2>5, StepTyped DEF Steps, StepsOf
<1> QED
  BY <1>2, <1>3

LEMMA IssueEffect ==
  ASSUME Typed, NEW i \in DOMAIN requests, IssueTokens(i)
  PROVE  /\ requests[i].kind \in {"token", "refresh"} /\ requests[i].at = "issue"
         /\ requests[i].kind = "refresh" => requests[i].token \in DOMAIN tokens
         /\ tokens' \in Seq(Token) /\ DOMAIN tokens' = DOMAIN tokens \cup {Len(tokens) + 1}
         /\ Len(tokens) + 1 \notin DOMAIN tokens /\ Len(tokens) \in Nat
         /\ \A l \in DOMAIN tokens : tokens'[l] = tokens[l]
         /\ tokens'[Len(tokens) + 1].user \in DOMAIN users
         /\ tokens'[Len(tokens) + 1].flow =
              IF requests[i].kind = "token" THEN requests[i].flow
              ELSE tokens[requests[i].token].flow
         /\ tokens'[Len(tokens) + 1].flow \in DOMAIN flows
         /\ tokens'[Len(tokens) + 1].live
<1> DEFINE n == IF requests[i].kind = "token" THEN requests[i].flow
                ELSE tokens[requests[i].token].flow
           row == [user |-> requests[i].value, flow |-> n, live |-> TRUE]
<1>1. requests[i] \in Request /\ Fits(requests[i]) /\ requests[i].at = "issue"
  BY DEF IssueTokens, Typed, Shape, RequestsFit
<1>2. /\ requests[i].kind \in {"token", "refresh"}
      /\ requests[i].value \in DOMAIN users /\ requests[i].value \in Nat
  BY <1>1 DEF Fits, StepsOf, Exchanged, Request, Kinds
<1>3. /\ requests[i].kind = "token" => requests[i].flow \in DOMAIN flows
      /\ requests[i].kind = "refresh" => requests[i].token \in DOMAIN tokens
  BY <1>1 DEF Fits, IsRequest
<1>4. n \in DOMAIN flows /\ n \in Nat
  <2>1. n \in DOMAIN flows
    BY <1>2, <1>3, TokenType
  <2> QED
    BY <2>1 DEF Typed, Shape
<1>5. row \in Token /\ row.user = requests[i].value /\ row.flow = n /\ row.live
  BY <1>2, <1>4 DEF Token
<1>6. tokens' = Append(tokens, row) /\ tokens \in Seq(Token)
  BY DEF IssueTokens, Typed, Shape, Tables
<1>7. n = IF requests[i].kind = "token" THEN requests[i].flow
          ELSE tokens[requests[i].token].flow
  OBVIOUS
<1> HIDE DEF row, n
<1>8. /\ tokens' \in Seq(Token) /\ DOMAIN tokens' = DOMAIN tokens \cup {Len(tokens) + 1}
      /\ Len(tokens) + 1 \notin DOMAIN tokens /\ Len(tokens) \in Nat
      /\ \A l \in DOMAIN tokens : tokens'[l] = tokens[l]
      /\ tokens'[Len(tokens) + 1] = row
  BY <1>5, <1>6
<1> QED
  BY <1>1, <1>2, <1>3, <1>4, <1>5, <1>7, <1>8

LEMMA IssueTokensTyped ==
  ASSUME Typed, NEW i \in DOMAIN requests, IssueTokens(i)
  PROVE  Typed'
<1>1. /\ requests[i].kind \in {"token", "refresh"}
      /\ tokens' \in Seq(Token) /\ DOMAIN tokens' = DOMAIN tokens \cup {Len(tokens) + 1}
      /\ Len(tokens) \in Nat
      /\ \A l \in DOMAIN tokens : tokens'[l] = tokens[l]
      /\ tokens'[Len(tokens) + 1].user \in DOMAIN users
      /\ tokens'[Len(tokens) + 1].flow \in DOMAIN flows
  BY IssueEffect
<1>2. Grows /\ Tables' /\ Refer' /\ Alone
  BY SMTT(20), <1>1 DEF IssueTokens, Typed, Shape, Tables, Refer, Grows, Alone
<1>3. Step(i, "reply", Len(tokens) + 1) /\ Len(tokens) + 1 \in Nat
  BY <1>1 DEF IssueTokens, Answer
<1> QED
  BY <1>1, <1>2, <1>3, StepTyped DEF Steps, StepsOf

-----------------------------------------------------------------------------
(* Steps of tabs.                                                          *)

LEMMA RequestsStill ==
  ASSUME Typed, Grows, DOMAIN requests' \subseteq DOMAIN requests,
         \A i \in DOMAIN requests' : requests'[i] = requests[i]
  PROVE  RequestsFit'
<1>1. ASSUME NEW j \in DOMAIN requests', NEW r, r = requests'[j]
      PROVE  Fits(r)'
  <2>1. Fits(r)
    BY <1>1 DEF Typed, RequestsFit
  <2> QED
    BY <2>1, FitsStill
<1> QED
  BY <1>1 DEF RequestsFit

(* A tab stays and waits, or it moves and waits for nothing.               *)
LEMMA TabsStill ==
  ASSUME Typed, Grows,
         \A i \in DOMAIN requests \cap DOMAIN requests' : requests'[i] = requests[i],
         \A t \in Tabs :
           \/ tabs'[t] = tabs[t] /\ tabs[t].wait \in {0} \cup DOMAIN requests'
           \/ /\ tabs'[t].wait = 0 /\ tabs'[t].at # "returning"
              /\ tabs'[t].at \in {"google", "landed"} => tabs'[t].flow # 0
  PROVE  TabsFit'
<1>1. \A t \in Tabs : tabs'[t].wait # 0 =>
        /\ tabs'[t] = tabs[t] /\ tabs[t].wait \in DOMAIN requests'
        /\ tabs[t].wait \in DOMAIN requests
        /\ tabs[t].at \in PlacesOf(requests[tabs[t].wait].kind)
        /\ requests'[tabs[t].wait] = requests[tabs[t].wait]
  BY DEF Typed, TabsFit, Sits
<1>2. \A t \in Tabs :
        /\ tabs'[t].at \in {"google", "landed"} => tabs'[t].flow # 0
        /\ tabs'[t].at = "returning" => tabs'[t].flow \in DOMAIN consents'
  BY DEF Typed, TabsFit, Sits, Grows
<1>3. \A t, u \in Tabs : tabs[t].wait = tabs[u].wait /\ tabs[t].wait # 0 => t = u
  BY DEF Typed, TabsFit
<1> QED
  BY <1>1, <1>2, <1>3 DEF TabsFit, Sits

(* Fewer tabs that are about to start a flow, and as many flows.           *)
LEMMA ReservedStill ==
  ASSUME Typed, UNCHANGED flows,
         \A t \in Tabs : tabs'[t].at \in {"registering", "starting"} =>
                           tabs[t].at \in {"registering", "starting"}
  PROVE  Reserved'
<1>1. Reserving' \subseteq Reserving
  BY DEF Reserving
<1>2. IsFiniteSet(Reserving)
  BY DEF Typed, Reserved
<1>3. IsFiniteSet(Reserving') /\ Cardinality(Reserving') <= Cardinality(Reserving)
  BY <1>1, <1>2, FS_Subset
<1>4. /\ Cardinality(Reserving) \in Nat /\ Cardinality(Reserving') \in Nat
      /\ Len(flows) \in Nat /\ MaxFlows \in Nat
  BY <1>2, <1>3, FS_CardinalityType, OAuthAssumption DEF Typed, Shape
<1> QED
  BY <1>3, <1>4 DEF Typed, Reserved

(* What a tab that moves leaves behind, with no request sent.              *)
LEMMA MoveTyped ==
  ASSUME Typed, Grows, UNCHANGED requests,
         NEW t \in Tabs, NEW at \in Places, NEW n \in {0} \cup DOMAIN flows',
         flows' \in Seq(Flow), Moves(t, at, n), at # "returning",
         at \in {"google", "landed"} => n # 0
  PROVE  /\ tabs' \in [Tabs -> Tab] /\ RequestsFit' /\ TabsFit'
         /\ \A u \in Tabs : tabs'[u].flow \in {0} \cup DOMAIN flows'
         /\ tabs'[t] = [at |-> at, flow |-> n, wait |-> 0]
         /\ \A u \in Tabs \ {t} : tabs'[u] = tabs[u]
<1>0. n \in Nat
  OBVIOUS
<1>1. /\ tabs' \in [Tabs -> Tab]
      /\ tabs'[t] = [at |-> at, flow |-> n, wait |-> 0]
      /\ \A u \in Tabs \ {t} : tabs'[u] = tabs[u]
  BY <1>0, MovesEffect
<1>2. RequestsFit'
  BY RequestsStill
<1>3. \A u \in Tabs : tabs[u].wait \in {0} \cup DOMAIN requests
  BY DEF Typed, TabsFit, Sits
<1>4. TabsFit'
  BY <1>1, <1>3, TabsStill
<1>5. \A u \in Tabs : tabs'[u].flow \in {0} \cup DOMAIN flows'
  BY <1>1 DEF Typed, Keeps, Grows
<1> QED
  BY <1>1, <1>2, <1>4, <1>5

LEMMA AskTyped ==
  ASSUME Typed, Grows, NEW t \in Tabs, NEW at \in Places, NEW r \in Request,
         Ask(t, at, r), Fits(r)', UNCHANGED flows,
         at \in PlacesOf(r.kind), at \notin {"google", "landed"},
         at = "returning" => tabs[t].flow \in DOMAIN consents'
  PROVE  /\ tabs' \in [Tabs -> Tab] /\ RequestsFit' /\ TabsFit'
         /\ \A u \in Tabs : tabs'[u].flow \in {0} \cup DOMAIN flows'
         /\ requests' \in [DOMAIN requests' -> Request] /\ DOMAIN requests' \subseteq Ids
<1>1. /\ NewId \in Ids /\ NewId \notin DOMAIN requests /\ NewId # 0
      /\ DOMAIN requests' = DOMAIN requests \cup {NewId}
      /\ requests' \in [DOMAIN requests' -> Request]
      /\ requests'[NewId] = r
      /\ \A i \in DOMAIN requests : requests'[i] = requests[i]
      /\ tabs' \in [Tabs -> Tab]
      /\ tabs'[t] = [at |-> at, flow |-> tabs[t].flow, wait |-> NewId]
      /\ \A u \in Tabs \ {t} : tabs'[u] = tabs[u]
  BY ZenonT(30), AskEffect
<1>2. RequestsFit'
  <2>1. ASSUME NEW j \in DOMAIN requests', NEW q, q = requests'[j]
        PROVE  Fits(q)'
    <3>1. CASE j = NewId
      BY <1>1, <2>1, <3>1
    <3>2. CASE j \in DOMAIN requests
      <4>1. Fits(q)
        BY <1>1, <2>1, <3>2 DEF Typed, RequestsFit
      <4> QED
        BY <4>1, FitsStill
    <3> QED
      BY <1>1, <2>1, <3>1, <3>2
  <2> QED
    BY <2>1 DEF RequestsFit
<1>3. TabsFit'
  <2> DEFINE id == NewId
             r2 == requests'
  <2>1. /\ id \notin DOMAIN requests /\ id # 0
        /\ DOMAIN r2 = DOMAIN requests \cup {id} /\ r2[id] = r
        /\ \A i \in DOMAIN requests : r2[i] = requests[i]
        /\ tabs'[t] = [at |-> at, flow |-> tabs[t].flow, wait |-> id]
        /\ \A u \in Tabs \ {t} : tabs'[u] = tabs[u]
    BY <1>1
  <2>2. \A u \in Tabs : tabs[u].wait # 0 => tabs[u].wait \in DOMAIN requests
    BY DEF Typed, TabsFit, Sits
  <2>3. TabsFit' <=>
          /\ \A u \in Tabs : /\ tabs'[u].wait # 0 =>
                                  /\ tabs'[u].wait \in DOMAIN r2
                                  /\ tabs'[u].at \in PlacesOf(r2[tabs'[u].wait].kind)
                             /\ tabs'[u].at \in {"google", "landed"} => tabs'[u].flow # 0
                             /\ tabs'[u].at = "returning" => tabs'[u].flow \in DOMAIN consents'
          /\ \A u, w \in Tabs : tabs'[u].wait = tabs'[w].wait /\ tabs'[u].wait # 0 => u = w
    BY DEF TabsFit, Sits, PlacesOf
  <2> HIDE DEF id, r2
  <2> QED
    BY <2>1, <2>2, <2>3 DEF Typed, TabsFit, Sits, Grows
<1>4. \A u \in Tabs : tabs'[u].flow \in {0} \cup DOMAIN flows'
  BY <1>1 DEF Typed, Keeps
<1> QED
  BY <1>1, <1>2, <1>3, <1>4 DEF Typed, Shape

(* The client that a context has stored is one that was registered.        *)
LEMMA StoreType ==
  ASSUME Typed, NEW t \in Tabs
  PROVE  /\ contextOf[t] \in Contexts /\ Store(t) \in Stored
         /\ Store(t).client \in 0 .. clients /\ Store(t).client \in Nat
         /\ Store(t).refresh \in {0} \cup DOMAIN tokens /\ Store(t).refresh \in Nat
<1>1. contextOf \in [Tabs -> Contexts]
  BY OAuthAssumption DEF Typed, Shape
<1>2. contextOf[t] \in Contexts /\ Store(t) \in Stored
  BY <1>1 DEF Typed, Shape, Store
<1>3. Store(t).client <= clients /\ clients \in Nat /\ Store(t).refresh \in {0} \cup DOMAIN tokens
  BY <1>2 DEF Store, Typed, Keeps, Shape, Tables
<1> QED
  BY <1>2, <1>3 DEF Stored

LEMMA OpenTyped ==
  ASSUME Typed, NEW t \in Tabs, Open(t)
  PROVE  Typed'
<1>1. Grows /\ Tables' /\ Refer' /\ UNCHANGED <<requests, flows, store, cookies>>
  BY TablesAlone DEF Open
<1>2. PICK at \in {"signedOut", "mounting"} : Moves(t, at, 0)
  BY DEF Open, Goes
<1>3. flows' \in Seq(Flow)
  BY <1>1 DEF Typed, Shape
<1>4. /\ tabs' \in [Tabs -> Tab] /\ RequestsFit' /\ TabsFit'
      /\ \A u \in Tabs : tabs'[u].flow \in {0} \cup DOMAIN flows'
      /\ tabs'[t] = [at |-> at, flow |-> 0, wait |-> 0]
      /\ \A u \in Tabs \ {t} : tabs'[u] = tabs[u]
  <2>1. at \in Places /\ at \notin {"returning", "google", "landed"}
    BY <1>2 DEF Places, Busy
  <2> QED
    BY <1>1, <1>2, <1>3, <2>1, MoveTyped
<1>5. Reserved'
  BY <1>1, <1>4, ReservedStill
<1>6. Shape' /\ Keeps'
  BY <1>1, <1>4 DEF Open, Typed, Shape, Keeps, chosen, Grows, tables
<1> QED
  BY <1>1, <1>4, <1>5, <1>6 DEF Typed

(* Whoever starts a login takes one of the flows that are left.            *)
LEMMA ReservedMore ==
  ASSUME Typed, UNCHANGED flows, FlowsLeft, NEW t \in Tabs,
         \A u \in Tabs \ {t} : tabs'[u].at = tabs[u].at
  PROVE  Reserved'
<1>1. Reserving' \subseteq Reserving \cup {t} /\ IsFiniteSet(Reserving)
  BY DEF Reserving, Typed, Reserved
<1>2. /\ IsFiniteSet(Reserving \cup {t})
      /\ Cardinality(Reserving \cup {t}) =
           IF t \in Reserving THEN Cardinality(Reserving) ELSE Cardinality(Reserving) + 1
  BY <1>1, FS_AddElement
<1>3. /\ IsFiniteSet(Reserving')
      /\ Cardinality(Reserving') <= Cardinality(Reserving \cup {t})
  BY <1>1, <1>2, FS_Subset
<1>4. /\ Cardinality(Reserving) \in Nat /\ Cardinality(Reserving') \in Nat
      /\ Cardinality(Reserving \cup {t}) \in Nat
      /\ Len(flows) \in Nat /\ MaxFlows \in Nat
  BY <1>1, <1>2, <1>3, FS_CardinalityType, OAuthAssumption DEF Typed, Shape
<1>5. Len(flows) + Cardinality(Reserving) < MaxFlows
  BY DEF FlowsLeft, Reserving
<1> QED
  BY <1>2, <1>3, <1>4, <1>5 DEF Reserved

(* What the browser sends is a request that is well formed.                *)
LEMMA NewRequestType ==
  ASSUME NEW kind \in Kinds, NEW at \in Steps
  PROVE  /\ NewRequest(kind, at) \in Request
         /\ NewRequest(kind, at) =
              [kind |-> kind, at |-> at, flow |-> 0, token |-> 0, client |-> 0,
               verifier |-> 0, value |-> 0, again |-> FALSE]
BY DEF NewRequest, Request

LEMMA AskedFits ==
  ASSUME Typed, Grows, NEW r \in Request, r.at \in StepsOf(r.kind),
         r.at \notin {"link", "finish", "issue", "reply"},
         {r.flow, r.verifier} \subseteq {0} \cup DOMAIN flows',
         r.token \in {0} \cup DOMAIN tokens', r.client <= clients',
         r.kind = "callback" => r.flow \in DOMAIN consents',
         r.kind = "token" => r.flow # 0
  PROVE  Fits(r)'
<1>1. IsRequest(r)'
  BY DEF IsRequest, Request, Kinds, Steps, Exchanged, Grows
<1> QED
  BY <1>1 DEF Fits

LEMMA StartLoginTyped ==
  ASSUME Typed, NEW t \in Tabs, StartLogin(t)
  PROVE  Typed'
<1>1. /\ Grows /\ Tables' /\ Refer' /\ UNCHANGED <<flows, store, cookies>>
      /\ FlowsLeft
  BY TablesAlone DEF StartLogin
<1>2. flows' \in Seq(Flow)
  BY <1>1 DEF Typed, Shape
<1>3. CASE Moves(t, "starting", 0) /\ UNCHANGED requests
  <2>1. /\ tabs' \in [Tabs -> Tab] /\ RequestsFit' /\ TabsFit'
        /\ \A u \in Tabs : tabs'[u].flow \in {0} \cup DOMAIN flows'
        /\ \A u \in Tabs \ {t} : tabs'[u] = tabs[u]
    BY <1>1, <1>2, <1>3, MoveTyped DEF Places, Busy
  <2>2. Reserved'
    BY <1>1, <2>1, ReservedMore
  <2>3. Shape' /\ Keeps'
    BY <1>1, <1>3, <2>1 DEF StartLogin, Typed, Shape, Keeps, chosen, Grows, tables
  <2> QED
    BY <1>1, <2>1, <2>2, <2>3 DEF Typed
<1>4. CASE Ask(t, "registering", NewRequest("register", "lookup"))
  <2>1. PICK r : r = NewRequest("register", "lookup")
    OBVIOUS
  <2>2. /\ r \in Request /\ r.kind = "register" /\ r.at = "lookup" /\ r.flow = 0 /\ r.token = 0
        /\ r.client = 0 /\ r.verifier = 0 /\ r.value = 0 /\ r.again = FALSE
    BY <2>1, NewRequestType DEF Kinds, Steps
  <2>3. Fits(r)'
    BY <1>1, <2>2, AskedFits DEF StepsOf, Grows
  <2>4. Ask(t, "registering", r)
    BY <1>4, <2>1
  <2>5. /\ tabs' \in [Tabs -> Tab] /\ RequestsFit' /\ TabsFit'
        /\ \A u \in Tabs : tabs'[u].flow \in {0} \cup DOMAIN flows'
        /\ requests' \in [DOMAIN requests' -> Request] /\ DOMAIN requests' \subseteq Ids
    BY <1>1, <2>2, <2>3, <2>4, AskTyped DEF Places, Busy, PlacesOf
  <2>6. \A u \in Tabs \ {t} : tabs'[u] = tabs[u]
    BY <2>2, <2>4, AskEffect DEF Places, Busy
  <2>7. Reserved'
    BY <1>1, <2>6, ReservedMore
  <2>8. Shape' /\ Keeps'
    BY <1>1, <2>5 DEF StartLogin, Typed, Shape, Keeps, chosen, Grows, tables
  <2> QED
    BY <1>1, <2>5, <2>7, <2>8 DEF Typed
<1> QED
  BY <1>3, <1>4 DEF StartLogin, Goes

(* Everything but the new row of oauth_states, and the tab that waits for  *)
(* Google's page.                                                          *)
LEMMA VisitTyped ==
  ASSUME Typed, NEW t \in Tabs, NEW f \in Flow, f.client <= clients,
         f.credential \in {0} \cup DOMAIN credentials, Visit(t, f),
         UNCHANGED <<clients, users, identities, codes, tokens, credentials, chosen,
                     consents, requests, store, interrupted, events>>,
         cookies' \in [state : Nat, verifier : Nat],
         {cookies'.state, cookies'.verifier} \subseteq {0} \cup DOMAIN flows',
         Reserved'
  PROVE  Typed'
<1> DEFINE n == Len(flows) + 1
<1>1. flows \in Seq(Flow) /\ n \in Nat
  BY DEF Typed, Shape
<1>2. flows' = Append(flows, f) /\ states' = states \cup {n} /\ Moves(t, "google", n)
  BY DEF Visit
<1>3. /\ flows' \in Seq(Flow) /\ DOMAIN flows' = DOMAIN flows \cup {n} /\ flows'[n] = f
      /\ \A m \in DOMAIN flows : flows'[m] = flows[m]
      /\ n # 0
  BY <1>1, <1>2
<1> HIDE DEF n
<1>4. Grows /\ Tables' /\ Refer'
  <2>1. Grows
    BY <1>3 DEF Typed, Shape, Tables, Grows
  <2>2. Tables'
    BY DEF Typed, Shape, Tables
  <2>3. \A m \in DOMAIN flows' : /\ flows'[m].client <= clients'
                                 /\ flows'[m].credential \in {0} \cup DOMAIN credentials'
    BY <1>3 DEF Typed, Refer
  <2> QED
    BY <1>2, <1>3, <2>1, <2>2, <2>3 DEF Typed, Refer
<1>5. /\ tabs' \in [Tabs -> Tab] /\ RequestsFit' /\ TabsFit'
      /\ \A u \in Tabs : tabs'[u].flow \in {0} \cup DOMAIN flows'
  <2>1. "google" \in Places /\ "google" # "returning" /\ n \in {0} \cup DOMAIN flows'
    BY <1>3 DEF Places
  <2> QED
    BY <1>2, <1>3, <1>4, <2>1, MoveTyped
<1>6. Shape'
  BY <1>3, <1>4, <1>5 DEF Typed, Shape, chosen
<1>7. Keeps'
  BY <1>5 DEF Typed, Keeps
<1> QED
  BY <1>4, <1>5, <1>6, <1>7 DEF Typed

LEMMA VisitEffect ==
  ASSUME Typed, NEW t \in Tabs, NEW f \in Flow, Visit(t, f)
  PROVE  /\ DOMAIN flows' = DOMAIN flows \cup {Len(flows) + 1}
         /\ Len(flows') = Len(flows) + 1 /\ Len(flows) \in Nat
         /\ Len(flows) + 1 \notin DOMAIN flows
         /\ flows'[Len(flows) + 1] = f /\ \A m \in DOMAIN flows : flows'[m] = flows[m]
         /\ tabs'[t].at = "google" /\ tabs'[t].flow = Len(flows) + 1 /\ tabs'[t].wait = 0
         /\ \A u \in Tabs \ {t} : tabs'[u] = tabs[u]
<1>1. flows \in Seq(Flow) /\ flows' = Append(flows, f)
  BY DEF Typed, Shape, Visit
<1>2. /\ DOMAIN flows' = DOMAIN flows \cup {Len(flows) + 1}
      /\ Len(flows') = Len(flows) + 1 /\ Len(flows) \in Nat
      /\ Len(flows) + 1 \notin DOMAIN flows
      /\ flows'[Len(flows) + 1] = f /\ \A m \in DOMAIN flows : flows'[m] = flows[m]
  BY <1>1
<1>3. Moves(t, "google", Len(flows) + 1) /\ "google" \in Places
  BY DEF Visit, Places
<1>4. PICK n \in Nat : n = Len(flows) + 1
  BY <1>2
<1>5. /\ tabs'[t].at = "google" /\ tabs'[t].flow = n /\ tabs'[t].wait = 0
      /\ \A u \in Tabs \ {t} : tabs'[u] = tabs[u]
  <2>1. Moves(t, "google", n)
    BY <1>3, <1>4
  <2> QED
    BY ZenonT(30), <1>3, <2>1, MovesEffect
<1> QED
  BY <1>2, <1>4, <1>5

LEMMA AuthorizeTyped ==
  ASSUME Typed, ClientsFit, NEW t \in Tabs, Authorize(t)
  PROVE  Typed'
<1> DEFINE n == Len(flows) + 1
           f == [provider |-> "google", client |-> clientId[t], credential |-> 0]
<1>1. flows \in Seq(Flow) /\ n \in Nat
  BY DEF Typed, Shape
<1>2. f \in Flow /\ f.client <= clients /\ f.credential = 0 /\ clients \in Nat
  BY DEF ClientsFit, Flow, Providers, Typed, Shape, Tables
<1>3. /\ flows' = Append(flows, f) /\ Moves(t, "google", n) /\ Visit(t, f)
      /\ cookies' = [state |-> n, verifier |-> n] /\ tabs[t].at = "starting"
  BY DEF Authorize, Visit, NewCookies
<1>4. /\ DOMAIN flows' = DOMAIN flows \cup {n} /\ Len(flows') = Len(flows) + 1
      /\ tabs'[t].at = "google" /\ \A u \in Tabs \ {t} : tabs'[u] = tabs[u]
  BY <1>2, <1>3, VisitEffect
<1>5. Reserved'
  <2>1. t \in Reserving /\ IsFiniteSet(Reserving) /\ Reserving' \subseteq Reserving \ {t}
    BY <1>3, <1>4 DEF Typed, Reserved, Reserving
  <2>2. /\ IsFiniteSet(Reserving \ {t})
        /\ Cardinality(Reserving \ {t}) = Cardinality(Reserving) - 1
    BY <2>1, FS_RemoveElement
  <2>3. /\ IsFiniteSet(Reserving')
        /\ Cardinality(Reserving') <= Cardinality(Reserving \ {t})
    BY <2>1, <2>2, FS_Subset
  <2>4. /\ Cardinality(Reserving) \in Nat /\ Cardinality(Reserving') \in Nat
        /\ Len(flows) \in Nat /\ MaxFlows \in Nat
    BY <1>1, <2>1, <2>3, FS_CardinalityType, OAuthAssumption
  <2>5. Len(flows) + Cardinality(Reserving) <= MaxFlows
    BY DEF Typed, Reserved
  <2> QED
    BY <1>4, <2>2, <2>3, <2>4, <2>5 DEF Reserved
<1>6. /\ cookies' \in [state : Nat, verifier : Nat]
      /\ {cookies'.state, cookies'.verifier} \subseteq {0} \cup DOMAIN flows'
  BY <1>1, <1>3, <1>4
<1>7. UNCHANGED <<clients, users, identities, codes, tokens, credentials, chosen,
                  consents, requests, store, interrupted, events>>
  BY DEF Authorize
<1> HIDE DEF f, n
<1> QED
  BY <1>2, <1>3, <1>5, <1>6, <1>7, VisitTyped

LEMMA ConnectTyped ==
  ASSUME Typed, NEW t \in Tabs, Connect(t)
  PROVE  Typed'
<1>1. PICK c \in {0} \cup DOMAIN credentials :
        Visit(t, [provider |-> "google-sheets", client |-> 0, credential |-> c])
  BY DEF Connect
<1> DEFINE n == Len(flows) + 1
           f == [provider |-> "google-sheets", client |-> 0, credential |-> c]
<1>2. flows \in Seq(Flow) /\ n \in Nat /\ clients \in Nat
  BY DEF Typed, Shape, Tables
<1>3. f \in Flow /\ f.client <= clients /\ f.credential = c
  <2>1. c \in Nat
    BY DEF Typed, Refer, Shape
  <2> QED
    BY <1>2, <2>1 DEF Flow, Providers
<1>4. flows' = Append(flows, f) /\ Moves(t, "google", n) /\ Visit(t, f)
  BY <1>1 DEF Visit
<1>5. /\ DOMAIN flows' = DOMAIN flows \cup {n} /\ Len(flows') = Len(flows) + 1
      /\ tabs'[t].at = "google" /\ \A u \in Tabs \ {t} : tabs'[u] = tabs[u]
  BY <1>3, <1>4, VisitEffect
<1>6. Reserved'
  <2>1. Reserving' \subseteq Reserving /\ IsFiniteSet(Reserving)
    BY <1>5 DEF Typed, Reserved, Reserving
  <2>2. /\ IsFiniteSet(Reserving')
        /\ Cardinality(Reserving') <= Cardinality(Reserving)
    BY <2>1, FS_Subset
  <2>3. /\ Cardinality(Reserving) \in Nat /\ Cardinality(Reserving') \in Nat
        /\ Len(flows) \in Nat /\ MaxFlows \in Nat
    BY <1>2, <2>1, <2>2, FS_CardinalityType, OAuthAssumption
  <2>4. Len(flows) + Cardinality(Reserving) < MaxFlows
    BY DEF Connect, FlowsLeft, Reserving
  <2> QED
    BY <1>5, <2>2, <2>3, <2>4 DEF Reserved
<1>7. UNCHANGED <<clients, users, identities, codes, tokens, credentials, chosen,
                  consents, requests, store, cookies, interrupted, events>>
  BY DEF Connect
<1>8. /\ cookies' \in [state : Nat, verifier : Nat]
      /\ {cookies'.state, cookies'.verifier} \subseteq {0} \cup DOMAIN flows'
  BY <1>5, <1>7 DEF Typed, Shape, Keeps
<1> HIDE DEF f, n
<1> QED
  BY <1>3, <1>4, <1>6, <1>7, <1>8, VisitTyped

LEMMA OutsideType ==
  ASSUME Typed, NEW kind, Outside(kind)
  PROVE  events' \in 0 .. MaxEvents
<1>1. events \in 0 .. MaxEvents /\ MaxEvents \in Nat
  BY OAuthAssumption DEF Typed, Shape
<1> QED
  BY <1>1 DEF Outside

(* The callback's request for a flow that Google has a code for.           *)
LEMMA CallbackAsked ==
  ASSUME Typed, Grows, NEW n \in DOMAIN consents', DOMAIN consents' \subseteq DOMAIN flows,
         UNCHANGED flows, NEW t \in Tabs, n = tabs[t].flow,
         Ask(t, "returning", CallbackOf(n))
  PROVE  /\ tabs' \in [Tabs -> Tab] /\ RequestsFit' /\ TabsFit' /\ Reserved'
         /\ \A u \in Tabs : tabs'[u].flow \in {0} \cup DOMAIN flows'
         /\ requests' \in [DOMAIN requests' -> Request] /\ DOMAIN requests' \subseteq Ids
<1>1. PICK r : r = CallbackOf(n)
  OBVIOUS
<1>2. n \in DOMAIN flows /\ n \in Nat
  BY DEF Typed, Shape
<1>3. /\ r \in Request /\ r.kind = "callback" /\ r.at = "select" /\ r.flow = n /\ r.token = 0
      /\ r.client = 0 /\ r.verifier = 0
  BY <1>1, <1>2, NewRequestType DEF CallbackOf, Kinds, Steps, Request
<1>4. Fits(r)'
  BY <1>2, <1>3, AskedFits DEF StepsOf, Grows
<1>5. Ask(t, "returning", r)
  BY <1>1
<1>6. /\ tabs' \in [Tabs -> Tab] /\ RequestsFit' /\ TabsFit'
      /\ \A u \in Tabs : tabs'[u].flow \in {0} \cup DOMAIN flows'
      /\ requests' \in [DOMAIN requests' -> Request] /\ DOMAIN requests' \subseteq Ids
  BY <1>3, <1>4, <1>5, AskTyped DEF Places, Busy, PlacesOf
<1>7. Reserved'
  <2>1. /\ tabs'[t].at = "returning" /\ \A u \in Tabs \ {t} : tabs'[u] = tabs[u]
    BY <1>3, <1>5, AskEffect DEF Places, Busy
  <2> QED
    BY <2>1, ReservedStill
<1> QED
  BY <1>6, <1>7

LEMMA ConsentTyped ==
  ASSUME Typed, NEW t \in Tabs, NEW a \in Accounts, Consent(t, a)
  PROVE  Typed'
<1> DEFINE n == tabs[t].flow
<1>1. n \in DOMAIN flows
  BY DEF Consent, Typed, TabsFit, Sits, Keeps
<1>2. /\ DOMAIN consents' = DOMAIN consents \cup {n}
      /\ consents' \in [DOMAIN consents' -> [account : Accounts, used : BOOLEAN]]
  BY DEF Consent, Typed, Shape, Tables
<1>3. /\ UNCHANGED <<tables, chosen, flows, store, cookies, interrupted, events>>
      /\ Ask(t, "returning", CallbackOf(n))
  BY DEF Consent
<1>4. Grows /\ Tables' /\ Refer'
  BY <1>1, <1>2, <1>3 DEF Typed, Shape, Tables, Refer, Grows, tables
<1>5. /\ tabs' \in [Tabs -> Tab] /\ RequestsFit' /\ TabsFit' /\ Reserved'
      /\ \A u \in Tabs : tabs'[u].flow \in {0} \cup DOMAIN flows'
      /\ requests' \in [DOMAIN requests' -> Request] /\ DOMAIN requests' \subseteq Ids
  <2>1. n \in DOMAIN consents' /\ DOMAIN consents' \subseteq DOMAIN flows
    BY <1>1, <1>2 DEF Typed, Refer
  <2> QED
    BY <1>3, <1>4, <2>1, CallbackAsked
<1>6. Shape' /\ Keeps'
  BY <1>3, <1>4, <1>5 DEF Typed, Shape, Keeps, chosen, Grows, tables
<1> QED
  BY <1>4, <1>5, <1>6 DEF Typed

LEMMA RepeatTyped ==
  ASSUME Typed, NEW t \in Tabs, Repeat(t)
  PROVE  Typed'
<1>1. /\ UNCHANGED <<tables, chosen, flows, consents, store, cookies, interrupted>>
      /\ Ask(t, "returning", CallbackOf(tabs[t].flow))
      /\ tabs[t].flow \in DOMAIN consents /\ DOMAIN consents \subseteq DOMAIN flows
  BY DEF Repeat, Typed, TabsFit, Sits, Refer
<1>2. Grows /\ Tables' /\ Refer'
  BY <1>1, TablesAlone
<1>3. /\ tabs' \in [Tabs -> Tab] /\ RequestsFit' /\ TabsFit' /\ Reserved'
      /\ \A u \in Tabs : tabs'[u].flow \in {0} \cup DOMAIN flows'
      /\ requests' \in [DOMAIN requests' -> Request] /\ DOMAIN requests' \subseteq Ids
  BY <1>1, <1>2, CallbackAsked
<1>4. events' \in 0 .. MaxEvents
  BY OutsideType DEF Repeat
<1>5. Shape' /\ Keeps'
  BY <1>1, <1>2, <1>3, <1>4 DEF Typed, Shape, Keeps, chosen, Grows, tables
<1> QED
  BY <1>2, <1>3, <1>5 DEF Typed

LEMMA LandTyped ==
  ASSUME Typed, NEW t \in Tabs, Land(t)
  PROVE  Typed'
<1> DEFINE n == tabs[t].flow
<1>1. /\ Grows /\ Tables' /\ Refer'
      /\ UNCHANGED <<tables, chosen, flows, store, interrupted, events>>
      /\ tabs[t].at = "landed"
  BY TablesAlone DEF Land
<1>2. n \in DOMAIN flows /\ n # 0 /\ n \in Nat /\ flows \in Seq(Flow)
  BY <1>1 DEF Typed, TabsFit, Sits, Keeps, Shape
<1>3. /\ cookies' \in [state : Nat, verifier : Nat]
      /\ cookies'.state = 0 /\ cookies'.verifier = cookies.verifier
      /\ cookies.verifier \in {0} \cup DOMAIN flows /\ cookies.verifier \in Nat
  BY DEF Land, Typed, Shape, Keeps
<1>4. CASE Moves(t, "signedOut", 0) /\ UNCHANGED requests
  <2>1. /\ tabs' \in [Tabs -> Tab] /\ RequestsFit' /\ TabsFit'
        /\ \A u \in Tabs : tabs'[u].flow \in {0} \cup DOMAIN flows'
    BY <1>1, <1>2, <1>4, MoveTyped DEF Places
  <2>2. Reserved'
    <3>1. tabs'[t].at = "signedOut" /\ \A u \in Tabs \ {t} : tabs'[u] = tabs[u]
      BY <1>4, MovesEffect DEF Places
    <3> QED
      BY <1>1, <3>1, ReservedStill
  <2>3. Shape' /\ Keeps'
    BY <1>1, <1>3, <1>4, <2>1 DEF Typed, Shape, Keeps, chosen, Grows, tables
  <2> QED
    BY <1>1, <2>1, <2>2, <2>3 DEF Typed
<1>5. CASE Ask(t, "exchanging",
               [NewRequest("token", "claim") EXCEPT
                  !.flow = n, !.verifier = cookies.verifier, !.client = Store(t).client])
  <2>1. PICK r : r = [NewRequest("token", "claim") EXCEPT
                        !.flow = n, !.verifier = cookies.verifier, !.client = Store(t).client]
    OBVIOUS
  <2>2. Store(t).client \in 0 .. clients /\ Store(t).client \in Nat
    BY StoreType
  <2>3. /\ r \in Request /\ r.kind = "token" /\ r.at = "claim" /\ r.flow = n
        /\ r.verifier = cookies.verifier /\ r.client = Store(t).client /\ r.token = 0
    BY <1>2, <1>3, <2>1, <2>2 DEF NewRequest, Kinds, Steps, Request
  <2>4. Fits(r)'
    BY <1>1, <1>2, <1>3, <2>2, <2>3, AskedFits DEF StepsOf, Grows, tables
  <2>5. Ask(t, "exchanging", r)
    BY <1>5, <2>1
  <2>6. /\ tabs' \in [Tabs -> Tab] /\ RequestsFit' /\ TabsFit'
        /\ \A u \in Tabs : tabs'[u].flow \in {0} \cup DOMAIN flows'
        /\ requests' \in [DOMAIN requests' -> Request] /\ DOMAIN requests' \subseteq Ids
    BY <1>1, <2>3, <2>4, <2>5, AskTyped DEF Places, Busy, PlacesOf
  <2>7. Reserved'
    <3>1. tabs'[t].at = "exchanging" /\ \A u \in Tabs \ {t} : tabs'[u] = tabs[u]
      BY <2>3, <2>5, AskEffect DEF Places, Busy
    <3> QED
      BY <1>1, <3>1, ReservedStill
  <2>8. Shape' /\ Keeps'
    BY <1>1, <1>3, <2>6 DEF Typed, Shape, Keeps, chosen, Grows, tables
  <2> QED
    BY <1>1, <2>6, <2>7, <2>8 DEF Typed
<1> QED
  BY <1>4, <1>5 DEF Land, Goes

(* A refresh presents what is stored.                                      *)
LEMMA AskRefreshTyped ==
  ASSUME Typed, Grows, UNCHANGED <<tables, flows>>, NEW t \in Tabs,
         NEW at \in {"mounting", "app"}, AskRefresh(t, at)
  PROVE  /\ tabs' \in [Tabs -> Tab] /\ RequestsFit' /\ TabsFit' /\ Reserved'
         /\ \A u \in Tabs : tabs'[u].flow \in {0} \cup DOMAIN flows'
         /\ requests' \in [DOMAIN requests' -> Request] /\ DOMAIN requests' \subseteq Ids
<1>1. PICK r : r = [NewRequest("refresh", "claim") EXCEPT
                      !.token = Store(t).refresh, !.client = Store(t).client]
  OBVIOUS
<1>2. /\ Store(t).client \in 0 .. clients /\ Store(t).client \in Nat
      /\ Store(t).refresh \in {0} \cup DOMAIN tokens /\ Store(t).refresh \in Nat
  BY StoreType
<1>3. /\ r \in Request /\ r.kind = "refresh" /\ r.at = "claim" /\ r.flow = 0
      /\ r.verifier = 0 /\ r.client = Store(t).client /\ r.token = Store(t).refresh
  BY <1>1, <1>2 DEF NewRequest, Kinds, Steps, Request
<1>4. Fits(r)'
  BY <1>2, <1>3, AskedFits DEF StepsOf, Grows, tables
<1>5. Ask(t, at, r) /\ at \in Places
  BY <1>1 DEF AskRefresh, Places, Busy
<1>6. /\ tabs' \in [Tabs -> Tab] /\ RequestsFit' /\ TabsFit'
      /\ \A u \in Tabs : tabs'[u].flow \in {0} \cup DOMAIN flows'
      /\ requests' \in [DOMAIN requests' -> Request] /\ DOMAIN requests' \subseteq Ids
  BY <1>3, <1>4, <1>5, AskTyped DEF PlacesOf
<1>7. Reserved'
  <2>1. tabs'[t].at = at /\ \A u \in Tabs \ {t} : tabs'[u] = tabs[u]
    BY <1>3, <1>5, AskEffect
  <2> QED
    BY <2>1, ReservedStill
<1> QED
  BY <1>6, <1>7

LEMMA UseTokenTyped ==
  ASSUME Typed, NEW t \in Tabs, UseToken(t)
  PROVE  Typed'
<1>1. /\ Grows /\ Tables' /\ Refer' /\ AskRefresh(t, "app")
      /\ UNCHANGED <<tables, chosen, flows, store, cookies, interrupted, events>>
  BY TablesAlone DEF UseToken
<1>2. /\ tabs' \in [Tabs -> Tab] /\ RequestsFit' /\ TabsFit' /\ Reserved'
      /\ \A u \in Tabs : tabs'[u].flow \in {0} \cup DOMAIN flows'
      /\ requests' \in [DOMAIN requests' -> Request] /\ DOMAIN requests' \subseteq Ids
  BY <1>1, AskRefreshTyped
<1>3. Shape' /\ Keeps'
  BY <1>1, <1>2 DEF Typed, Shape, Keeps, chosen, Grows, tables
<1> QED
  BY <1>1, <1>2, <1>3 DEF Typed

LEMMA ClearEffect ==
  ASSUME Typed, NEW t \in Tabs, ClearTokens(t)
  PROVE  /\ store' \in [Contexts -> Stored]
         /\ store'[contextOf[t]].client = Store(t).client
         /\ store'[contextOf[t]].refresh = 0 /\ store'[contextOf[t]].access = "none"
         /\ \A c \in Contexts \ {contextOf[t]} : store'[c] = store[c]
         /\ cookies' = [state |-> 0, verifier |-> 0]
<1> DEFINE s == [SignedOut EXCEPT !.client = Store(t).client]
<1>1. contextOf[t] \in Contexts /\ Store(t).client \in Nat
  BY StoreType
<1>2. s \in Stored /\ s.client = Store(t).client /\ s.refresh = 0 /\ s.access = "none"
  BY <1>1 DEF Stored, SignedOut
<1>3. store' = [store EXCEPT ![contextOf[t]] = s] /\ store \in [Contexts -> Stored]
  BY DEF ClearTokens, Typed, Shape
<1>4. cookies' = [state |-> 0, verifier |-> 0]
  BY DEF ClearTokens, NoCookies
<1> HIDE DEF s
<1> QED
  BY <1>1, <1>2, <1>3, <1>4

LEMMA ClearTyped ==
  ASSUME Typed, NEW t \in Tabs, ClearTokens(t), UNCHANGED <<clients, tokens, flows>>,
         \A u \in Tabs : tabs'[u].flow \in {0} \cup DOMAIN flows'
  PROVE  /\ store' \in [Contexts -> Stored] /\ cookies' \in [state : Nat, verifier : Nat]
         /\ Keeps'
<1>1. /\ store' \in [Contexts -> Stored]
      /\ store'[contextOf[t]].client = Store(t).client
      /\ store'[contextOf[t]].refresh = 0
      /\ \A c \in Contexts \ {contextOf[t]} : store'[c] = store[c]
      /\ cookies' = [state |-> 0, verifier |-> 0]
  BY ClearEffect
<1>2. Store(t).client \in 0 .. clients
  BY StoreType
<1>3. /\ cookies' \in [state : Nat, verifier : Nat]
      /\ {cookies'.state, cookies'.verifier} \subseteq {0} \cup DOMAIN flows'
  BY <1>1
<1>4. \A c \in Contexts : /\ store'[c].client <= clients'
                          /\ store'[c].refresh \in {0} \cup DOMAIN tokens'
  BY <1>1, <1>2 DEF Typed, Keeps
<1> QED
  BY <1>1, <1>3, <1>4 DEF Keeps

LEMMA MountTyped ==
  ASSUME Typed, NEW t \in Tabs, Mount(t)
  PROVE  Typed'
<1>1. /\ Grows /\ Tables' /\ Refer'
      /\ UNCHANGED <<tables, chosen, flows, interrupted, events>>
  BY TablesAlone DEF Mount
<1>2. flows' \in Seq(Flow)
  BY <1>1 DEF Typed, Shape
<1>3. CASE Moves(t, "app", 0) /\ UNCHANGED <<requests, store, cookies>>
  <2>1. /\ tabs' \in [Tabs -> Tab] /\ RequestsFit' /\ TabsFit'
        /\ \A u \in Tabs : tabs'[u].flow \in {0} \cup DOMAIN flows'
    BY <1>1, <1>2, <1>3, MoveTyped DEF Places
  <2>2. Reserved'
    <3>1. tabs'[t].at = "app" /\ \A u \in Tabs \ {t} : tabs'[u] = tabs[u]
      BY <1>3, MovesEffect DEF Places
    <3> QED
      BY <1>1, <3>1, ReservedStill
  <2>3. Shape' /\ Keeps'
    BY <1>1, <1>3, <2>1 DEF Typed, Shape, Keeps, chosen, Grows, tables
  <2> QED
    BY <1>1, <2>1, <2>2, <2>3 DEF Typed
<1>4. CASE AskRefresh(t, "mounting") /\ UNCHANGED <<store, cookies>>
  <2>1. /\ tabs' \in [Tabs -> Tab] /\ RequestsFit' /\ TabsFit' /\ Reserved'
        /\ \A u \in Tabs : tabs'[u].flow \in {0} \cup DOMAIN flows'
        /\ requests' \in [DOMAIN requests' -> Request] /\ DOMAIN requests' \subseteq Ids
    BY <1>1, <1>4, AskRefreshTyped
  <2>2. Shape' /\ Keeps'
    BY <1>1, <1>4, <2>1 DEF Typed, Shape, Keeps, chosen, Grows, tables
  <2> QED
    BY <1>1, <2>1, <2>2 DEF Typed
<1>5. CASE ClearTokens(t) /\ Moves(t, "signedOut", 0) /\ UNCHANGED requests
  <2>1. /\ tabs' \in [Tabs -> Tab] /\ RequestsFit' /\ TabsFit'
        /\ \A u \in Tabs : tabs'[u].flow \in {0} \cup DOMAIN flows'
    BY <1>1, <1>2, <1>5, MoveTyped DEF Places
  <2>2. Reserved'
    <3>1. tabs'[t].at = "signedOut" /\ \A u \in Tabs \ {t} : tabs'[u] = tabs[u]
      BY <1>5, MovesEffect DEF Places
    <3> QED
      BY <1>1, <3>1, ReservedStill
  <2>3. /\ store' \in [Contexts -> Stored] /\ cookies' \in [state : Nat, verifier : Nat]
        /\ Keeps'
    BY <1>1, <1>5, <2>1, ClearTyped DEF tables
  <2>4. Shape'
    BY <1>1, <1>5, <2>1, <2>3 DEF Typed, Shape, chosen
  <2> QED
    BY <1>1, <2>1, <2>2, <2>3, <2>4 DEF Typed
<1> QED
  BY <1>3, <1>4, <1>5 DEF Mount, Goes

LEMMA ForgetEffect ==
  ASSUME Typed, NEW i \in DOMAIN requests, Forget(i)
  PROVE  /\ DOMAIN requests' = DOMAIN requests \ {i} /\ DOMAIN requests' \subseteq Ids
         /\ requests' \in [DOMAIN requests' -> Request]
         /\ \A j \in DOMAIN requests' : requests'[j] = requests[j]
BY DEF Forget, Restrict, Typed, Shape

(* An answer, or none: what the tabs that waited for it are left with.     *)
LEMMA ForgetTyped ==
  ASSUME Typed, NEW i \in DOMAIN requests, Forget(i), Grows, UNCHANGED flows,
         \A t \in Tabs :
           \/ tabs'[t] = tabs[t] /\ tabs[t].wait # i
           \/ /\ tabs'[t].wait = 0 /\ tabs'[t].at # "returning"
              /\ tabs'[t].at \in {"google", "landed"} => tabs'[t].flow # 0
              /\ tabs'[t].at \in {"registering", "starting"} =>
                   tabs[t].at \in {"registering", "starting"}
  PROVE  RequestsFit' /\ TabsFit' /\ Reserved'
<1>1. /\ DOMAIN requests' = DOMAIN requests \ {i}
      /\ \A j \in DOMAIN requests' : requests'[j] = requests[j]
  BY ForgetEffect
<1>2. RequestsFit'
  BY <1>1, RequestsStill
<1>3. \A t \in Tabs : tabs[t].wait \in {0} \cup DOMAIN requests
  BY DEF Typed, TabsFit, Sits
<1>4. TabsFit'
  BY <1>1, <1>3, TabsStill
<1>5. Reserved'
  BY ReservedStill
<1> QED
  BY <1>2, <1>4, <1>5

(* Every tab that waits for a request is at a place for its kind.          *)
LEMMA WaitingPlace ==
  ASSUME Typed, NEW t \in Tabs, NEW i \in DOMAIN requests, tabs[t].wait = i
  PROVE  /\ tabs[t].at \in PlacesOf(requests[i].kind)
         /\ requests[i].kind \in Kinds
         /\ \A u \in Tabs : tabs[u].wait = i => u = t
<1>1. i # 0
  BY OAuthAssumption DEF Typed, Shape, Ids
<1> QED
  BY <1>1 DEF Typed, TabsFit, Sits, Shape, Request

(* storeTokens and setClientId.                                            *)
LEMMA StoredEffect ==
  ASSUME Typed, NEW t \in Tabs, NEW s \in Stored, store' = [store EXCEPT ![contextOf[t]] = s]
  PROVE  /\ store' \in [Contexts -> Stored] /\ store'[contextOf[t]] = s
         /\ \A c \in Contexts \ {contextOf[t]} : store'[c] = store[c]
<1>1. contextOf[t] \in Contexts /\ store \in [Contexts -> Stored]
  BY StoreType DEF Typed, Shape
<1> QED
  BY <1>1

(* What a tab does with the answer it waited for.                          *)
Answered(t, i) ==
  \/ ReceiveClient(t, i) \/ ReceiveRedirect(t, i)
  \/ ReceiveTokens(t, i) \/ ReceiveRefreshed(t, i)

(* Where it goes: every other tab stays.                                   *)
LEMMA AnsweredTabs ==
  ASSUME Typed, NEW i \in DOMAIN requests, requests[i].at = "reply",
         NEW t \in Tabs, tabs[t].wait = i, Answered(t, i)
  PROVE  \E at \in Places, n \in {0} \cup DOMAIN flows :
           /\ Moves(t, at, n) /\ n \in Nat /\ at \notin {"returning", "google"}
           /\ at = "landed" => n # 0
           /\ at \in {"registering", "starting"} => tabs[t].at = "registering"
<1>1. /\ tabs[t].at \in PlacesOf(requests[i].kind) /\ Fits(requests[i])
  BY WaitingPlace DEF Typed, RequestsFit
<1>2. CASE ReceiveClient(t, i)
  BY <1>1, <1>2 DEF ReceiveClient, Goes, Places, Busy, PlacesOf
<1>3. CASE ReceiveRedirect(t, i)
  <2>1. requests[i].flow \in DOMAIN flows /\ requests[i].flow # 0 /\ requests[i].flow \in Nat
    <3>1. requests[i].flow \in DOMAIN flows
      BY <1>3, CallbackType DEF ReceiveRedirect
    <3> QED
      BY <3>1 DEF Typed, Shape
  <2> QED
    BY <1>3, <2>1 DEF ReceiveRedirect, Goes, Places, Busy
<1>4. CASE ReceiveTokens(t, i)
  BY <1>4 DEF ReceiveTokens, Goes, Places, Busy
<1>5. CASE ReceiveRefreshed(t, i)
  BY <1>5 DEF ReceiveRefreshed, Goes, Places, Busy
<1> QED
  BY <1>2, <1>3, <1>4, <1>5 DEF Answered

LEMMA StoreTokensType ==
  ASSUME NEW t, Store(t) \in Stored, NEW k \in Nat
  PROVE  /\ StoreTokens(t, k) \in Stored /\ StoreTokens(t, k).refresh = k
         /\ StoreTokens(t, k).client = Store(t).client
         /\ StoreTokens(t, k).access = "fresh"
BY DEF StoreTokens, Stored

(* What it keeps of it.                                                    *)
LEMMA AnsweredKeeps ==
  ASSUME Typed, NEW i \in DOMAIN requests, requests[i].at = "reply",
         NEW t \in Tabs, tabs[t].wait = i, Answered(t, i),
         UNCHANGED <<clients, tokens, flows>>,
         \A u \in Tabs : tabs'[u].flow \in {0} \cup DOMAIN flows'
  PROVE  /\ store' \in [Contexts -> Stored] /\ cookies' \in [state : Nat, verifier : Nat]
         /\ Keeps'
<1>1. Fits(requests[i]) /\ requests[i] \in Request /\ requests[i].value \in Nat
  BY DEF Typed, RequestsFit, Shape, Request
<1>2. /\ Store(t) \in Stored /\ contextOf[t] \in Contexts
      /\ Store(t).client \in 0 .. clients /\ Store(t).refresh \in {0} \cup DOMAIN tokens
      /\ clients \in Nat
  BY StoreType DEF Typed, Shape, Tables
<1>3. CASE ReceiveClient(t, i)
  <2>1. PICK s : s = [Store(t) EXCEPT !.client = requests[i].value]
    OBVIOUS
  <2>2. requests[i].value \in 1 .. clients
    BY <1>1, <1>3 DEF ReceiveClient, Fits
  <2>3. /\ s \in Stored /\ s.client <= clients /\ s.refresh \in {0} \cup DOMAIN tokens
    BY <1>1, <1>2, <2>1, <2>2 DEF Stored
  <2>4. store' = [store EXCEPT ![contextOf[t]] = s] /\ UNCHANGED cookies
    BY <1>3, <2>1 DEF ReceiveClient, Store
  <2>5. /\ store' \in [Contexts -> Stored] /\ store'[contextOf[t]] = s
        /\ \A c \in Contexts \ {contextOf[t]} : store'[c] = store[c]
    BY <2>3, <2>4, StoredEffect
  <2> QED
    BY <2>3, <2>4, <2>5 DEF Typed, Shape, Keeps
<1>4. CASE UNCHANGED <<store, cookies>>
  BY <1>4 DEF Typed, Shape, Keeps
<1>5. CASE /\ requests[i].kind \in {"token", "refresh"}
           /\ store' = [store EXCEPT ![contextOf[t]] = StoreTokens(t, requests[i].value)]
           /\ cookies' = [cookies EXCEPT !.verifier = 0] \/ UNCHANGED cookies
  <2>1. PICK s : s = StoreTokens(t, requests[i].value)
    OBVIOUS
  <2>2. requests[i].value \in {0} \cup DOMAIN tokens
    BY <1>1, <1>5 DEF Fits
  <2>3. /\ s \in Stored /\ s.client <= clients /\ s.refresh \in {0} \cup DOMAIN tokens
    BY <1>1, <1>2, <2>1, <2>2, StoreTokensType
  <2>4. /\ store' \in [Contexts -> Stored] /\ store'[contextOf[t]] = s
        /\ \A c \in Contexts \ {contextOf[t]} : store'[c] = store[c]
    BY <1>5, <2>1, <2>3, StoredEffect
  <2>5. /\ cookies' \in [state : Nat, verifier : Nat]
        /\ {cookies'.state, cookies'.verifier} \subseteq {0} \cup DOMAIN flows'
    BY <1>5 DEF Typed, Shape, Keeps
  <2> QED
    BY <2>3, <2>4, <2>5 DEF Typed, Keeps
<1>6. CASE ClearTokens(t)
  BY <1>6, ClearTyped
<1> QED
  BY <1>3, <1>4, <1>5, <1>6
     DEF Answered, ReceiveRedirect, ReceiveTokens, ReceiveRefreshed

LEMMA ReceiveTyped ==
  ASSUME Typed, NEW i \in DOMAIN requests, Receive(i)
  PROVE  Typed'
<1>1. /\ Grows /\ Tables' /\ Refer' /\ Forget(i) /\ requests[i].at = "reply"
      /\ UNCHANGED <<tables, chosen, flows, interrupted, events>>
  BY TablesAlone DEF Receive
<1>2. /\ requests' \in [DOMAIN requests' -> Request] /\ DOMAIN requests' \subseteq Ids
  BY <1>1, ForgetEffect
<1>3. CASE Waiting(i) = {} /\ UNCHANGED browser
  <2>1. \A t \in Tabs : tabs'[t] = tabs[t] /\ tabs[t].wait # i
    BY <1>3 DEF Waiting, browser
  <2>2. RequestsFit' /\ TabsFit' /\ Reserved'
    BY <1>1, <2>1, ForgetTyped
  <2>3. Shape' /\ Keeps'
    BY <1>1, <1>2, <1>3 DEF Typed, Shape, Keeps, chosen, Grows, tables, browser
  <2> QED
    BY <1>1, <2>2, <2>3 DEF Typed
<1>4. ASSUME NEW t \in Tabs, tabs[t].wait = i, Answered(t, i)
      PROVE  Typed'
  <2>1. PICK at \in Places, n \in {0} \cup DOMAIN flows :
          /\ Moves(t, at, n) /\ n \in Nat /\ at \notin {"returning", "google"}
          /\ at = "landed" => n # 0
          /\ at \in {"registering", "starting"} => tabs[t].at = "registering"
    BY <1>1, <1>4, AnsweredTabs
  <2>2. /\ tabs' \in [Tabs -> Tab]
        /\ tabs'[t].at = at /\ tabs'[t].flow = n /\ tabs'[t].wait = 0
        /\ \A u \in Tabs \ {t} : tabs'[u] = tabs[u]
    BY ZenonT(30), <2>1, MovesEffect
  <2>3. \A u \in Tabs \ {t} : tabs[u].wait # i
    BY <1>4, WaitingPlace
  <2>4. RequestsFit' /\ TabsFit' /\ Reserved'
    BY <1>1, <2>1, <2>2, <2>3, ForgetTyped
  <2>5. \A u \in Tabs : tabs'[u].flow \in {0} \cup DOMAIN flows'
    BY <1>1, <2>1, <2>2 DEF Typed, Keeps
  <2>6. /\ store' \in [Contexts -> Stored] /\ cookies' \in [state : Nat, verifier : Nat]
        /\ Keeps'
    BY <1>1, <1>4, <2>5, AnsweredKeeps DEF tables
  <2>7. Shape'
    BY <1>1, <1>2, <2>2, <2>6 DEF Typed, Shape, chosen
  <2> QED
    BY <1>1, <2>4, <2>6, <2>7 DEF Typed
<1> QED
  BY <1>3, <1>4 DEF Receive, Waiting, Answered

-----------------------------------------------------------------------------
(* What may happen from outside, and all the steps together.               *)

LEMMA CloseTyped ==
  ASSUME Typed, NEW t \in Tabs, Close(t)
  PROVE  Typed'
<1>1. /\ Grows /\ Tables' /\ Refer' /\ Moves(t, "closed", 0)
      /\ UNCHANGED <<tables, chosen, flows, requests, store, cookies>>
  BY TablesAlone DEF Close, Goes
<1>2. flows' \in Seq(Flow)
  BY <1>1 DEF Typed, Shape
<1>3. /\ tabs' \in [Tabs -> Tab] /\ RequestsFit' /\ TabsFit'
      /\ \A u \in Tabs : tabs'[u].flow \in {0} \cup DOMAIN flows'
  BY <1>1, <1>2, MoveTyped DEF Places
<1>4. Reserved'
  <2>1. tabs'[t].at = "closed" /\ \A u \in Tabs \ {t} : tabs'[u] = tabs[u]
    BY <1>1, MovesEffect DEF Places
  <2> QED
    BY <1>1, <2>1, ReservedStill
<1>5. interrupted' \in BOOLEAN /\ events' \in 0 .. MaxEvents
  <2>1. interrupted' \in BOOLEAN
    BY DEF Close, Typed, Shape
  <2>2. events' \in 0 .. MaxEvents
    BY OutsideType DEF Close
  <2> QED
    BY <2>1, <2>2
<1>6. Shape' /\ Keeps'
  BY <1>1, <1>3, <1>5 DEF Typed, Shape, Keeps, chosen, Grows, tables
<1> QED
  BY <1>1, <1>3, <1>4, <1>6 DEF Typed

(* A request that is given up leaves its tab where it can go on.           *)
LEMMA LoseEffect ==
  ASSUME Typed, NEW i \in DOMAIN requests, Lose(i)
  PROVE  /\ tabs' \in [Tabs -> Tab]
         /\ \A t \in Tabs : tabs[t].wait # i => tabs'[t] = tabs[t]
         /\ \A t \in Tabs : tabs[t].wait = i =>
              /\ tabs'[t].wait = 0 /\ tabs'[t].flow = 0
              /\ tabs'[t].at \in {"closed", "app", "signedOut"}
<1> DEFINE Left(t) == [tabs[t] EXCEPT !.wait = 0, !.flow = 0,
                         !.at = IF @ = "returning" THEN "closed"
                                ELSE IF @ \in {"mounting", "app"} THEN "app"
                                ELSE "signedOut"]
<1>1. tabs \in [Tabs -> Tab]
  BY DEF Typed, Shape
<1>2. ASSUME NEW t \in Tabs
      PROVE  /\ Left(t) \in Tab /\ Left(t).wait = 0 /\ Left(t).flow = 0
             /\ Left(t).at \in {"closed", "app", "signedOut"}
  <2>1. PICK at \in {"closed", "app", "signedOut"} :
          at = IF tabs[t].at = "returning" THEN "closed"
               ELSE IF tabs[t].at \in {"mounting", "app"} THEN "app"
               ELSE "signedOut"
    OBVIOUS
  <2>2. Left(t) = [tabs[t] EXCEPT !.wait = 0, !.flow = 0, !.at = at]
    BY <2>1
  <2>3. PICK tab : tab = Left(t)
    OBVIOUS
  <2> HIDE DEF Left
  <2>4. tab = [at |-> at, flow |-> 0, wait |-> 0]
    BY <1>1, <2>2, <2>3 DEF Tab
  <2>5. tab \in Tab /\ tab.wait = 0 /\ tab.flow = 0 /\ tab.at = at
    BY <2>4 DEF Tab, Places
  <2> QED
    BY <2>3, <2>5
<1>3. tabs' = [t \in Tabs |-> IF tabs[t].wait # i THEN tabs[t] ELSE Left(t)]
  BY DEF Lose
<1> HIDE DEF Left
<1> QED
  BY <1>1, <1>2, <1>3

LEMMA LoseTyped ==
  ASSUME Typed, NEW i \in DOMAIN requests, Lose(i)
  PROVE  Typed'
<1>1. /\ Grows /\ Tables' /\ Refer' /\ Forget(i)
      /\ UNCHANGED <<tables, chosen, flows, consents, store, cookies>>
  BY TablesAlone DEF Lose
<1>2. /\ requests' \in [DOMAIN requests' -> Request] /\ DOMAIN requests' \subseteq Ids
  BY <1>1, ForgetEffect
<1>3. /\ tabs' \in [Tabs -> Tab]
      /\ \A t \in Tabs : tabs[t].wait # i => tabs'[t] = tabs[t]
      /\ \A t \in Tabs : tabs[t].wait = i =>
           /\ tabs'[t].wait = 0 /\ tabs'[t].flow = 0
           /\ tabs'[t].at \in {"closed", "app", "signedOut"}
  BY LoseEffect
<1>4. RequestsFit' /\ TabsFit' /\ Reserved'
  BY <1>1, <1>3, ForgetTyped
<1>5. interrupted' \in BOOLEAN /\ events' \in 0 .. MaxEvents
  <2>1. interrupted' \in BOOLEAN
    BY DEF Lose, Typed, Shape
  <2>2. events' \in 0 .. MaxEvents
    BY OutsideType DEF Lose
  <2> QED
    BY <2>1, <2>2
<1>6. \A t \in Tabs : tabs'[t].flow \in {0} \cup DOMAIN flows'
  BY <1>1, <1>3 DEF Typed, Keeps
<1>7. Shape' /\ Keeps'
  BY <1>1, <1>2, <1>3, <1>5, <1>6 DEF Typed, Shape, Keeps, chosen, Grows, tables
<1> QED
  BY <1>1, <1>4, <1>7 DEF Typed

LEMMA HopEffect ==
  ASSUME Typed, NEW t \in Tabs, NEW other \in Tabs, Hop(t, other)
  PROVE  /\ tabs' \in [Tabs -> Tab] /\ t # other
         /\ tabs[t].at = "google" /\ tabs[t].wait = 0 /\ tabs[other].wait = 0
         /\ tabs'[t].at = "signedOut" /\ tabs'[t].flow = 0 /\ tabs'[t].wait = 0
         /\ tabs'[other] = tabs[t]
         /\ \A u \in Tabs \ {t, other} : tabs'[u] = tabs[u]
<1>1. /\ tabs[t].at = "google" /\ tabs[other].at = "closed" /\ t # other
      /\ tabs \in [Tabs -> Tab]
  BY DEF Hop, Typed, Shape
<1>2. tabs[t].wait = 0 /\ tabs[other].wait = 0
  BY <1>1 DEF Typed, TabsFit, Sits, PlacesOf
<1>3. tabs' = [tabs EXCEPT ![t] = [at |-> "signedOut", flow |-> 0, wait |-> 0],
                           ![other] = tabs[t]]
  BY DEF Hop
<1> QED
  BY <1>1, <1>2, <1>3 DEF Tab, Places

LEMMA HopTyped ==
  ASSUME Typed, NEW t \in Tabs, NEW other \in Tabs, Hop(t, other)
  PROVE  Typed'
<1>1. /\ Grows /\ Tables' /\ Refer'
      /\ UNCHANGED <<tables, chosen, flows, requests, store, cookies, interrupted>>
  BY TablesAlone DEF Hop
<1>2. /\ tabs' \in [Tabs -> Tab]
      /\ tabs[t].at = "google" /\ tabs[t].wait = 0
      /\ tabs'[t].at = "signedOut" /\ tabs'[t].flow = 0 /\ tabs'[t].wait = 0
      /\ tabs'[other] = tabs[t]
      /\ \A u \in Tabs \ {t, other} : tabs'[u] = tabs[u]
  BY HopEffect
<1>3. RequestsFit'
  BY <1>1, RequestsStill
<1>4. \A u \in Tabs : tabs[u].wait \in {0} \cup DOMAIN requests /\ Sits(tabs[u])
  BY DEF Typed, TabsFit, Sits
<1>5. TabsFit'
  <2>1. tabs[t].flow # 0
    BY <1>2, <1>4 DEF Sits
  <2> QED
    BY <1>1, <1>2, <1>4, <2>1, TabsStill
<1>6. Reserved'
  BY <1>1, <1>2, ReservedStill
<1>7. events' \in 0 .. MaxEvents
  BY OutsideType DEF Hop
<1>8. \A u \in Tabs : tabs'[u].flow \in {0} \cup DOMAIN flows'
  BY <1>1, <1>2 DEF Typed, Keeps
<1>9. Shape' /\ Keeps'
  BY <1>1, <1>2, <1>7, <1>8 DEF Typed, Shape, Keeps, chosen, Grows, tables
<1> QED
  BY <1>1, <1>3, <1>5, <1>6, <1>9 DEF Typed

(* The browser and the requests are left alone.                            *)
LEMMA BrowserAlone ==
  ASSUME Typed, Grows, UNCHANGED <<requests, tabs, flows>>
  PROVE  RequestsFit' /\ TabsFit' /\ Reserved'
<1>1. RequestsFit'
  BY RequestsStill
<1>2. \A u \in Tabs : tabs[u].wait \in {0} \cup DOMAIN requests
  BY DEF Typed, TabsFit, Sits
<1>3. TabsFit'
  BY <1>2, TabsStill
<1>4. Reserved'
  BY ReservedStill
<1> QED
  BY <1>1, <1>3, <1>4

LEMMA ExpireTyped ==
  ASSUME Typed, Expire
  PROVE  Typed'
<1>1. /\ UNCHANGED <<clients, users, identities, credentials, chosen, flows, consents,
                     requests, browser, interrupted, tokens>>
      /\ states' \subseteq states
      /\ \/ UNCHANGED codes
         \/ \E n \in DOMAIN codes : codes' = [codes EXCEPT ![n].used = TRUE]
  BY DEF Expire
<1>2. /\ codes' \in [DOMAIN codes' -> [user : Nat, used : BOOLEAN]]
      /\ DOMAIN codes' = DOMAIN codes
      /\ \A m \in DOMAIN codes : codes'[m].user = codes[m].user
  <2>1. codes \in [DOMAIN codes -> [user : Nat, used : BOOLEAN]]
    BY DEF Typed, Shape, Tables
  <2>2. CASE UNCHANGED codes
    BY <2>1, <2>2
  <2>3. CASE \E n \in DOMAIN codes : codes' = [codes EXCEPT ![n].used = TRUE]
    BY ZenonT(30), <2>1, <2>3
  <2> QED
    BY <1>1, <2>2, <2>3
<1>3. Grows /\ Tables' /\ Refer'
  BY <1>1, <1>2 DEF Typed, Shape, Tables, Refer, Grows
<1>4. RequestsFit' /\ TabsFit' /\ Reserved'
  BY <1>1, <1>3, BrowserAlone DEF browser
<1>5. events' \in 0 .. MaxEvents
  BY OutsideType DEF Expire
<1>6. Shape' /\ Keeps'
  BY <1>1, <1>3, <1>5 DEF Typed, Shape, Keeps, chosen, Grows, browser
<1> QED
  BY <1>3, <1>4, <1>6 DEF Typed

LEMMA AgeAccessTyped ==
  ASSUME Typed, NEW c \in Contexts, AgeAccess(c)
  PROVE  Typed'
<1>1. /\ Grows /\ Tables' /\ Refer'
      /\ UNCHANGED <<tables, chosen, flows, requests, cookies, tabs, interrupted, events>>
  BY TablesAlone DEF AgeAccess
<1>2. RequestsFit' /\ TabsFit' /\ Reserved'
  BY <1>1, BrowserAlone
<1>3. /\ store' \in [Contexts -> Stored]
      /\ \A d \in Contexts : /\ store'[d].client = store[d].client
                             /\ store'[d].refresh = store[d].refresh
  BY DEF AgeAccess, Typed, Shape, Stored
<1>4. Shape' /\ Keeps'
  BY <1>1, <1>3 DEF Typed, Shape, Keeps, chosen, Grows, tables
<1> QED
  BY <1>1, <1>2, <1>4 DEF Typed

LEMMA InitTyped == Init => Typed
<1> SUFFICES ASSUME Init
             PROVE  Typed
  OBVIOUS
<1>1. /\ requests = [i \in {} |-> 0] /\ flows = <<>> /\ tokens = <<>> /\ states = {}
      /\ clients = 0 /\ consents = [n \in {} |-> 0] /\ codes = [n \in {} |-> 0]
      /\ credentials = [n \in {} |-> 0]
      /\ store = [c \in Contexts |-> SignedOut] /\ cookies = NoCookies
      /\ tabs = [t \in Tabs |-> [at |-> "closed", flow |-> 0, wait |-> 0]]
      /\ allowed \subseteq Accounts /\ contextOf \in Layouts
      /\ interrupted = FALSE /\ events = MaxEvents /\ MaxEvents \in Nat /\ MaxFlows \in Nat
  BY OAuthAssumption DEF Init
<1>2. /\ users \in Seq(Accounts \cup {None}) /\ identities \in [DOMAIN identities -> Nat]
      /\ DOMAIN identities \subseteq Providers \X Accounts
      /\ \A p \in DOMAIN identities : identities[p] \in DOMAIN users
  <2>1. CASE users = <<>> /\ identities = [p \in {} |-> 0]
    BY <2>1
  <2>2. ASSUME NEW a \in Accounts,
               users = <<None>>, identities = [p \in {<<"google", a>>} |-> 1]
        PROVE  /\ users \in Seq(Accounts \cup {None})
               /\ identities \in [DOMAIN identities -> Nat]
               /\ DOMAIN identities \subseteq Providers \X Accounts
               /\ \A p \in DOMAIN identities : identities[p] \in DOMAIN users
    BY <2>2 DEF Providers
  <2> QED
    BY <2>1, <2>2 DEF Init
<1>3. Tables
  BY <1>1, <1>2 DEF Tables
<1>4. Shape
  <2>1. store \in [Contexts -> Stored] /\ cookies \in [state : Nat, verifier : Nat]
    BY <1>1 DEF SignedOut, Stored, NoCookies
  <2>2. tabs \in [Tabs -> Tab]
    BY <1>1 DEF Tab, Places
  <2>3. /\ flows \in Seq(Flow) /\ requests \in [DOMAIN requests -> Request]
        /\ DOMAIN requests \subseteq Ids /\ interrupted \in BOOLEAN
        /\ events \in 0 .. MaxEvents
    <3>1. flows \in Seq(Flow)
      BY <1>1
    <3>2. requests \in [DOMAIN requests -> Request] /\ DOMAIN requests \subseteq Ids
      BY <1>1
    <3>3. interrupted \in BOOLEAN
      BY <1>1
    <3>4. events \in 0 .. MaxEvents
      <4>1. events = MaxEvents /\ MaxEvents \in Nat
        BY <1>1
      <4> QED
        BY <4>1
    <3> QED
      BY <3>1, <3>2, <3>3, <3>4
  <2> QED
    BY <1>1, <1>3, <2>1, <2>2, <2>3 DEF Shape
<1>5. Refer /\ Keeps /\ RequestsFit
  BY <1>1, <1>2 DEF Refer, Keeps, RequestsFit, SignedOut, NoCookies
<1>6. TabsFit
  BY <1>1 DEF TabsFit, Sits
<1>7. Reserved
  <2>1. Reserving = {}
    BY <1>1 DEF Reserving
  <2> QED
    BY <1>1, <2>1, FS_EmptySet DEF Reserved
<1> QED
  BY <1>4, <1>5, <1>6, <1>7 DEF Typed

LEMMA RequestStepTyped ==
  ASSUME Typed, NEW i \in DOMAIN requests, RequestStep(i)
  PROVE  Typed'
BY RegisterLookupTyped, RegisterInsertTyped, SelectStateTyped, TakeStateTyped,
   ExchangeTyped, FindIdentityTyped, FindOwnerTyped, LinkIdentityTyped,
   CreateUserTyped, InsertCodeTyped, StoreCredentialTyped, ClaimCodeTyped,
   ClaimTokenTyped, IssueTokensTyped, ReceiveTyped
   DEF RequestStep

LEMMA NextTyped == Typed /\ ClientsFit /\ [Next]_vars => Typed'
<1> SUFFICES ASSUME Typed, ClientsFit, [Next]_vars
             PROVE  Typed'
  OBVIOUS
<1>1. CASE UNCHANGED vars
  <2>1. Grows /\ Tables' /\ Refer'
    BY <1>1, TablesAlone DEF vars
  <2>2. RequestsFit' /\ TabsFit' /\ Reserved'
    BY <1>1, <2>1, BrowserAlone DEF vars, browser
  <2>3. Shape' /\ Keeps'
    BY <1>1, <2>1 DEF vars, Typed, Shape, Keeps, browser, chosen, tables
  <2> QED
    BY <2>1, <2>2, <2>3 DEF Typed
<1>2. CASE Work
  BY <1>2, RequestStepTyped, AuthorizeTyped, LandTyped, MountTyped DEF Work
<1>3. CASE \E t \in Tabs : \/ Open(t) \/ StartLogin(t) \/ Connect(t) \/ UseToken(t)
                           \/ Close(t) \/ Repeat(t)
  BY <1>3, OpenTyped, StartLoginTyped, ConnectTyped, UseTokenTyped, CloseTyped, RepeatTyped
<1>4. CASE \/ \E t \in Tabs, a \in Accounts : Consent(t, a)
           \/ \E t, other \in Tabs : Hop(t, other)
           \/ \E i \in DOMAIN requests : Lose(i)
           \/ \E c \in Contexts : AgeAccess(c)
           \/ Expire
  BY <1>4, ConsentTyped, HopTyped, LoseTyped, AgeAccessTyped, ExpireTyped
<1> QED
  BY <1>1, <1>2, <1>3, <1>4 DEF Next

LEMMA InitClients == Init => ClientsFit
BY DEF Init, ClientsFit

LEMMA NextClients == Typed /\ ClientsFit /\ [Next]_vars => ClientsFit'
<1> SUFFICES ASSUME Typed, ClientsFit, [Next]_vars
             PROVE  ClientsFit'
  OBVIOUS
<1>0. clients \in Nat /\ clientId \in [Tabs -> Nat] /\ \A t \in Tabs : clientId[t] <= clients
  BY DEF ClientsFit, Typed, Shape, Tables
<1>1. ASSUME UNCHANGED clientId, clients' = clients \/ clients' = clients + 1
      PROVE  ClientsFit'
  BY <1>0, <1>1 DEF ClientsFit
<1>2. ASSUME UNCHANGED clients, NEW t \in Tabs, NEW c \in Nat, c <= clients,
             clientId' = [clientId EXCEPT ![t] = c]
      PROVE  ClientsFit'
  BY <1>0, <1>2 DEF ClientsFit
<1>3. ASSUME NEW t \in Tabs, StartLogin(t)
      PROVE  ClientsFit'
  <2>1. UNCHANGED clients /\ (UNCHANGED clientId \/ clientId' = [clientId EXCEPT ![t] = Store(t).client])
    BY <1>3 DEF StartLogin, tables
  <2>2. Store(t).client \in Nat /\ Store(t).client <= clients
    BY <1>0, StoreType
  <2> QED
    BY <1>1, <1>2, <2>1, <2>2
<1>4. ASSUME NEW i \in DOMAIN requests, Receive(i)
      PROVE  ClientsFit'
  <2>1. UNCHANGED clients /\ requests[i].at = "reply"
    BY <1>4 DEF Receive, tables
  <2>2. ASSUME NEW t \in Tabs, ReceiveClient(t, i)
        PROVE  ClientsFit'
    <3>1. requests[i].value \in 1 .. clients /\ clientId' = [clientId EXCEPT ![t] = requests[i].value]
      BY <2>1, <2>2 DEF ReceiveClient, Typed, RequestsFit, Fits
    <3>2. requests[i].value \in Nat /\ requests[i].value <= clients
      BY <1>0, <3>1
    <3> QED
      BY <1>2, <2>1, <3>1, <3>2
  <2>3. ASSUME NEW t \in Tabs,
               ReceiveRedirect(t, i) \/ ReceiveTokens(t, i) \/ ReceiveRefreshed(t, i)
        PROVE  UNCHANGED clientId
    BY <2>3 DEF ReceiveRedirect, ReceiveTokens, ReceiveRefreshed
  <2>4. CASE UNCHANGED browser
    BY <1>1, <2>1, <2>4 DEF browser
  <2> QED
    BY <1>1, <1>4, <2>1, <2>2, <2>3, <2>4 DEF Receive, Waiting
<1>5. ASSUME NEW i \in DOMAIN requests, RequestStep(i), ~ Receive(i)
      PROVE  ClientsFit'
  <2>1. CASE RegisterInsert(i)
    BY <1>1, <2>1 DEF RegisterInsert, browser
  <2>2. CASE ~ RegisterInsert(i)
    <3>1. UNCHANGED <<clients, clientId>>
      BY <1>5, <2>2 DEF RequestStep, RegisterLookup, SelectState, TakeState, ExchangeAtGoogle,
         FindIdentity, FindOwner, LinkIdentity, CreateUser, InsertCode, StoreCredential,
         ClaimCode, ClaimToken, IssueTokens, browser, tables
    <3> QED
      BY <1>1, <3>1
  <2> QED
    BY <2>1, <2>2
<1>6. ASSUME NEW t \in Tabs,
             \/ Open(t) \/ Authorize(t) \/ Connect(t) \/ Land(t) \/ Mount(t) \/ UseToken(t)
             \/ Close(t) \/ Repeat(t)
      PROVE  ClientsFit'
  <2>1. UNCHANGED <<clients, clientId>>
    BY <1>6 DEF Open, Authorize, Connect, Land, Mount, UseToken, Close, Repeat, tables
  <2> QED
    BY <1>1, <2>1
<1>7. CASE \/ \E t \in Tabs, a \in Accounts : Consent(t, a)
           \/ \E t, other \in Tabs : Hop(t, other)
           \/ \E i \in DOMAIN requests : Lose(i)
           \/ \E c \in Contexts : AgeAccess(c)
           \/ Expire \/ UNCHANGED vars
  <2>1. UNCHANGED <<clients, clientId>>
    BY <1>7 DEF Consent, Hop, Lose, AgeAccess, Expire, vars, tables, browser
  <2> QED
    BY <1>1, <2>1
<1> QED
  BY <1>3, <1>4, <1>5, <1>6, <1>7 DEF Next, Work

LEMMA AlwaysTyped == Spec => [](Typed /\ ClientsFit)
<1>1. Init => Typed /\ ClientsFit
  BY InitTyped, InitClients
<1>2. Typed /\ ClientsFit /\ [Next]_vars => (Typed /\ ClientsFit)'
  BY NextTyped, NextClients
<1> QED
  BY <1>1, <1>2, PTL DEF Spec

(* The variables have their types whatever is repeated, lost or left: rows *)
(* refer to rows, no tab waits for a request that has ended, and no flow   *)
(* is started without room for it (oauth.ts, db/oauth.ts, auth.ts).        *)
THEOREM TypeCorrect == Spec => []TypeOK
BY AlwaysTyped, TypedIsTyped, PTL

-----------------------------------------------------------------------------
(* What the steps have in common: a request goes on, or the rest of the    *)
(* system moves and leaves the requests that are under way as they were.   *)

Goings(i) ==
  /\ DOMAIN requests' = DOMAIN requests
  /\ \A j \in DOMAIN requests \ {i} : requests'[j] = requests[j]
  /\ requests'[i].kind = requests[i].kind /\ requests'[i].flow = requests[i].flow
  /\ requests'[i].token = requests[i].token /\ requests'[i].client = requests[i].client
  /\ requests'[i].verifier = requests[i].verifier

LEMMA StepGoes ==
  ASSUME Typed, NEW i \in DOMAIN requests, NEW s \in Steps, NEW v \in Nat, Step(i, s, v)
  PROVE  Goings(i) /\ requests'[i].at = s /\ requests'[i].value = v
<1>1. requests[i] \in Request
  BY DEF Typed, Shape
<1>2. Becomes(i, Advanced(requests[i], s, v))
  BY StepEffect
<1>3. PICK r : r = Advanced(requests[i], s, v)
  OBVIOUS
<1>4. /\ r.at = s /\ r.value = v /\ r.kind = requests[i].kind
      /\ r.flow = requests[i].flow /\ r.token = requests[i].token
      /\ r.client = requests[i].client /\ r.verifier = requests[i].verifier
  BY <1>1, <1>3, AdvancedIs
<1>5. /\ DOMAIN requests' = DOMAIN requests /\ requests'[i] = r
      /\ \A j \in DOMAIN requests \ {i} : requests'[j] = requests[j]
  BY <1>2, <1>3 DEF Becomes
<1> QED
  BY <1>4, <1>5 DEF Goings

LEMMA ThrowsGoes ==
  ASSUME Typed, NEW i \in DOMAIN requests, Throws(i)
  PROVE  Goings(i) /\ requests'[i].at \in {"identity", "reply"}
<1>1. CASE requests[i].again
  <2>1. Step(i, "reply", 0)
    BY <1>1 DEF Throws, Answer
  <2> QED
    BY <2>1, StepGoes DEF Steps
<1>2. CASE ~ requests[i].again
  <2>1. requests' = [requests EXCEPT ![i].at = "identity", ![i].again = TRUE]
    BY <1>2 DEF Throws
  <2>2. requests \in [DOMAIN requests -> Request]
    BY DEF Typed, Shape
  <2> QED
    BY <2>1, <2>2 DEF Goings, Request
<1> QED
  BY <1>1, <1>2

(* Requests that have been asked have not done anything yet.               *)
Quiet ==
  /\ UNCHANGED <<users, identities, tokens>>
  /\ DOMAIN codes' = DOMAIN codes
  /\ \A n \in DOMAIN codes : codes[n].used => codes'[n].used
  /\ \A n \in DOMAIN flows : n \in DOMAIN flows' /\ flows'[n] = flows[n]
  /\ \A i \in DOMAIN requests' :
       \/ i \in DOMAIN requests /\ requests'[i] = requests[i]
       \/ requests'[i].at \in {"lookup", "select", "claim"}
  /\ \A n \in DOMAIN consents :
       (\A t \in Tabs : tabs[t].at = "google" => tabs[t].flow # n) =>
         n \in DOMAIN consents' /\ consents'[n] = consents[n]

LEMMA AskQuiet ==
  ASSUME Typed, NEW t \in Tabs, NEW at \in Places, NEW r \in Request, Ask(t, at, r),
         r.at \in {"lookup", "select", "claim"}
  PROVE  \A i \in DOMAIN requests' :
           \/ i \in DOMAIN requests /\ requests'[i] = requests[i]
           \/ requests'[i].at \in {"lookup", "select", "claim"}
<1>1. /\ DOMAIN requests' = DOMAIN requests \cup {NewId} /\ requests'[NewId] = r
      /\ \A i \in DOMAIN requests : requests'[i] = requests[i]
  BY ZenonT(30), AskEffect
<1>2. PICK n : n = NewId
  OBVIOUS
<1> QED
  BY <1>1, <1>2

LEMMA TablesQuiet ==
  ASSUME UNCHANGED <<tables, flows, consents>>,
         \A i \in DOMAIN requests' :
           \/ i \in DOMAIN requests /\ requests'[i] = requests[i]
           \/ requests'[i].at \in {"lookup", "select", "claim"}
  PROVE  Quiet
BY DEF Quiet, tables

(* The requests that a tab may send.                                       *)
LEMMA CallbackOfIs ==
  ASSUME Typed, NEW n \in DOMAIN flows
  PROVE  /\ CallbackOf(n) \in Request /\ CallbackOf(n).kind = "callback"
         /\ CallbackOf(n).at = "select" /\ CallbackOf(n).flow = n
         /\ CallbackOf(n).token = 0
<1>1. n \in Nat
  BY DEF Typed, Shape
<1> QED
  BY <1>1, NewRequestType DEF CallbackOf, Kinds, Steps, Request

RefreshOf(t) == [NewRequest("refresh", "claim") EXCEPT
                   !.token = Store(t).refresh, !.client = Store(t).client]

LEMMA RefreshOfIs ==
  ASSUME Typed, NEW t \in Tabs
  PROVE  /\ RefreshOf(t) \in Request /\ RefreshOf(t).kind = "refresh"
         /\ RefreshOf(t).at = "claim" /\ RefreshOf(t).token = Store(t).refresh
<1>1. Store(t).client \in Nat /\ Store(t).refresh \in Nat
  BY StoreType
<1>2. PICK r : r = RefreshOf(t)
  OBVIOUS
<1>3. r \in Request /\ r.kind = "refresh" /\ r.at = "claim" /\ r.token = Store(t).refresh
  BY <1>1, <1>2 DEF RefreshOf, NewRequest, Kinds, Steps, Request
<1> QED
  BY <1>2, <1>3

LEMMA AskRefreshIs ==
  ASSUME Typed, NEW t \in Tabs, NEW at \in {"mounting", "app"}, AskRefresh(t, at)
  PROVE  /\ Ask(t, at, RefreshOf(t)) /\ at \in Places
         /\ RefreshOf(t) \in Request /\ RefreshOf(t).kind = "refresh"
         /\ RefreshOf(t).at = "claim" /\ RefreshOf(t).token = Store(t).refresh
BY RefreshOfIs DEF AskRefresh, RefreshOf, Places, Busy

ExchangeOf(t) == [NewRequest("token", "claim") EXCEPT
                    !.flow = tabs[t].flow, !.verifier = cookies.verifier,
                    !.client = Store(t).client]

LEMMA ExchangeOfIs ==
  ASSUME Typed, NEW t \in Tabs
  PROVE  /\ ExchangeOf(t) \in Request /\ ExchangeOf(t).kind = "token"
         /\ ExchangeOf(t).at = "claim" /\ ExchangeOf(t).flow = tabs[t].flow
         /\ ExchangeOf(t).verifier = cookies.verifier
         /\ ExchangeOf(t).client = Store(t).client
<1>1. /\ tabs[t].flow \in Nat /\ cookies.verifier \in Nat /\ Store(t).client \in Nat
  BY StoreType DEF Typed, Shape, Tab
<1>2. PICK r : r = ExchangeOf(t)
  OBVIOUS
<1>3. /\ r \in Request /\ r.kind = "token" /\ r.at = "claim" /\ r.flow = tabs[t].flow
      /\ r.verifier = cookies.verifier /\ r.client = Store(t).client
  BY <1>1, <1>2 DEF ExchangeOf, NewRequest, Kinds, Steps, Request
<1> QED
  BY <1>2, <1>3

(* Landing asks for tokens only with everything that this takes.           *)
LEMMA LandIs ==
  ASSUME Typed, NEW t \in Tabs, Land(t)
  PROVE  /\ tabs[t].at = "landed"
         /\ cookies'.state = 0 /\ cookies'.verifier = cookies.verifier
         /\ \/ Moves(t, "signedOut", 0) /\ UNCHANGED requests
            \/ /\ Ask(t, "exchanging", ExchangeOf(t))
               /\ cookies.state = tabs[t].flow /\ cookies.verifier # 0
               /\ Store(t).client # 0
<1>1. cookies \in [state : Nat, verifier : Nat]
  BY DEF Typed, Shape
<1>2. /\ tabs[t].at = "landed" /\ cookies' = [cookies EXCEPT !.state = 0]
      /\ \/ Moves(t, "signedOut", 0) /\ UNCHANGED requests
         \/ /\ Ask(t, "exchanging", ExchangeOf(t))
            /\ cookies.state = tabs[t].flow /\ cookies.verifier # 0
            /\ Store(t).client # 0
  BY DEF Land, Mismatch, Goes, ExchangeOf
<1> QED
  BY <1>1, <1>2

(* All the steps that are not a statement of the worker.                   *)
Others ==
  \/ \E t \in Tabs : \/ Open(t) \/ StartLogin(t) \/ Authorize(t) \/ Connect(t)
                     \/ Land(t) \/ Mount(t) \/ UseToken(t) \/ Close(t) \/ Repeat(t)
  \/ \E t \in Tabs, a \in Accounts : Consent(t, a)
  \/ \E t, other \in Tabs : Hop(t, other)
  \/ \E i \in DOMAIN requests : Receive(i) \/ Lose(i)
  \/ \E c \in Contexts : AgeAccess(c)
  \/ Expire \/ UNCHANGED vars

Statement(i) ==
  \/ RegisterLookup(i) \/ RegisterInsert(i)
  \/ SelectState(i) \/ TakeState(i) \/ ExchangeAtGoogle(i)
  \/ FindIdentity(i) \/ FindOwner(i) \/ LinkIdentity(i) \/ CreateUser(i)
  \/ InsertCode(i) \/ StoreCredential(i)
  \/ ClaimCode(i) \/ ClaimToken(i) \/ IssueTokens(i)

LEMMA NextIs ==
  ASSUME [Next]_vars
  PROVE  Others \/ \E i \in DOMAIN requests : Statement(i)
BY DEF Next, Work, RequestStep, Others, Statement

LEMMA StatementGoes ==
  ASSUME Typed, NEW i \in DOMAIN requests, Statement(i)
  PROVE  Goings(i) /\ requests'[i].at \notin {"lookup", "select", "claim"}
<1>0. requests[i] \in Request /\ requests[i].value \in Nat
  BY DEF Typed, Shape, Request
<1>1. ASSUME NEW s \in Steps, NEW v \in Nat, Step(i, s, v),
             s \notin {"lookup", "select", "claim"}
      PROVE  Goings(i) /\ requests'[i].at \notin {"lookup", "select", "claim"}
  BY <1>1, StepGoes
<1>2. CASE RegisterLookup(i) \/ RegisterInsert(i)
  <2>1. Step(i, "reply", 1) \/ Step(i, "insert", 0) \/ Step(i, "reply", clients + 1)
    BY <1>2 DEF RegisterLookup, RegisterInsert, Answer
  <2>2. clients + 1 \in Nat
    BY DEF Typed, Shape, Tables
  <2> QED
    BY <1>1, <2>1, <2>2 DEF Steps
<1>3. CASE SelectState(i) \/ TakeState(i) \/ ExchangeAtGoogle(i)
  <2>1. \E s \in {"delete", "google", "identity", "reply"} : Step(i, s, 0)
    BY <1>3 DEF SelectState, TakeState, ExchangeAtGoogle, Answer
  <2> QED
    BY <1>1, <2>1 DEF Steps, Exchanged
<1>4. CASE FindIdentity(i) \/ CreateUser(i)
  <2>1. IdentityOf(i) \in DOMAIN identities => identities[IdentityOf(i)] \in Nat
    BY DEF Typed, Shape, Tables
  <2>2. Len(users) + 1 \in Nat
    BY DEF Typed, Shape, Tables
  <2>3. Throws(i) \/ \E s \in {"owner", "finish"}, v \in Nat : Step(i, s, v)
    BY <1>4, <2>1, <2>2 DEF FindIdentity, CreateUser
  <2> QED
    BY <1>1, <2>3, ThrowsGoes DEF Steps, Exchanged
<1>5. CASE FindOwner(i) \/ LinkIdentity(i) \/ InsertCode(i) \/ StoreCredential(i)
  <2>1. \A u \in OwnersOf(AccountOf(i)) : u \in Nat
    BY DEF OwnersOf, Typed, Shape, Tables
  <2>2. \E s \in {"link", "create", "reply", "finish"}, v \in Nat : Step(i, s, v)
    BY <1>0, <1>5, <2>1 DEF FindOwner, LinkIdentity, InsertCode, StoreCredential, Answer
  <2> QED
    BY <1>1, <2>2 DEF Steps, Exchanged
<1>6. CASE ClaimCode(i)
  <2>1. requests[i].flow \in DOMAIN codes => codes[requests[i].flow].user \in Nat
    BY DEF Typed, Shape, Tables
  <2> QED
    BY <1>1, <1>6, <2>1 DEF ClaimCode, Answer, Steps
<1>7. CASE ClaimToken(i)
  <2>1. Claimable(requests[i].token) => tokens[requests[i].token].user \in Nat
    BY TokenType DEF Claimable
  <2> QED
    BY <1>1, <1>7, <2>1 DEF ClaimToken, Answer, Steps
<1>8. CASE IssueTokens(i)
  <2>1. Len(tokens) + 1 \in Nat
    BY DEF Typed, Shape, Tables
  <2> QED
    BY <1>1, <1>8, <2>1 DEF IssueTokens, Answer, Steps
<1> QED
  BY <1>2, <1>3, <1>4, <1>5, <1>6, <1>7, <1>8 DEF Statement

LEMMA VisitQuiet ==
  ASSUME Typed, NEW t \in Tabs, NEW f \in Flow, Visit(t, f),
         UNCHANGED <<users, identities, tokens, codes, requests, consents>>
  PROVE  Quiet
BY VisitEffect DEF Quiet

LEMMA AuthorizeIs ==
  ASSUME ClientsFit, NEW t \in Tabs, Authorize(t)
  PROVE  /\ [provider |-> "google", client |-> clientId[t], credential |-> 0] \in Flow
         /\ Visit(t, [provider |-> "google", client |-> clientId[t], credential |-> 0])
         /\ cookies' = [state |-> Len(flows) + 1, verifier |-> Len(flows) + 1]
BY DEF ClientsFit, Authorize, Flow, Providers, NewCookies

LEMMA ConnectIs ==
  ASSUME Typed, NEW t \in Tabs, Connect(t)
  PROVE  \E f \in Flow : Visit(t, f) /\ f.provider = "google-sheets" /\ f.client = 0
<1>1. PICK c \in {0} \cup DOMAIN credentials :
        Visit(t, [provider |-> "google-sheets", client |-> 0, credential |-> c])
  BY DEF Connect
<1>2. c \in Nat
  BY DEF Typed, Refer, Shape
<1>3. [provider |-> "google-sheets", client |-> 0, credential |-> c] \in Flow
  BY <1>2 DEF Flow, Providers
<1> QED
  BY <1>1, <1>3

LEMMA TabsQuiet ==
  ASSUME Typed, ClientsFit, NEW t \in Tabs,
         \/ Open(t) \/ StartLogin(t) \/ Authorize(t) \/ Connect(t)
         \/ Land(t) \/ Mount(t) \/ UseToken(t) \/ Close(t) \/ Repeat(t)
  PROVE  Quiet
<1>1. CASE Open(t) \/ Close(t)
  BY <1>1, TablesQuiet DEF Open, Close
<1>2. CASE StartLogin(t)
  <2>1. UNCHANGED <<tables, flows, consents>>
    BY <1>2 DEF StartLogin
  <2>2. CASE UNCHANGED requests
    BY <2>1, <2>2, TablesQuiet
  <2>3. CASE Ask(t, "registering", NewRequest("register", "lookup"))
    <3>1. /\ NewRequest("register", "lookup") \in Request /\ "registering" \in Places
          /\ NewRequest("register", "lookup").at = "lookup"
      BY NewRequestType DEF Kinds, Steps, Places, Busy
    <3> QED
      BY <2>1, <2>3, <3>1, AskQuiet, TablesQuiet
  <2> QED
    BY <1>2, <2>2, <2>3 DEF StartLogin
<1>3. CASE Authorize(t)
  <2>1. UNCHANGED <<users, identities, tokens, codes, requests, consents>>
    BY <1>3 DEF Authorize
  <2> QED
    BY <1>3, <2>1, AuthorizeIs, VisitQuiet
<1>4. CASE Connect(t)
  <2>1. UNCHANGED <<users, identities, tokens, codes, requests, consents>>
    BY <1>4 DEF Connect
  <2> QED
    BY <1>4, <2>1, ConnectIs, VisitQuiet
<1>5. CASE Land(t)
  <2>1. UNCHANGED <<tables, flows, consents>>
    BY <1>5 DEF Land
  <2>2. CASE UNCHANGED requests
    BY <2>1, <2>2, TablesQuiet
  <2>3. CASE Ask(t, "exchanging", ExchangeOf(t))
    <3>1. ExchangeOf(t) \in Request /\ ExchangeOf(t).at = "claim" /\ "exchanging" \in Places
      BY ExchangeOfIs DEF Places, Busy
    <3> QED
      BY <2>1, <2>3, <3>1, AskQuiet, TablesQuiet
  <2> QED
    BY <1>5, <2>2, <2>3, LandIs
<1>6. ASSUME UNCHANGED <<tables, flows, consents>>, NEW at \in {"mounting", "app"},
             AskRefresh(t, at)
      PROVE  Quiet
  <2>1. RefreshOf(t) \in Request /\ RefreshOf(t).at = "claim" /\ at \in Places
        /\ Ask(t, at, RefreshOf(t))
    BY <1>6, AskRefreshIs
  <2> QED
    BY <1>6, <2>1, AskQuiet, TablesQuiet
<1>7. CASE Mount(t)
  <2>1. UNCHANGED <<tables, flows, consents>> /\ (UNCHANGED requests \/ AskRefresh(t, "mounting"))
    BY <1>7 DEF Mount
  <2> QED
    BY <1>6, <2>1, TablesQuiet
<1>8. CASE UseToken(t)
  <2>1. UNCHANGED <<tables, flows, consents>> /\ AskRefresh(t, "app")
    BY <1>8 DEF UseToken
  <2> QED
    BY <1>6, <2>1
<1>9. CASE Repeat(t)
  <2>1. UNCHANGED <<tables, flows, consents>> /\ Ask(t, "returning", CallbackOf(tabs[t].flow))
    BY <1>9 DEF Repeat
  <2>2. tabs[t].flow \in DOMAIN flows
    BY <1>9 DEF Repeat, Typed, TabsFit, Sits, Refer
  <2>3. /\ CallbackOf(tabs[t].flow) \in Request /\ CallbackOf(tabs[t].flow).at = "select"
        /\ "returning" \in Places
    BY <2>2, CallbackOfIs DEF Places, Busy
  <2> QED
    BY <2>1, <2>3, AskQuiet, TablesQuiet
<1> QED
  BY <1>1, <1>2, <1>3, <1>4, <1>5, <1>7, <1>8, <1>9

LEMMA ConsentQuiet ==
  ASSUME Typed, NEW t \in Tabs, NEW a \in Accounts, Consent(t, a)
  PROVE  /\ Quiet /\ tabs[t].at = "google" /\ tabs[t].flow \in DOMAIN flows
         /\ Ask(t, "returning", CallbackOf(tabs[t].flow))
         /\ DOMAIN consents' = DOMAIN consents \cup {tabs[t].flow}
<1>1. /\ tabs[t].at = "google" /\ tabs[t].flow \in DOMAIN flows
      /\ UNCHANGED <<tables, flows>> /\ Ask(t, "returning", CallbackOf(tabs[t].flow))
  BY DEF Consent, Typed, TabsFit, Sits, Keeps
<1>2. /\ CallbackOf(tabs[t].flow) \in Request /\ CallbackOf(tabs[t].flow).at = "select"
      /\ "returning" \in Places
  BY <1>1, CallbackOfIs DEF Places, Busy
<1>3. \A i \in DOMAIN requests' :
        \/ i \in DOMAIN requests /\ requests'[i] = requests[i]
        \/ requests'[i].at \in {"lookup", "select", "claim"}
  BY <1>1, <1>2, AskQuiet
<1>4. /\ DOMAIN consents' = DOMAIN consents \cup {tabs[t].flow}
      /\ \A m \in DOMAIN consents : m # tabs[t].flow => consents'[m] = consents[m]
  BY DEF Consent
<1> QED
  BY <1>1, <1>3, <1>4 DEF Quiet, tables

LEMMA OthersQuiet ==
  ASSUME Typed, ClientsFit, Others
  PROVE  Quiet
<1>1. ASSUME NEW i \in DOMAIN requests, Receive(i) \/ Lose(i)
      PROVE  Quiet
  <2>1. UNCHANGED <<tables, flows, consents>> /\ Forget(i)
    BY <1>1 DEF Receive, Lose
  <2>2. \A j \in DOMAIN requests' : j \in DOMAIN requests /\ requests'[j] = requests[j]
    BY <2>1, ForgetEffect
  <2> QED
    BY <2>1, <2>2, TablesQuiet
<1>2. CASE \E t, other \in Tabs : Hop(t, other)
  BY <1>2, TablesQuiet DEF Hop
<1>3. CASE \E c \in Contexts : AgeAccess(c)
  BY <1>3, TablesQuiet DEF AgeAccess
<1>4. CASE UNCHANGED vars
  BY <1>4, TablesQuiet DEF vars
<1>5. CASE Expire
  <2>1. /\ UNCHANGED <<users, identities, tokens, flows, consents, requests>>
        /\ \/ UNCHANGED codes
           \/ \E n \in DOMAIN codes : codes' = [codes EXCEPT ![n].used = TRUE]
    BY <1>5 DEF Expire
  <2>2. DOMAIN codes' = DOMAIN codes /\ \A n \in DOMAIN codes : codes[n].used => codes'[n].used
    <3>1. codes \in [DOMAIN codes -> [user : Nat, used : BOOLEAN]]
      BY DEF Typed, Shape, Tables
    <3> QED
      BY <2>1, <3>1
  <2> QED
    BY <2>1, <2>2 DEF Quiet
<1> QED
  BY <1>1, <1>2, <1>3, <1>4, <1>5, TabsQuiet, ConsentQuiet DEF Others

-----------------------------------------------------------------------------
(* Google accepts a code once: of the callbacks of a flow, one gets as far *)
(* as a user, whatever is repeated.                                        *)

HoldsUser(i) == requests[i].kind = "callback" /\ requests[i].at \in Exchanged

Visiting ==
  /\ \A t \in Tabs : tabs[t].at = "google" => tabs[t].flow \notin DOMAIN consents
  /\ \A t, u \in Tabs :
       tabs[t].at = "google" /\ tabs[u].at = "google" /\ tabs[t].flow = tabs[u].flow => t = u

Exchanging ==
  /\ \A i \in DOMAIN requests : HoldsUser(i) =>
       consents[requests[i].flow].used /\ requests[i].flow \notin DOMAIN codes
  /\ \A i, j \in DOMAIN requests :
       HoldsUser(i) /\ HoldsUser(j) /\ requests[i].flow = requests[j].flow => i = j
  /\ \A n \in DOMAIN codes : n \in DOMAIN consents /\ consents[n].used

OneExchange == Visiting /\ Exchanging

LEMMA VisitingStill ==
  ASSUME Visiting, DOMAIN consents' = DOMAIN consents,
         \A t \in Tabs : tabs'[t].at = "google" => tabs'[t] = tabs[t]
  PROVE  Visiting'
BY DEF Visiting

LEMMA AskVisiting ==
  ASSUME Typed, Visiting, DOMAIN consents' = DOMAIN consents,
         NEW t \in Tabs, NEW at \in Places \ {"google"}, NEW r \in Request, Ask(t, at, r)
  PROVE  Visiting'
<1>1. tabs'[t].at = at /\ \A u \in Tabs \ {t} : tabs'[u] = tabs[u]
  BY AskEffect
<1> QED
  BY <1>1, VisitingStill

LEMMA MovesVisiting ==
  ASSUME Typed, Visiting, DOMAIN consents' = DOMAIN consents,
         NEW t \in Tabs, NEW at \in Places \ {"google"}, NEW n \in Nat, Moves(t, at, n)
  PROVE  Visiting'
<1>1. tabs'[t].at = at /\ \A u \in Tabs \ {t} : tabs'[u] = tabs[u]
  BY MovesEffect
<1> QED
  BY <1>1, VisitingStill

LEMMA VisitVisiting ==
  ASSUME Typed, Visiting, UNCHANGED consents, NEW t \in Tabs, NEW f \in Flow, Visit(t, f)
  PROVE  Visiting'
<1>1. /\ tabs'[t].at = "google" /\ tabs'[t].flow = Len(flows) + 1
      /\ \A u \in Tabs \ {t} : tabs'[u] = tabs[u]
      /\ Len(flows) + 1 \notin DOMAIN flows /\ Len(flows) \in Nat
  BY VisitEffect
<1>2. \A u \in Tabs : tabs[u].at = "google" => tabs[u].flow \in DOMAIN flows
  BY DEF Typed, TabsFit, Sits, Keeps
<1>3. DOMAIN consents \subseteq DOMAIN flows
  BY DEF Typed, Refer
<1>4. PICK n : n = Len(flows) + 1
  OBVIOUS
<1> QED
  BY <1>1, <1>2, <1>3, <1>4 DEF Visiting

LEMMA TabsVisiting ==
  ASSUME Typed, ClientsFit, Visiting, NEW t \in Tabs,
         \/ Open(t) \/ StartLogin(t) \/ Authorize(t) \/ Connect(t)
         \/ Land(t) \/ Mount(t) \/ UseToken(t) \/ Close(t) \/ Repeat(t)
  PROVE  Visiting'
<1>0. UNCHANGED consents
  BY DEF Open, StartLogin, Authorize, Connect, Land, Mount, UseToken, Close, Repeat
<1>1. ASSUME NEW at \in Places \ {"google"}, Moves(t, at, 0)
      PROVE  Visiting'
  BY <1>0, <1>1, MovesVisiting
<1>2. ASSUME NEW at \in Places \ {"google"}, NEW r \in Request, Ask(t, at, r)
      PROVE  Visiting'
  BY <1>0, <1>2, AskVisiting
<1>3. {"signedOut", "mounting", "closed", "starting", "registering", "exchanging",
       "returning", "app"} \subseteq Places \ {"google"}
  BY DEF Places, Busy
<1>4. CASE Open(t) \/ Close(t)
  BY <1>1, <1>3, <1>4 DEF Open, Close, Goes
<1>5. CASE StartLogin(t)
  <2>1. NewRequest("register", "lookup") \in Request
    BY NewRequestType DEF Kinds, Steps
  <2> QED
    BY <1>1, <1>2, <1>3, <1>5, <2>1 DEF StartLogin, Goes
<1>6. CASE Authorize(t) \/ Connect(t)
  BY <1>0, <1>6, AuthorizeIs, ConnectIs, VisitVisiting
<1>7. CASE Land(t)
  BY <1>1, <1>2, <1>3, <1>7, LandIs, ExchangeOfIs
<1>8. CASE Mount(t)
  <2>1. Moves(t, "app", 0) \/ AskRefresh(t, "mounting") \/ Moves(t, "signedOut", 0)
    BY <1>8 DEF Mount, Goes
  <2>2. CASE AskRefresh(t, "mounting")
    BY <1>2, <1>3, <2>2, AskRefreshIs
  <2> QED
    BY <1>1, <1>3, <2>1, <2>2
<1>9. CASE UseToken(t)
  <2>1. AskRefresh(t, "app")
    BY <1>9 DEF UseToken
  <2> QED
    BY <1>2, <1>3, <2>1, AskRefreshIs
<1>10. CASE Repeat(t)
  <2>1. tabs[t].flow \in DOMAIN flows /\ Ask(t, "returning", CallbackOf(tabs[t].flow))
    BY <1>10 DEF Repeat, Typed, TabsFit, Sits, Refer
  <2> QED
    BY <1>2, <1>3, <2>1, CallbackOfIs
<1> QED
  BY <1>4, <1>5, <1>6, <1>7, <1>8, <1>9, <1>10

LEMMA ReceiveMoves ==
  ASSUME Typed, NEW i \in DOMAIN requests, Receive(i)
  PROVE  \/ UNCHANGED browser
         \/ \E t \in Tabs, at \in Places \ {"google"}, n \in Nat : Moves(t, at, n)
<1>1. CASE \E t \in Waiting(i) : Answered(t, i)
  <2>1. PICK t \in Tabs : tabs[t].wait = i /\ Answered(t, i)
    BY <1>1 DEF Waiting
  <2>2. /\ Grows /\ UNCHANGED <<tables, flows>> /\ requests[i].at = "reply"
    BY TablesAlone DEF Receive
  <2>3. PICK at \in Places, n \in {0} \cup DOMAIN flows :
          Moves(t, at, n) /\ n \in Nat /\ at \notin {"returning", "google"}
    BY <2>1, <2>2, AnsweredTabs
  <2> QED
    BY <2>3
<1> QED
  BY <1>1 DEF Receive, Answered

LEMMA OthersVisiting ==
  ASSUME Typed, ClientsFit, OneExchange, Others
  PROVE  Visiting'
<1>0. Visiting
  BY DEF OneExchange
<1>1. ASSUME NEW t \in Tabs, NEW a \in Accounts, Consent(t, a)
      PROVE  Visiting'
  <2>1. /\ tabs[t].at = "google" /\ tabs[t].flow \in DOMAIN flows
        /\ Ask(t, "returning", CallbackOf(tabs[t].flow))
        /\ DOMAIN consents' = DOMAIN consents \cup {tabs[t].flow}
    BY <1>1, ConsentQuiet
  <2>2. CallbackOf(tabs[t].flow) \in Request /\ "returning" \in Places
    BY <2>1, CallbackOfIs DEF Places, Busy
  <2>3. tabs'[t].at = "returning" /\ \A u \in Tabs \ {t} : tabs'[u] = tabs[u]
    BY <2>1, <2>2, AskEffect
  <2> QED
    BY <1>0, <2>1, <2>3 DEF Visiting
<1>2. ASSUME NEW t \in Tabs, NEW other \in Tabs, Hop(t, other)
      PROVE  Visiting'
  <2>1. /\ tabs[t].at = "google" /\ t # other /\ tabs'[t].at = "signedOut"
        /\ tabs'[other] = tabs[t] /\ \A u \in Tabs \ {t, other} : tabs'[u] = tabs[u]
    BY <1>2, HopEffect
  <2>2. UNCHANGED consents
    BY <1>2 DEF Hop
  <2> QED
    BY <1>0, <2>1, <2>2 DEF Visiting
<1>3. ASSUME NEW i \in DOMAIN requests, Receive(i)
      PROVE  Visiting'
  <2>1. UNCHANGED consents
    BY <1>3 DEF Receive
  <2> QED
    BY <1>0, <1>3, <2>1, ReceiveMoves, MovesVisiting, VisitingStill DEF browser
<1>4. ASSUME NEW i \in DOMAIN requests, Lose(i)
      PROVE  Visiting'
  <2>1. UNCHANGED consents
    BY <1>4 DEF Lose
  <2>2. /\ \A t \in Tabs : tabs[t].wait # i => tabs'[t] = tabs[t]
        /\ \A t \in Tabs : tabs[t].wait = i => tabs'[t].at \in {"closed", "app", "signedOut"}
    BY <1>4, LoseEffect
  <2> QED
    BY <1>0, <2>1, <2>2, VisitingStill
<1>5. CASE (\E c \in Contexts : AgeAccess(c)) \/ Expire \/ UNCHANGED vars
  <2>1. UNCHANGED <<consents, tabs>>
    BY <1>5 DEF AgeAccess, Expire, vars, browser
  <2> QED
    BY <1>0, <2>1, VisitingStill
<1> QED
  BY <1>0, <1>1, <1>2, <1>3, <1>4, <1>5, TabsVisiting DEF Others

LEMMA OthersExchanging ==
  ASSUME Typed, ClientsFit, OneExchange, Others
  PROVE  Exchanging'
<1>1. Quiet
  BY OthersQuiet
<1>2. \A n \in DOMAIN consents : n \in DOMAIN consents' /\ consents'[n] = consents[n]
  BY <1>1 DEF Quiet, OneExchange, Visiting
<1>3. \A i \in DOMAIN requests' : HoldsUser(i)' =>
        /\ i \in DOMAIN requests /\ requests'[i] = requests[i] /\ HoldsUser(i)
        /\ requests[i].flow \in DOMAIN consents
  BY <1>1 DEF Quiet, HoldsUser, Exchanged, Typed, RequestsFit, Fits
<1>4. DOMAIN codes' = DOMAIN codes
  BY <1>1 DEF Quiet
<1> QED
  BY <1>2, <1>3, <1>4 DEF OneExchange, Exchanging

(* A callback that goes on with its user, or that has none.                *)
LEMMA GoesExchanging ==
  ASSUME Typed, OneExchange, NEW i \in DOMAIN requests, Goings(i),
         UNCHANGED consents, DOMAIN codes' = DOMAIN codes,
         requests[i].kind = "callback" =>
           requests[i].at \in Exchanged \/ requests'[i].at \notin Exchanged
  PROVE  Exchanging'
<1>1. \A j \in DOMAIN requests' : /\ j \in DOMAIN requests /\ requests'[j].flow = requests[j].flow
                                  /\ HoldsUser(j)' => HoldsUser(j)
  BY DEF Goings, HoldsUser
<1> QED
  BY <1>1 DEF OneExchange, Exchanging

LEMMA ExchangeExchanging ==
  ASSUME Typed, OneExchange, NEW i \in DOMAIN requests, ExchangeAtGoogle(i)
  PROVE  Exchanging'
<1> DEFINE n == requests[i].flow
<1>1. /\ requests[i].kind = "callback" /\ requests[i].at = "google"
      /\ n \in DOMAIN consents /\ UNCHANGED codes
      /\ consents' = [consents EXCEPT ![n].used = TRUE]
      /\ consents \in [DOMAIN consents -> [account : Accounts, used : BOOLEAN]]
  BY CallbackType DEF ExchangeAtGoogle, At, tables, Typed, Shape, Tables
<1>2. /\ DOMAIN consents' = DOMAIN consents /\ consents'[n].used
      /\ \A m \in DOMAIN consents : consents[m].used => consents'[m].used
  BY <1>1
<1>3. Goings(i) /\ (consents[n].used => requests'[i].at = "reply")
  <2>1. CASE consents[n].used
    <3>1. Step(i, "reply", 0)
      BY <2>1 DEF ExchangeAtGoogle, Answer
    <3> QED
      BY <3>1, StepGoes DEF Steps
  <2>2. CASE ~ consents[n].used
    <3>1. Step(i, "identity", 0)
      BY <2>2 DEF ExchangeAtGoogle
    <3> QED
      BY <2>2, <3>1, StepGoes DEF Steps, Exchanged
  <2> QED
    BY <2>1, <2>2
<1>4. \A j \in DOMAIN requests' :
        /\ j \in DOMAIN requests /\ requests'[j].flow = requests[j].flow
        /\ HoldsUser(j)' => \/ j = i /\ ~ consents[n].used
                            \/ HoldsUser(j)
  BY <1>1, <1>3 DEF Goings, HoldsUser, Exchanged
<1>5. n \in DOMAIN codes => consents[n].used
  BY DEF OneExchange, Exchanging
<1>6. \A j \in DOMAIN requests : HoldsUser(j) /\ requests[j].flow = n => consents[n].used
  BY DEF OneExchange, Exchanging
<1>7. ~ HoldsUser(i)
  BY <1>1 DEF HoldsUser, Exchanged
<1> HIDE DEF n
<1>8. n = requests[i].flow
  BY DEF n
<1>9. \A j \in DOMAIN requests' : HoldsUser(j)' =>
        consents'[requests'[j].flow].used /\ requests'[j].flow \notin DOMAIN codes'
  BY <1>1, <1>2, <1>4, <1>5, <1>6, <1>8 DEF OneExchange, Exchanging, HoldsUser, Typed, RequestsFit, Fits
<1>10. \A j, k \in DOMAIN requests' :
         HoldsUser(j)' /\ HoldsUser(k)' /\ requests'[j].flow = requests'[k].flow => j = k
  <2> SUFFICES ASSUME NEW j \in DOMAIN requests', NEW k \in DOMAIN requests',
                      HoldsUser(j)', HoldsUser(k)', requests'[j].flow = requests'[k].flow
               PROVE  j = k
    OBVIOUS
  <2>1. j \in DOMAIN requests /\ k \in DOMAIN requests /\ requests[j].flow = requests[k].flow
    BY <1>4
  <2>2. CASE HoldsUser(j) /\ HoldsUser(k)
    BY <2>1, <2>2 DEF OneExchange, Exchanging
  <2>3. CASE ~ HoldsUser(j)
    BY <1>4, <1>6, <1>8, <2>1, <2>3
  <2>4. CASE ~ HoldsUser(k)
    BY <1>4, <1>6, <1>8, <2>1, <2>4
  <2> QED
    BY <2>2, <2>3, <2>4
<1>11. \A m \in DOMAIN codes' : m \in DOMAIN consents' /\ consents'[m].used
  BY <1>1, <1>2 DEF OneExchange, Exchanging
<1> QED
  BY <1>9, <1>10, <1>11 DEF Exchanging

LEMMA InsertExchanging ==
  ASSUME Typed, OneExchange, NEW i \in DOMAIN requests, InsertCode(i)
  PROVE  Exchanging'
<1> DEFINE n == requests[i].flow
<1>1. /\ HoldsUser(i) /\ UNCHANGED consents /\ DOMAIN codes' = DOMAIN codes \cup {n}
      /\ Step(i, "reply", requests[i].value) /\ requests[i].value \in Nat
  BY DEF InsertCode, Answer, At, HoldsUser, Exchanged, Typed, Shape, Request
<1>2. Goings(i) /\ requests'[i].at = "reply"
  BY <1>1, StepGoes DEF Steps
<1>3. \A j \in DOMAIN requests' :
        /\ j \in DOMAIN requests /\ requests'[j].flow = requests[j].flow
        /\ HoldsUser(j)' => HoldsUser(j) /\ j # i
  BY <1>2 DEF Goings, HoldsUser, Exchanged
<1>4. n \in DOMAIN consents /\ consents[n].used
  BY <1>1 DEF OneExchange, Exchanging, HoldsUser, Typed, RequestsFit, Fits
<1>5. \A j \in DOMAIN requests : HoldsUser(j) /\ j # i => requests[j].flow # n
  BY <1>1 DEF OneExchange, Exchanging
<1> HIDE DEF n
<1> QED
  BY <1>1, <1>3, <1>4, <1>5 DEF OneExchange, Exchanging

LEMMA StatementExchanging ==
  ASSUME Typed, OneExchange, NEW i \in DOMAIN requests, Statement(i)
  PROVE  Exchanging'
<1>0. Goings(i)
  BY StatementGoes
<1>1. CASE RegisterLookup(i) \/ RegisterInsert(i)
  <2>1. requests[i].kind = "register" /\ UNCHANGED <<consents, codes>>
    BY <1>1 DEF RegisterLookup, RegisterInsert, At, tables
  <2> QED
    BY <1>0, <2>1, GoesExchanging
<1>2. CASE SelectState(i) \/ TakeState(i)
  <2>1. /\ UNCHANGED <<consents, codes>>
        /\ \E s \in {"delete", "google", "reply"} : Step(i, s, 0)
    BY <1>2 DEF SelectState, TakeState, Answer, tables
  <2>2. requests'[i].at \notin Exchanged
    BY <2>1, StepGoes DEF Steps, Exchanged
  <2> QED
    BY <1>0, <2>1, <2>2, GoesExchanging
<1>3. CASE FindIdentity(i) \/ FindOwner(i) \/ LinkIdentity(i) \/ CreateUser(i) \/ StoreCredential(i)
  <2>1. UNCHANGED <<consents, codes>> /\ requests[i].at \in Exchanged
    BY <1>3 DEF FindIdentity, FindOwner, LinkIdentity, CreateUser, StoreCredential, At,
                Exchanged, tables
  <2> QED
    BY <1>0, <2>1, GoesExchanging
<1>4. CASE ClaimCode(i) \/ ClaimToken(i) \/ IssueTokens(i)
  <2>1. requests[i].kind # "callback" /\ UNCHANGED consents
    BY <1>4, IssueEffect DEF ClaimCode, ClaimToken, IssueTokens, At
  <2>2. DOMAIN codes' = DOMAIN codes
    BY <1>4 DEF ClaimCode, ClaimToken, IssueTokens
  <2> QED
    BY <1>0, <2>1, <2>2, GoesExchanging
<1> QED
  BY <1>1, <1>2, <1>3, <1>4, ExchangeExchanging, InsertExchanging DEF Statement

LEMMA StatementAlone ==
  ASSUME Typed, NEW i \in DOMAIN requests, Statement(i)
  PROVE  UNCHANGED <<chosen, flows, browser, interrupted, events>> /\ DOMAIN consents' = DOMAIN consents
BY DEF Statement, RegisterLookup, RegisterInsert, SelectState, TakeState, ExchangeAtGoogle,
       FindIdentity, FindOwner, LinkIdentity, CreateUser, InsertCode, StoreCredential,
       ClaimCode, ClaimToken, IssueTokens

LEMMA InitExchange == Init => OneExchange
BY DEF Init, OneExchange, Visiting, Exchanging

LEMMA NextExchange ==
  Typed /\ ClientsFit /\ OneExchange /\ [Next]_vars => OneExchange'
<1> SUFFICES ASSUME Typed, ClientsFit, OneExchange, [Next]_vars
             PROVE  OneExchange'
  OBVIOUS
<1>1. CASE Others
  BY <1>1, OthersVisiting, OthersExchanging DEF OneExchange
<1>2. ASSUME NEW i \in DOMAIN requests, Statement(i)
      PROVE  OneExchange'
  <2>1. UNCHANGED tabs /\ DOMAIN consents' = DOMAIN consents
    BY <1>2, StatementAlone DEF browser
  <2>2. Visiting'
    BY <2>1, VisitingStill DEF OneExchange
  <2> QED
    BY <1>2, <2>2, StatementExchanging DEF OneExchange
<1> QED
  BY <1>1, <1>2, NextIs

(* Of all the callbacks of a flow, repeated or raced, one is given a user  *)
(* and makes a code, and only before the flow has one (fetchProviderIdentity *)
(* and handleOAuthCallback of oauth.ts).                                   *)
THEOREM CallbacksExchangeOnce == Spec => []OneExchange
<1>1. Init => Typed /\ ClientsFit /\ OneExchange
  BY InitTyped, InitClients, InitExchange
<1>2. Typed /\ ClientsFit /\ OneExchange /\ [Next]_vars =>
        (Typed /\ ClientsFit /\ OneExchange)'
  BY NextTyped, NextClients, NextExchange
<1> QED
  BY <1>1, <1>2, PTL DEF Spec

-----------------------------------------------------------------------------
(* A flow's credential is handed on: from its code to a request that       *)
(* issues, from there to a refresh token, to the request that claims it,   *)
(* and so on.                                                              *)

FlowOf(r) == IF r.kind = "token" THEN r.flow ELSE tokens[r.token].flow
Issuing(i) == requests[i].at = "issue"
Spent(n) == n \in DOMAIN codes /\ codes[n].used

OneHolder ==
  /\ \A k \in DOMAIN tokens : Spent(tokens[k].flow)
  /\ \A i \in DOMAIN requests : Issuing(i) => Spent(FlowOf(requests[i]))
  /\ \A i, j \in DOMAIN requests :
       Issuing(i) /\ Issuing(j) /\ FlowOf(requests[i]) = FlowOf(requests[j]) => i = j
  /\ \A k, l \in DOMAIN tokens :
       tokens[k].live /\ tokens[l].live /\ tokens[k].flow = tokens[l].flow => k = l
  /\ \A i \in DOMAIN requests, k \in DOMAIN tokens :
       Issuing(i) /\ tokens[k].live => tokens[k].flow # FlowOf(requests[i])

LEMMA HolderStill ==
  ASSUME OneHolder, UNCHANGED tokens,
         \A n \in DOMAIN codes : codes[n].used => n \in DOMAIN codes' /\ codes'[n].used,
         \A j \in DOMAIN requests' : requests'[j].at = "issue" =>
           /\ j \in DOMAIN requests /\ requests[j].at = "issue"
           /\ requests'[j].kind = requests[j].kind /\ requests'[j].flow = requests[j].flow
           /\ requests'[j].token = requests[j].token
  PROVE  OneHolder'
<1>1. \A n : Spent(n) => Spent(n)'
  BY DEF Spent
<1>2. \A j \in DOMAIN requests' : Issuing(j)' =>
        j \in DOMAIN requests /\ Issuing(j) /\ FlowOf(requests[j])' = FlowOf(requests[j])
  BY DEF Issuing, FlowOf
<1> QED
  BY <1>1, <1>2 DEF OneHolder

LEMMA OthersHolder ==
  ASSUME Typed, ClientsFit, OneHolder, Others
  PROVE  OneHolder'
BY OthersQuiet, HolderStill DEF Quiet

(* A request that goes on, but not to issue tokens.                        *)
LEMMA GoesHolder ==
  ASSUME OneHolder, NEW i \in DOMAIN requests, Goings(i), UNCHANGED tokens,
         \A n \in DOMAIN codes : codes[n].used => n \in DOMAIN codes' /\ codes'[n].used,
         requests'[i].at # "issue"
  PROVE  OneHolder'
BY HolderStill DEF Goings

LEMMA CallbackHolder ==
  ASSUME Typed, OneExchange, OneHolder, NEW i \in DOMAIN requests,
         \/ RegisterLookup(i) \/ RegisterInsert(i)
         \/ SelectState(i) \/ TakeState(i) \/ ExchangeAtGoogle(i)
         \/ FindIdentity(i) \/ FindOwner(i) \/ LinkIdentity(i) \/ CreateUser(i)
         \/ InsertCode(i) \/ StoreCredential(i)
  PROVE  OneHolder'
<1>1. /\ UNCHANGED tokens /\ requests[i].kind \in {"register", "callback"}
      /\ UNCHANGED codes \/ InsertCode(i)
  BY DEF RegisterLookup, RegisterInsert, SelectState, TakeState, ExchangeAtGoogle,
         FindIdentity, FindOwner, LinkIdentity, CreateUser, InsertCode, StoreCredential,
         At, tables
<1>2. \A n \in DOMAIN codes : codes[n].used => n \in DOMAIN codes' /\ codes'[n].used
  <2>1. CASE InsertCode(i)
    <3>1. HoldsUser(i) /\ requests[i].flow \notin DOMAIN codes
      BY <2>1 DEF InsertCode, At, HoldsUser, Exchanged, OneExchange, Exchanging
    <3> QED
      BY <2>1, <3>1 DEF InsertCode
  <2> QED
    BY <1>1, <2>1
<1>3. Typed'
  BY RegisterLookupTyped, RegisterInsertTyped, SelectStateTyped, TakeStateTyped,
     ExchangeTyped, FindIdentityTyped, FindOwnerTyped, LinkIdentityTyped,
     CreateUserTyped, InsertCodeTyped, StoreCredentialTyped
<1>4. Goings(i)
  BY StatementGoes DEF Statement
<1>5. requests'[i].at # "issue"
  BY <1>1, <1>3, <1>4 DEF Goings, Typed, RequestsFit, Fits, StepsOf, Exchanged
<1> QED
  BY <1>1, <1>2, <1>4, <1>5, GoesHolder

LEMMA ClaimCodeHolder ==
  ASSUME Typed, OneHolder, NEW i \in DOMAIN requests, ClaimCode(i)
  PROVE  OneHolder'
<1> DEFINE n == requests[i].flow
<1>1. /\ requests[i].kind = "token" /\ UNCHANGED tokens /\ Goings(i)
      /\ codes \in [DOMAIN codes -> [user : Nat, used : BOOLEAN]]
  BY StatementGoes DEF ClaimCode, At, Statement, Typed, Shape, Tables
<1>2. CASE n \in DOMAIN codes /\ ~ codes[n].used
  <2>1. codes' = [codes EXCEPT ![n].used = TRUE]
    BY <1>2 DEF ClaimCode
  <2>2. \A m : /\ Spent(m)' <=> Spent(m) \/ m = n
               /\ ~ Spent(n)
    BY <1>1, <1>2, <2>1 DEF Spent
  <2>3. \A j \in DOMAIN requests' :
          /\ j \in DOMAIN requests /\ FlowOf(requests[j])' = FlowOf(requests[j])
          /\ Issuing(j)' => Issuing(j) \/ j = i
    BY <1>1 DEF Goings, Issuing, FlowOf
  <2>4. FlowOf(requests[i]) = n
    BY <1>1 DEF FlowOf
  <2>5. \A j \in DOMAIN requests : Issuing(j) => FlowOf(requests[j]) # n
    BY <2>2 DEF OneHolder
  <2>6. \A k \in DOMAIN tokens : tokens[k].flow # n
    BY <2>2 DEF OneHolder
  <2> HIDE DEF n
  <2> QED
    BY <1>1, <2>2, <2>3, <2>4, <2>5, <2>6 DEF OneHolder
<1>3. CASE ~ (n \in DOMAIN codes /\ ~ codes[n].used)
  <2>1. UNCHANGED codes /\ Step(i, "reply", 0)
    BY <1>3 DEF ClaimCode, Answer
  <2>2. requests'[i].at = "reply"
    BY <2>1, StepGoes DEF Steps
  <2> QED
    BY <1>1, <2>1, <2>2, GoesHolder
<1> QED
  BY <1>2, <1>3

LEMMA ClaimTokenHolder ==
  ASSUME Typed, OneHolder, NEW i \in DOMAIN requests, ClaimToken(i)
  PROVE  OneHolder'
<1> DEFINE k == requests[i].token
<1>1. requests[i].kind = "refresh" /\ UNCHANGED codes /\ Goings(i)
  BY StatementGoes DEF ClaimToken, At, Statement
<1>2. CASE Claimable(k)
  <2>1. k \in DOMAIN tokens /\ tokens[k].live
    BY <1>2 DEF Claimable
  <2>2. /\ DOMAIN tokens' = DOMAIN tokens
        /\ \A l \in DOMAIN tokens : /\ tokens'[l].flow = tokens[l].flow
                                    /\ l # k => tokens'[l] = tokens[l]
        /\ ~ tokens'[k].live
    BY <1>2, <2>1, RevokeEffect
  <2>3. \A j \in DOMAIN requests' :
          /\ j \in DOMAIN requests
          /\ Issuing(j)' => /\ Issuing(j) \/ j = i
                            /\ FlowOf(requests[j])' = FlowOf(requests[j])
    <3>1. ASSUME NEW j \in DOMAIN requests, Issuing(j)'
          PROVE  /\ Issuing(j) \/ j = i
                 /\ FlowOf(requests[j])' = FlowOf(requests[j])
      <4>1. /\ Issuing(j) \/ j = i
            /\ requests'[j].kind = requests[j].kind /\ requests'[j].flow = requests[j].flow
            /\ requests'[j].token = requests[j].token
        BY <1>1, <3>1 DEF Issuing, Goings
      <4>2. requests[j].kind # "token" => requests[j].token \in DOMAIN tokens
        <5>1. CASE j = i
          BY <2>1, <5>1
        <5>2. CASE Issuing(j)
          BY <5>2 DEF Issuing, Typed, RequestsFit, Fits, IsRequest, StepsOf, Exchanged
        <5> QED
          BY <4>1, <5>1, <5>2
      <4> HIDE DEF k
      <4> QED
        BY <2>2, <4>1, <4>2 DEF FlowOf
    <3> QED
      BY <1>1, <3>1 DEF Goings
  <2>4. FlowOf(requests[i]) = tokens[k].flow
    BY <1>1 DEF FlowOf
  <2>5. \A m : Spent(m)' <=> Spent(m)
    BY <1>1 DEF Spent
  <2>6. \A j \in DOMAIN requests : Issuing(j) => FlowOf(requests[j]) # tokens[k].flow
    BY <2>1 DEF OneHolder
  <2>7. \A l \in DOMAIN tokens : tokens[l].live /\ tokens[l].flow = tokens[k].flow => l = k
    BY <2>1 DEF OneHolder
  <2> HIDE DEF k
  <2>8. \A l \in DOMAIN tokens' : tokens'[l].live =>
          tokens[l].live /\ tokens[l].flow # tokens[k].flow /\ l \in DOMAIN tokens
    BY <2>2, <2>7
  <2> QED
    BY <2>1, <2>2, <2>3, <2>4, <2>5, <2>6, <2>8 DEF OneHolder
<1>3. CASE ~ Claimable(k)
  <2>1. UNCHANGED tokens /\ Step(i, "reply", 0)
    BY <1>3 DEF ClaimToken, Answer
  <2>2. requests'[i].at = "reply"
    BY <2>1, StepGoes DEF Steps
  <2> QED
    BY <1>1, <2>1, <2>2, GoesHolder
<1> QED
  BY <1>2, <1>3

LEMMA IssueHolder ==
  ASSUME Typed, OneHolder, NEW i \in DOMAIN requests, IssueTokens(i)
  PROVE  OneHolder'
<1> DEFINE k == Len(tokens) + 1
<1>1. /\ Issuing(i) /\ UNCHANGED codes /\ Step(i, "reply", k) /\ k \in Nat
      /\ requests[i].kind = "refresh" => requests[i].token \in DOMAIN tokens
      /\ DOMAIN tokens' = DOMAIN tokens \cup {k} /\ k \notin DOMAIN tokens
      /\ \A l \in DOMAIN tokens : tokens'[l] = tokens[l]
      /\ tokens'[k].flow = FlowOf(requests[i])
  BY IssueEffect DEF IssueTokens, Answer, Issuing, FlowOf
<1> HIDE DEF k
<1>2. Goings(i) /\ requests'[i].at = "reply"
  BY <1>1, StepGoes DEF Steps
<1>3. \A j \in DOMAIN requests' :
        /\ j \in DOMAIN requests
        /\ Issuing(j)' => /\ Issuing(j) /\ j # i
                          /\ FlowOf(requests[j])' = FlowOf(requests[j])
  <2>1. ASSUME NEW j \in DOMAIN requests, Issuing(j)'
        PROVE  /\ Issuing(j) /\ j # i /\ FlowOf(requests[j])' = FlowOf(requests[j])
    <3>1. Issuing(j) /\ j # i /\ requests'[j] = requests[j]
      BY <1>2, <2>1 DEF Issuing, Goings
    <3>2. requests[j].kind # "token" => requests[j].token \in DOMAIN tokens
      BY <3>1 DEF Issuing, Typed, RequestsFit, Fits, IsRequest, StepsOf, Exchanged
    <3> QED
      BY <1>1, <3>1, <3>2 DEF FlowOf
  <2> QED
    BY <1>2, <2>1 DEF Goings
<1>4. \A m : Spent(m)' <=> Spent(m)
  BY <1>1 DEF Spent
<1>5. Spent(FlowOf(requests[i]))
  BY <1>1 DEF OneHolder
<1>6. \A l \in DOMAIN tokens : tokens[l].live => tokens[l].flow # FlowOf(requests[i])
  BY <1>1 DEF OneHolder
<1>7. \A j \in DOMAIN requests : Issuing(j) /\ j # i =>
        FlowOf(requests[j]) # FlowOf(requests[i])
  BY <1>1 DEF OneHolder
<1> QED
  BY <1>1, <1>3, <1>4, <1>5, <1>6, <1>7 DEF OneHolder

LEMMA InitHolder == Init => OneHolder
<1>1. Init => DOMAIN tokens = {} /\ DOMAIN requests = {}
  BY DEF Init
<1> QED
  BY <1>1 DEF OneHolder

LEMMA NextHolder ==
  Typed /\ ClientsFit /\ OneExchange /\ OneHolder /\ [Next]_vars => OneHolder'
BY NextIs, OthersHolder, CallbackHolder, ClaimCodeHolder, ClaimTokenHolder, IssueHolder
   DEF Statement

LEMMA HolderIsOne == Typed /\ OneHolder => OneCredentialPerFlow
<1> SUFFICES ASSUME Typed, OneHolder, NEW n \in DOMAIN codes
             PROVE  Cardinality({k \in DOMAIN tokens : tokens[k].flow = n /\ tokens[k].live})
                      + (IF codes[n].used THEN 0 ELSE 1) <= 1
  BY DEF OneCredentialPerFlow
<1> DEFINE L == {k \in DOMAIN tokens : tokens[k].flow = n /\ tokens[k].live}
<1>1. CASE L = {}
  BY <1>1, FS_EmptySet
<1>2. CASE L # {}
  <2>1. PICK k \in L : TRUE
    BY <1>2
  <2>2. L = {k}
    BY <2>1 DEF OneHolder
  <2>3. codes[n].used
    BY <2>1 DEF OneHolder, Spent
  <2>4. Cardinality({k}) = 1
    BY FS_Singleton
  <2> QED
    BY <2>2, <2>3, <2>4
<1> QED
  BY <1>1, <1>2

(* Of a flow's unused code and its live refresh tokens there is one at     *)
(* most, whatever is repeated or refreshed twice (claimOAuthCode and       *)
(* claimRefreshToken of db/oauth.ts claim in one statement).               *)
THEOREM CredentialsAreSingle == Spec => []OneCredentialPerFlow
<1>1. Init => Typed /\ ClientsFit /\ OneExchange /\ OneHolder
  BY InitTyped, InitClients, InitExchange, InitHolder
<1>2. Typed /\ ClientsFit /\ OneExchange /\ OneHolder /\ [Next]_vars =>
        (Typed /\ ClientsFit /\ OneExchange /\ OneHolder)'
  BY NextTyped, NextClients, NextExchange, NextHolder
<1> QED
  BY <1>1, <1>2, HolderIsOne, PTL DEF Spec

-----------------------------------------------------------------------------
(* Who is who: an identity's user has its address, or none yet; no two     *)
(* users have the same address, and one identity at most has a user        *)
(* without one.                                                            *)

Linking(i) == At(i, "callback", "link")

OwnUsers ==
  /\ \A p \in DOMAIN identities : users[identities[p]] \in {None, p[2]}
  /\ \A u, v \in DOMAIN users : users[u] = users[v] /\ users[u] # None => u = v
  /\ \A p, q \in DOMAIN identities :
       users[identities[p]] = None /\ users[identities[q]] = None => p = q
  /\ \A i \in DOMAIN requests : Linking(i) => users[requests[i].value] = AccountOf(i)

LEMMA UsersStill ==
  ASSUME OwnUsers, UNCHANGED <<users, identities>>,
         \A j \in DOMAIN requests' : Linking(j)' =>
           /\ j \in DOMAIN requests /\ Linking(j)
           /\ requests'[j].value = requests[j].value /\ AccountOf(j)' = AccountOf(j)
  PROVE  OwnUsers'
BY DEF OwnUsers

LEMMA OthersUsers ==
  ASSUME Typed, ClientsFit, OneExchange, OwnUsers, Others
  PROVE  OwnUsers'
<1>1. Quiet
  BY OthersQuiet
<1>2. \A n \in DOMAIN consents : n \in DOMAIN consents' /\ consents'[n] = consents[n]
  BY <1>1 DEF Quiet, OneExchange, Visiting
<1>3. \A j \in DOMAIN requests' : Linking(j)' =>
        /\ j \in DOMAIN requests /\ requests'[j] = requests[j] /\ Linking(j)
        /\ requests[j].flow \in DOMAIN consents
  BY <1>1 DEF Quiet, Linking, At, Typed, RequestsFit, Fits
<1>4. \A j \in DOMAIN requests' : Linking(j)' => AccountOf(j)' = AccountOf(j)
  BY <1>2, <1>3 DEF AccountOf
<1> QED
  BY <1>1, <1>3, <1>4, UsersStill DEF Quiet

(* A request that goes on, but not to link its identity.                   *)
LEMMA GoesUsers ==
  ASSUME OwnUsers, NEW i \in DOMAIN requests, Goings(i), UNCHANGED <<users, identities, consents>>,
         requests'[i].at # "link"
  PROVE  OwnUsers'
<1>1. \A j \in DOMAIN requests' : Linking(j)' =>
        /\ j \in DOMAIN requests /\ requests'[j] = requests[j] /\ Linking(j)
  BY DEF Goings, Linking, At
<1>2. \A j \in DOMAIN requests' : Linking(j)' => AccountOf(j)' = AccountOf(j)
  BY <1>1 DEF AccountOf
<1> QED
  BY <1>1, <1>2, UsersStill

LEMMA ExchangeUsers ==
  ASSUME Typed, OwnUsers, NEW i \in DOMAIN requests, ExchangeAtGoogle(i)
  PROVE  OwnUsers'
<1>1. /\ Goings(i) /\ UNCHANGED <<users, identities>> /\ At(i, "callback", "google")
      /\ consents' = [consents EXCEPT ![requests[i].flow].used = TRUE]
      /\ consents \in [DOMAIN consents -> [account : Accounts, used : BOOLEAN]]
      /\ requests[i].flow \in DOMAIN consents
  BY StatementGoes, CallbackType DEF Statement, ExchangeAtGoogle, At, tables, Typed, Shape, Tables
<1>2. \A n \in DOMAIN consents : consents'[n].account = consents[n].account
  BY <1>1
<1>3. requests'[i].at # "link"
  <2>1. Step(i, "reply", 0) \/ Step(i, "identity", 0)
    BY DEF ExchangeAtGoogle, Answer
  <2> QED
    BY <2>1, StepGoes DEF Steps, Exchanged
<1>4. \A j \in DOMAIN requests' : Linking(j)' =>
        /\ j \in DOMAIN requests /\ requests'[j] = requests[j] /\ Linking(j)
        /\ requests[j].flow \in DOMAIN consents
  BY <1>1, <1>3 DEF Goings, Linking, At, Typed, RequestsFit, Fits
<1>5. \A j \in DOMAIN requests' : Linking(j)' => AccountOf(j)' = AccountOf(j)
  BY <1>2, <1>4 DEF AccountOf
<1> QED
  BY <1>1, <1>4, <1>5, UsersStill

(* A callback's account is one of Google's.                                *)
LEMMA AccountType ==
  ASSUME Typed, NEW i \in DOMAIN requests, requests[i].kind = "callback"
  PROVE  /\ AccountOf(i) \in Accounts /\ AccountOf(i) # None
         /\ IdentityOf(i)[2] = AccountOf(i)
<1>1. requests[i].flow \in DOMAIN consents
  BY DEF Typed, RequestsFit, Fits
<1> QED
  BY <1>1, OAuthAssumption DEF Typed, Shape, Tables, AccountOf, IdentityOf

LEMMA FindIdentityUsers ==
  ASSUME Typed, OwnUsers, NEW i \in DOMAIN requests, FindIdentity(i)
  PROVE  OwnUsers'
<1> DEFINE a == AccountOf(i)
           p == IdentityOf(i)
           u == identities[p]
<1>1. /\ At(i, "callback", "identity") /\ Goings(i) /\ UNCHANGED <<identities, consents>>
      /\ a \in Accounts /\ a # None /\ p[2] = a
  BY StatementGoes, AccountType DEF Statement, FindIdentity, At
<1>2. CASE UNCHANGED users /\ (Step(i, "owner", 0) \/ Throws(i))
  <2>1. requests'[i].at # "link"
    BY <1>2, StepGoes, ThrowsGoes DEF Steps, Exchanged
  <2> QED
    BY <1>1, <1>2, <2>1, GoesUsers
<1>3. CASE /\ p \in DOMAIN identities
           /\ users[u] # None \/ OwnersOf(a) = {}
           /\ users' = [users EXCEPT ![u] = IF @ = None THEN a ELSE @]
           /\ Step(i, "finish", u)
  <2>1. /\ u \in DOMAIN users /\ users \in Seq(Accounts \cup {None}) /\ u \in Nat
    BY <1>3 DEF Typed, Shape, Tables, Refer
  <2>2. requests'[i].at = "finish"
    BY <1>3, <2>1, StepGoes DEF Steps, Exchanged
  <2>3. CASE users[u] # None
    <3>1. UNCHANGED users
      BY <1>3, <2>1, <2>3
    <3> QED
      BY <1>1, <2>2, <3>1, GoesUsers
  <2>4. CASE users[u] = None
    <3>1. OwnersOf(a) = {}
      BY <1>3, <2>4
    <3>2. /\ DOMAIN users' = DOMAIN users /\ users'[u] = a
          /\ \A v \in DOMAIN users : v # u => users'[v] = users[v]
      BY <1>3, <2>1, <2>4
    <3>3. \A v \in DOMAIN users : users[v] # a
      BY <3>1 DEF OwnersOf
    <3>4. \A j \in DOMAIN requests' : Linking(j)' =>
            /\ j \in DOMAIN requests /\ requests'[j] = requests[j] /\ Linking(j)
            /\ requests[j].value \in DOMAIN users /\ AccountOf(j) # None
      BY <1>1, <2>2, AccountType DEF Goings, Linking, At, Typed, RequestsFit, Fits
    <3>5. \A j \in DOMAIN requests' : Linking(j)' =>
            users'[requests'[j].value] = AccountOf(j)'
      <4>1. \A j \in DOMAIN requests' : Linking(j)' => AccountOf(j)' = AccountOf(j)
        BY <1>1, <3>4 DEF AccountOf
      <4>2. \A j \in DOMAIN requests' : Linking(j)' =>
              users[requests[j].value] = AccountOf(j) /\ requests[j].value # u
        BY <2>4, <3>4 DEF OwnUsers
      <4> HIDE DEF u, a
      <4> QED
        BY <3>2, <3>4, <4>1, <4>2
    <3>6. \A q \in DOMAIN identities : identities[q] \in DOMAIN users
      BY DEF Typed, Refer
    <3>7. \A q \in DOMAIN identities : users'[identities[q]] \in {None, q[2]}
      <4>1. \A q \in DOMAIN identities : users[identities[q]] = None => q = p
        BY <1>3, <2>4 DEF OwnUsers
      <4>2. \A q \in DOMAIN identities : identities[q] = u => q = p
        BY <2>4, <4>1
      <4> HIDE DEF u, a, p
      <4> QED
        BY <1>1, <3>2, <3>6, <4>1, <4>2 DEF OwnUsers
    <3> HIDE DEF u, a, p
    <3>8. \A v, w \in DOMAIN users' : users'[v] = users'[w] /\ users'[v] # None => v = w
      BY <3>2, <3>3 DEF OwnUsers
    <3>9. \A q, r \in DOMAIN identities' :
            users'[identities'[q]] = None /\ users'[identities'[r]] = None => q = r
      BY <1>1, <3>2, <3>6 DEF OwnUsers
    <3> QED
      BY <1>1, <3>5, <3>7, <3>8, <3>9 DEF OwnUsers
  <2> QED
    BY <2>3, <2>4
<1> QED
  BY <1>2, <1>3 DEF FindIdentity

LEMMA FindOwnerUsers ==
  ASSUME Typed, OwnUsers, NEW i \in DOMAIN requests, FindOwner(i)
  PROVE  OwnUsers'
<1>1. /\ Goings(i) /\ UNCHANGED <<users, identities, consents>> /\ At(i, "callback", "owner")
  BY StatementGoes DEF Statement, FindOwner, tables
<1>2. ASSUME NEW u \in OwnersOf(AccountOf(i)), Step(i, "link", u)
      PROVE  OwnUsers'
  <2>1. users[u] = AccountOf(i) /\ u \in Nat
    BY DEF OwnersOf, Typed, Shape, Tables
  <2>2. requests'[i].value = u
    BY <1>2, <2>1, StepGoes DEF Steps, Exchanged
  <2>3. AccountOf(i)' = AccountOf(i)
    BY <1>1 DEF Goings, AccountOf
  <2>4. \A j \in DOMAIN requests' : Linking(j)' =>
          j \in DOMAIN requests /\ (j # i => requests'[j] = requests[j] /\ Linking(j))
    BY <1>1 DEF Goings, Linking, At
  <2>5. \A j \in DOMAIN requests' : Linking(j)' /\ j # i => AccountOf(j)' = AccountOf(j)
    BY <1>1, <2>4 DEF AccountOf
  <2>6. \A j \in DOMAIN requests' : Linking(j)' => users'[requests'[j].value] = AccountOf(j)'
    <3> SUFFICES ASSUME NEW j \in DOMAIN requests', Linking(j)'
                 PROVE  users'[requests'[j].value] = AccountOf(j)'
      OBVIOUS
    <3>1. CASE j = i
      BY <1>1, <2>1, <2>2, <2>3, <3>1
    <3>2. CASE j # i
      BY <1>1, <2>4, <2>5, <3>2 DEF OwnUsers
    <3> QED
      BY <3>1, <3>2
  <2> QED
    BY <1>1, <2>6 DEF OwnUsers
<1>3. CASE Step(i, "create", 0) \/ Step(i, "reply", 0)
  <2>1. requests'[i].at # "link"
    BY <1>3, StepGoes DEF Steps, Exchanged
  <2> QED
    BY <1>1, <2>1, GoesUsers
<1> QED
  BY <1>2, <1>3 DEF FindOwner, Answer

LEMMA LinkUsers ==
  ASSUME Typed, OwnUsers, NEW i \in DOMAIN requests, LinkIdentity(i)
  PROVE  OwnUsers'
<1> DEFINE v == requests[i].value
           p == IdentityOf(i)
<1>1. /\ Linking(i) /\ Goings(i) /\ UNCHANGED <<users, consents>>
      /\ identities' = WithIdentity(i, v) /\ Step(i, "finish", v)
      /\ p[2] = AccountOf(i) /\ AccountOf(i) # None /\ v \in Nat
  BY StatementGoes, AccountType
     DEF Statement, LinkIdentity, Linking, At, Typed, Shape, Request
<1>2. requests'[i].at = "finish"
  BY <1>1, StepGoes DEF Steps, Exchanged
<1>3. users[v] = AccountOf(i)
  BY <1>1 DEF OwnUsers
<1>4. /\ DOMAIN identities' = DOMAIN identities \cup {p}
      /\ \A q \in DOMAIN identities : identities'[q] = identities[q]
      /\ p \notin DOMAIN identities => identities'[p] = v
  BY <1>1 DEF WithIdentity
<1>5. \A j \in DOMAIN requests' : Linking(j)' =>
        /\ j \in DOMAIN requests /\ requests'[j] = requests[j] /\ Linking(j)
  BY <1>1, <1>2 DEF Goings, Linking, At
<1>6. \A j \in DOMAIN requests' : Linking(j)' => AccountOf(j)' = AccountOf(j)
  BY <1>1, <1>5 DEF AccountOf
<1> HIDE DEF v, p
<1> QED
  BY <1>1, <1>3, <1>4, <1>5, <1>6 DEF OwnUsers

LEMMA CreateUsers ==
  ASSUME Typed, OwnUsers, NEW i \in DOMAIN requests, CreateUser(i)
  PROVE  OwnUsers'
<1> DEFINE a == AccountOf(i)
           u == Len(users) + 1
           p == IdentityOf(i)
<1>1. /\ Goings(i) /\ UNCHANGED consents /\ requests[i].kind = "callback"
      /\ p[2] = a /\ a # None /\ a \in Accounts /\ users \in Seq(Accounts \cup {None}) /\ u \in Nat
  BY SMTT(20), StatementGoes, AccountType DEF Statement, CreateUser, At, Typed, Shape, Tables
<1>2. CASE UNCHANGED <<users, identities>> /\ Throws(i)
  <2>1. requests'[i].at # "link"
    BY <1>2, ThrowsGoes
  <2> QED
    BY <1>1, <1>2, <2>1, GoesUsers
<1>3. CASE /\ OwnersOf(a) = {} /\ p \notin DOMAIN identities
           /\ users' = WithUser(i) /\ identities' = WithIdentity(i, u)
           /\ Step(i, "finish", u)
  <2>1. requests'[i].at = "finish"
    BY <1>1, <1>3, StepGoes DEF Steps, Exchanged
  <2>2. /\ DOMAIN users' = DOMAIN users \cup {u} /\ u \notin DOMAIN users /\ users'[u] = a
        /\ \A v \in DOMAIN users : users'[v] = users[v] /\ users[v] # a
    BY <1>1, <1>3 DEF WithUser, OwnersOf
  <2>3. /\ DOMAIN identities' = DOMAIN identities \cup {p}
        /\ \A q \in DOMAIN identities : identities'[q] = identities[q]
        /\ identities'[p] = u
    BY <1>3 DEF WithIdentity
  <2>4. \A j \in DOMAIN requests' : Linking(j)' =>
          /\ j \in DOMAIN requests /\ requests'[j] = requests[j] /\ Linking(j)
          /\ requests[j].value \in DOMAIN users
    BY <1>1, <2>1 DEF Goings, Linking, At, Typed, RequestsFit, Fits
  <2>5. \A j \in DOMAIN requests' : Linking(j)' => AccountOf(j)' = AccountOf(j)
    BY <1>1, <2>4 DEF AccountOf
  <2>6. \A q \in DOMAIN identities : identities[q] \in DOMAIN users
    BY DEF Typed, Refer
  <2> HIDE DEF a, u, p
  <2>7. \A q \in DOMAIN identities' : users'[identities'[q]] \in {None, q[2]}
    BY <1>1, <2>2, <2>3, <2>6 DEF OwnUsers
  <2>8. \A v, w \in DOMAIN users' : users'[v] = users'[w] /\ users'[v] # None => v = w
    BY <2>2 DEF OwnUsers
  <2>9. \A q, r \in DOMAIN identities' :
          users'[identities'[q]] = None /\ users'[identities'[r]] = None => q = r
    BY <1>1, <2>2, <2>3, <2>6 DEF OwnUsers
  <2>10. \A j \in DOMAIN requests' : Linking(j)' => users'[requests'[j].value] = AccountOf(j)'
    BY <2>2, <2>4, <2>5 DEF OwnUsers
  <2> QED
    BY <2>7, <2>8, <2>9, <2>10 DEF OwnUsers
<1> QED
  BY <1>2, <1>3 DEF CreateUser

LEMMA StatementUsers ==
  ASSUME Typed, OwnUsers, NEW i \in DOMAIN requests, Statement(i)
  PROVE  OwnUsers'
<1>1. CASE \/ RegisterLookup(i) \/ RegisterInsert(i) \/ SelectState(i) \/ TakeState(i)
           \/ InsertCode(i) \/ StoreCredential(i)
           \/ ClaimCode(i) \/ ClaimToken(i) \/ IssueTokens(i)
  <2>1. UNCHANGED <<users, identities, consents>>
    BY <1>1 DEF RegisterLookup, RegisterInsert, SelectState, TakeState, InsertCode,
                StoreCredential, ClaimCode, ClaimToken, IssueTokens, tables
  <2>2. Goings(i) /\ requests[i].value \in Nat
    BY StatementGoes DEF Typed, Shape, Request
  <2>3. requests'[i].at # "link"
    <3>1. CASE \/ RegisterLookup(i) \/ RegisterInsert(i)
               \/ ClaimCode(i) \/ ClaimToken(i) \/ IssueTokens(i)
      <4>1. requests'[i].kind # "callback" /\ Typed'
        BY <2>2, <3>1, IssueEffect, RegisterLookupTyped, RegisterInsertTyped, ClaimCodeTyped,
           ClaimTokenTyped, IssueTokensTyped
           DEF RegisterLookup, RegisterInsert, ClaimCode, ClaimToken, At, Goings
      <4> QED
        BY <2>2, <4>1 DEF Typed, RequestsFit, Fits, StepsOf, Goings
    <3>2. CASE SelectState(i) \/ TakeState(i) \/ InsertCode(i) \/ StoreCredential(i)
      <4>1. \E s \in {"delete", "google", "reply"}, v \in Nat : Step(i, s, v)
        BY <2>2, <3>2 DEF SelectState, TakeState, InsertCode, StoreCredential, Answer
      <4> QED
        BY <4>1, StepGoes DEF Steps
    <3> QED
      BY <1>1, <3>1, <3>2
  <2> QED
    BY <2>1, <2>2, <2>3, GoesUsers
<1> QED
  BY <1>1, ExchangeUsers, FindIdentityUsers, FindOwnerUsers, LinkUsers, CreateUsers DEF Statement

LEMMA InitUsers == Init => OwnUsers
<1> SUFFICES ASSUME Init
             PROVE  OwnUsers
  OBVIOUS
<1>1. requests = [i \in {} |-> 0]
  BY DEF Init
<1>2. CASE users = <<>> /\ identities = [p \in {} |-> 0]
  BY <1>1, <1>2 DEF OwnUsers
<1>3. ASSUME NEW a \in Accounts,
             users = <<None>>, identities = [p \in {<<"google", a>>} |-> 1]
      PROVE  OwnUsers
  BY <1>1, <1>3 DEF OwnUsers
<1> QED
  BY <1>2, <1>3 DEF Init

LEMMA NextUsers ==
  Typed /\ ClientsFit /\ OneExchange /\ OwnUsers /\ [Next]_vars => OwnUsers'
BY NextIs, OthersUsers, StatementUsers

LEMMA UsersAreSingle == Typed /\ OwnUsers => OneUserPerAccount
<1> SUFFICES ASSUME Typed, OwnUsers, NEW a \in Accounts
             PROVE  Cardinality(OwnersOf(a) \cup {identities[p] : p \in
                      {p \in DOMAIN identities : p[2] = a /\ ~ LeftOut(p)}}) <= 1
  BY DEF OneUserPerAccount
<1> DEFINE S == OwnersOf(a) \cup {identities[p] : p \in
                  {p \in DOMAIN identities : p[2] = a /\ ~ LeftOut(p)}}
<1>1. a # None
  BY OAuthAssumption
<1>2. \A u, v \in S : u = v
  <2>1. \A u, v \in OwnersOf(a) : u = v
    BY <1>1 DEF OwnersOf, OwnUsers
  <2>2. \A p \in DOMAIN identities : p[2] = a /\ ~ LeftOut(p) /\ identities[p] \notin OwnersOf(a) =>
          users[identities[p]] = None /\ OwnersOf(a) = {}
    BY DEF OwnersOf, LeftOut, OwnUsers, Typed, Refer
  <2>3. \A p, q \in DOMAIN identities :
          users[identities[p]] = None /\ users[identities[q]] = None => p = q
    BY DEF OwnUsers
  <2> QED
    BY <2>1, <2>2, <2>3
<1>3. CASE S = {}
  BY <1>3, FS_EmptySet
<1>4. CASE S # {}
  <2>1. PICK u \in S : S = {u}
    BY <1>2, <1>4
  <2>2. Cardinality({u}) = 1
    BY FS_Singleton
  <2> QED
    BY <2>1, <2>2
<1> QED
  BY <1>3, <1>4

(* However many log in and connect at once, with whichever retries of      *)
(* resolveUserId: an account has one user (oauth.ts, db/queries.ts).       *)
THEOREM AccountsHaveOneUser == Spec => []OneUserPerAccount
<1>1. Init => Typed /\ ClientsFit /\ OneExchange /\ OwnUsers
  BY InitTyped, InitClients, InitExchange, InitUsers
<1>2. Typed /\ ClientsFit /\ OneExchange /\ OwnUsers /\ [Next]_vars =>
        (Typed /\ ClientsFit /\ OneExchange /\ OwnUsers)'
  BY NextTyped, NextClients, NextExchange, NextUsers
<1> QED
  BY <1>1, <1>2, UsersAreSingle, PTL DEF Spec

-----------------------------------------------------------------------------
(* What a login has by the time it asks for tokens belongs together.       *)

Claiming(i) == At(i, "token", "claim")

CookiesAgree ==
  cookies.state # 0 /\ cookies.verifier # 0 => cookies.state = cookies.verifier
FlowsHaveClients ==
  \A n \in DOMAIN flows : flows[n].provider = "google" => flows[n].client # 0
StartsHaveClients ==
  \A t \in Tabs : tabs[t].at = "starting" => clientId[t] # 0
LoginsLand ==
  \A t \in Tabs : tabs[t].at = "landed" => flows[tabs[t].flow].provider = "google"
ClaimsArePaired ==
  \A i \in DOMAIN requests : Claiming(i) =>
    /\ requests[i].verifier = requests[i].flow /\ requests[i].client # 0
    /\ flows[requests[i].flow].provider = "google"

Paired ==
  /\ CookiesAgree /\ FlowsHaveClients /\ StartsHaveClients /\ LoginsLand
  /\ ClaimsArePaired

(* Nothing but the cookies of the flows, the clients that are stored, and  *)
(* tabs that leave.                                                        *)
LEMMA PairedStill ==
  ASSUME Typed, Paired,
         UNCHANGED cookies \/ cookies'.state = 0 \/ cookies'.verifier = 0,
         \A n \in DOMAIN flows : n \in DOMAIN flows' /\ flows'[n] = flows[n],
         FlowsHaveClients',
         \A t \in Tabs :
           /\ tabs'[t].at = "starting" =>
                \/ tabs[t].at = "starting" /\ clientId'[t] = clientId[t]
                \/ clientId'[t] # 0
           /\ tabs'[t].at = "landed" =>
                \/ tabs'[t] = tabs[t]
                \/ flows'[tabs'[t].flow].provider = "google",
         \A i \in DOMAIN requests' : Claiming(i)' =>
           \/ /\ i \in DOMAIN requests /\ Claiming(i)
              /\ requests'[i].verifier = requests[i].verifier
              /\ requests'[i].flow = requests[i].flow
              /\ requests'[i].client = requests[i].client
           \/ /\ requests'[i].verifier = requests'[i].flow /\ requests'[i].client # 0
              /\ flows'[requests'[i].flow].provider = "google"
  PROVE  Paired'
<1>1. CookiesAgree'
  BY DEF Paired, CookiesAgree
<1>2. StartsHaveClients'
  BY DEF Paired, StartsHaveClients
<1>3. LoginsLand'
  <2>1. \A t \in Tabs : tabs[t].at = "landed" => tabs[t].flow \in DOMAIN flows
    BY DEF Typed, TabsFit, Sits, Keeps
  <2> QED
    BY <2>1 DEF Paired, LoginsLand
<1>4. ClaimsArePaired'
  <2>1. \A i \in DOMAIN requests : Claiming(i) => requests[i].flow \in DOMAIN flows
    BY DEF Claiming, At, Typed, RequestsFit, Fits, IsRequest
  <2> QED
    BY <2>1 DEF Paired, ClaimsArePaired
<1> QED
  BY <1>1, <1>2, <1>3, <1>4 DEF Paired

LEMMA StatementPaired ==
  ASSUME Typed, Paired, NEW i \in DOMAIN requests, Statement(i)
  PROVE  Paired'
<1>1. UNCHANGED <<chosen, flows, browser>>
  BY StatementAlone
<1>2. \A j \in DOMAIN requests' : Claiming(j)' =>
        /\ j \in DOMAIN requests /\ requests'[j] = requests[j]
  BY StatementGoes DEF Goings, Claiming, At
<1>3. \A j \in DOMAIN requests' : Claiming(j)' => Claiming(j)
  BY <1>2 DEF Claiming, At
<1>4. FlowsHaveClients'
  BY <1>1 DEF Paired, FlowsHaveClients
<1> QED
  BY <1>1, <1>2, <1>3, <1>4, PairedStill DEF browser

(* A tab that moves, and asks for nothing.                                 *)
LEMMA MovesPaired ==
  ASSUME Typed, Paired, NEW t \in Tabs, NEW at \in Places, NEW n \in Nat, Moves(t, at, n),
         UNCHANGED flows, \A u \in Tabs \ {t} : clientId'[u] = clientId[u],
         UNCHANGED cookies \/ cookies'.state = 0 \/ cookies'.verifier = 0,
         \A j \in DOMAIN requests' : j \in DOMAIN requests /\ requests'[j] = requests[j],
         at = "starting" => clientId'[t] # 0,
         at = "landed" => flows[n].provider = "google"
  PROVE  Paired'
<1>1. /\ tabs'[t].at = at /\ tabs'[t].flow = n
      /\ \A u \in Tabs \ {t} : tabs'[u] = tabs[u]
  BY MovesEffect
<1>2. FlowsHaveClients'
  BY DEF Paired, FlowsHaveClients
<1>3. \A u \in Tabs :
        /\ tabs'[u].at = "starting" =>
             \/ tabs[u].at = "starting" /\ clientId'[u] = clientId[u]
             \/ clientId'[u] # 0
        /\ tabs'[u].at = "landed" =>
             tabs'[u] = tabs[u] \/ flows'[tabs'[u].flow].provider = "google"
  BY <1>1
<1>4. \A j \in DOMAIN requests' : Claiming(j)' => Claiming(j)
  BY DEF Claiming, At
<1> QED
  BY <1>2, <1>3, <1>4, PairedStill

(* A tab that asks, but not for the tokens of a code.                      *)
LEMMA AskPaired ==
  ASSUME Typed, Paired, NEW t \in Tabs, NEW at \in Places, NEW r \in Request, Ask(t, at, r),
         at \notin {"starting", "landed"}, UNCHANGED <<flows, clientId>>,
         UNCHANGED cookies \/ cookies'.state = 0 \/ cookies'.verifier = 0,
         r.kind = "token" => /\ r.verifier = r.flow /\ r.client # 0
                             /\ flows[r.flow].provider = "google"
  PROVE  Paired'
<1>1. PICK id : id = NewId
  OBVIOUS
<1>2. /\ DOMAIN requests' = DOMAIN requests \cup {id} /\ requests'[id] = r
      /\ \A i \in DOMAIN requests : requests'[i] = requests[i]
      /\ tabs'[t].at = at /\ \A u \in Tabs \ {t} : tabs'[u] = tabs[u]
  BY <1>1, AskEffect
<1>3. FlowsHaveClients'
  BY DEF Paired, FlowsHaveClients
<1>4. \A j \in DOMAIN requests' : Claiming(j)' =>
        \/ /\ j \in DOMAIN requests /\ Claiming(j) /\ requests'[j] = requests[j]
        \/ /\ requests'[j].verifier = requests'[j].flow /\ requests'[j].client # 0
           /\ flows'[requests'[j].flow].provider = "google"
  BY <1>2 DEF Claiming, At
<1>5. \A u \in Tabs :
        /\ tabs'[u].at = "starting" => tabs[u].at = "starting"
        /\ tabs'[u].at = "landed" => tabs'[u] = tabs[u]
  BY <1>2
<1> QED
  BY <1>3, <1>4, <1>5, PairedStill

LEMMA VisitPaired ==
  ASSUME Typed, Paired, NEW t \in Tabs, NEW f \in Flow, Visit(t, f),
         UNCHANGED <<requests, clientId>>, CookiesAgree',
         f.provider = "google" => f.client # 0
  PROVE  Paired'
<1>1. PICK n : n = Len(flows) + 1
  OBVIOUS
<1>2. /\ DOMAIN flows' = DOMAIN flows \cup {n} /\ n \notin DOMAIN flows
      /\ flows'[n] = f /\ \A m \in DOMAIN flows : flows'[m] = flows[m]
      /\ tabs'[t].at = "google" /\ \A u \in Tabs \ {t} : tabs'[u] = tabs[u]
  BY <1>1, VisitEffect
<1>3. FlowsHaveClients'
  BY <1>2 DEF Paired, FlowsHaveClients
<1>4. StartsHaveClients'
  BY <1>2 DEF Paired, StartsHaveClients
<1>5. LoginsLand'
  <2>1. \A u \in Tabs : tabs[u].at = "landed" => tabs[u].flow \in DOMAIN flows
    BY DEF Typed, TabsFit, Sits, Keeps
  <2> QED
    BY <1>2, <2>1 DEF Paired, LoginsLand
<1>6. ClaimsArePaired'
  <2>1. \A i \in DOMAIN requests : Claiming(i) => requests[i].flow \in DOMAIN flows
    BY DEF Claiming, At, Typed, RequestsFit, Fits, IsRequest
  <2> QED
    BY <1>2, <2>1 DEF Paired, ClaimsArePaired, Claiming, At
<1> QED
  BY <1>3, <1>4, <1>5, <1>6 DEF Paired

LEMMA TabsPaired ==
  ASSUME Typed, ClientsFit, Paired, NEW t \in Tabs,
         \/ Open(t) \/ StartLogin(t) \/ Authorize(t) \/ Connect(t)
         \/ Land(t) \/ Mount(t) \/ UseToken(t) \/ Close(t) \/ Repeat(t)
  PROVE  Paired'
<1>1. ASSUME NEW at \in Places \ {"landed"}, Moves(t, at, 0), UNCHANGED <<flows, requests>>,
             \A u \in Tabs \ {t} : clientId'[u] = clientId[u],
             UNCHANGED cookies \/ cookies'.state = 0 \/ cookies'.verifier = 0,
             at = "starting" => clientId'[t] # 0
      PROVE  Paired'
  BY <1>1, MovesPaired
<1>2. ASSUME NEW at \in Places \ {"starting", "landed"}, NEW r \in Request, Ask(t, at, r),
             UNCHANGED <<flows, clientId, cookies>>, r.kind # "token"
      PROVE  Paired'
  BY <1>2, AskPaired
<1>3. {"signedOut", "mounting", "closed", "starting", "registering", "exchanging",
       "returning", "app"} \subseteq Places \ {"landed"}
  BY DEF Places, Busy
<1>4. CASE Open(t) \/ Close(t)
  BY <1>1, <1>3, <1>4 DEF Open, Close, Goes
<1>5. CASE StartLogin(t)
  <2>1. NewRequest("register", "lookup") \in Request /\ NewRequest("register", "lookup").kind = "register"
    BY NewRequestType DEF Kinds, Steps
  <2>2. UNCHANGED <<flows, cookies>>
    BY <1>5 DEF StartLogin
  <2>3. CASE Store(t).client # 0
    <3>1. /\ Moves(t, "starting", 0) /\ UNCHANGED requests
          /\ clientId' = [clientId EXCEPT ![t] = Store(t).client]
      BY <1>5, <2>3 DEF StartLogin, Goes
    <3>2. clientId'[t] # 0 /\ \A u \in Tabs \ {t} : clientId'[u] = clientId[u]
      BY <2>3, <3>1 DEF ClientsFit
    <3> QED
      BY <1>1, <1>3, <2>2, <3>1, <3>2
  <2>4. CASE Store(t).client = 0
    BY <1>2, <1>3, <1>5, <2>1, <2>2, <2>4 DEF StartLogin
  <2> QED
    BY <2>3, <2>4
<1>6. CASE Authorize(t)
  <2>1. clientId[t] # 0 /\ UNCHANGED <<requests, clientId>>
    BY <1>6 DEF Authorize, Paired, StartsHaveClients
  <2>2. CookiesAgree'
    <3>1. PICK n : n = Len(flows) + 1
      OBVIOUS
    <3>2. cookies' = [state |-> n, verifier |-> n]
      BY <1>6, <3>1, AuthorizeIs
    <3>3. cookies'.state = n /\ cookies'.verifier = n
      BY <3>2
    <3> QED
      BY <3>3 DEF CookiesAgree
  <2> QED
    BY <1>6, <2>1, <2>2, AuthorizeIs, VisitPaired
<1>7. CASE Connect(t)
  <2>1. UNCHANGED <<requests, clientId, cookies>>
    BY <1>7 DEF Connect
  <2>2. CookiesAgree'
    BY <2>1 DEF Paired, CookiesAgree
  <2>3. PICK f \in Flow : Visit(t, f) /\ f.provider = "google-sheets"
    BY <1>7, ConnectIs
  <2> QED
    BY <2>1, <2>2, <2>3, VisitPaired
<1>8. CASE Land(t)
  <2>1. /\ UNCHANGED <<flows, clientId>> /\ tabs[t].at = "landed" /\ cookies'.state = 0
        /\ tabs[t].flow # 0 /\ flows[tabs[t].flow].provider = "google"
    BY <1>8, LandIs DEF Land, Paired, LoginsLand, Typed, TabsFit, Sits
  <2>2. CASE Moves(t, "signedOut", 0) /\ UNCHANGED requests
    BY <1>1, <1>3, <2>1, <2>2
  <2>3. CASE /\ Ask(t, "exchanging", ExchangeOf(t))
             /\ cookies.state = tabs[t].flow /\ cookies.verifier # 0
             /\ Store(t).client # 0
    <3>1. cookies.verifier = tabs[t].flow
      BY <2>1, <2>3 DEF Paired, CookiesAgree
    <3> QED
      BY <1>3, <2>1, <2>3, <3>1, ExchangeOfIs, AskPaired
  <2> QED
    BY <1>8, <2>2, <2>3, LandIs
<1>9. CASE Mount(t) \/ UseToken(t)
  <2>1. UNCHANGED <<flows, clientId>>
    BY <1>9 DEF Mount, UseToken
  <2>2. CASE Moves(t, "app", 0) /\ UNCHANGED <<requests, store, cookies>>
    BY <1>1, <1>3, <2>1, <2>2
  <2>3. CASE UNCHANGED <<store, cookies>> /\ (AskRefresh(t, "mounting") \/ AskRefresh(t, "app"))
    <3>1. RefreshOf(t) \in Request /\ RefreshOf(t).kind = "refresh"
      BY RefreshOfIs
    <3>2. Ask(t, "mounting", RefreshOf(t)) \/ Ask(t, "app", RefreshOf(t))
      BY <2>3, AskRefreshIs
    <3> QED
      BY <1>2, <1>3, <2>1, <2>3, <3>1, <3>2
  <2>4. CASE ClearTokens(t) /\ Moves(t, "signedOut", 0) /\ UNCHANGED requests
    <3>1. cookies'.state = 0
      BY <2>4, ClearEffect
    <3> QED
      BY <1>3, <2>1, <2>4, <3>1, MovesPaired
  <2> QED
    BY <1>9, <2>2, <2>3, <2>4 DEF Mount, UseToken, Goes
<1>10. CASE Repeat(t)
  <2>1. /\ tabs[t].flow \in DOMAIN flows /\ Ask(t, "returning", CallbackOf(tabs[t].flow))
        /\ UNCHANGED <<flows, clientId, cookies>>
    BY <1>10 DEF Repeat, Typed, TabsFit, Sits, Refer
  <2> QED
    BY <1>2, <1>3, <2>1, CallbackOfIs
<1> QED
  BY <1>4, <1>5, <1>6, <1>7, <1>8, <1>9, <1>10

LEMMA ReceivePaired ==
  ASSUME Typed, ClientsFit, Paired, NEW i \in DOMAIN requests, Receive(i)
  PROVE  Paired'
<1>1. /\ Forget(i) /\ requests[i].at = "reply" /\ UNCHANGED <<chosen, flows>>
  BY DEF Receive
<1>2. \A j \in DOMAIN requests' : j \in DOMAIN requests /\ requests'[j] = requests[j]
  BY <1>1, ForgetEffect
<1>3. CASE UNCHANGED browser
  <2>1. FlowsHaveClients'
    BY <1>1 DEF Paired, FlowsHaveClients
  <2>2. \A j \in DOMAIN requests' : Claiming(j)' => Claiming(j)
    BY <1>2 DEF Claiming, At
  <2> QED
    BY <1>1, <1>2, <1>3, <2>1, <2>2, PairedStill DEF browser
<1>4. ASSUME NEW t \in Tabs, NEW at \in Places, NEW n \in Nat, Moves(t, at, n),
             UNCHANGED cookies \/ cookies'.state = 0 \/ cookies'.verifier = 0,
             \A u \in Tabs \ {t} : clientId'[u] = clientId[u],
             at = "starting" => clientId'[t] # 0,
             at = "landed" => flows[n].provider = "google"
      PROVE  Paired'
  BY <1>1, <1>2, <1>4, MovesPaired
<1>5. ASSUME NEW t \in Tabs, Answered(t, i)
      PROVE  Paired'
  <2>0. /\ requests[i].value \in Nat /\ Store(t) \in Stored /\ contextOf[t] \in Contexts
        /\ store \in [Contexts -> Stored] /\ requests[i] \in Request /\ Fits(requests[i])
        /\ cookies \in [state : Nat, verifier : Nat]
    BY StoreType DEF Typed, Shape, Request, RequestsFit
  <2>1. CASE ReceiveClient(t, i)
    <3>1. requests[i].value # 0
      BY <1>1, <2>0, <2>1 DEF ReceiveClient, Fits
    <3>2. clientId'[t] # 0 /\ \A u \in Tabs \ {t} : clientId'[u] = clientId[u]
      BY <2>1, <3>1 DEF ReceiveClient, ClientsFit
    <3> QED
      BY <1>4, <2>1, <3>2 DEF ReceiveClient, Goes, Places, Busy
  <2>2. CASE ReceiveRedirect(t, i)
    <3>1. requests[i].flow \in Nat
      BY <2>0 DEF Request
    <3> QED
      BY <1>4, <2>2, <3>1 DEF ReceiveRedirect, Goes, Places, Busy
  <2>3. CASE ReceiveTokens(t, i)
    <3>1. UNCHANGED clientId
      BY <2>3 DEF ReceiveTokens
    <3>2. UNCHANGED cookies \/ cookies'.verifier = 0
      BY <2>0, <2>3 DEF ReceiveTokens
    <3>3. Moves(t, "mounting", 0) \/ Moves(t, "signedOut", 0)
      BY <2>3 DEF ReceiveTokens, Goes
    <3> QED
      BY <1>4, <3>1, <3>2, <3>3 DEF Places, Busy
  <2>4. CASE ReceiveRefreshed(t, i)
    <3>1. UNCHANGED clientId
      BY <2>4 DEF ReceiveRefreshed
    <3>2. UNCHANGED cookies \/ cookies'.state = 0
      BY <2>4 DEF ReceiveRefreshed, ClearTokens, NoCookies
    <3>3. Moves(t, "app", 0) \/ Moves(t, "signedOut", 0)
      BY <2>4 DEF ReceiveRefreshed, Goes
    <3> QED
      BY <1>4, <3>1, <3>2, <3>3 DEF Places
  <2> QED
    BY <1>5, <2>1, <2>2, <2>3, <2>4 DEF Answered
<1> QED
  BY <1>3, <1>5 DEF Receive, Answered, Waiting

LEMMA OthersPaired ==
  ASSUME Typed, ClientsFit, Paired, Others
  PROVE  Paired'
<1>1. ASSUME NEW t \in Tabs, NEW a \in Accounts, Consent(t, a)
      PROVE  Paired'
  <2>1. /\ tabs[t].flow \in DOMAIN flows /\ Ask(t, "returning", CallbackOf(tabs[t].flow))
        /\ UNCHANGED <<flows, clientId, cookies>>
    BY <1>1, ConsentQuiet DEF Consent
  <2>2. /\ CallbackOf(tabs[t].flow) \in Request /\ CallbackOf(tabs[t].flow).kind = "callback"
        /\ "returning" \in Places
    BY <2>1, CallbackOfIs DEF Places, Busy
  <2> QED
    BY <2>1, <2>2, AskPaired
<1>2. ASSUME UNCHANGED <<flows, clientId, cookies>>,
             \A j \in DOMAIN requests' : j \in DOMAIN requests /\ requests'[j] = requests[j],
             \A t \in Tabs : tabs'[t] = tabs[t] \/ tabs'[t].at \notin {"starting", "landed"}
      PROVE  Paired'
  <2>1. FlowsHaveClients'
    BY <1>2 DEF Paired, FlowsHaveClients
  <2>2. \A j \in DOMAIN requests' : Claiming(j)' => Claiming(j)
    BY <1>2 DEF Claiming, At
  <2> QED
    BY <1>2, <2>1, <2>2, PairedStill
<1>3. ASSUME NEW t \in Tabs, NEW other \in Tabs, Hop(t, other)
      PROVE  Paired'
  <2>1. UNCHANGED <<flows, clientId, cookies, requests>>
    BY <1>3 DEF Hop
  <2>2. \A u \in Tabs : tabs'[u] = tabs[u] \/ tabs'[u].at \notin {"starting", "landed"}
    BY <1>3, HopEffect
  <2> QED
    BY <1>2, <2>1, <2>2
<1>4. ASSUME NEW i \in DOMAIN requests, Lose(i)
      PROVE  Paired'
  <2>1. UNCHANGED <<flows, clientId, cookies>> /\ Forget(i)
    BY <1>4 DEF Lose
  <2>2. \A u \in Tabs : tabs'[u] = tabs[u] \/ tabs'[u].at \notin {"starting", "landed"}
    BY <1>4, LoseEffect
  <2> QED
    BY <1>2, <2>1, <2>2, ForgetEffect
<1>5. CASE (\E c \in Contexts : AgeAccess(c)) \/ Expire \/ UNCHANGED vars
  <2>1. UNCHANGED <<flows, clientId, cookies, requests, tabs>>
    BY <1>5 DEF AgeAccess, Expire, vars, browser
  <2> QED
    BY <1>2, <2>1
<1> QED
  BY <1>1, <1>3, <1>4, <1>5, TabsPaired, ReceivePaired DEF Others

LEMMA InitPaired == Init => Paired
<1> SUFFICES ASSUME Init
             PROVE  Paired
  OBVIOUS
<1>1. /\ requests = [i \in {} |-> 0] /\ flows = <<>> /\ cookies = NoCookies
      /\ tabs = [t \in Tabs |-> [at |-> "closed", flow |-> 0, wait |-> 0]]
  BY DEF Init
<1>2. CookiesAgree
  BY <1>1 DEF CookiesAgree, NoCookies
<1>3. FlowsHaveClients /\ ClaimsArePaired
  BY <1>1 DEF FlowsHaveClients, ClaimsArePaired
<1>4. StartsHaveClients /\ LoginsLand
  BY <1>1 DEF StartsHaveClients, LoginsLand
<1> QED
  BY <1>2, <1>3, <1>4 DEF Paired

LEMMA NextPaired ==
  Typed /\ ClientsFit /\ Paired /\ [Next]_vars => Paired'
BY NextIs, OthersPaired, StatementPaired

LEMMA PairedIsNotWasted == Typed /\ Paired => CodesAreNotWasted
<1> SUFFICES ASSUME Typed, Paired, NEW i \in DOMAIN requests, Claiming(i)
             PROVE  /\ requests[i].verifier = requests[i].flow
                    /\ clients <= 1 => requests[i].client = flows[requests[i].flow].client
  BY DEF CodesAreNotWasted, Claiming
<1> DEFINE n == requests[i].flow
<1>1. /\ requests[i].verifier = n /\ requests[i].client # 0
      /\ flows[n].provider = "google"
  BY DEF Paired, ClaimsArePaired
<1>2. n \in DOMAIN flows /\ requests[i].client \in 0 .. clients
  BY DEF Claiming, At, Typed, RequestsFit, Fits, IsRequest
<1>3. flows[n].client # 0
  BY <1>1, <1>2 DEF Paired, FlowsHaveClients
<1>4. flows[n] \in Flow /\ flows[n].client <= clients /\ clients \in Nat
  <2>1. flows \in Seq(Flow)
    BY DEF Typed, Shape
  <2> QED
    BY <1>2, <2>1, ElementOfSeq DEF Typed, Shape, Tables, Refer
<1>5. flows[n].client \in Nat
  BY <1>4 DEF Flow
<1> QED
  BY <1>1, <1>2, <1>3, <1>4, <1>5

(* A code is presented with the verifier of its own flow and, while one    *)
(* client is registered, by the client that it was made for, however many  *)
(* tabs share the cookies (handleCallback of auth.ts, claimOAuthCode).     *)
THEOREM CodesMeetTheirVerifier == Spec => []CodesAreNotWasted
<1>1. Init => Typed /\ ClientsFit /\ Paired
  BY InitTyped, InitClients, InitPaired
<1>2. Typed /\ ClientsFit /\ Paired /\ [Next]_vars =>
        (Typed /\ ClientsFit /\ Paired)'
  BY NextTyped, NextClients, NextPaired
<1> QED
  BY <1>1, <1>2, PairedIsNotWasted, PTL DEF Spec

-----------------------------------------------------------------------------
(* The descent of what is stored: unless an answer was lost, a stored      *)
(* refresh token is live, or the tab that will store its successor waits   *)
(* for it.                                                                 *)

Refreshing(i) == requests[i].kind = "refresh"
Awaited(i, c) == \E t \in Tabs : tabs[t].wait = i /\ contextOf[t] = c
Succeeding(i) == Refreshing(i) /\ requests[i].at \in {"issue", "reply"}
Delivers(i, v) ==
  requests[i].kind \in {"token", "refresh"} /\ requests[i].at = "reply" /\ requests[i].value = v

RefreshesAwaited ==
  \A i \in DOMAIN requests : Refreshing(i) => \E t \in Tabs : tabs[t].wait = i
StoredSucceeded ==
  \A c \in Contexts : store[c].refresh # 0 =>
    \/ tokens[store[c].refresh].live
    \/ \E i \in DOMAIN requests :
         Succeeding(i) /\ requests[i].token = store[c].refresh /\ Awaited(i, c)
PresentedAtHome ==
  \A i \in DOMAIN requests, c, d \in Contexts :
    Refreshing(i) /\ Awaited(i, c) /\ store[d].refresh # 0
      /\ store[d].refresh = requests[i].token => c = d
StoredApart ==
  \A c, d \in Contexts : store[c].refresh # 0 /\ store[c].refresh = store[d].refresh => c = d
DeliveredFresh ==
  \A i \in DOMAIN requests, v \in DOMAIN tokens : Delivers(i, v) =>
    /\ tokens[v].live
    /\ \A c \in Contexts : store[c].refresh # v
    /\ \A j \in DOMAIN requests : (Refreshing(j) => requests[j].token # v)
                                  /\ (Delivers(j, v) => i = j)

Succession ==
  /\ RefreshesAwaited /\ StoredSucceeded /\ PresentedAtHome /\ StoredApart
  /\ DeliveredFresh

Lineage == ~ interrupted => Succession

LEMMA NoTokenZero ==
  ASSUME Typed
  PROVE  0 \notin DOMAIN tokens /\ 0 \notin DOMAIN requests
BY OAuthAssumption DEF Typed, Shape, Tables, Ids

(* Refreshes and stored tokens are left alone, or a token is dropped.      *)
LEMMA SuccessionStill ==
  ASSUME Typed, Succession, UNCHANGED <<tokens, contextOf>>,
         \A c \in Contexts : store'[c].refresh \in {0, store[c].refresh},
         \A j \in DOMAIN requests : Refreshing(j) =>
           j \in DOMAIN requests' /\ requests'[j] = requests[j],
         \A j \in DOMAIN requests' :
           \/ j \in DOMAIN requests /\ requests'[j] = requests[j]
           \/ /\ requests'[j].kind # "refresh"
              /\ requests'[j].at = "reply" => \/ requests'[j].kind # "token"
                                              \/ requests'[j].value = 0,
         \A t \in Tabs, j \in DOMAIN requests : Refreshing(j) =>
           (tabs'[t].wait = j <=> tabs[t].wait = j)
  PROVE  Succession'
<1>1. \A j \in DOMAIN requests' : Refreshing(j)' =>
        /\ j \in DOMAIN requests /\ Refreshing(j) /\ requests'[j] = requests[j]
  BY DEF Refreshing
<1>2. \A j \in DOMAIN requests, c \in Contexts : Refreshing(j) => (Awaited(j, c)' <=> Awaited(j, c))
  BY DEF Awaited
<1>3. \A j \in DOMAIN requests', v \in DOMAIN tokens : Delivers(j, v)' =>
        j \in DOMAIN requests /\ Delivers(j, v) /\ requests'[j] = requests[j]
  BY NoTokenZero DEF Delivers
<1>4. RefreshesAwaited'
  BY <1>1 DEF Succession, RefreshesAwaited
<1>5. StoredSucceeded'
  <2>1. ASSUME NEW c \in Contexts, store'[c].refresh # 0, ~ tokens[store[c].refresh].live
        PROVE  \E i \in DOMAIN requests' :
                 Succeeding(i)' /\ requests'[i].token = store[c].refresh /\ Awaited(i, c)'
    <3>1. PICK i \in DOMAIN requests :
            Succeeding(i) /\ requests[i].token = store[c].refresh /\ Awaited(i, c)
      BY <2>1 DEF Succession, StoredSucceeded
    <3>2. Refreshing(i) /\ i \in DOMAIN requests' /\ requests'[i] = requests[i] /\ Awaited(i, c)'
      BY <1>2, <3>1 DEF Succeeding
    <3> QED
      BY <3>1, <3>2 DEF Succeeding, Refreshing
  <2> QED
    BY <2>1 DEF StoredSucceeded
<1>6. PresentedAtHome'
  BY <1>1, <1>2 DEF Succession, PresentedAtHome
<1>7. StoredApart'
  BY DEF Succession, StoredApart
<1>8. DeliveredFresh'
  BY <1>1, <1>3, NoTokenZero DEF Succession, DeliveredFresh
<1> QED
  BY <1>4, <1>5, <1>6, <1>7, <1>8 DEF Succession

(* Only the signed-in app waits for a refresh.                             *)
LEMMA WaitsForNoRefresh ==
  ASSUME Typed, NEW t \in Tabs, tabs[t].at \notin {"mounting", "app"} \/ tabs[t].wait = 0
  PROVE  \A j \in DOMAIN requests : Refreshing(j) => tabs[t].wait # j
<1>1. ASSUME NEW j \in DOMAIN requests, Refreshing(j), tabs[t].wait = j
      PROVE  tabs[t].at \in {"mounting", "app"} /\ tabs[t].wait # 0
  BY <1>1, WaitingPlace, NoTokenZero DEF Refreshing, PlacesOf
<1> QED
  BY <1>1

LEMMA MovesSuccession ==
  ASSUME Typed, Succession, NEW t \in Tabs, NEW at \in Places, NEW n \in Nat, Moves(t, at, n),
         UNCHANGED <<tokens, contextOf>>,
         \A c \in Contexts : store'[c].refresh \in {0, store[c].refresh},
         \A j \in DOMAIN requests : Refreshing(j) => j \in DOMAIN requests' /\ tabs[t].wait # j,
         \A j \in DOMAIN requests' : j \in DOMAIN requests /\ requests'[j] = requests[j]
  PROVE  Succession'
<1>1. tabs'[t].wait = 0 /\ \A u \in Tabs \ {t} : tabs'[u] = tabs[u]
  BY MovesEffect
<1>2. \A u \in Tabs, j \in DOMAIN requests : Refreshing(j) =>
        (tabs'[u].wait = j <=> tabs[u].wait = j)
  BY <1>1, NoTokenZero
<1> QED
  BY <1>2, SuccessionStill

LEMMA AskSuccession ==
  ASSUME Typed, Succession, NEW t \in Tabs, NEW at \in Places, NEW r \in Request, Ask(t, at, r),
         UNCHANGED <<tokens, contextOf, store>>, r.kind # "refresh", r.at # "reply",
         \A j \in DOMAIN requests : Refreshing(j) => tabs[t].wait # j
  PROVE  Succession'
<1>1. PICK id : id = NewId
  OBVIOUS
<1>2. /\ id \notin DOMAIN requests
      /\ DOMAIN requests' = DOMAIN requests \cup {id} /\ requests'[id] = r
      /\ \A i \in DOMAIN requests : requests'[i] = requests[i]
      /\ tabs'[t].wait = id /\ \A u \in Tabs \ {t} : tabs'[u] = tabs[u]
  BY ZenonT(30), <1>1, AskEffect
<1>3. \A u \in Tabs, j \in DOMAIN requests : Refreshing(j) =>
        (tabs'[u].wait = j <=> tabs[u].wait = j)
  BY <1>2
<1> QED
  BY <1>2, <1>3, SuccessionStill

(* A refresh is sent for the token that is stored.                         *)
LEMMA AskRefreshSuccession ==
  ASSUME Typed, Succession, NEW t \in Tabs, NEW at \in {"mounting", "app"},
         AskRefresh(t, at), tabs[t].wait = 0, UNCHANGED <<tokens, contextOf, store>>
  PROVE  Succession'
<1>1. PICK id, r : id = NewId /\ r = RefreshOf(t)
  OBVIOUS
<1>2. r \in Request /\ r.kind = "refresh" /\ r.at = "claim" /\ r.token = Store(t).refresh
  BY <1>1, RefreshOfIs
<1>3. Ask(t, at, r) /\ at \in Places
  BY <1>1, AskRefreshIs
<1>4. /\ id \notin DOMAIN requests /\ id # 0
      /\ DOMAIN requests' = DOMAIN requests \cup {id} /\ requests'[id] = r
      /\ \A i \in DOMAIN requests : requests'[i] = requests[i]
      /\ tabs'[t].wait = id /\ \A u \in Tabs \ {t} : tabs'[u] = tabs[u]
  BY <1>1, <1>2, <1>3, AskEffect
<1>5. \A u \in Tabs, j \in DOMAIN requests : tabs'[u].wait = j <=> tabs[u].wait = j
  BY <1>4, NoTokenZero
<1>6. \A u \in Tabs : tabs'[u].wait = id => u = t
  <2>1. \A u \in Tabs : tabs[u].wait # 0 => tabs[u].wait \in DOMAIN requests
    BY DEF Typed, TabsFit, Sits
  <2> QED
    BY <1>4, <2>1
<1>7. /\ \A j \in DOMAIN requests, c \in Contexts : Awaited(j, c)' <=> Awaited(j, c)
      /\ \A c \in Contexts : Awaited(id, c)' => c = contextOf[t]
  BY <1>5, <1>6 DEF Awaited
<1>8. \A j \in DOMAIN requests', v \in DOMAIN tokens : Delivers(j, v)' =>
        j \in DOMAIN requests /\ Delivers(j, v)
  BY <1>2, <1>4 DEF Delivers
<1>9. \A j \in DOMAIN requests : /\ Refreshing(j)' <=> Refreshing(j)
                                 /\ Succeeding(j)' <=> Succeeding(j)
                                 /\ j \in DOMAIN requests'
  BY <1>4 DEF Refreshing, Succeeding
<1>10. RefreshesAwaited'
  BY <1>4, <1>5, <1>9 DEF Succession, RefreshesAwaited
<1>11. StoredSucceeded'
  BY <1>4, <1>7, <1>9 DEF Succession, StoredSucceeded
<1>12. r.token = store[contextOf[t]].refresh /\ contextOf[t] \in Contexts
  BY <1>2, StoreType DEF Store
<1>13. PresentedAtHome'
  <2> SUFFICES ASSUME NEW i \in DOMAIN requests', NEW c \in Contexts, NEW d \in Contexts,
                      Refreshing(i)', Awaited(i, c)', store[d].refresh # 0,
                      store[d].refresh = requests'[i].token
               PROVE  c = d
    BY DEF PresentedAtHome
  <2>1. CASE i = id
    BY <1>4, <1>7, <1>12, <2>1 DEF Succession, StoredApart
  <2>2. CASE i \in DOMAIN requests
    BY <1>4, <1>7, <1>9, <2>2 DEF Succession, PresentedAtHome
  <2> QED
    BY <1>4, <2>1, <2>2
<1>14. StoredApart'
  BY DEF Succession, StoredApart
<1>15. DeliveredFresh'
  BY <1>4, <1>8, <1>9, <1>12 DEF Succession, DeliveredFresh
<1> QED
  BY <1>10, <1>11, <1>13, <1>14, <1>15 DEF Succession

LEMMA TabsSuccession ==
  ASSUME Typed, ClientsFit, Succession, NEW t \in Tabs, ~ interrupted',
         \/ Open(t) \/ StartLogin(t) \/ Authorize(t) \/ Connect(t)
         \/ Land(t) \/ Mount(t) \/ UseToken(t) \/ Close(t) \/ Repeat(t)
  PROVE  Succession'
<1>0. UNCHANGED <<tokens, contextOf>>
  BY DEF Open, StartLogin, Authorize, Connect, Land, Mount, UseToken, Close, Repeat,
         tables, chosen
<1>1. ASSUME NEW at \in Places, NEW n \in Nat, Moves(t, at, n), UNCHANGED <<requests, store>>,
             \A j \in DOMAIN requests : Refreshing(j) => tabs[t].wait # j
      PROVE  Succession'
  BY <1>0, <1>1, MovesSuccession
<1>2. ASSUME NEW at \in Places, NEW r \in Request, Ask(t, at, r), UNCHANGED store,
             r.kind # "refresh", r.at # "reply",
             \A j \in DOMAIN requests : Refreshing(j) => tabs[t].wait # j
      PROVE  Succession'
  BY <1>0, <1>2, AskSuccession
<1>3. {"signedOut", "mounting", "closed", "starting", "registering", "exchanging",
       "returning", "app", "google"} \subseteq Places
  BY DEF Places, Busy
<1>4. CASE Open(t)
  <2>1. \A j \in DOMAIN requests : Refreshing(j) => tabs[t].wait # j
    BY <1>4, WaitsForNoRefresh DEF Open
  <2> QED
    BY <1>1, <1>3, <1>4, <2>1 DEF Open, Goes
<1>5. CASE Close(t)
  <2>1. \A j \in DOMAIN requests : Refreshing(j) => tabs[t].wait # j
    BY <1>5 DEF Close, Refreshing
  <2> QED
    BY <1>1, <1>3, <1>5, <2>1 DEF Close, Goes
<1>6. CASE StartLogin(t)
  <2>1. /\ NewRequest("register", "lookup") \in Request
        /\ NewRequest("register", "lookup").kind = "register"
        /\ NewRequest("register", "lookup").at = "lookup"
    BY NewRequestType DEF Kinds, Steps
  <2>2. \A j \in DOMAIN requests : Refreshing(j) => tabs[t].wait # j
    BY <1>6, WaitsForNoRefresh DEF StartLogin
  <2>3. UNCHANGED store
    BY <1>6 DEF StartLogin
  <2> QED
    BY <1>1, <1>2, <1>3, <1>6, <2>1, <2>2, <2>3 DEF StartLogin, Goes
<1>7. CASE Authorize(t) \/ Connect(t)
  <2>1. \A j \in DOMAIN requests : Refreshing(j) => tabs[t].wait # j
    BY <1>7, WaitsForNoRefresh DEF Authorize, Connect
  <2>2. UNCHANGED <<requests, store>>
    BY <1>7 DEF Authorize, Connect
  <2>3. PICK f \in Flow : Visit(t, f)
    BY <1>7, AuthorizeIs, ConnectIs
  <2>4. tabs'[t].wait = 0 /\ \A u \in Tabs \ {t} : tabs'[u] = tabs[u]
    BY <2>3, VisitEffect
  <2>5. \A u \in Tabs, j \in DOMAIN requests : Refreshing(j) =>
          (tabs'[u].wait = j <=> tabs[u].wait = j)
    BY <2>1, <2>4, NoTokenZero
  <2> QED
    BY <1>0, <2>2, <2>5, SuccessionStill
<1>8. CASE Land(t)
  <2>1. UNCHANGED store /\ \A j \in DOMAIN requests : Refreshing(j) => tabs[t].wait # j
    BY <1>8, WaitsForNoRefresh DEF Land
  <2> QED
    BY <1>1, <1>2, <1>3, <1>8, <2>1, LandIs, ExchangeOfIs
<1>9. CASE Mount(t) \/ UseToken(t)
  <2>1. tabs[t].wait = 0 /\ \A j \in DOMAIN requests : Refreshing(j) => tabs[t].wait # j
    BY <1>9, NoTokenZero DEF Mount, UseToken
  <2>2. CASE Moves(t, "app", 0) /\ UNCHANGED <<requests, store>>
    BY <1>1, <1>3, <2>1, <2>2
  <2>3. CASE UNCHANGED store /\ (AskRefresh(t, "mounting") \/ AskRefresh(t, "app"))
    BY <1>0, <2>1, <2>3, AskRefreshSuccession
  <2>4. CASE ClearTokens(t) /\ Moves(t, "signedOut", 0) /\ UNCHANGED requests
    <3>1. \A c \in Contexts : store'[c].refresh \in {0, store[c].refresh}
      BY <2>4, ClearEffect
    <3> QED
      BY <1>0, <1>3, <2>1, <2>4, <3>1, MovesSuccession
  <2> QED
    BY <1>9, <2>2, <2>3, <2>4 DEF Mount, UseToken, Goes
<1>10. CASE Repeat(t)
  <2>1. /\ tabs[t].flow \in DOMAIN flows /\ Ask(t, "returning", CallbackOf(tabs[t].flow))
        /\ UNCHANGED store
    BY <1>10 DEF Repeat, Typed, TabsFit, Sits, Refer
  <2>2. \A j \in DOMAIN requests : Refreshing(j) => tabs[t].wait # j
    BY <1>10, WaitsForNoRefresh DEF Repeat
  <2> QED
    BY <1>2, <1>3, <2>1, <2>2, CallbackOfIs
<1> QED
  BY <1>4, <1>5, <1>6, <1>7, <1>8, <1>9, <1>10

(* A token that is delivered takes the place of the one that was stored.   *)
LEMMA DeliverSuccession ==
  ASSUME Typed, Succession, NEW i \in DOMAIN requests, Forget(i), UNCHANGED <<tokens, contextOf>>,
         NEW t \in Tabs, tabs[t].wait = i, NEW at \in Places, Moves(t, at, 0),
         NEW v \in DOMAIN tokens, Delivers(i, v),
         store' = [store EXCEPT ![contextOf[t]] = StoreTokens(t, v)]
  PROVE  Succession'
<1> DEFINE c == contextOf[t]
<1>1. /\ DOMAIN requests' = DOMAIN requests \ {i}
      /\ \A j \in DOMAIN requests' : requests'[j] = requests[j]
  BY ForgetEffect
<1>2. /\ c \in Contexts /\ store'[c].refresh = v
      /\ \A d \in Contexts \ {c} : store'[d] = store[d]
  <2>1. Store(t) \in Stored /\ c \in Contexts /\ v \in Nat
    BY StoreType DEF Typed, Shape, Tables
  <2>2. StoreTokens(t, v) \in Stored /\ StoreTokens(t, v).refresh = v
    BY <2>1, StoreTokensType
  <2> QED
    BY <2>1, <2>2, StoredEffect
<1>3. tabs'[t].wait = 0 /\ \A u \in Tabs \ {t} : tabs'[u] = tabs[u]
  BY MovesEffect
<1>4. /\ tokens[v].live /\ \A d \in Contexts : store[d].refresh # v
      /\ \A j \in DOMAIN requests : (Refreshing(j) => requests[j].token # v)
                                    /\ (Delivers(j, v) => i = j)
  BY DEF Succession, DeliveredFresh
<1>5. \A u \in Tabs, j \in DOMAIN requests' : tabs'[u].wait = j <=> tabs[u].wait = j
  BY <1>1, <1>3, NoTokenZero
<1>6. \A j \in DOMAIN requests', d \in Contexts : Awaited(j, d)' <=> Awaited(j, d)
  BY <1>5 DEF Awaited
<1>7. \A d \in Contexts : Awaited(i, d) => d = c
  BY WaitingPlace DEF Awaited
<1>8. /\ \A j \in DOMAIN requests' : /\ j \in DOMAIN requests /\ j # i
                                     /\ Refreshing(j)' <=> Refreshing(j)
                                     /\ Succeeding(j)' <=> Succeeding(j)
      /\ \A j \in DOMAIN requests', w \in DOMAIN tokens : Delivers(j, w)' <=> Delivers(j, w)
  BY <1>1 DEF Refreshing, Succeeding, Delivers
<1> HIDE DEF c
<1>9. RefreshesAwaited'
  BY <1>5, <1>8 DEF Succession, RefreshesAwaited
<1>10. StoredSucceeded'
  <2> SUFFICES ASSUME NEW d \in Contexts, store'[d].refresh # 0,
                      ~ tokens[store'[d].refresh].live
               PROVE  \E j \in DOMAIN requests' :
                        Succeeding(j)' /\ requests'[j].token = store'[d].refresh /\ Awaited(j, d)'
    BY DEF StoredSucceeded
  <2>1. d # c /\ store'[d] = store[d]
    BY <1>2, <1>4
  <2>2. PICK j \in DOMAIN requests :
          Succeeding(j) /\ requests[j].token = store[d].refresh /\ Awaited(j, d)
    BY <2>1 DEF Succession, StoredSucceeded
  <2>3. j \in DOMAIN requests'
    BY <1>1, <1>7, <2>1, <2>2
  <2> QED
    BY <1>1, <1>6, <1>8, <2>1, <2>2, <2>3
<1>11. PresentedAtHome'
  <2> SUFFICES ASSUME NEW j \in DOMAIN requests', NEW d \in Contexts, NEW e \in Contexts,
                      Refreshing(j)', Awaited(j, d)', store'[e].refresh # 0,
                      store'[e].refresh = requests'[j].token
               PROVE  d = e
    BY DEF PresentedAtHome
  <2>1. e # c
    BY <1>1, <1>2, <1>4, <1>8
  <2> QED
    BY <1>1, <1>2, <1>6, <1>8, <2>1 DEF Succession, PresentedAtHome
<1>12. StoredApart'
  BY <1>2, <1>4 DEF Succession, StoredApart
<1>13. DeliveredFresh'
  <2> SUFFICES ASSUME NEW j \in DOMAIN requests', NEW w \in DOMAIN tokens, Delivers(j, w)'
               PROVE  /\ tokens[w].live
                      /\ \A d \in Contexts : store'[d].refresh # w
                      /\ \A k \in DOMAIN requests' : (Refreshing(k)' => requests'[k].token # w)
                                                     /\ (Delivers(k, w)' => j = k)
    BY DEF DeliveredFresh
  <2>1. Delivers(j, w) /\ j # i /\ w # v
    BY <1>4, <1>8
  <2>2. /\ tokens[w].live /\ \A d \in Contexts : store[d].refresh # w
        /\ \A k \in DOMAIN requests : (Refreshing(k) => requests[k].token # w)
                                      /\ (Delivers(k, w) => j = k)
    BY <1>8, <2>1 DEF Succession, DeliveredFresh
  <2> QED
    BY <1>1, <1>2, <1>8, <2>1, <2>2
<1> QED
  BY <1>9, <1>10, <1>11, <1>12, <1>13 DEF Succession

(* A refresh that was refused clears what was stored.                      *)
LEMMA RefuseSuccession ==
  ASSUME Typed, Succession, NEW i \in DOMAIN requests, Forget(i), UNCHANGED <<tokens, contextOf>>,
         NEW t \in Tabs, tabs[t].wait = i, NEW at \in Places, Moves(t, at, 0), ClearTokens(t)
  PROVE  Succession'
<1> DEFINE c == contextOf[t]
<1>1. /\ DOMAIN requests' = DOMAIN requests \ {i}
      /\ \A j \in DOMAIN requests' : requests'[j] = requests[j]
  BY ForgetEffect
<1>2. /\ c \in Contexts /\ store'[c].refresh = 0
      /\ \A d \in Contexts \ {c} : store'[d] = store[d]
  BY ClearEffect, StoreType
<1>3. tabs'[t].wait = 0 /\ \A u \in Tabs \ {t} : tabs'[u] = tabs[u]
  BY MovesEffect
<1>5. \A u \in Tabs, j \in DOMAIN requests' : tabs'[u].wait = j <=> tabs[u].wait = j
  BY <1>1, <1>3, NoTokenZero
<1>6. \A j \in DOMAIN requests', d \in Contexts : Awaited(j, d)' <=> Awaited(j, d)
  BY <1>5 DEF Awaited
<1>7. \A d \in Contexts : Awaited(i, d) => d = c
  BY WaitingPlace DEF Awaited
<1>8. /\ \A j \in DOMAIN requests' : /\ j \in DOMAIN requests /\ j # i
                                     /\ Refreshing(j)' <=> Refreshing(j)
                                     /\ Succeeding(j)' <=> Succeeding(j)
      /\ \A j \in DOMAIN requests', w \in DOMAIN tokens : Delivers(j, w)' <=> Delivers(j, w)
  BY <1>1 DEF Refreshing, Succeeding, Delivers
<1> HIDE DEF c
<1>9. RefreshesAwaited'
  BY <1>5, <1>8 DEF Succession, RefreshesAwaited
<1>10. StoredSucceeded'
  <2> SUFFICES ASSUME NEW d \in Contexts, store'[d].refresh # 0,
                      ~ tokens[store'[d].refresh].live
               PROVE  \E j \in DOMAIN requests' :
                        Succeeding(j)' /\ requests'[j].token = store'[d].refresh /\ Awaited(j, d)'
    BY DEF StoredSucceeded
  <2>1. d # c /\ store'[d] = store[d]
    BY <1>2
  <2>2. PICK j \in DOMAIN requests :
          Succeeding(j) /\ requests[j].token = store[d].refresh /\ Awaited(j, d)
    BY <2>1 DEF Succession, StoredSucceeded
  <2>3. j \in DOMAIN requests'
    BY <1>1, <1>7, <2>1, <2>2
  <2> QED
    BY <1>1, <1>6, <1>8, <2>1, <2>2, <2>3
<1>11. PresentedAtHome'
  BY <1>1, <1>2, <1>6, <1>8 DEF Succession, PresentedAtHome
<1>12. StoredApart'
  BY <1>2 DEF Succession, StoredApart
<1>13. DeliveredFresh'
  BY <1>1, <1>2, <1>8, NoTokenZero DEF Succession, DeliveredFresh
<1> QED
  BY <1>9, <1>10, <1>11, <1>12, <1>13 DEF Succession

LEMMA ReceiveSuccession ==
  ASSUME Typed, Succession, NEW i \in DOMAIN requests, Receive(i)
  PROVE  Succession'
<1>1. /\ Forget(i) /\ requests[i].at = "reply" /\ UNCHANGED <<tokens, contextOf>>
  BY DEF Receive, chosen, tables
<1>2. /\ DOMAIN requests' = DOMAIN requests \ {i}
      /\ \A j \in DOMAIN requests' : j \in DOMAIN requests /\ requests'[j] = requests[j]
  BY <1>1, ForgetEffect
<1>3. CASE Waiting(i) = {} /\ UNCHANGED browser
  <2>1. ~ Refreshing(i)
    BY <1>3 DEF Waiting, Succession, RefreshesAwaited
  <2> QED
    BY <1>1, <1>2, <1>3, <2>1, SuccessionStill DEF browser
<1>4. ASSUME NEW t \in Tabs, tabs[t].wait = i, Answered(t, i)
      PROVE  Succession'
  <2>0. /\ requests[i] \in Request /\ Fits(requests[i])
        /\ store \in [Contexts -> Stored] /\ contextOf[t] \in Contexts
    BY StoreType DEF Typed, Shape, RequestsFit
  <2>1. ASSUME NEW at \in Places, NEW n \in Nat, Moves(t, at, n), ~ Refreshing(i),
               \A c \in Contexts : store'[c].refresh = store[c].refresh
        PROVE  Succession'
    <3>1. \A j \in DOMAIN requests : Refreshing(j) => j \in DOMAIN requests' /\ tabs[t].wait # j
      BY <1>2, <1>4, <2>1
    <3> QED
      BY <1>1, <1>2, <2>1, <3>1, MovesSuccession
  <2>2. CASE ReceiveClient(t, i)
    <3>1. \A c \in Contexts : store'[c].refresh = store[c].refresh
      BY <2>0, <2>2 DEF ReceiveClient, Stored
    <3> QED
      BY <2>1, <2>2, <3>1 DEF ReceiveClient, Goes, Refreshing, Places, Busy
  <2>3. CASE ReceiveRedirect(t, i)
    <3>1. requests[i].flow \in Nat
      BY <2>0 DEF Request
    <3> QED
      BY <2>1, <2>3, <3>1 DEF ReceiveRedirect, Goes, Refreshing, Places, Busy
  <2>4. ASSUME requests[i].kind \in {"token", "refresh"}, requests[i].value # 0,
               NEW at \in Places, Moves(t, at, 0),
               store' = [store EXCEPT ![contextOf[t]] = StoreTokens(t, requests[i].value)]
        PROVE  Succession'
    <3>1. PICK v \in DOMAIN tokens : v = requests[i].value
      BY <1>1, <2>0, <2>4 DEF Fits
    <3>2. Delivers(i, v)
      BY <1>1, <2>4, <3>1 DEF Delivers
    <3> QED
      BY <1>1, <1>4, <2>4, <3>1, <3>2, DeliverSuccession
  <2>5. CASE ReceiveTokens(t, i)
    <3>1. CASE requests[i].value # 0
      BY <2>4, <2>5, <3>1 DEF ReceiveTokens, Goes, Places, Busy
    <3>2. CASE requests[i].value = 0
      BY <2>1, <2>5, <3>2 DEF ReceiveTokens, Goes, Refreshing, Places
    <3> QED
      BY <3>1, <3>2
  <2>6. CASE ReceiveRefreshed(t, i)
    <3>1. CASE requests[i].value # 0
      BY <2>4, <2>6, <3>1 DEF ReceiveRefreshed, Goes, Places
    <3>2. CASE requests[i].value = 0
      <4>1. ClearTokens(t) /\ \E at \in {"signedOut", "app"} : Moves(t, at, 0)
        BY <2>6, <3>2 DEF ReceiveRefreshed, Goes
      <4> QED
        BY <1>1, <1>4, <4>1, RefuseSuccession DEF Places
    <3> QED
      BY <3>1, <3>2
  <2> QED
    BY <1>4, <2>2, <2>3, <2>5, <2>6 DEF Answered
<1> QED
  BY <1>3, <1>4 DEF Receive, Answered, Waiting

LEMMA OthersSuccession ==
  ASSUME Typed, ClientsFit, Succession, Others, ~ interrupted'
  PROVE  Succession'
<1>1. ASSUME NEW t \in Tabs, NEW a \in Accounts, Consent(t, a)
      PROVE  Succession'
  <2>1. /\ tabs[t].flow \in DOMAIN flows /\ Ask(t, "returning", CallbackOf(tabs[t].flow))
        /\ tabs[t].at = "google" /\ UNCHANGED <<tokens, contextOf, store>>
    BY <1>1, ConsentQuiet DEF Consent, tables, chosen
  <2>2. /\ CallbackOf(tabs[t].flow) \in Request /\ CallbackOf(tabs[t].flow).kind = "callback"
        /\ CallbackOf(tabs[t].flow).at = "select" /\ "returning" \in Places
    BY <2>1, CallbackOfIs DEF Places, Busy
  <2>3. \A j \in DOMAIN requests : Refreshing(j) => tabs[t].wait # j
    BY <2>1, WaitsForNoRefresh
  <2> QED
    BY <2>1, <2>2, <2>3, AskSuccession
<1>2. ASSUME NEW t \in Tabs, NEW other \in Tabs, Hop(t, other)
      PROVE  Succession'
  <2>1. UNCHANGED <<tokens, contextOf, requests, store>>
    BY <1>2 DEF Hop, tables, chosen
  <2>2. \A u \in Tabs : tabs'[u].wait = tabs[u].wait
    BY <1>2, HopEffect
  <2> QED
    BY <2>1, <2>2, SuccessionStill
<1>3. ASSUME NEW i \in DOMAIN requests, Lose(i)
      PROVE  Succession'
  <2>1. UNCHANGED <<tokens, contextOf, store>> /\ Forget(i) /\ ~ Refreshing(i)
    BY <1>3 DEF Lose, tables, chosen, Refreshing
  <2>2. /\ DOMAIN requests' = DOMAIN requests \ {i}
        /\ \A j \in DOMAIN requests' : j \in DOMAIN requests /\ requests'[j] = requests[j]
    BY <2>1, ForgetEffect
  <2>3. \A u \in Tabs, j \in DOMAIN requests : Refreshing(j) =>
          (tabs'[u].wait = j <=> tabs[u].wait = j)
    BY <1>3, <2>1, LoseEffect, NoTokenZero
  <2> QED
    BY <2>1, <2>2, <2>3, SuccessionStill
<1>4. CASE (\E c \in Contexts : AgeAccess(c)) \/ Expire \/ UNCHANGED vars
  <2>1. UNCHANGED <<tokens, contextOf, requests, tabs>>
    BY <1>4 DEF AgeAccess, Expire, vars, browser, tables, chosen
  <2>2. \A c \in Contexts : store'[c].refresh = store[c].refresh
    <3>1. store \in [Contexts -> Stored]
      BY DEF Typed, Shape
    <3> QED
      BY <1>4, <3>1 DEF AgeAccess, Expire, vars, browser, Stored
  <2> QED
    BY <2>1, <2>2, SuccessionStill
<1> QED
  BY <1>1, <1>2, <1>3, <1>4, TabsSuccession, ReceiveSuccession DEF Others

(* A claimed token is spent: its tab waits for the successor.              *)
LEMMA ClaimTokenSuccession ==
  ASSUME Typed, Succession, NEW i \in DOMAIN requests, ClaimToken(i)
  PROVE  Succession'
<1> DEFINE k == requests[i].token
<1>1. /\ Refreshing(i) /\ requests[i].at = "claim" /\ Goings(i)
      /\ UNCHANGED <<contextOf, store, tabs>>
  BY StatementGoes, StatementAlone DEF ClaimToken, At, Statement, Refreshing, chosen, browser
<1>2. \/ /\ Claimable(k) /\ requests'[i].at \in {"issue", "reply"}
         /\ requests'[i].at = "reply" => requests'[i].value = 0
      \/ /\ UNCHANGED tokens /\ requests'[i].at = "reply" /\ requests'[i].value = 0
  <2>1. CASE Claimable(k)
    <3>1. tokens[k].user \in Nat
      BY <2>1, TokenType DEF Claimable
    <3>2. Step(i, "issue", tokens[k].user) \/ Step(i, "reply", 0)
      BY <2>1 DEF ClaimToken, Answer
    <3> HIDE DEF k
    <3> QED
      BY <2>1, <3>1, <3>2, StepGoes DEF Steps
  <2>2. CASE ~ Claimable(k)
    <3>1. Step(i, "reply", 0) /\ UNCHANGED tokens
      BY <2>2 DEF ClaimToken, Answer
    <3> QED
      BY <3>1, StepGoes DEF Steps
  <2> QED
    BY <2>1, <2>2
<1>3. /\ DOMAIN tokens' = DOMAIN tokens
      /\ \A l \in DOMAIN tokens : l # k => tokens'[l] = tokens[l]
  <2>1. CASE UNCHANGED tokens
    BY <2>1
  <2>2. CASE Claimable(k)
    BY <2>2, RevokeEffect DEF Claimable
  <2> QED
    BY <1>2, <2>1, <2>2
<1>4. \A j \in DOMAIN requests : /\ Refreshing(j)' <=> Refreshing(j)
                                 /\ requests'[j].token = requests[j].token
                                 /\ Succeeding(j) => Succeeding(j)'
  BY <1>1 DEF Goings, Refreshing, Succeeding
<1>5. \A j \in DOMAIN requests, v \in DOMAIN tokens : Delivers(j, v)' => Delivers(j, v)
  BY <1>1, <1>2, NoTokenZero DEF Goings, Delivers
<1>6. \A j \in DOMAIN requests, c \in Contexts : Awaited(j, c)' <=> Awaited(j, c)
  BY <1>1 DEF Awaited
<1>7. DOMAIN requests' = DOMAIN requests /\ requests'[i].token = k /\ Succeeding(i)'
  BY <1>1, <1>2 DEF Goings, Succeeding, Refreshing
<1> HIDE DEF k
<1>8. k = requests[i].token
  BY DEF k
<1>9. RefreshesAwaited'
  BY <1>1, <1>4, <1>7 DEF Succession, RefreshesAwaited
<1>10. StoredSucceeded'
  <2> SUFFICES ASSUME NEW c \in Contexts, store[c].refresh # 0,
                      ~ tokens'[store[c].refresh].live
               PROVE  \E j \in DOMAIN requests' :
                        Succeeding(j)' /\ requests'[j].token = store[c].refresh /\ Awaited(j, c)'
    BY <1>1 DEF StoredSucceeded
  <2>1. CASE store[c].refresh = k
    <3>1. PICK t \in Tabs : tabs[t].wait = i
      BY <1>1 DEF Succession, RefreshesAwaited
    <3>2. Awaited(i, contextOf[t]) /\ contextOf[t] \in Contexts
      BY <3>1, StoreType DEF Awaited
    <3>3. Awaited(i, c)
      BY <1>1, <1>8, <2>1, <3>2 DEF Succession, PresentedAtHome
    <3> QED
      BY <1>6, <1>7, <2>1, <3>3
  <2>2. CASE store[c].refresh # k
    <3>1. store[c].refresh \in DOMAIN tokens
      BY DEF Typed, Keeps
    <3>2. ~ tokens[store[c].refresh].live
      BY <1>3, <2>2, <3>1
    <3>3. PICK j \in DOMAIN requests :
            Succeeding(j) /\ requests[j].token = store[c].refresh /\ Awaited(j, c)
      BY <3>2 DEF Succession, StoredSucceeded
    <3> QED
      BY <1>4, <1>6, <1>7, <3>3
  <2> QED
    BY <2>1, <2>2
<1>11. PresentedAtHome'
  BY <1>1, <1>4, <1>6, <1>7 DEF Succession, PresentedAtHome
<1>12. StoredApart'
  BY <1>1 DEF Succession, StoredApart
<1>13. DeliveredFresh'
  <2> SUFFICES ASSUME NEW j \in DOMAIN requests, NEW v \in DOMAIN tokens, Delivers(j, v)'
               PROVE  /\ tokens'[v].live
                      /\ \A c \in Contexts : store[c].refresh # v
                      /\ \A l \in DOMAIN requests : (Refreshing(l)' => requests'[l].token # v)
                                                    /\ (Delivers(l, v)' => j = l)
    BY <1>1, <1>3, <1>7 DEF DeliveredFresh
  <2>1. Delivers(j, v)
    BY <1>5
  <2>2. /\ tokens[v].live /\ \A c \in Contexts : store[c].refresh # v
        /\ \A l \in DOMAIN requests : (Refreshing(l) => requests[l].token # v)
                                      /\ (Delivers(l, v) => j = l)
    BY <2>1 DEF Succession, DeliveredFresh
  <2>3. v # k
    BY <1>1, <1>8, <2>2
  <2> QED
    BY <1>3, <1>4, <1>5, <2>2, <2>3
<1> QED
  BY <1>9, <1>10, <1>11, <1>12, <1>13 DEF Succession

(* A new token is live and nobody else's.                                  *)
LEMMA IssueSuccession ==
  ASSUME Typed, Succession, NEW i \in DOMAIN requests, IssueTokens(i)
  PROVE  Succession'
<1> DEFINE k == Len(tokens) + 1
<1>1. /\ requests[i].kind \in {"token", "refresh"} /\ requests[i].at = "issue"
      /\ Goings(i) /\ UNCHANGED <<contextOf, store, tabs>>
      /\ DOMAIN tokens' = DOMAIN tokens \cup {k} /\ k \notin DOMAIN tokens /\ k \in Nat
      /\ \A l \in DOMAIN tokens : tokens'[l] = tokens[l]
      /\ tokens'[k].live
  <2>1. Statement(i)
    BY DEF Statement
  <2>2. Goings(i)
    BY <2>1, StatementGoes
  <2>3. UNCHANGED <<contextOf, store, tabs>>
    BY <2>1, StatementAlone DEF chosen, browser
  <2>4. /\ requests[i].kind \in {"token", "refresh"} /\ requests[i].at = "issue"
        /\ DOMAIN tokens' = DOMAIN tokens \cup {k} /\ k \notin DOMAIN tokens /\ k \in Nat
    <3>1. requests[i].kind \in {"token", "refresh"} /\ requests[i].at = "issue"
      BY IssueEffect
    <3>2. DOMAIN tokens' = DOMAIN tokens \cup {k} /\ k \notin DOMAIN tokens
      BY IssueEffect
    <3>3. Len(tokens) \in Nat
      BY IssueEffect
    <3>4. k \in Nat
      BY <3>3
    <3> QED
      BY <3>1, <3>2, <3>4
  <2>5. (\A l \in DOMAIN tokens : tokens'[l] = tokens[l]) /\ tokens'[k].live
    BY IssueEffect
  <2> QED
    BY <2>2, <2>3, <2>4, <2>5
<1>2. requests'[i].at = "reply" /\ requests'[i].value = k
  <2>1. Step(i, "reply", k)
    BY DEF IssueTokens, Answer
  <2> QED
    BY <1>1, <2>1, StepGoes DEF Steps
<1> HIDE DEF k
<1>3. \A j \in DOMAIN requests : /\ Refreshing(j)' <=> Refreshing(j)
                                 /\ requests'[j].token = requests[j].token
                                 /\ Succeeding(j) => Succeeding(j)'
  BY <1>1, <1>2 DEF Goings, Refreshing, Succeeding
<1>4. \A j \in DOMAIN requests, v \in DOMAIN tokens' :
        Delivers(j, v)' => \/ j = i /\ v = k
                           \/ j # i /\ Delivers(j, v) /\ v \in DOMAIN tokens
  <2> SUFFICES ASSUME NEW j \in DOMAIN requests, NEW v \in DOMAIN tokens', Delivers(j, v)'
               PROVE  \/ j = i /\ v = k
                      \/ j # i /\ Delivers(j, v) /\ v \in DOMAIN tokens
    OBVIOUS
  <2>1. CASE j = i
    BY <1>2, <2>1 DEF Delivers
  <2>2. CASE j # i
    <3>1. Delivers(j, v)
      BY <1>1, <2>2 DEF Goings, Delivers
    <3>2. v \in {0} \cup DOMAIN tokens
      BY <3>1 DEF Delivers, Typed, RequestsFit, Fits
    <3>3. 0 \notin DOMAIN tokens'
      BY <1>1 DEF Typed, Shape, Tables, k
    <3> QED
      BY <2>2, <3>1, <3>2, <3>3
  <2> QED
    BY <2>1, <2>2
<1>5. \A j \in DOMAIN requests, c \in Contexts : Awaited(j, c)' <=> Awaited(j, c)
  BY <1>1 DEF Awaited
<1>6. DOMAIN requests' = DOMAIN requests
  BY <1>1 DEF Goings
<1>7. \A c \in Contexts : store[c].refresh \in {0} \cup DOMAIN tokens /\ store[c].refresh # k
  <2>1. k # 0
    BY DEF k, Typed, Shape, Tables
  <2> QED
    BY <1>1, <2>1 DEF Typed, Keeps
<1>8. \A j \in DOMAIN requests : requests[j].token # k
  <2>1. k # 0
    BY DEF k, Typed, Shape, Tables
  <2> QED
    BY <1>1, <2>1 DEF Typed, RequestsFit, Fits, IsRequest
<1>9. RefreshesAwaited'
  BY <1>1, <1>3, <1>6 DEF Succession, RefreshesAwaited
<1>10. StoredSucceeded'
  <2> SUFFICES ASSUME NEW c \in Contexts, store[c].refresh # 0,
                      ~ tokens'[store[c].refresh].live
               PROVE  \E j \in DOMAIN requests :
                        Succeeding(j)' /\ requests'[j].token = store[c].refresh /\ Awaited(j, c)'
    BY <1>1, <1>6 DEF StoredSucceeded
  <2>1. ~ tokens[store[c].refresh].live
    BY <1>1, <1>7
  <2>2. PICK j \in DOMAIN requests :
          Succeeding(j) /\ requests[j].token = store[c].refresh /\ Awaited(j, c)
    BY <2>1 DEF Succession, StoredSucceeded
  <2> QED
    BY <1>3, <1>5, <2>2
<1>11. PresentedAtHome'
  BY <1>1, <1>3, <1>5, <1>6 DEF Succession, PresentedAtHome
<1>12. StoredApart'
  BY <1>1 DEF Succession, StoredApart
<1>13. DeliveredFresh'
  <2> SUFFICES ASSUME NEW j \in DOMAIN requests, NEW v \in DOMAIN tokens', Delivers(j, v)'
               PROVE  /\ tokens'[v].live
                      /\ \A c \in Contexts : store[c].refresh # v
                      /\ \A l \in DOMAIN requests : (Refreshing(l)' => requests'[l].token # v)
                                                    /\ (Delivers(l, v)' => j = l)
    BY <1>1, <1>6 DEF DeliveredFresh
  <2>1. CASE v = k
    BY <1>1, <1>3, <1>4, <1>7, <1>8, <2>1
  <2>2. CASE v # k
    <3>1. Delivers(j, v) /\ v \in DOMAIN tokens
      BY <1>4, <2>2
    <3>2. /\ tokens[v].live /\ \A c \in Contexts : store[c].refresh # v
          /\ \A l \in DOMAIN requests : (Refreshing(l) => requests[l].token # v)
                                        /\ (Delivers(l, v) => j = l)
      BY <3>1 DEF Succession, DeliveredFresh
    <3> QED
      BY <1>1, <1>3, <1>4, <2>2, <3>1, <3>2
  <2> QED
    BY <2>1, <2>2
<1> QED
  BY <1>9, <1>10, <1>11, <1>12, <1>13 DEF Succession

LEMMA StatementSuccession ==
  ASSUME Typed, Succession, NEW i \in DOMAIN requests, Statement(i)
  PROVE  Succession'
<1>1. Goings(i) /\ UNCHANGED <<contextOf, store, tabs>>
  BY StatementGoes, StatementAlone DEF chosen, browser
<1>2. CASE \/ RegisterLookup(i) \/ RegisterInsert(i)
           \/ SelectState(i) \/ TakeState(i) \/ ExchangeAtGoogle(i)
           \/ FindIdentity(i) \/ FindOwner(i) \/ LinkIdentity(i) \/ CreateUser(i)
           \/ InsertCode(i) \/ StoreCredential(i)
  <2>1. UNCHANGED tokens /\ requests[i].kind \in {"register", "callback"}
    BY <1>2 DEF RegisterLookup, RegisterInsert, SelectState, TakeState, ExchangeAtGoogle,
         FindIdentity, FindOwner, LinkIdentity, CreateUser, InsertCode, StoreCredential,
         At, tables
  <2>2. /\ \A j \in DOMAIN requests : Refreshing(j) =>
             j \in DOMAIN requests' /\ requests'[j] = requests[j]
        /\ \A j \in DOMAIN requests' :
             \/ j \in DOMAIN requests /\ requests'[j] = requests[j]
             \/ requests'[j].kind \in {"register", "callback"}
    BY <1>1, <2>1 DEF Goings, Refreshing
  <2> QED
    BY <1>1, <2>1, <2>2, SuccessionStill
<1>3. CASE ClaimCode(i)
  <2>1. UNCHANGED tokens /\ requests[i].kind = "token"
    BY <1>3 DEF ClaimCode, At
  <2>2. requests'[i].at = "issue" \/ requests'[i].value = 0
    <3>1. CASE Step(i, "reply", 0)
      BY <3>1, StepGoes DEF Steps
    <3>2. CASE ~ Step(i, "reply", 0)
      <4>1. /\ requests[i].flow \in DOMAIN codes
            /\ Step(i, "issue", codes[requests[i].flow].user)
        BY <1>3, <3>2 DEF ClaimCode, Answer
      <4>2. codes[requests[i].flow].user \in Nat
        BY <4>1 DEF Typed, Shape, Tables
      <4> QED
        BY <4>1, <4>2, StepGoes DEF Steps
    <3> QED
      BY <3>1, <3>2
  <2>3. /\ \A j \in DOMAIN requests : Refreshing(j) =>
             j \in DOMAIN requests' /\ requests'[j] = requests[j]
        /\ \A j \in DOMAIN requests' :
             \/ j \in DOMAIN requests /\ requests'[j] = requests[j]
             \/ /\ requests'[j].kind = "token"
                /\ requests'[j].at = "reply" => requests'[j].value = 0
    BY <1>1, <2>1, <2>2 DEF Goings, Refreshing
  <2> QED
    BY <1>1, <2>1, <2>3, SuccessionStill
<1> QED
  BY <1>2, <1>3, ClaimTokenSuccession, IssueSuccession DEF Statement

LEMMA InitLineage == Init => Lineage
<1> SUFFICES ASSUME Init
             PROVE  Succession
  BY DEF Lineage
<1>1. /\ DOMAIN requests = {} /\ tokens = <<>>
      /\ \A c \in Contexts : store[c].refresh = 0
  BY DEF Init, SignedOut
<1> QED
  BY <1>1 DEF Succession, RefreshesAwaited, StoredSucceeded, PresentedAtHome, StoredApart,
              DeliveredFresh

LEMMA NextLineage ==
  Typed /\ ClientsFit /\ Lineage /\ [Next]_vars => Lineage'
<1> SUFFICES ASSUME Typed, ClientsFit, Lineage, [Next]_vars, ~ interrupted'
             PROVE  Succession'
  BY DEF Lineage
<1>1. CASE Others
  <2>1. ~ interrupted
    <3>1. CASE \E t \in Tabs : \/ Open(t) \/ StartLogin(t) \/ Authorize(t) \/ Connect(t)
                     \/ Land(t) \/ Mount(t) \/ UseToken(t) \/ Close(t) \/ Repeat(t)
      BY <3>1 DEF Open, StartLogin, Authorize, Connect, Land, Mount, UseToken, Close, Repeat
    <3>2. CASE ~ \E t \in Tabs : \/ Open(t) \/ StartLogin(t) \/ Authorize(t) \/ Connect(t)
                     \/ Land(t) \/ Mount(t) \/ UseToken(t) \/ Close(t) \/ Repeat(t)
      BY <1>1, <3>2 DEF Others, Consent, Hop, Receive, Lose, AgeAccess, Expire, vars
    <3> QED
      BY <3>1, <3>2
  <2> QED
    BY <1>1, <2>1, OthersSuccession DEF Lineage
<1>2. ASSUME NEW i \in DOMAIN requests, Statement(i)
      PROVE  Succession'
  <2>1. ~ interrupted
    BY <1>2, StatementAlone
  <2> QED
    BY <1>2, <2>1, StatementSuccession DEF Lineage
<1> QED
  BY <1>1, <1>2, NextIs

LEMMA LineageIsLive == Lineage => StoredTokenIsLive
BY DEF Lineage, StoredTokenIsLive, Succession, StoredSucceeded, Succeeding, Refreshing

(* Refreshes of several tabs, logins and whatever is closed, lost or       *)
(* expired at the same time leave no stored token behind that will be      *)
(* refused, unless the answer to a refresh was lost (refreshAccessToken of *)
(* auth.ts, claimRefreshToken of db/oauth.ts).                             *)
THEOREM StoredTokensAreLive == Spec => []StoredTokenIsLive
<1>1. Init => Typed /\ ClientsFit /\ Lineage
  BY InitTyped, InitClients, InitLineage
<1>2. Typed /\ ClientsFit /\ Lineage /\ [Next]_vars =>
        (Typed /\ ClientsFit /\ Lineage)'
  BY NextTyped, NextClients, NextLineage
<1> QED
  BY <1>1, <1>2, LineageIsLive, PTL DEF Spec
=============================================================================
