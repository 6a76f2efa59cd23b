----------------------------- MODULE OAuthFlow -----------------------------
(***************************************************************************)
(* Signing in: the OAuth server of the worker (src/auth/oauth.ts over      *)
(* src/db/oauth.ts and src/db/queries.ts) between the browser              *)
(* (frontend/src/auth.ts, App.tsx) and Google, and the rotation of refresh *)
(* tokens.                                                                 *)
(*                                                                         *)
(* A flow is one visit to Google: its number stands for the state and the  *)
(* verifier that are drawn for it, for its row in oauth_states and for the *)
(* code that is made in the end.  Every statement on D1 is a step of the   *)
(* request that makes it.  An address that Google has verified stands for  *)
(* its account; accounts without one are like those that are not allowed.  *)
(***************************************************************************)
EXTENDS Naturals, Sequences, FiniteSets, FiniteSetsExt, Functions

CONSTANTS Accounts,     \* Google accounts, each with its verified address
          Tabs,         \* windows of one browser, a popup is one of them
          Contexts,     \* what has its own localStorage ...
          Layouts,      \* ... of which tabs; cookies are common to all
          None,
          MaxFlows, MaxRequests,
          MaxTokens,    \* access tokens grow old while there are fewer
          Events, MaxEvents

ASSUME OAuthAssumption ==
  /\ Layouts \subseteq [Tabs -> Contexts]
  /\ None \notin Accounts
  /\ {MaxFlows, MaxRequests, MaxTokens, MaxEvents} \subseteq Nat
  /\ Events \subseteq {"close", "repeat", "lose", "expire", "hop"}

VARIABLES clients,     \* rows of oauth_clients for the frontend's callback
          users,       \* a sequence of the addresses of users, None without
          identities,  \* a function from <<provider, account>> to users
          allowed,     \* allowed_emails
          flows,       \* what each flow was started with
          states,      \* flows that have a row in oauth_states
          consents,    \* Google's codes: a function from flows
          codes,       \* oauth_codes: a function from flows
          tokens,      \* oauth_refresh_tokens, a sequence
          credentials, \* Google Sheets credentials: from flows to users
          requests,    \* a function from numbers to requests under way
          store,       \* localStorage: client, access and refresh token
          cookies,     \* the state and the verifier of a flow, 0 without
          tabs,
          clientId,    \* of startLogin in each tab, until it redirects
          interrupted, \* history: a claimed token's successor was lost
          contextOf,   \* one of Layouts: an installed app has its own
          events

tables == <<clients, users, identities, states, codes, tokens, credentials>>
browser == <<store, cookies, tabs, clientId>>
chosen == <<allowed, contextOf>>           \* once and for all
vars == <<tables, chosen, flows, consents, requests, browser, interrupted, events>>

Flows == 1 .. MaxFlows
Providers == {"google", "google-sheets"}
Ids == 1 .. MaxRequests

SignedOut == [client |-> 0, access |-> "none", refresh |-> 0]
NoCookies == [state |-> 0, verifier |-> 0]
Busy == {"registering", "starting", "returning", "landed", "exchanging",
         "mounting"}

IsRequest(r) ==
  /\ r.kind \in {"register", "callback", "token", "refresh"}
  /\ r.at \in {"lookup", "insert", "select", "delete", "google", "identity",
               "owner", "link", "create", "finish", "claim", "issue", "reply"}
  /\ r.flow \in {0} \cup DOMAIN flows
  /\ r.token \in {0} \cup DOMAIN tokens   \* what a refresh presents
  /\ r.client \in 0 .. clients
  /\ r.verifier \in {0} \cup DOMAIN flows
  /\ r.value \in Nat          \* a client, a user or a token; 0: refused
  /\ r.again \in BOOLEAN      \* resolveUserId has thrown once

Outside(kind) == kind \in Events /\ events > 0 /\ events' = events - 1

-----------------------------------------------------------------------------
(* Requests.                                                               *)

HasRoom == DOMAIN requests # Ids
NewId == Min(Ids \ DOMAIN requests)

NewRequest(kind, at) ==
  [kind |-> kind, at |-> at, flow |-> 0, token |-> 0, client |-> 0,
   verifier |-> 0, value |-> 0, again |-> FALSE]

Set(id, r) == [i \in DOMAIN requests \cup {id} |->
                 IF i = id THEN r ELSE requests[i]]

(* The tab sends request r and waits for its answer.                       *)
Ask(t, at, r) ==
  /\ HasRoom
  /\ requests' = Set(NewId, r)
  /\ tabs' = [tabs EXCEPT ![t].at = at, ![t].wait = NewId]

At(i, kind, step) == requests[i].kind = kind /\ requests[i].at = step

Step(i, step, value) ==
  requests' = [requests EXCEPT ![i].at = step, ![i].value = value]

Answer(i, value) == Step(i, "reply", value)

-----------------------------------------------------------------------------
(* POST /register: a lookup and an insert.                                 *)

RegisterLookup(i) ==
  /\ At(i, "register", "lookup")
  /\ IF clients > 0 THEN Answer(i, 1) ELSE Step(i, "insert", 0)
  /\ UNCHANGED <<tables, chosen, flows, consents, browser, interrupted, events>>

RegisterInsert(i) ==
  /\ At(i, "register", "insert")
  /\ clients' = clients + 1
  /\ Answer(i, clients')
  /\ UNCHANGED <<users, identities, states, codes, tokens, credentials, chosen,
                 flows, consents, browser, interrupted, events>>

-----------------------------------------------------------------------------
(* GET /oauth/callback.                                                    *)

(* getAndDeleteOAuthState: its two statements.                             *)
SelectState(i) ==
  /\ At(i, "callback", "select")
  /\ IF requests[i].flow \in states THEN Step(i, "delete", 0) ELSE Answer(i, 0)
  /\ UNCHANGED <<tables, chosen, flows, consents, browser, interrupted, events>>

TakeState(i) ==
  /\ At(i, "callback", "delete")
  /\ states' = states \ {requests[i].flow}
  /\ Step(i, "google", 0)
  /\ UNCHANGED <<clients, users, identities, codes, tokens, credentials, chosen,
                 flows, consents, browser, interrupted, events>>

(* fetchProviderIdentity: Google accepts its code once.                    *)
ExchangeAtGoogle(i) ==
  LET n == requests[i].flow IN
  /\ At(i, "callback", "google")
  /\ consents' = [consents EXCEPT ![n].used = TRUE]
  /\ IF consents[n].used THEN Answer(i, 0) ELSE Step(i, "identity", 0)
  /\ UNCHANGED <<tables, chosen, flows, browser, interrupted, events>>

AccountOf(i) == consents[requests[i].flow].account
IdentityOf(i) == <<flows[requests[i].flow].provider, AccountOf(i)>>
OwnersOf(a) == {u \in DOMAIN users : users[u] = a}

(* A statement of resolveUserId breaks a UNIQUE constraint: it is called   *)
(* once more.                                                              *)
Throws(i) ==
  IF requests[i].again THEN Answer(i, 0)
  ELSE requests' = [requests EXCEPT ![i].at = "identity", ![i].again = TRUE]

(* A known identity, whose user gets the address if it has none.           *)
FindIdentity(i) ==
  LET a == AccountOf(i)
      u == identities[IdentityOf(i)] IN
  /\ At(i, "callback", "identity")
  /\ \/ /\ IdentityOf(i) \notin DOMAIN identities
        /\ Step(i, "owner", 0)
        /\ UNCHANGED users
     \/ /\ IdentityOf(i) \in DOMAIN identities
        /\ users[u] # None \/ OwnersOf(a) = {}
        /\ users' = [users EXCEPT ![u] = IF @ = None THEN a ELSE @]
        /\ Step(i, "finish", u)
     \/ /\ IdentityOf(i) \in DOMAIN identities
        /\ users[u] = None /\ OwnersOf(a) # {}
        /\ Throws(i)
        /\ UNCHANGED users
  /\ UNCHANGED <<clients, identities, states, codes, tokens, credentials,
                 chosen, flows, consents, browser, interrupted, events>>

(* The owner of the address, or a new user if the address is allowed.      *)
FindOwner(i) ==
  LET a == AccountOf(i) IN
  /\ At(i, "callback", "owner")
  /\ \/ \E u \in OwnersOf(a) : Step(i, "link", u)
     \/ OwnersOf(a) = {} /\ a \in allowed /\ Step(i, "create", 0)
     \/ OwnersOf(a) = {} /\ a \notin allowed /\ Answer(i, 0)
  /\ UNCHANGED <<tables, chosen, flows, consents, browser, interrupted, events>>

WithIdentity(i, u) ==
  [p \in DOMAIN identities \cup {IdentityOf(i)} |->
     IF p \in DOMAIN identities THEN identities[p] ELSE u]

LinkIdentity(i) ==
  /\ At(i, "callback", "link")
  /\ identities' = WithIdentity(i, requests[i].value)
  /\ Step(i, "finish", requests[i].value)
  /\ UNCHANGED <<clients, users, states, codes, tokens, credentials, chosen,
                 flows, consents, browser, interrupted, events>>

(* Seeded bug: the new user's address is not stored.                       *)
NoAddress(i) == Append(users, None)

WithUser(i) == Append(users, AccountOf(i))

(* createUserWithIdentity: a batch of two inserts, all or nothing.         *)
CreateUser(i) ==
  LET u == Len(users) + 1 IN
  /\ At(i, "callback", "create")
  /\ \/ /\ OwnersOf(AccountOf(i)) = {} /\ IdentityOf(i) \notin DOMAIN identities
        /\ users' = WithUser(i)
        /\ identities' = WithIdentity(i, u)
        /\ Step(i, "finish", u)
     \/ /\ OwnersOf(AccountOf(i)) # {} \/ IdentityOf(i) \in DOMAIN identities
        /\ Throws(i)
        /\ UNCHANGED <<users, identities>>
  /\ UNCHANGED <<clients, states, codes, tokens, credentials, chosen, flows,
                 consents, browser, interrupted, events>>

(* Signing in ends with a code for the frontend.                           *)
InsertCode(i) ==
  LET n == requests[i].flow IN
  /\ At(i, "callback", "finish")
  /\ flows[n].provider = "google"
  /\ codes' = [m \in DOMAIN codes \cup {n} |->
                 IF m = n THEN [user |-> requests[i].value, used |-> FALSE]
                 ELSE codes[m]]
  /\ Answer(i, requests[i].value)
  /\ UNCHANGED <<clients, users, identities, states, tokens, credentials, chosen,
                 flows, consents, browser, interrupted, events>>

(* Connecting Google Sheets ends with a credential: the one it was started *)
(* for, if it is the user's, or else a new one.                            *)
StoreCredential(i) ==
  LET n == requests[i].flow
      u == requests[i].value
      c == flows[n].credential IN
  /\ At(i, "callback", "finish")
  /\ flows[n].provider = "google-sheets"
  /\ credentials' = IF c \in DOMAIN credentials /\ credentials[c] = u
                    THEN credentials
                    ELSE [m \in DOMAIN credentials \cup {n} |->
                            IF m = n THEN u ELSE credentials[m]]
  /\ Answer(i, u)
  /\ UNCHANGED <<clients, users, identities, states, codes, tokens, chosen,
                 flows, consents, browser, interrupted, events>>

-----------------------------------------------------------------------------
(* POST /token.                                                            *)

(* claimOAuthCode, one UPDATE with RETURNING, and the checks after it.     *)
ClaimCode(i) ==
  LET r == requests[i]
      found == r.flow \in DOMAIN codes /\ ~ codes[r.flow].used IN
  /\ At(i, "token", "claim")
  /\ codes' = IF found THEN [codes EXCEPT ![r.flow].used = TRUE] ELSE codes
  /\ IF found /\ r.client = flows[r.flow].client /\ r.verifier = r.flow
     THEN Step(i, "issue", codes[r.flow].user) ELSE Answer(i, 0)
  /\ UNCHANGED <<clients, users, identities, states, tokens, credentials, chosen,
                 flows, consents, browser, interrupted, events>>

(* Seeded bug: a revoked token is accepted as well.                        *)
Known(k) == k \in DOMAIN tokens

Claimable(k) == k \in DOMAIN tokens /\ tokens[k].live

(* claimRefreshToken, in one statement as well.                            *)
ClaimToken(i) ==
  LET k == requests[i].token IN
  /\ At(i, "refresh", "claim")
  /\ IF Claimable(k)
     THEN /\ tokens' = [tokens EXCEPT ![k].live = FALSE]
          /\ IF requests[i].client = flows[tokens[k].flow].client
             THEN Step(i, "issue", tokens[k].user) ELSE Answer(i, 0)
     ELSE UNCHANGED tokens /\ Answer(i, 0)
  /\ UNCHANGED <<clients, users, identities, states, codes, credentials, chosen,
                 flows, consents, browser, interrupted, events>>

(* issueTokens.                                                            *)
IssueTokens(i) ==
  LET r == requests[i]
      n == IF r.kind = "token" THEN r.flow ELSE tokens[r.token].flow IN
  /\ r.at = "issue"
  /\ tokens' = Append(tokens, [user |-> r.value, flow |-> n, live |-> TRUE])
  /\ Answer(i, Len(tokens) + 1)
  /\ UNCHANGED <<clients, users, identities, states, codes, credentials, chosen,
                 flows, consents, browser, interrupted, events>>

-----------------------------------------------------------------------------
(* The browser.                                                            *)

Store(t) == store[contextOf[t]]

(* Seeded bug: the tab still waits for the answer it has got.              *)
MovesWaiting(t, at, flow) ==
  tabs' = [tabs EXCEPT ![t].at = at, ![t].flow = flow]

Moves(t, at, flow) == tabs' = [tabs EXCEPT ![t] = [at |-> at, flow |-> flow, wait |-> 0]]
Goes(t, at) == Moves(t, at, 0)
FlowsLeft ==
  Len(flows) + Cardinality({t \in Tabs : tabs[t].at \in {"registering", "starting"}})
    < MaxFlows

(* The app starts in a tab.                                                *)
Open(t) ==
  /\ tabs[t].at = "closed"
  /\ Goes(t, IF Store(t).access = "none" THEN "signedOut" ELSE "mounting")
  /\ UNCHANGED <<tables, chosen, flows, consents, requests, store, cookies,
                 clientId, interrupted, events>>

(* startLogin as far as ensureClientId, ...                                *)
StartLogin(t) ==
  /\ tabs[t].at = "signedOut" /\ FlowsLeft
  /\ IF Store(t).client # 0
     THEN /\ Goes(t, "starting") /\ UNCHANGED requests
          /\ clientId' = [clientId EXCEPT ![t] = Store(t).client]
     ELSE /\ Ask(t, "registering", NewRequest("register", "lookup"))
          /\ UNCHANGED clientId
  /\ UNCHANGED <<tables, chosen, flows, consents, store, cookies, interrupted, events>>

(* A row of oauth_states, and the tab is sent on to Google.                *)
Visit(t, flow) ==
  LET n == Len(flows) + 1 IN
  /\ flows' = Append(flows, flow)
  /\ states' = states \cup {n}
  /\ Moves(t, "google", n)

(* Seeded bug: the cookies of a login that is under way are kept.          *)
OlderCookies(n) == IF cookies.state = 0 THEN [state |-> n, verifier |-> n]
                   ELSE [cookies EXCEPT !.state = n]

NewCookies(n) == [state |-> n, verifier |-> n]

(* ... its rest, and GET /authorize.                                       *)
Authorize(t) ==
  /\ tabs[t].at = "starting"
  /\ cookies' = NewCookies(Len(flows) + 1)
  /\ Visit(t, [provider |-> "google", client |-> clientId[t], credential |-> 0])
  /\ UNCHANGED <<clients, users, identities, codes, tokens, credentials, chosen,
                 consents, requests, store, clientId, interrupted, events>>

(* GET /connect/google-sheets in a popup of the app, for a new credential  *)
(* or for an old one.                                                      *)
Connect(t) ==
  /\ tabs[t].at = "closed" /\ FlowsLeft
  /\ \E other \in Tabs : tabs[other].at = "app"
  /\ \E c \in {0} \cup DOMAIN credentials :
       Visit(t, [provider |-> "google-sheets", client |-> 0, credential |-> c])
  /\ UNCHANGED <<clients, users, identities, codes, tokens, credentials, chosen,
                 consents, requests, store, cookies, clientId, interrupted, events>>

CallbackOf(n) == [NewRequest("callback", "select") EXCEPT !.flow = n]

(* The user picks an account: Google sends the tab to /oauth/callback.     *)
Consent(t, a) ==
  LET n == tabs[t].flow IN
  /\ tabs[t].at = "google"
  /\ consents' = [m \in DOMAIN consents \cup {n} |->
                    IF m = n THEN [account |-> a, used |-> FALSE] ELSE consents[m]]
  /\ Ask(t, "returning", CallbackOf(n))
  /\ UNCHANGED <<tables, chosen, flows, store, cookies, clientId, interrupted, events>>

(* Seeded bug: the cookie is deleted before it is compared.                *)
MismatchDeleted(t) == cookies'.state # tabs[t].flow

Mismatch(t) == cookies.state # tabs[t].flow

(* Landing on /callback: handleCallback as far as its request.             *)
Land(t) ==
  /\ tabs[t].at = "landed"
  /\ cookies' = [cookies EXCEPT !.state = 0]
  /\ IF Mismatch(t) \/ cookies.verifier = 0 \/ Store(t).client = 0
     THEN Goes(t, "signedOut") /\ UNCHANGED requests
     ELSE Ask(t, "exchanging",
              [NewRequest("token", "claim") EXCEPT
                 !.flow = tabs[t].flow, !.verifier = cookies.verifier,
                 !.client = Store(t).client])
  /\ UNCHANGED <<tables, chosen, flows, consents, store, clientId, interrupted, events>>

ClearTokens(t) ==
  /\ store' = [store EXCEPT ![contextOf[t]] = [SignedOut EXCEPT !.client = Store(t).client]]
  /\ cookies' = NoCookies

AskRefresh(t, at) ==
  Ask(t, at, [NewRequest("refresh", "claim") EXCEPT
                !.token = Store(t).refresh, !.client = Store(t).client])

(* The effect of the signed-in shell: headers for /me, or signed out.      *)
Mount(t) ==
  /\ tabs[t].at = "mounting" /\ tabs[t].wait = 0
  /\ \/ /\ Store(t).access = "fresh"
        /\ Goes(t, "app")
        /\ UNCHANGED <<requests, store, cookies>>
     \/ /\ Store(t).access = "old"
        /\ AskRefresh(t, "mounting")
        /\ UNCHANGED <<store, cookies>>
     \/ /\ Store(t).access = "none"
        /\ ClearTokens(t)
        /\ Goes(t, "signedOut")
        /\ UNCHANGED requests
  /\ UNCHANGED <<tables, chosen, flows, consents, clientId, interrupted, events>>

(* Any other request of the app: getValidToken.                            *)
UseToken(t) ==
  /\ tabs[t].at = "app" /\ tabs[t].wait = 0
  /\ Store(t).access = "old"
  /\ AskRefresh(t, "app")
  /\ UNCHANGED <<tables, chosen, flows, consents, store, cookies, clientId, interrupted,
                 events>>

-----------------------------------------------------------------------------
(* Answers.                                                                *)

Forget(i) == requests' = Restrict(requests, DOMAIN requests \ {i})

(* Seeded bug: the token that was used is kept.                            *)
KeepRefresh(t, k) ==
  [Store(t) EXCEPT !.access = "fresh", !.refresh = IF @ = 0 THEN k ELSE @]

(* storeTokens.                                                            *)
StoreTokens(t, k) == [Store(t) EXCEPT !.access = "fresh", !.refresh = k]

ReceiveClient(t, i) ==
  /\ requests[i].kind = "register"
  /\ store' = [store EXCEPT ![contextOf[t]].client = requests[i].value]
  /\ clientId' = [clientId EXCEPT ![t] = requests[i].value]
  /\ Goes(t, "starting")
  /\ UNCHANGED cookies

ReceiveRedirect(t, i) ==
  /\ requests[i].kind = "callback"
  /\ IF flows[requests[i].flow].provider = "google" /\ requests[i].value # 0
     THEN Moves(t, "landed", requests[i].flow) ELSE Goes(t, "closed")
  /\ UNCHANGED <<store, cookies, clientId>>

ReceiveTokens(t, i) ==
  /\ requests[i].kind = "token"
  /\ IF requests[i].value # 0
     THEN /\ store' = [store EXCEPT ![contextOf[t]] = StoreTokens(t, requests[i].value)]
          /\ cookies' = [cookies EXCEPT !.verifier = 0]
          /\ Goes(t, "mounting")
     ELSE Goes(t, "signedOut") /\ UNCHANGED <<store, cookies>>
  /\ UNCHANGED clientId

(* The end of refreshAccessToken, in the effect or elsewhere.              *)
ReceiveRefreshed(t, i) ==
  /\ requests[i].kind = "refresh"
  /\ IF requests[i].value # 0
     THEN /\ store' = [store EXCEPT ![contextOf[t]] = StoreTokens(t, requests[i].value)]
          /\ UNCHANGED cookies
          /\ Goes(t, "app")
     ELSE /\ ClearTokens(t)
          /\ Goes(t, IF tabs[t].at = "mounting" THEN "signedOut" ELSE "app")
  /\ UNCHANGED clientId

Waiting(i) == {t \in Tabs : tabs[t].wait = i}

Receive(i) ==
  /\ requests[i].at = "reply"
  /\ Forget(i)
  /\ \/ Waiting(i) = {} /\ UNCHANGED browser
     \/ \E t \in Waiting(i) :
          \/ ReceiveClient(t, i) \/ ReceiveRedirect(t, i)
          \/ ReceiveTokens(t, i) \/ ReceiveRefreshed(t, i)
  /\ UNCHANGED <<tables, chosen, flows, consents, interrupted, events>>

-----------------------------------------------------------------------------
(* What may happen from outside.                                           *)

(* A tab is closed or left.  Its request goes on without it.               *)
Close(t) ==
  /\ Outside("close")
  /\ tabs[t].at # "closed"
  /\ Goes(t, "closed")
  /\ interrupted' = (interrupted \/ \E i \in DOMAIN requests :
                       requests[i].kind = "refresh" /\ tabs[t].wait = i)
  /\ UNCHANGED <<tables, chosen, flows, consents, requests, store, cookies, clientId>>

(* The worker or the network gives up a request.                           *)
Lose(i) ==
  /\ Outside("lose")
  /\ Forget(i)
  /\ tabs' = [t \in Tabs |->
                IF tabs[t].wait # i THEN tabs[t]
                ELSE [tabs[t] EXCEPT !.wait = 0, !.flow = 0,
                        !.at = IF @ = "returning" THEN "closed"
                               ELSE IF @ \in {"mounting", "app"} THEN "app"
                               ELSE "signedOut"]]
  /\ interrupted' = (interrupted \/ requests[i].kind = "refresh")
  /\ UNCHANGED <<tables, chosen, flows, consents, store, cookies, clientId>>

(* The callback address is requested again, by a reload.                   *)
Repeat(t) ==
  /\ Outside("repeat")
  /\ tabs[t].at = "returning"
  /\ Ask(t, "returning", CallbackOf(tabs[t].flow))
  /\ UNCHANGED <<tables, chosen, flows, consents, store, cookies, clientId, interrupted>>

(* Google's page is shown by another window than the one that asked for it.*)
Hop(t, other) ==
  /\ Outside("hop")
  /\ tabs[t].at = "google" /\ tabs[other].at = "closed"
  /\ contextOf[t] # contextOf[other]
  /\ tabs' = [tabs EXCEPT ![t] = [at |-> "signedOut", flow |-> 0, wait |-> 0],
                           ![other] = tabs[t]]
  /\ UNCHANGED <<tables, chosen, flows, consents, requests, store, cookies,
                 clientId, interrupted>>

(* A row's time is over.                                                   *)
Expire ==
  /\ Outside("expire")
  /\ \/ \E n \in states : /\ states' = states \ {n}
                          /\ UNCHANGED <<codes, tokens>>
     \/ \E n \in DOMAIN codes : /\ ~ codes[n].used
                                /\ codes' = [codes EXCEPT ![n].used = TRUE]
                                /\ UNCHANGED <<states, tokens>>
  /\ UNCHANGED <<clients, users, identities, credentials, chosen, flows, consents,
                 requests, browser, interrupted>>

(* An access token has less than five minutes left.                        *)
AgeAccess(c) ==
  /\ store[c].access = "fresh" /\ Len(tokens) < MaxTokens
  /\ store' = [store EXCEPT ![c].access = "old"]
  /\ UNCHANGED <<tables, chosen, flows, consents, requests, cookies, tabs,
                 clientId, interrupted, events>>

-----------------------------------------------------------------------------
(* At first there is nobody, or a user whose address is not known.         *)
Init ==
  /\ clients = 0
  /\ \/ users = <<>> /\ identities = [p \in {} |-> 0]
     \/ \E a \in Accounts :
          users = <<None>> /\ identities = [p \in {<<"google", a>>} |-> 1]
  /\ allowed \in SUBSET Accounts
  /\ flows = <<>> /\ states = {}
  /\ consents = [n \in {} |-> 0]
  /\ codes = [n \in {} |-> 0]
  /\ tokens = <<>>
  /\ credentials = [n \in {} |-> 0]
  /\ requests = [i \in {} |-> 0]
  /\ store = [c \in Contexts |-> SignedOut]
  /\ cookies = NoCookies
  /\ tabs = [t \in Tabs |-> [at |-> "closed", flow |-> 0, wait |-> 0]]
  /\ clientId = [t \in Tabs |-> 0]
  /\ contextOf \in Layouts
  /\ interrupted = FALSE
  /\ events = MaxEvents

RequestStep(i) ==
  \/ RegisterLookup(i) \/ RegisterInsert(i)
  \/ SelectState(i) \/ TakeState(i) \/ ExchangeAtGoogle(i)
  \/ FindIdentity(i) \/ FindOwner(i) \/ LinkIdentity(i) \/ CreateUser(i)
  \/ InsertCode(i) \/ StoreCredential(i)
  \/ ClaimCode(i) \/ ClaimToken(i) \/ IssueTokens(i)
  \/ Receive(i)

(* What goes on by itself.                                                 *)
Work ==
  \/ \E i \in DOMAIN requests : RequestStep(i)
  \/ \E t \in Tabs : Authorize(t) \/ Land(t) \/ Mount(t)

Next ==
  \/ Work
  \/ \E t \in Tabs : \/ Open(t) \/ StartLogin(t) \/ Connect(t) \/ UseToken(t)
                     \/ Close(t) \/ Repeat(t)
  \/ \E t \in Tabs, a \in Accounts : Consent(t, a)
  \/ \E t, other \in Tabs : Hop(t, other)
  \/ \E i \in DOMAIN requests : Lose(i)
  \/ \E c \in Contexts : AgeAccess(c)
  \/ Expire

(* Requests are carried out; nothing is assumed of the user.               *)
Spec == Init /\ [][Next]_vars /\ WF_vars(Work)

-----------------------------------------------------------------------------
(* Properties.                                                             *)

(* The variables have their types, rows refer to rows, and a tab waits     *)
(* only for a request that is under way.                                   *)
TypeOK ==
  /\ clients \in Nat
  /\ users \in Seq(Accounts \cup {None})
  /\ DOMAIN identities \subseteq Providers \X Accounts
  /\ \A p \in DOMAIN identities : identities[p] \in DOMAIN users
  /\ allowed \subseteq Accounts /\ contextOf \in Layouts
  /\ \A n \in DOMAIN flows : /\ flows[n].provider \in Providers
                             /\ flows[n].client \in 0 .. clients
                             /\ flows[n].credential \in {0} \cup DOMAIN credentials
  /\ Len(flows) <= MaxFlows
  /\ \A S \in {states, DOMAIN consents, DOMAIN codes, DOMAIN credentials} :
       S \subseteq DOMAIN flows
  /\ \A n \in DOMAIN consents : consents[n] \in [account : Accounts, used : BOOLEAN]
  /\ \A n \in DOMAIN codes : codes[n] \in [user : DOMAIN users, used : BOOLEAN]
  /\ \A k \in DOMAIN tokens :
       tokens[k] \in [user : DOMAIN users, flow : DOMAIN flows, live : BOOLEAN]
  /\ \A n \in DOMAIN credentials : credentials[n] \in DOMAIN users
  /\ DOMAIN requests \subseteq Ids
  /\ \A i \in DOMAIN requests : IsRequest(requests[i])
  /\ store \in [Contexts -> [client : 0 .. clients, access : {"none", "fresh", "old"},
                             refresh : {0} \cup DOMAIN tokens]]
  /\ cookies \in [state : {0} \cup DOMAIN flows, verifier : {0} \cup DOMAIN flows]
  /\ \A t \in Tabs : /\ tabs[t].at \in {"closed", "signedOut", "google", "app"} \cup Busy
                     /\ tabs[t].flow \in {0} \cup DOMAIN flows
                     /\ tabs[t].wait \in {0} \cup DOMAIN requests
  /\ clientId \in [Tabs -> 0 .. clients]
  /\ interrupted \in BOOLEAN
  /\ events \in 0 .. MaxEvents

(* Whoever signs in and connects, at the same time, with retries and with  *)
(* either provider: an account's address and its identities belong to one  *)
(* user, except an identity whose user was left without the address when   *)
(* another user took it.                                                   *)
LeftOut(p) == users[identities[p]] = None /\ OwnersOf(p[2]) # {}

OneUserPerAccount ==
  \A a \in Accounts :
    Cardinality(OwnersOf(a) \cup {identities[p] : p \in
        {p \in DOMAIN identities : p[2] = a /\ ~ LeftOut(p)}}) <= 1

(* A flow that ended well is worth one credential at a time: its unused    *)
(* code or one live refresh token, whatever is repeated or refreshed twice.*)
OneCredentialPerFlow ==
  \A n \in DOMAIN codes :
    Cardinality({k \in DOMAIN tokens : tokens[k].flow = n /\ tokens[k].live})
      + (IF codes[n].used THEN 0 ELSE 1) <= 1

(* Unless an answer was lost, the refresh token that is stored is live     *)
(* whenever no refresh is under way: several tabs that refresh and sign in *)
(* at once leave none behind that will be refused.                         *)
StoredTokenIsLive ==
  (\A i \in DOMAIN requests : requests[i].kind # "refresh") /\ ~ interrupted =>
    \A c \in Contexts : store[c].refresh # 0 => tokens[store[c].refresh].live

(* A code is never spent on a request that is then refused, in spite of    *)
(* logins in several tabs, unless two tabs have registered at once.        *)
CodesAreNotWasted ==
  \A i \in DOMAIN requests :
    At(i, "token", "claim") =>
      /\ requests[i].verifier = requests[i].flow
      /\ clients <= 1 => requests[i].client = flows[requests[i].flow].client

(* A login ends in the app once Google has sent the browser back, whatever *)
(* happened before, unless an outside event hits it or another tab signs   *)
(* in or refreshes at the same time: each of these deletes its cookies.    *)
Undisturbed(t) ==
  LET n == tabs[t].flow IN
  /\ tabs[t].at = "returning" /\ DOMAIN requests = {tabs[t].wait}
  /\ At(tabs[t].wait, "callback", "select")
  /\ flows[n].provider = "google" /\ consents[n].account \in allowed
  /\ n \in states /\ ~ consents[n].used /\ None \notin Range(users)
  /\ cookies = NewCookies(n) /\ Store(t).client = flows[n].client
  /\ events = 0

Interference(t) ==
  \E other \in Tabs \ {t} : tabs[other].at \in Busy \/ tabs[other].wait # 0

LoginSucceeds ==
  \A t \in Tabs : Undisturbed(t) ~> tabs[t].at = "app" \/ Interference(t)

(* "PKCE verifier and state are stored in cookies so they survive the      *)
(* cross-context hop": a tab that has both signs in.  It does not without  *)
(* the client id, which is not in a cookie (README, section 3).            *)
HopSurvives ==
  [][\A t \in Tabs :
       tabs[t].at = "landed" /\ cookies = NewCookies(tabs[t].flow)
         => tabs'[t].at # "signedOut"]_vars
=============================================================================
