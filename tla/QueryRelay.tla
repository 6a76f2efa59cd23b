----------------------------- MODULE QueryRelay -----------------------------
(***************************************************************************)
(* How the session DO (src/session/do.ts) relays SQL from MCP clients to a *)
(* browser tab (handleQuery in frontend/src/sessionWs.ts) and the answer   *)
(* back.  The handler of /query waits for a promise; the promise's resolve *)
(* and reject are kept in the map pendingQueries, where the answer of the  *)
(* tab, the closing of its socket and a timer of 30 seconds find it.       *)
(*                                                                         *)
(* All handlers run without an await, but for the one of /query that ends  *)
(* when its promise is settled.  A query id is never used twice: it comes  *)
(* from crypto.randomUUID, as no caller in src/ passes a queryId.          *)
(***************************************************************************)
CONSTANTS Queries,   \* ids of the queries, one for each call to /query
          Sockets    \* session WebSockets, reused for later connections

VARIABLES conn,            \* none, open, or gone: lost, the DO unaware
          fresh,           \* has it pinged within STALE_AFTER_MS?
          pendingQueries,  \* the map, from query ids to the socket
          timers,          \* queries whose timer is armed
          call,            \* what the caller of /query has got
          message          \* of each query: where its message is, and on
                           \* which socket ("down" includes its execution)

socketVars == <<conn, fresh>>
vars == <<socketVars, pendingQueries, timers, call, message>>

Nowhere == [at |-> "nowhere"]
Message == [at : {"down", "result", "error"}, s : Sockets]

TypeOK ==
  /\ conn \in [Sockets -> {"none", "open", "gone"}]
  /\ fresh \in [Sockets -> BOOLEAN]
  /\ DOMAIN pendingQueries \subseteq Queries
  /\ pendingQueries \in [DOMAIN pendingQueries -> Sockets]
  /\ timers \subseteq Queries
  /\ call \in [Queries -> {"new", "waiting", "result", "query_failed",
                           "no_session", "lost"}]
  /\ message \in [Queries -> Message \cup {Nowhere}]

Init ==
  /\ conn = [s \in Sockets |-> "none"]
  /\ fresh = [s \in Sockets |-> FALSE]
  /\ pendingQueries = [q \in {} |-> 0]
  /\ timers = {}
  /\ call = [q \in Queries |-> "new"]
  /\ message = [q \in Queries |-> Nowhere]

-----------------------------------------------------------------------------
(* Helpers.                                                                *)

Live(s) == conn[s] # "none" /\ fresh[s]

(* pendingQueries.delete of the queries Q.                                 *)
Delete(Q) ==
  pendingQueries' = [q \in DOMAIN pendingQueries \ Q |-> pendingQueries[q]]

(* Seeded bug: clearTimeout is forgotten.                                  *)
SettleOnly(Q, outcome) ==
  /\ call' = [q \in Queries |->
                IF q \in Q /\ call[q] = "waiting" THEN outcome ELSE call[q]]
  /\ UNCHANGED timers

(* resolve and reject: only the first settles the promise and ends the     *)
(* waiting call, both clear the timer.                                     *)
Settle(Q, outcome) ==
  /\ call' = [q \in Queries |->
                IF q \in Q /\ call[q] = "waiting" THEN outcome ELSE call[q]]
  /\ timers' = timers \ Q

(* What is under way on socket s is lost, but for the queries Q.           *)
Drop(s, Q) ==
  message' = [q \in Queries |->
                IF message[q] # Nowhere /\ message[q].s = s /\ q \notin Q
                THEN Nowhere ELSE message[q]]

-----------------------------------------------------------------------------
(* handleQuery, the handler of POST /query.                                *)

NoSession(q) ==
  /\ call[q] = "new"
  /\ \A s \in Sockets : ~ Live(s)
  /\ call' = [call EXCEPT ![q] = "no_session"]
  /\ UNCHANGED <<socketVars, pendingQueries, timers, message>>

(* The first of the live sockets gets the query, whichever that is.        *)
Ask(q) ==
  /\ call[q] = "new"
  /\ \E s \in Sockets :
       /\ Live(s)
       /\ pendingQueries' = [p \in DOMAIN pendingQueries \cup {q} |->
                               IF p = q THEN s ELSE pendingQueries[p]]
       /\ message' = [message EXCEPT ![q] = IF conn[s] = "open"
                                            THEN [at |-> "down", s |-> s] ELSE @]
  /\ timers' = timers \cup {q}
  /\ call' = [call EXCEPT ![q] = "waiting"]
  /\ UNCHANGED socketVars

(* ws.send throws: entry and timer are taken back.                         *)
AskFails(q) ==
  /\ call[q] = "new"
  /\ \E s \in Sockets : Live(s) /\ conn[s] = "gone"
  /\ call' = [call EXCEPT ![q] = "query_failed"]
  /\ UNCHANGED <<socketVars, pendingQueries, timers, message>>

(* Seeded bug: the timer removes the entry and rejects nothing.            *)
TimeoutSilently(q) ==
  /\ q \in timers
  /\ Delete({q})
  /\ timers' = timers \ {q}
  /\ UNCHANGED <<socketVars, call, message>>

Timeout(q) ==
  /\ q \in timers
  /\ Delete({q})
  /\ Settle({q}, "query_failed")
  /\ UNCHANGED <<socketVars, message>>

-----------------------------------------------------------------------------
(* The tab: runs the query for as long as it takes.                        *)
TabAnswers(q, type) ==
  /\ message[q].at = "down"
  /\ message' = [message EXCEPT ![q].at = type]
  /\ UNCHANGED <<socketVars, pendingQueries, timers, call>>

(* webSocketMessage: the answer to a query that is not pending is dropped. *)
Receive(q, type, outcome) ==
  /\ message[q].at = type
  /\ message' = [message EXCEPT ![q] = Nowhere]
  /\ \/ /\ q \in DOMAIN pendingQueries
        /\ Delete({q})
        /\ Settle({q}, outcome)
     \/ /\ q \notin DOMAIN pendingQueries
        /\ UNCHANGED <<pendingQueries, timers, call>>
  /\ UNCHANGED socketVars

ReceiveResult(q) == Receive(q, "result", "result")
ReceiveError(q) == Receive(q, "error", "query_failed")

-----------------------------------------------------------------------------
(* Connections.                                                            *)

Connect(s) ==
  /\ conn[s] = "none"
  /\ conn' = [conn EXCEPT ![s] = "open"]
  /\ fresh' = [fresh EXCEPT ![s] = TRUE]
  /\ UNCHANGED <<pendingQueries, timers, call, message>>

(* Of the answers under way some still arrive.                             *)
Disconnect(s) ==
  /\ conn[s] = "open"
  /\ conn' = [conn EXCEPT ![s] = "gone"]
  /\ \E Q \in SUBSET {q \in Queries : message[q].at \in {"result", "error"}} :
       Drop(s, Q)
  /\ UNCHANGED <<fresh, pendingQueries, timers, call>>

(* webSocketClose and webSocketError: rejectPendingForSocket.              *)
Close(s) ==
  LET Q == {q \in DOMAIN pendingQueries : pendingQueries[q] = s}
  IN  /\ conn[s] = "gone"
      /\ \A q \in Queries : message[q] # Nowhere => message[q].s # s
      /\ conn' = [conn EXCEPT ![s] = "none"]
      /\ fresh' = [fresh EXCEPT ![s] = FALSE]
      /\ Delete(Q)
      /\ Settle(Q, "query_failed")
      /\ UNCHANGED message

GoStale(s) ==
  /\ Live(s)
  /\ fresh' = [fresh EXCEPT ![s] = FALSE]
  /\ UNCHANGED <<conn, pendingQueries, timers, call, message>>

Ping(s) ==
  /\ conn[s] = "open"
  /\ fresh' = [fresh EXCEPT ![s] = TRUE]
  /\ UNCHANGED <<conn, pendingQueries, timers, call, message>>

(* The session DO is evicted or redeployed: its memory is gone, sockets    *)
(* break, and the calls that wait for it end with an exception.            *)
Restart ==
  /\ conn' = [s \in Sockets |-> "none"]
  /\ fresh' = [s \in Sockets |-> FALSE]
  /\ pendingQueries' = [q \in {} |-> 0]
  /\ timers' = {}
  /\ call' = [q \in Queries |-> IF call[q] = "waiting" THEN "lost" ELSE call[q]]
  /\ message' = [q \in Queries |-> Nowhere]

-----------------------------------------------------------------------------
QueryNext ==
  \E q \in Queries :
    \/ NoSession(q) \/ Ask(q) \/ AskFails(q) \/ Timeout(q)
    \/ \E type \in {"result", "error"} : TabAnswers(q, type)
    \/ ReceiveResult(q) \/ ReceiveError(q)

SocketNext ==
  \E s \in Sockets : Connect(s) \/ Disconnect(s) \/ Close(s) \/ GoStale(s) \/ Ping(s)

Next == QueryNext \/ SocketNext \/ Restart

(* Only the timers are relied upon: a tab may never answer.                *)
Spec == Init /\ [][Next]_vars /\ \A q \in Queries : WF_vars(Timeout(q))

-----------------------------------------------------------------------------
(* Properties.                                                             *)

(* A call waits exactly as long as its promise can be found in the map and *)
(* a timer is armed for it: no call is forgotten, no entry or timer leaks, *)
(* whatever the order of answer, time-out, failing send and closing.       *)
WaitingIsTracked ==
  LET waiting == {q \in Queries : call[q] = "waiting"}
  IN  DOMAIN pendingQueries = waiting /\ timers = waiting

(* No call is left waiting for a socket that was closed.                   *)
PendingOnConnected ==
  \A q \in DOMAIN pendingQueries : conn[pendingQueries[q]] # "none"

(* The session DO provides the query service.                              *)
QS == INSTANCE QueryService
ImplementsQueryService == QS!Spec
=============================================================================
