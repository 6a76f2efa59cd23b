------------------------- MODULE QueryRelay_proofs --------------------------
(***************************************************************************)
(* Proofs about the query relay, for any number of calls and sockets: the  *)
(* bookkeeping of waiting calls is exact, and every step of the relay is a *)
(* step of the query service.  That each call is answered eventually is    *)
(* left to the model checker.                                              *)
(***************************************************************************)
EXTENDS QueryRelay, TLAPS

(* Every variable keeps its type.                                          *)
THEOREM TypeCorrect == Spec => []TypeOK
<1>1. Init => TypeOK
  BY DEF Init, TypeOK
<1>2. TypeOK /\ [Next]_vars => TypeOK'
  <2> SUFFICES ASSUME TypeOK, [Next]_vars
               PROVE  TypeOK'
    OBVIOUS
  <2> USE DEF TypeOK
  <2>1. ASSUME NEW q \in Queries, NoSession(q) \/ AskFails(q)
        PROVE  TypeOK'
    BY <2>1 DEF NoSession, AskFails, socketVars
  <2>2. ASSUME NEW q \in Queries, Ask(q)
        PROVE  TypeOK'
    <3>1. PICK s \in Sockets :
            /\ pendingQueries' = [p \in DOMAIN pendingQueries \cup {q} |->
                                    IF p = q THEN s ELSE pendingQueries[p]]
            /\ message' = [message EXCEPT ![q] = IF conn[s] = "open"
                                                 THEN [at |-> "down", s |-> s] ELSE @]
      BY <2>2 DEF Ask
    <3>2. message' \in [Queries -> Message \cup {Nowhere}]
      BY <3>1 DEF Message
    <3> QED
      BY <2>2, <3>1, <3>2 DEF Ask, socketVars
  <2>3. ASSUME NEW q \in Queries, Timeout(q)
        PROVE  TypeOK'
    BY <2>3 DEF Timeout, Delete, Settle, socketVars
  <2>4. ASSUME NEW q \in Queries, NEW type \in {"result", "error"}, TabAnswers(q, type)
        PROVE  TypeOK'
    <3>1. message[q] \in Message
      BY <2>4 DEF TabAnswers, Nowhere
    <3>2. message' \in [Queries -> Message \cup {Nowhere}]
      BY <2>4, <3>1 DEF TabAnswers, Message
    <3> QED
      BY <2>4, <3>2 DEF TabAnswers, socketVars
  <2>5. ASSUME NEW q \in Queries, ReceiveResult(q) \/ ReceiveError(q)
        PROVE  TypeOK'
    BY <2>5 DEF ReceiveResult, ReceiveError, Receive, Delete, Settle, socketVars
  <2>6. ASSUME NEW s \in Sockets, Connect(s) \/ GoStale(s) \/ Ping(s)
        PROVE  TypeOK'
    BY <2>6 DEF Connect, GoStale, Ping
  <2>7. ASSUME NEW s \in Sockets, Disconnect(s)
        PROVE  TypeOK'
    BY <2>7 DEF Disconnect, Drop
  <2>8. ASSUME NEW s \in Sockets, Close(s)
        PROVE  TypeOK'
    BY <2>8 DEF Close, Delete, Settle
  <2>9. CASE Restart
    BY <2>9 DEF Restart
  <2>10. CASE UNCHANGED vars
    BY <2>10 DEF vars, socketVars
  <2> QED
    BY <2>1, <2>2, <2>3, <2>4, <2>5, <2>6, <2>7, <2>8, <2>9, <2>10
    DEF Next, QueryNext, SocketNext
<1> QED
  BY <1>1, <1>2, PTL DEF Spec

-----------------------------------------------------------------------------
(* The inductive invariant: what is in the map is on a connected socket,   *)
(* and the map, the timers and the waiting calls are the same set.         *)
Tracked == TypeOK /\ WaitingIsTracked /\ PendingOnConnected

(* Settling the promises of Q together with deleting their entries.        *)
LEMMA SettledTogether ==
  ASSUME Tracked, NEW Q, NEW outcome, outcome # "waiting",
         Delete(Q), Settle(Q, outcome)
  PROVE  WaitingIsTracked'
<1>1. {q \in Queries : call'[q] = "waiting"} = {q \in Queries : call[q] = "waiting"} \ Q
  BY DEF Settle
<1>2. DOMAIN pendingQueries' = DOMAIN pendingQueries \ Q /\ timers' = timers \ Q
  BY DEF Settle, Delete
<1> QED
  BY <1>1, <1>2 DEF Tracked, WaitingIsTracked

LEMMA TrackedStep == Tracked /\ TypeOK' /\ [Next]_vars => Tracked'
<1> SUFFICES ASSUME Tracked, TypeOK', [Next]_vars
             PROVE  WaitingIsTracked' /\ PendingOnConnected'
  BY DEF Tracked
<1> USE DEF Tracked, TypeOK, WaitingIsTracked, PendingOnConnected
<1>1. ASSUME NEW q \in Queries, NoSession(q) \/ AskFails(q)
      PROVE  WaitingIsTracked' /\ PendingOnConnected'
  <2>1. {p \in Queries : call'[p] = "waiting"} = {p \in Queries : call[p] = "waiting"}
    BY <1>1 DEF NoSession, AskFails
  <2> QED
    BY <1>1, <2>1 DEF NoSession, AskFails, socketVars
<1>2. ASSUME NEW q \in Queries, Ask(q)
      PROVE  WaitingIsTracked' /\ PendingOnConnected'
  BY <1>2 DEF Ask, Live, socketVars
<1>3. ASSUME NEW q \in Queries, Timeout(q)
      PROVE  WaitingIsTracked' /\ PendingOnConnected'
  <2>1. WaitingIsTracked'
    BY <1>3, SettledTogether DEF Timeout
  <2> QED
    BY <1>3, <2>1 DEF Timeout, Delete, socketVars
<1>4. ASSUME NEW q \in Queries, ReceiveResult(q) \/ ReceiveError(q)
      PROVE  WaitingIsTracked' /\ PendingOnConnected'
  <2>1. CASE q \in DOMAIN pendingQueries
    <3>1. WaitingIsTracked'
      BY <1>4, <2>1, SettledTogether DEF ReceiveResult, ReceiveError, Receive
    <3> QED
      BY <1>4, <2>1, <3>1 DEF ReceiveResult, ReceiveError, Receive, Delete, socketVars
  <2>2. CASE q \notin DOMAIN pendingQueries
    BY <1>4, <2>2 DEF ReceiveResult, ReceiveError, Receive, socketVars
  <2> QED
    BY <2>1, <2>2
<1>5. ASSUME NEW s \in Sockets, Close(s)
      PROVE  WaitingIsTracked' /\ PendingOnConnected'
  <2>1. WaitingIsTracked'
    BY <1>5, SettledTogether DEF Close
  <2> QED
    BY <1>5, <2>1 DEF Close, Delete
<1>6. ASSUME UNCHANGED <<pendingQueries, timers, call>>,
             \A s \in Sockets : conn[s] # "none" => conn'[s] # "none"
      PROVE  WaitingIsTracked' /\ PendingOnConnected'
  BY <1>6
<1>7. ASSUME NEW q \in Queries, NEW type, TabAnswers(q, type)
      PROVE  WaitingIsTracked' /\ PendingOnConnected'
  BY <1>6, <1>7 DEF TabAnswers, socketVars
<1>8. ASSUME NEW s \in Sockets, Connect(s) \/ Disconnect(s) \/ GoStale(s) \/ Ping(s)
      PROVE  WaitingIsTracked' /\ PendingOnConnected'
  BY <1>6, <1>8 DEF Connect, Disconnect, GoStale, Ping
<1>9. CASE Restart
  BY <1>9 DEF Restart
<1>10. CASE UNCHANGED vars
  BY <1>6, <1>10 DEF vars, socketVars
<1> QED
  BY <1>1, <1>2, <1>3, <1>4, <1>5, <1>7, <1>8, <1>9, <1>10
  DEF Next, QueryNext, SocketNext

LEMMA AlwaysTracked == Spec => []Tracked
<1>1. Init => WaitingIsTracked /\ PendingOnConnected
  BY DEF Init, WaitingIsTracked, PendingOnConnected
<1>2. TypeOK /\ WaitingIsTracked /\ PendingOnConnected => Tracked
  BY DEF Tracked
<1> QED
  BY <1>1, <1>2, TypeCorrect, TrackedStep, PTL DEF Spec

(* A call waits exactly while its promise is in the map and its timer is   *)
(* armed: no caller of /query is forgotten and nothing leaks.              *)
THEOREM CallsAreTracked == Spec => []WaitingIsTracked
<1>1. Tracked => WaitingIsTracked
  BY DEF Tracked
<1> QED
  BY <1>1, AlwaysTracked, PTL

(* No caller of /query waits for a socket that was closed.                 *)
THEOREM NobodyWaitsForClosed == Spec => []PendingOnConnected
<1>1. Tracked => PendingOnConnected
  BY DEF Tracked
<1> QED
  BY <1>1, AlwaysTracked, PTL

-----------------------------------------------------------------------------
(* A step that changes some waiting calls to final outcomes is an Answer.  *)
LEMMA AnswerStep ==
  ASSUME TypeOK, TypeOK', NEW Q \in SUBSET Queries,
         \A q \in Q : call[q] = "waiting" /\ call'[q] \in {"result", "query_failed", "lost"},
         \A q \in Queries \ Q : call'[q] = call[q]
  PROVE  QS!Next
<1> DEFINE outcomes == {"result", "query_failed", "lost"}
           f == [q \in Q |-> call'[q]]
<1>1. f \in [Q -> outcomes]
  OBVIOUS
<1>2. call' = [q \in Queries |-> IF q \in Q THEN f[q] ELSE call[q]]
  BY DEF TypeOK
<1>3. QS!Set(Q, outcomes)
  BY <1>1, <1>2 DEF QS!Set
<1> QED
  BY <1>3 DEF QS!Next, QS!Answer

(* The same for the first answer to a new call.                            *)
LEMMA AskStep ==
  ASSUME TypeOK, NEW q \in Queries, call[q] = "new",
         NEW x \in {"waiting", "query_failed", "no_session"},
         call' = [call EXCEPT ![q] = x]
  PROVE  QS!Next
<1> DEFINE f == [p \in {q} |-> x]
<1>1. /\ f \in [{q} -> {"waiting", "query_failed", "no_session"}]
      /\ call' = [p \in Queries |-> IF p \in {q} THEN f[p] ELSE call[p]]
  BY DEF TypeOK
<1>2. QS!Set({q}, {"waiting", "query_failed", "no_session"})
  BY <1>1 DEF QS!Set
<1> QED
  BY <1>2 DEF QS!Next, QS!Ask

(* Safety of the query service: each call gets one outcome, which no late  *)
(* answer, time-out, closing socket or restart changes again.              *)
THEOREM EachCallIsAnsweredOnce == Spec => QS!Init /\ [][QS!Next]_call
<1>1. Init => QS!Init
  BY DEF Init, QS!Init
<1>2. TypeOK /\ TypeOK' /\ [Next]_vars => [QS!Next]_call
  <2> SUFFICES ASSUME TypeOK, TypeOK', [Next]_vars
               PROVE  QS!Next \/ UNCHANGED call
    OBVIOUS
  <2>1. ASSUME NEW q \in Queries, NoSession(q) \/ AskFails(q) \/ Ask(q)
        PROVE  QS!Next
    BY <2>1, AskStep DEF NoSession, AskFails, Ask
  <2>2. ASSUME NEW Q \in SUBSET Queries, NEW x \in {"result", "query_failed"}, Settle(Q, x)
        PROVE  QS!Next
    <3> DEFINE W == {q \in Q : call[q] = "waiting"}
    <3>1. /\ \A q \in W : call'[q] = x
          /\ \A q \in Queries \ W : call'[q] = call[q]
      BY <2>2 DEF Settle
    <3> QED
      BY <3>1, AnswerStep
  <2>3. ASSUME NEW q \in Queries, Timeout(q) \/ ReceiveResult(q) \/ ReceiveError(q)
        PROVE  QS!Next \/ UNCHANGED call
    BY <2>2, <2>3 DEF Timeout, ReceiveResult, ReceiveError, Receive
  <2>4. ASSUME NEW s \in Sockets, Close(s)
        PROVE  QS!Next
    <3>1. {q \in DOMAIN pendingQueries : pendingQueries[q] = s} \in SUBSET Queries
      BY DEF TypeOK
    <3> QED
      BY <2>2, <2>4, <3>1 DEF Close
  <2>5. CASE Restart
    <3> DEFINE W == {q \in Queries : call[q] = "waiting"}
    <3>1. /\ \A q \in W : call'[q] = "lost"
          /\ \A q \in Queries \ W : call'[q] = call[q]
      BY <2>5 DEF Restart
    <3> QED
      BY <3>1, AnswerStep
  <2>6. ASSUME NEW s \in Sockets, Connect(s) \/ Disconnect(s) \/ GoStale(s) \/ Ping(s)
        PROVE  UNCHANGED call
    BY <2>6 DEF Connect, Disconnect, GoStale, Ping
  <2>7. ASSUME NEW q \in Queries, NEW type, TabAnswers(q, type)
        PROVE  UNCHANGED call
    BY <2>7 DEF TabAnswers
  <2> QED
    BY <2>1, <2>3, <2>4, <2>5, <2>6, <2>7 DEF Next, QueryNext, SocketNext, vars
<1> QED
  BY <1>1, <1>2, TypeCorrect, PTL DEF Spec
=============================================================================
