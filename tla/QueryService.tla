---------------------------- MODULE QueryService ----------------------------
(***************************************************************************)
(* What the MCP tool run_query sees of the session DO: each call to /query *)
(* gets exactly one outcome, and gets it eventually.                       *)
(***************************************************************************)
CONSTANT Queries

VARIABLE call

(* "lost" stands for the exception that the caller sees if the session DO  *)
(* goes away, the others for the responses 200, 500 and 503.               *)
Outcomes == {"result", "query_failed", "no_session", "lost"}

Init == call = [q \in Queries |-> "new"]

Set(Q, outcomes) ==
  \E f \in [Q -> outcomes] :
    call' = [q \in Queries |-> IF q \in Q THEN f[q] ELSE call[q]]

Ask(q) == call[q] = "new" /\ Set({q}, {"waiting", "query_failed", "no_session"})

(* Several calls may get their outcome at once: their socket was closed.   *)
Answer(Q) ==
  /\ \A q \in Q : call[q] = "waiting"
  /\ Set(Q, {"result", "query_failed", "lost"})

Next == (\E q \in Queries : Ask(q)) \/ (\E Q \in SUBSET Queries : Answer(Q))

Spec == Init /\ [][Next]_call /\ \A q \in Queries : WF_call(Answer({q}))
=============================================================================
