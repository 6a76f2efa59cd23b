\* Three calls and two tabs.
SPECIFICATION Spec
CONSTANTS
  Queries = {q1, q2, q3}
  Sockets = {s1, s2}
INVARIANT WaitingIsTracked
PROPERTY ImplementsQueryService
