---- MODULE MCWorkbench ----
EXTENDS Workbench

CONSTANTS w1, w2

\* One kind of row in a behaviour; two dashboards may want one slug.
Begin(kinds, open, who, a, e) ==
  [kinds |-> kinds, windows |-> open, others |-> who, acts |-> a, events |-> e]
StartsOfOneKind ==
  {Begin(<<"dashboard", "dashboard">>, <<>>, {"agent"}, 3, 0),
   Begin(<<"dashboard">>, <<w1>>, {"agent", "panels"}, 3, 1),
   Begin(<<"transform">>, <<w1>>, {}, 4, 1),
   Begin(<<"transform">>, <<w1>>, {"agent", "panels"}, 3, 1),
   Begin(<<"transform">>, <<w1, w2>>, {}, 3, 1),
   Begin(<<"saved">>, <<w1>>, {}, 4, 1)}
    \cup {Begin(<<kind>>, open, {"panels"}, 3, 1) :
             kind \in {"backend", "cred", "job"}, open \in {<<w1>>, <<w1, w2>>}}
====
