---- MODULE MCStorage ----
EXTENDS Storage

\* Secrets are named after the bucket, without its punctuation.
CleanName == [n \in Names |-> IF n = "r2-bound" THEN "r2_bound" ELSE n]

Row(name, type) == [name |-> name, type |-> type, live |-> TRUE]
Begin(first, kinds, names, q, outside, e) ==
  [rows |-> first, kinds |-> kinds, names |-> names, queries |-> q,
   outside |-> outside, events |-> e,
   edited |-> IF "feed" \in names THEN {"feed", "news"} ELSE {"lake", "pond"}]
Any == {"lose", "roam", "edit"}
Reading == {"query", "register", "view"}

\* Views and queries, of one kind of backend or of two; and writes.
Cases ==
  {Begin(<<Row("lake", "s3")>>, Reading, {"lake"}, 3, {}, 0),
   Begin(<<Row("lake", "s3")>>, Reading, {"lake"}, 2, Any, 1),
   Begin(<<Row("feed", "http")>>, Reading, {"feed"}, 3, Any, 1),
   Begin(<<Row("feed", "http"), Row("feed", "http")>>, {"register", "view"}, {"feed"}, 3, {"edit"}, 1),
   Begin(<<Row("feed", "google"), Row("feed", "http")>>, {"query"}, {"feed"}, 2, {"edit"}, 2),
   Begin(<<Row("lake", "s3"), Row("feed", "http")>>, {"query"}, {"lake", "feed"}, 2, {}, 0),
   Begin(<<>>, {"write"}, {"r2-bound"}, 2, {"lose"}, 1),
   Begin(<<Row("lake", "s3")>>, {"write"}, {"lake"}, 2, {"edit"}, 2),
   Begin(<<Row("lake", "s3")>>, {"query"}, {"lake"}, 2, {"edit"}, 1),
   Begin(<<Row("lake", "sheet")>>, {"query", "write"}, {"lake"}, 2, {}, 0),
   Begin(<<Row("lake", "bound")>>, {"query"}, {"lake", "r2-bound"}, 1, {}, 0)}
====
