\* One name of each kind, two queries at a time.
SPECIFICATION Spec
CONSTANTS
  Names = {"r2-bound", "lake", "pond", "feed", "news"}
  Feeds = {"feed", "news"}
  BuiltIn = {"r2-bound"}
  Clean <- CleanName
  Starts <- Cases
  Types = {"s3", "http", "google"}
  Places = {"here", "there"}
  MaxChecks = 2
  MaxTasks = 2
  MaxQueries = 3
  MaxRows = 2
  MaxEvents = 2
INVARIANTS TypeOK NamesHoldForAnHour ObjectsAreWhole
PROPERTIES QueriesAreServed ViewsExpireWithCredentials
\* The tab rests between queries.
CHECK_DEADLOCK FALSE
