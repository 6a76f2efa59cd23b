\* One job and a trigger over two tables and three instants.
SPECIFICATION Spec
CONSTANTS
  Tables = {t1, t2}
  Jobs = {j1}
  Triggers = {g1}
  Uris = {u1}
  MaxTime = 3
  MaxSnapshots = 3
SYMMETRY CatalogSymmetry
INVARIANTS TablesHaveSnapshots LastCommitIsLatest NoMissedCommit
PROPERTY ImplementsJobQueue
