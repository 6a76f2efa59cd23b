\* One kind of row in a behaviour, three or four acts of users and agents in
\* one or two windows, three calls at a time, one failure of the network.
SPECIFICATION Spec
CONSTANTS
  w1 = w1
  w2 = w2
  Windows = {w1, w2}
  Starts <- StartsOfOneKind
  None = None
  MaxTries = 2
  MaxCalls = 3
  MaxActs = 4
  MaxEvents = 1
INVARIANTS
  TypeOK
  EveryVersionIsKept
  SlugsFailOnlyInARace
  EditorShowsTriggers
  TabBarIsSound
\* The windows rest when the acts are used up.
CHECK_DEADLOCK FALSE
