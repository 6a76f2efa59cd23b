\* Two tabs of one browser, or an installed app and a tab, an account that may sign in or not.
SPECIFICATION Spec
CONSTANTS
  Accounts = {g}
  Tabs = {t1, t2}
  t1 = t1
  t2 = t2
  c1 = c1
  c2 = c2
  Contexts = {c1, c2}
  Layouts <- OneOrTwo
  None = None
  MaxFlows = 2
  MaxRequests = 2
  MaxTokens = 2
  Events = {"close", "repeat", "lose", "expire", "hop"}
  MaxEvents = 1
INVARIANTS TypeOK OneUserPerAccount OneCredentialPerFlow StoredTokenIsLive CodesAreNotWasted
PROPERTY LoginSucceeds
\* The system rests when the tabs are in the app and no event is left.
CHECK_DEADLOCK FALSE
