SPECIFICATION FairSpec
CONSTANTS
  v = v
  j1 = j1
  j2 = j2
  m = m
  secret = secret
  other = other
  NoPassword = NoPassword
  ann = ann
  NoName = NoName
  Viewers = {v}
  Joiners = {j1, j2}
  Managers = {m}
  Passwords = {secret, other}
  Names = {ann}
  MaxCalls = 2
  Scenarios <- MCScenarios
INVARIANTS OneUserPerName TurnedAwayIfLost
PROPERTIES   ViewShows JoinerGetsIn
CHECK_DEADLOCK FALSE
