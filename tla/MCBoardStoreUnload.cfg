SPECIFICATION Spec
CONSTANTS
  t1 = t1
  t2 = t2
  ticker = ticker
  Nobody = Nobody
  NoRec = NoRec
  NoFile = NoFile
  HalfFile = HalfFile
  Threads = {t1, t2}
  Ticker = ticker
  Calls <- Evicting
  QuietUnload = FALSE
  MaxCalls = 3
  MaxRecs = 4
  MaxFaults = 0
  MaxCrashes = 0
INVARIANTS NoLostEdit
CHECK_DEADLOCK FALSE
