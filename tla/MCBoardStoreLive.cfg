SPECIFICATION FairSpec
CONSTANTS
  t1 = t1
  t2 = t2
  ticker = ticker
  Nobody = Nobody
  NoRec = NoRec
  NoFile = NoFile
  HalfFile = HalfFile
  Threads = {t1, t2}
  Ticker = ticker
  Calls <- Dirtying
  QuietUnload = TRUE
  MaxCalls = 2
  MaxRecs = 3
  MaxFaults = 1
  MaxCrashes = 1
PROPERTIES EditsGetSaved
CHECK_DEADLOCK FALSE
