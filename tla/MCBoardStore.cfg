SPECIFICATION Spec
CONSTANTS
  t1 = t1
  t2 = t2
  ticker = ticker
  Nobody = Nobody
  NoRec = NoRec
  NoFile = NoFile
  HalfFile = HalfFile
  Threads = {t1, t2}
  Ticker = ticker
  Calls <- AllCalls
  QuietUnload = TRUE
  MaxCalls = 3
  MaxRecs = 3
  MaxFaults = 1
  MaxCrashes = 1
SYMMETRY Symmetry
INVARIANTS TypeOK CleanIsSaved NoLostEdit RestoreUndoable ExportComplete 
CHECK_DEADLOCK FALSE
