SPECIFICATION Spec
CONSTANTS
  c1 = c1
  c2 = c2
  mcp = mcp
  a = a
  b = b
  k = k
  v0 = v0
  v1 = v1
  v2 = v2
  NoId = NoId
  Absent = Absent
  NoConn = NoConn
  ObjIds = {a, b, k}
  Vals = {v0, v1, v2}
  Clients = {c1}
  Agent = mcp
  Slots = {1}
  EditsOf <- OneWriter
  LiveEditsOf <- NoLive
  InitDoc <- MCDoc
  SendBuffer = 9
  RecentOps = 9
  MaxOps = 1
  MaxBatch = 2
  MaxDrops = 0
  MaxRooms = 1
  MaxRestores = 0
INVARIANTS PeersMissNothing
CHECK_DEADLOCK FALSE
