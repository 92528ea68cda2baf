SPECIFICATION Spec
CONSTANTS
  c1 = c1
  c2 = c2
  mcp = mcp
  a = a
  b = b
  k = k
  v0 = v0
  v1 = v1
  v2 = v2
  NoId = NoId
  Absent = Absent
  NoConn = NoConn
  ObjIds = {a, b, k}
  Vals = {v0, v1, v2}
  Clients = {c1}
  Agent = mcp
  Slots = {1, 2}
  EditsOf <- Alone
  LiveEditsOf <- Dragging
  InitDoc <- MCDoc
  SendBuffer = 2
  RecentOps = 9
  MaxOps = 2
  MaxBatch = 1
  MaxDrops = 1
  MaxRooms = 1
  MaxRestores = 1
INVARIANTS AckComing AppliedAtMostOnce
CHECK_DEADLOCK FALSE
