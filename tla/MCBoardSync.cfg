SPECIFICATION Spec
CONSTANTS
  c1 = c1
  c2 = c2
  mcp = mcp
  a = a
  b = b
  k = k
  v0 = v0
  v1 = v1
  v2 = v2
  NoId = NoId
  Absent = Absent
  NoConn = NoConn
  ObjIds = {a, b, k}
  Vals = {v0, v1, v2}
  Clients = {c1}
  Agent = mcp
  Slots = {1, 2}
  EditsOf <- OneWriter
  LiveEditsOf <- NoLive
  InitDoc <- MCDoc
  SendBuffer = 2
  RecentOps = 1
  MaxOps = 3
  MaxBatch = 2
  MaxDrops = 1
  MaxRooms = 2
  MaxRestores = 0
INVARIANTS TypeOK NoLostCommit AnswersTrue AckComing CommitOrder 
CHECK_DEADLOCK FALSE
