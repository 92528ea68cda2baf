SPECIFICATION Spec
CONSTANTS
  ObjIds = {a, b, k}
  Vals = {v0}
  NoId = NoId
  Absent = Absent
  Edits <- CascadeEdits
INVARIANTS TypeOK SidesAgree
PROPERTIES DeleteDetaches
