SPECIFICATION FairSpec
CONSTANTS
  a = a
  b = b
  c = c
  Requests = {q1, q2}
  Recs = {a, b}
  Fresh = {}
  Linked <- BLinksToA
  Kinds = {"update", "batchUpdate", "delete", "batchDelete"}
  Bumps = {1}
  FieldKeys = {"id", "name"}
  Cached = FALSE
  Connections = 3
  MaxItems = 2
  Absent = Absent
INVARIANTS TypeOK UncommittedUnseen NeverStuck
PROPERTIES Terminates StepsRunOut
CHECK_DEADLOCK FALSE
