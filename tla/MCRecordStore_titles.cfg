SPECIFICATION Spec
CONSTANTS
  a = a
  b = b
  c = c
  Requests = {q1, q2}
  Recs = {a, b}
  Fresh = {}
  Linked <- BLinksToA
  Kinds = {"update"}
  Bumps = {1}
  FieldKeys = {"id"}
  Cached = FALSE
  Connections = 3
  MaxItems = 1
  Absent = Absent
INVARIANT TitlesFollow
CHECK_DEADLOCK FALSE
