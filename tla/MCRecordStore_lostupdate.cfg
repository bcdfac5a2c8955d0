SPECIFICATION Spec
CONSTANTS
  a = a
  b = b
  c = c
  Requests = {q1, q2}
  Recs = {a}
  Fresh = {}
  Linked <- NoLinks
  Kinds = {"update"}
  Bumps = {1, 2}
  FieldKeys = {"id"}
  Cached = FALSE
  Connections = 3
  MaxItems = 1
  Absent = Absent
PROPERTY ReplacesWhatWasRead
CHECK_DEADLOCK FALSE
