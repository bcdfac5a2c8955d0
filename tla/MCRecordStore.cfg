SPECIFICATION Spec
CONSTANTS
  a = a
  b = b
  c = c
  Requests = {q1, q2}
  Recs = {a, b, c}
  Fresh = {c}
  Linked <- BLinksToA
  Kinds = {"create", "update", "batchUpdate"}
  Bumps = {1}
  FieldKeys = {"id"}
  Cached = TRUE
  Connections = 3
  MaxItems = 2
  Absent = Absent
INVARIANTS NoLostUpdate AnnouncedVersionsDiffer BatchAllOrNothing
PROPERTIES ImplementsVersionedTable ClientVersionRespected
CHECK_DEADLOCK FALSE
