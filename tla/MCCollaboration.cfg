SPECIFICATION FairSpec
CONSTANTS
  page = page
  other = other
  Clients = {page, other}
  Pages = {page}
  Edits = {e1, e2}
  Single = {e1}
  Capacity = 1
  MaxLines <- LineBound
  MaxEvents = 3
  Origin = Origin
  NoData = NoData
  Empty = Empty
  None = None
INVARIANTS
  TypeOK
  LatestArrives
  HoldsCommitted
  RowFollowsDocument
  RefusedEditIsRemoved
PROPERTIES
  AnnouncedEditsArrive
CHECK_DEADLOCK FALSE
