SPECIFICATION Spec
CONSTANTS
  page = page
  other = other
  Clients = {page, other}
  Pages = {page, other}
  Edits = {e1}
  Single = {}
  Capacity = 1
  MaxLines <- LineBound
  MaxEvents = 3
  Origin = Origin
  NoData = NoData
  Empty = Empty
  None = None
INVARIANTS
  DocumentsHoldTheRecord
CHECK_DEADLOCK FALSE
