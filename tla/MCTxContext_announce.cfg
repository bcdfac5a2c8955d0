SPECIFICATION Spec
CONSTANTS
  Txs = {t1}
  Rows = {r1, r2}
  MaxRetries = 1
  FnOps = {"event", "callback", "publish", "nested"}
  MaxOps = 2
  None = None
INVARIANT OnlyCommittedWorkAnnounced
CHECK_DEADLOCK FALSE
