SPECIFICATION Spec
CONSTANTS
  Txs = {t1}
  Rows = {r1, r2}
  MaxRetries = 1
  FnOps = {"event", "callback", "publish", "nested"}
  MaxOps = 2
  None = None
INVARIANTS TypeOK EffectsNeedCommit CommitOnce CommittedEventWins
CHECK_DEADLOCK FALSE
PROPERTIES ImplementsUnitOfWork StepsRunOut
