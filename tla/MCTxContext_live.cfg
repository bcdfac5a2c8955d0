SPECIFICATION FairSpec
CONSTANTS
  Txs = {t1, t2}
  Rows = {r1, r2}
  MaxRetries = 1
  FnOps = {"write"}
  MaxOps = 2
  None = None
INVARIANT NeverStuck
CHECK_DEADLOCK FALSE
PROPERTIES Terminates CallbacksDrain
