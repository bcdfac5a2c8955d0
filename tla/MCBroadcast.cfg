SPECIFICATION FairSpec
CONSTANTS
  a = a
  b = b
  alice = alice
  bob = bob
  table = table
  Conns = {a, b}
  Ids = {alice, bob}
  Starts <- Beginnings
  Channels = {table}
  MaxPublished = 2
  Targets <- ToTable
  Requests = {r1}
  Redis = TRUE
  BusSize = 1
  QueueSize = 1
  MaxHappens = 3
  None = None
INVARIANTS
  TypeOK
  NoGhosts
  PanicsOnlyInShutdown
  NewestLast
PROPERTIES
  ReachesListeners
CHECK_DEADLOCK FALSE
