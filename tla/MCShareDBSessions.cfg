SPECIFICATION FairSpec
CONSTANTS
  Conns = {c1, c2}
  Docs = {d}
  Subs = {s1, s2}
  Capacity = 1
  MaxConnections = 1
  None = None
INVARIANTS
  TypeOK
  PublishesToOpenChannels
  DiesOnlyOfWholesaleClose
  OneSubscriptionPerDoc
  NoneForgotten
PROPERTIES
  SubscriptionsEnd
CHECK_DEADLOCK FALSE
