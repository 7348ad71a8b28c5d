SPECIFICATION FairSpec
CONSTANTS
  DomainSubs = {k1}
  QemuSubs = {q1}
  NoSub = NoSub
  MaxIds = 2
  MaxEvents = 1
  MaxConns = 1
  ReusesIds = TRUE
  LossWhileAdding = FALSE
PROPERTIES SubscriptionsEnd ListenerReads
CHECK_DEADLOCK FALSE
