SPECIFICATION Spec
CONSTANTS
  DomainSubs = {k1}
  QemuSubs = {q1}
  NoSub = NoSub
  MaxIds = 2
  MaxEvents = 3
  MaxConns = 2
  ReusesIds = FALSE
  LossWhileAdding = TRUE
INVARIANTS TypeOK GaplessEvents NothingLeftBehind
PROPERTIES StreamsUntilCancelled
CHECK_DEADLOCK FALSE
