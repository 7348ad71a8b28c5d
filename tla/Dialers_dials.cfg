SPECIFICATION Spec
CONSTANTS
  HostKeys = {h1, h2}
  FirstKey = h1
  MaxDials = 3
  Writable = TRUE
INVARIANTS TypeOK ServerVerified KeyPinned PriorityOrder
CHECK_DEADLOCK FALSE
