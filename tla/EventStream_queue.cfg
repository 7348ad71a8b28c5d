SPECIFICATION FairSpec
CONSTANTS
  Pushers = {u1, u2}
  LenCallers = {c1}
  NoCaller = NoCaller
  MaxPushes = 2
INVARIANTS Inv
PROPERTIES Implements NobodyWaitsForClient
