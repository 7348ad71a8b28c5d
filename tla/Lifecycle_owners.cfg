SPECIFICATION FairSpec
CONSTANTS
  MaxConns = 4
  MaxHasty = 2
  Scenarios = {"patient", "refused", "any"}
INVARIANTS TypeOK OneListener
PROPERTIES CleanupTakesOnlyTheLost OnlyLeftoversDoHarm LossSignalled LossReleasesUsers
CHECK_DEADLOCK FALSE
