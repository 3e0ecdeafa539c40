CONSTANTS
  Updater = {u1, u2}
  MaxDead = 1
  LockFaults = TRUE
  Suspends = TRUE
  Newest = 3
  Modes = {"auto", "update", "to", "rollback"}
  Broken = TRUE
SPECIFICATION UpdateSpec
INVARIANTS UpdateTypeOK OverlapHasCause NoLeftover InstalledWhole MissingIsReported
PROPERTY BlockedStaysOut
