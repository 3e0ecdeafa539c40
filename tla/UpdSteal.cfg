CONSTANTS
  Updater = {u1, u2, u3}
  MaxDead = 1
  LockFaults = FALSE
  Suspends = FALSE
SPECIFICATION LockSpec
INVARIANT OneUpdater
