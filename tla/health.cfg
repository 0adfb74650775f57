SPECIFICATION StartupSpec
CONSTANTS
  Runs = {r1, r2, r3}
  SessionCap = 2
  MaxTroubles = 1
INVARIANTS HealthyIsReachable
CHECK_DEADLOCK FALSE
