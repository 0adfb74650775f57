SPECIFICATION StartupFairSpec
CONSTANTS
  Runs = {r1, r2, r3}
  SessionCap = 2
  MaxTroubles = 3
INVARIANTS StartupTypeOK SessionsAccounted FailsFast
PROPERTIES ServesInTheEnd
CHECK_DEADLOCK FALSE
