SPECIFICATION FunctionsSpec
CONSTANTS
  Last4 = 3
  Last6 = 3
  NameLimit = 8
  MaxLines = 4
  MaxTail = 4
INVARIANTS WalkTakesLeastFree PoolAddsUp VmxPointsAtClone VmxIdentityIsFresh NamesAreSafe LoadedRendersComplete
CHECK_DEADLOCK FALSE
