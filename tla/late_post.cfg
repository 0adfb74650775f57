SPECIFICATION VmaasdSpec
CONSTANTS
  v1 = v1
  h1 = h1
  None = None
  VmIds = {v1}
  Handlers = {h1}
  Names = {}
  PoolStart = 1
  PoolEnd = 1
  Faults = {}
  Cautions = {"names", "settled", "alone", "pool"}
PROPERTIES GracefulStopLosesNothing
