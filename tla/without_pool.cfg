SPECIFICATION CautiousSpec
CONSTANTS
  v1 = v1
  v2 = v2
  h1 = h1
  None = None
  VmIds = {v1, v2}
  Handlers = {h1}
  Names = {}
  PoolStart = 1
  PoolEnd = 1
  Faults = {"mkdir"}
  Cautions = {"names", "settled", "alone"}
INVARIANTS RunningHoldsAddress
CHECK_DEADLOCK FALSE
