SPECIFICATION CautiousSpec
CONSTANTS
  v1 = v1
  v2 = v2
  h1 = h1
  n1 = n1
  None = None
  VmIds = {v1, v2}
  Handlers = {h1}
  Names = {n1}
  PoolStart = 1
  PoolEnd = 2
  Faults = {}
  Cautions = {"settled", "alone"}
INVARIANTS ReadyIsLive
CHECK_DEADLOCK FALSE
