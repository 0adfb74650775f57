SPECIFICATION VmaasdSpec
CONSTANTS
  v1 = v1
  v2 = v2
  h1 = h1
  h2 = h2
  None = None
  VmIds = {v1, v2}
  Handlers = {h1, h2}
  Names = {}
  PoolStart = 1
  PoolEnd = 2
  Faults = {"gold", "mkdir", "copydisk", "copyvmx", "patchvmx", "register", "inject", "poweron", "wait"}
  Cautions = {"names", "settled", "alone", "pool"}
SYMMETRY Symmetry
INVARIANTS VmaasdTypeOK PromiseInv ReadyIsLive RunningHoldsAddress HolderHasRecord DeletedIsGone AddressInv
PROPERTIES StatusFollowsDiagram BootsPatched LeaseSpec
