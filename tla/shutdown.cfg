SPECIFICATION VmaasdFairSpec
CONSTANTS
  v1 = v1
  h1 = h1
  h2 = h2
  None = None
  VmIds = {v1}
  Handlers = {h1, h2}
  Names = {}
  PoolStart = 1
  PoolEnd = 1
  Faults = {"inject", "wait"}
  Cautions = {}
PROPERTIES NoResurrection ProvisionEnds DeleteAnswered WaitCoversStarted ShutdownCompletes
