SPECIFICATION ConsoleFairSpec
CONSTANTS
  v1 = v1
  h1 = h1
  p1 = p1
  p2 = p2
  None = None
  VmIds = {v1}
  Handlers = {h1}
  Polls = {p1, p2}
  Names = {}
  PoolStart = 1
  PoolEnd = 1
  Faults = {"mkdir"}
  Cautions = {}
  MaxErrors = 1
INVARIANTS ConsoleInv DeletedIsGone
PROPERTIES DeleteFrees ConsoleConverges
