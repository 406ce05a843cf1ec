SPECIFICATION Spec
CONSTANTS
  Sigs = {SIGINT, SIGTERM}
  Logfiles = {"denied"}
  MaxDepth = 5
  MaxFails = 0
INVARIANTS NoRecursionLoop
