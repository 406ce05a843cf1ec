SPECIFICATION Spec
CONSTANTS
  Sigs = {SIGINT, SIGTERM}
  Logfiles = {"none", "opens", "denied"}
  MaxDepth = 5
  MaxFails = 3
INVARIANTS TypeOK TerminalRestored LogOpenedOnce ReentryNeedsFailure
