SPECIFICATION PipeFairSpec
CONSTANTS
  Stay = TRUE
  Wait = TRUE
  CharDelay = FALSE
  EolLen = 1
  QCap = 3
  Inputs <- PipeInputs
  Chunks = {1, 2}
  Transient = FALSE
  MaxOps = 4
  MaxPlug = 2
INVARIANTS PipeTypeOK ReadsUnlessQueued BufferIntact PipeNeverOverflows
PROPERTIES PipeResumes
