SPECIFICATION Spec
CONSTANTS
  Size = 4
  Word = 16
  U16 = 4
  Codes = {"OP_PORT_PUTC", "OP_PORT_PUT_EOL"}
  Vals = {0, 1}
  Lens = {0, 1, 2, 4, 5}
  Bufs = {b1, b2, b3, b4}
SYMMETRY Symmetry
INVARIANTS TypeOK OccupiedIffQueued OwnedOnce
PROPERTY ImplementsFifo
CHECK_DEADLOCK FALSE
