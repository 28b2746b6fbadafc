SPECIFICATION Spec
CONSTANTS
  Threads = {t1}
  Atoms = {a1}
  Nodes = {f1, u1}
  Formatted = {f1}
  Blocks = {b1, b2, b3, b4}
  Reserved = 1
  NotLeaves = 1
  TxSize = 1
  MaxGrab = 1
  DsetFails = TRUE
SYMMETRY SpaceSymmetry
INVARIANT NothingOverdrawn
CHECK_DEADLOCK FALSE
