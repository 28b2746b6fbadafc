SPECIFICATION Spec
CONSTANTS
  ktxnmgrd = ktxnmgrd
  None = None
  Threads = {t1, t2, ktxnmgrd}
  Nodes = {n1, n2}
  Atoms = {a1, a2}
  Modes = {"write", "read", "nonblock", "dontfuse"}
  Calls = {"uncapture", "signal", "write_error", "capture_in_flush", "nomem"}
  Preflush = 1
  MaxOps = 1
SYMMETRY Symmetric
CHECK_DEADLOCK FALSE
INVARIANTS
  TypeOK
  CountersExact
  FusesOpenAtoms
  OperationsAreWhole
