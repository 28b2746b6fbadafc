SPECIFICATION WriterSpec
CONSTANTS
  Threads = {t1, t2, t3}
  Nodes = {1, 2}
  Slots = {s1, s2}
SYMMETRY ThreadSymmetry
INVARIANT NoDeadlock
