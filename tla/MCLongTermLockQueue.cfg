SPECIFICATION Spec
CONSTANTS
  Threads = {t1, t2, t3}
  Nodes = {1}
  Slots = {s1}
SYMMETRY ThreadSymmetry
INVARIANTS
  QueuedWhileWaiting
  NoLostWakeup
  DeadNodesAreAbandoned
