SPECIFICATION Spec
CONSTANTS
  Threads = {t1, t2}
  Atoms = {a1, a2}
  Nodes = {f1, u1}
  Formatted = {f1}
  Blocks = {b1, b2, b3}
  Reserved = 1
  NotLeaves = 1
  TxSize = 1
  MaxGrab = 1
  DsetFails = FALSE
SYMMETRY SpaceSymmetry
INVARIANTS
  TypeOK
  CountersAddUp
  NothingOverdrawn
  ReservationsAreOwned
  FakeBlocksAreCounted
  
  CommittedBlocksAreKept
  FreeCommittedMatches
CHECK_DEADLOCK FALSE
