SPECIFICATION Spec
CONSTANTS
  ktxnmgrd = ktxnmgrd
  None = None
  Threads = {t1, t2, ktxnmgrd}
  Nodes = {n1, n2}
  Atoms = {a1, a2}
  Modes = {"write"}
  Calls = {"sync", "fsync", "writeout", "dont_commit", "asap"}
  Preflush = 0
  MaxOps = 1
SYMMETRY Symmetric
CHECK_DEADLOCK FALSE
INVARIANTS
  CountersExact
  CommitIsAlone
  SyncedIsCommitted
  
PROPERTIES
  StagesGoUp
  CommitsInOrder
