SPECIFICATION FairRecoverSpec
CONSTANTS
  NLeaves = 2
  NData = 8
  MaxVer = 2
  MaxCrashes = 2
  HeadsDiffer = TRUE
INVARIANT RecoveryBlocksKept
PROPERTIES
  CommitIsAtomic
  MountCompletes
CHECK_DEADLOCK FALSE
