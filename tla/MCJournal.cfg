SPECIFICATION Spec
CONSTANTS
  NLeaves = 1
  NData = 6
  MaxVer = 3
  MaxCrashes = 2
  HeadsDiffer = TRUE
INVARIANTS
  TypeOK
  OneUnflushed
  
  RecoveredSpaceMatches
PROPERTY CommitIsAtomic
CHECK_DEADLOCK FALSE
