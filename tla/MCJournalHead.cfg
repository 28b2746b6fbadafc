SPECIFICATION Spec
CONSTANTS
  NLeaves = 1
  NData = 6
  MaxVer = 3
  MaxCrashes = 0
  HeadsDiffer = FALSE
INVARIANT ReplayedMeansInPlace
CHECK_DEADLOCK FALSE
