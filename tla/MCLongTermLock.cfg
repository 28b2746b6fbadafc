SPECIFICATION Spec
CONSTANTS
  Threads = {t1, t2}
  Nodes = {1, 2}
  Slots = {s1, s2}
SYMMETRY ThreadSymmetry
INVARIANTS
  TypeOK
  WriteLockExcludes
  HipriCountersExact
  SignalsCounted
  WrongOwnersAreSignaled
  SignaledDoNotSleep
  NoDeadlock
