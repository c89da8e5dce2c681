CONSTANTS
  Threads = {t1, t2, t3}
  OpsPerThread = 2
SPECIFICATION Spec
INVARIANTS
  MutualExclusion
  LockedIffHeld
  InExactlyOnePlace
  IntentFlagged
PROPERTIES
  ReleaseLeavesOnlyUnflagged
  PendOnlyReturns
  AllReturn
