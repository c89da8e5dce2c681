CONSTANTS
  Threads = {task, isr1, isr2}
  OpsPerThread = 2
SPECIFICATION IsrFairSpec
INVARIANTS
  NoStrandedIntent
  SpinNeverWaits
  HolderStillActive
PROPERTIES
  ReleaseLeavesNothing
  AllExecuted
