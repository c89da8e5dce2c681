CONSTANTS
  Threads = {t1, t2}
  OpsPerThread = 1
SPECIFICATION Spec
INVARIANT
  NoStrandedIntent
