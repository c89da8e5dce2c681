CONSTANTS
  worker = worker
  MainThread = main
  Threads = {main, worker}
  Word = 64
  StackTop <- MCStackTop
  kFramePadding = 3
  ExtraPad = 0
  Granule = 2
  kGuardMargin = 5
  kDefaultMaxStackBytes = 20
  EnvKB = 6
  KB = 2
  Prologues = {2, 4, 9}
  Allocas = {1, 16}
  LibDepths = {2, 9}
SPECIFICATION Spec
INVARIANT
  EmergencyStackExclusive
