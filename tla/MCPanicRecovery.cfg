CONSTANTS
  Core = core
  HeapSize = 15
  HeapBase = 16
  BaseAlign = 4
  Word = 64
  BoxLayout <- MCBoxLayout
  ExceptionLayout <- MCExceptionLayout
  Tasks <- MCTasks
  TaskRuns = 2
SPECIFICATION FairSpec
INVARIANTS
  EndingIsTold
  ResumedOncePerFrame
PROPERTIES
  ImplementsTaskRunner
  CoreComesToRest
