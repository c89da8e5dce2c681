CONSTANTS
  Modules <- MCModules
  Names <- MCNames
  PassRuns = 2
SPECIFICATION Spec
INVARIANTS
  FlowPreserved
  StackMovesChecked
