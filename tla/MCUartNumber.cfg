CONSTANTS
  Word = 256
  DecimalRoom = 3
  HexRoom = 2
SPECIFICATION Spec
INVARIANTS
  IndexInBuffer
  SendsItsArgument
