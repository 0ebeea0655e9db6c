SPECIFICATION Spec
CONSTANTS
  MAX_FILE_HANDLES = 6
  Slots = 2
  Offsets <- MCOffsets
  Words = {boot, other}
  BootWord = boot
  DevIds <- MCDevIds
  BootDev = 32
  Sizes <- MCSizes
  Moves <- MCMoves
  Word = 2
  NULL = NULL
  Wild = Wild
  Literal = Literal
CHECK_DEADLOCK FALSE
PROPERTIES CloseReturns
