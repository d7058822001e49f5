CONSTANTS
  x = x
  y = y
  Zero = zero
  Byte = {x, y, zero}
  kCheapPrepend = 2
  kInitialSize = 2
  ExtraSize = 3
  Pieces <- MCPieces
  MaxSize = 9
SPECIFICATION Spec
INVARIANTS TypeOK MovesToFront
PROPERTIES GrowsOnlyFull ImplementsByteQueue
