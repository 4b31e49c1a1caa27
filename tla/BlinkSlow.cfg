SPECIFICATION Spec
CONSTANTS
  Slots = 3
  Places = 3
  SignBit = 4
  Structs <- Slow
PROPERTY PhaseLasts
