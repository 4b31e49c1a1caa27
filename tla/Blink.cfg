SPECIFICATION Spec
CONSTANTS
  Slots = 3
  Places = 3
  SignBit = 32768
  Structs <- Usual
INVARIANTS TypeOK ShownRight
PROPERTIES Implements PhaseLasts
