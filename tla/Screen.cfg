SPECIFICATION Spec
CONSTANTS
  NUM_PROCESSES = 2
  NUM_COLS = 2
  NUM_ROWS = 2
  Chars = {"space"}
  Spare = 0
  DrawCells = {3}
  LongLines = FALSE
  Editing = TRUE
  InsertRows = {1}
INVARIANT TypeOK
PROPERTY DisplaySpec
