SPECIFICATION Spec
CONSTANTS
  NUM_PROCESSES = 1
  NUM_COLS = 3
  NUM_ROWS = 2
  Chars = {"a", "b"}
  Spare = 1
  DrawCells = {0, 4}
  LongLines = FALSE
  Editing = TRUE
  InsertRows = {0}
PROPERTY DisplaySpec
