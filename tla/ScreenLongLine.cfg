SPECIFICATION Spec
CONSTANTS
  NUM_PROCESSES = 2
  NUM_COLS = 3
  NUM_ROWS = 2
  Chars = {"a"}
  Spare = 1
  DrawCells = {3}
  LongLines = TRUE
  Editing = FALSE
  InsertRows = {}
PROPERTY DisplaySpec
