SPECIFICATION Spec
CONSTANTS
  BUF_SIZE = 4
  HIST_SIZE = 4
  Chars = {"a", "b"}
  Keys = {"char", "enter", "down"}
  Executes = TRUE
  TypeAhead = FALSE
  DownBound = 4
  SlipBound = 1
INVARIANT LineMatches
