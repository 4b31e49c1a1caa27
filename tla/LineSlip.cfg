SPECIFICATION Spec
CONSTANTS
  BUF_SIZE = 4
  HIST_SIZE = 2
  Chars = {"a", "b"}
  Keys = {"char", "enter", "slip"}
  Executes = FALSE
  TypeAhead = FALSE
  DownBound = 4
  SlipBound = 1
INVARIANT ReadReturnsLine
