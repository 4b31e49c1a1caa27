SPECIFICATION Spec
CONSTANTS
  BUF_SIZE = 3
  HIST_SIZE = 4
  Chars = {"a"}
  Keys = {"char", "fn", "enter", "bs", "left", "right", "up", "down", "ctrl-l"}
  Executes = TRUE
  TypeAhead = TRUE
  DownBound = 0
  SlipBound = 1
INVARIANTS TypeOK CleanLineMatches CleanReadReturnsLine HistoryOrder
