SPECIFICATION FairSpec
CONSTANTS
  NUM_PROCESSES = 2
  MAX_PID = 3
  StackDepth = 3
  EarlyExec = FALSE
  TickPoints = {"find", "enter", "load", "halt", "kenter"}
PROPERTY EveryTerminalRuns
