SPECIFICATION Spec
CONSTANTS
  NUM_PROCESSES = 2
  MAX_PID = 3
  StackDepth = 2
  EarlyExec = TRUE
  TickPoints = {"claim", "enter", "load", "kfind", "kload", "freed", "parent", "unwind"}
PROPERTY NeverBackToBoot
CHECK_DEADLOCK FALSE
