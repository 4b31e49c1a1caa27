SPECIFICATION Spec
CONSTANTS
  NUM_PROCESSES = 2
  MAX_PID = 3
  StackDepth = 4
  EarlyExec = FALSE
  TickPoints = {"resume"}
INVARIANT ContextIntegrity
