SPECIFICATION Spec
CONSTANTS
  NUM_PROCESSES = 2
  MAX_PID = 4
  StackDepth = 4
  EarlyExec = FALSE
  TickPoints = {"unwind"}
INVARIANT CallerFrameIntact
