SPECIFICATION Spec
CONSTANTS
  NUM_PROCESSES = 2
  MAX_PID = 4
  StackDepth = 3
  EarlyExec = FALSE
  TickPoints = {"find", "enter", "load", "halt", "kenter"}
INVARIANTS TypeOK ContextIntegrity CallerFrameIntact UserContextMatches NotCrashed PcbAccounting
PROPERTIES HaltReturnsToCaller TreeSpec
