SPECIFICATION Spec
CONSTANTS
  NUM_PROCESSES = 1
  MAX_PID = 2
  BUF_SIZE = 5
  Letters = {"a"}
  MaxLine = 4
  Requests = {1, 8}
INVARIANT TruncationReported
