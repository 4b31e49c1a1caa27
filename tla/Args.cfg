SPECIFICATION Spec
CONSTANTS
  NUM_PROCESSES = 2
  MAX_PID = 4
  BUF_SIZE = 4
  Letters = {"a"}
  MaxLine = 3
  Requests = {0, 8}
INVARIANT ArgsOfOwnCommand
