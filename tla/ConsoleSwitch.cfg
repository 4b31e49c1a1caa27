SPECIFICATION Spec
CONSTANTS
  NUM_PROCESSES = 2
  LineSize = 1
INVARIANT OwnLine
