SPECIFICATION FairSpec
CONSTANTS
  NUM_PROCESSES = 3
  Users = {0, 1}
  Frequencies = {2}
  Sizes = {2, 4}
PROPERTY ReadReturns
