SPECIFICATION FairSpec
CONSTANTS
  NUM_PROCESSES = 3
  Users = {0, 1, 2}
  Frequencies = {0, 1, 2, 3, 4, 8, 16, 32, 64, 128, 256, 512, 1000, 1024, 2048}
  Sizes = {2, 4}
INVARIANTS TypeOK FrequencyAsAsked
PROPERTIES NoEarlyReturn OnlyPowersOfTwo NotAllStuck
