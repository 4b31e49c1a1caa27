SPECIFICATION FairSpec
CONSTANTS
  NUM_PROCESSES = 2
  LineSize = 1
INVARIANTS TypeOK StayedOwnLine OwnHistory
PROPERTY EnterReleases
