SPECIFICATION ProgSpec
CONSTANTS
  MAX_FILES = 5
  FNAME_MAX_LEN = 4
  ZBIGFS_BLOCK_SIZE = 2
  Directory <- Image
  Inodes <- Disk
  Names <- UserNames
  Counts = {1}
  BUFSIZE = 3
  MaxOpen = 1
  Chars <- TextChars
  SlightlyWrong <- WrongNames
  Patterns <- Words
  FrameFiles = {}
  COLS = 8
  OFFSET = 4
INVARIANT GrepFindsLinesAnyStack
