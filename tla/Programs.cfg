SPECIFICATION ProgSpec
CONSTANTS
  MAX_FILES = 5
  FNAME_MAX_LEN = 4
  ZBIGFS_BLOCK_SIZE = 2
  Directory <- Image
  Inodes <- Disk
  Names <- UserNames
  Counts = {0, 1, 5}
  BUFSIZE = 3
  MaxOpen = 2
  Chars <- TextChars
  SlightlyWrong <- WrongNames
  Patterns <- Words
  FrameFiles <- Frames
  COLS = 8
  OFFSET = 4
INVARIANTS TypeOK FdAccounting OpenFindsName ReadsInOrder
INVARIANTS OutputComplete GrepFindsLines SyserrPasses FramesComplete
