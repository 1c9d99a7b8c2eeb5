\* The input may be a directory, whose reading fails for ever.
SPECIFICATION FairSpec
CONSTANTS
  Files <- MCFiles
  Chunk = 4
  InitCap = 3
PROPERTY Returns
