\* Two commands with up to three options, one after the other, over two files.
SPECIFICATION FairSession
CONSTANTS
  Files <- MCFiles
  Chunk = 2
  InitCap = 3
  Paths = {"a", "b"}
  NoFile = NoFile
  FirstFiles <- MCFirstFiles
  Documents <- MCDocuments
  Compiled <- MCCompiled
  MaxOptions = 3
  MaxRuns = 2
INVARIANTS SessionTypeOK Whole FailureLeaves
PROPERTIES InputKept Implements EndsUnlessFailing
