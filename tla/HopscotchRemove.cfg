\* The callers also remove entries.
SPECIFICATION Spec
CONSTANTS
  Hashes = {1, 2, 5, 8}
  Data = {1}
  NoData = NoData
  DefaultSize = 4
  BucketSize = 2
  UintBits = 2
  Beyond = {0}
  WithRemove = TRUE
  MaxSize = 16
INVARIANTS FwdSound Reachable
