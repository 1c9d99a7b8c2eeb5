\* The memory after a table holds something that reads as a hash.
SPECIFICATION Spec
CONSTANTS
  Hashes = {1, 5, 9, 3}
  Data = {1, 2}
  NoData = NoData
  DefaultSize = 4
  BucketSize = 2
  UintBits = 2
  Beyond = {0, 3}
  WithRemove = FALSE
  MaxSize = 16
PROPERTY Refines
