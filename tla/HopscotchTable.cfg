\* uint_fast32_t of 32 bits (ILP32, musl, macOS), scaled down: the default
\* table has twice as many slots as a bucket, and 1u is as wide as a bitmap.
SPECIFICATION FairSpec
CONSTANTS
  Hashes = {1, 2, 7, 8, 15}
  Data = {1, 2}
  NoData = NoData
  DefaultSize = 4
  BucketSize = 2
  UintBits = 2
  Beyond = {0}
  WithRemove = FALSE
  MaxSize = 32
INVARIANTS TypeOK FwdSound Reachable Unique
PROPERTIES Refines AddReturns
