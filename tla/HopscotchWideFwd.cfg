\* uint_fast32_t of 64 bits (glibc on LP64), scaled down: the bitmap is twice
\* as wide as 1u, and the default table has as many slots as a bucket.
SPECIFICATION Spec
CONSTANTS
  Hashes = {1, 2, 5, 9}
  Data = {1, 2}
  NoData = NoData
  DefaultSize = 4
  BucketSize = 4
  UintBits = 2
  Beyond = {0}
  WithRemove = FALSE
  MaxSize = 16
PROPERTY Refines
