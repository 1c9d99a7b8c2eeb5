\* The table of ILP32, scaled down as in HopscotchTable.cfg.
SPECIFICATION FairDictSpec
CONSTANTS
  Hashes = {1, 2, 5, 9}
  Data <- MCOffsets
  NoData = NoData
  DefaultSize = 4
  BucketSize = 2
  UintBits = 2
  Beyond = {0}
  WithRemove = FALSE
  MaxSize = 32
  Strings <- MCStrings
  HashOf <- MCHashOf
  LenOf <- MCLenOf
  InitCap = 3
  MaxEids = 3
INVARIANTS DictTypeOK FieldsNameTheirStrings StoredOnce WalkVisitsAll
PROPERTIES Implements FieldsFilled
