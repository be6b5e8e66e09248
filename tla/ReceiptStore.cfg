CONSTANTS
  a = a
  b = b
  c = c
  i1 = i1
  i2 = i2
  Receipts = {a, b, c}
  Ids = {i1, i2}
  BadId = BadId
  IdOf <- MCIds
  NoReceipt = NoReceipt
  Readers = {g1}
  Sweepers = {s1}
  TTL = 1
  MaxTime = 4
CHECK_DEADLOCK FALSE
SPECIFICATION FairSpec
INVARIANTS
  LookupIsAtomic
PROPERTIES
  LivesItsTTL
  ExpiredIsRemoved
