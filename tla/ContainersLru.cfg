SPECIFICATION Spec
CONSTANTS
  Key <- MCKeys
  HashOf <- MCHash
  Data = {d1, d2}
  MaxSize = 3
  BucketNum = 3
  NoValue <- MCNoValue
  Nothing = Nothing
  Fragment = {f1, f2, f3, f4, f5}
  MaxFragment = 4
  None = None
  Address = {a1, a2, a3, a4}
  Port = {p1, p2}
  ListSize = 3
  MaxTime = 3
CHECK_DEADLOCK FALSE
PROPERTIES
  IsLruTable
