\* Any key may be erased.
SPECIFICATION Spec
CONSTANTS
  k1 = k1
  k2 = k2
  k3 = k3
  Keys = {k1, k2, k3}
  Values = {1}
  Hash <- CollidingHash
  Null = Null
  InitCapacity = 2
  Factors = {3, 6}
  MaxPairs = 3
  MaxCapacity = 4
  Careless = {"erase"}
INVARIANT NoUseAfterFree
CHECK_DEADLOCK FALSE
