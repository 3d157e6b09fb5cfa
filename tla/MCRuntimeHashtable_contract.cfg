\* Clients that keep every contract.
SPECIFICATION Spec
CONSTANTS
  k1 = k1
  k2 = k2
  k3 = k3
  Keys = {k1, k2, k3}
  Values = {1, 2}
  Hash <- CollidingHash
  Null = Null
  InitCapacity = 2
  Factors = {2}
  MaxPairs = 4
  MaxCapacity = 4
  Careless = {}
INVARIANTS TypeOK InHomeBucket SizeIsCount
PROPERTIES LoadBounded IsMultimap
CHECK_DEADLOCK FALSE
