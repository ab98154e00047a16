CONSTANTS
  a = a
  b = b
  x = x
  y = y
  m1 = m1
  m2 = m2
  NoModel = NoModel
  Writers = {a, b}
  Hashes = {x, y}
  Models = {m1, m2}
  Turns <- OppositeOrders
  LocksDuplicates = TRUE
  MaxFaults = 2
SPECIFICATION FairSpec
INVARIANTS Inv WholeCalls MirrorLags NoCheapLoss
PROPERTY CallEnds
