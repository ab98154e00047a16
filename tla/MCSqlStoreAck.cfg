CONSTANTS
  a = a
  b = b
  x = x
  y = y
  m1 = m1
  m2 = m2
  NoModel = NoModel
  Writers = {a}
  Hashes = {x, y}
  Models = {m1, m2}
  Turns <- ChangingModels
  LocksDuplicates = TRUE
  MaxFaults = 1
SPECIFICATION Spec
INVARIANT FailureMeansAbsent
