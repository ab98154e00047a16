CONSTANTS
  main = main
  task = task
  s1 = s1
  g1 = g1
  p1 = p1
  p2 = p2
  z1 = z1
  r1 = r1
  r2 = r2
  r3 = r3
  Contexts = {main, task}
  Root = main
  Steps = {}
  NoStep = NoStep
  Tags = {}
  Nowhere = Nowhere
  Plain = {}
  Streams = {z1}
  Runs = {r1, r2, r3}
  Calls = {z1, r1, r2, r3}
  MaxDepth = 0
  MaxPending = 2
  Nothing = Nothing
SPECIFICATION FairSpec
INVARIANTS RecordedOnce NoneVanish BrokenAreFailed
PROPERTY DroppedIsRecorded
