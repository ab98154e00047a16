CONSTANTS
  main = main
  task = task
  s1 = s1
  g1 = g1
  p1 = p1
  p2 = p2
  z1 = z1
  r1 = r1
  r2 = r2
  r3 = r3
  Contexts = {main, task}
  Root = main
  Steps = {s1}
  NoStep = NoStep
  Tags = {g1}
  Nowhere = Nowhere
  Plain = {p1, p2}
  Streams = {}
  Runs = {}
  Calls = {p1, p2}
  MaxDepth = 2
  MaxPending = 2
  Nothing = Nothing
SPECIFICATION Spec
INVARIANTS StepIsLexical OwnTags OneCallPerContext
