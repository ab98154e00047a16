CONSTANTS
  h1 = h1
  h2 = h2
  c1 = c1
  c2 = c2
  j1 = j1
  j2 = j2
  j3 = j3
  r1 = r1
  r2 = r2
  Hosts = {h1, h2}
  Closers = {c1, c2}
  Jobs = {j1, j2, j3}
  QuietJobs <- QuietOnes
  Recorders = {r1, r2}
  RecorderOf <- TwoRecorders
  Sentinel = Sentinel
  NoJob = NoJob
  Capacity = 1
SPECIFICATION FairSpec
PROPERTY CloseNeverHangs
