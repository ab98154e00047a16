CONSTANTS
  w1 = w1
  w2 = w2
  w3 = w3
  r1 = r1
  a1 = a1
  Old = Old
  NoLabel = NoLabel
  Writers = {w1, w2, w3}
  Readers = {r1}
  Newest = {w3}
  Labels = {a1, NoLabel}
  AgentOf <- OneAgentEach
  LockAttempts = 2
  MaxTurns = 1
  MaxFaults = 2
SYMMETRY WriterSymmetry
SPECIFICATION Spec
INVARIANTS TypeOK FailureHasCause OneRowEach MixedOnlyByRace ListingHolds
PROPERTY KeepsSessions
