CONSTANTS
  s = s
  u = u
  v = v
  t = t
  x = x
  g = g
  said = said
  a = a
  None = None
  Blocks = {s, u, v, t, x, g, said}
  Slot <- SlotOf
  Tokens <- TokensOf
  Unmeasured = {g}
  Schemas = {x}
  Mentions <- MentionsOf
  MaxContext = 11
  Window = 20
  MaxContextPct = 500
  MaxGrowth = 5
  MaxGrowthPct = 800
  RoundsUp = {}
  Recordable <- RecordableHere
  Asks <- AsksHere
  MaxTurns = 3
  Ids <- IdsHere
  FileOf <- FileOfHere
  ShortId = 2
  Text <- TextOf
  Widest = 3
  Envelope = 2
  Room = 8
  MaxChars = 5
  Slack = 1
SPECIFICATION Spec
INVARIANTS DiffAccounts EvictionsAreFinal BreaksAreReal GreenHolds AnswersTheAsked PagesCover
