SPECIFICATION Spec
CONSTANTS
  a1 = a1
  a2 = a2
  d1 = d1
  d2 = d2
  d3 = d3
  s1 = s1
  s2 = s2
  Monitored = {a1, a2}
  Dest = {d1, d2, d3}
  Spender = {s1, s2}
  None = None
  MaxAddrs = 1
  MaxDests = 2
  MaxWall = 2
  MaxEntries = 1
  NegativeTtl = 2
  UintMax = 20
  Window = 1
  Feed <- MCFeed
INVARIANTS
  ScreeningTypeOK
  EoaSpenderIsFlagged
  FlagsRestOnAnswers
  NothingMissed
PROPERTIES
  ContractTakenForEoaBriefly
  RepeatFiresOnlyIfForgotten
  FirstTouchIsFlagged
