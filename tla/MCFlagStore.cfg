SPECIFICATION Spec
CONSTANTS
  Client = {}
  Caster <- MCCaster
  MaxId = 4
  Tx = {t1, t2}
  Rule = {1, 2}
  Operator = {o1, o2}
  Consumer = consumer
INVARIANTS
  AllHitsOrNone
  CorrectionsPointBack
  FlaggedStaysVisible
  SupersededPerRequest
PROPERTIES
  AppendOnly
  KeepsFlagTable
