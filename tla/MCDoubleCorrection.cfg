SPECIFICATION Spec
CONSTANTS
  Client = {c1}
  Caster <- MCCaster
  MaxId = 3
  Tx = {t1}
  Rule = {1, 2}
  Operator = {o1, o2}
  Consumer = consumer
INVARIANTS
  SupersededOnce
