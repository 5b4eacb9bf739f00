SPECIFICATION Spec
CONSTANTS
  Client = {c1, c2}
  Caster <- MCCaster
  MaxId = 3
  Tx = {t1}
  Rule = {1, 2}
  Operator = {o1}
  Consumer = consumer
INVARIANTS
  TypeOK
  StreamedIsQueryable
  NobodyHearsTwice
  EveryClientIsServed
PROPERTIES
  ConsumerKeepsGoing
