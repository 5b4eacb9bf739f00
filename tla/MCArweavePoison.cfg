SPECIFICATION Spec
CONSTANTS
  Row = {1, 2}
  Writer = {w1, w2}
  BatchSize = 2
  MaxBackoff = 2
  Poison = {1}
PROPERTIES
  HealthyFlagsAreArchived
