SPECIFICATION MCSpec
CONSTANTS
  k1 = k1
  Tx = {t1}
  Rule = {1}
  MaxId = 3
  MaxLimit = 2
  Key = {k1, k2}
INVARIANTS
  ProofMatchesAddress
