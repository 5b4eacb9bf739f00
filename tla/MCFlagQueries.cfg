SPECIFICATION MCSpec
CONSTANTS
  k1 = k1
  Tx = {t1}
  Rule = {1}
  MaxId = 3
  MaxLimit = 2
  Key = {k1, k2, k3}
INVARIANTS
  FQTypeOK
  WalkSeesWhatStood
  NeverFlagWithItsCorrection
  ChainNamesEverySigner
PROPERTIES
  PagesGoDown
  WalkEnds
