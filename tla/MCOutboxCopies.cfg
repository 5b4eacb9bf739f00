SPECIFICATION CopySpec
CONSTANTS
  Row = {1, 2, 3}
  Writer = {w1, w2}
  BatchSize = 2
  MaxBackoff = 2
  Poison = {}
  Tracked = {2}
INVARIANTS
  TypeOK
  LocksCoverBatches
  ReceiptMeansPublished
  SecondCopyMeansRollback
PROPERTIES
  HealthyFlagsAreArchived
  KeepsAuditTrail
