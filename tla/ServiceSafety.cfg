SPECIFICATION Spec
CONSTANTS
  PRs <- OnePR
  Deliveries <- RaceDeliveries
  Event <- RaceEvent
  NoDelivery = NoDelivery
  Tasks = {t1, t2}
  Times = {1, 2}
  MaxSends = 2
  MaxExits = 1
  RecoverAtStartup = FALSE
  StorageFaults = TRUE
SYMMETRY TaskSymmetry
INVARIANTS
  TypeOK
  LockIffActive
  WorkerOwnsItsJob
  OneJobPerDelivery
  ReviewRowsTruthful
PROPERTIES
  StatusOnlyAdvances
  ImplementsReviewQueue
CHECK_DEADLOCK FALSE
