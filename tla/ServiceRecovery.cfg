SPECIFICATION ReviewingFairSpec
CONSTANTS
  PRs <- OnePR
  Deliveries <- NoiseDeliveries
  Event <- NoiseEvent
  NoDelivery = NoDelivery
  Tasks = {t1, t2}
  Times = {1}
  MaxSends = 1
  MaxExits = 1
  RecoverAtStartup = TRUE
  StorageFaults = FALSE
  MaxChunks = 2
  MaxAttempts = 2
  ReviewsPerAttempt = 2
INVARIANTS
  NoOrphanedRunning
PROPERTIES
  ImplementsReviewService
  AcceptedMeansUnderWay
  LockEventuallyFree
