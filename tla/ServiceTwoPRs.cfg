SPECIFICATION FairSpec
CONSTANTS
  PRs <- TwoPRs
  Deliveries <- PairDeliveries
  Event <- PairEvent
  NoDelivery = NoDelivery
  Tasks = {t1, t2}
  Times = {1, 2}
  MaxSends = 1
  MaxExits = 1
  RecoverAtStartup = FALSE
  StorageFaults = FALSE
PROPERTIES
  PendingEventuallyTaken
  FailedReviewIsNotified
