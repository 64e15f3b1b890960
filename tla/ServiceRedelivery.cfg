SPECIFICATION FairSpec
CONSTANTS
  PRs <- OnePR
  Deliveries <- MentionDeliveries
  Event <- MentionEvent
  NoDelivery = NoDelivery
  Tasks = {t1, t2}
  Times = {1}
  MaxSends = 2
  MaxExits = 0
  RecoverAtStartup = FALSE
  StorageFaults = FALSE
PROPERTIES
  RedeliveryReplays
