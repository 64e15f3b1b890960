SPECIFICATION Spec
CONSTANTS
  PRs <- OnePR
  Deliveries <- MentionDeliveries
  Event <- MentionEvent
  NoDelivery = NoDelivery
  Tasks = {t1, t2}
  Times = {1}
  MaxSends = 1
  MaxExits = 1
  RecoverAtStartup = FALSE
  StorageFaults = FALSE
INVARIANTS
  NoOrphanedRunning
