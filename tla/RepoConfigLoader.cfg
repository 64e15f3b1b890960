SPECIFICATION LoaderSpec
CONSTANTS
  Refs <- Branches
  Default = "main"
  Texts <- FileTexts
  NoFile <- None
  TTL = 1
  MaxTime = 3
  MaxPushes = 2
INVARIANTS
  LoaderTypeOK
  ResultIsRecent
  OnlyTrustedBranches
