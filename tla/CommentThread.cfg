SPECIFICATION ThreadSpec
CONSTANTS
  Bodies <- SampleBodies
  Bot = "vidi-pr[bot]"
  Users = {"user"}
  PerPage = 1
  MaxComments = 3
  MaxChanges = 1
INVARIANTS
  ThreadTypeOK
  NoFeedback
  NothingLost
