SPECIFICATION CooldownSpec
CONSTANTS
  PRs = {"p1", "p2"}
  Cooldown = 2
  MaxSkew = 1
  MaxTime = 6
  CommentsPerCall = 2
INVARIANTS
  CooldownTypeOK
  CommentsSpaced
  SilenceEnds
