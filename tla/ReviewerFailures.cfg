SPECIFICATION ReviewerFairSpec
CONSTANTS
  MaxChunks = 1
  MaxAttempts = 2
  ReviewsPerAttempt = 2
PROPERTIES
  FailuresSurface
