SPECIFICATION ReviewerFairSpec
CONSTANTS
  MaxChunks = 3
  MaxAttempts = 3
  ReviewsPerAttempt = 3
INVARIANTS
  ReturnsWithinContract
  PostsBounded
  CallsBounded
PROPERTIES
  Terminates
  DraftsAreNotReviewed
