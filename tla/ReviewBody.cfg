SPECIFICATION BodySpec
CONSTANTS
  FileLists <- ShortLists
  MaxFiles = 4
  MaxChunks = 2
  MaxChunkChars = 3
  NoPatch = NoPatch
  Listings <- ShortListings
  Replies <- ShortReplies
  MaxBody = 6
INVARIANTS
  WithinLimits
  TotalsAreTrue
  EveryFileAccountedFor
  SkippedForAReason
  NoTwoChunksFitInOne
  NothingPackedNothingFits
  NothingIsHidden
  ReplyIsKept
