CONSTANTS
  maxRecentlyAcceptedWindowSize = 2
  recentlyAcceptedWindowTTL = 2
  MaxUint64 = 7
  MaxHeight = 4
  MaxTime = 5
SPECIFICATION Spec
INVARIANT ExpiredBlocksAreStale
