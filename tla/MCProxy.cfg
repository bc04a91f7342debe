CONSTANTS
  Sizes = {1, 2}
  UPDATE_COOKIES_MAX = 16
  MaxHides = 3
  MaxResizes = 3
SPECIFICATION FairSpec
INVARIANT RendersIntoMappedBuffer
PROPERTIES ImplementsLease UpdateReturns UnmapIsAnswered ServerDeathEndsApp
CHECK_DEADLOCK FALSE
