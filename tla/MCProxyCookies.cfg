CONSTANTS
  Sizes = {1}
  UPDATE_COOKIES_MAX = 16
  MaxHides = 17
  MaxResizes = 0
SPECIFICATION FairSpec
PROPERTIES UpdateReturns
CHECK_DEADLOCK FALSE
