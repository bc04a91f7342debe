CONSTANTS
  N = 3
  Corrupt = {2}
  FitRatio <- MCFitRatio
  Ratios = {0, 1}
  FULL = 1
  Methods = {"linear_lf", "cubic"}
  NnFirst = {"cubic"}
  LowPass = {"cubic"}
  OrigSize <- MCOrigSize
  META = 1
  ResizedSize <- MCResizedSize
  OrigMax = 4
  ResizedMax = 4
  MaxRetries = 1
  MaxInputs = 3
  NULL = NULL
SPECIFICATION FairSpec
INVARIANTS NoUseAfterFree RendersIntoLivePixmap CachesAreBounded
PROPERTY SelectedIsShown
CHECK_DEADLOCK FALSE
