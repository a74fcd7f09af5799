SPECIFICATION FairSpec
CONSTANTS
  Events <- MCEvents
  Galleries <- MCGalleries
  Polls = {p1, p2}
  MaxInputs = 3
  MaxSwaps = 2
  None = None
INVARIANTS
  TypeOK
  DarkOnlyWhileSwapping
PROPERTIES
  EveryPictureShown
  ShowCatchesUp
CHECK_DEADLOCK FALSE
