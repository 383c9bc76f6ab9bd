SPECIFICATION FairSpec
INVARIANT RateBounded
INVARIANT SizeIsRead
PROPERTY VideoGoesOn
CHECK_DEADLOCK FALSE
CONSTANTS
  Threads = {"spin"}
  Interval = 2
  Window = 3
  ClockMayFail = TRUE
  Advances = {1}
  FrameLimit = 4
  StampLimit = 7
  Images <- ManyImages
  JumpLimit = 1
