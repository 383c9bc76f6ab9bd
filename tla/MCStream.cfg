SPECIFICATION FairSpec
INVARIANT PtsUnique
INVARIANT NoStall
INVARIANT OneStaleFrame
INVARIANT NoSubscriptionLeak
PROPERTY OutOfOrderOnlyAcrossSwitch
PROPERTY RequestHonoured
PROPERTY RequestsAnswered
CHECK_DEADLOCK FALSE
CONSTANTS
  Threads = {"stream", "inference"}
  Interval = 2
  Window = 2
  ClockMayFail = FALSE
  Advances = {0, 2}
  FrameLimit = 3
  StampLimit = 2
  SubscribingMayFail = TRUE
