SPECIFICATION FairSpec
PROPERTY QuitStopsNode
CHECK_DEADLOCK FALSE
CONSTANTS
  FrameLimit = 3
  Outcomes = {"image", "none", "inference_raises"}
  ShowPreview = TRUE
  JoinMayTimeOut = FALSE
