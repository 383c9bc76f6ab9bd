SPECIFICATION FairSpec
INVARIANT NoDecodedDrop
PROPERTY PublishedInOrder
PROPERTY FramesFlow
PROPERTY NoPublishAfterDestroy
PROPERTY StopEnds
CHECK_DEADLOCK FALSE
CONSTANTS
  FrameLimit = 4
  Outcomes = {"image", "none", "decode_raises", "inference_raises"}
  ShowPreview = TRUE
  JoinMayTimeOut = FALSE
