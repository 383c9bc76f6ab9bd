SPECIFICATION Spec
INVARIANT LaneOwnership
PROPERTY LanesDoneAtTheirEnd
PROPERTY ImplementsMission
CHECK_DEADLOCK FALSE
CONSTANTS
  ArenaLength = 6
  ArenaWidth = 6
  OffsetX <- MinusOne
  OffsetY <- MinusOne
  SafetyMargin = 1
  SearchOffset = 1
  StartCorner = "bottom_right"
  Detections <- OneBox
  LargestArea = 1
  DetectionTimeout = 0
  TargetConfirmHits = 1
  SimilarConfidence = 0
  SameTargetCells = 0
  Positions <- LaneEnds
  Yaws = {0, 4}
  Turn = 8
  StallingInputs = {}
  UsePoseDepth = FALSE
  OdometryTimeout = 0
  DepthTimeout = 1
  TargetConfirmTime = 0
  InitialReacquireTimeout = 0
  ReacquireTimeout = 0
  CloseArea = 1
  CloseHoldTime = 0
  StrongForwardTime = 0
  StrongBackoffTime = 0
  SettleHoldTime = 0
  HeadingHoldTime = 0
  InitialSearchRadius = 2
  SkipDistance = 2
  Lookahead = 1
  EndTransition = 1
  ReachTolerance = 0
  RejoinCrossTrack = 0
  RejoinHeading = 0
  TransferHeading = 0
  AlignHeading = 1
  ReleaseHeading = 2
  StopHeading = 2
  ScanStep = 1
  ScanTolerance = 1
  DynamicRejoin = TRUE
