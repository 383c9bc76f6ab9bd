SPECIFICATION Spec
INVARIANT SkipWindow
INVARIANT ConfirmationIsOfTarget
INVARIANT CommandContained
PROPERTY ScanKeepsLargest
CHECK_DEADLOCK FALSE
CONSTANTS
  ArenaLength = 6
  ArenaWidth = 4
  OffsetX <- MinusOne
  OffsetY <- MinusOne
  SafetyMargin = 1
  SearchOffset = 1
  StartCorner = "bottom_right"
  Detections <- TwoTargets
  LargestArea = 2
  DetectionTimeout = 1
  TargetConfirmHits = 2
  SimilarConfidence = 0
  SameTargetCells = 0
  Positions <- AlongOneLane
  Yaws = {0}
  Turn = 8
  StallingInputs = {}
  UsePoseDepth = FALSE
  OdometryTimeout = 0
  DepthTimeout = 1
  TargetConfirmTime = 1
  InitialReacquireTimeout = 1
  ReacquireTimeout = 1
  CloseArea = 2
  CloseHoldTime = 1
  StrongForwardTime = 1
  StrongBackoffTime = 1
  SettleHoldTime = 0
  HeadingHoldTime = 0
  InitialSearchRadius = 2
  SkipDistance = 3
  Lookahead = 1
  EndTransition = 1
  ReachTolerance = 0
  RejoinCrossTrack = 0
  RejoinHeading = 0
  TransferHeading = 0
  AlignHeading = 1
  ReleaseHeading = 2
  StopHeading = 2
  ScanStep = 1
  ScanTolerance = 1
  DynamicRejoin = TRUE
