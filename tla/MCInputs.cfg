SPECIFICATION FairSpec
INVARIANT ControlDiscipline
PROPERTY NoBlindThrust
PROPERTY FailsafeReleases
PROPERTY MissingInputsStop
PROPERTY PulsesEnd
CHECK_DEADLOCK FALSE
CONSTANTS
  ArenaLength = 6
  ArenaWidth = 4
  OffsetX <- MinusOne
  OffsetY <- MinusOne
  SafetyMargin = 1
  SearchOffset = 1
  StartCorner = "bottom_right"
  Detections <- OneBox
  LargestArea = 1
  DetectionTimeout = 0
  TargetConfirmHits = 1
  SimilarConfidence = 0
  SameTargetCells = 0
  Positions <- OneEnd
  Yaws = {0}
  Turn = 8
  StallingInputs = {"odometry", "depth"}
  UsePoseDepth = FALSE
  OdometryTimeout = 0
  DepthTimeout = 1
  TargetConfirmTime = 0
  InitialReacquireTimeout = 1
  ReacquireTimeout = 1
  CloseArea = 1
  CloseHoldTime = 0
  StrongForwardTime = 2
  StrongBackoffTime = 1
  SettleHoldTime = 0
  HeadingHoldTime = 0
  InitialSearchRadius = 2
  SkipDistance = 2
  Lookahead = 1
  EndTransition = 1
  ReachTolerance = 0
  RejoinCrossTrack = 0
  RejoinHeading = 0
  TransferHeading = 0
  AlignHeading = 1
  ReleaseHeading = 2
  StopHeading = 2
  ScanStep = 1
  ScanTolerance = 8
  DynamicRejoin = TRUE
