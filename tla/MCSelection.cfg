SPECIFICATION Spec
INVARIANT ClearWinnerSelected
INVARIANT NotBeatenLater
CONSTANTS
  Boxes <- SomeBoxes
  BoxLimit = 3
  TargetClassId <- AnyClass
  TargetClassName = "buoy"
  ClassNames <- Names
  AreaSimilar = 15
  ConfidenceSimilar = 0
