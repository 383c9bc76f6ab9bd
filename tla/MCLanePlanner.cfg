SPECIFICATION Spec
INVARIANT ChoiceIsNearest
INVARIANT LanesCoverArena
CHECK_DEADLOCK FALSE
CONSTANTS
  ArenaLength = 6
  ArenaWidth = 38
  OffsetX <- MinusTwo
  OffsetY = 1
  SafetyMargin = 1
  SearchOffset = 7
  StartCorner = "bottom_left"
