---------------------------- MODULE LanePlanner ----------------------------
(***************************************************************************)
(* The arena geometry of the lane mission: the safe bounds, the lanes that *)
(* cover them, and the questions the controller asks about a position.     *)
(*                                                                         *)
(* Coordinates are integers in a unit fine enough for the lane centres to  *)
(* fall on the grid (ScaleAssumption).  Lengths that the code compares     *)
(* after a square root are compared squared.                               *)
(***************************************************************************)
EXTENDS Integers

CONSTANTS
  ArenaLength,    \* arena_length_m
  ArenaWidth,     \* arena_width_m
  OffsetX,        \* arena_offset_x_m
  OffsetY,        \* arena_offset_y_m
  SafetyMargin,   \* arena_safety_margin_m
  SearchOffset,   \* lane_search_offset_m
  StartCorner     \* arena_start_corner

Point == [x : Int, y : Int]

(* What the constructor accepts; it throws on anything else. *)
ASSUME ArenaAssumption ==
  /\ ArenaLength \in Nat \ {0} /\ ArenaWidth \in Nat \ {0}
  /\ OffsetX \in Int /\ OffsetY \in Int
  /\ SafetyMargin \in Nat /\ SearchOffset \in Nat \ {0}
  /\ StartCorner \in {"bottom_left", "bottom_right"}
  /\ 2 * SafetyMargin < ArenaLength
  /\ 2 * SafetyMargin < ArenaWidth

----------------------------------------------------------------------------
(* The constructor: bounds, lane count, lanes. *)

XMin == OffsetX + SafetyMargin
XMax == OffsetX + ArenaLength - SafetyMargin
YMin == IF StartCorner = "bottom_left" THEN OffsetY - ArenaWidth + SafetyMargin
                                       ELSE OffsetY + SafetyMargin
YMax == IF StartCorner = "bottom_left" THEN OffsetY - SafetyMargin
                                       ELSE OffsetY + ArenaWidth - SafetyMargin

UsableWidth == YMax - YMin

(* ceil(usable_width / (2 * lane_search_offset)), at least 1; the variant  *)
(* rounds down. *)
LaneCountRoundedDown == UsableWidth \div (2 * SearchOffset)
LaneCount == (UsableWidth + 2 * SearchOffset - 1) \div (2 * SearchOffset)
LaneSpacing == UsableWidth \div LaneCount
Lanes == 0 .. LaneCount - 1

(* The unit divides the arena so that (index + 0.5) * spacing is exact. *)
ASSUME ScaleAssumption == UsableWidth % (2 * LaneCount) = 0

LaneY(i) ==
  LET shift == i * LaneSpacing + LaneSpacing \div 2
  IN  IF StartCorner = "bottom_left" THEN YMax - shift ELSE YMin + shift

EndpointA(i) == [x |-> XMin, y |-> LaneY(i)]
EndpointB(i) == [x |-> XMax, y |-> LaneY(i)]
LaneLength == XMax - XMin

----------------------------------------------------------------------------
(* The queries. *)

Sq(n) == n * n
DistSq(p, q) == Sq(p.x - q.x) + Sq(p.y - q.y)

Lesser(a, b) == IF a <= b THEN a ELSE b
Clamp(v, lo, hi) == IF v < lo THEN lo ELSE IF v > hi THEN hi ELSE v

InsideSafeBounds(p) == /\ XMin <= p.x /\ p.x <= XMax
                       /\ YMin <= p.y /\ p.y <= YMax

(* A lane is entered at its nearer end; a tie goes to end A. The variant   *)
(* enters it at the far end.                                               *)
StartAtFarEnd(p, i) == DistSq(p, EndpointA(i)) >= DistSq(p, EndpointB(i))
StartAtA(p, i) == DistSq(p, EndpointA(i)) <= DistSq(p, EndpointB(i))
EndDistSq(p, i) == Lesser(DistSq(p, EndpointA(i)), DistSq(p, EndpointB(i)))

(* closest_uncompleted_endpoint keeps the first lane of the smallest       *)
(* distance: the lane that no other beats, ties to the lowest index.       *)
Preferred(p, i, j) ==
  \/ EndDistSq(p, i) < EndDistSq(p, j)
  \/ EndDistSq(p, i) = EndDistSq(p, j) /\ i <= j

ClosestLane(p, completed) ==
  CHOOSE i \in Lanes \ completed : \A j \in Lanes \ completed : Preferred(p, i, j)

LaneStart(i, atA)  == IF atA THEN EndpointA(i) ELSE EndpointB(i)
LaneFinish(i, atA) == IF atA THEN EndpointB(i) ELSE EndpointA(i)

(* A lane runs along X from XMin to XMax, so projecting clamps x. *)
ProjectToLane(p, i) == [x |-> Clamp(p.x, XMin, XMax), y |-> LaneY(i)]
CrossTrackSq(p, i) == DistSq(p, ProjectToLane(p, i))
ProgressFromStart(p, atA) ==
  Clamp(IF atA THEN p.x - XMin ELSE XMax - p.x, 0, LaneLength)
============================================================================
