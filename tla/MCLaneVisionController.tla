----------------------- MODULE MCLaneVisionController -----------------------
(* Instances of the controller for TLC: small arenas, few positions, few   *)
(* boxes.  Each definition is the value of a constant in some .cfg.        *)
EXTENDS MissionRefinement

P(a, b) == [x |-> a, y |-> b]

(* Two lanes, y = 1 and y = 3, from x = 0 to x = 4; their ends and a point *)
(* of the first lane.                                                      *)
LaneEnds == {P(0, 1), P(4, 1), P(0, 3), P(4, 3)}
OneBox == {[area |-> 1, conf |-> 0, cell |-> 0]}

(* Two targets far apart in the image, each far away or close; the model   *)
(* is surer of a far box.                                                  *)
TwoTargets == {[area |-> a, conf |-> 2 - a, cell |-> c] : a \in {1, 2}, c \in {0, 5}}
NoBox == {}

(* The one lane of the smallest arena, y = 1: both ends, and a point off   *)
(* the lane at the search offset.                                          *)
AlongOneLane == {P(0, 1), P(4, 1), P(2, 2)}
OneEnd == {P(0, 1), P(4, 1)}
MinusOne == -1
============================================================================
