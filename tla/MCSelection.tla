------------------------------ MODULE MCSelection ------------------------------
(* Boxes for the selection: the areas are alike one by one but not the     *)
(* first and the last, in each of two classes that match and one that does *)
(* not.                                                                    *)
EXTENDS TargetSelection

Box(c, a, p, x) == [class |-> c, area |-> a, conf |-> p, x |-> x]
SomeBoxes ==
  {Box(c, a, p, 0) : c \in {0, 1}, a \in {80, 90, 100}, p \in {0, 1, 2}}
  \cup {Box(0, 90, 1, 1), Box(1, 0, 1, 0), Box(2, 100, 2, 1)}
Names == [c \in 0 .. 2 |-> IF c = 2 THEN "diver" ELSE "buoy"]
AnyClass == -1
=============================================================================
