--------------------------- MODULE MCLanePlanner ---------------------------
(***************************************************************************)
(* The planner's queries over a grid of positions and every set of         *)
(* completed lanes, against the loop of closest_uncompleted_endpoint run   *)
(* step by step.                                                           *)
(***************************************************************************)
EXTENDS LanePlanner

VARIABLES position, completed

Grid == [x : (XMin - 2) .. (XMax + 2), y : (YMin - 2) .. (YMax + 2)]
MinusTwo == -2

Init == position \in Grid /\ completed = {}

CompleteLane == \E i \in Lanes \ completed :
                  completed' = completed \cup {i} /\ UNCHANGED position

Next == CompleteLane
Spec == Init /\ [][Next]_<<position, completed>>

----------------------------------------------------------------------------
(* The loop of the code: keep the best so far, replace it on a strictly    *)
(* smaller distance.  -1 stands for the empty optional.                    *)
LoopStep(best, i) ==
  IF i \in completed THEN best
  ELSE IF best = -1 \/ EndDistSq(position, i) < EndDistSq(position, best) THEN i
  ELSE best
LoopBest[n \in 0 .. LaneCount] == IF n = 0 THEN -1 ELSE LoopStep(LoopBest[n - 1], n - 1)
LoopChoice == LoopBest[LaneCount]

(* The lane chosen is the one the loop ends with, and its start is the     *)
(* nearest end of any uncompleted lane.                                    *)
ChoiceIsNearest ==
  completed # Lanes =>
    LET i == ClosestLane(position, completed)
        start == LaneStart(i, StartAtA(position, i))
    IN  /\ i = LoopChoice
        /\ \A j \in Lanes \ completed, atA \in BOOLEAN :
             DistSq(position, start) <= DistSq(position, LaneStart(j, atA))

(* The lanes cover the arena: no safe point is further than the search     *)
(* offset from a lane (the lane count of the constructor).                 *)
LanesCoverArena ==
  InsideSafeBounds(position) =>
    \E i \in Lanes : CrossTrackSq(position, i) <= Sq(SearchOffset)
============================================================================
