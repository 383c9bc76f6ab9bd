--------------------------- MODULE MissionRefinement ---------------------------
(***************************************************************************)
(* The controller as an implementation of VisionMission.  A pursuit that   *)
(* interrupts a lane is part of that lane; the scan, the turn and the      *)
(* pursuit before the first lane are the first target.                     *)
(***************************************************************************)
EXTENDS LaneVisionController

MissionPhase ==
  IF state \in Standby THEN "waiting"
  ELSE IF state = "FAILSAFE" THEN "failed"
  ELSE IF state = "COMPLETE" THEN "complete"
  ELSE IF HasActiveLane THEN "lane" ELSE "first target"

Abstract == INSTANCE VisionMission
              WITH phase <- MissionPhase, lane <- mission.active,
                   covered <- mission.completed, held <- override # "none"

(* Every step of the controller is a step of the mission or leaves it      *)
(* alone: no lane is taken twice or skipped, whatever interrupts it, and   *)
(* the end of the mission lets go of the channels (select_next_lane,       *)
(* finish_target, publish_forward).                                        *)
ImplementsMission == Abstract!Spec
=============================================================================
