----------------------------- MODULE VisionMission -----------------------------
(***************************************************************************)
(* What the lane vision controller promises, without what it sees or where *)
(* it is: once control is granted it deals with a first target, then with  *)
(* every lane of the arena, one at a time and none twice, and lets go of   *)
(* the RC channels.  A failure may end the mission at any moment, for good.*)
(***************************************************************************)
CONSTANTS Lanes, NoLane

VARIABLES
  phase,     \* what the mission is at
  lane,      \* the lane under way, if any
  covered,   \* the lanes that are completed
  held       \* the RC channels are overridden

vars == <<phase, lane, covered, held>>

Init == phase = "waiting" /\ lane = NoLane /\ covered = {} /\ held = FALSE

Grant ==
  /\ phase = "waiting"
  /\ phase' \in {"first target", "failed"}
  /\ UNCHANGED <<lane, covered, held>>

(* The mission commands the channels as it needs; it can always let go.    *)
Drive ==
  /\ phase \in {"first target", "lane"}
  /\ held' \in BOOLEAN
  /\ UNCHANGED <<phase, lane, covered>>

(* The next lane is one that is left; with none left the mission is over,  *)
(* and the channels are released in the same step.                         *)
NextLane ==
  IF covered' = Lanes
  THEN phase' = "complete" /\ lane' = NoLane /\ held' = FALSE
  ELSE phase' = "lane" /\ lane' \in Lanes \ covered' /\ held' \in BOOLEAN

TakeFirstLane == phase = "first target" /\ covered' = covered /\ NextLane

CoverLane == phase = "lane" /\ covered' = covered \cup {lane} /\ NextLane

(* An emergency stop leaves the channels to the next tick. *)
Fail ==
  /\ phase # "failed" /\ phase' = "failed"
  /\ held' \in {held, FALSE}
  /\ UNCHANGED <<lane, covered>>

Release ==
  /\ phase \in {"complete", "failed"}
  /\ held' = FALSE
  /\ UNCHANGED <<phase, lane, covered>>

Next == Grant \/ Drive \/ TakeFirstLane \/ CoverLane \/ Fail \/ Release

Spec == Init /\ [][Next]_vars
=============================================================================
