---------------------------- MODULE MissionProofs ----------------------------
(***************************************************************************)
(* The controller's mission, for every arena, every set of boxes and every *)
(* parameter the code accepts: the types, the invariants, and the          *)
(* properties and the refinement that follow from them.                    *)
(*                                                                         *)
(* None of the invariants is inductive alone: that a pursuit on a lane     *)
(* still has its lane rests on what the types say of the planner's choice, *)
(* that a skip window closes with its lane rests on lane ownership, and    *)
(* that nothing drives the vehicle before the grant rests on the control   *)
(* discipline.  Together they are, and each action is shown to preserve    *)
(* them.                                                                   *)
(***************************************************************************)
EXTENDS MissionRefinement, LanePlannerProofs

----------------------------------------------------------------------------
(* Types.  TypeOK is taken apart by what the handlers change together, so  *)
(* that a handler is looked at part by part.                               *)

Timers == [TimerNames -> Nat \cup {Unset}]

StateType   == state \in State /\ stateAge \in 0 .. StateAgeCap(state) /\ since \in Timers
GrantType   == hasControl \in BOOLEAN /\ holdDepth \in BOOLEAN /\ confirmedTopic \in BOOLEAN
SensorType  ==
  /\ startFrame \in BOOLEAN
  /\ odom \in [have : BOOLEAN, age : 0 .. OdometryTimeout + 1,
               pos : Positions \cup {Origin}, yaw : Yaws \cup {0}, moving : BOOLEAN]
  /\ depth \in [pose : DepthSample, scalar : DepthSample]
TargetType  == target \in [context : {"INITIAL", "LANE"},
                           handoff : Positions \cup {Origin}, departure : 0 .. LaneLength]
ScanType    == scan \in [candidate : Detections \cup {NoCandidate}, yaw : Yaws \cup {0},
                         accumulated : Nat, previous : Yaws \cup {0}, goal : Yaws \cup {0}]
LaneType    ==
  /\ mission \in [completed : SUBSET Lanes, active : Lanes \cup {NoLane}, startAtA : BOOLEAN]
  /\ transfer \in [enabled : BOOLEAN, phase : TransferPhases, start : Positions \cup {Origin}]
  /\ ignoreUntil \in 0 .. LaneLength \cup {Unset}
CommandType == override \in {"none", "neutral", "forward", "strong", "backoff"}

(* The parts are all of TypeOK. *)
LEMMA TypeParts ==
  TypeOK <=> /\ StateType /\ GrantType /\ SensorType /\ buoy \in Track
             /\ TargetType /\ ScanType /\ LaneType /\ aligned \in BOOLEAN /\ CommandType
  BY DEF TypeOK, StateType, GrantType, SensorType, TargetType, ScanType, LaneType,
         CommandType, Timers

(* So are they after a step. *)
LEMMA TypePartsNext ==
  TypeOK' <=> /\ StateType' /\ GrantType' /\ SensorType' /\ buoy' \in Track
              /\ TargetType' /\ ScanType' /\ LaneType' /\ aligned' \in BOOLEAN
              /\ CommandType'
  BY DEF TypeOK, StateType, GrantType, SensorType, TargetType, ScanType, LaneType,
         CommandType, Timers

----------------------------------------------------------------------------
(* The operators of the model. *)

(* Every duration and length the handlers compare with is a natural. *)
LEMMA Durations ==
  /\ TargetConfirmTime \in Nat /\ CloseHoldTime \in Nat /\ SettleHoldTime \in Nat
  /\ HeadingHoldTime \in Nat /\ InitialReacquireTimeout \in Nat
  /\ ReacquireTimeout \in Nat /\ StrongForwardTime \in Nat /\ StrongBackoffTime \in Nat
  /\ OdometryTimeout \in Nat /\ DepthTimeout \in Nat /\ SkipDistance \in Nat
  BY ValidParameters

(* So is every cap of an age. *)
LEMMA Caps ==
  /\ \A s \in State : StateAgeCap(s) \in Nat
  /\ \A t \in TimerNames : TimerCap(t) \in Nat
  BY Durations DEF StateAgeCap, TimerCap, TimerNames

(* Odometry reports a point. *)
LEMMA PositionIsPoint == SensorType => odom.pos \in Point
  BY ValidParameters DEF SensorType, Origin, Point

(* An age stays within its cap. *)
LEMMA AgedType ==
  ASSUME NEW cap \in Nat, NEW age \in Nat
  PROVE  Aged(age, cap) \in 0 .. cap
  BY DEF Aged, Lesser

(* The turn between two headings is a natural. *)
LEMMA TurnBetweenType ==
  ASSUME NEW a \in Int, NEW b \in Int
  PROVE  TurnBetween(a, b) \in Nat
  <1>1. (a - b) % Turn \in Nat /\ (b - a) % Turn \in Nat
    BY ValidParameters
  <1> QED BY <1>1 DEF TurnBetween, Lesser

(* Progress along a lane ends at its end (progress_from_start). *)
LEMMA ProgressType ==
  ASSUME NEW p \in Point, NEW atA
  PROVE  ProgressFromStart(p, atA) \in 0 .. LaneLength
  BY ArenaFacts DEF ProgressFromStart, Clamp, Point

(* The skip window ends on the lane (finish_target). *)
LEMMA SkipUntilType == TargetType => SkipUntil \in 0 .. LaneLength
  BY ArenaFacts, Durations DEF TargetType, SkipUntil, Lesser

(* A stability timer is unset or an age. *)
LEMMA RunningType ==
  ASSUME StateType, NEW t \in TimerNames, NEW c
  PROVE  Running(t, c) \in Nat \cup {Unset}
  BY DEF StateType, Timers, Running

(* The empty and the fresh track are tracks. *)
LEMMA BuoyTypes ==
  /\ NoBuoy \in Track
  /\ \A d \in Detections : FreshTrack(d) \in Track
  BY TrackerAssumption DEF NoBuoy, FreshTrack, Track, Detection

(* The filter keeps a track a track (update_detection_slot). *)
LEMMA UpdatedType ==
  ASSUME NEW b \in Track, NEW d \in Detections
  PROVE  Updated(b, d) \subseteq Track
  <1>1. /\ d.area \in Nat /\ d.conf \in Nat /\ d.cell \in Nat
        /\ b.area \in Nat /\ b.cell \in Nat /\ b.hits \in 0 .. TargetConfirmHits
    BY TrackerAssumption DEF Detection, Track
  <1>2. FilteredArea(b.area, d.area) \subseteq Nat /\ LowPass(b.cell, d.cell) \subseteq Nat
    BY <1>1, TrackerAssumption DEF LowPass, FilteredArea
  <1>3. (IF b.hits < TargetConfirmHits THEN b.hits + 1 ELSE b.hits) \in 0 .. TargetConfirmHits
    BY <1>1, TrackerAssumption
  <1>4. 0 \in 0 .. DetectionTimeout + 1
    BY TrackerAssumption
  <1> QED BY <1>1, <1>2, <1>3, <1>4 DEF Updated, Track

(* So does a message (accept_buoy_detection). *)
LEMMA AcceptedType ==
  ASSUME NEW b \in Track, NEW d \in Detections, NEW selecting
  PROVE  AcceptedTracks(b, d, selecting) \subseteq Track
  BY BuoyTypes, UpdatedType DEF AcceptedTracks

----------------------------------------------------------------------------
(* The shared parts of the handlers. *)

(* A transition sets a state, its age and the timers (transition_to). *)
LEMMA TransitionType ==
  ASSUME StateType, NEW next \in State, NEW tm \in Timers, TransitionTo(next, tm)
  PROVE  StateType' /\ state' = next
  <1>1. stateAge' \in 0 .. StateAgeCap(next)
    BY Caps DEF StateType, TransitionTo
  <1>2. since' \in Timers
    BY DEF TransitionTo, Timers, TimerNames
  <1> QED BY <1>1, <1>2 DEF TransitionTo, StateType

(* Staying sets the timers only. *)
LEMMA StayType ==
  ASSUME StateType, NEW tm \in Timers, StayWith(tm)
  PROVE  StateType' /\ state' = state
  BY DEF StayWith, StateType

(* Setting a timer to an age or to nothing leaves timers. *)
LEMMA TimerSet ==
  ASSUME NEW tm \in Timers, NEW t \in TimerNames, NEW v \in Nat \cup {Unset}
  PROVE  [tm EXCEPT ![t] = v] \in Timers
  BY DEF Timers

(* So does resetting one. *)
LEMMA TimerReset ==
  ASSUME NEW tm \in Timers, NEW t \in TimerNames
  PROVE  [tm EXCEPT ![t] = Unset] \in Timers
  BY TimerSet

(* The command published is one of the commands (on_timer). *)
LEMMA PublishType ==
  ASSUME CommandType,
         NEW command \in {"none", "nochange", "neutral", "forward", "strong", "backoff"},
         PublishForward(command)
  PROVE  CommandType'
  BY DEF CommandType, PublishForward

(* A pursuit begins in TARGET_HOLD, on a lane only with one (begin_target). *)
LEMMA BeginTargetType ==
  ASSUME StateType, SensorType, TargetType,
         NEW context \in {"INITIAL", "LANE"}, NEW handoff \in Positions \cup {Origin},
         NEW tm \in Timers, BeginTarget(context, handoff, tm)
  PROVE  /\ StateType' /\ TargetType' /\ target'.context = context
         /\ state' = IF context = "LANE" /\ ~HasActiveLane THEN "FAILSAFE" ELSE "TARGET_HOLD"
  <1> DEFINE cleared == [tm EXCEPT !.hold = Unset, !.close = Unset]
             next == IF context = "LANE" /\ ~HasActiveLane THEN "FAILSAFE" ELSE "TARGET_HOLD"
             departure == IF context = "LANE" /\ HasActiveLane THEN ActiveProgress
                                                               ELSE target.departure
  <1>1. cleared \in Timers
    BY TimerReset DEF TimerNames
  <1>2. next \in State
    BY DEF State, Terminal, Pursuit
  <1>3. TransitionTo(next, cleared)
    BY DEF BeginTarget
  <1>4. StateType' /\ state' = next
    BY <1>1, <1>2, <1>3, TransitionType
  <1>5. departure \in 0 .. LaneLength
    BY PositionIsPoint, ProgressType DEF ActiveProgress, TargetType
  <1>6. target' = [context |-> context, handoff |-> handoff, departure |-> departure]
    BY DEF BeginTarget
  <1> QED BY <1>4, <1>5, <1>6 DEF TargetType

(* Either every lane is done and the mission completes, or a lane that is  *)
(* left becomes the active one (select_next_lane).                         *)
LEMMA SelectNextLaneType ==
  ASSUME StateType, SensorType, LaneType, aligned \in BOOLEAN,
         NEW completed \in SUBSET Lanes, NEW tm \in Timers, NEW laneToLane \in BOOLEAN,
         SelectNextLane(completed, tm, laneToLane)
  PROVE  /\ StateType' /\ LaneType' /\ aligned' \in BOOLEAN
         /\ mission'.completed = completed
         /\ \/ /\ state' = "COMPLETE" /\ completed = Lanes /\ mission'.active = NoLane
               /\ ignoreUntil' = ignoreUntil
            \/ /\ state' = "MOVE_TO_LANE_START" /\ mission'.active \in Lanes \ completed
               /\ ignoreUntil' = Unset
  <1>1. CASE Lanes \ completed = {}
    <2>1. "COMPLETE" \in State
      BY DEF State, Terminal
    <2>2. /\ mission' = [mission EXCEPT !.completed = completed, !.active = NoLane]
          /\ TransitionTo("COMPLETE", tm)
          /\ UNCHANGED <<transfer, ignoreUntil, aligned>>
      BY <1>1 DEF SelectNextLane
    <2>3. StateType' /\ state' = "COMPLETE"
      BY <2>1, <2>2, TransitionType
    <2>4. completed = Lanes
      BY <1>1
    <2>5. LaneType' /\ mission'.completed = completed /\ mission'.active = NoLane
      BY <2>2 DEF LaneType
    <2> QED BY <2>2, <2>3, <2>4, <2>5
  <1>2. CASE Lanes \ completed # {}
    <2> DEFINE i == ClosestLane(odom.pos, completed)
               reset == [tm EXCEPT !.heading = Unset, !.settle = Unset]
    <2>1. i \in Lanes \ completed
      BY <1>2, PositionIsPoint, ClosestLaneIsNearest
    <2>2. /\ mission' = [completed |-> completed, active |-> i,
                         startAtA |-> StartAtA(odom.pos, i)]
          /\ transfer' = [enabled |-> laneToLane, phase |-> "ALIGN_TRANSFER",
                          start |-> odom.pos]
          /\ ignoreUntil' = Unset /\ aligned' = FALSE
          /\ TransitionTo("MOVE_TO_LANE_START", reset)
      BY <1>2 DEF SelectNextLane
    <2>3. reset \in Timers
      BY TimerReset DEF TimerNames
    <2>4. StateType' /\ state' = "MOVE_TO_LANE_START"
      BY <2>2, <2>3, TransitionType DEF State, LaneStates
    <2>5. StartAtA(odom.pos, i) \in BOOLEAN
      BY DEF StartAtA
    <2>6. odom.pos \in Positions \cup {Origin}
      BY DEF SensorType
    <2>7. LaneType'
      BY <2>1, <2>2, <2>5, <2>6 DEF LaneType, TransferPhases
    <2> QED BY <2>1, <2>2, <2>4, <2>7
  <1> QED BY <1>1, <1>2

(* A pursuit ends at a lane to go to, or back on its own (finish_target). *)
LEMMA FinishTargetType ==
  ASSUME StateType, SensorType, TargetType, LaneType, aligned \in BOOLEAN,
         NEW skip \in BOOLEAN, FinishTarget(skip)
  PROVE  /\ StateType' /\ LaneType' /\ aligned' \in BOOLEAN /\ buoy' = NoBuoy
         /\ mission'.completed = mission.completed
         /\ \/ /\ target.context = "INITIAL"
               /\ \/ /\ state' = "COMPLETE" /\ mission.completed = Lanes
                     /\ mission'.active = NoLane /\ ignoreUntil' = ignoreUntil
                  \/ /\ state' = "MOVE_TO_LANE_START"
                     /\ mission'.active \in Lanes \ mission.completed
                     /\ ignoreUntil' = Unset
            \/ /\ target.context = "LANE" /\ mission' = mission
               /\ \/ ~HasActiveLane /\ state' = "FAILSAFE" /\ ignoreUntil' = ignoreUntil
                  \/ /\ HasActiveLane /\ state' = "RETURN_TO_ACTIVE_LANE"
                     /\ ignoreUntil' = IF skip THEN SkipUntil ELSE ignoreUntil
  <1> DEFINE tm == [since EXCEPT !.detect = Unset]
             settled == [tm EXCEPT !.settle = Unset]
  <1>1. tm \in Timers /\ settled \in Timers
    BY TimerReset DEF StateType, TimerNames
  <1>2. buoy' = NoBuoy
    BY DEF FinishTarget
  <1>3. CASE target.context = "INITIAL"
    <2>1. SelectNextLane(mission.completed, tm, FALSE)
      BY <1>3 DEF FinishTarget
    <2>2. mission.completed \in SUBSET Lanes
      BY DEF LaneType
    <2> HIDE DEF tm
    <2> QED BY <1>1, <1>2, <1>3, <2>1, <2>2, SelectNextLaneType
  <1>4. CASE target.context # "INITIAL" /\ ~HasActiveLane
    <2>1. TransitionTo("FAILSAFE", tm) /\ UNCHANGED <<mission, transfer, ignoreUntil, aligned>>
      BY <1>4 DEF FinishTarget
    <2>2. StateType' /\ state' = "FAILSAFE"
      BY <1>1, <2>1, TransitionType DEF State, Terminal
    <2> QED BY <1>2, <1>4, <2>1, <2>2 DEF LaneType, TargetType
  <1>5. CASE target.context # "INITIAL" /\ HasActiveLane
    <2>1. /\ TransitionTo("RETURN_TO_ACTIVE_LANE", settled)
          /\ ignoreUntil' = IF skip THEN SkipUntil ELSE ignoreUntil
          /\ aligned' = FALSE
          /\ UNCHANGED <<mission, transfer>>
      BY <1>5 DEF FinishTarget
    <2>2. StateType' /\ state' = "RETURN_TO_ACTIVE_LANE"
      BY <1>1, <2>1, TransitionType DEF State, LaneStates
    <2>3. LaneType'
      BY <2>1, SkipUntilType DEF LaneType
    <2> QED BY <1>2, <1>5, <2>1, <2>2, <2>3 DEF TargetType
  <1> QED BY <1>3, <1>4, <1>5

(* Lane following begins with its timers in order. *)
LEMMA EnterLaneFollowingType ==
  ASSUME StateType, NEW tm \in Timers, EnterLaneFollowing(tm)
  PROVE  StateType' /\ state' = "LANE_FOLLOWING_WITH_SEARCH"
  <1>1. [tm EXCEPT !.detect = Unset] \in Timers
    BY TimerReset DEF TimerNames
  <1> QED BY <1>1, TransitionType DEF EnterLaneFollowing, State, LaneStates

----------------------------------------------------------------------------
(* The invariants, and the steps that keep them.                           *)

Mission == ControlDiscipline /\ LaneOwnership /\ SkipWindow /\ CommandContained

IInv == TypeOK /\ Mission

USE DEF State, Standby, Terminal, Pursuit, Search, LaneStates

(* What the mission's invariants are about. *)
missionView == <<state, hasControl, holdDepth, override, mission, target, ignoreUntil>>

(* A step that leaves all of it alone preserves them. *)
LEMMA ViewUnchanged ==
  ASSUME Mission, UNCHANGED missionView
  PROVE  Mission'
  BY DEF Mission, missionView, ControlDiscipline, LaneOwnership, SkipWindow,
         CommandContained, HasActiveLane, ActiveLane, SkipUntil

(* Initially they hold. *)
LEMMA InitIInv == Init => IInv
  <1> SUFFICES ASSUME Init PROVE IInv
    OBVIOUS
  <1>1. StateType
    <2>1. since \in Timers
      BY DEF Init, Timers
    <2>2. stateAge \in 0 .. StateAgeCap("IDLE")
      BY Caps DEF Init
    <2> QED BY <2>1, <2>2 DEF Init, StateType
  <1>2. GrantType /\ CommandType /\ aligned \in BOOLEAN
    BY DEF Init, GrantType, CommandType
  <1>3. SensorType
    <2>1. /\ DepthTimeout + 1 \in 0 .. DepthTimeout + 1
          /\ OdometryTimeout + 1 \in 0 .. OdometryTimeout + 1
      BY Durations
    <2>2. NoDepth \in DepthSample
      BY <2>1 DEF NoDepth, DepthSample
    <2> QED BY <2>1, <2>2 DEF Init, SensorType
  <1>4. buoy \in Track
    BY BuoyTypes DEF Init
  <1>5. TargetType /\ ScanType
    BY ArenaFacts DEF Init, TargetType, ScanType
  <1>6. LaneType
    BY DEF Init, LaneType, TransferPhases
  <1>7. TypeOK
    BY <1>1, <1>2, <1>3, <1>4, <1>5, <1>6, TypeParts
  <1>8. Mission
    BY DEF Init, Mission, ControlDiscipline, LaneOwnership, SkipWindow, CommandContained,
           HasActiveLane, NoLane
  <1> QED BY <1>7, <1>8 DEF IInv

----------------------------------------------------------------------------
(* The sensors change what the mission knows, not where it stands. *)

(* The start frame arrives (on_start_frame). *)
LEMMA StartFrameStep == ASSUME IInv, OnStartFrame PROVE IInv'
  <1>1. Mission'
    BY ViewUnchanged DEF IInv, OnStartFrame, missionView, missionVars, grantVars, laneVars
  <1>2. TypeOK'
    BY DEF IInv, TypeOK, OnStartFrame, missionVars, grantVars, laneVars
  <1> QED BY <1>1, <1>2 DEF IInv

(* Odometry is delivered (on_odometry). *)
LEMMA OdometryStep == ASSUME IInv, OnOdometry PROVE IInv'
  <1>1. Mission'
    BY ViewUnchanged DEF IInv, OnOdometry, missionView, missionVars, grantVars, laneVars
  <1>2. TypeOK'
    BY Durations DEF IInv, TypeOK, OnOdometry, missionVars, grantVars, laneVars
  <1> QED BY <1>1, <1>2 DEF IInv

(* A depth is delivered (on_pose_depth, on_scalar_depth). *)
LEMMA DepthStep ==
  ASSUME IInv, NEW source \in {"pose", "scalar"}, OnDepth(source)
  PROVE  IInv'
  <1>1. Mission'
    BY ViewUnchanged DEF IInv, OnDepth, missionView, missionVars, grantVars, laneVars
  <1>2. SensorType'
    BY Durations DEF IInv, TypeOK, SensorType, OnDepth, DepthSample
  <1>3. TypeOK'
    BY <1>2 DEF IInv, TypeOK, SensorType, OnDepth, missionVars, grantVars, laneVars
  <1> QED BY <1>1, <1>3 DEF IInv

(* A box is delivered: the track it leaves is a track (on_bbox). *)
LEMMA BboxStep ==
  ASSUME IInv, NEW d \in Detections, OnBbox(d)
  PROVE  IInv'
  <1>1. Mission'
    BY ViewUnchanged DEF IInv, OnBbox, missionView, grantVars, laneVars
  <1>2. buoy' \in Track
    BY AcceptedType DEF IInv, TypeOK, OnBbox
  <1>3. since' \in Timers
    BY TimerReset DEF IInv, TypeOK, OnBbox, Timers, TimersOfNewTarget, TimerNames
  <1>4. ScanType'
    BY DEF IInv, TypeOK, ScanType, OnBbox
  <1>5. TypeOK'
    BY <1>2, <1>3, <1>4 DEF IInv, TypeOK, ScanType, Timers, OnBbox, sensors, grantVars, laneVars
  <1> QED BY <1>1, <1>5 DEF IInv

----------------------------------------------------------------------------
(* The homing node and the operator. *)

(* A search request begins a mission with nothing done                     *)
(* (on_vision_search_request).                                             *)
LEMMA SearchRequestStep == ASSUME IInv, OnVisionSearchRequest PROVE IInv'
  <1> DEFINE tm == [t \in TimerNames |-> Unset]
  <1>1. tm \in Timers
    BY DEF Timers
  <1>2. StateType' /\ state' = "TARGET_CONFIRM"
    BY <1>1, TypeParts, TransitionType DEF IInv, OnVisionSearchRequest
  <1>3. ScanType'
    BY DEF IInv, TypeOK, ScanType, OnVisionSearchRequest, ResetMission
  <1>4. LaneType'
    BY DEF IInv, TypeOK, LaneType, OnVisionSearchRequest, ResetMission
  <1>5. TypeOK'
    BY <1>2, <1>3, <1>4, TypeParts, TypePartsNext, BuoyTypes
    DEF IInv, OnVisionSearchRequest, ResetMission, sensors, GrantType, SensorType,
        TargetType, CommandType
  <1>6. Mission'
    BY <1>2 DEF IInv, TypeOK, Mission, ControlDiscipline, LaneOwnership, SkipWindow,
       CommandContained, HasActiveLane, OnVisionSearchRequest, ResetMission
  <1> QED BY <1>5, <1>6 DEF IInv

(* A grant begins a pursuit or the scan, or ends the mission when there is *)
(* nothing to go by (on_vision_control_granted).                           *)
LEMMA GrantStep == ASSUME IInv, OnVisionControlGranted PROVE IInv'
  <1> USE DEF IInv
  <1>1. /\ StateType /\ SensorType /\ TargetType /\ ScanType /\ since \in Timers
        /\ odom.pos \in Positions \cup {Origin} /\ odom.yaw \in Yaws \cup {0}
    BY TypeParts DEF StateType, SensorType
  <1>2. /\ StateType' /\ TargetType' /\ ScanType' /\ holdDepth' \in BOOLEAN
        /\ \/ state' = "FAILSAFE"
           \/ state' \in {"TARGET_HOLD", "INITIAL_SCAN_360"} /\ holdDepth'
        /\ state' = "TARGET_HOLD" => target'.context = "INITIAL"
    <2>1. CASE ~RecentOdometry \/ ~HaveDepth
      <3>1. TransitionTo("FAILSAFE", since) /\ UNCHANGED <<holdDepth, target, scan>>
        BY <2>1 DEF OnVisionControlGranted
      <3>2. StateType' /\ state' = "FAILSAFE"
        BY <1>1, <3>1, TransitionType
      <3> QED BY <1>1, <3>1, <3>2 DEF TypeOK, TargetType, ScanType
    <2>2. CASE RecentOdometry /\ HaveDepth /\ Confirmed(buoy)
      <3>1. BeginTarget("INITIAL", odom.pos, since) /\ holdDepth' = TRUE /\ UNCHANGED scan
        BY <2>2 DEF OnVisionControlGranted, FixMissionDepth
      <3>2. /\ StateType' /\ TargetType' /\ target'.context = "INITIAL"
            /\ state' = "TARGET_HOLD"
        BY <1>1, <3>1, BeginTargetType
      <3> QED BY <1>1, <3>1, <3>2 DEF ScanType
    <2>3. CASE RecentOdometry /\ HaveDepth /\ ~Confirmed(buoy)
      <3>1. /\ TransitionTo("INITIAL_SCAN_360", since) /\ holdDepth' = TRUE
            /\ target' = [target EXCEPT !.handoff = odom.pos]
            /\ scan' = [scan EXCEPT !.candidate = NoCandidate, !.accumulated = 0,
                                    !.previous = odom.yaw]
        BY <2>3 DEF OnVisionControlGranted, FixMissionDepth, BeginInitialScan
      <3>2. StateType' /\ state' = "INITIAL_SCAN_360"
        BY <1>1, <3>1, TransitionType
      <3>3. TargetType'
        BY <1>1, <3>1 DEF TargetType
      <3>4. ScanType'
        BY <1>1, <3>1 DEF ScanType
      <3> QED BY <3>1, <3>2, <3>3, <3>4
    <2> QED BY <2>1, <2>2, <2>3
  <1>3. TypeOK'
    BY <1>2, TypeParts, TypePartsNext
    DEF OnVisionControlGranted, sensors, laneVars, GrantType, SensorType, LaneType, CommandType
  <1>4. Mission'
    BY <1>2 DEF TypeOK, Mission, ControlDiscipline, LaneOwnership, SkipWindow,
       CommandContained, HasActiveLane, ActiveLane, OnVisionControlGranted, laneVars
  <1> QED BY <1>3, <1>4

(* Ending in FAILSAFE with the command of before, or with none, breaks     *)
(* nothing (transition_to, release_rc).                                    *)
LEMMA FailsafeKeeps ==
  ASSUME IInv, state' = "FAILSAFE", override' \in {override, "none"},
         UNCHANGED <<hasControl, holdDepth, mission, target, ignoreUntil>>
  PROVE  Mission'
  BY DEF IInv, TypeOK, Mission, ControlDiscipline, LaneOwnership, SkipWindow,
     CommandContained, HasActiveLane, ActiveLane, SkipUntil

(* The emergency stop (on_emergency_stop). *)
LEMMA EmergencyStopStep == ASSUME IInv, OnEmergencyStop PROVE IInv'
  <1>1. StateType' /\ state' = "FAILSAFE"
    BY TypeParts, TransitionType DEF IInv, OnEmergencyStop, StateType
  <1>2. Mission'
    BY <1>1, FailsafeKeeps DEF OnEmergencyStop, grantVars, laneVars
  <1>3. TypeOK'
    BY <1>1 DEF IInv, TypeOK, StateType, Timers, OnEmergencyStop, sensors, grantVars, laneVars
  <1> QED BY <1>2, <1>3 DEF IInv

----------------------------------------------------------------------------
(* The tick before and after the mission. *)

(* The buoy is being confirmed, or is (run_target_confirm). *)
LEMMA TargetConfirmStep == ASSUME IInv, RunTargetConfirm PROVE IInv'
  <1>1. StateType /\ since \in Timers
    BY TypeParts DEF IInv, StateType
  <1>2. [since EXCEPT !.confirm = Running("confirm", Confirmed(buoy))] \in Timers
    BY <1>1, RunningType, TimerSet DEF TimerNames
  <1>3. StateType' /\ state' \in {"TARGET_CONFIRM", "WAIT_CONTROL_GRANT"}
    BY <1>1, <1>2, TransitionType, StayType DEF RunTargetConfirm
  <1>4. confirmedTopic' \in BOOLEAN
    BY DEF IInv, TypeOK, RunTargetConfirm
  <1>5. TypeOK'
    BY <1>3, <1>4 DEF IInv, TypeOK, StateType, Timers, RunTargetConfirm, sensors, laneVars
  <1>6. Mission'
    BY <1>3 DEF IInv, TypeOK, Mission, ControlDiscipline, LaneOwnership, SkipWindow,
       CommandContained, HasActiveLane, RunTargetConfirm, laneVars
  <1> QED BY <1>5, <1>6 DEF IInv

(* The channels are released after the mission (on_timer). *)
LEMMA ReleaseStep == ASSUME IInv, ReleaseRc PROVE IInv'
  <1>1. TypeOK'
    BY DEF IInv, TypeOK, ReleaseRc, sensors, grantVars, laneVars
  <1>2. Mission'
    BY DEF IInv, TypeOK, Mission, ControlDiscipline, LaneOwnership, SkipWindow,
       CommandContained, HasActiveLane, ActiveLane, SkipUntil, ReleaseRc, grantVars, laneVars
  <1> QED BY <1>1, <1>2 DEF IInv

(* Missing or forbidden inputs end the mission (on_timer). *)
LEMMA CheckInputsStep == ASSUME IInv, CheckInputs PROVE IInv'
  <1>1. StateType' /\ state' = "FAILSAFE"
    BY TypeParts, TransitionType DEF IInv, CheckInputs, StateType
  <1>2. Mission'
    BY <1>1, FailsafeKeeps DEF CheckInputs, grantVars, laneVars
  <1>3. TypeOK'
    BY <1>1 DEF IInv, TypeOK, StateType, Timers, CheckInputs, sensors, grantVars, laneVars
  <1> QED BY <1>2, <1>3 DEF IInv

----------------------------------------------------------------------------
(* The tick of a mission: what every such handler leaves alone, and what   *)
(* its change of the types comes down to.                                  *)

(* While a state is controlled the mission has its depth.                  *)
LEMMA ControlFacts ==
  ASSUME IInv, NEW s, s \notin Standby \cup Terminal, Control(s)
  PROVE  /\ StateType /\ SensorType /\ TargetType /\ ScanType /\ LaneType /\ CommandType
         /\ aligned \in BOOLEAN /\ buoy \in Track /\ since \in Timers
         /\ state = s /\ hasControl /\ holdDepth
         /\ hasControl' = hasControl /\ holdDepth' = holdDepth
         /\ GrantType' /\ SensorType'
  BY TypeParts DEF IInv, Control, InputsMissing, StateType, GrantType, SensorType,
     sensors, grantVars

(* No lane has the index of none. *)
LEMMA NoLaneIsNone == NoLane \notin Lanes
  BY LaneCountType DEF NoLane, Lanes

(* The scan turns on, finds nothing and takes the first lane, or turns to  *)
(* what it has seen (run_initial_scan).                                    *)
LEMMA InitialScanStep == ASSUME IInv, RunInitialScan PROVE IInv'
  <1> DEFINE swept == [scan EXCEPT !.accumulated = ScanProgress, !.previous = odom.yaw]
  <1>1. /\ StateType /\ SensorType /\ TargetType /\ ScanType /\ LaneType /\ CommandType
        /\ aligned \in BOOLEAN /\ buoy \in Track /\ since \in Timers
        /\ state = "INITIAL_SCAN_360" /\ hasControl /\ holdDepth
        /\ hasControl' = hasControl /\ holdDepth' = holdDepth
        /\ GrantType' /\ SensorType'
    BY ControlFacts DEF RunInitialScan
  <1>2. ScanProgress \in Nat
    <2>1. Yaws \cup {0} \subseteq Int
      BY ValidParameters
    <2>2. odom.yaw \in Int /\ scan.previous \in Int /\ scan.accumulated \in Nat
      BY <1>1, <2>1 DEF SensorType, ScanType
    <2>3. TurnBetween(odom.yaw, scan.previous) \in Nat
      BY <2>2, TurnBetweenType
    <2> QED BY <2>2, <2>3 DEF ScanProgress
  <1>3. odom.yaw \in Yaws \cup {0}
    BY <1>1 DEF SensorType
  <1>4. swept \in [candidate : Detections \cup {NoCandidate}, yaw : Yaws \cup {0},
                   accumulated : Nat, previous : Yaws \cup {0}, goal : Yaws \cup {0}]
    BY <1>1, <1>2, <1>3 DEF ScanType
  <1>5. CommandType'
    BY <1>1, PublishType DEF RunInitialScan
  <1>6. mission.completed \in SUBSET Lanes
    BY <1>1 DEF LaneType
  <1> HIDE DEF swept
  <1>7. /\ StateType' /\ ScanType' /\ LaneType' /\ aligned' \in BOOLEAN /\ buoy' \in Track
        /\ \/ /\ state' \in {"INITIAL_SCAN_360", "TURN_TO_INITIAL_TARGET"}
              /\ UNCHANGED <<mission, ignoreUntil>>
           \/ /\ state' = "MOVE_TO_LANE_START" /\ ignoreUntil' = Unset
              /\ mission'.completed = mission.completed
              /\ mission'.active \in Lanes \ mission.completed
           \/ /\ state' = "COMPLETE" /\ ignoreUntil' = ignoreUntil
              /\ mission'.completed = mission.completed /\ mission.completed = Lanes
              /\ mission'.active = NoLane
    <2>1. CASE ScanProgress < Turn - ScanTolerance
      <3>1. scan' = swept /\ StayWith(since) /\ UNCHANGED <<buoy, laneVars, aligned>>
        BY <2>1 DEF RunInitialScan, swept
      <3>2. StateType' /\ state' = state
        BY <1>1, <3>1, StayType
      <3> QED BY <1>1, <1>4, <3>1, <3>2 DEF ScanType, LaneType, laneVars
    <2>2. CASE ~(ScanProgress < Turn - ScanTolerance) /\ scan.candidate = NoCandidate
      <3>1. /\ scan' = swept /\ SelectNextLane(mission.completed, since, FALSE)
            /\ UNCHANGED buoy
        BY <2>2 DEF RunInitialScan, swept
      <3>2. ScanType'
        BY <1>4, <3>1 DEF ScanType
      <3> QED BY <1>1, <1>6, <3>1, <3>2, SelectNextLaneType
    <2>3. CASE ~(ScanProgress < Turn - ScanTolerance) /\ scan.candidate # NoCandidate
      <3>1. /\ scan' = [swept EXCEPT !.goal = scan.yaw]
            /\ buoy' = NoBuoy /\ aligned' = FALSE
            /\ TransitionTo("TURN_TO_INITIAL_TARGET", [since EXCEPT !.settle = Unset])
            /\ UNCHANGED laneVars
        BY <2>3 DEF RunInitialScan, swept
      <3>2. [since EXCEPT !.settle = Unset] \in Timers
        BY <1>1, TimerReset DEF TimerNames
      <3>3. StateType' /\ state' = "TURN_TO_INITIAL_TARGET"
        BY <1>1, <3>1, <3>2, TransitionType
      <3>4. scan.yaw \in Yaws \cup {0}
        BY <1>1 DEF ScanType
      <3>5. ScanType'
        BY <1>4, <3>1, <3>4 DEF ScanType
      <3> QED BY <1>1, <3>1, <3>3, <3>5, BuoyTypes DEF LaneType, laneVars
    <2> QED BY <2>1, <2>2, <2>3
  <1>8. UNCHANGED target /\ override' = IF state' \in Terminal THEN "none" ELSE "neutral"
    BY DEF RunInitialScan, PublishForward
  <1>9. TypeOK'
    BY <1>1, <1>5, <1>7, <1>8, TypePartsNext DEF TargetType
  <1>10. Mission'
    BY <1>1, <1>7, <1>8, NoLaneIsNone DEF IInv, Mission, ControlDiscipline, LaneOwnership, SkipWindow,
       CommandContained, HasActiveLane, ActiveLane
  <1> QED BY <1>9, <1>10 DEF IInv

(* The turn ends with a buoy, with the time for it, or goes on             *)
(* (run_turn_to_initial_target).                                           *)
LEMMA TurnStep == ASSUME IInv, RunTurnToInitialTarget PROVE IInv'
  <1>1. /\ StateType /\ SensorType /\ TargetType /\ ScanType /\ LaneType /\ CommandType
        /\ aligned \in BOOLEAN /\ buoy \in Track /\ since \in Timers
        /\ state = "TURN_TO_INITIAL_TARGET" /\ hasControl /\ holdDepth
        /\ hasControl' = hasControl /\ holdDepth' = holdDepth
        /\ GrantType' /\ SensorType'
    BY ControlFacts DEF RunTurnToInitialTarget
  <1>2. mission.completed \in SUBSET Lanes /\ target.handoff \in Positions \cup {Origin}
    BY <1>1 DEF LaneType, TargetType
  <1>3. CommandType'
    BY <1>1, PublishType DEF RunTurnToInitialTarget
  <1>4. UNCHANGED <<buoy, scan>>
        /\ override' = IF state' \in Terminal THEN "none" ELSE "neutral"
    BY DEF RunTurnToInitialTarget, PublishForward
  <1>5. /\ StateType' /\ TargetType' /\ LaneType' /\ aligned' \in BOOLEAN
        /\ \/ /\ state' = "TARGET_HOLD" /\ target'.context = "INITIAL"
              /\ UNCHANGED <<mission, ignoreUntil>>
           \/ /\ state' = state /\ UNCHANGED <<target, mission, ignoreUntil>>
           \/ /\ state' = "MOVE_TO_LANE_START" /\ ignoreUntil' = Unset
              /\ mission'.completed = mission.completed
              /\ mission'.active \in Lanes \ mission.completed
           \/ /\ state' = "COMPLETE" /\ ignoreUntil' = ignoreUntil
              /\ mission'.completed = mission.completed /\ mission.completed = Lanes
              /\ mission'.active = NoLane
    <2>1. CASE Recent(buoy)
      <3>1. BeginTarget("INITIAL", target.handoff, since) /\ UNCHANGED <<laneVars, aligned>>
        BY <2>1 DEF RunTurnToInitialTarget
      <3>2. StateType' /\ TargetType' /\ target'.context = "INITIAL" /\ state' = "TARGET_HOLD"
        BY <1>1, <1>2, <3>1, BeginTargetType
      <3> QED BY <1>1, <3>1, <3>2 DEF LaneType, laneVars
    <2>2. CASE ~Recent(buoy) /\ stateAge >= InitialReacquireTimeout
      <3>1. SelectNextLane(mission.completed, since, FALSE) /\ UNCHANGED target
        BY <2>2 DEF RunTurnToInitialTarget
      <3>2. TargetType'
        BY <1>1, <3>1 DEF TargetType
      <3> QED BY <1>1, <1>2, <3>1, <3>2, SelectNextLaneType
    <2>3. CASE ~Recent(buoy) /\ ~(stateAge >= InitialReacquireTimeout)
      <3>1. StayWith(since) /\ UNCHANGED <<laneVars, aligned, target>>
        BY <2>3 DEF RunTurnToInitialTarget
      <3>2. StateType' /\ state' = state
        BY <1>1, <3>1, StayType
      <3> QED BY <1>1, <3>1, <3>2 DEF LaneType, TargetType, laneVars
    <2> QED BY <2>1, <2>2, <2>3
  <1>6. TypeOK'
    BY <1>1, <1>3, <1>4, <1>5, TypePartsNext DEF ScanType
  <1>7. Mission'
    BY <1>1, <1>4, <1>5, NoLaneIsNone DEF IInv, Mission, ControlDiscipline, LaneOwnership, SkipWindow,
       CommandContained, HasActiveLane, ActiveLane
  <1> QED BY <1>6, <1>7 DEF IInv

----------------------------------------------------------------------------
(* The tick of a pursuit. *)

(* However a pursuit ends, the lanes are in order after it                 *)
(* (finish_target).                                                        *)
LEMMA PursuitEnds ==
  ASSUME IInv, state \in Pursuit, hasControl, NEW skip \in BOOLEAN, FinishTarget(skip),
         UNCHANGED <<hasControl, holdDepth, target>>,
         state' \in Terminal => override' = "none",
         override' \notin {"strong", "backoff"}
  PROVE  /\ StateType' /\ LaneType' /\ aligned' \in BOOLEAN /\ buoy' \in Track
         /\ Mission'
  <1>1. /\ StateType /\ SensorType /\ TargetType /\ LaneType /\ aligned \in BOOLEAN
        /\ holdDepth
    BY TypeParts DEF IInv, Mission, ControlDiscipline
  <1>2. /\ StateType' /\ LaneType' /\ aligned' \in BOOLEAN /\ buoy' = NoBuoy
        /\ mission'.completed = mission.completed
        /\ \/ /\ target.context = "INITIAL"
              /\ \/ /\ state' = "COMPLETE" /\ mission.completed = Lanes
                    /\ mission'.active = NoLane /\ ignoreUntil' = ignoreUntil
                 \/ /\ state' = "MOVE_TO_LANE_START"
                    /\ mission'.active \in Lanes \ mission.completed
                    /\ ignoreUntil' = Unset
           \/ /\ target.context = "LANE" /\ mission' = mission
              /\ \/ ~HasActiveLane /\ state' = "FAILSAFE" /\ ignoreUntil' = ignoreUntil
                 \/ /\ HasActiveLane /\ state' = "RETURN_TO_ACTIVE_LANE"
                    /\ ignoreUntil' = IF skip THEN SkipUntil ELSE ignoreUntil
    BY <1>1, FinishTargetType
  <1>3. SkipUntil' = SkipUntil
    BY DEF SkipUntil
  <1>4. Mission'
    BY <1>1, <1>2, <1>3, NoLaneIsNone DEF IInv, Mission, ControlDiscipline, LaneOwnership,
       SkipWindow, CommandContained, HasActiveLane, ActiveLane
  <1> QED BY <1>2, <1>4, BuoyTypes

(* A pursuit that goes on, in whichever of its states, keeps its lane.     *)
LEMMA PursuitGoesOn ==
  ASSUME IInv, state \in Pursuit, hasControl, state' \in Pursuit,
         UNCHANGED <<hasControl, holdDepth, target, mission, ignoreUntil>>,
         override' = "strong" => state' = "STRONG_FORWARD",
         override' = "backoff" => state' = "STRONG_BACKOFF",
         override' = "forward" => state' \in {"APPROACH_BUOY", "REACQUIRE_BUOY"}
  PROVE  Mission'
  BY DEF IInv, Mission, ControlDiscipline, LaneOwnership, SkipWindow, CommandContained,
     HasActiveLane, ActiveLane

(* The vehicle holds on the buoy, approaches it or loses it                *)
(* (run_target_hold).                                                      *)
LEMMA TargetHoldStep == ASSUME IInv, RunTargetHold PROVE IInv'
  <1>1. /\ StateType /\ SensorType /\ TargetType /\ ScanType /\ LaneType /\ CommandType
        /\ aligned \in BOOLEAN /\ buoy \in Track /\ since \in Timers
        /\ state = "TARGET_HOLD" /\ hasControl /\ holdDepth
        /\ hasControl' = hasControl /\ holdDepth' = holdDepth
        /\ GrantType' /\ SensorType'
    BY ControlFacts DEF RunTargetHold
  <1>2. CommandType'
    BY <1>1, PublishType DEF RunTargetHold
  <1>3. /\ UNCHANGED <<target, scan, mission, transfer, ignoreUntil, aligned>>
        /\ override' = IF state' \in Terminal THEN "none" ELSE "neutral"
    BY DEF RunTargetHold, PublishForward, laneVars
  <1>4. [since EXCEPT !.hold = Unset] \in Timers
        /\ [since EXCEPT !.hold = Running("hold", Confirmed(buoy))] \in Timers
    BY <1>1, TimerReset, RunningType, TimerSet DEF TimerNames
  <1>5. StateType' /\ state' \in Pursuit
    BY <1>1, <1>4, TransitionType, StayType DEF RunTargetHold
  <1>6. buoy' \in Track
    BY <1>1, BuoyTypes DEF RunTargetHold
  <1>7. TypeOK'
    BY <1>1, <1>2, <1>3, <1>5, <1>6, TypePartsNext DEF TargetType, ScanType, LaneType
  <1>8. Mission'
    BY <1>1, <1>3, <1>5, PursuitGoesOn
  <1> QED BY <1>7, <1>8 DEF IInv

(* A lost buoy is back, is given up, or is waited for                      *)
(* (run_reacquire_buoy).                                                   *)
LEMMA ReacquireStep == ASSUME IInv, RunReacquireBuoy PROVE IInv'
  <1>1. /\ StateType /\ SensorType /\ TargetType /\ ScanType /\ LaneType /\ CommandType
        /\ aligned \in BOOLEAN /\ buoy \in Track /\ since \in Timers
        /\ state = "REACQUIRE_BUOY" /\ hasControl /\ holdDepth
        /\ hasControl' = hasControl /\ holdDepth' = holdDepth
        /\ GrantType' /\ SensorType'
    BY ControlFacts DEF RunReacquireBuoy
  <1>2. CommandType'
    BY <1>1, PublishType DEF RunReacquireBuoy
  <1>3. /\ UNCHANGED <<target, scan>>
        /\ override' = IF state' \in Terminal THEN "none" ELSE "neutral"
    BY DEF RunReacquireBuoy, PublishForward
  <1>4. [since EXCEPT !.hold = Unset] \in Timers
    BY <1>1, TimerReset DEF TimerNames
  <1>5. StateType' /\ LaneType' /\ aligned' \in BOOLEAN /\ buoy' \in Track /\ Mission'
    <2>1. CASE Recent(buoy)
      <3>1. /\ TransitionTo("TARGET_HOLD", [since EXCEPT !.hold = Unset])
            /\ UNCHANGED <<buoy, mission, transfer, ignoreUntil, aligned>>
        BY <2>1 DEF RunReacquireBuoy, laneVars
      <3>2. StateType' /\ state' = "TARGET_HOLD"
        BY <1>1, <1>4, <3>1, TransitionType
      <3>3. Mission'
        BY <1>1, <1>3, <3>1, <3>2, PursuitGoesOn
      <3> QED BY <1>1, <3>1, <3>2, <3>3 DEF LaneType
    <2>2. CASE ~Recent(buoy) /\ FinishTarget(TRUE)
      BY <1>1, <1>3, <2>2, PursuitEnds
    <2>3. CASE ~Recent(buoy) /\ StayWith(since) /\ UNCHANGED <<buoy, laneVars, aligned>>
      <3>1. StateType' /\ state' = state
        BY <1>1, <2>3, StayType
      <3>2. Mission'
        BY <1>1, <1>3, <2>3, <3>1, PursuitGoesOn DEF laneVars
      <3> QED BY <1>1, <2>3, <3>1, <3>2 DEF LaneType, laneVars
    <2> QED BY <2>1, <2>2, <2>3 DEF RunReacquireBuoy
  <1>6. TypeOK'
    BY <1>1, <1>2, <1>3, <1>5, TypePartsNext DEF TargetType, ScanType
  <1> QED BY <1>5, <1>6 DEF IInv

(* The buoy is lost, is out of bounds, or is closed in on; what was        *)
(* commanded stays in force on the first two (run_approach_buoy).          *)
LEMMA ApproachStep == ASSUME IInv, RunApproachBuoy PROVE IInv'
  <1>1. /\ StateType /\ SensorType /\ TargetType /\ ScanType /\ LaneType /\ CommandType
        /\ aligned \in BOOLEAN /\ buoy \in Track /\ since \in Timers
        /\ state = "APPROACH_BUOY" /\ hasControl /\ holdDepth
        /\ hasControl' = hasControl /\ holdDepth' = holdDepth
        /\ GrantType' /\ SensorType'
    BY ControlFacts DEF RunApproachBuoy
  <1>2. CommandType'
    BY <1>1, PublishType DEF RunApproachBuoy, TrackBuoy
  <1>3. UNCHANGED <<target, scan>> /\ override \notin {"strong", "backoff"}
    BY <1>1 DEF RunApproachBuoy, IInv, Mission, CommandContained
  <1>4. StateType' /\ LaneType' /\ aligned' \in BOOLEAN /\ buoy' \in Track /\ Mission'
    <2>1. CASE ~Recent(buoy)
      <3>1. /\ buoy' = NoBuoy
            /\ TransitionTo("REACQUIRE_BUOY", since)
            /\ PublishForward("nochange")
            /\ UNCHANGED <<mission, transfer, ignoreUntil, aligned>>
        BY <2>1 DEF RunApproachBuoy, laneVars
      <3>2. StateType' /\ state' = "REACQUIRE_BUOY"
        BY <1>1, <3>1, TransitionType
      <3>3. override' = override
        BY <3>1, <3>2 DEF PublishForward
      <3>4. Mission'
        BY <1>1, <1>3, <3>1, <3>2, <3>3, PursuitGoesOn
      <3> QED BY <1>1, <3>1, <3>2, <3>4, BuoyTypes DEF LaneType
    <2>2. CASE Recent(buoy) /\ TargetExcursionLimitReached
      <3>1. FinishTarget(TRUE) /\ PublishForward("nochange")
        BY <2>2 DEF RunApproachBuoy
      <3>2. override' = IF state' \in Terminal THEN "none" ELSE override
        BY <3>1 DEF PublishForward
      <3> QED BY <1>1, <1>3, <3>1, <3>2, PursuitEnds
    <2>3. CASE Recent(buoy) /\ ~TargetExcursionLimitReached
      <3>1. TrackBuoy
        BY <2>3 DEF RunApproachBuoy
      <3>2. [since EXCEPT !.close = Running("close", CloseEnough)] \in Timers
        BY <1>1, RunningType, TimerSet DEF TimerNames
      <3>3. /\ StateType' /\ state' \in {"APPROACH_BUOY", "STRONG_FORWARD"}
            /\ state' = "STRONG_FORWARD" => CloseEnough
        BY <1>1, <3>1, <3>2, TransitionType, StayType DEF TrackBuoy
      <3>4. override' = IF CloseEnough THEN "neutral" ELSE "forward"
        BY <3>1, <3>3 DEF TrackBuoy, PublishForward
      <3>5. UNCHANGED <<buoy, mission, transfer, ignoreUntil, aligned>>
        BY <3>1 DEF TrackBuoy, laneVars
      <3>6. Mission'
        BY <1>1, <1>3, <3>3, <3>4, <3>5, PursuitGoesOn
      <3> QED BY <1>1, <3>3, <3>5, <3>6 DEF LaneType
    <2> QED BY <2>1, <2>2, <2>3
  <1>5. TypeOK'
    BY <1>1, <1>2, <1>3, <1>4, TypePartsNext DEF TargetType, ScanType
  <1> QED BY <1>4, <1>5 DEF IInv

(* The push runs its time, then backs off (run_strong_forward).            *)
LEMMA StrongForwardStep == ASSUME IInv, RunStrongForward PROVE IInv'
  <1>1. /\ StateType /\ SensorType /\ TargetType /\ ScanType /\ LaneType /\ CommandType
        /\ aligned \in BOOLEAN /\ buoy \in Track /\ since \in Timers
        /\ state = "STRONG_FORWARD" /\ hasControl /\ holdDepth
        /\ hasControl' = hasControl /\ holdDepth' = holdDepth
        /\ GrantType' /\ SensorType'
    BY ControlFacts DEF RunStrongForward
  <1>2. CommandType'
    BY <1>1, PublishType DEF RunStrongForward
  <1>3. UNCHANGED <<buoy, target, scan, mission, transfer, ignoreUntil, aligned>>
    BY DEF RunStrongForward, laneVars
  <1>4. /\ StateType'
        /\ \/ state' = "STRONG_FORWARD" /\ override' = "strong"
           \/ state' = "STRONG_BACKOFF" /\ override' = "backoff"
    BY <1>1, TransitionType, StayType DEF RunStrongForward, PublishForward
  <1>5. TypeOK'
    BY <1>1, <1>2, <1>3, <1>4, TypePartsNext DEF TargetType, ScanType, LaneType
  <1>6. Mission'
    BY <1>1, <1>3, <1>4, PursuitGoesOn
  <1> QED BY <1>5, <1>6 DEF IInv

(* The retreat runs its time, then the pursuit is over                     *)
(* (run_strong_backoff).                                                   *)
LEMMA StrongBackoffStep == ASSUME IInv, RunStrongBackoff PROVE IInv'
  <1>1. /\ StateType /\ SensorType /\ TargetType /\ ScanType /\ LaneType /\ CommandType
        /\ aligned \in BOOLEAN /\ buoy \in Track /\ since \in Timers
        /\ state = "STRONG_BACKOFF" /\ hasControl /\ holdDepth
        /\ hasControl' = hasControl /\ holdDepth' = holdDepth
        /\ GrantType' /\ SensorType'
    BY ControlFacts DEF RunStrongBackoff
  <1>2. CommandType'
    BY <1>1, PublishType DEF RunStrongBackoff
  <1>3. UNCHANGED <<target, scan>>
    BY DEF RunStrongBackoff
  <1>4. StateType' /\ LaneType' /\ aligned' \in BOOLEAN /\ buoy' \in Track /\ Mission'
    <2>1. CASE stateAge < StrongBackoffTime
      <3>1. /\ StayWith(since) /\ PublishForward("backoff")
            /\ UNCHANGED <<buoy, mission, transfer, ignoreUntil, aligned>>
        BY <2>1 DEF RunStrongBackoff, laneVars
      <3>2. StateType' /\ state' = state
        BY <1>1, <3>1, StayType
      <3>3. Mission'
        BY <1>1, <1>3, <3>1, <3>2, PursuitGoesOn DEF PublishForward
      <3> QED BY <1>1, <3>1, <3>2, <3>3 DEF LaneType
    <2>2. CASE ~(stateAge < StrongBackoffTime)
      <3>1. FinishTarget(FALSE) /\ PublishForward("neutral")
        BY <2>2 DEF RunStrongBackoff
      <3>2. override' = IF state' \in Terminal THEN "none" ELSE "neutral"
        BY <3>1 DEF PublishForward
      <3> QED BY <1>1, <1>3, <3>1, <3>2, PursuitEnds
    <2> QED BY <2>1, <2>2
  <1>5. TypeOK'
    BY <1>1, <1>2, <1>3, <1>4, TypePartsNext DEF TargetType, ScanType
  <1> QED BY <1>4, <1>5 DEF IInv

----------------------------------------------------------------------------
(* The tick on and between the lanes. *)

(* A lane that is gone to, followed or returned to stays the active one.   *)
LEMMA LaneGoesOn ==
  ASSUME IInv, state \in LaneStates, hasControl,
         state' \in {state, "LANE_FOLLOWING_WITH_SEARCH"},
         UNCHANGED <<hasControl, holdDepth, target, mission>>,
         ignoreUntil' \in {ignoreUntil, Unset},
         override' \notin {"strong", "backoff"}
  PROVE  Mission'
  BY DEF IInv, Mission, ControlDiscipline, LaneOwnership, SkipWindow, CommandContained,
     HasActiveLane, ActiveLane, SkipUntil

(* In a lane state there is a lane and no pulse in force. *)
LEMMA LaneFacts ==
  ASSUME IInv, state \in LaneStates
  PROVE  /\ HasActiveLane /\ ActiveLane \in Lanes /\ override \notin {"strong", "backoff"}
         /\ ActiveLane \notin mission.completed
  BY DEF IInv, TypeOK, Mission, LaneOwnership, CommandContained, HasActiveLane, ActiveLane

(* The commands along a lane are to advance or to wait. *)
LEMMA LaneCommands ==
  /\ LosCommand \in {"neutral", "forward"}
  /\ \A p : WaypointCommand(p) \in {"neutral", "forward"}
  BY DEF LosCommand, WaypointCommand

(* A heading or settle timer is unset or an age. *)
LEMMA LaneTimers ==
  ASSUME StateType
  PROVE  /\ \A h : [since EXCEPT !.heading = HeadingTimer(h)] \in Timers
         /\ \A p : [since EXCEPT !.settle = SettleTimer(p)] \in Timers
         /\ [since EXCEPT !.heading = Unset, !.settle = Unset] \in Timers
         /\ since \in Timers
  <1>1. since \in Timers /\ "heading" \in TimerNames /\ "settle" \in TimerNames
    BY DEF StateType, TimerNames
  <1>2. \A h : HeadingTimer(h) \in Nat \cup {Unset}
    BY <1>1, RunningType DEF HeadingTimer
  <1>3. \A p : SettleTimer(p) \in Nat \cup {Unset}
    BY <1>1, RunningType DEF SettleTimer
  <1> QED BY <1>1, <1>2, <1>3, TimerSet, TimerReset

(* Each way of going to a lane leaves the types right, and stays or begins *)
(* to follow the lane (run_move_to_lane_start, run_lane_transfer).         *)
LEMMA MoveTypes ==
  ASSUME StateType, LaneType, CommandType, aligned \in BOOLEAN, HasActiveLane,
         override \notin {"strong", "backoff"}, state = "MOVE_TO_LANE_START",
         UNCHANGED <<mission, ignoreUntil>>,
         \/ MoveToLaneStart
         \/ DynamicTransfer
         \/ AlignTransfer \/ TrackTransfer \/ AlignNewLane
  PROVE  /\ StateType' /\ LaneType' /\ CommandType' /\ aligned' \in BOOLEAN
         /\ state' \in {state, "LANE_FOLLOWING_WITH_SEARCH"}
         /\ override' \notin {"strong", "backoff"}
  <1> USE LaneTimers, LaneCommands, StayType, EnterLaneFollowingType
  <1>1. CASE MoveToLaneStart
    <2> DEFINE tm == [since EXCEPT !.settle = SettleTimer(ActiveStart)]
    <2>1. tm \in Timers /\ [tm EXCEPT !.settle = Unset] \in Timers
      BY TimerReset DEF TimerNames
    <2>2. /\ StateType' /\ state' \in {state, "LANE_FOLLOWING_WITH_SEARCH"}
          /\ aligned' \in BOOLEAN
      BY <1>1, <2>1 DEF MoveToLaneStart, WaypointAligned
    <2>3. PublishForward(WaypointCommand(ActiveStart)) /\ UNCHANGED transfer
      BY <1>1 DEF MoveToLaneStart
    <2>4. CommandType' /\ override' \notin {"strong", "backoff"}
      BY <2>3, PublishType DEF PublishForward
    <2> QED BY <2>2, <2>3, <2>4 DEF LaneType
  <1>2. CASE DynamicTransfer
    <2>1. /\ StateType' /\ state' \in {state, "LANE_FOLLOWING_WITH_SEARCH"}
          /\ aligned' \in BOOLEAN
          /\ transfer' \in {transfer, [transfer EXCEPT !.enabled = FALSE]}
      BY <1>2 DEF DynamicTransfer
    <2>2. PublishForward(LosCommand)
      BY <1>2 DEF DynamicTransfer
    <2>3. CommandType' /\ override' \notin {"strong", "backoff"}
      BY <2>2, PublishType DEF PublishForward
    <2> QED BY <2>1, <2>3 DEF LaneType
  <1>3. CASE AlignTransfer
    <2>1. /\ StateType' /\ state' = state /\ aligned' \in BOOLEAN
          /\ transfer' \in {transfer, [transfer EXCEPT !.phase = "TRACK_TRANSFER"]}
      BY <1>3 DEF AlignTransfer, NextPhase
    <2>2. PublishForward("neutral")
      BY <1>3 DEF AlignTransfer
    <2>3. CommandType' /\ override' \notin {"strong", "backoff"}
      BY <2>2, PublishType DEF PublishForward
    <2> QED BY <2>1, <2>3 DEF LaneType, TransferPhases
  <1>4. CASE TrackTransfer
    <2>1. /\ StateType' /\ state' = state /\ aligned' \in BOOLEAN
          /\ transfer' \in {transfer, [transfer EXCEPT !.phase = "ALIGN_NEW_LANE"]}
      BY <1>4 DEF TrackTransfer, NextPhase
    <2>2. \E command \in {"neutral", "forward"} : PublishForward(command)
      BY <1>4 DEF TrackTransfer
    <2>3. CommandType' /\ override' \notin {"strong", "backoff"}
      BY <2>2, PublishType DEF PublishForward
    <2> QED BY <2>1, <2>3 DEF LaneType, TransferPhases
  <1>5. CASE AlignNewLane
    <2>1. TransferPhase = "ALIGN_NEW_LANE" /\ PublishForward("neutral")
      BY <1>5 DEF AlignNewLane
    <2>2. /\ StateType' /\ state' \in {state, "LANE_FOLLOWING_WITH_SEARCH"}
          /\ aligned' \in BOOLEAN
          /\ transfer' \in {[transfer EXCEPT !.enabled = FALSE, !.phase = "ALIGN_NEW_LANE"],
                            [transfer EXCEPT !.phase = "ALIGN_NEW_LANE"]}
      BY <1>5, <2>1 DEF AlignNewLane
    <2>3. CommandType' /\ override' \notin {"strong", "backoff"}
      BY <2>1, PublishType DEF PublishForward
    <2> QED BY <2>2, <2>3 DEF LaneType, TransferPhases
  <1> QED BY <1>1, <1>2, <1>3, <1>4, <1>5

(* The vehicle goes to the start of a lane (run_move_to_lane_start).       *)
LEMMA MoveToLaneStartStep == ASSUME IInv, RunMoveToLaneStart PROVE IInv'
  <1>1. /\ StateType /\ SensorType /\ TargetType /\ ScanType /\ LaneType /\ CommandType
        /\ aligned \in BOOLEAN /\ buoy \in Track /\ since \in Timers
        /\ state = "MOVE_TO_LANE_START" /\ hasControl /\ holdDepth
        /\ hasControl' = hasControl /\ holdDepth' = holdDepth
        /\ GrantType' /\ SensorType'
    BY ControlFacts DEF RunMoveToLaneStart
  <1>2. UNCHANGED <<buoy, target, scan, mission, ignoreUntil>>
    BY DEF RunMoveToLaneStart
  <1>3. /\ StateType' /\ LaneType' /\ CommandType' /\ aligned' \in BOOLEAN
        /\ state' \in {state, "LANE_FOLLOWING_WITH_SEARCH"}
        /\ override' \notin {"strong", "backoff"}
    BY <1>1, <1>2, LaneFacts, MoveTypes DEF RunMoveToLaneStart
  <1>4. TypeOK'
    BY <1>1, <1>2, <1>3, TypePartsNext DEF TargetType, ScanType
  <1>5. Mission'
    BY <1>1, <1>2, <1>3, LaneGoesOn
  <1> QED BY <1>4, <1>5 DEF IInv

(* A lane's end makes it completed, and the next one the active one        *)
(* (run_lane_following, complete_active_lane).                             *)
LEMMA CompleteLaneStep ==
  ASSUME IInv, Control("LANE_FOLLOWING_WITH_SEARCH"), HasActiveLane, CompleteLane,
         UNCHANGED scan
  PROVE  IInv'
  <1> DEFINE done == mission.completed \cup {ActiveLane}
             tm == IF EarlyTransition THEN since
                   ELSE [since EXCEPT !.settle = SettleTimer(ActiveFinish)]
  <1>1. /\ StateType /\ SensorType /\ TargetType /\ ScanType /\ LaneType /\ CommandType
        /\ aligned \in BOOLEAN /\ buoy \in Track /\ since \in Timers
        /\ state = "LANE_FOLLOWING_WITH_SEARCH" /\ hasControl /\ holdDepth
        /\ hasControl' = hasControl /\ holdDepth' = holdDepth
        /\ GrantType' /\ SensorType'
    BY ControlFacts
  <1>2. done \in SUBSET Lanes /\ tm \in Timers
    BY <1>1, LaneFacts, LaneTimers DEF LaneType
  <1>3. /\ SelectNextLane(done, tm, TRUE) /\ UNCHANGED <<buoy, target>>
        /\ \E command \in {"nochange", "neutral"} : PublishForward(command)
    BY DEF CompleteLane
  <1> HIDE DEF done, tm
  <1>4. /\ StateType' /\ LaneType' /\ aligned' \in BOOLEAN
        /\ mission'.completed = done
        /\ \/ /\ state' = "COMPLETE" /\ done = Lanes /\ mission'.active = NoLane
              /\ ignoreUntil' = ignoreUntil
           \/ /\ state' = "MOVE_TO_LANE_START" /\ mission'.active \in Lanes \ done
              /\ ignoreUntil' = Unset
    BY <1>1, <1>2, <1>3, SelectNextLaneType
  <1>5. CommandType'
    BY <1>1, <1>3, PublishType
  <1>6. /\ override' \notin {"strong", "backoff"}
        /\ state' = "COMPLETE" => override' = "none"
    BY <1>1, <1>3, LaneFacts DEF PublishForward
  <1>7. TypeOK'
    BY <1>1, <1>3, <1>4, <1>5, TypePartsNext DEF TargetType, ScanType
  <1>8. SkipUntil' = SkipUntil
    BY <1>3 DEF SkipUntil
  <1>9. Mission'
    BY <1>1, <1>3, <1>4, <1>6, <1>8, NoLaneIsNone DEF IInv, Mission, ControlDiscipline,
       LaneOwnership, SkipWindow, CommandContained, HasActiveLane, ActiveLane
  <1> QED BY <1>7, <1>9 DEF IInv

(* The lane is followed until a buoy is confirmed on it, which no skipped  *)
(* detection does (run_lane_following).                                    *)
LEMMA FollowAndSearchStep ==
  ASSUME IInv, Control("LANE_FOLLOWING_WITH_SEARCH"), HasActiveLane, FollowAndSearch,
         UNCHANGED scan
  PROVE  IInv'
  <1> DEFINE tm == IF NearFinish THEN [since EXCEPT !.settle = SettleTimer(ActiveFinish)]
                                 ELSE since
             seen == Searching /\ Confirmed(SearchedTrack)
             found == seen /\ HeldFor("detect", TargetConfirmTime)
  <1>1. /\ StateType /\ SensorType /\ TargetType /\ ScanType /\ LaneType /\ CommandType
        /\ aligned \in BOOLEAN /\ buoy \in Track /\ since \in Timers
        /\ state = "LANE_FOLLOWING_WITH_SEARCH" /\ hasControl /\ holdDepth
        /\ hasControl' = hasControl /\ holdDepth' = holdDepth
        /\ GrantType' /\ SensorType'
    BY ControlFacts
  <1>2. tm \in Timers
    BY <1>1, LaneTimers
  <1>3. [tm EXCEPT !.detect = Running("detect", seen)] \in Timers
    BY <1>1, <1>2, RunningType, TimerSet DEF TimerNames
  <1>4. /\ buoy' \in Track /\ aligned' \in BOOLEAN /\ UNCHANGED <<mission, transfer>>
        /\ ignoreUntil' \in {ignoreUntil, Unset}
        /\ found => ignoreUntil' = Unset
    BY <1>1, BuoyTypes
    DEF FollowAndSearch, SearchedTrack, WaypointAligned, Searching
  <1>5. \E command \in {"neutral", "forward"} :
          PublishForward(IF found THEN "neutral" ELSE command)
    BY LaneCommands DEF FollowAndSearch
  <1>6. IF found THEN BeginTarget("LANE", target.handoff, tm)
        ELSE /\ StayWith([tm EXCEPT !.detect = Running("detect", seen)])
             /\ UNCHANGED target
    BY DEF FollowAndSearch
  <1> HIDE DEF tm, seen, found
  <1>7. LaneType'
    BY <1>1, <1>4 DEF LaneType
  <1>8. CommandType' /\ override' \notin {"strong", "backoff"}
    BY <1>1, <1>5, PublishType, LaneFacts DEF PublishForward
  <1>9. CASE found
    <2>1. target.handoff \in Positions \cup {Origin}
      BY <1>1 DEF TargetType
    <2>2. /\ StateType' /\ TargetType' /\ target'.context = "LANE"
          /\ state' = "TARGET_HOLD"
      BY <1>1, <1>2, <1>6, <1>9, <2>1, BeginTargetType
    <2>3. override' = "neutral"
      BY <1>5, <1>9, <2>2 DEF PublishForward
    <2>4. TypeOK'
      BY <1>1, <1>4, <1>7, <1>8, <2>2, TypePartsNext DEF ScanType
    <2>5. Mission'
      BY <1>1, <1>4, <1>9, <2>2, <2>3 DEF IInv, Mission, ControlDiscipline, LaneOwnership,
         SkipWindow, CommandContained, HasActiveLane, ActiveLane
    <2> QED BY <2>4, <2>5 DEF IInv
  <1>10. CASE ~found
    <2>1. StateType' /\ state' = state /\ UNCHANGED target
      BY <1>1, <1>3, <1>6, <1>10, StayType
    <2>2. TypeOK'
      BY <1>1, <1>4, <1>7, <1>8, <2>1, TypePartsNext DEF ScanType, TargetType
    <2>3. Mission'
      BY <1>1, <1>4, <1>8, <2>1, LaneGoesOn
    <2> QED BY <2>2, <2>3 DEF IInv
  <1> QED BY <1>9, <1>10

(* The lane is followed to its end. *)
LEMMA LaneFollowingStep == ASSUME IInv, RunLaneFollowing PROVE IInv'
  <1>1. state = "LANE_FOLLOWING_WITH_SEARCH"
    BY DEF RunLaneFollowing, Control
  <1>2. HasActiveLane
    BY <1>1, LaneFacts
  <1> QED BY <1>2, CompleteLaneStep, FollowAndSearchStep DEF RunLaneFollowing

(* The vehicle goes back to its lane (run_return_to_active_lane).          *)
LEMMA ReturnStep == ASSUME IInv, RunReturnToActiveLane PROVE IInv'
  <1>1. /\ StateType /\ SensorType /\ TargetType /\ ScanType /\ LaneType /\ CommandType
        /\ aligned \in BOOLEAN /\ buoy \in Track /\ since \in Timers
        /\ state = "RETURN_TO_ACTIVE_LANE" /\ hasControl /\ holdDepth
        /\ hasControl' = hasControl /\ holdDepth' = holdDepth
        /\ GrantType' /\ SensorType'
    BY ControlFacts DEF RunReturnToActiveLane
  <1>2. HasActiveLane
    BY <1>1, LaneFacts
  <1>3. /\ UNCHANGED <<target, scan, mission, transfer, ignoreUntil, aligned>>
        /\ PublishForward(LosCommand) /\ buoy' \in Track
    BY <1>1, <1>2, BuoyTypes DEF RunReturnToActiveLane, laneVars
  <1>4. StateType' /\ state' \in {state, "LANE_FOLLOWING_WITH_SEARCH"}
    BY <1>1, <1>2, StayType, EnterLaneFollowingType DEF RunReturnToActiveLane
  <1>5. CommandType' /\ override' \notin {"strong", "backoff"}
    BY <1>1, <1>3, LaneCommands, LaneFacts, PublishType DEF PublishForward
  <1>6. TypeOK'
    BY <1>1, <1>3, <1>4, <1>5, TypePartsNext DEF TargetType, ScanType, LaneType
  <1>7. Mission'
    BY <1>1, <1>3, <1>4, <1>5, LaneGoesOn
  <1> QED BY <1>6, <1>7 DEF IInv

----------------------------------------------------------------------------
(* Time passes: only ages change, each within its cap. *)
LEMMA ElapseStep == ASSUME IInv, Elapse PROVE IInv'
  <1>1. /\ StateType /\ SensorType /\ buoy \in Track
        /\ state' = state
    BY TypeParts DEF IInv, Elapse
  <1>2. Mission'
    BY ViewUnchanged DEF IInv, Elapse, missionView, grantVars, laneVars
  <1>3. StateType'
    <2>1. stateAge' \in 0 .. StateAgeCap(state)
      BY <1>1, AgedType, Caps DEF Elapse, StateType
    <2>2. \A t \in TimerNames : since[t] = Unset \/ Aged(since[t], TimerCap(t)) \in Nat
      BY <1>1, AgedType, Caps DEF StateType, Timers
    <2>3. since' \in Timers
      BY <2>2 DEF Elapse, Timers
    <2> QED BY <1>1, <2>1, <2>3 DEF StateType
  <1>4. buoy' \in Track
    <2>1. Aged(buoy.age, DetectionTimeout + 1) \in 0 .. DetectionTimeout + 1
      BY <1>1, AgedType, TrackerAssumption DEF Track
    <2> QED BY <1>1, <2>1 DEF Elapse, Track
  <1>5. \A sample \in DepthSample : AgedSample(sample) \in DepthSample
    <2> TAKE sample \in DepthSample
    <2>1. sample.age \in 0 .. DepthTimeout + 1 /\ DepthTimeout + 1 \in Nat
      BY Durations DEF DepthSample
    <2>2. Aged(sample.age, DepthTimeout + 1) \in 0 .. DepthTimeout + 1
      BY <2>1, Durations, AgedType
    <2> QED BY <2>1, <2>2 DEF AgedSample, DepthSample
  <1>6. SensorType'
    <2>1. odom.age \in 0 .. OdometryTimeout + 1 /\ OdometryTimeout + 1 \in Nat
      BY <1>1, Durations DEF SensorType
    <2>2. Aged(odom.age, OdometryTimeout + 1) \in 0 .. OdometryTimeout + 1
      BY <2>1, Durations, AgedType
    <2>3. depth' \in [pose : DepthSample, scalar : DepthSample]
      BY <1>1, <1>5 DEF Elapse, SensorType
    <2> QED BY <1>1, <2>1, <2>2, <2>3 DEF Elapse, SensorType
  <1>7. TypeOK'
    BY <1>3, <1>4, <1>6, TypeParts, TypePartsNext
    DEF IInv, Elapse, grantVars, laneVars, GrantType, TargetType, ScanType, LaneType,
        CommandType
  <1> QED BY <1>2, <1>7 DEF IInv

----------------------------------------------------------------------------
(* Every step preserves the invariant. *)
LEMMA NextIInv == IInv /\ [Next]_vars => IInv'
  <1> SUFFICES ASSUME IInv, [Next]_vars PROVE IInv'
    OBVIOUS
  <1>1. CASE Sense
    BY <1>1, StartFrameStep, OdometryStep, DepthStep, BboxStep DEF Sense
  <1>2. CASE Command
    BY <1>2, SearchRequestStep, GrantStep, EmergencyStopStep DEF Command
  <1>3. CASE Tick
    BY <1>3, TargetConfirmStep, ReleaseStep, CheckInputsStep, InitialScanStep, TurnStep,
       TargetHoldStep, ReacquireStep, ApproachStep, StrongForwardStep, StrongBackoffStep,
       MoveToLaneStartStep, LaneFollowingStep, ReturnStep DEF Tick
  <1>4. CASE Elapse
    BY <1>4, ElapseStep
  <1>5. CASE UNCHANGED vars
    <2>1. Mission'
      BY <1>5, ViewUnchanged DEF IInv, vars, missionView
    <2>2. TypeOK'
      BY <1>5 DEF IInv, TypeOK, vars
    <2> QED BY <2>1, <2>2 DEF IInv
  <1> QED BY <1>1, <1>2, <1>3, <1>4, <1>5 DEF Next

(* So it always holds. *)
THEOREM MissionInvariant == Spec => []IInv
  <1> QED BY InitIInv, NextIInv, PTL DEF Spec

----------------------------------------------------------------------------
(* The properties of the runs.                                             *)

(* Every variable keeps its type, and every age its cap. *)
THEOREM TypeCorrect == Spec => []TypeOK
  <1>1. IInv => TypeOK
    BY DEF IInv
  <1> QED BY <1>1, MissionInvariant, PTL

(* Nothing is commanded before control is granted, no grant is lost but in *)
(* the mission's end, and the mission always has the depth it holds.       *)
THEOREM ControlDisciplineHolds == Spec => []ControlDiscipline
  <1>1. IInv => ControlDiscipline
    BY DEF IInv, Mission
  <1> QED BY <1>1, MissionInvariant, PTL

(* The lane states always have their lane, and the mission completes with  *)
(* every lane completed and not before.                                    *)
THEOREM LaneOwnershipHolds == Spec => []LaneOwnership
  <1>1. IInv => LaneOwnership
    BY DEF IInv, Mission
  <1> QED BY <1>1, MissionInvariant, PTL

(* A skip window belongs to the lane the target was given up on. *)
THEOREM SkipWindowHolds == Spec => []SkipWindow
  <1>1. IInv => SkipWindow
    BY DEF IInv, Mission
  <1> QED BY <1>1, MissionInvariant, PTL

(* No command is in force in a state that does not give it. *)
THEOREM CommandContainedHolds == Spec => []CommandContained
  <1>1. IInv => CommandContained
    BY DEF IInv, Mission
  <1> QED BY <1>1, MissionInvariant, PTL

----------------------------------------------------------------------------
(* Action properties. *)

(* The tick of a mission state has control and its inputs at hand. *)
LEMMA ControlIsUnderway ==
  ASSUME NEW s, s \notin Standby \cup Terminal, Control(s)
  PROVE  Underway /\ ~InputsMissing
  BY DEF Control, Underway

(* A tick confirms the target, releases the channels, stops for want of    *)
(* inputs, or goes on with the mission.                                    *)
LEMMA TickCases ==
  ASSUME Tick
  PROVE  \/ RunTargetConfirm \/ ReleaseRc \/ CheckInputs
         \/ Underway /\ ~InputsMissing
  <1> USE ControlIsUnderway
  <1>1. RunInitialScan => Underway /\ ~InputsMissing
    <2>1. RunInitialScan => Control("INITIAL_SCAN_360")
      BY DEF RunInitialScan
    <2> QED BY <2>1
  <1>2. RunTurnToInitialTarget => Underway /\ ~InputsMissing
    <2>1. RunTurnToInitialTarget => Control("TURN_TO_INITIAL_TARGET")
      BY DEF RunTurnToInitialTarget
    <2> QED BY <2>1
  <1>3. RunTargetHold => Underway /\ ~InputsMissing
    <2>1. RunTargetHold => Control("TARGET_HOLD")
      BY DEF RunTargetHold
    <2> QED BY <2>1
  <1>4. RunReacquireBuoy => Underway /\ ~InputsMissing
    <2>1. RunReacquireBuoy => Control("REACQUIRE_BUOY")
      BY DEF RunReacquireBuoy
    <2> QED BY <2>1
  <1>5. RunApproachBuoy => Underway /\ ~InputsMissing
    <2>1. RunApproachBuoy => Control("APPROACH_BUOY")
      BY DEF RunApproachBuoy
    <2> QED BY <2>1
  <1>6. RunStrongForward => Underway /\ ~InputsMissing
    <2>1. RunStrongForward => Control("STRONG_FORWARD")
      BY DEF RunStrongForward
    <2> QED BY <2>1
  <1>7. RunStrongBackoff => Underway /\ ~InputsMissing
    <2>1. RunStrongBackoff => Control("STRONG_BACKOFF")
      BY DEF RunStrongBackoff
    <2> QED BY <2>1
  <1>8. RunMoveToLaneStart => Underway /\ ~InputsMissing
    <2>1. RunMoveToLaneStart => Control("MOVE_TO_LANE_START")
      BY DEF RunMoveToLaneStart
    <2> QED BY <2>1
  <1>9. RunLaneFollowing => Underway /\ ~InputsMissing
    <2>1. RunLaneFollowing => Control("LANE_FOLLOWING_WITH_SEARCH")
      BY DEF RunLaneFollowing
    <2> QED BY <2>1
  <1>10. RunReturnToActiveLane => Underway /\ ~InputsMissing
    <2>1. RunReturnToActiveLane => Control("RETURN_TO_ACTIVE_LANE")
      BY DEF RunReturnToActiveLane
    <2> QED BY <2>1
  <1> QED BY <1>1, <1>2, <1>3, <1>4, <1>5,
             <1>6, <1>7, <1>8, <1>9, <1>10 DEF Tick

(* COMPLETE and FAILSAFE are final: whatever is delivered or requested     *)
(* after them only releases the channels (on_vision_search_request,        *)
(* on_vision_control_granted, on_timer).                                   *)
THEOREM TerminalIsFinalHolds == Spec => TerminalIsFinal
  <1>1. ASSUME [Next]_vars, state \in Terminal
        PROVE  /\ state' \in Terminal
               /\ state = "FAILSAFE" => state' = "FAILSAFE"
               /\ override' = override \/ override' = "none"
    <2>1. CASE Sense
      BY <1>1, <2>1 DEF Sense, OnStartFrame, OnOdometry, OnDepth, OnBbox, missionVars,
         laneVars
    <2>2. CASE Command
      <3>1. ~OnVisionSearchRequest /\ ~OnVisionControlGranted
        BY <1>1 DEF OnVisionSearchRequest, OnVisionControlGranted
      <3> QED BY <2>2, <3>1 DEF Command, OnEmergencyStop, TransitionTo
    <2>3. CASE Tick
      BY <1>1, <2>3, TickCases DEF RunTargetConfirm, ReleaseRc, CheckInputs, Underway
    <2>4. CASE Elapse
      BY <1>1, <2>4 DEF Elapse
    <2>5. CASE UNCHANGED vars
      BY <1>1, <2>5 DEF vars
    <2> QED BY <1>1, <2>1, <2>2, <2>3, <2>4, <2>5 DEF Next
  <1> QED BY <1>1, PTL DEF Spec, TerminalIsFinal

(* With odometry or depth missing no handler drives (on_timer). *)
THEOREM NoBlindThrustHolds == Spec => NoBlindThrust
  <1>1. ASSUME [Next]_vars, InputsMissing
        PROVE  override' = override \/ override' = "none"
    <2>1. CASE Sense
      BY <1>1, <2>1 DEF Sense, OnStartFrame, OnOdometry, OnDepth, OnBbox, missionVars,
         laneVars
    <2>2. CASE Command
      BY <1>1, <2>2 DEF Command, OnVisionSearchRequest, OnVisionControlGranted,
         OnEmergencyStop
    <2>3. CASE Tick
      BY <1>1, <2>3, TickCases DEF RunTargetConfirm, ReleaseRc, CheckInputs
    <2>4. CASE Elapse
      BY <1>1, <2>4 DEF Elapse
    <2>5. CASE UNCHANGED vars
      BY <1>1, <2>5 DEF vars
    <2> QED BY <1>1, <2>1, <2>2, <2>3, <2>4, <2>5 DEF Next
  <1>2. [Next]_vars => [hasControl /\ InputsMissing /\ override' # override
                          => override' = "none"]_vars
    BY <1>1
  <1> QED BY <1>2, PTL DEF Spec, NoBlindThrust

(* Choosing the next lane records what is completed and nothing else. *)
LEMMA SelectionRecords ==
  ASSUME LaneType, NEW completed, NEW tm, NEW laneToLane,
         SelectNextLane(completed, tm, laneToLane)
  PROVE  mission'.completed = completed
  <1>1. CASE Lanes \ completed = {}
    <2>1. mission' = [mission EXCEPT !.completed = completed, !.active = NoLane]
      BY <1>1 DEF SelectNextLane
    <2> QED BY <2>1 DEF LaneType
  <1>2. CASE Lanes \ completed # {}
    BY <1>2 DEF SelectNextLane
  <1> QED BY <1>1, <1>2

(* The end of a pursuit completes no lane. *)
LEMMA FinishCompletesNothing ==
  ASSUME LaneType, NEW skip, FinishTarget(skip)
  PROVE  mission'.completed = mission.completed
  BY SelectionRecords DEF FinishTarget

(* A lane is completed by lane following alone, at its finishing end. *)
LEMMA CompletionStep ==
  ASSUME IInv, Tick, mission'.completed # mission.completed
  PROVE  /\ mission'.completed = mission.completed \cup {ActiveLane}
         /\ \/ DistSq(odom.pos, ActiveFinish) <= Sq(EndTransition)
            \/ WithinReach(ActiveFinish)
  <1>1. LaneType
    BY TypeParts DEF IInv
  <1> USE <1>1, SelectionRecords, FinishCompletesNothing DEF laneVars
  <1>2. ~RunTargetConfirm /\ ~ReleaseRc /\ ~CheckInputs
    BY DEF RunTargetConfirm, ReleaseRc, CheckInputs
  <1>3. ~RunInitialScan /\ ~RunTurnToInitialTarget
    BY DEF RunInitialScan, RunTurnToInitialTarget
  <1>4. ~RunTargetHold /\ ~RunReacquireBuoy /\ ~RunApproachBuoy
    BY DEF RunTargetHold, RunReacquireBuoy, RunApproachBuoy, TrackBuoy
  <1>5. ~RunStrongForward /\ ~RunStrongBackoff
    BY DEF RunStrongForward, RunStrongBackoff
  <1>6. ~RunMoveToLaneStart /\ ~RunReturnToActiveLane
    BY DEF RunMoveToLaneStart, RunReturnToActiveLane
  <1>7. RunLaneFollowing
    BY <1>2, <1>3, <1>4, <1>5, <1>6 DEF Tick
  <1>8. LaneFinished /\ CompleteLane
    BY <1>7 DEF RunLaneFollowing, LoseLane, FollowAndSearch
  <1>9. mission'.completed = mission.completed \cup {ActiveLane}
    BY <1>8 DEF CompleteLane
  <1>10. \/ DistSq(odom.pos, ActiveFinish) <= Sq(EndTransition)
         \/ WithinReach(ActiveFinish)
    BY <1>8 DEF LaneFinished, EarlyTransition, WaypointReached, Settling
  <1> QED BY <1>9, <1>10

(* No lane is marked completed but the one followed, at its far end, and   *)
(* none is ever unmarked during the mission (complete_active_lane; a       *)
(* search request is taken in IDLE only).                                  *)
THEOREM LanesDoneAtTheirEndHolds == Spec => LanesDoneAtTheirEnd
  <1>1. ASSUME IInv, [Next]_vars, hasControl, mission'.completed # mission.completed
        PROVE  /\ mission'.completed = mission.completed \cup {ActiveLane}
               /\ \/ DistSq(odom.pos, ActiveFinish) <= Sq(EndTransition)
                  \/ WithinReach(ActiveFinish)
    <2>1. state \notin Standby
      BY <1>1 DEF IInv, Mission, ControlDiscipline
    <2>2. ~Command
      BY <1>1, <2>1 DEF Command, OnVisionSearchRequest, OnVisionControlGranted,
         OnEmergencyStop, laneVars
    <2>3. ~Sense
      BY <1>1 DEF Sense, OnStartFrame, OnOdometry, OnDepth, OnBbox, missionVars, laneVars
    <2>4. ~Elapse /\ ~UNCHANGED vars
      BY <1>1 DEF Elapse, vars, laneVars
    <2> QED BY <1>1, <2>2, <2>3, <2>4, CompletionStep DEF Next
  <1>2. IInv /\ [Next]_vars =>
          [hasControl /\ mission'.completed # mission.completed =>
             /\ mission'.completed = mission.completed \cup {ActiveLane}
             /\ \/ DistSq(odom.pos, ActiveFinish) <= Sq(EndTransition)
                \/ WithinReach(ActiveFinish)]_vars
    BY <1>1
  <1> QED BY <1>2, MissionInvariant, PTL DEF Spec, LanesDoneAtTheirEnd

----------------------------------------------------------------------------
(* The three-phase transfer. *)

(* A heading counts as stable while it is held. *)
LEMMA StableIsHeld ==
  ASSUME NEW h, HeadingStable(h)
  PROVE  TurnBetween(h, odom.yaw) <= TransferHeading
  BY DEF HeadingStable, HeadingTimer, Running

(* Each phase begins as the one before it is done, and the lane is         *)
(* followed from its own heading (run_lane_transfer).                      *)
LEMMA PhaseStep ==
  ASSUME IInv, Tick, state = "MOVE_TO_LANE_START", transfer.enabled, ~DynamicRejoin
  PROVE  /\ transfer'.phase = "TRACK_TRANSFER" /\ transfer.phase = "ALIGN_TRANSFER"
              => TurnBetween(ConnectorHeading, odom.yaw) <= TransferHeading
         /\ transfer'.phase = "ALIGN_NEW_LANE" /\ transfer.phase # "ALIGN_NEW_LANE"
              => WithinReach(ActiveStart) \/ transfer.start = ActiveStart
         /\ state' = "LANE_FOLLOWING_WITH_SEARCH"
              => TurnBetween(LaneHeading, odom.yaw) <= TransferHeading
  <1>1. LaneType /\ transfer.phase \in TransferPhases
    BY TypeParts DEF IInv, LaneType
  <1>2. CASE CheckInputs
    BY <1>2 DEF CheckInputs, laneVars, TransitionTo
  <1>3. CASE AlignTransfer
    <2>1. CASE HeadingStable(ConnectorHeading)
      <3>1. /\ transfer' = [transfer EXCEPT !.phase = "TRACK_TRANSFER"] /\ state' = state
            /\ TurnBetween(ConnectorHeading, odom.yaw) <= TransferHeading
        BY <1>3, <2>1, StableIsHeld DEF AlignTransfer, NextPhase, StayWith
      <3> QED BY <1>1, <3>1 DEF LaneType
    <2>2. CASE ~HeadingStable(ConnectorHeading)
      BY <1>3, <2>2 DEF AlignTransfer, StayWith
    <2> QED BY <2>1, <2>2
  <1>4. CASE TrackTransfer
    <2>1. \/ /\ transfer' = [transfer EXCEPT !.phase = "ALIGN_NEW_LANE"] /\ state' = state
             /\ WaypointReached(ActiveStart)
          \/ transfer' = transfer /\ state' = state
      BY <1>4 DEF TrackTransfer, NextPhase, StayWith
    <2> QED BY <1>1, <2>1 DEF LaneType, WaypointReached, Settling
  <1>5. CASE AlignNewLane
    <2>1. TransferPhase = "ALIGN_NEW_LANE"
      BY <1>5 DEF AlignNewLane
    <2>2. transfer.phase # "ALIGN_NEW_LANE" => transfer.start = ActiveStart
      BY <2>1 DEF TransferPhase
    <2>3. transfer'.phase = "ALIGN_NEW_LANE"
      BY <1>1, <1>5, <2>1 DEF AlignNewLane, LaneType
    <2>4. state' = "LANE_FOLLOWING_WITH_SEARCH"
            => TurnBetween(LaneHeading, odom.yaw) <= TransferHeading
      BY <1>5, StableIsHeld DEF AlignNewLane, StayWith
    <2> QED BY <2>2, <2>3, <2>4
  <1>6. CheckInputs \/ AlignTransfer \/ TrackTransfer \/ AlignNewLane
    <2>1. RunMoveToLaneStart \/ CheckInputs
      BY DEF Tick, RunTargetConfirm, ReleaseRc, RunInitialScan, RunTurnToInitialTarget,
         RunTargetHold, RunReacquireBuoy, RunApproachBuoy, RunStrongForward,
         RunStrongBackoff, RunLaneFollowing, RunReturnToActiveLane, Control
    <2> QED BY <2>1 DEF RunMoveToLaneStart, MoveToLaneStart, DynamicTransfer
  <1> QED BY <1>2, <1>3, <1>4, <1>5, <1>6

(* A three-phase transfer earns each of its phases. *)
THEOREM TransferPhasesEarnedHolds == Spec => TransferPhasesEarned
  <1> DEFINE Earned ==
        /\ transfer'.phase = "TRACK_TRANSFER" /\ transfer.phase = "ALIGN_TRANSFER"
             => TurnBetween(ConnectorHeading, odom.yaw) <= TransferHeading
        /\ transfer'.phase = "ALIGN_NEW_LANE" /\ transfer.phase # "ALIGN_NEW_LANE"
             => WithinReach(ActiveStart) \/ transfer.start = ActiveStart
        /\ state' = "LANE_FOLLOWING_WITH_SEARCH"
             => TurnBetween(LaneHeading, odom.yaw) <= TransferHeading
  <1>1. ASSUME IInv, [Next]_vars, state = "MOVE_TO_LANE_START", transfer.enabled,
               ~DynamicRejoin
        PROVE  Earned
    <2>1. CASE Tick
      BY <1>1, <2>1, PhaseStep
    <2>2. CASE Sense \/ Elapse \/ UNCHANGED vars
      <3>1. transfer' = transfer /\ state' = state
        BY <2>2 DEF Sense, OnStartFrame, OnOdometry, OnDepth, OnBbox, Elapse, vars,
           missionVars, laneVars
      <3> QED BY <1>1, <3>1
    <2>3. CASE Command
      <3>1. OnEmergencyStop
        BY <1>1, <2>3 DEF Command, OnVisionSearchRequest, OnVisionControlGranted
      <3>2. transfer' = transfer /\ state' = "FAILSAFE"
        BY <3>1 DEF OnEmergencyStop, TransitionTo, laneVars
      <3> QED BY <3>2
    <2> QED BY <1>1, <2>1, <2>2, <2>3 DEF Next
  <1>2. IInv /\ [Next]_vars =>
          [state = "MOVE_TO_LANE_START" /\ transfer.enabled /\ ~DynamicRejoin
             => Earned]_vars
    BY <1>1
  <1> QED BY <1>2, MissionInvariant, PTL DEF Spec, TransferPhasesEarned

----------------------------------------------------------------------------
(* Confirmations.  That a confirmation belongs to the tracked target needs *)
(* no other invariant: it is inductive with the types.                     *)

(* No confirmation is in progress without a confirmed track. *)
LEMMA BboxConfirmation ==
  ASSUME TypeOK, ConfirmationIsOfTarget, NEW d \in Detections, OnBbox(d)
  PROVE  ConfirmationIsOfTarget'
  <1>1. state' = state
    BY DEF OnBbox
  <1>2. CASE Replaces(buoy, d, Selecting)
    <2>1. /\ since'.confirm = Unset /\ since'.hold = Unset /\ since'.detect = Unset
      BY <1>2 DEF OnBbox, TimersOfNewTarget, TypeOK, TimerNames
    <2> QED BY <2>1 DEF ConfirmationIsOfTarget
  <1>3. CASE ~Replaces(buoy, d, Selecting)
    <2>1. Recent(buoy) /\ since' = since
      BY <1>3 DEF Replaces, OnBbox
    <2>2. Confirmed(buoy) => Confirmed(buoy')
      <3>1. buoy' = buoy \/ buoy' \in Updated(buoy, d)
        BY <1>3 DEF OnBbox, AcceptedTracks
      <3>2. CASE buoy' \in Updated(buoy, d)
        <4>1. buoy.hits \in Nat /\ TargetConfirmHits \in Nat /\ DetectionTimeout \in Nat
          BY TrackerAssumption DEF TypeOK, Track
        <4>2. /\ buoy'.age = 0
              /\ buoy'.hits = IF buoy.hits < TargetConfirmHits THEN buoy.hits + 1
                                                               ELSE buoy.hits
          BY <3>2 DEF Updated
        <4> QED BY <4>1, <4>2 DEF Confirmed, Recent
      <3> QED BY <3>1, <3>2
    <2> QED BY <1>1, <2>1, <2>2 DEF ConfirmationIsOfTarget
  <1> QED BY <1>2, <1>3

(* A pursuit or a lane begins with its timer unset. *)
LEMMA TimersStartUnset ==
  ASSUME NEW tm \in Timers
  PROVE  /\ \A context, handoff :
              BeginTarget(context, handoff, tm) =>
                state' \in {"TARGET_HOLD", "FAILSAFE"} /\ since'.hold = Unset
         /\ EnterLaneFollowing(tm) =>
              state' = "LANE_FOLLOWING_WITH_SEARCH" /\ since'.detect = Unset
  <1>1. ASSUME NEW context, NEW handoff, BeginTarget(context, handoff, tm)
        PROVE  state' \in {"TARGET_HOLD", "FAILSAFE"} /\ since'.hold = Unset
    <2>1. since' = [tm EXCEPT !.hold = Unset, !.close = Unset]
          /\ state' \in {"TARGET_HOLD", "FAILSAFE"}
      BY <1>1 DEF BeginTarget, TransitionTo
    <2> QED BY <2>1 DEF Timers, TimerNames
  <1>2. ASSUME EnterLaneFollowing(tm)
        PROVE  state' = "LANE_FOLLOWING_WITH_SEARCH" /\ since'.detect = Unset
    <2>1. since' = [tm EXCEPT !.detect = Unset] /\ state' = "LANE_FOLLOWING_WITH_SEARCH"
      BY <1>2 DEF EnterLaneFollowing, TransitionTo
    <2> QED BY <2>1 DEF Timers, TimerNames
  <1> QED BY <1>1, <1>2

(* A timer that runs while a condition holds says that it holds. *)
LEMMA RunningHolds ==
  ASSUME NEW t, NEW condition \in BOOLEAN, Running(t, condition) # Unset
  PROVE  condition
  BY DEF Running

(* Choosing the next lane leaves the states that confirm. *)
LEMMA SelectionEndsSearch ==
  ASSUME NEW completed, NEW tm, NEW laneToLane, SelectNextLane(completed, tm, laneToLane)
  PROVE  state' \in {"COMPLETE", "MOVE_TO_LANE_START"}
  BY DEF SelectNextLane, TransitionTo

(* So does the end of a pursuit. *)
LEMMA FinishEndsPursuit ==
  ASSUME NEW skip, FinishTarget(skip)
  PROVE  state' \in {"COMPLETE", "MOVE_TO_LANE_START", "FAILSAFE", "RETURN_TO_ACTIVE_LANE"}
  <1>1. FinishTarget(skip) =>
          \/ \E tm : SelectNextLane(mission.completed, tm, FALSE)
          \/ \E tm : TransitionTo("FAILSAFE", tm)
          \/ \E tm : TransitionTo("RETURN_TO_ACTIVE_LANE", tm)
    BY DEF FinishTarget
  <1>2. ASSUME NEW tm, NEW next, TransitionTo(next, tm)
        PROVE  state' = next
    BY <1>2 DEF TransitionTo
  <1> QED BY <1>1, <1>2, SelectionEndsSearch

(* A tick that does not lead to a confirming state has nothing to keep. *)
LEMMA NotConfirming ==
  ASSUME state' \notin {"TARGET_CONFIRM", "TARGET_HOLD", "LANE_FOLLOWING_WITH_SEARCH"}
  PROVE  ConfirmationIsOfTarget'
  BY DEF ConfirmationIsOfTarget

(* The tick lets a confirmation run with a confirmed track alone.          *)
LEMMA TickConfirmation ==
  ASSUME TypeOK, ConfirmationIsOfTarget, Tick
  PROVE  ConfirmationIsOfTarget'
  <1>1. since \in Timers /\ StateType /\ buoy \in Track
    BY TypeParts DEF StateType
  <1> USE <1>1, NotConfirming, TimersStartUnset, SelectionEndsSearch, FinishEndsPursuit
  <1>2. CASE RunTargetConfirm
    <2>1. \/ state' = "WAIT_CONTROL_GRANT"
          \/ /\ state' = state /\ buoy' = buoy
             /\ since' = [since EXCEPT !.confirm = Running("confirm", Confirmed(buoy))]
      BY <1>2 DEF RunTargetConfirm, TransitionTo, StayWith
    <2>2. state = "TARGET_CONFIRM"
      BY <1>2 DEF RunTargetConfirm
    <2>3. CASE state' = state /\ buoy' = buoy /\ since'.confirm = Running("confirm", Confirmed(buoy))
      BY <2>2, <2>3, RunningHolds DEF ConfirmationIsOfTarget, Confirmed
    <2> QED BY <2>1, <2>3 DEF Timers, TimerNames
  <1>3. CASE ReleaseRc \/ CheckInputs
    <2>1. state' \in Terminal
      BY <1>3 DEF ReleaseRc, CheckInputs, TransitionTo
    <2> QED BY <2>1
  <1>4. CASE RunInitialScan
    <2>1. state' \notin {"TARGET_CONFIRM", "TARGET_HOLD", "LANE_FOLLOWING_WITH_SEARCH"}
      BY <1>4 DEF RunInitialScan, Control, StayWith, TransitionTo
    <2> QED BY <2>1
  <1>5. CASE RunTurnToInitialTarget
    <2>1. \/ state' \notin {"TARGET_CONFIRM", "TARGET_HOLD", "LANE_FOLLOWING_WITH_SEARCH"}
          \/ state' = "TARGET_HOLD" /\ since'.hold = Unset
      BY <1>5 DEF RunTurnToInitialTarget, Control, StayWith
    <2> QED BY <2>1 DEF ConfirmationIsOfTarget
  <1>6. CASE RunTargetHold
    <2>1. state = "TARGET_HOLD"
      BY <1>6 DEF RunTargetHold, Control
    <2>2. \/ state' \notin {"TARGET_CONFIRM", "TARGET_HOLD", "LANE_FOLLOWING_WITH_SEARCH"}
          \/ /\ state' = state /\ buoy' = buoy
             /\ since' = [since EXCEPT !.hold = Running("hold", Confirmed(buoy))]
      BY <1>6 DEF RunTargetHold, StayWith, TransitionTo
    <2>3. CASE state' = state /\ buoy' = buoy /\ since'.hold = Running("hold", Confirmed(buoy))
      BY <2>1, <2>3, RunningHolds DEF ConfirmationIsOfTarget, Confirmed
    <2> QED BY <2>2, <2>3 DEF Timers, TimerNames
  <1>7. CASE RunReacquireBuoy
    <2>1. \/ state' \notin {"TARGET_CONFIRM", "TARGET_HOLD", "LANE_FOLLOWING_WITH_SEARCH"}
          \/ /\ state' = "TARGET_HOLD"
             /\ since' = [since EXCEPT !.hold = Unset]
      BY <1>7 DEF RunReacquireBuoy, Control, StayWith, TransitionTo
    <2> QED BY <2>1 DEF ConfirmationIsOfTarget, Timers, TimerNames
  <1>8. CASE RunApproachBuoy \/ RunStrongForward \/ RunStrongBackoff
    <2>1. state' \notin {"TARGET_CONFIRM", "TARGET_HOLD", "LANE_FOLLOWING_WITH_SEARCH"}
      BY <1>8 DEF RunApproachBuoy, TrackBuoy, RunStrongForward, RunStrongBackoff, Control,
         StayWith, TransitionTo
    <2> QED BY <2>1
  <1>9. CASE RunMoveToLaneStart
    <2>1. state = "MOVE_TO_LANE_START"
      BY <1>9 DEF RunMoveToLaneStart, Control
    <2>2. \/ state' \notin {"TARGET_CONFIRM", "TARGET_HOLD", "LANE_FOLLOWING_WITH_SEARCH"}
          \/ \E tm \in Timers : EnterLaneFollowing(tm)
      <3>1. CASE MoveToLaneStart
        <4>1. [[since EXCEPT !.settle = SettleTimer(ActiveStart)] EXCEPT !.settle = Unset]
                \in Timers
          BY LaneTimers, TimerReset DEF TimerNames
        <4> QED BY <2>1, <3>1, <4>1 DEF MoveToLaneStart, StayWith
      <3>2. CASE DynamicTransfer \/ AlignTransfer \/ TrackTransfer \/ AlignNewLane
        BY <2>1, <3>2, LaneTimers
        DEF DynamicTransfer, AlignTransfer, TrackTransfer, AlignNewLane, NextPhase, StayWith,
            TransitionTo
      <3> QED BY <1>9, <3>1, <3>2 DEF RunMoveToLaneStart
    <2> QED BY <2>2 DEF ConfirmationIsOfTarget
  <1>10. CASE RunLaneFollowing
    <2>1. state = "LANE_FOLLOWING_WITH_SEARCH"
      BY <1>10 DEF RunLaneFollowing, Control
    <2>2. CASE LoseLane \/ CompleteLane
      <3>1. state' \in Terminal \cup {"MOVE_TO_LANE_START"}
        BY <2>2 DEF LoseLane, CompleteLane, TransitionTo
      <3> QED BY <3>1
    <2>3. CASE FollowAndSearch
      <3> DEFINE tm == IF NearFinish THEN [since EXCEPT !.settle = SettleTimer(ActiveFinish)]
                                     ELSE since
                 seen == Searching /\ Confirmed(SearchedTrack)
                 found == seen /\ HeldFor("detect", TargetConfirmTime)
      <3>1. tm \in Timers
        BY LaneTimers
      <3>2. /\ buoy' = SearchedTrack
            /\ IF found THEN BeginTarget("LANE", target.handoff, tm)
               ELSE StayWith([tm EXCEPT !.detect = Running("detect", seen)])
        BY <2>3 DEF FollowAndSearch
      <3>3. seen \in BOOLEAN /\ (seen => Confirmed(SearchedTrack))
        BY DEF Searching
      <3> HIDE DEF tm, seen, found
      <3>4. CASE found
        <4>1. state' \in {"TARGET_HOLD", "FAILSAFE"} /\ since'.hold = Unset
          BY <3>1, <3>2, <3>4
        <4> QED BY <4>1 DEF ConfirmationIsOfTarget
      <3>5. CASE ~found
        <4>1. state' = state /\ since'.detect = Running("detect", seen)
          BY <3>1, <3>2, <3>5 DEF StayWith, Timers, TimerNames
        <4>2. since'.detect # Unset => Confirmed(buoy')
          BY <3>2, <3>3, <4>1, RunningHolds
        <4> QED BY <2>1, <4>1, <4>2 DEF ConfirmationIsOfTarget
      <3> QED BY <3>4, <3>5
    <2> QED BY <1>10, <2>2, <2>3 DEF RunLaneFollowing
  <1>11. CASE RunReturnToActiveLane
    <2>1. \/ state' \notin {"TARGET_CONFIRM", "TARGET_HOLD", "LANE_FOLLOWING_WITH_SEARCH"}
          \/ EnterLaneFollowing(since)
      BY <1>11 DEF RunReturnToActiveLane, Control, StayWith, TransitionTo
    <2> QED BY <2>1 DEF ConfirmationIsOfTarget
  <1> QED BY <1>2, <1>3, <1>4, <1>5, <1>6, <1>7, <1>8, <1>9, <1>10, <1>11 DEF Tick

(* Time that was gathered for one buoy is never counted for another        *)
(* (accept_buoy_detection, the stability timers).                          *)
THEOREM ConfirmationIsOfTargetHolds == Spec => []ConfirmationIsOfTarget
  <1>1. Init => ConfirmationIsOfTarget
    BY DEF Init, ConfirmationIsOfTarget
  <1>2. ASSUME TypeOK, ConfirmationIsOfTarget, [Next]_vars
        PROVE  ConfirmationIsOfTarget'
    <2>1. CASE OnStartFrame \/ OnOdometry \/ OnDepth("pose") \/ OnDepth("scalar")
               \/ UNCHANGED vars
      <3>1. UNCHANGED <<state, buoy, since>>
        BY <2>1 DEF OnStartFrame, OnOdometry, OnDepth, missionVars, vars
      <3> QED BY <1>2, <3>1 DEF ConfirmationIsOfTarget
    <2>2. CASE \E d \in Detections : OnBbox(d)
      BY <1>2, <2>2, BboxConfirmation
    <2>3. CASE Command
      <3>1. CASE OnVisionSearchRequest
        <4>1. since' = [t \in TimerNames |-> Unset] /\ state' = "TARGET_CONFIRM"
          BY <3>1 DEF OnVisionSearchRequest, TransitionTo
        <4> QED BY <4>1 DEF ConfirmationIsOfTarget, TimerNames
      <3>2. CASE OnVisionControlGranted
        <4>1. \/ state' \in {"FAILSAFE", "INITIAL_SCAN_360"}
              \/ BeginTarget("INITIAL", odom.pos, since)
          BY <3>2 DEF OnVisionControlGranted, BeginInitialScan, TransitionTo
        <4>2. since \in Timers
          BY <1>2, TypeParts DEF StateType
        <4> QED BY <4>1, <4>2, TimersStartUnset DEF ConfirmationIsOfTarget
      <3>3. CASE OnEmergencyStop
        BY <3>3, NotConfirming DEF OnEmergencyStop, TransitionTo
      <3> QED BY <2>3, <3>1, <3>2, <3>3 DEF Command
    <2>4. CASE Tick
      BY <1>2, <2>4, TickConfirmation
    <2>5. CASE Elapse
      <3>1. state' = state /\ since \in Timers /\ buoy \in Track
        BY <1>2, <2>5, TypeParts DEF Elapse, StateType
      <3>2. \A t \in TimerNames : since'[t] # Unset => since[t] # Unset
        BY <2>5 DEF Elapse
      <3>3. buoy'.hits = buoy.hits /\ (Recent(buoy') => Recent(buoy))
        <4>1. buoy' = [buoy EXCEPT !.age = Aged(@, DetectionTimeout + 1)]
          BY <2>5 DEF Elapse
        <4>2. buoy'.hits = buoy.hits /\ buoy'.age = Aged(buoy.age, DetectionTimeout + 1)
          BY <3>1, <4>1 DEF Track
        <4>3. buoy.age \in 0 .. DetectionTimeout + 1 /\ DetectionTimeout \in Nat
          BY <3>1, TrackerAssumption DEF Track
        <4> QED BY <4>2, <4>3 DEF Recent, Aged, Lesser
      <3> QED BY <1>2, <3>1, <3>2, <3>3 DEF ConfirmationIsOfTarget, Confirmed, TimerNames
    <2> QED BY <1>2, <2>1, <2>2, <2>3, <2>4, <2>5 DEF Next, Sense
  <1> QED BY <1>1, <1>2, TypeCorrect, PTL DEF Spec

----------------------------------------------------------------------------
(* The scan. *)

(* A candidate gives way to none that is smaller (consider_scan_candidate, *)
(* is_better_buoy).                                                        *)
LEMMA CandidateStep ==
  ASSUME TypeOK, NEW d \in Detections, OnBbox(d)
  PROVE  state' = state /\ scan'.candidate.area >= scan.candidate.area
  <1>1. scan.candidate.area \in Int /\ d.area \in Nat
    BY TrackerAssumption DEF TypeOK, NoCandidate, Detection
  <1>2. scan'.candidate = scan.candidate
        \/ /\ scan'.candidate = d
           /\ scan.candidate = NoCandidate \/ IsBetterBuoy(d, scan.candidate)
    BY DEF OnBbox, TypeOK
  <1>3. state' = state
    BY DEF OnBbox
  <1> QED BY <1>1, <1>2, <1>3 DEF IsBetterBuoy, NoCandidate

(* The initial scan starts with no candidate of an earlier mission and     *)
(* ends with the largest box it has seen.                                  *)
THEOREM ScanKeepsLargestHolds == Spec => ScanKeepsLargest
  <1> DEFINE Kept == IF state = "INITIAL_SCAN_360"
                     THEN scan'.candidate.area >= scan.candidate.area
                     ELSE scan'.candidate = NoCandidate
  <1>1. ASSUME TypeOK, [Next]_vars, state' = "INITIAL_SCAN_360"
        PROVE  Kept
    <2>1. scan.candidate.area \in Int
      BY <1>1, TrackerAssumption DEF TypeOK, NoCandidate, Detection
    <2>2. CASE state' = state /\ scan'.candidate = scan.candidate
      BY <1>1, <2>1, <2>2
    <2>3. CASE Sense
      <3>1. CASE \E d \in Detections : OnBbox(d)
        BY <1>1, <3>1, CandidateStep
      <3>2. CASE ~\E d \in Detections : OnBbox(d)
        <4>1. UNCHANGED <<state, scan>>
          BY <2>3, <3>2 DEF Sense, OnStartFrame, OnOdometry, OnDepth, missionVars
        <4> QED BY <2>2, <4>1
      <3> QED BY <3>1, <3>2
    <2>4. CASE Command
      <3>1. state' # "INITIAL_SCAN_360" \/ (BeginInitialScan /\ state \in Standby)
        <4>1. CASE OnVisionSearchRequest \/ OnEmergencyStop
          BY <4>1 DEF OnVisionSearchRequest, OnEmergencyStop, TransitionTo
        <4>2. CASE OnVisionControlGranted
          BY <4>2 DEF OnVisionControlGranted, BeginTarget, TransitionTo
        <4> QED BY <2>4, <4>1, <4>2 DEF Command
      <3>2. scan'.candidate = NoCandidate /\ state \in Standby
        BY <1>1, <3>1 DEF BeginInitialScan, TypeOK
      <3> QED BY <3>2
    <2>5. CASE Tick
      <3>1. CASE RunInitialScan
        <4>1. state = "INITIAL_SCAN_360"
          BY <3>1 DEF RunInitialScan, Control
        <4>2. scan'.candidate = scan.candidate
          BY <1>1, <3>1 DEF RunInitialScan, TypeOK
        <4> QED BY <1>1, <2>2, <4>1, <4>2
      <3>2. CASE RunTargetConfirm \/ ReleaseRc \/ CheckInputs
        <4>1. state' # "INITIAL_SCAN_360"
          BY <3>2 DEF RunTargetConfirm, ReleaseRc, CheckInputs, StayWith, TransitionTo
        <4> QED BY <1>1, <4>1
      <3>3. CASE RunTurnToInitialTarget \/ RunTargetHold \/ RunReacquireBuoy
                 \/ RunApproachBuoy \/ RunStrongForward \/ RunStrongBackoff
        <4>1. state' # "INITIAL_SCAN_360"
          BY <3>3, SelectionEndsSearch, FinishEndsPursuit
          DEF RunTurnToInitialTarget, RunTargetHold, RunReacquireBuoy, RunApproachBuoy,
              TrackBuoy, RunStrongForward, RunStrongBackoff, Control, BeginTarget,
              StayWith, TransitionTo
        <4> QED BY <1>1, <4>1
      <3>4. CASE RunMoveToLaneStart \/ RunLaneFollowing \/ RunReturnToActiveLane
        <4>1. state' # "INITIAL_SCAN_360"
          BY <3>4, SelectionEndsSearch
          DEF RunMoveToLaneStart, MoveToLaneStart, DynamicTransfer, AlignTransfer,
              TrackTransfer, AlignNewLane, NextPhase, RunLaneFollowing, LoseLane,
              CompleteLane, FollowAndSearch, RunReturnToActiveLane, Control,
              EnterLaneFollowing, BeginTarget, StayWith, TransitionTo
        <4> QED BY <1>1, <4>1
      <3> QED BY <2>5, <3>1, <3>2, <3>3, <3>4 DEF Tick
    <2>6. CASE Elapse \/ UNCHANGED vars
      BY <2>2, <2>6 DEF Elapse, vars
    <2> QED BY <1>1, <2>3, <2>4, <2>5, <2>6 DEF Next
  <1>2. TypeOK /\ [Next]_vars => [state' = "INITIAL_SCAN_360" => Kept]_vars
    BY <1>1
  <1> QED BY <1>2, TypeCorrect, PTL DEF Spec, ScanKeepsLargest

----------------------------------------------------------------------------
(* The refinement.  What a tick of the mission comes to: it goes on, it    *)
(* fails with the channels released, or it takes a lane that is left.      *)

GoesOn == mission' = mission /\ state' \notin Standby \cup Terminal
Fails == mission' = mission /\ state' = "FAILSAFE" /\ override' = "none"
TakesLane(done) ==
  /\ mission'.completed = done
  /\ \/ /\ state' = "COMPLETE" /\ done = Lanes
        /\ mission'.active = NoLane /\ override' = "none"
     \/ state' = "MOVE_TO_LANE_START" /\ mission'.active \in Lanes \ done
Outcome ==
  \/ GoesOn \/ Fails
  \/ ~HasActiveLane /\ TakesLane(mission.completed)
  \/ HasActiveLane /\ TakesLane(mission.completed \cup {ActiveLane})

(* A transition goes where it is told to go. *)
LEMMA TransitionGoes ==
  ASSUME NEW next, NEW tm, TransitionTo(next, tm)
  PROVE  state' = next
  BY DEF TransitionTo

(* Whatever a handler publishes, an end of the mission releases. *)
LEMMA EndReleases ==
  ASSUME NEW command, PublishForward(command), state' \in Terminal
  PROVE  override' = "none"
  BY DEF PublishForward

(* The scan and the turn take the first lane or go on.                     *)
LEMMA FirstTargetOutcome ==
  ASSUME IInv, RunInitialScan \/ RunTurnToInitialTarget
  PROVE  Outcome
  <1>1. /\ StateType /\ SensorType /\ LaneType /\ since \in Timers
        /\ aligned \in BOOLEAN /\ mission.completed \in SUBSET Lanes
        /\ state \in Search
    BY TypeParts DEF IInv, LaneType, StateType, RunInitialScan, RunTurnToInitialTarget,
       Control
  <1>2. ~HasActiveLane
    BY <1>1 DEF IInv, Mission, LaneOwnership
  <1>3. \E command : PublishForward(command)
    BY DEF RunInitialScan, RunTurnToInitialTarget
  <1>4. CASE SelectNextLane(mission.completed, since, FALSE)
    <2>1. TakesLane(mission.completed)
      BY <1>1, <1>3, <1>4, SelectNextLaneType, EndReleases DEF TakesLane
    <2> QED BY <1>2, <2>1 DEF Outcome
  <1>5. CASE ~SelectNextLane(mission.completed, since, FALSE)
    <2>1. \/ StayWith(since) /\ UNCHANGED laneVars
          \/ UNCHANGED laneVars
               /\ \E tm : TransitionTo("TURN_TO_INITIAL_TARGET", tm)
          \/ UNCHANGED laneVars /\ BeginTarget("INITIAL", target.handoff, since)
      BY <1>5 DEF RunInitialScan, RunTurnToInitialTarget
    <2>2. state' \notin Standby \cup Terminal
      BY <1>1, <2>1, TransitionGoes DEF StayWith, BeginTarget
    <2> QED BY <2>1, <2>2 DEF Outcome, GoesOn, laneVars
  <1> QED BY <1>4, <1>5

(* A pursuit goes on, returns to its lane, or takes the first one.         *)
LEMMA PursuitOutcome ==
  ASSUME IInv,
         RunTargetHold \/ RunReacquireBuoy \/ RunApproachBuoy \/ RunStrongForward
           \/ RunStrongBackoff
  PROVE  Outcome
  <1>1. /\ StateType /\ SensorType /\ TargetType /\ LaneType /\ aligned \in BOOLEAN
        /\ state \in Pursuit
    BY TypeParts DEF IInv, RunTargetHold, RunReacquireBuoy, RunApproachBuoy,
       RunStrongForward, RunStrongBackoff, Control
  <1>2. HasActiveLane <=> target.context = "LANE"
    BY <1>1 DEF IInv, Mission, LaneOwnership
  <1>3. \E command : PublishForward(command)
    BY DEF RunTargetHold, RunReacquireBuoy, RunApproachBuoy, TrackBuoy, RunStrongForward,
       RunStrongBackoff
  <1>4. CASE \E skip \in BOOLEAN : FinishTarget(skip)
    <2>1. /\ mission'.completed = mission.completed
          /\ \/ /\ target.context = "INITIAL"
                /\ \/ /\ state' = "COMPLETE" /\ mission.completed = Lanes
                      /\ mission'.active = NoLane
                   \/ /\ state' = "MOVE_TO_LANE_START"
                      /\ mission'.active \in Lanes \ mission.completed
             \/ /\ target.context = "LANE" /\ mission' = mission
                /\ ~HasActiveLane \/ state' = "RETURN_TO_ACTIVE_LANE"
      BY <1>1, <1>4, FinishTargetType
    <2>2. CASE target.context = "INITIAL"
      <3>1. TakesLane(mission.completed)
        BY <1>3, <2>1, <2>2, EndReleases DEF TakesLane
      <3> QED BY <1>2, <2>2, <3>1 DEF Outcome
    <2>3. CASE target.context = "LANE"
      <3>1. GoesOn
        BY <1>2, <2>1, <2>3 DEF GoesOn
      <3> QED BY <3>1 DEF Outcome
    <2> QED BY <2>1, <2>2, <2>3
  <1>5. CASE ~ \E skip \in BOOLEAN : FinishTarget(skip)
    <2>1. mission' = mission /\ state' \in Pursuit
      BY <1>1, <1>5, TransitionGoes
      DEF RunTargetHold, RunReacquireBuoy, RunApproachBuoy, TrackBuoy, RunStrongForward,
          RunStrongBackoff, StayWith, laneVars
    <2> QED BY <2>1 DEF Outcome, GoesOn
  <1> QED BY <1>4, <1>5

(* Going to a lane and returning to it go on with it. *)
LEMMA LaneReachedOutcome ==
  ASSUME IInv, RunMoveToLaneStart \/ RunReturnToActiveLane
  PROVE  Outcome
  <1>1. state \in LaneStates /\ HasActiveLane
    BY LaneFacts DEF RunMoveToLaneStart, RunReturnToActiveLane, Control
  <1>2. mission' = mission
    BY DEF RunMoveToLaneStart, RunReturnToActiveLane, laneVars
  <1>3. state' \in LaneStates
    BY <1>1, TransitionGoes
    DEF RunMoveToLaneStart, MoveToLaneStart, DynamicTransfer, AlignTransfer,
        TrackTransfer, AlignNewLane, NextPhase, RunReturnToActiveLane,
        EnterLaneFollowing, StayWith
  <1> QED BY <1>2, <1>3 DEF Outcome, GoesOn

(* Following a lane goes on with it, or covers it and takes the next.      *)
LEMMA LaneFollowingOutcome ==
  ASSUME IInv, RunLaneFollowing
  PROVE  Outcome
  <1>1. /\ StateType /\ SensorType /\ LaneType /\ aligned \in BOOLEAN
        /\ state = "LANE_FOLLOWING_WITH_SEARCH"
    BY TypeParts DEF IInv, RunLaneFollowing, Control
  <1>2. HasActiveLane /\ ActiveLane \in Lanes
    BY <1>1, LaneFacts
  <1>3. CASE CompleteLane
    <2> DEFINE done == mission.completed \cup {ActiveLane}
               tm == IF EarlyTransition THEN since
                     ELSE [since EXCEPT !.settle = SettleTimer(ActiveFinish)]
    <2>1. tm \in Timers /\ done \in SUBSET Lanes
      BY <1>1, <1>2, LaneTimers DEF LaneType
    <2>2. SelectNextLane(done, tm, TRUE) /\ \E command : PublishForward(command)
      BY <1>3 DEF CompleteLane
    <2> HIDE DEF done, tm
    <2>3. TakesLane(done)
      BY <1>1, <2>1, <2>2, SelectNextLaneType, EndReleases DEF TakesLane
    <2> QED BY <1>2, <2>3 DEF Outcome, done
  <1>4. CASE FollowAndSearch
    <2>1. mission' = mission /\ state' \in {"LANE_FOLLOWING_WITH_SEARCH", "TARGET_HOLD"}
      BY <1>1, <1>2, <1>4, TransitionGoes DEF FollowAndSearch, BeginTarget, StayWith
    <2> QED BY <2>1 DEF Outcome, GoesOn
  <1> QED BY <1>2, <1>3, <1>4 DEF RunLaneFollowing

(* The steps of the mission and the steps it does not see. *)
LEMMA OutcomeRefines ==
  ASSUME IInv, Outcome, state \notin Standby \cup Terminal
  PROVE  Abstract!Next
  <1>1. mission \in [completed : SUBSET Lanes, active : Lanes \cup {NoLane},
                     startAtA : BOOLEAN]
    BY DEF IInv, TypeOK
  <1>2. MissionPhase = IF HasActiveLane THEN "lane" ELSE "first target"
    BY DEF MissionPhase
  <1>3. CASE GoesOn
    <2>1. MissionPhase' = MissionPhase
      BY <1>2, <1>3 DEF GoesOn, MissionPhase, HasActiveLane
    <2>2. Abstract!Drive
      BY <1>2, <1>3, <2>1 DEF GoesOn, Abstract!Drive
    <2> QED BY <2>2 DEF Abstract!Next
  <1>4. CASE Fails
    <2>1. MissionPhase' = "failed"
      BY <1>4 DEF Fails, MissionPhase
    <2>2. Abstract!Fail
      BY <1>2, <1>4, <2>1 DEF Fails, Abstract!Fail
    <2> QED BY <2>2 DEF Abstract!Next
  <1>5. ASSUME NEW done, TakesLane(done)
        PROVE  mission'.completed = done /\ Abstract!NextLane
    <2>1. CASE state' = "COMPLETE"
      <3>1. MissionPhase' = "complete"
        BY <2>1 DEF MissionPhase
      <3> QED BY <1>5, <2>1, <3>1 DEF TakesLane, Abstract!NextLane
    <2>2. CASE state' = "MOVE_TO_LANE_START"
      <3>1. mission'.active \in Lanes \ done /\ mission'.completed = done
        BY <1>5, <2>2 DEF TakesLane
      <3>2. MissionPhase' = "lane"
        BY <2>2, <3>1, NoLaneIsNone DEF MissionPhase, HasActiveLane
      <3> QED BY <3>1, <3>2 DEF Abstract!NextLane
    <2> QED BY <1>5, <2>1, <2>2 DEF TakesLane
  <1>6. CASE ~HasActiveLane /\ TakesLane(mission.completed)
    <2>1. Abstract!TakeFirstLane
      BY <1>2, <1>5, <1>6 DEF Abstract!TakeFirstLane
    <2> QED BY <2>1 DEF Abstract!Next
  <1>7. CASE HasActiveLane /\ TakesLane(mission.completed \cup {ActiveLane})
    <2>1. Abstract!CoverLane
      BY <1>2, <1>5, <1>7 DEF Abstract!CoverLane, ActiveLane
    <2> QED BY <2>1 DEF Abstract!Next
  <1> QED BY <1>3, <1>4, <1>6, <1>7 DEF Outcome

(* The mission starts as promised. *)
LEMMA InitRefines == Init => Abstract!Init
  BY DEF Init, Abstract!Init, MissionPhase

(* Every step is a step of the promised mission or leaves it alone. *)
LEMMA NextRefines ==
  ASSUME IInv, Next
  PROVE  Abstract!Next \/ UNCHANGED <<MissionPhase, mission, override>>
  <1> DEFINE Stutter == UNCHANGED <<MissionPhase, mission, override>>
  <1>1. ASSUME UNCHANGED <<state, mission, override>>
        PROVE  Stutter
    BY <1>1 DEF MissionPhase, HasActiveLane
  <1>2. ASSUME state' = "FAILSAFE", mission' = mission, override' \in {override, "none"}
        PROVE  Abstract!Next \/ Stutter
    <2>1. MissionPhase' = "failed"
      BY <1>2 DEF MissionPhase
    <2>2. CASE state = "FAILSAFE"
      <3>1. MissionPhase = "failed"
        BY <2>2 DEF MissionPhase
      <3>2. Abstract!Release \/ Stutter
        BY <1>2, <2>1, <3>1 DEF Abstract!Release
      <3> QED BY <3>2 DEF Abstract!Next
    <2>3. CASE state # "FAILSAFE"
      <3>1. MissionPhase # "failed"
        BY <2>3 DEF MissionPhase
      <3>2. Abstract!Fail
        BY <1>2, <2>1, <3>1 DEF Abstract!Fail
      <3> QED BY <3>2 DEF Abstract!Next
    <2> QED BY <2>2, <2>3
  <1>3. CASE Sense \/ Elapse
    BY <1>1, <1>3 DEF Sense, Elapse, OnStartFrame, OnOdometry, OnDepth, OnBbox,
       missionVars, laneVars
  <1>4. CASE OnVisionSearchRequest
    <2>1. mission' = mission /\ override' = override
      <3>1. mission.completed = {} /\ mission.active = NoLane
        BY <1>4 DEF IInv, Mission, LaneOwnership, HasActiveLane, OnVisionSearchRequest
      <3>2. mission' = [mission EXCEPT !.completed = {}, !.active = NoLane]
        BY <1>4 DEF OnVisionSearchRequest, ResetMission
      <3>3. /\ mission \in [completed : SUBSET Lanes, active : Lanes \cup {NoLane},
                            startAtA : BOOLEAN]
            /\ {} \in SUBSET Lanes /\ NoLane \in Lanes \cup {NoLane}
        BY DEF IInv, TypeOK
      <3>4. /\ mission'.completed = {} /\ mission'.active = NoLane
            /\ mission'.startAtA = mission.startAtA
            /\ mission' \in [completed : SUBSET Lanes, active : Lanes \cup {NoLane},
                             startAtA : BOOLEAN]
        BY <3>2, <3>3
      <3>5. mission' = mission
        BY <3>1, <3>3, <3>4
      <3>6. override' = override
        BY <1>4 DEF OnVisionSearchRequest
      <3> QED BY <3>5, <3>6
    <2>2. state = "IDLE" /\ state' = "TARGET_CONFIRM"
      BY <1>4, TransitionGoes DEF OnVisionSearchRequest
    <2>3. MissionPhase' = MissionPhase
      BY <2>2 DEF MissionPhase
    <2> QED BY <2>1, <2>3
  <1>5. CASE OnVisionControlGranted
    <2>1. mission' = mission /\ override' = override /\ state \in Standby /\ ~HasActiveLane
      BY <1>5 DEF OnVisionControlGranted, laneVars, IInv, Mission, LaneOwnership
    <2>2. state' \in {"FAILSAFE", "TARGET_HOLD", "INITIAL_SCAN_360"}
      BY <1>5, TransitionGoes DEF OnVisionControlGranted, BeginTarget, BeginInitialScan
    <2>3. MissionPhase = "waiting" /\ MissionPhase' \in {"first target", "failed"}
      BY <2>1, <2>2 DEF MissionPhase, HasActiveLane
    <2>4. Abstract!Grant
      BY <2>1, <2>3 DEF Abstract!Grant
    <2> QED BY <2>4 DEF Abstract!Next
  <1>6. CASE OnEmergencyStop \/ CheckInputs
    BY <1>2, <1>6, TransitionGoes DEF OnEmergencyStop, CheckInputs, laneVars
  <1>7. CASE RunTargetConfirm
    <2>1. /\ state \in Standby /\ state' \in Standby
          /\ mission' = mission /\ override' = override
      BY <1>7, TransitionGoes DEF RunTargetConfirm, StayWith, laneVars
    <2> QED BY <2>1 DEF MissionPhase
  <1>8. CASE ReleaseRc
    <2>1. MissionPhase' = MissionPhase /\ MissionPhase \in {"complete", "failed"}
      BY <1>8 DEF ReleaseRc, MissionPhase, HasActiveLane, laneVars
    <2>2. Abstract!Release
      BY <1>8, <2>1 DEF Abstract!Release, ReleaseRc, laneVars
    <2> QED BY <2>2 DEF Abstract!Next
  <1>9. CASE Tick /\ ~RunTargetConfirm /\ ~ReleaseRc /\ ~CheckInputs
    <2>1. Underway
      BY <1>9, TickCases
    <2>2. Outcome
      BY <1>9, FirstTargetOutcome, PursuitOutcome, LaneReachedOutcome,
         LaneFollowingOutcome DEF Tick
    <2> QED BY <2>1, <2>2, OutcomeRefines DEF Underway
  <1> QED BY <1>3, <1>4, <1>5, <1>6, <1>7, <1>8, <1>9 DEF Next, Command

(* The controller is the mission it promises: whatever the sensors, the    *)
(* operator and the homing node do, it covers the lanes one at a time,     *)
(* none twice, and lets go of the channels at the end.                     *)
THEOREM MissionRefines == Spec => ImplementsMission
  <1>1. ASSUME IInv, [Next]_vars
        PROVE  [Abstract!Next]_(Abstract!vars)
    <2>1. CASE Next
      <3>1. CASE UNCHANGED <<MissionPhase, mission, override>>
        BY <3>1 DEF Abstract!vars
      <3> QED BY <1>1, <2>1, <3>1, NextRefines
    <2>2. CASE UNCHANGED vars
      <3>1. UNCHANGED <<MissionPhase, mission, override>>
        BY <2>2 DEF vars, MissionPhase, HasActiveLane, laneVars
      <3> QED BY <3>1 DEF Abstract!vars
    <2> QED BY <1>1, <2>1, <2>2
  <1> QED BY <1>1, InitRefines, MissionInvariant, PTL DEF Spec, ImplementsMission, Abstract!Spec
=============================================================================
